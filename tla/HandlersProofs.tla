--------------------------- MODULE HandlersProofs --------------------------
(***************************************************************************)
(* Proofs about the handlers, for any number of sessions, paths, requests  *)
(* and file systems to start from.                                         *)
(*                                                                         *)
(* Every way to answer a request gives a response that is right for what   *)
(* the session has seen (Right) and does to the files what the answer says *)
(* (Promised), whatever paths the kernel denies the server meanwhile.  One *)
(* lemma shows that for each handler; the theorems follow from those       *)
(* lemmas and from SeenOf, which says what a waiting handler has seen: how *)
(* the file is now, and how it was when the handler looked.                *)
(***************************************************************************)
EXTENDS Handlers, FiniteSetTheorems, TLAPS

\* What stat() may tell.
Looks == {i \in Entries : i.kind = "error" => ~i.readable}

SeenOf(st, h) ==
  /\ h.seen \subseteq Looks /\ IsFiniteSet(h.seen)
  /\ Reads(h.req) => Stat(st, h.req.path) \in h.seen /\ h.info \in h.seen

\* What holds of a response to r after seen, whatever is in the files.
SizesRight(r, seen, response) ==
  /\ r.method = "HEAD" => response.body = 0
  /\ r.method # "HEAD" /\ Cardinality(seen) <= 1 => response.length = response.body

TrueOf(r, seen, denied, response) ==
  Reads(r) /\ Allowed(r) /\ ~RunsScript(r, r.path)
    /\ ~(\E info \in seen : info.kind = "dir") =>
      CASE response.status = 404 -> \E i \in seen : i.kind = "none"
        [] response.status = 403 -> \E i \in seen : ~i.readable
        [] response.status = 204 -> \E i \in seen : i.kind = "file" /\ i.size = 0
        [] response.status = 200 ->
             \E i \in seen : i.kind = "file" /\ i.size = response.length
        [] OTHER -> response.status = 500 /\ (denied \/ \E i \in seen : i.kind # "file")

Right(r, seen, denied, response) ==
  response \in Responses /\ SizesRight(r, seen, response) /\ TrueOf(r, seen, denied, response)

\* What the history says of a denial.
Denied(r, denied) == Reads(r) /\ r.path \in denied

HandlersInv ==
  /\ TypeOK
  /\ \A s \in Sessions :
       /\ session[s].state = "handled" => SeenOf(store, session[s])
       /\ Answered(s) => Right(session[s].req, session[s].seen, session[s].denied, session[s].response)

\* The step does to the files what an answer to r of some status says.
Promised(r, status) ==
  LET a == [given |-> TRUE, req |-> r, status |-> status]
  IN  FS!Put(a) \/ FS!Upload(a) \/ FS!CutOff(a) \/ FS!Delete(a) \/ FS!Other(a)

\* The step answers s as it should.
AnswersWell(s) ==
  \E denied \in Denials, response \in Responses, st \in FileSystems :
    /\ Answer(s, denied, response, st)
    /\ Right(session[s].req, session[s].seen, Denied(session[s].req, denied), response)
    /\ Promised(session[s].req, response.status)

-----------------------------------------------------------------------------
(* The file system.                                                        *)

LEMMA StatLooks ==
  ASSUME NEW st \in FileSystems, NEW p
  PROVE  Stat(st, p) \in Looks
BY DEF Stat, Looks, FileSystems, Entries, Kinds, NotThere, Unreachable

LEMMA ReadsWhatIsThere ==
  ASSUME NEW st \in FileSystems, NEW p, NEW denied, OpensToRead(st, p, denied)
  PROVE  p \in Paths /\ st[p] = Stat(st, p) /\ st[p].kind = "file" /\ st[p].size \in Nat
BY DEF OpensToRead, Stat, FileSystems, Entries, NotThere, Unreachable

LEMMA SomethingThere ==
  ASSUME NEW st \in FileSystems, NEW p \in Paths, Stat(st, p).kind # "error"
  PROVE  Stat(st, p) = st[p]
BY DEF Stat, Unreachable

LEMMA WrittenThere ==
  ASSUME NEW st \in FileSystems, NEW p \in Paths, NEW denied, OpensToWrite(st, p, denied),
         NEW kept \in Nat
  PROVE  LET new == Written(st, p, kept)
         IN  /\ new \in FileSystems
             /\ new[p].kind = "file" /\ new[p].size = kept
             /\ \A q \in Paths \ {p} : new[q] = st[q]
<1> DEFINE new == Written(st, p, kept)
           readable == st[p].kind = "none" \/ st[p].readable
           entry == [kind |-> "file", size |-> kept, readable |-> readable]
<1>1. st \in [Paths -> Entries]
  BY DEF FileSystems
<1>2. readable \in BOOLEAN
  OBVIOUS
<1>3. new = [st EXCEPT ![p] = entry]
  BY <1>1 DEF Written
<1>4. entry \in Entries /\ entry.kind = "file" /\ entry.size = kept
  BY <1>2 DEF Entries, Kinds
<1> HIDE DEF entry
<1>5. /\ new \in [Paths -> Entries] /\ new[p] = entry
      /\ \A q \in Paths \ {p} : new[q] = st[q]
  BY <1>1, <1>3, <1>4
<1> HIDE DEF new
<1>6. st[p].kind \in {"file", "none"}
  BY DEF OpensToWrite, Stat, Unreachable
<1>7. ASSUME NEW q \in Paths, NEW below \in Paths,
             IsStrictPrefix(q, below), new[below].kind # "none"
      PROVE  new[q].kind = "dir"
  <2>1. CASE below # p
    <3>1. st[q].kind = "dir"
      BY <1>5, <1>7, <2>1 DEF FileSystems
    <3> QED
      BY <1>5, <1>6, <3>1
  <2>2. CASE below = p
    <3>1. q # p
      BY <1>7, <2>2 DEF IsStrictPrefix
    <3>2. st[q].kind = "dir"
      <4>1. CASE st[p].kind = "file"
        BY <1>7, <2>2, <4>1 DEF FileSystems
      <4>2. CASE st[p].kind = "none"
        BY <1>7, <2>2, <4>2 DEF OpensToWrite, Stat, Above, Unreachable
      <4> QED
        BY <1>6, <4>1, <4>2
    <3> QED
      BY <1>5, <3>1, <3>2
  <2> QED
    BY <2>1, <2>2
<1>8. \A q \in Paths : new[q].kind # "error"
  BY <1>4, <1>5 DEF FileSystems
<1>9. new \in FileSystems
  BY <1>5, <1>7, <1>8 DEF FileSystems
<1> QED
  BY <1>4, <1>5, <1>9 DEF new

LEMMA RemovedThere ==
  ASSUME store \in FileSystems, NEW p \in Paths,
         \A q \in Paths : IsStrictPrefix(p, q) => store[q].kind = "none"
  PROVE  /\ Removed(p) \in FileSystems
         /\ Removed(p)[p].kind = "none"
         /\ \A q \in Paths \ {p} : Removed(p)[q] = store[q]
<1>1. store \in [Paths -> Entries] /\ NotThere \in Entries /\ NotThere.kind = "none"
  BY DEF FileSystems, NotThere, Entries, Kinds
<1>2. /\ Removed(p) \in [Paths -> Entries] /\ Removed(p)[p] = NotThere
      /\ \A q \in Paths \ {p} : Removed(p)[q] = store[q]
  BY <1>1 DEF Removed
<1>3. \A q, below \in Paths : IsStrictPrefix(q, below) /\ Removed(p)[below].kind # "none"
                               => Removed(p)[q].kind = "dir"
  BY <1>1, <1>2 DEF FileSystems
<1>4. \A q \in Paths : Removed(p)[q].kind # "error"
  BY <1>1, <1>2 DEF FileSystems
<1> QED
  BY <1>1, <1>2, <1>3, <1>4 DEF FileSystems

-----------------------------------------------------------------------------
(* Responses.                                                              *)

\* The responses that suit a request whatever is in the files: a body goes
\* with what the header says, and none goes to HEAD.
Sized(r, response) ==
  /\ response \in Responses
  /\ response.body = Unless(r, response.length)

LEMMA SizedRight ==
  ASSUME NEW r, NEW seen, NEW response, Sized(r, response)
  PROVE  response \in Responses /\ SizesRight(r, seen, response)
BY DEF Sized, SizesRight, Unless, Responses

\* The statuses, by a name that keeps the numbers out of the proofs.
Statuses == 200..599

LEMMA PlainSized ==
  ASSUME NEW r, NEW status \in Statuses, NEW size \in Nat
  PROVE  /\ Sized(r, Response(status, 0, 0))
         /\ Sized(r, Response(status, size, Unless(r, size)))
         /\ r.method # "HEAD" => Sized(r, Response(status, size, size))
BY DEF Statuses, Sized, Responses, Response, Unless

LEMMA ErrorSized ==
  ASSUME NEW st \in FileSystems, NEW r \in Requests, NEW status \in Statuses, NEW denied
  PROVE  Sized(r, Error(st, r, status, denied)) /\ Error(st, r, status, denied).status = status
<1> DEFINE page == IF status \in DOMAIN r.loc.pages THEN r.loc.pages[status] ELSE <<>>
           size == IF page \in Paths /\ OpensToRead(st, page, denied) /\ st[page].size > 0
                   THEN st[page].size ELSE BuiltInPage
<1>1. size \in Nat
  BY ReadsWhatIsThere, FilesAssumption
<1>2. Error(st, r, status, denied) = IF status = 204 THEN Response(204, 0, 0)
                             ELSE Response(status, size, Unless(r, size))
  BY DEF Error
<1> HIDE DEF size
<1>3. Sized(r, Response(204, 0, 0)) /\ Sized(r, Response(status, size, Unless(r, size)))
  <2>1. 204 \in Statuses
    BY DEF Statuses
  <2> QED
    BY <1>1, <2>1, PlainSized, ZenonT(30)
<1>4. Response(204, 0, 0).status = 204 /\ Response(status, size, Unless(r, size)).status = status
  BY DEF Response
<1>5. CASE status = 204
  BY <1>2, <1>3, <1>4, <1>5
<1>6. CASE status # 204
  BY <1>2, <1>3, <1>4, <1>6
<1> QED
  BY <1>5, <1>6

LEMMA CgiSized ==
  ASSUME store \in FileSystems, NEW r \in Requests, NEW denied, NEW response \in RunCgi(r, denied)
  PROVE  Sized(r, response)
<1>1. ASSUME NEW status \in {500, 502}, response = Error(store, r, status, denied)
      PROVE  Sized(r, response)
  <2>1. status \in Statuses
    BY DEF Statuses
  <2> QED
    BY <1>1, <2>1, ErrorSized
<1>2. CASE \E c \in CgiResults : response = Response(c.status, c.size, Unless(r, c.size))
  <2>1. PICK c \in CgiResults : response = Response(c.status, c.size, Unless(r, c.size))
    BY <1>2
  <2>2. c \in [status : Statuses, size : Nat]
    BY FilesAssumption, ZenonT(30) DEF Statuses
  <2> QED
    BY <2>1, <2>2, PlainSized, Zenon
<1> QED
  BY <1>1, <1>2 DEF RunCgi

-----------------------------------------------------------------------------
(* Each action answers as it should.                                       *)

\* An answer that changes no file and says none has changed.
LEMMA ChangesNothing ==
  ASSUME HandlersInv, NEW s \in Sessions, NEW denied \in Denials, NEW response,
         Sized(session[s].req, response),
         TrueOf(session[s].req, session[s].seen, Denied(session[s].req, denied), response),
         ~FS!SaysStored([given |-> TRUE, req |-> session[s].req, status |-> response.status]),
         ~FS!SaysRemoved([given |-> TRUE, req |-> session[s].req, status |-> response.status]),
         Answer(s, denied, response, store)
  PROVE  AnswersWell(s)
<1>1. /\ response \in Responses
      /\ Right(session[s].req, session[s].seen, Denied(session[s].req, denied), response)
  BY SizedRight DEF Right
<1>2. store' = store /\ store \in FileSystems
  BY DEF Answer, HandlersInv, TypeOK
<1>3. Promised(session[s].req, response.status)
  BY <1>2 DEF Promised, FS!Other
<1> QED
  BY <1>1, <1>2, <1>3 DEF AnswersWell

\* A refusal of a request that is no GET or may not be made: its status is
\* none that a stored or removed file has.
Refusal(r, status) ==
  /\ status \in 200..599
  /\ Reads(r) => ~Allowed(r)
  /\ status \notin {200, 201, 204} \/ (r.method = "POST" /\ status = 204)

LEMMA Refuses ==
  ASSUME HandlersInv, NEW s \in Sessions, NEW denied \in Denials, NEW status,
         session[s].req \in Requests, Refusal(session[s].req, status),
         Fail(s, denied, status)
  PROVE  AnswersWell(s)
<1> DEFINE r == session[s].req
           response == Error(store, r, status, denied)
<1>1. Sized(r, response) /\ response.status = status
  <2>1. store \in FileSystems
    BY DEF HandlersInv, TypeOK
  <2>2. r \in Requests /\ status \in Statuses
    BY DEF Refusal, Statuses
  <2> HIDE DEF r
  <2> QED
    BY <2>1, <2>2, ErrorSized, SMTT(60)
<1>2. TrueOf(r, session[s].seen, Denied(r, denied), response)
  BY DEF TrueOf, Refusal
<1> HIDE DEF response
<1>3. /\ ~FS!SaysStored([given |-> TRUE, req |-> r, status |-> response.status])
      /\ ~FS!SaysRemoved([given |-> TRUE, req |-> r, status |-> response.status])
  BY <1>1 DEF FS!SaysStored, FS!SaysRemoved, Refusal
<1> QED
  BY <1>1, <1>2, <1>3, ChangesNothing DEF response, Fail

LEMMA HandledShape ==
  ASSUME HandlersInv, NEW s \in Sessions, session[s].state = "handled"
  PROVE  /\ session[s].req \in Requests /\ session[s].info \in Entries
         /\ session[s].seen \in SUBSET Entries /\ SeenOf(store, session[s])
         /\ store \in FileSystems
BY DEF HandlersInv, TypeOK, Waiting, Done, Idle

LEMMA RefuseAnswers ==
  ASSUME HandlersInv, NEW s \in Sessions, NEW denied \in Denials, Refuse(s, denied)
  PROVE  AnswersWell(s)
<1> DEFINE r == session[s].req
<1>1. r \in Requests /\ store \in FileSystems
  BY HandledShape DEF Refuse
<1>2. ~Allowed(r) \/ ~Known(r)
  BY DEF Refuse, Allowed
<1>3. Reads(r) => ~Allowed(r)
  BY <1>2 DEF Known, Reads
<1>4. ASSUME NEW status \in {501, 505, 405}, Fail(s, denied, status)
      PROVE  AnswersWell(s)
  <2>1. Refusal(r, status)
    BY <1>3 DEF Refusal
  <2> QED
    BY <1>1, <1>4, <2>1, Refuses, ZenonT(60)
<1>5. CASE Known(r) /\ Redirected(r) /\ Answer(s, denied, Response(r.loc.redirect, 0, 0), store)
  <2> DEFINE response == Response(r.loc.redirect, 0, 0)
  <2>1. r.loc.redirect \in 300..399
    BY <1>1, <1>5, RequestsAssumption, SMTT(60) DEF Redirected
  <2>2. Sized(r, response) /\ response.status \in 300..399
    <3> DEFINE code == r.loc.redirect
    <3>1. code \in 300..399 /\ response = Response(code, 0, 0)
      BY <2>1
    <3> HIDE DEF code, r, response
    <3>2. code \in Statuses
      BY <3>1 DEF Statuses
    <3>3. Sized(r, response)
      BY <3>1, <3>2, PlainSized, Zenon
    <3>4. Response(code, 0, 0).status = code
      BY DEF Response
    <3> QED
      BY <3>1, <3>3, <3>4
  <2>3. TrueOf(r, session[s].seen, Denied(r, denied), response)
    BY <1>3 DEF TrueOf
  <2> HIDE DEF response
  <2>4. /\ ~FS!SaysStored([given |-> TRUE, req |-> r, status |-> response.status])
        /\ ~FS!SaysRemoved([given |-> TRUE, req |-> r, status |-> response.status])
    BY <2>2 DEF FS!SaysStored, FS!SaysRemoved
  <2> QED
    BY <1>5, <2>2, <2>3, <2>4, ChangesNothing, ZenonT(30) DEF response
<1> QED
  BY <1>4, <1>5 DEF Refuse

\* A file that is stored: the status tells how.
LEMMA PutAnswers ==
  ASSUME HandlersInv, NEW s \in Sessions, NEW denied \in Denials, Put(s, denied)
  PROVE  AnswersWell(s)
<1> DEFINE r == session[s].req
<1>1. /\ r \in Requests /\ store \in FileSystems /\ r.path \in Paths /\ r.size \in Nat
      /\ r.method = "PUT"
  BY HandledShape, RequestsAssumption DEF Put, Handles
<1>2. CASE ~OpensToWrite(store, r.path, denied)
  <2>1. Fail(s, denied, 403)
    BY <1>2 DEF Put
  <2>2. Refusal(r, 403)
    BY <1>1 DEF Refusal, Reads
  <2> QED
    BY <1>1, <2>1, <2>2, Refuses, ZenonT(30)
<1>3. CASE OpensToWrite(store, r.path, denied)
  <2>1. PICK kept \in Writing(r.size) :
          LET st == Written(store, r.path, kept)
              status == IF Noticed(r.size, kept) THEN 500 ELSE IF Creates(r) THEN 201 ELSE 200
          IN  Answer(s, denied, Error(st, r, status, denied), st)
    BY <1>3 DEF Put
  <2> DEFINE st == Written(store, r.path, kept)
             status == IF Noticed(r.size, kept) THEN 500 ELSE IF Creates(r) THEN 201 ELSE 200
             response == Error(st, r, status, denied)
             a == [given |-> TRUE, req |-> r, status |-> status]
  <2>2. /\ kept \in Nat /\ kept \in IF DiskMayFill THEN 0..r.size ELSE {r.size}
        /\ kept < r.size => DiskMayFill
    BY <1>1 DEF Writing
  <2>3. /\ st \in FileSystems /\ st[r.path].kind = "file" /\ st[r.path].size = kept
        /\ \A q \in Paths \ {r.path} : st[q] = store[q]
    BY <1>1, <1>3, <2>2, WrittenThere
  <2>4. Answer(s, denied, response, st)
    BY <2>1
  <2>5. store' = st
    BY <2>4 DEF Answer
  <2>6. FS!Stored(r.path, r.size)
    BY <2>2, <2>3, <2>5 DEF FS!Stored, FS!Becomes
  <2>7. Creates(r) <=> store[r.path].kind = "none"
    <3>1. Stat(store, r.path).kind # "error"
      BY <1>3 DEF OpensToWrite
    <3> QED
      BY <1>1, <3>1, SomethingThere DEF Creates
  <2>8. FS!Put(a) \/ FS!CutOff(a)
    <3>1. CASE Noticed(r.size, kept)
      <4>1. status = 500 /\ DiskMayFill
        BY <2>2, <3>1 DEF Noticed
      <4> QED
        BY <1>1, <2>6, <4>1 DEF FS!CutOff
    <3>2. CASE ~Noticed(r.size, kept)
      <4>1. status = IF store[r.path].kind = "none" THEN 201 ELSE 200
        BY <2>7, <3>2
      <4> QED
        BY <1>1, <2>6, <4>1 DEF FS!Put, FS!SaysStored, FS!Absent
    <3> QED
      BY <3>1, <3>2
  <2>9. status \in Statuses
    BY DEF Statuses
  <2> HIDE DEF st, status
  <2>10. Sized(r, response) /\ response.status = status
    BY <1>1, <2>3, <2>9, ErrorSized, Zenon
  <2>11. Right(r, session[s].seen, Denied(r, denied), response)
    BY <1>1, <2>10, SizedRight DEF Right, TrueOf, Reads
  <2>12. Promised(r, response.status)
    BY <2>8, <2>10 DEF Promised
  <2> HIDE DEF response
  <2> QED
    BY <2>3, <2>4, <2>11, <2>12 DEF AnswersWell, Right
<1> QED
  BY <1>2, <1>3

\* An upload: what it is stored as was not there.
LEMMA PostFileAnswers ==
  ASSUME HandlersInv, NEW s \in Sessions, NEW denied \in Denials,
         session[s].state = "handled", session[s].req.method = "POST",
         session[s].req.path \notin session[s].req.loc.cgi,
         PostFile(s, session[s].req, denied)
  PROVE  AnswersWell(s)
<1> DEFINE r == session[s].req
<1>1. /\ r \in Requests /\ store \in FileSystems /\ r.file \in Paths /\ r.part \in Nat
  BY HandledShape, RequestsAssumption, SMTT(30)
<1>2. ASSUME NEW status \in {400, 409, 403}, Fail(s, denied, status)
      PROVE  AnswersWell(s)
  <2>1. Refusal(r, status)
    BY <1>1 DEF Refusal, Reads
  <2> QED
    BY <1>2, <2>1, HandledShape, Refuses, SMTT(60)
<1>3. CASE r.form # "broken" /\ ~FileTaken(s) /\ OpensToWrite(store, r.file, denied)
  <2> DEFINE Fails(kept) == r.form = "crossed" \/ Noticed(r.part, kept)
  <2>1. PICK kept \in IF r.form = "crossed" THEN {0} ELSE Writing(r.part) :
          LET st == Written(store, r.file, kept)
          IN  Answer(s, denied, IF Fails(kept) THEN Error(st, r, 500, denied)
                        ELSE Response(201, BuiltInPage, BuiltInPage), st)
    BY <1>3 DEF PostFile
  <2> DEFINE st == Written(store, r.file, kept)
             response == IF Fails(kept) THEN Error(st, r, 500, denied)
                         ELSE Response(201, BuiltInPage, BuiltInPage)
             status == IF Fails(kept) THEN 500 ELSE 201
             a == [given |-> TRUE, req |-> r, status |-> status]
  <2>2. /\ kept \in Nat /\ kept \in 0..r.part
        /\ r.form # "crossed" => kept \in IF DiskMayFill THEN 0..r.part ELSE {r.part}
    BY <1>1 DEF Writing
  <2>3. /\ st \in FileSystems /\ st[r.file].kind = "file" /\ st[r.file].size = kept
        /\ \A q \in Paths \ {r.file} : st[q] = store[q]
    BY <1>1, <1>3, <2>2, WrittenThere
  <2>4. Answer(s, denied, response, st)
    BY <2>1
  <2>5. store' = st
    BY <2>4 DEF Answer
  <2>6. FS!Absent(r.file)
    <3>1. Stat(store, r.file).kind = "none"
      BY <1>3 DEF FileTaken
    <3> QED
      BY <1>1, <3>1, SomethingThere DEF FS!Absent
  <2>7. FS!Upload(a) \/ FS!CutOff(a)
    <3>1. CASE Fails(kept)
      <4>1. FS!Becomes(r.file, 0..r.part)
        BY <2>2, <2>3, <2>5 DEF FS!Becomes
      <4> QED
        BY <2>6, <3>1, <4>1 DEF FS!CutOff
    <3>2. CASE ~Fails(kept)
      <4>1. FS!Stored(r.file, r.part)
        BY <2>2, <2>3, <2>5, <3>2 DEF FS!Stored, FS!Becomes
      <4> QED
        BY <2>6, <3>2, <4>1 DEF FS!Upload, FS!SaysStored
    <3> QED
      BY <3>1, <3>2
  <2> HIDE DEF st
  <2>8. Sized(r, response) /\ response.status = status
    <3>1. CASE Fails(kept)
      <4>1. 500 \in Statuses
        BY DEF Statuses
      <4>2. Sized(r, Error(st, r, 500, denied)) /\ Error(st, r, 500, denied).status = 500
        BY <1>1, <2>3, <4>1, ErrorSized
      <4> QED
        BY <3>1, <4>2
    <3>2. CASE ~Fails(kept)
      <4>1. Sized(r, Response(201, BuiltInPage, BuiltInPage))
        <5>1. 201 \in Statuses /\ BuiltInPage \in Nat /\ r.method # "HEAD"
          BY FilesAssumption DEF Statuses
        <5> HIDE DEF r
        <5> QED
          BY <5>1, PlainSized, ZenonT(60)
      <4>2. Response(201, BuiltInPage, BuiltInPage).status = 201
        BY DEF Response
      <4> QED
        BY <3>2, <4>1, <4>2
    <3> QED
      BY <3>1, <3>2
  <2> HIDE DEF response
  <2>9. Right(r, session[s].seen, Denied(r, denied), response)
    BY <2>8, SizedRight DEF Right, TrueOf, Reads
  <2>10. Promised(r, response.status)
    BY <2>7, <2>8 DEF Promised
  <2> QED
    BY <2>3, <2>4, <2>9, <2>10 DEF AnswersWell, Right
<1> QED
  BY <1>2, <1>3 DEF PostFile

\* A script answers for itself and leaves the files alone.
LEMMA PostCgiAnswers ==
  ASSUME HandlersInv, NEW s \in Sessions, NEW denied \in Denials,
         session[s].state = "handled", session[s].req.method = "POST",
         session[s].req.path \in session[s].req.loc.cgi,
         PostCgi(s, session[s].req, session[s].info, denied)
  PROVE  AnswersWell(s)
<1> DEFINE r == session[s].req
<1>1. r \in Requests /\ store \in FileSystems
  BY HandledShape
<1>2. ASSUME NEW status \in {404, 403}, Fail(s, denied, status)
      PROVE  AnswersWell(s)
  <2>1. Refusal(r, status)
    BY DEF Refusal, Reads
  <2> QED
    BY <1>2, <2>1, HandledShape, Refuses, SMTT(60)
<1>3. ASSUME NEW response \in RunCgi(r, denied), Answer(s, denied, response, store)
      PROVE  AnswersWell(s)
  <2>1. Sized(r, response)
    BY <1>1, <1>3, CgiSized
  <2>2. /\ ~FS!SaysStored([given |-> TRUE, req |-> r, status |-> response.status])
        /\ ~FS!SaysRemoved([given |-> TRUE, req |-> r, status |-> response.status])
    BY <1>1 DEF FS!SaysStored, FS!SaysRemoved
  <2>3. TrueOf(r, session[s].seen, Denied(r, denied), response)
    BY DEF TrueOf, Reads
  <2> QED
    BY <1>3, <2>1, <2>2, <2>3, ChangesNothing
<1> QED
  BY <1>2, <1>3 DEF PostCgi

LEMMA PostAnswers ==
  ASSUME HandlersInv, NEW s \in Sessions, NEW denied \in Denials, Post(s, denied)
  PROVE  AnswersWell(s)
<1> DEFINE r == session[s].req
<1>1. r \in Requests /\ session[s].state = "handled" /\ r.method = "POST"
  BY HandledShape DEF Post, Handles
<1>2. ASSUME NEW status \in {413, 204, 202, 404}, Fail(s, denied, status)
      PROVE  AnswersWell(s)
  <2>1. Refusal(r, status)
    BY <1>1 DEF Refusal, Reads
  <2>2. r \in Requests
    BY <1>1
  <2> QED
    BY <1>2, <2>1, <2>2, Refuses, ZenonT(60)
<1>3. CASE r.path \in r.loc.cgi /\ PostCgi(s, r, session[s].info, denied)
  BY <1>1, <1>3, PostCgiAnswers
<1>4. CASE r.path \notin r.loc.cgi /\ PostFile(s, r, denied)
  BY <1>1, <1>4, PostFileAnswers
<1> QED
  BY <1>2, <1>3, <1>4 DEF Post

\* What is removed was there, and nothing was in it.
LEMMA DeleteAnswers ==
  ASSUME HandlersInv, NEW s \in Sessions, NEW denied \in Denials, Delete(s, denied)
  PROVE  AnswersWell(s)
<1> DEFINE r == session[s].req
           info == Stat(store, r.path)
<1>1. /\ r \in Requests /\ store \in FileSystems /\ r.path \in Paths /\ r.method = "DELETE"
  BY HandledShape, RequestsAssumption DEF Delete, Handles
<1>2. ASSUME NEW status \in {404, 403, 409, 500}, Fail(s, denied, status)
      PROVE  AnswersWell(s)
  <2>1. Refusal(r, status)
    BY <1>1 DEF Refusal, Reads
  <2>2. r \in Requests
    BY <1>1
  <2> QED
    BY <1>2, <2>1, <2>2, Refuses, ZenonT(60)
<1>3. CASE /\ info.kind \in {"file", "dir"} /\ ~(info.kind = "dir" /\ ~Empty(r.path))
           /\ Answer(s, denied, Response(204, 0, 0), Removed(r.path))
  <2> DEFINE response == Response(204, 0, 0)
             a == [given |-> TRUE, req |-> r, status |-> 204]
  <2>1. info = store[r.path]
    BY <1>1, <1>3, SomethingThere
  <2>2. \A q \in Paths : IsStrictPrefix(r.path, q) => store[q].kind = "none"
    <3>1. CASE info.kind = "dir"
      BY <1>3, <3>1 DEF Empty
    <3>2. CASE info.kind # "dir"
      BY <1>1, <2>1, <3>2 DEF FileSystems
    <3> QED
      BY <3>1, <3>2
  <2>3. /\ Removed(r.path) \in FileSystems /\ Removed(r.path)[r.path].kind = "none"
        /\ \A q \in Paths \ {r.path} : Removed(r.path)[q] = store[q]
    BY <1>1, <2>2, RemovedThere
  <2>4. store' = Removed(r.path)
    BY <1>3 DEF Answer
  <2>5. FS!Delete(a)
    <3>1. \A q \in Paths : FS!IsStrictPrefix(r.path, q) <=> IsStrictPrefix(r.path, q)
      BY DEF FS!IsStrictPrefix, FS!IsPrefix, IsStrictPrefix, IsPrefix
    <3> QED
      BY <1>1, <1>3, <2>1, <2>2, <2>3, <2>4, <3>1 DEF FS!Delete, FS!SaysRemoved, FS!Absent
  <2>6. Sized(r, response) /\ response.status = 204
    <3>1. 204 \in Statuses /\ response.status = 204
      BY DEF Response, Statuses
    <3> QED
      BY <3>1, PlainSized, SMTT(30)
  <2> HIDE DEF response
  <2>7. Right(r, session[s].seen, Denied(r, denied), response)
    BY <1>1, <2>6, SizedRight DEF Right, TrueOf, Reads
  <2>8. Promised(r, response.status)
    BY <2>5, <2>6 DEF Promised
  <2> QED
    BY <1>3, <2>3, <2>7, <2>8 DEF AnswersWell, Right, response
<1> QED
  BY <1>2, <1>3 DEF Delete

-----------------------------------------------------------------------------
(* GET and HEAD.                                                           *)

\* Two looks that differ: the file has changed since the request.
LEMMA HasChanged ==
  ASSUME NEW seen, IsFiniteSet(seen), NEW i \in seen, NEW j \in seen, i # j
  PROVE  Cardinality(seen) \in Nat /\ Cardinality(seen) > 1
<1>1. Cardinality(seen) \in Nat
  BY FS_CardinalityType
<1>2. Cardinality(seen) # 0
  BY FS_EmptySet
<1>3. Cardinality(seen) # 1
  BY FS_Singleton
<1> QED
  BY <1>1, <1>2, <1>3

\* GetHandler::getFile of a file whose size info has: the file of the request,
\* or an index file that has just been looked at.
LEMMA GetFileRight ==
  ASSUME HandlersInv, NEW s \in Sessions, NEW denied \in Denials,
         session[s].state = "handled", Reads(session[s].req), NEW info \in Looks, NEW p,
         info.kind = "file",
         \/ p = session[s].req.path /\ info \in session[s].seen
         \/ info = Stat(store, p) /\ \E i \in session[s].seen : i.kind = "dir",
         NEW response \in GetFile(session[s].req, info, p, denied)
  PROVE  Right(session[s].req, session[s].seen, Denied(session[s].req, denied), response)
<1> DEFINE r == session[s].req
           seen == session[s].seen
<1>1. /\ r \in Requests /\ store \in FileSystems /\ IsFiniteSet(seen)
      /\ Stat(store, r.path) \in seen /\ info.size \in Nat
  BY HandledShape DEF SeenOf, Looks, Entries
<1>2. CASE RunsScript(r, p)
  <2>1. Sized(r, response)
    BY <1>1, <1>2, CgiSized DEF GetFile
  <2>2. TrueOf(r, seen, Denied(r, denied), response)
    BY <1>2 DEF TrueOf
  <2> QED
    BY <2>1, <2>2, SizedRight DEF Right
<1>3. CASE ~RunsScript(r, p) /\ ~OpensToRead(store, p, denied)
  <2>1. response = Error(store, r, 500, denied) /\ 500 \in Statuses
    BY <1>3 DEF GetFile, Statuses
  <2>2. Sized(r, response) /\ response.status = 500
    BY <1>1, <2>1, ErrorSized
  <2>3. CASE p = r.path
    <3>1. Denied(r, denied) \/ Stat(store, r.path).kind # "file"
      BY <1>3, <2>3 DEF OpensToRead, Denied
    <3> QED
      BY <1>1, <2>2, <3>1, SizedRight DEF Right, TrueOf
  <2>4. CASE \E i \in seen : i.kind = "dir"
    BY <2>2, <2>4, SizedRight DEF Right, TrueOf
  <2> QED
    BY <2>3, <2>4
<1>4. CASE ~RunsScript(r, p) /\ OpensToRead(store, p, denied) /\ info.size = 0
  <2>1. response = Error(store, r, 204, denied) /\ 204 \in Statuses
    BY <1>4 DEF GetFile, Statuses
  <2>2. Sized(r, response) /\ response.status = 204
    BY <1>1, <2>1, ErrorSized
  <2> QED
    BY <1>4, <2>2, SizedRight DEF Right, TrueOf
<1>5. CASE ~RunsScript(r, p) /\ OpensToRead(store, p, denied) /\ info.size # 0
  <2>1. response = Response(200, info.size, Unless(r, store[p].size))
    BY <1>5 DEF GetFile
  <2>2. store[p] = Stat(store, p) /\ store[p].size \in Nat
    BY <1>1, <1>5, ReadsWhatIsThere
  <2>3. /\ response \in Responses /\ response.status = 200 /\ response.length = info.size
        /\ response.body = Unless(r, store[p].size)
    BY <1>1, <2>1, <2>2 DEF Response, Responses, Unless
  <2>4. r.method # "HEAD" /\ Cardinality(seen) <= 1 => info = Stat(store, p)
    BY <1>1, HasChanged
  <2> QED
    BY <1>5, <2>2, <2>3, <2>4 DEF Right, SizesRight, TrueOf, Unless
<1> QED
  BY <1>2, <1>3, <1>4, <1>5

\* GetHandler::getDirectory
LEMMA GetDirectoryRight ==
  ASSUME HandlersInv, NEW s \in Sessions, NEW denied \in Denials,
         session[s].state = "handled", Reads(session[s].req),
         NEW info \in session[s].seen, info.kind = "dir",
         NEW response \in GetDirectory(session[s].req, info, denied)
  PROVE  Right(session[s].req, session[s].seen, Denied(session[s].req, denied), response)
<1> DEFINE r == session[s].req
           seen == session[s].seen
           p == IndexFile(r)
<1>1. r \in Requests /\ store \in FileSystems
  BY HandledShape
<1>2. ASSUME Sized(r, response) PROVE Right(r, seen, Denied(r, denied), response)
  BY <1>2, SizedRight DEF Right, TrueOf
<1>3. ASSUME NEW status \in {404, 500}, response = Error(store, r, status, denied)
      PROVE  Right(r, seen, Denied(r, denied), response)
  <2>1. status \in Statuses
    BY DEF Statuses
  <2> HIDE DEF r, seen
  <2> QED
    BY <1>1, <1>2, <1>3, <2>1, ErrorSized
<1>4. CASE response = Response(200, Listing, Unless(r, Listing))
  <2>1. 200 \in Statuses /\ Listing \in Nat
    BY FilesAssumption DEF Statuses
  <2>2. Sized(r, Response(200, Listing, Unless(r, Listing)))
    <3> HIDE DEF r
    <3> QED
      BY <2>1, PlainSized, ZenonT(30)
  <2> QED
    BY <1>2, <1>4, <2>2
<1>5. CASE response \in GetFile(r, Stat(store, p), p, denied)
  <2>1. CASE RunsScript(r, p)
    BY <1>1, <1>2, <1>5, <2>1, CgiSized DEF GetFile
  <2>2. CASE ~RunsScript(r, p) /\ ~OpensToRead(store, p, denied)
    BY <1>3, <1>5, <2>2 DEF GetFile
  <2>3. CASE Stat(store, p).kind = "file"
    BY <1>1, <1>5, <2>3, StatLooks, GetFileRight
  <2> QED
    BY <2>1, <2>2, <2>3 DEF OpensToRead
<1> QED
  BY <1>3, <1>4, <1>5 DEF GetDirectory

LEMMA GetAnswers ==
  ASSUME HandlersInv, NEW s \in Sessions, NEW denied \in Denials, Get(s, denied)
  PROVE  AnswersWell(s)
<1> DEFINE r == session[s].req
           info == session[s].info
           seen == session[s].seen
<1>1. /\ r \in Requests /\ store \in FileSystems /\ session[s].state = "handled"
      /\ r.method \in {"GET", "HEAD"} /\ Reads(r) /\ info \in seen /\ info \in Looks
  BY HandledShape DEF Get, Handles, SeenOf, Reads
<1>2. PICK response \in Got(r, info, denied) : Answer(s, denied, response, store)
  BY DEF Get
<1>3. Right(r, seen, Denied(r, denied), response)
  <2>1. CASE info.kind = "none"
    <3>1. response = Error(store, r, 404, denied) /\ 404 \in Statuses
      BY <1>2, <2>1 DEF Got, Statuses
    <3>2. Sized(r, response) /\ response.status = 404
      BY <1>1, <3>1, ErrorSized
    <3> QED
      BY <1>1, <2>1, <3>2, SizedRight DEF Right, TrueOf
  <2>2. CASE info.kind # "none" /\ ~info.readable
    <3>1. response = Error(store, r, 403, denied) /\ 403 \in Statuses
      BY <1>2, <2>2 DEF Got, Statuses
    <3>2. Sized(r, response) /\ response.status = 403
      BY <1>1, <3>1, ErrorSized
    <3> QED
      BY <1>1, <2>2, <3>2, SizedRight DEF Right, TrueOf
  <2>3. CASE info.kind = "file" /\ info.readable
    BY <1>1, <1>2, <2>3, GetFileRight DEF Got
  <2>4. CASE info.kind \notin {"none", "file"} /\ info.readable
    <3>1. info.kind = "dir"
      BY <1>1, <2>4 DEF Looks, Entries, Kinds
    <3>2. response \in GetDirectory(r, info, denied)
      BY <1>2, <2>4 DEF Got
    <3> QED
      BY <1>1, <3>1, <3>2, GetDirectoryRight
  <2> QED
    BY <2>1, <2>2, <2>3, <2>4
<1>4. /\ ~FS!SaysStored([given |-> TRUE, req |-> r, status |-> response.status])
      /\ ~FS!SaysRemoved([given |-> TRUE, req |-> r, status |-> response.status])
  BY <1>1 DEF FS!SaysStored, FS!SaysRemoved
<1>5. store' = store
  BY <1>2 DEF Answer
<1>6. Promised(r, response.status)
  BY <1>4, <1>5 DEF Promised, FS!Other
<1> QED
  BY <1>1, <1>2, <1>3, <1>6 DEF AnswersWell, Right

-----------------------------------------------------------------------------
(* The invariant.                                                          *)

LEMMA InitHandlers == Init => HandlersInv
BY FilesAssumption DEF Init, HandlersInv, TypeOK, Idle, Answered

\* What the session says of a request that is being handled or was.
LEMMA HandleRequestInv ==
  ASSUME HandlersInv, NEW s \in Sessions, NEW r \in Requests, HandleRequest(s, r)
  PROVE  HandlersInv'
<1> DEFINE h == [state |-> "handled", req |-> r, info |-> Look(r),
                 seen |-> IF Reads(r) THEN {Stat(store, r.path)} ELSE {}]
<1>1. store \in FileSystems /\ store' = store
  BY DEF HandlersInv, TypeOK, HandleRequest
<1>2. Stat(store, r.path) \in Looks
  BY <1>1, StatLooks
<1>3. Look(r) \in Entries
  BY <1>2 DEF Look, Looks, NotThere, Entries, Kinds
<1>4. h \in Waiting
  BY <1>2, <1>3 DEF Waiting, Looks
<1>5. /\ session \in [Sessions -> {Idle} \union Waiting \union Done]
      /\ session' = [session EXCEPT ![s] = h]
  BY DEF HandlersInv, TypeOK, HandleRequest
<1>6. h.state = "handled" /\ SeenOf(store, h)
  <2>1. /\ h.seen = IF Reads(r) THEN {Stat(store, r.path)} ELSE {}
        /\ h.req = r /\ h.info = Look(r) /\ h.state = "handled"
    OBVIOUS
  <2>2. IsFiniteSet(h.seen)
    BY <2>1, FS_Singleton, FS_EmptySet
  <2>3. Reads(r) => Look(r) \in h.seen
    BY <2>1 DEF Look, Reads
  <2> HIDE DEF h
  <2> QED
    BY <1>2, <2>1, <2>2, <2>3 DEF SeenOf
<1> HIDE DEF h
<1>7. session'[s] = h /\ \A t \in Sessions \ {s} : session'[t] = session[t]
  BY <1>5
<1>8. TypeOK'
  BY <1>1, <1>4, <1>5 DEF TypeOK
<1>9. ASSUME NEW t \in Sessions
      PROVE  /\ session'[t].state = "handled" => SeenOf(store', session'[t])
             /\ Answered(t)' => Right(session[t].req, session[t].seen, session[t].denied, session[t].response)'
  <2>1. CASE t = s
    BY <1>1, <1>6, <1>7, <2>1 DEF Answered
  <2>2. CASE t # s
    BY <1>1, <1>7, <2>2 DEF HandlersInv, SeenOf, Answered, Stat, Above, Right, SizesRight, TrueOf
  <2> QED
    BY <2>1, <2>2
<1> QED
  BY <1>8, <1>9 DEF HandlersInv

LEMMA AnswerInv ==
  ASSUME HandlersInv, NEW s \in Sessions, session[s].state = "handled", AnswersWell(s)
  PROVE  HandlersInv'
<1>1. PICK denied \in Denials, response \in Responses, st \in FileSystems :
        /\ Answer(s, denied, response, st)
        /\ Right(session[s].req, session[s].seen, Denied(session[s].req, denied), response)
  BY DEF AnswersWell
<1> DEFINE h == [state |-> "answered", req |-> session[s].req, seen |-> session[s].seen,
                 denied |-> Denied(session[s].req, denied), response |-> response]
           sees(t) == [session[t] EXCEPT !.seen = @ \union {Stat(st, session[t].req.path)}]
<1>2. /\ store' = st
      /\ session' = [t \in Sessions |-> IF t = s THEN h
                                        ELSE IF session[t].state = "handled" /\ Reads(session[t].req)
                                        THEN sees(t) ELSE session[t]]
  BY <1>1 DEF Answer, Denied
<1>3. h \in Done
  BY HandledShape DEF Done, Denied
<1>4. ASSUME NEW t \in Sessions, session[t].state = "handled", Reads(session[t].req)
      PROVE  sees(t) \in Waiting /\ sees(t).state = "handled" /\ SeenOf(st, sees(t))
  <2>1. session[t] \in Waiting /\ SeenOf(store, session[t])
    BY <1>4 DEF HandlersInv, TypeOK, Done, Idle
  <2>2. Stat(st, session[t].req.path) \in Looks
    BY StatLooks
  <2>3. /\ sees(t).seen = session[t].seen \union {Stat(st, session[t].req.path)}
        /\ sees(t).req = session[t].req /\ sees(t).info = session[t].info
        /\ sees(t).state = "handled"
    BY <2>1 DEF Waiting
  <2>4. IsFiniteSet(sees(t).seen)
    <3>1. IsFiniteSet(session[t].seen)
      BY <2>1 DEF SeenOf
    <3> QED
      BY <2>3, <3>1, FS_AddElement
  <2>5. sees(t) \in Waiting
    BY <2>1, <2>2 DEF Waiting, Looks
  <2> HIDE DEF sees
  <2> QED
    BY <2>1, <2>2, <2>3, <2>4, <2>5 DEF SeenOf
<1> HIDE DEF h, sees
<1>5. TypeOK'
  <2>1. session \in [Sessions -> {Idle} \union Waiting \union Done]
    BY DEF HandlersInv, TypeOK
  <2> QED
    BY <1>2, <1>3, <1>4, <2>1 DEF TypeOK
<1>6. ASSUME NEW t \in Sessions
      PROVE  /\ session'[t].state = "handled" => SeenOf(store', session'[t])
             /\ Answered(t)' => Right(session[t].req, session[t].seen, session[t].denied, session[t].response)'
  <2>1. CASE t = s
    <3>1. session'[t] = h /\ Right(h.req, h.seen, h.denied, h.response) /\ h.state = "answered"
      BY <1>1, <1>2, <2>1 DEF h
    <3> QED
      BY <3>1 DEF Right, SizesRight, TrueOf
  <2>2. CASE t # s /\ session[t].state = "handled" /\ Reads(session[t].req)
    <3>1. session'[t] = sees(t)
      BY <1>2, <2>2
    <3> QED
      BY <1>2, <1>4, <2>2, <3>1 DEF Answered
  <2>3. CASE t # s /\ ~(session[t].state = "handled" /\ Reads(session[t].req))
    <3>1. session'[t] = session[t]
      BY <1>2, <2>3
    <3> QED
      BY <2>3, <3>1 DEF HandlersInv, SeenOf, Answered, Right, SizesRight, TrueOf
  <2> QED
    BY <2>1, <2>2, <2>3
<1> QED
  BY <1>5, <1>6 DEF HandlersInv

LEMMA OverInv ==
  ASSUME HandlersInv, NEW s \in Sessions, Over(s)
  PROVE  HandlersInv'
<1>1. store' = store /\ session' = [session EXCEPT ![s] = Idle]
  BY DEF Over
<1>2. TypeOK /\ session \in [Sessions -> {Idle} \union Waiting \union Done]
  BY DEF HandlersInv, TypeOK
<1>3. session'[s] = Idle /\ \A t \in Sessions \ {s} : session'[t] = session[t]
  BY <1>1, <1>2
<1>4. TypeOK'
  BY <1>1, <1>2 DEF TypeOK
<1>5. ASSUME NEW t \in Sessions
      PROVE  /\ session'[t].state = "handled" => SeenOf(store', session'[t])
             /\ Answered(t)' => Right(session[t].req, session[t].seen, session[t].denied, session[t].response)'
  <2>1. CASE t = s
    BY <1>3, <2>1 DEF Answered, Idle
  <2>2. CASE t # s
    BY <1>1, <1>3, <2>2 DEF HandlersInv, SeenOf, Answered, Stat, Above, Right, SizesRight, TrueOf
  <2> QED
    BY <2>1, <2>2
<1> QED
  BY <1>4, <1>5 DEF HandlersInv

LEMMA MakesWell ==
  ASSUME HandlersInv, NEW s \in Sessions, Makes(s)
  PROVE  AnswersWell(s) /\ session[s].state = "handled"
<1>1. PICK denied \in Denials : \/ Refuse(s, denied) \/ Get(s, denied) \/ Put(s, denied)
                                \/ Post(s, denied) \/ Delete(s, denied)
  BY DEF Makes
<1>2. session[s].state = "handled"
  BY <1>1 DEF Refuse, Get, Put, Post, Delete, Handles
<1> QED
  BY <1>1, <1>2, RefuseAnswers, GetAnswers, PutAnswers, PostAnswers, DeleteAnswers

LEMMA NextHandlers == HandlersInv /\ [Next]_vars => HandlersInv'
<1> SUFFICES ASSUME HandlersInv, [Next]_vars PROVE HandlersInv'
  OBVIOUS
<1>1. CASE UNCHANGED vars
  BY <1>1 DEF vars, HandlersInv, TypeOK, SeenOf, Answered, Stat, Above, Right, SizesRight, TrueOf
<1>2. ASSUME NEW s \in Sessions, NEW r \in Requests, HandleRequest(s, r) PROVE HandlersInv'
  BY <1>2, HandleRequestInv
<1>3. ASSUME NEW s \in Sessions, Makes(s) PROVE HandlersInv'
  BY <1>3, MakesWell, AnswerInv
<1>4. ASSUME NEW s \in Sessions, Over(s) PROVE HandlersInv'
  BY <1>4, OverInv
<1> QED
  BY <1>1, <1>2, <1>3, <1>4 DEF Next

LEMMA HandlersInvariant == Spec => []HandlersInv
BY InitHandlers, NextHandlers, PTL DEF Spec

-----------------------------------------------------------------------------
(* The refinement.                                                         *)

GivenTo(s) == IF session[s].state = "answered"
              THEN [given |-> TRUE, req |-> session[s].req,
                    status |-> session[s].response.status]
              ELSE [given |-> FALSE]
Given == [s \in Sessions |-> GivenTo(s)]

\* A session that was being handled and is answered well.
LEMMA AnswerPromised ==
  ASSUME HandlersInv, NEW s \in Sessions, session[s].state = "handled", AnswersWell(s)
  PROVE  FS!Answer(s)
<1>1. PICK denied \in Denials, response \in Responses, st \in FileSystems :
        Answer(s, denied, response, st) /\ Promised(session[s].req, response.status)
  BY DEF AnswersWell
<1> DEFINE r == session[s].req
           a == [given |-> TRUE, req |-> r, status |-> response.status]
<1>2. /\ session'[s].state = "answered" /\ session'[s].req = r
      /\ session'[s].response = response
  BY <1>1 DEF Answer
<1>3. ASSUME NEW t \in Sessions, t # s
      PROVE  GivenTo(t)' = GivenTo(t)
  <2>1. CASE session[t].state = "handled" /\ Reads(session[t].req)
    <3>1. session'[t] = [session[t] EXCEPT !.seen = @ \union {Stat(st, session[t].req.path)}]
      BY <1>1, <1>3, <2>1 DEF Answer
    <3>2. session[t] \in Waiting
      BY <2>1 DEF HandlersInv, TypeOK, Done, Idle
    <3>3. session'[t].state = "handled"
      BY <2>1, <3>1, <3>2 DEF Waiting
    <3> QED
      BY <2>1, <3>3 DEF GivenTo
  <2>2. CASE ~(session[t].state = "handled" /\ Reads(session[t].req))
    <3>1. session'[t] = session[t]
      BY <1>1, <1>3, <2>2 DEF Answer
    <3> QED
      BY <3>1 DEF GivenTo
  <2> QED
    BY <2>1, <2>2
<1>4. GivenTo(s)' = a /\ GivenTo(s) = [given |-> FALSE]
  BY <1>2 DEF GivenTo
<1>5. a \in FS!Answers
  <2>1. r \in Requests /\ response.status \in 200..599
    BY HandledShape DEF Responses
  <2> QED
    BY <2>1 DEF FS!Answers
<1>6. FS!Put(a) \/ FS!Upload(a) \/ FS!CutOff(a) \/ FS!Delete(a) \/ FS!Other(a)
  BY <1>1 DEF Promised
<1> HIDE DEF a
<1>7. /\ Given[s] = [given |-> FALSE] /\ Given'[s] = a
      /\ Given' = [Given EXCEPT ![s] = a]
  BY <1>3, <1>4 DEF Given
<1> QED
  BY <1>5, <1>6, <1>7 DEF FS!Answer, FS!NoAnswer, Given, GivenTo

LEMMA StepPromised ==
  ASSUME HandlersInv, [Next]_vars
  PROVE  FS!Next \/ (store' = store /\ Given' = Given)
<1>1. CASE UNCHANGED vars
  BY <1>1 DEF vars, Given, GivenTo
<1>2. ASSUME NEW s \in Sessions, NEW r \in Requests, HandleRequest(s, r)
      PROVE  store' = store /\ Given' = Given
  <2> DEFINE h == [state |-> "handled", req |-> r, info |-> Look(r),
                   seen |-> IF Reads(r) THEN {Stat(store, r.path)} ELSE {}]
  <2>1. /\ session' = [session EXCEPT ![s] = h] /\ store' = store
        /\ session[s].state = "idle" /\ h.state = "handled"
    BY <1>2 DEF HandleRequest, Idle
  <2> HIDE DEF h
  <2>2. session'[s] = h /\ \A t \in Sessions \ {s} : session'[t] = session[t]
    BY <2>1 DEF HandlersInv, TypeOK
  <2>3. \A t \in Sessions : GivenTo(t)' = GivenTo(t)
    BY <2>1, <2>2 DEF GivenTo
  <2> QED
    BY <2>1, <2>3 DEF Given
<1>3. ASSUME NEW s \in Sessions, Makes(s) PROVE FS!Next
  BY <1>3, MakesWell, AnswerPromised DEF FS!Next
<1>4. ASSUME NEW s \in Sessions, Over(s) PROVE FS!Over(s)
  <2>1. session' = [session EXCEPT ![s] = Idle] /\ store' = store
    BY <1>4 DEF Over
  <2>2. session'[s] = Idle /\ \A t \in Sessions \ {s} : session'[t] = session[t]
    BY <2>1 DEF HandlersInv, TypeOK
  <2>3. /\ GivenTo(s)' = [given |-> FALSE]
        /\ \A t \in Sessions \ {s} : GivenTo(t)' = GivenTo(t)
    <3>1. session'[s].state # "answered"
      BY <2>2 DEF Idle
    <3> QED
      BY <2>2, <3>1 DEF GivenTo
  <2>4. Given' = [Given EXCEPT ![s] = [given |-> FALSE]]
    BY <2>3 DEF Given
  <2> QED
    BY <2>1, <2>4 DEF FS!Over, FS!NoAnswer, Given, GivenTo
<1> QED
  BY <1>1, <1>2, <1>3, <1>4 DEF Next, FS!Next

-----------------------------------------------------------------------------
(* The theorems.                                                           *)

\* The files keep the form of a file system, whatever is stored and removed,
\* and every response has a status and lengths.
THEOREM FilesTyped == Spec => []TypeOK
<1>1. HandlersInv => TypeOK
  BY DEF HandlersInv
<1> QED
  BY <1>1, HandlersInvariant, PTL

\* No answer to HEAD has a body, errors and scripts included.
THEOREM HeadIsBare == Spec => []HeadGetsNoBody
<1>1. HandlersInv => HeadGetsNoBody
  BY DEF HandlersInv, HeadGetsNoBody, Right, SizesRight
<1> QED
  BY <1>1, HandlersInvariant, PTL

\* A body is as long as its header says, unless it is a GET's and its file has
\* changed between the handler's construction and its response.
THEOREM LengthsAgree == Spec => []Framed
<1>1. HandlersInv => Framed
  BY DEF HandlersInv, Framed, Right, SizesRight
<1> QED
  BY <1>1, HandlersInvariant, PTL

\* What GET and HEAD answer from an old stat() was true at some moment since
\* the request, however many other sessions change the files and whatever the
\* kernel refuses to open; a 500 tells of a file that went away or of such a
\* refusal.
THEOREM TruthTold == Spec => []SomeTimeTrue
<1>1. HandlersInv => SomeTimeTrue
  BY DEF HandlersInv, SomeTimeTrue, Seen, Right, TrueOf
<1> QED
  BY <1>1, HandlersInvariant, PTL

\* The handlers implement FileStore: every answer did to the files what it
\* says, at once and alone, on any tree of files and with a full disk.
THEOREM FilesAsAnswered == Spec => ImplementsFileStore
<1>1. Init => FS!Init
  <2> SUFFICES ASSUME Init PROVE FS!Init
    OBVIOUS
  <2>1. \A p \in Paths : store[p].kind \in {"none", "file", "dir"}
    BY FilesAssumption DEF Init, FileSystems, Entries, Kinds
  <2>2. \A s \in Sessions : session[s].state # "answered"
    BY DEF Init, Idle
  <2> QED
    BY <2>1, <2>2 DEF FS!Init, FS!NoAnswer
<1>2. HandlersInv /\ [Next]_vars => [FS!Next]_<<store, Given>>
  BY StepPromised
<1>3. HandlersInv /\ [Next]_vars => [FS!Next]_<<store, [s \in Sessions |->
           IF session[s].state = "answered"
           THEN [given |-> TRUE, req |-> session[s].req,
                 status |-> session[s].response.status]
           ELSE [given |-> FALSE]]>>
  BY <1>2 DEF Given, GivenTo
<1>4. Spec => FS!Init
  BY <1>1 DEF Spec
<1> QED
  BY <1>3, <1>4, HandlersInvariant, PTL DEF Spec, ImplementsFileStore, FS!Spec
=============================================================================
