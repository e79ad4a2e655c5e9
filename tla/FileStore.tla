----------------------------- MODULE FileStore -----------------------------
(***************************************************************************)
(* What the server promises about the files it serves: a request whose     *)
(* answer says that a file was stored or removed did just that, at once,   *)
(* and a request whose answer does not say so left every file alone.  A    *)
(* PUT tells a new file from a replaced one, an upload never replaces one, *)
(* and a directory goes only when nothing is left in it.  When the disk is *)
(* full, a file that was stored, or that a failed request was to store,    *)
(* may be shorter; no other file is touched even then.                     *)
(***************************************************************************)
EXTENDS Integers, Sequences, SequencesExt

CONSTANTS Clients, Paths, Requests,
  Scripted,    \* the requests whose answer is a script's: it speaks for itself
  DiskMayFill  \* may the disk be full?

VARIABLES
  files,   \* what is at each path: a record with a kind, and a size
  answer   \* for each client, the answer it is being given

NoAnswer == [given |-> FALSE]
Answers == [given : {TRUE}, req : Requests, status : 200..599]

Absent(p) == files[p].kind = "none"

Init ==
  /\ \A p \in Paths : files[p].kind \in {"none", "file", "dir"}
  /\ answer = [c \in Clients |-> NoAnswer]

\* The answers that say that the files have changed.
SaysStored(a) == \/ a.req.method = "PUT" /\ a.status \in {200, 201}
                 \/ a.req.method = "POST" /\ a.status = 201 /\ a.req \notin Scripted
SaysRemoved(a) == a.req.method = "DELETE" /\ a.status = 204

\* One file is there afterwards, with one of some sizes; the others stay.
Becomes(p, sizes) ==
  /\ files'[p].kind = "file" /\ files'[p].size \in sizes
  /\ \A q \in Paths \ {p} : files'[q] = files[q]

Stored(p, size) == Becomes(p, IF DiskMayFill THEN 0..size ELSE {size})

Put(a) ==
  /\ a.req.method = "PUT" /\ SaysStored(a)
  /\ a.status = IF Absent(a.req.path) THEN 201 ELSE 200
  /\ Stored(a.req.path, a.req.size)

Upload(a) ==
  /\ a.req.method = "POST" /\ SaysStored(a)
  /\ Absent(a.req.file)
  /\ Stored(a.req.file, a.req.part)

Delete(a) ==
  /\ SaysRemoved(a)
  /\ ~Absent(a.req.path) /\ files'[a.req.path].kind = "none"
  /\ \A q \in Paths : IsStrictPrefix(a.req.path, q) => Absent(q)
  /\ \A q \in Paths \ {a.req.path} : files'[q] = files[q]

\* A failure may leave a file cut off, where there was none or another one;
\* an upload that fails, only where there was none.
CutOff(a) ==
  /\ a.status = 500
  /\ \/ a.req.method = "PUT" /\ DiskMayFill /\ Stored(a.req.path, a.req.size)
     \/ /\ a.req.method = "POST" /\ Absent(a.req.file)
        /\ Becomes(a.req.file, 0..a.req.part)

\* Reads and refusals.
Other(a) ==
  /\ ~SaysStored(a) /\ ~SaysRemoved(a)
  /\ UNCHANGED files

\* A client gets the answer to a request.
Answer(c) ==
  /\ answer[c] = NoAnswer
  /\ answer'[c] \in Answers
  /\ answer' = [answer EXCEPT ![c] = answer'[c]]
  /\ \/ Put(answer'[c]) \/ Upload(answer'[c]) \/ CutOff(answer'[c])
     \/ Delete(answer'[c]) \/ Other(answer'[c])

\* The answer has reached the client, or never will.
Over(c) ==
  /\ answer' = [answer EXCEPT ![c] = NoAnswer]
  /\ UNCHANGED files

Next == \E c \in Clients : Answer(c) \/ Over(c)

Spec == Init /\ [][Next]_<<files, answer>>
=============================================================================
