----------------------------- MODULE DavTransfer -----------------------------
(***************************************************************************)
(* One WebDAV request (handler.ts): handleWebdav resolves the path, and a  *)
(* GET of a file opens it and pipes a stream into the response.  Requests  *)
(* share nothing, so one of them meets every interleaving there is: its    *)
(* promises settle late or reject, the client leaves at any moment, and    *)
(* the file shrinks while it is read.                                      *)
(*                                                                         *)
(* The stream reads through a handle (openViaHandle) unless the filesystem *)
(* has an openStream of its own.  Of Node's streams the model keeps what   *)
(* the handler relies on: a stream reads ahead one chunk, pipe forwards    *)
(* what it reads and stops for good on a response that has been closed, a  *)
(* stream that ends or fails destroys itself, and a response emits close   *)
(* once.  Lengths are counted in units of a few bytes.                     *)
(***************************************************************************)
EXTENDS Naturals, FiniteSetsExt

CONSTANTS
  Links,    \* the policy for links: "rclonelink" or "hide"
  MaxSize,  \* bound: the size of a file
  Chunk     \* HANDLE_CHUNK

ASSUME DavAssumption ==
  Links \in {"rclonelink", "hide"} /\ MaxSize \in Nat /\ Chunk \in Nat \ {0}

Sizes == 0 .. MaxSize
Methods == {"OPTIONS", "POST", "PROPFIND", "GET", "HEAD", "DELETE"}
Errors == {403, 404, 502, 503}  \* httpStatusFor: what a FsErrorCode becomes

\* The Range header: none, the last a bytes, from a on, or from a to b inclusive.
RangeHeader == [form : {"none"}, a : {0}, b : {0}]
               \cup [form : {"suffix", "from"}, a : 0 .. MaxSize + 1, b : {0}]
               \cup [form : {"span"}, a : Sizes, b : Sizes]

VARIABLES
  req,      \* the request: method, range, and whether it names a link
  own,      \* the filesystem has an openStream
  size,     \* FsNode.size, as resolved
  length,   \* bytes of the file now
  at,       \* where handleWebdav is
  client,   \* whether the response is still open to the client
  aborted,  \* controller.signal.aborted
  res,      \* the response: status, whether headers are out, bytes, how it ended
  stream,   \* the opened stream
  offset,   \* the offset of its next read
  closes    \* calls of close() on the handle, or of destroy() on the stream

fileVars == <<req, own, size>>
connVars == <<client, aborted>>
streamVars == <<stream, offset, closes>>
vars == <<fileVars, length, at, connVars, res, streamVars>>

-----------------------------------------------------------------------------
\* Mutant: the last byte of a range is not in it.
EndInclusive(r, n) == IF r.form = "span" THEN r.b ELSE n

\* parseRange: the exclusive end that a header names, if it names one.
EndExclusive(r, n) == IF r.form = "span" THEN r.b + 1 ELSE n

\* resolveRange: the window of a file of n bytes.
Window(r, n) ==
  CASE r.form = "none" -> [start |-> 0, end |-> n]
    [] r.form = "suffix" -> [start |-> n - Min({n, r.a}), end |-> n]
    [] OTHER -> [start |-> r.a, end |-> Max({r.a, Min({EndExclusive(r, n), n})})]

Win == Window(req.range, size)
Unsatisfiable == req.range.form # "none" /\ Win.start >= size

\* resolveDavPath: what a request sees of what the filesystem has there.  The suffix
\* is stripped under one policy only, and names a link then and nothing else.
LinkRequest == req.suffix /\ Links = "rclonelink"
Visible(kind) ==
  CASE kind = "link" -> IF LinkRequest THEN "link" ELSE "nothing"
    [] OTHER -> IF LinkRequest THEN "nothing" ELSE kind

\* The status line, the headers and the body are sent and the response ended.
Answer(code) == res' = [res EXCEPT !.status = code, !.headers = TRUE, !.end = "ended"]

\* The promise of handleWebdav settles.
Return == at' = "done"
Quiet == UNCHANGED <<fileVars, length, connVars, streamVars>>

-----------------------------------------------------------------------------
\* OPTIONS and unknown methods are answered at once, the others ask for the node.
Call ==
  /\ at = "called"
  /\ \/ req.method = "OPTIONS" /\ Answer(200) /\ Return
     \/ req.method = "POST" /\ Answer(405) /\ Return
     \/ req.method \notin {"OPTIONS", "POST"} /\ at' = "resolve" /\ UNCHANGED res
  /\ Quiet

\* A malformed path, or one that climbs, names nothing, and the tree is not asked.
Malformed ==
  /\ at = "called" /\ req.method \notin {"OPTIONS", "POST"}
  /\ Answer(404) /\ Return /\ Quiet

\* There is no such node, or none that this request may see.
Missing == at = "resolve" /\ Answer(404) /\ Return /\ Quiet

\* PROPFIND: depth infinity is refused, depth 0 needs no listing, depth 1 lists.
Propfind(kind) ==
  /\ at = "resolve" /\ req.method = "PROPFIND" /\ Visible(kind) # "nothing"
  /\ \/ Answer(403) /\ Return
     \/ Answer(207) /\ Return
     \/ kind = "dir" /\ at' = "readdir" /\ UNCHANGED res
  /\ Quiet

Listed == at = "readdir" /\ Answer(207) /\ Return /\ Quiet

\* DELETE: only a removable node is removed.
Delete(kind) ==
  /\ at = "resolve" /\ req.method = "DELETE" /\ Visible(kind) # "nothing"
  /\ \/ Answer(403) /\ Return
     \/ at' = "remove" /\ UNCHANGED res
  /\ Quiet

Removed ==
  /\ at = "remove" /\ \E code \in {204, 404, 403, 500} : Answer(code)
  /\ Return /\ Quiet

\* GET and HEAD of what is no file: a directory is refused, a link is its target.
GetInline(kind) ==
  /\ at = "resolve" /\ req.method \in {"GET", "HEAD"}
  /\ \/ Visible(kind) = "dir" /\ Answer(405)
     \/ Visible(kind) = "link" /\ Answer(200)
  /\ Return /\ Quiet

\* GET and HEAD of a file: the client has it, the range is past its end, or it is
\* opened.  From here on a client that leaves aborts the signal.
Get ==
  /\ at = "resolve" /\ req.method \in {"GET", "HEAD"} /\ Visible("file") = "file"
  /\ \/ Answer(304) /\ Return
     \/ Unsatisfiable /\ Answer(416) /\ Return
     \/ ~Unsatisfiable /\ at' = "open" /\ UNCHANGED res
  /\ Quiet

\* fs.resolve rejects, and handleWebdav with it; or readdir or remove does, when the
\* node was had.
Unresolved == at = "resolve" /\ at' = "unresolved" /\ UNCHANGED res /\ Quiet
Rejects ==
  /\ at \in {"readdir", "remove"} /\ at' = "rejected"
  /\ UNCHANGED res /\ Quiet

-----------------------------------------------------------------------------
\* The file is open.  A HEAD closes it again; a GET pipes the stream.
Opened ==
  /\ at = "open"
  /\ offset' = Win.start
  /\ LET status == IF req.range.form = "none" THEN 200 ELSE 206 IN
     \/ /\ req.method = "HEAD" /\ Answer(status) /\ Return
        /\ stream' = [stream EXCEPT !.at = "destroyed"] /\ closes' = closes + 1
     \/ /\ req.method = "GET" /\ at' = "piping"
        /\ res' = [res EXCEPT !.status = status]
        /\ stream' = [stream EXCEPT !.at = "live"] /\ UNCHANGED closes
  /\ UNCHANGED <<fileVars, length, connVars>>

\* Mutant: a failed open ends nothing.
OpenFailsSilently ==
  /\ at = "open" /\ Return /\ UNCHANGED res
  /\ Quiet

\* It cannot be opened: a status, unless the client is known to have left.
OpenFails ==
  /\ at = "open" /\ Return
  /\ \/ aborted /\ UNCHANGED res
     \/ ~aborted /\ \E code \in Errors : Answer(code)
  /\ Quiet

-----------------------------------------------------------------------------
Live == stream.at = "live"

\* The stream wants more: read() of openViaHandle ends it or reads the handle.  The
\* filesystem's own stream has its own mind about the signal.
ReadCall ==
  /\ at = "piping" /\ Live /\ ~stream.reading /\ ~stream.eof /\ stream.buffer < Chunk
  /\ IF offset >= Win.end \/ (aborted /\ ~own)
     THEN stream' = [stream EXCEPT !.eof = TRUE]
     ELSE stream' = [stream EXCEPT !.reading = TRUE]
  /\ UNCHANGED <<fileVars, length, at, connVars, res, offset, closes>>

\* What a read returns: less than it asked for only at the end of the file.
Got == LET asked == Min({Chunk, Win.end - offset}) IN
       Min({asked, length - Min({length, offset})})

\* handle.read resolves; no data is the end.  A destroyed stream drops it.
ReadDone ==
  /\ stream.reading
  /\ stream' = IF Live /\ Got > 0
               THEN [stream EXCEPT !.reading = FALSE, !.buffer = @ + Got]
               ELSE [stream EXCEPT !.reading = FALSE, !.eof = Live]
  /\ offset' = IF Live THEN offset + Got ELSE offset
  /\ UNCHANGED <<fileVars, length, at, connVars, res, closes>>

\* handle.read rejects: the stream closes the handle before it emits the error.
ReadFails ==
  /\ stream.reading
  /\ stream' = [stream EXCEPT !.reading = FALSE, !.at = IF Live THEN "failing" ELSE @]
  /\ closes' = IF Live THEN closes + 1 ELSE closes
  /\ UNCHANGED <<fileVars, length, at, connVars, res, offset>>

\* Mutant: the body is ended where it failed.
ErroredEnds ==
  /\ at = "piping" /\ stream.at = "failing"
  /\ stream' = [stream EXCEPT !.at = "destroyed"]
  /\ Return /\ res' = [res EXCEPT !.end = "ended"]
  /\ UNCHANGED <<fileVars, length, connVars, offset, closes>>

\* The error rejects the transfer.  Before the first byte there is still a status
\* to give; after it the response is torn down.
Errored ==
  /\ at = "piping" /\ stream.at = "failing"
  /\ stream' = [stream EXCEPT !.at = "destroyed"]
  /\ Return
  /\ \/ aborted /\ UNCHANGED res
     \/ ~aborted /\ res.headers /\ res' = [res EXCEPT !.end = "destroyed"]
     \/ ~aborted /\ ~res.headers /\ \E code \in Errors : Answer(code)
  /\ UNCHANGED <<fileVars, length, connVars, offset, closes>>

\* pipe writes a chunk.  A response that is closed takes none and never drains.
Piped ==
  /\ at = "piping" /\ Live /\ stream.buffer > 0 /\ ~stream.paused
  /\ stream' = [stream EXCEPT !.buffer = 0, !.paused = ~client]
  /\ res' = IF client THEN [res EXCEPT !.headers = TRUE, !.sent = @ + stream.buffer]
            ELSE res
  /\ UNCHANGED <<fileVars, length, at, connVars, offset, closes>>

\* The stream ends, ends the response, and destroys itself.
StreamEnds ==
  /\ at = "piping" /\ Live /\ stream.eof /\ stream.buffer = 0 /\ ~stream.paused
  /\ stream' = [stream EXCEPT !.at = "destroyed"] /\ closes' = closes + 1
  /\ res' = IF client THEN [res EXCEPT !.headers = TRUE, !.end = "ended"] ELSE res
  /\ UNCHANGED <<fileVars, length, at, connVars, offset>>

\* Mutant: the transfer is over, and the stream left alone.
FinallyKeeps == Return /\ UNCHANGED <<stream, closes>>

\* The finally of get: what is left of the stream is destroyed.
Finally ==
  /\ Return
  /\ stream' = [stream EXCEPT !.at = IF Live THEN "destroyed" ELSE @]
  /\ closes' = IF Live THEN closes + 1 ELSE closes

\* The response is finished.
Finish ==
  /\ at = "piping" /\ client /\ res.end = "ended"
  /\ res' = [res EXCEPT !.end = "finished"] /\ Finally
  /\ UNCHANGED <<fileVars, length, connVars, offset>>

\* The client leaves.  The handler hears of it while it opens and while it pipes.
Leave ==
  /\ client /\ client' = FALSE
  /\ aborted' = (at \in {"open", "piping"})
  /\ \/ at = "piping" /\ Finally
     \/ at # "piping" /\ UNCHANGED <<at, stream, closes>>
  /\ UNCHANGED <<fileVars, length, res, offset>>

\* The file shrinks, once.
Shrink ==
  /\ length = size /\ length' \in 0 .. size /\ length' < length
  /\ UNCHANGED <<fileVars, at, connVars, res, streamVars>>

-----------------------------------------------------------------------------
Init ==
  /\ req \in [method : Methods, range : RangeHeader, suffix : BOOLEAN] /\ own \in BOOLEAN
  /\ req.method \notin {"GET", "HEAD"} => req.range.form = "none"
  /\ size \in Sizes /\ length = size
  /\ at = "called" /\ client = TRUE /\ aborted = FALSE
  /\ res = [status |-> 0, headers |-> FALSE, sent |-> 0, end |-> "no"]
  /\ stream = [at |-> "none", reading |-> FALSE, buffer |-> 0, eof |-> FALSE, paused |-> FALSE]
  /\ offset = 0 /\ closes = 0

\* What awaits the filesystem, and what the event loop runs of itself.
Resolved ==
  Missing \/ GetInline("dir") \/ GetInline("link") \/ Get
  \/ \E kind \in {"dir", "file", "link"} : Propfind(kind) \/ Delete(kind)
Settle ==
  \/ Call \/ Malformed \/ Resolved \/ Unresolved \/ Listed \/ Removed \/ Rejects
  \/ Opened \/ OpenFails
Flow == ReadCall \/ ReadDone \/ ReadFails \/ Errored \/ Piped \/ StreamEnds \/ Finish

\* The request is over, or its handler waits for a response that closed before it
\* listened: the places where all may stop.
Over ==
  /\ at \in {"done", "unresolved", "rejected"} \/ (at = "piping" /\ ~client)
  /\ UNCHANGED vars

Next == Settle \/ Flow \/ Leave \/ Shrink \/ Over

Spec == Init /\ [][Next]_vars

\* Promises settle, and a client that stays takes what is written to it.
FairSpec == Spec /\ WF_vars(Settle) /\ WF_vars(Flow)

-----------------------------------------------------------------------------
TypeOK ==
  /\ req \in [method : Methods, range : RangeHeader, suffix : BOOLEAN] /\ own \in BOOLEAN
  /\ size \in Sizes /\ length \in 0 .. size /\ offset \in 0 .. MaxSize
  /\ at \in {"called", "resolve", "readdir", "remove", "open", "piping", "done",
             "unresolved", "rejected"}
  /\ client \in BOOLEAN /\ aborted \in BOOLEAN /\ closes \in Nat
  /\ res \in [status : {0, 200, 204, 206, 207, 304, 405, 416, 500} \cup Errors,
              headers : BOOLEAN, sent : Sizes, end : {"no", "ended", "finished", "destroyed"}]
  /\ stream \in [at : {"none", "live", "failing", "destroyed"}, reading : BOOLEAN,
                 buffer : Sizes, eof : BOOLEAN, paused : BOOLEAN]

\* The bytes of the file, by their places, that a Range header asks for, and the last
\* n that were read of it.
Selects(r, n, k) ==
  CASE r.form = "none" -> TRUE
    [] r.form = "suffix" -> n <= k + r.a
    [] r.form = "from" -> r.a <= k
    [] OTHER -> r.a <= k /\ k <= r.b
Asked == {k \in Sizes : k < size /\ Selects(req.range, size, k)}
LastRead(n) == {k \in Sizes : k < offset /\ offset <= k + n}

\* A body is never longer than its Content-Length; one that ends normally is as long
\* and is the bytes that were asked for, whatever failed on the way and whoever left,
\* unless the file itself has lost one of them.
BodyWhole ==
  /\ at = "piping" => res.sent + stream.buffer <= Win.end - Win.start
  /\ req.method = "GET" /\ stream.at # "none"
       /\ res.end \in {"ended", "finished"} /\ res.status \in {200, 206} =>
       \/ res.sent = Win.end - Win.start /\ LastRead(res.sent) = Asked
       \/ \E k \in Asked : length <= k

\* A handle is closed once, and never left open by an error, a HEAD or a client that
\* leaves while the file is opened or sent.  (One that left before the file was
\* opened is not noticed; nor is, by a stream of the filesystem's own, one that left
\* while it was opened: only the signal tells it.  Both are piped into a response that
\* is closed, and nothing ends that.)
Unnoticed == at = "piping" /\ ~client /\ (~aborted \/ own)
HandleReleased ==
  /\ [](closes <= 1)
  /\ (stream.at # "none") ~> (closes = 1 \/ Unnoticed)

\* A transfer that is over while its client stays finished, was torn down after its
\* first byte, or has the status of its failure.
TransferAnswered ==
  req.method = "GET" /\ stream.at # "none" /\ at = "done" /\ client =>
    \/ res.end = "finished"
    \/ res.end = "destroyed" /\ res.headers
    \/ res.end = "ended" /\ res.status \in Errors

\* A request is answered while its client stays, a transfer that was begun in one of
\* those ways; unless the filesystem rejects where nobody catches it.  That is asking
\* for the node, whatever the method, and for a PROPFIND the listing and for a DELETE
\* the removal (where handler.ts:519 claims an answer, too); never a GET that has its
\* node.  The response is then untouched, and the caller can still answer.
Uncaught ==
  /\ at = "unresolved" \/ (at = "rejected" /\ req.method \in {"PROPFIND", "DELETE"})
  /\ ~res.headers
ResponseEnds ==
  /\ (at = "called") ~> (res.end # "no" \/ ~client \/ Uncaught)
  /\ []TransferAnswered
=============================================================================
