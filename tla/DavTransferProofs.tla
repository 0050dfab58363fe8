-------------------------- MODULE DavTransferProofs --------------------------
(***************************************************************************)
(* Proofs about DavTransfer: a body that ends normally is the window its   *)
(* headers announce, for files and chunks of any size; and a request that  *)
(* is over has closed its handle once and has been answered.               *)
(*                                                                         *)
(* While a body is piped, what was sent and what the stream holds is what  *)
(* was read from the start of the window on, and the stream ends of itself *)
(* only where the window or the file does.                                 *)
(***************************************************************************)
EXTENDS DavTransfer, TLAPS

Response == [status : Nat, headers : BOOLEAN, sent : Nat,
             end : {"no", "ended", "finished", "destroyed"}]
StreamType == [at : {"none", "live", "failing", "destroyed"}, reading : BOOLEAN,
               buffer : Nat, eof : BOOLEAN, paused : BOOLEAN]

DavTypes ==
  /\ req \in [method : Methods, range : RangeHeader, suffix : BOOLEAN]
  /\ size \in Nat /\ length \in Nat /\ length <= size /\ offset \in Nat
  /\ size <= MaxSize /\ res \in Response /\ stream \in StreamType
  /\ own \in BOOLEAN /\ client \in BOOLEAN /\ aborted \in BOOLEAN

Before == {"called", "resolve", "readdir", "remove", "open"}
NotOpenYet ==
  /\ at \in Before => stream.at = "none" /\ res.end = "no" /\ res.sent = 0
  /\ stream.at = "none" => ~stream.reading /\ ~stream.eof /\ stream.buffer = 0
  /\ at # "piping" => ~Live
  /\ aborted => ~client

Flowing ==
  at = "piping" =>
    /\ req.method = "GET" /\ stream.at # "none"
    /\ Win.start <= offset /\ offset <= Win.end
    /\ res.sent + stream.buffer <= offset - Win.start
    /\ client => res.sent + stream.buffer = offset - Win.start
    /\ stream.at # "destroyed" => res.end = "no"
    /\ Live /\ stream.reading => offset < Win.end
    /\ Live /\ stream.eof => offset = Win.end \/ length < Win.end \/ aborted

\* A body never overruns its window, and one that ended normally came to its end, or the
\* window has bytes that the file has lost.
BodyInv ==
  /\ at = "piping" => res.sent + stream.buffer <= Win.end - Win.start
  /\ req.method = "GET" /\ stream.at # "none"
       /\ res.end \in {"ended", "finished"} /\ res.status \in {200, 206} =>
       \/ offset = Win.end /\ Win.start + res.sent = offset
       \/ length < Win.end /\ Win.start < Win.end

\* What is opened has a window within the file.
OpenRange == at = "open" \/ stream.at # "none" => Win.end <= size

DavInv == DavTypes /\ NotOpenYet /\ Flowing /\ BodyInv /\ OpenRange

USE DavAssumption DEF DavAssumption

-----------------------------------------------------------------------------
LEMMA MinOfTwo ==
  ASSUME NEW a \in Nat, NEW b \in Nat
  PROVE  Min({a, b}) = IF a <= b THEN a ELSE b
  BY DEF Min

LEMMA MaxOfTwo ==
  ASSUME NEW a \in Nat, NEW b \in Nat
  PROVE  Max({a, b}) = IF a >= b THEN a ELSE b
  BY DEF Max

\* A window has an end and does not end before its start.
LEMMA WindowInOrder ==
  ASSUME NEW r \in RangeHeader, NEW n \in Nat
  PROVE  /\ Window(r, n).start \in Nat /\ Window(r, n).end \in Nat
         /\ Window(r, n).start <= Window(r, n).end
<1>1. r.a \in Nat /\ r.b \in Nat
  BY DEF RangeHeader, Sizes
<1>2. CASE r.form = "none"
  BY <1>2 DEF Window
<1>3. CASE r.form = "suffix"
  <2>1. Window(r, n) = [start |-> n - Min({n, r.a}), end |-> n]
    BY <1>3 DEF Window
  <2>2. Min({n, r.a}) \in Nat /\ Min({n, r.a}) <= n
    BY <1>1, MinOfTwo
  <2> QED BY <2>1, <2>2
<1>4. CASE r.form \notin {"none", "suffix"}
  <2> DEFINE last == Min({EndExclusive(r, n), n})
  <2>1. Window(r, n) = [start |-> r.a, end |-> Max({r.a, last})]
    BY <1>4 DEF Window
  <2>2. EndExclusive(r, n) \in Nat
    BY <1>1 DEF EndExclusive
  <2>3. last \in Nat
    BY <2>2, MinOfTwo
  <2> HIDE DEF last
  <2>4. Max({r.a, last}) \in Nat /\ r.a <= Max({r.a, last})
    BY <1>1, <2>3, MaxOfTwo
  <2> QED BY <1>1, <2>1, <2>4
<1> QED BY <1>2, <1>3, <1>4

LEMMA WinInOrder ==
  ASSUME DavTypes
  PROVE  Win.start \in Nat /\ Win.end \in Nat /\ Win.start <= Win.end
<1>1. req.range \in RangeHeader /\ size \in Nat
  BY DEF DavTypes
<1> QED BY <1>1, WindowInOrder DEF Win

\* A range that can be satisfied ends within the file.
LEMMA WindowWithin ==
  ASSUME DavTypes, ~Unsatisfiable
  PROVE  Win.end <= size
<1>1. PICK r, n : r = req.range /\ n = size
  OBVIOUS
<1>2. r \in RangeHeader /\ n \in Nat /\ r.a \in Nat /\ r.b \in Nat
  BY <1>1 DEF DavTypes, RangeHeader, Sizes
<1>3. Win = Window(r, n) /\ (r.form = "none" \/ ~(Window(r, n).start >= n))
  BY <1>1 DEF Win, Unsatisfiable
<1>4. CASE r.form \in {"none", "suffix"}
  BY <1>1, <1>2, <1>3, <1>4 DEF Window
<1>5. CASE r.form \notin {"none", "suffix"}
  <2> DEFINE last == Min({EndExclusive(r, n), n})
  <2>1. Window(r, n) = [start |-> r.a, end |-> Max({r.a, last})]
    BY <1>5 DEF Window
  <2>2. EndExclusive(r, n) \in Nat
    BY <1>2 DEF EndExclusive
  <2>3. last \in Nat /\ last <= n
    BY <1>2, <2>2, MinOfTwo
  <2> HIDE DEF last
  <2>4. Max({r.a, last}) = IF r.a >= last THEN r.a ELSE last
    BY <1>2, <2>3, MaxOfTwo
  <2>5. r.a < n
    BY <1>2, <1>3, <1>5, <2>1
  <2> QED BY <1>1, <1>2, <1>3, <2>1, <2>3, <2>4, <2>5
<1> QED BY <1>4, <1>5

\* The bytes a header selects are those in its window.
LEMMA WindowSelects ==
  ASSUME NEW r \in RangeHeader, NEW n \in Nat, NEW k \in Nat, k < n
  PROVE  Selects(r, n, k) <=> Window(r, n).start <= k /\ k < Window(r, n).end
<1>1. r.a \in Nat /\ r.b \in Nat /\ r.form \in {"none", "suffix", "from", "span"}
  BY DEF RangeHeader, Sizes
<1>2. CASE r.form = "none"
  BY <1>2 DEF Window, Selects
<1>3. CASE r.form = "suffix"
  <2>1. Window(r, n) = [start |-> n - Min({n, r.a}), end |-> n]
    BY <1>3 DEF Window
  <2>2. Min({n, r.a}) = IF n <= r.a THEN n ELSE r.a
    BY <1>1, MinOfTwo
  <2>3. Selects(r, n, k) <=> n <= k + r.a
    BY <1>3 DEF Selects
  <2> QED BY <1>1, <2>1, <2>2, <2>3
<1>4. CASE r.form \in {"from", "span"}
  <2> DEFINE last == Min({EndExclusive(r, n), n})
  <2>1. Window(r, n) = [start |-> r.a, end |-> Max({r.a, last})]
    BY <1>4 DEF Window
  <2>2. EndExclusive(r, n) = IF r.form = "span" THEN r.b + 1 ELSE n
    BY DEF EndExclusive
  <2>3. EndExclusive(r, n) \in Nat
    BY <1>1, <2>2
  <2>4. last = IF EndExclusive(r, n) <= n THEN EndExclusive(r, n) ELSE n
    BY <2>3, MinOfTwo
  <2>5. last \in Nat
    BY <2>3, <2>4
  <2> HIDE DEF last
  <2>6. Max({r.a, last}) = IF r.a >= last THEN r.a ELSE last
    BY <1>1, <2>5, MaxOfTwo
  <2>7. Selects(r, n, k) <=> r.a <= k /\ (r.form = "span" => k <= r.b)
    BY <1>4 DEF Selects
  <2> QED BY <1>1, <2>1, <2>2, <2>4, <2>5, <2>6, <2>7
<1> QED BY <1>1, <1>2, <1>3, <1>4

\* A read gives no more than is left of the window, and nothing only at the end of
\* the file.
LEMMA GotBounded ==
  ASSUME DavTypes, offset < Win.end
  PROVE  /\ Got \in Nat /\ offset + Got <= Win.end
         /\ Got = 0 => length <= offset
<1> DEFINE asked == Min({Chunk, Win.end - offset})
           left == length - Min({length, offset})
<1>1. Win.end \in Nat /\ offset \in Nat /\ length \in Nat /\ Chunk \in Nat \ {0}
  BY WinInOrder DEF DavTypes
<1>2. Win.end - offset \in Nat
  BY <1>1
<1>3. asked = IF Chunk <= Win.end - offset THEN Chunk ELSE Win.end - offset
  BY <1>1, <1>2, MinOfTwo
<1>4. Min({length, offset}) = IF length <= offset THEN length ELSE offset
  BY <1>1, MinOfTwo
<1>5. left \in Nat /\ (left = 0 => length <= offset)
  BY <1>1, <1>4
<1>6. asked \in Nat /\ asked # 0 /\ offset + asked <= Win.end
  BY <1>1, <1>2, <1>3
<1>7. Got = Min({asked, left})
  BY DEF Got
<1> HIDE DEF asked, left
<1>8. Got = IF asked <= left THEN asked ELSE left
  BY <1>5, <1>6, <1>7, MinOfTwo
<1> QED BY <1>1, <1>5, <1>6, <1>8

-----------------------------------------------------------------------------
LEMMA DavInit == Init => DavInv
<1> SUFFICES ASSUME Init PROVE DavInv
  OBVIOUS
<1>1. size \in Nat /\ size <= MaxSize /\ length \in Nat /\ length <= size /\ offset \in Nat
  BY DEF Init, Sizes
<1>2. res \in Response
  BY DEF Init, Response
<1>3. stream \in StreamType
  BY DEF Init, StreamType
<1>4. DavTypes
  BY <1>1, <1>2, <1>3 DEF Init, DavTypes
<1> QED BY <1>4 DEF Init, DavInv, NotOpenYet, Flowing, BodyInv, OpenRange, Before, Live

LEMMA AnswerTyped ==
  ASSUME res \in Response, NEW code \in Nat, Answer(code)
  PROVE  res' \in Response /\ res'.status = code /\ res'.sent = res.sent /\ res'.end = "ended"
<1> DEFINE coded == [res EXCEPT !.status = code]
           headed == [coded EXCEPT !.headers = TRUE]
<1>1. coded \in Response /\ coded.status = code /\ coded.sent = res.sent
  BY DEF Response
<1>2. res' = [headed EXCEPT !.end = "ended"]
  BY DEF Answer
<1> HIDE DEF coded
<1>3. headed \in Response /\ headed.status = code /\ headed.sent = res.sent
  BY <1>1 DEF Response
<1> HIDE DEF headed
<1> QED BY <1>2, <1>3 DEF Response

\* A step that leaves file, stream and response alone.
LEMMA QuietKeeps ==
  ASSUME DavInv, Quiet, at \in Before, at' \in Before \cup {"done", "unresolved", "rejected"},
         at' = "open" => Win.end <= size,
         res' = res \/ \E code \in Nat : Answer(code) /\ at' = "done"
  PROVE  DavInv'
<1>1. Win' = Win
  BY DEF Quiet, fileVars, Win
<1>2. stream' = stream /\ stream.at = "none"
  BY DEF Quiet, streamVars, DavInv, NotOpenYet
<1>3. res' \in Response
  BY AnswerTyped DEF DavInv, DavTypes
<1>4. DavTypes'
  BY <1>3 DEF Quiet, DavInv, DavTypes, fileVars, connVars, streamVars
<1>5. NotOpenYet'
  BY <1>2 DEF Quiet, DavInv, NotOpenYet, fileVars, connVars, streamVars, Before, Live, Answer
<1>6. OpenRange'
  BY <1>1, <1>2 DEF Quiet, fileVars, OpenRange
<1> QED BY <1>2, <1>4, <1>5, <1>6 DEF DavInv, Flowing, BodyInv, Before

\* A step while the body is piped keeps the invariant if it keeps its parts.
LEMMA FlowKeeps ==
  ASSUME DavInv, UNCHANGED <<req, own, size, length, client, aborted>>,
         at = "piping", at' \in {"piping", "done"},
         res' \in Response, stream' \in StreamType, offset' \in Nat,
         stream'.at # "none", at' = "done" => stream'.at # "live", Flowing', BodyInv'
  PROVE  DavInv'
<1>1. DavTypes'
  BY DEF DavInv, DavTypes
<1>2. NotOpenYet'
  BY DEF DavInv, NotOpenYet, Before, Live
<1>3. OpenRange'
  <2>1. Win' = Win /\ stream.at # "none"
    BY DEF Win, DavInv, Flowing
  <2> QED BY <2>1 DEF DavInv, OpenRange
<1> QED BY <1>1, <1>2, <1>3 DEF DavInv

\* What a step of an open stream starts from.
LEMMA Piping ==
  ASSUME DavInv, at = "piping"
  PROVE  /\ Win.start \in Nat /\ Win.end \in Nat /\ offset \in Nat /\ length \in Nat
         /\ res \in Response /\ stream \in StreamType
         /\ res.sent \in Nat /\ stream.buffer \in Nat
  BY WinInOrder DEF DavInv, DavTypes, Response, StreamType

LEMMA OpenedKeeps == DavInv /\ Opened => DavInv'
<1> SUFFICES ASSUME DavInv, Opened PROVE DavInv'
  OBVIOUS
<1>1. Win' = Win /\ Win.start \in Nat /\ Win.end \in Nat /\ Win.start <= Win.end
  BY WinInOrder DEF Opened, fileVars, Win, DavInv
<1>2. /\ at = "open" /\ stream.at = "none" /\ ~stream.reading /\ ~stream.eof
      /\ stream.buffer = 0 /\ res.end = "no" /\ res.sent = 0
  BY DEF Opened, DavInv, NotOpenYet, Before
<1>3. offset' = Win.start /\ UNCHANGED <<req, own, size, length, client, aborted>>
  BY DEF Opened, fileVars, connVars
<1>4. CASE req.method = "HEAD"
  <2>1. /\ stream' = [stream EXCEPT !.at = "destroyed"] /\ at' = "done"
        /\ \E status \in {200, 206} : Answer(status)
    BY <1>4 DEF Opened, Return
  <2>4. stream' \in StreamType /\ stream'.at = "destroyed"
    BY <2>1 DEF DavInv, DavTypes, StreamType
  <2>2. stream' \in StreamType /\ stream'.at = "destroyed" /\ res' \in Response
    BY <2>1, <2>4, AnswerTyped DEF DavInv, DavTypes
  <2>3. DavTypes'
    BY <1>1, <1>3, <2>2 DEF DavInv, DavTypes
  <2> QED BY <1>1, <1>2, <1>3, <1>4, <2>1, <2>2, <2>3
          DEF DavInv, NotOpenYet, Flowing, BodyInv, OpenRange, Before, Live
<1>5. CASE req.method = "GET"
  <2>1. /\ stream' = [stream EXCEPT !.at = "live"] /\ at' = "piping"
        /\ \E status \in {200, 206} : res' = [res EXCEPT !.status = status]
    BY <1>5 DEF Opened
  <2>2. /\ stream' \in StreamType /\ stream'.at = "live" /\ ~stream'.reading
        /\ ~stream'.eof /\ stream'.buffer = 0
    BY <1>2, <2>1 DEF DavInv, DavTypes, StreamType
  <2>3. res' \in Response /\ res'.end = "no" /\ res'.sent = 0
    BY <1>2, <2>1 DEF DavInv, DavTypes, Response
  <2>4. DavTypes'
    BY <1>1, <1>3, <2>2, <2>3 DEF DavInv, DavTypes
  <2>5. NotOpenYet'
    BY <1>3, <2>1, <2>2 DEF DavInv, NotOpenYet, Before
  <2>6. Flowing'
    BY <1>1, <1>3, <1>5, <2>2, <2>3 DEF Flowing, Live
  <2>7. BodyInv'
    BY <1>1, <2>2, <2>3 DEF BodyInv
  <2>8. OpenRange'
    BY <1>1, <1>2, <1>3 DEF DavInv, OpenRange
  <2> QED BY <2>4, <2>5, <2>6, <2>7, <2>8 DEF DavInv
<1> QED BY <1>4, <1>5 DEF Opened

LEMMA ReadCallKeeps == DavInv /\ ReadCall => DavInv'
<1> SUFFICES ASSUME DavInv, ReadCall PROVE DavInv'
  OBVIOUS
<1> USE Piping
<1>1. Win' = Win /\ at = "piping" /\ Live
  BY DEF ReadCall, fileVars, Win
<1>2. \/ /\ offset >= Win.end \/ aborted
         /\ stream' = [stream EXCEPT !.eof = TRUE]
      \/ offset < Win.end /\ stream' = [stream EXCEPT !.reading = TRUE]
  BY <1>1 DEF ReadCall
<1>3. /\ stream' \in StreamType /\ stream'.at = "live" /\ stream'.buffer = stream.buffer
      /\ stream'.reading => offset < Win.end
      /\ stream'.eof => offset >= Win.end \/ aborted
  BY <1>1, <1>2 DEF ReadCall, StreamType, Live
<1>4. UNCHANGED <<req, own, size, length, at, client, aborted, res, offset>>
  BY DEF ReadCall, fileVars, connVars
<1>5. Flowing'
  BY <1>1, <1>3, <1>4 DEF DavInv, Flowing, Live
<1>6. BodyInv'
  BY <1>1, <1>3, <1>4 DEF DavInv, BodyInv, Live
<1> QED BY <1>1, <1>3, <1>4, <1>5, <1>6, FlowKeeps

\* A read that settles after the transfer is over changes nothing of it.
LEMMA LateRead ==
  ASSUME DavInv, stream.reading, ~Live, stream' = [stream EXCEPT !.reading = FALSE, !.eof = FALSE]
                                        \/ stream' = [stream EXCEPT !.reading = FALSE],
         UNCHANGED <<req, own, size, length, at, client, aborted, res, offset>>
  PROVE  DavInv'
<1>1. /\ stream' \in StreamType /\ stream'.at = stream.at /\ stream'.buffer = stream.buffer
      /\ stream.at # "none"
  BY DEF DavInv, DavTypes, NotOpenYet, StreamType
<1>2. DavTypes' /\ NotOpenYet'
  BY <1>1 DEF DavInv, DavTypes, NotOpenYet, Live
<1>3. Win' = Win
  BY DEF Win
<1>4. Flowing' /\ BodyInv'
  BY <1>1, <1>3 DEF DavInv, Flowing, BodyInv, Live
<1>5. OpenRange'
  BY <1>1, <1>3 DEF DavInv, OpenRange
<1> QED BY <1>2, <1>4, <1>5 DEF DavInv

LEMMA ReadDoneKeeps == DavInv /\ ReadDone => DavInv'
<1> SUFFICES ASSUME DavInv, ReadDone PROVE DavInv'
  OBVIOUS
<1>1. UNCHANGED <<req, own, size, length, at, client, aborted, res>> /\ stream.reading
  BY DEF ReadDone, fileVars, connVars
<1>2. CASE ~Live
  <2>1. stream' = [stream EXCEPT !.reading = FALSE, !.eof = FALSE] /\ offset' = offset
    <3>1. Live = FALSE
      BY <1>2 DEF Live
    <3> QED BY <3>1 DEF ReadDone
  <2> QED BY <1>1, <1>2, <2>1, LateRead
<1>3. CASE Live
  <2>1. at = "piping" /\ offset < Win.end
    BY <1>1, <1>3 DEF DavInv, NotOpenYet, Flowing
  <2>2. Got \in Nat /\ offset + Got <= Win.end /\ (Got = 0 => length <= offset)
    BY <2>1, GotBounded DEF DavInv
  <2> USE Piping
  <2>3. /\ stream' \in StreamType /\ stream'.at = "live" /\ ~stream'.reading
        /\ stream'.buffer = stream.buffer + Got
        /\ stream'.eof => stream.eof \/ Got = 0
    <3> DEFINE idle == [stream EXCEPT !.reading = FALSE]
    <3>1. /\ idle \in StreamType /\ idle.at = "live" /\ ~idle.reading
          /\ idle.buffer = stream.buffer /\ idle.eof = stream.eof
      BY <1>3, <2>1 DEF StreamType, Live
    <3>2. Live = TRUE
      BY <1>3 DEF Live
    <3>3. stream' = IF Got > 0 THEN [idle EXCEPT !.buffer = @ + Got] ELSE [idle EXCEPT !.eof = TRUE]
      BY <3>2 DEF ReadDone
    <3> HIDE DEF idle
    <3>4. CASE Got > 0
      BY <2>1, <2>2, <3>1, <3>3, <3>4 DEF StreamType
    <3>5. CASE Got = 0
      <4>1. stream' = [idle EXCEPT !.eof = TRUE]
        BY <3>3, <3>5
      <4>2. /\ stream' \in StreamType /\ stream'.at = "live" /\ ~stream'.reading
            /\ stream'.buffer = stream.buffer
        BY <3>1, <4>1 DEF StreamType
      <4>3. stream.buffer \in Nat
        BY <2>1
      <4> QED BY <3>5, <4>2, <4>3
    <3> QED BY <2>2, <3>4, <3>5
  <2>4. offset' = offset + Got /\ Win' = Win
    BY <1>1, <1>3 DEF ReadDone, Win
  <2>5. Flowing'
    BY <1>1, <1>3, <2>1, <2>2, <2>3, <2>4 DEF DavInv, Flowing, Live
  <2>7. res.end = "no"
    BY <1>3, <2>1 DEF DavInv, Flowing, Live
  <2>8. res.sent + stream.buffer + Got <= Win.end - Win.start
    BY <2>1, <2>2 DEF DavInv, Flowing
  <2>6. BodyInv'
    BY <1>1, <2>1, <2>2, <2>3, <2>4, <2>7, <2>8 DEF BodyInv
  <2> QED BY <1>1, <2>1, <2>2, <2>3, <2>4, <2>5, <2>6, FlowKeeps
<1> QED BY <1>2, <1>3

LEMMA ReadFailsKeeps == DavInv /\ ReadFails => DavInv'
<1> SUFFICES ASSUME DavInv, ReadFails PROVE DavInv'
  OBVIOUS
<1>1. UNCHANGED <<req, own, size, length, at, client, aborted, res, offset>> /\ stream.reading
  BY DEF ReadFails, fileVars, connVars
<1>2. CASE ~Live
  <2>1. stream' = [stream EXCEPT !.reading = FALSE]
    BY <1>2 DEF ReadFails, DavInv, DavTypes, StreamType
  <2> QED BY <1>1, <1>2, <2>1, LateRead
<1>3. CASE Live
  <2>1. at = "piping" /\ Win' = Win
    BY <1>1, <1>3 DEF DavInv, NotOpenYet, Win
  <2> USE Piping
  <2>2. /\ stream' \in StreamType /\ stream'.at = "failing"
        /\ stream'.buffer = stream.buffer
    BY <1>3, <2>1 DEF ReadFails, StreamType
  <2>3. Flowing'
    BY <1>1, <1>3, <2>1, <2>2 DEF DavInv, Flowing, Live
  <2>4. BodyInv'
    BY <1>1, <1>3, <2>1, <2>2 DEF DavInv, BodyInv, Live
  <2> QED BY <1>1, <2>1, <2>2, <2>3, <2>4, FlowKeeps
<1> QED BY <1>2, <1>3

LEMMA ErroredKeeps == DavInv /\ Errored => DavInv'
<1> SUFFICES ASSUME DavInv, Errored PROVE DavInv'
  OBVIOUS
<1> USE Piping
<1>1. UNCHANGED <<req, own, size, length, client, aborted, offset>> /\ at = "piping" /\ at' = "done"
  BY DEF Errored, fileVars, connVars, Return
<1>2. stream' \in StreamType /\ stream'.at = "destroyed" /\ res.end = "no"
  BY <1>1 DEF Errored, StreamType, DavInv, Flowing
<1>3. res' = res \/ res' = [res EXCEPT !.end = "destroyed"] \/ \E code \in Errors : Answer(code)
  BY DEF Errored
<1>4. /\ res' \in Response
      /\ res'.end \in {"ended", "finished"} => res'.status \in Errors
  <2>1. CASE \E code \in Errors : Answer(code)
    BY <1>1, <2>1, AnswerTyped DEF Errors
  <2>2. CASE res' = res \/ res' = [res EXCEPT !.end = "destroyed"]
    BY <1>1, <1>2, <2>2 DEF Response
  <2> QED BY <1>3, <2>1, <2>2
<1>5. Flowing' /\ BodyInv'
  BY <1>1, <1>4 DEF Flowing, BodyInv, Errors
<1> QED BY <1>1, <1>2, <1>4, <1>5, FlowKeeps

LEMMA PipedKeeps == DavInv /\ Piped => DavInv'
<1> SUFFICES ASSUME DavInv, Piped PROVE DavInv'
  OBVIOUS
<1> USE Piping
<1>1. /\ UNCHANGED <<req, own, size, length, at, client, aborted, offset>>
      /\ at = "piping" /\ Live /\ Win' = Win
  BY DEF Piped, fileVars, connVars, Win
<1>2. /\ stream' \in StreamType /\ stream'.at = "live" /\ stream'.buffer = 0
      /\ stream'.reading = stream.reading /\ stream'.eof = stream.eof
  <2>1. (~client) \in BOOLEAN
    BY DEF DavInv, DavTypes
  <2> QED BY <1>1, <2>1 DEF Piped, StreamType, Live
<1>3. /\ res' \in Response /\ res'.end = res.end
      /\ client => res'.sent = res.sent + stream.buffer
      /\ ~client => res'.sent = res.sent
  <2> DEFINE headed == [res EXCEPT !.headers = TRUE]
  <2>1. headed \in Response /\ headed.end = res.end /\ headed.sent = res.sent
    BY <1>1 DEF Response
  <2>2. res' = IF client THEN [headed EXCEPT !.sent = @ + stream.buffer] ELSE res
    BY DEF Piped
  <2> HIDE DEF headed
  <2>3. CASE client
    BY <1>1, <2>1, <2>2, <2>3 DEF Response
  <2>4. CASE ~client
    BY <1>1, <2>2, <2>4
  <2> QED BY <2>3, <2>4
<1>4. Flowing'
  BY <1>1, <1>2, <1>3 DEF DavInv, Flowing, Live
<1>5. BodyInv'
  BY <1>1, <1>2, <1>3, <1>4 DEF DavInv, BodyInv, Flowing, Live
<1> QED BY <1>1, <1>2, <1>3, <1>4, <1>5, FlowKeeps

LEMMA StreamEndsKeeps == DavInv /\ StreamEnds => DavInv'
<1> SUFFICES ASSUME DavInv, StreamEnds PROVE DavInv'
  OBVIOUS
<1> USE Piping
<1>1. /\ UNCHANGED <<req, own, size, length, at, client, aborted, offset>>
      /\ at = "piping" /\ Live /\ stream.eof /\ stream.buffer = 0 /\ Win' = Win
  BY DEF StreamEnds, fileVars, connVars, Win
<1>2. /\ stream' \in StreamType /\ stream'.at = "destroyed" /\ stream'.buffer = 0
  BY <1>1 DEF StreamEnds, StreamType
<1>3. /\ res' \in Response /\ res'.sent = res.sent
      /\ res'.end = IF client THEN "ended" ELSE "no"
  BY <1>1 DEF StreamEnds, Response, DavInv, Flowing, Live
<1>4. Flowing'
  BY <1>1, <1>2, <1>3 DEF DavInv, Flowing, Live
<1>5. client => \/ offset = Win.end /\ Win.start + res.sent = offset
                \/ length < Win.end /\ Win.start < Win.end
  <2> SUFFICES ASSUME client
               PROVE  \/ offset = Win.end /\ Win.start + res.sent = offset
                      \/ length < Win.end /\ Win.start < Win.end
    OBVIOUS
  <2>1. /\ Win.start <= offset /\ offset <= Win.end /\ res.sent + stream.buffer = offset - Win.start
        /\ offset = Win.end \/ length < Win.end
    BY <1>1 DEF DavInv, Flowing, NotOpenYet
  <2>2. /\ Win.start \in Nat /\ Win.end \in Nat /\ offset \in Nat /\ res.sent \in Nat
        /\ length \in Nat
    BY <1>1, Piping
  <2>3. Win.start + res.sent = offset
    BY <1>1, <2>1, <2>2
  <2> QED BY <2>1, <2>2, <2>3
<1>6. BodyInv'
  BY <1>1, <1>2, <1>3, <1>5 DEF DavInv, BodyInv
<1> QED BY <1>1, <1>2, <1>3, <1>4, <1>6, FlowKeeps

\* The end of a transfer whose response is over, or whose client left.
LEMMA FinallyKeepsInv ==
  ASSUME DavInv, at = "piping", Finally, UNCHANGED <<req, own, size, length, offset>>,
         client' \in BOOLEAN, aborted' \in BOOLEAN, aborted' => ~client',
         res' = res \/ (res.end = "ended" /\ res' = [res EXCEPT !.end = "finished"])
  PROVE  DavInv'
<1> USE Piping
<1>1. /\ stream' \in StreamType /\ stream'.at \notin {"none", "live"} /\ at' = "done"
  BY DEF Finally, Return, StreamType, Live, DavInv, Flowing
<1>2. /\ res' \in Response /\ res'.sent = res.sent /\ res'.status = res.status
      /\ res'.end \in {"ended", "finished"} => res.end \in {"ended", "finished"}
  BY DEF Response
<1>3. DavTypes'
  BY <1>1, <1>2 DEF DavInv, DavTypes
<1>4. NotOpenYet' /\ Flowing'
  BY <1>1 DEF NotOpenYet, Flowing, Before, Live
<1>5. Win' = Win
  BY DEF Win
<1>6. BodyInv' /\ OpenRange'
  BY <1>1, <1>2, <1>5 DEF DavInv, BodyInv, OpenRange, Flowing
<1> QED BY <1>3, <1>4, <1>6 DEF DavInv

LEMMA LeaveKeeps == DavInv /\ Leave => DavInv'
<1> SUFFICES ASSUME DavInv, Leave PROVE DavInv'
  OBVIOUS
<1>1. /\ UNCHANGED <<req, own, size, length, offset, res>>
      /\ client' = FALSE /\ aborted' \in BOOLEAN
  BY DEF Leave, fileVars
<1>2. CASE at = "piping"
  BY <1>1, <1>2, FinallyKeepsInv DEF Leave
<1>3. CASE at # "piping"
  <2>1. UNCHANGED <<at, stream>>
    BY <1>3 DEF Leave
  <2>2. Win' = Win
    BY <1>1 DEF Win
  <2> QED BY <1>1, <1>3, <2>1, <2>2
          DEF DavInv, DavTypes, NotOpenYet, Flowing, BodyInv, OpenRange, Live
<1> QED BY <1>2, <1>3

LEMMA ShrinkKeeps == DavInv /\ Shrink => DavInv'
<1> SUFFICES ASSUME DavInv, Shrink PROVE DavInv'
  OBVIOUS
<1>1. /\ UNCHANGED <<req, own, size, at, client, aborted, res, stream, offset>>
      /\ length' \in Nat /\ length' < length /\ length' <= size
  BY DEF Shrink, fileVars, connVars, streamVars, DavInv, DavTypes
<1>2. Win' = Win /\ Win.start \in Nat /\ Win.end \in Nat /\ length \in Nat
  BY <1>1, WinInOrder DEF Win, DavInv, DavTypes
<1>3. DavTypes'
  BY <1>1 DEF DavInv, DavTypes
<1>4. NotOpenYet' /\ Flowing'
  BY <1>1, <1>2 DEF DavInv, NotOpenYet, Flowing, Live
<1>5. BodyInv' /\ OpenRange'
  BY <1>1, <1>2 DEF DavInv, BodyInv, OpenRange
<1> QED BY <1>3, <1>4, <1>5 DEF DavInv

\* A step up to the file's opening, or one that opens none.
LEMMA SettleKeeps == DavInv /\ Settle => DavInv'
<1> SUFFICES ASSUME DavInv, Settle PROVE DavInv'
  OBVIOUS
<1> USE DEF Return, Before
<1>1. CASE Opened
  BY <1>1, OpenedKeeps
<1>2. CASE OpenFails
  <2>1. Quiet /\ at \in Before /\ at' = "done"
    BY <1>2 DEF OpenFails
  <2>2. res' = res \/ \E code \in Nat : Answer(code)
    BY <1>2 DEF OpenFails, Errors
  <2> QED BY <2>1, <2>2, QuietKeeps
<1>3. CASE Unresolved \/ Rejects
  BY <1>3, QuietKeeps DEF Unresolved, Rejects
<1>4. CASE Call
  BY <1>4, QuietKeeps DEF Call
<1>5. CASE Malformed \/ Missing \/ Listed
  BY <1>5, QuietKeeps DEF Malformed, Missing, Listed
<1>6. CASE Removed
  BY <1>6, QuietKeeps DEF Removed
<1>7. CASE GetInline("dir") \/ GetInline("link")
  BY <1>7, QuietKeeps DEF GetInline
<1>8. CASE Get
  <2>1. at' = "open" => Win.end <= size
    BY <1>8, WindowWithin DEF Get, DavInv
  <2> QED BY <1>8, <2>1, QuietKeeps DEF Get
<1>9. ASSUME NEW kind, Propfind(kind) \/ Delete(kind) PROVE DavInv'
  BY <1>9, QuietKeeps DEF Propfind, Delete
<1> QED BY <1>1, <1>2, <1>3, <1>4, <1>5, <1>6, <1>7, <1>8, <1>9 DEF Settle, Resolved

LEMMA DavStep == DavInv /\ [Next]_vars => DavInv'
<1> SUFFICES ASSUME DavInv, [Next]_vars PROVE DavInv'
  OBVIOUS
<1>1. CASE Settle
  BY <1>1, SettleKeeps
<1>2. CASE Flow
  <2>1. CASE Finish
    <3>1. /\ at = "piping" /\ Finally /\ UNCHANGED <<req, own, size, length, offset, client, aborted>>
          /\ res.end = "ended" /\ res' = [res EXCEPT !.end = "finished"]
      BY <2>1 DEF Finish, fileVars, connVars
    <3> QED BY <3>1, FinallyKeepsInv DEF DavInv, DavTypes, NotOpenYet
  <2> QED BY <1>2, <2>1, ReadCallKeeps, ReadDoneKeeps, ReadFailsKeeps, ErroredKeeps, PipedKeeps,
             StreamEndsKeeps DEF Flow
<1>3. CASE Leave \/ Shrink
  BY <1>3, LeaveKeeps, ShrinkKeeps
<1>4. CASE UNCHANGED vars
  BY <1>4 DEF vars, fileVars, connVars, streamVars, DavInv, DavTypes, NotOpenYet, Flowing,
              BodyInv, OpenRange, Live, Win
<1> QED BY <1>1, <1>2, <1>3, <1>4 DEF Next, Over

-----------------------------------------------------------------------------
\* So the bytes sent are the bytes asked for, or one of those is lost.
LEMMA WholeBody == DavInv => BodyWhole
<1> SUFFICES ASSUME DavInv PROVE BodyWhole
  OBVIOUS
<1>1. /\ Win.start \in Nat /\ Win.end \in Nat /\ Win.start <= Win.end
      /\ length \in Nat /\ size \in Nat /\ size <= MaxSize /\ MaxSize \in Nat
  BY WinInOrder DEF DavInv, DavTypes
<1>2. ASSUME NEW k \in Sizes
      PROVE  k < size /\ Selects(req.range, size, k) <=> k < size /\ Win.start <= k /\ k < Win.end
  <2>1. k \in Nat /\ req.range \in RangeHeader
    BY DEF Sizes, DavInv, DavTypes
  <2> QED BY <1>1, <2>1, WindowSelects DEF Win
<1>3. ASSUME req.method = "GET", stream.at # "none", res.end \in {"ended", "finished"},
             res.status \in {200, 206}
      PROVE  \/ res.sent = Win.end - Win.start /\ LastRead(res.sent) = Asked
             \/ \E k \in Asked : length <= k
  <2>1. Win.end <= size
    BY <1>3 DEF DavInv, OpenRange
  <2>2. res.sent \in Nat
    BY DEF DavInv, DavTypes, Response
  <2>3. CASE offset = Win.end /\ Win.start + res.sent = offset
    <3>1. \A k \in Sizes : /\ k < offset /\ offset <= k + res.sent
                             <=> k < size /\ Selects(req.range, size, k)
      <4> SUFFICES ASSUME NEW k \in Sizes
                   PROVE  /\ k < offset /\ offset <= k + res.sent
                          <=> k < size /\ Win.start <= k /\ k < Win.end
        BY <1>2
      <4>1. k \in Nat
        BY DEF Sizes
      <4> QED BY <1>1, <2>1, <2>2, <2>3, <4>1
    <3>2. LastRead(res.sent) = Asked
      BY <3>1 DEF LastRead, Asked
    <3> QED BY <1>1, <2>2, <2>3, <3>2
  <2>4. CASE length < Win.end /\ Win.start < Win.end
    <3>1. PICK k : k = Win.end - 1
      OBVIOUS
    <3>2. k \in Sizes /\ k < size /\ Win.start <= k /\ k < Win.end /\ length <= k
      BY <1>1, <2>1, <2>4, <3>1 DEF Sizes
    <3> QED BY <1>2, <3>2 DEF Asked
  <2> QED BY <1>3, <2>3, <2>4 DEF DavInv, BodyInv
<1>4. at = "piping" => res.sent + stream.buffer <= Win.end - Win.start
  BY DEF DavInv, BodyInv
<1> QED BY <1>3, <1>4 DEF BodyWhole

\* A body that ends normally is the bytes its Range header asks for, as many as announced,
\* or the file itself has lost one of them: for files of any size, chunks of any length,
\* any range (get, openViaHandle and resolveRange, handler.ts:228-450).
THEOREM BodyIsWindow == Spec => []BodyWhole
<1>1. DavInv => BodyWhole
  BY WholeBody
<1> QED BY <1>1, DavInit, DavStep, PTL DEF Spec

-----------------------------------------------------------------------------
\* What was closed of a stream, by where it is.
ClosedSoFar ==
  closes = IF stream.at \in {"failing", "destroyed"} THEN 1 ELSE 0

EndInv == DavInv /\ ClosedSoFar /\ TransferAnswered

LEMMA ClosedStep ==
  ASSUME DavInv, ClosedSoFar, [Next]_vars
  PROVE  ClosedSoFar'
<1> USE DEF ClosedSoFar
<1>1. CASE UNCHANGED <<stream, closes>>
  BY <1>1
<1>2. stream \in StreamType /\ (at = "open" => stream.at = "none")
  BY DEF DavInv, DavTypes, NotOpenYet, Before
<1>3. CASE Opened
  BY <1>2, <1>3 DEF Opened, StreamType
<1>4. CASE ReadCall
  BY <1>2, <1>4 DEF ReadCall, StreamType
<1>5. CASE ReadDone
  <2>1. stream'.at = stream.at /\ closes' = closes
    <3>1. Live \in BOOLEAN
      BY DEF Live
    <3> QED BY <1>2, <1>5, <3>1 DEF ReadDone, StreamType
  <2> QED BY <2>1
<1>6. CASE ReadFails
  BY <1>2, <1>6 DEF ReadFails, StreamType, Live
<1>7. CASE Errored
  BY <1>2, <1>7 DEF Errored, StreamType
<1>8. CASE Piped
  BY <1>2, <1>8 DEF Piped, StreamType
<1>9. CASE StreamEnds
  BY <1>2, <1>9 DEF StreamEnds, StreamType, Live
<1>10. CASE Finally
  BY <1>2, <1>10 DEF Finally, StreamType, Live
<1>11. CASE Finish \/ Leave
  BY <1>1, <1>10, <1>11 DEF Finish, Leave
<1>12. CASE Quiet \/ Shrink \/ UNCHANGED vars
  BY <1>1, <1>12 DEF Quiet, Shrink, vars, streamVars
<1>13. CASE Settle /\ ~Opened
  <2>1. Quiet
    BY <1>13 DEF Settle, Call, Malformed, Resolved, Missing, GetInline, Get, Propfind, Delete,
                Listed, Removed, Unresolved, Rejects, OpenFails
  <2> QED BY <1>12, <2>1
<1> QED BY <1>3, <1>4, <1>5, <1>6, <1>7, <1>8, <1>9, <1>11, <1>12, <1>13 DEF Next, Flow, Over

LEMMA AnsweredStep ==
  ASSUME DavInv, TransferAnswered, [Next]_vars
  PROVE  TransferAnswered'
<1> USE DEF TransferAnswered
<1>1. /\ at \in Before => stream.at = "none"
      /\ aborted => ~client
      /\ stream \in StreamType /\ res \in Response
  BY DEF DavInv, DavTypes, NotOpenYet
<1>2. CASE Settle /\ ~Opened
  <2>1. Quiet /\ at \in Before
    BY <1>2 DEF Settle, Call, Malformed, Resolved, Missing, GetInline, Get, Propfind, Delete,
               Listed, Removed, Unresolved, Rejects, OpenFails, Before
  <2> QED BY <1>1, <2>1 DEF Quiet, streamVars
<1>3. CASE Opened
  BY <1>3 DEF Opened, fileVars
<1>4. CASE ReadCall \/ ReadDone \/ ReadFails \/ Shrink \/ UNCHANGED vars
  <2>1. UNCHANGED <<req, at, client, res>>
    BY <1>4 DEF ReadCall, ReadDone, ReadFails, Shrink, vars, fileVars, connVars
  <2>2. stream'.at # "none" => stream.at # "none"
    <3>1. CASE ReadDone
      <4>1. Live \in BOOLEAN
        BY DEF Live
      <4> QED BY <1>1, <3>1, <4>1 DEF ReadDone, StreamType
    <3>2. CASE ReadCall \/ ReadFails
      BY <1>1, <3>2 DEF ReadCall, ReadFails, StreamType, Live
    <3>3. CASE Shrink \/ UNCHANGED vars
      BY <3>3 DEF Shrink, vars, streamVars
    <3> QED BY <1>4, <3>1, <3>2, <3>3
  <2> QED BY <2>1, <2>2
<1>5. CASE Piped \/ StreamEnds
  BY <1>5 DEF Piped, StreamEnds
<1>6. CASE Errored
  <2>1. client' = client /\ aborted' = aborted
    BY <1>6 DEF Errored, connVars
  <2>2. CASE aborted
    BY <1>1, <2>1, <2>2
  <2>3. CASE ~aborted /\ res.headers /\ res' = [res EXCEPT !.end = "destroyed"]
    BY <1>1, <2>3 DEF Response
  <2>4. ASSUME NEW code \in Errors, Answer(code) PROVE TransferAnswered'
    <3>1. res'.end = "ended" /\ res'.status = code
      BY <1>1, <2>4, AnswerTyped DEF Errors
    <3> QED BY <2>4, <3>1
  <2> QED BY <1>6, <2>2, <2>3, <2>4 DEF Errored
<1>7. CASE Finish
  BY <1>1, <1>7 DEF Finish, Response
<1>8. CASE Leave
  BY <1>8 DEF Leave
<1> QED BY <1>2, <1>3, <1>4, <1>5, <1>6, <1>7, <1>8 DEF Next, Flow, Over

LEMMA EndAlways == Spec => []EndInv
<1>1. Init => EndInv
  <2> SUFFICES ASSUME Init PROVE EndInv
    OBVIOUS
  <2> QED BY DavInit DEF Init, EndInv, ClosedSoFar, TransferAnswered
<1>2. EndInv /\ [Next]_vars => EndInv'
  BY DavStep, ClosedStep, AnsweredStep DEF EndInv
<1> QED BY <1>1, <1>2, PTL DEF Spec

\* close() is never called twice on the handle, and a request that is over has called it.
ClosedByTheEnd == closes <= 1 /\ (at = "done" /\ stream.at # "none" => closes = 1)

\* What is safety in HandleReleased, and what it comes to at the end: no error, end of
\* the body, HEAD or client that leaves closes the handle a second time, and each leaves
\* it closed when the request is over (destroy, handler.ts:284, and those who call it:
\* 438, 452 and 476).
THEOREM HandleClosedByTheEnd == Spec => []ClosedByTheEnd
<1>1. EndInv => ClosedByTheEnd
  BY DEF EndInv, DavInv, DavTypes, NotOpenYet, ClosedSoFar, ClosedByTheEnd, StreamType, Live
<1> QED BY <1>1, EndAlways, PTL

\* The safety in ResponseEnds: a transfer whose client stays never ends with the headers
\* unsent, or with a body cut off as if it were whole.
THEOREM TransfersAnswered == Spec => []TransferAnswered
<1>1. EndInv => TransferAnswered
  BY DEF EndInv
<1> QED BY <1>1, EndAlways, PTL
=============================================================================
