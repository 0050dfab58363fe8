----------------------------- MODULE RpcServer -----------------------------
(***************************************************************************)
(* A connection of the RPC server with the record reader in front of it    *)
(* (RecordReader in rpc.ts): a stream of bytes, cut anywhere by the chunks *)
(* it arrives in, becomes records, and each record a call of               *)
(* RpcConnection, whose state and replies this module takes over.          *)
(*                                                                         *)
(* Of a fragment only its length and its last-fragment bit are kept; its   *)
(* bytes are named by its number in the stream, and the nth record is the  *)
(* nth call.                                                               *)
(***************************************************************************)
EXTENDS RpcConnection, SequencesExt

CONSTANTS
  Streams,   \* what a client may send: sequences of fragments
  MaxRecord  \* maxRecord, 1 MiB in the code

Header == 4  \* bytes of a fragment's header

ASSUME ServerAssumption ==
  /\ MaxRecord \in Nat
  /\ \A s \in Streams :
       /\ s \in Seq([length : Nat, last : BOOLEAN])
       /\ 1 .. Cardinality({k \in DOMAIN s : s[k].last}) \subseteq Calls

VARIABLES
  stream, \* what this client sends
  left,   \* bytes of it that have not arrived
  reader  \* the RecordReader

streamVars == <<stream, left, reader>>
serverVars == <<vars, streamVars>>

(***************************************************************************)
(* pending is the bytes of the pending buffer, which begins with fragment  *)
(* next; joined are the fragments of the record begun, size their bytes;   *)
(* records is what onRecord was called with, each the fragments it was     *)
(* joined from; bad says that push threw.                                  *)
(***************************************************************************)
NewReader == [pending |-> 0, next |-> 1, joined |-> <<>>, size |-> 0,
              records |-> <<>>, bad |-> FALSE]

-----------------------------------------------------------------------------
\* Mutant: the fragments of a record are not let go with it.
FragmentTakenKept(r) ==
  LET f == stream[r.next]
      joined == Append(r.joined, r.next)
      rest == [r EXCEPT !.pending = @ - (Header + f.length), !.next = @ + 1]
  IN IF f.last THEN [rest EXCEPT !.joined = joined, !.size = 0, !.records = Append(@, joined)]
     ELSE [rest EXCEPT !.joined = joined, !.size = @ + f.length]

\* A fragment that is there is taken out of the pending buffer; the last one of a
\* record calls onRecord.
FragmentTaken(r) ==
  LET f == stream[r.next]
      joined == Append(r.joined, r.next)
      rest == [r EXCEPT !.pending = @ - (Header + f.length), !.next = @ + 1]
  IN IF f.last THEN [rest EXCEPT !.joined = <<>>, !.size = 0, !.records = Append(@, joined)]
     ELSE [rest EXCEPT !.joined = joined, !.size = @ + f.length]

TooLong(r) == r.size + stream[r.next].length > MaxRecord
Complete(r) == r.pending >= Header + stream[r.next].length

\* One turn of the loop of push: it throws, takes a fragment, or waits for more.
LoopTurn(r) ==
  IF r.bad \/ r.pending < Header THEN r
  ELSE IF TooLong(r) THEN [r EXCEPT !.bad = TRUE]
  ELSE IF Complete(r) THEN FragmentTaken(r)
  ELSE r

\* push with n more bytes; no turn takes more than a fragment.
Pushed(n) ==
  FoldLeft(LAMBDA r, f : LoopTurn(r), [reader EXCEPT !.pending = @ + n], stream)

\* Mutant: the data that is buffered when the socket pauses is read on.
PushPaused(n) ==
  /\ open
  /\ left' = left - n /\ reader' = Pushed(n)
  /\ LET arrived == Len(reader.records) + 1 .. Len(reader'.records) IN
     Cardinality(arrived) <= MaxChunk /\ OnRecords(arrived)
  /\ open' = ~reader'.bad
  /\ UNCHANGED <<held, released, stream>>

\* The next n bytes arrive: the records they complete are dispatched, and a record
\* that is too long drops the connection.
Push(n) ==
  /\ open /\ ~paused
  /\ left' = left - n /\ reader' = Pushed(n)
  /\ LET arrived == Len(reader.records) + 1 .. Len(reader'.records) IN
     Cardinality(arrived) <= MaxChunk /\ OnRecords(arrived)
  /\ open' = ~reader'.bad
  /\ UNCHANGED <<held, released, stream>>

\* What RpcConnection does without the reader.
ConnectionStep ==
  /\ Destroy \/ \E c \in Calls : Resolve(c) \/ Reject(c) \/ Written(c)
  /\ UNCHANGED streamVars

\* Nothing is in flight and nothing more can come.
ServerQuiet ==
  /\ \A c \in Calls : call[c] \in {"unsent", "done"}
  /\ ~open \/ left = 0
  /\ UNCHANGED serverVars

ServerInit ==
  /\ Init /\ stream \in Streams
  /\ left = MapThenSumSet(LAMBDA k : Header + stream[k].length, DOMAIN stream)
  /\ reader = NewReader

ServerNext ==
  (\E n \in 1 .. left : Push(n)) \/ ConnectionStep \/ ServerQuiet

ServerSpec == ServerInit /\ [][ServerNext]_serverVars

\* As in RpcConnection: every dispatch settles, every write ends or fails.
FairServerSpec ==
  /\ ServerSpec
  /\ \A c \in Calls : /\ WF_serverVars((Resolve(c) \/ Reject(c)) /\ UNCHANGED streamVars)
                      /\ WF_serverVars(Written(c) /\ UNCHANGED streamVars)

-----------------------------------------------------------------------------
\* Where fragment k ends, and the bytes of its record up to its own end.
EndOf(k) == MapThenSumSet(LAMBDA j : Header + stream[j].length, 1 .. k)
SizeAt(k) ==
  MapThenSumSet(LAMBDA j : stream[j].length,
                {j \in 1 .. k : \A i \in j .. k - 1 : ~stream[i].last})
Arrived == EndOf(Len(stream)) - left

\* Wherever the chunks cut headers, fragments and records: the fragments taken are
\* those of the stream in its order, each in one record; a record ends with its last
\* fragment; no fragment that has arrived waits; and the connection is given up when
\* the header of a fragment that makes a record too long has arrived, and only then.
RecordsWhole ==
  /\ FlattenSeq(reader.records) \o reader.joined = [k \in 1 .. reader.next - 1 |-> k]
  /\ \A r \in ToSet(reader.records) : \A k \in DOMAIN r : stream[r[k]].last <=> k = Len(r)
  /\ \A k \in ToSet(reader.joined) : ~stream[k].last
  /\ reader.bad \/ reader.next > Len(stream) \/ EndOf(reader.next) > Arrived
  /\ reader.bad <=> \E k \in DOMAIN stream :
                      SizeAt(k) > MaxRecord /\ EndOf(k - 1) + Header <= Arrived

\* Behind the reader the connection is RpcConnection: each record is one call that
\* was not sent before, none is dispatched while the socket is paused or gone, and a
\* chunk that completes no record changes nothing.
ImplementsConnection == Spec
=============================================================================
