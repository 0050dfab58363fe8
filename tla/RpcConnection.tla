--------------------------- MODULE RpcConnection ---------------------------
(***************************************************************************)
(* One connection of the RPC server (RpcServer.accept and writeRecord in   *)
(* rpc.ts): records come in by the chunk, each is dispatched at once, the  *)
(* socket is paused while too many calls are in flight and resumed when    *)
(* half of them are done, and the pooled buffers a reply carries are       *)
(* released when they are written or can no longer be.                     *)
(*                                                                         *)
(* Calls are named by the record they came in; what a call does before it  *)
(* settles is not modelled here.                                           *)
(***************************************************************************)
EXTENDS Integers, FiniteSets

CONSTANTS
  Calls,       \* the records the client sends on this connection
  MaxInflight, \* maxInflight, 64 in the code
  MaxChunk     \* bound: complete records in one chunk of data

ASSUME ConstantsAssumption ==
  MaxInflight \in Nat \ {0} /\ MaxChunk \in Nat \ {0} /\ IsFiniteSet(Calls)

VARIABLES
  call,     \* per record: "unsent", "running", "writing" (its reply), "done"
  held,     \* the calls whose reply's pooled buffers exist and are not released
  released, \* how often each call's buffers were released
  inflight, \* the connection's counter
  paused,   \* whether the socket is paused
  open      \* whether the socket is not destroyed

vars == <<call, held, released, inflight, paused, open>>

-----------------------------------------------------------------------------
\* onRecord for each of the records a chunk completes: all are dispatched, also
\* those after the one that pauses the socket.
OnRecords(arrived) ==
  /\ call' = [c \in Calls |-> IF c \in arrived THEN "running" ELSE call[c]]
  /\ inflight' = inflight + Cardinality(arrived)
  /\ paused' = (paused \/ (arrived # {} /\ inflight' >= MaxInflight))

Chunk == {arrived \in SUBSET {c \in Calls : call[c] = "unsent"} :
            Cardinality(arrived) <= MaxChunk}

\* A chunk of data: an unpaused socket delivers it.
Data ==
  /\ open /\ ~paused
  /\ \E arrived \in Chunk : arrived # {} /\ OnRecords(arrived)
  /\ UNCHANGED <<held, released, open>>

\* A chunk with a record that is too long: those before it are dispatched, and
\* the connection is dropped.
BadRecord ==
  /\ open /\ ~paused
  /\ \E arrived \in Chunk : OnRecords(arrived)
  /\ open' = FALSE
  /\ UNCHANGED <<held, released>>

\* The peer goes away, or RpcServer.close destroys the socket.
Destroy ==
  /\ open /\ open' = FALSE
  /\ UNCHANGED <<call, held, released, inflight, paused>>

-----------------------------------------------------------------------------
\* Mutant: the socket is resumed at exactly half.
FinallyAtHalf ==
  /\ inflight' = inflight - 1
  /\ paused' = (paused /\ 2 * inflight' # MaxInflight)

\* The finally of a dispatch: the counter goes down, and a paused socket resumes
\* below half of the limit.
Finally ==
  /\ inflight' = inflight - 1
  /\ paused' = (paused /\ ~(2 * inflight' < MaxInflight))

Release(c) == released' = [released EXCEPT ![c] = @ + 1]

\* Mutant: buffers are released as soon as their reply is queued.
ResolveReleasesEarly(c) ==
  /\ call[c] = "running"
  /\ call' = [call EXCEPT ![c] = IF open THEN "writing" ELSE "done"]
  /\ Release(c)
  /\ Finally
  /\ UNCHANGED <<held, open>>

\* The call resolves with a reply that carries pooled buffers: it is written, or
\* released at once when the socket is gone.
Resolve(c) ==
  /\ call[c] = "running"
  /\ \/ /\ open
        /\ call' = [call EXCEPT ![c] = "writing"]
        /\ held' = held \cup {c}
        /\ UNCHANGED released
     \/ /\ ~open
        /\ call' = [call EXCEPT ![c] = "done"]
        /\ Release(c)
        /\ UNCHANGED held
  /\ Finally
  /\ UNCHANGED open

\* Mutant: the counter goes down in a then, not in a finally.
RejectUncounted(c) ==
  /\ call[c] = "running"
  /\ call' = [call EXCEPT ![c] = "done"]
  /\ UNCHANGED <<held, released, inflight, paused, open>>

\* dispatch makes a reply of every error but one: a record in which no call can be
\* read rejects.  There is nothing to send, and the counter goes down all the same.
Reject(c) ==
  /\ call[c] = "running"
  /\ call' = [call EXCEPT ![c] = "done"]
  /\ Finally
  /\ UNCHANGED <<held, released, open>>

\* The callback of a reply's last write: its bytes are with the system, or the
\* socket died.
Written(c) ==
  /\ call[c] = "writing"
  /\ call' = [call EXCEPT ![c] = "done"]
  /\ held' = held \ {c}
  /\ Release(c)
  /\ UNCHANGED <<inflight, paused, open>>

\* Nothing is in flight and nothing more can come.
Quiet ==
  /\ \A c \in Calls : call[c] \in (IF open THEN {"done"} ELSE {"unsent", "done"})
  /\ UNCHANGED vars

Init ==
  /\ call = [c \in Calls |-> "unsent"]
  /\ held = {} /\ released = [c \in Calls |-> 0]
  /\ inflight = 0 /\ paused = FALSE /\ open = TRUE

Next ==
  \/ Data \/ BadRecord \/ Destroy \/ Quiet
  \/ \E c \in Calls : Resolve(c) \/ Reject(c) \/ Written(c)

Spec == Init /\ [][Next]_vars

\* Every dispatch settles and every write ends or fails; a client need not send.
FairSpec ==
  Spec /\ \A c \in Calls : WF_vars(Resolve(c) \/ Reject(c)) /\ WF_vars(Written(c))

-----------------------------------------------------------------------------
Running == {c \in Calls : call[c] = "running"}

TypeOK ==
  /\ call \in [Calls -> {"unsent", "running", "writing", "done"}]
  /\ held \subseteq Calls /\ released \in [Calls -> Nat]
  /\ inflight \in Nat /\ paused \in BOOLEAN /\ open \in BOOLEAN

\* The counter the pausing goes by is the number of calls in flight, however they
\* end: resolved, rejected, or on a socket that is gone.
InflightExact == inflight = Cardinality(Running)

\* No lost wakeup: a paused socket has enough calls in flight for one of their
\* ends to resume it.  An unpaused one is below the limit, so that the limit is
\* overrun by no more than the rest of one chunk.
PausedWhenBusy ==
  /\ paused => inflight > 0 /\ 2 * inflight >= MaxInflight
  /\ ~paused => inflight < MaxInflight
  /\ inflight < MaxInflight + MaxChunk

\* A reply's pooled buffers are not given back while the socket may still read them;
\* once it is written or dropped they have been, and never twice.
BuffersGivenBack ==
  /\ \A c \in Calls : call[c] = "writing" => c \in held /\ released[c] = 0
  /\ \A c \in held : call[c] = "writing"
  /\ \A c \in Calls : released[c] <= 1

\* A paused connection reads again, or is gone.
PausedResumes == paused ~> (~paused \/ ~open)
=============================================================================
