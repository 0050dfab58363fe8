--------------------------- MODULE RpcServerProofs ---------------------------
(***************************************************************************)
(* Proofs about RpcConnection and RpcServer, and about PagedListing.       *)
(*                                                                         *)
(* Of the connection: pausing is invariant only with the count exact,      *)
(* whose own proof needs no more than the types; for the buffers, a call   *)
(* that has not settled has to have released nothing.                      *)
(*                                                                         *)
(* Of the server: the reader with a bytes behind it has taken the whole    *)
(* fragments of them in order and can take no more, and the calls that     *)
(* were sent are records it delivered.  From this follow the refinement    *)
(* and the wholeness of the records.  What the reader computes is folds of *)
(* the community modules, so the first sections say what those are, step   *)
(* by step, without their recursion.                                       *)
(*                                                                         *)
(* Of a listing, which shares nothing with a connection but the sums its   *)
(* pages are filled by: what was there all along was listed or is behind   *)
(* the reader's place, not both and not twice.                             *)
(***************************************************************************)
EXTENDS RpcServer, PagedListing, FiniteSetTheorems, SequenceTheorems, WellFoundedInduction, TLAPS

\* The connection: its counter and pausing; its buffers.
Unreleased == \A c \in Calls : call[c] \in {"unsent", "running"} => released[c] = 0

CountInv == TypeOK /\ InflightExact /\ PausedWhenBusy
BufferInv == TypeOK /\ BuffersGivenBack /\ Unreleased

-----------------------------------------------------------------------------
\* The calls in flight are finitely many.
LEMMA RunningFinite == IsFiniteSet(Running)
<1>1. Running \subseteq Calls
  BY DEF Running
<1> QED BY <1>1, FS_Subset, ConstantsAssumption DEF ConstantsAssumption

\* A call that settles leaves one call fewer in flight.
LEMMA OneSettles ==
  ASSUME TypeOK, InflightExact, NEW c \in Calls, call[c] = "running",
         NEW s \in {"writing", "done"}, call' = [call EXCEPT ![c] = s]
  PROVE  inflight > 0 /\ Cardinality(Running') = inflight - 1
<1>1. c \in Running /\ Running' = Running \ {c}
  BY DEF TypeOK, Running
<1>2. Cardinality(Running \ {c}) = Cardinality(Running) - 1
  BY <1>1, RunningFinite, FS_RemoveElement
<1>3. Cardinality(Running \ {c}) \in Nat
  BY RunningFinite, FS_RemoveElement, FS_CardinalityType, <1>1
<1> QED BY <1>1, <1>2, <1>3 DEF InflightExact, TypeOK

\* A chunk's records add to the calls in flight what they are.
LEMMA ChunkArrives ==
  ASSUME TypeOK, InflightExact, NEW arrived \in Chunk, OnRecords(arrived)
  PROVE  /\ inflight' = Cardinality(Running') /\ inflight' \in Nat
         /\ inflight' >= inflight /\ inflight' <= inflight + MaxChunk
         /\ arrived = {} => inflight' = inflight
         /\ call' \in [Calls -> {"unsent", "running", "writing", "done"}]
         /\ \A c \in Calls : call'[c] = IF c \in arrived THEN "running" ELSE call[c]
<1> USE ConstantsAssumption DEF ConstantsAssumption
<1>1. arrived \subseteq Calls /\ IsFiniteSet(arrived) /\ Cardinality(arrived) \in Nat
  <2>1. arrived \subseteq Calls
    BY DEF Chunk
  <2> QED BY <2>1, FS_Subset, FS_CardinalityType
<1>2. Running' = Running \cup arrived /\ Running \cap arrived = {}
  BY <1>1 DEF Running, OnRecords, Chunk, TypeOK
<1>3. Cardinality(Running') = Cardinality(Running) + Cardinality(arrived)
  <2>1. Cardinality(Running \cup arrived)
          = Cardinality(Running) + Cardinality(arrived) - Cardinality(Running \cap arrived)
    BY <1>1, RunningFinite, FS_Union
  <2>2. Cardinality(Running \cap arrived) = 0
    BY <1>2, FS_EmptySet
  <2>3. Cardinality(Running) \in Nat
    BY RunningFinite, FS_CardinalityType
  <2> QED BY <1>1, <1>2, <2>1, <2>2, <2>3
<1>4. Cardinality(arrived) <= MaxChunk
  BY DEF Chunk
<1>5. arrived = {} => Cardinality(arrived) = 0
  BY FS_EmptySet
<1> QED BY <1>1, <1>3, <1>4, <1>5 DEF OnRecords, InflightExact, TypeOK

-----------------------------------------------------------------------------
\* Nothing is in flight at first.
LEMMA CountInit == Init => CountInv
<1> SUFFICES ASSUME Init PROVE CountInv
  OBVIOUS
<1> USE ConstantsAssumption DEF ConstantsAssumption
<1>1. Running = {}
  BY DEF Init, Running
<1>2. Cardinality(Running) = 0
  BY <1>1, FS_EmptySet
<1>3. ~paused /\ paused \in BOOLEAN /\ open \in BOOLEAN
  BY Zenon DEF Init
<1>4. TypeOK
  BY <1>3 DEF Init, TypeOK
<1>5. InflightExact /\ PausedWhenBusy
  BY <1>2, <1>3 DEF Init, InflightExact, PausedWhenBusy
<1> QED BY <1>4, <1>5 DEF CountInv

\* Every step keeps the count exact and the pausing in step with it.
LEMMA CountStep == CountInv /\ [Next]_vars => CountInv'
<1> SUFFICES ASSUME CountInv, [Next]_vars PROVE CountInv'
  OBVIOUS
<1> USE ConstantsAssumption DEF ConstantsAssumption
<1> USE DEF CountInv
<1>1. ASSUME NEW arrived \in Chunk, OnRecords(arrived), ~paused,
             held' = held, released' = released, open' \in BOOLEAN
      PROVE  CountInv'
  <2>1. /\ paused' \in BOOLEAN
        /\ paused' <=> arrived # {} /\ inflight' >= MaxInflight
    BY <1>1, Zenon DEF OnRecords
  <2>2. TypeOK' /\ InflightExact'
    BY <1>1, <2>1, ChunkArrives DEF TypeOK, InflightExact
  <2>3. inflight < MaxInflight
    BY <1>1 DEF PausedWhenBusy
  <2>4. /\ inflight' \in Nat /\ inflight' <= inflight + MaxChunk
        /\ arrived = {} => inflight' = inflight
    BY <1>1, ChunkArrives
  <2>5. ~paused' => inflight' < MaxInflight
    <3>1. CASE arrived = {}
      BY <2>3, <2>4, <3>1
    <3>2. CASE arrived # {}
      <4>1. ~paused' => ~(inflight' >= MaxInflight)
        BY <2>1, <3>2, Zenon
      <4>2. ~(inflight' >= MaxInflight) => inflight' < MaxInflight
        BY <2>4
      <4> QED BY <4>1, <4>2
    <3> QED BY <3>1, <3>2
  <2>6. paused' => inflight' > 0 /\ 2 * inflight' >= MaxInflight
    <3>1. paused' => inflight' >= MaxInflight
      BY <2>1, Zenon
    <3>2. \A n \in Nat : n >= MaxInflight => n > 0 /\ 2 * n >= MaxInflight
      OBVIOUS
    <3>3. inflight' >= MaxInflight => inflight' > 0 /\ 2 * inflight' >= MaxInflight
      BY <2>4, <3>2, Zenon
    <3> QED BY <3>1, <3>3, Zenon
  <2>7. inflight' < MaxInflight + MaxChunk
    BY <2>3, <2>4 DEF TypeOK
  <2> QED BY <2>2, <2>5, <2>6, <2>7, Zenon DEF PausedWhenBusy
<1>2. ASSUME NEW c \in Calls, call[c] = "running",
             NEW s \in {"writing", "done"}, call' = [call EXCEPT ![c] = s],
             Finally, held' \subseteq Calls, released' \in [Calls -> Nat], open' = open
      PROVE  CountInv'
  <2>1. /\ paused' \in BOOLEAN
        /\ paused' <=> paused /\ ~(2 * inflight' < MaxInflight)
    BY <1>2, Zenon DEF Finally
  <2>2. /\ inflight > 0 /\ inflight' = inflight - 1
        /\ Cardinality(Running') = inflight'
    BY <1>2, OneSettles DEF Finally
  <2>3. TypeOK' /\ InflightExact'
    BY <1>2, <2>1, <2>2 DEF TypeOK, InflightExact
  <2>4. PausedWhenBusy'
    BY <2>1, <2>2 DEF TypeOK, PausedWhenBusy
  <2> QED BY <2>3, <2>4
<1>3. ASSUME Running' = Running, inflight' = inflight, paused' = paused, TypeOK'
      PROVE  CountInv'
  BY <1>3 DEF InflightExact, PausedWhenBusy
<1>4. CASE Data
  BY <1>1, <1>4 DEF Data, TypeOK
<1>5. CASE BadRecord
  BY <1>1, <1>5 DEF BadRecord
<1>6. CASE Destroy
  BY <1>3, <1>6 DEF Destroy, Running, TypeOK
<1>7. CASE Quiet \/ UNCHANGED vars
  BY <1>3, <1>7 DEF Quiet, vars, Running, TypeOK
<1>8. ASSUME NEW c \in Calls, Resolve(c) PROVE CountInv'
  BY <1>2, <1>8 DEF Resolve, Release, TypeOK
<1>9. ASSUME NEW c \in Calls, Reject(c) PROVE CountInv'
  BY <1>2, <1>9 DEF Reject, TypeOK
<1>10. ASSUME NEW c \in Calls, Written(c) PROVE CountInv'
  <2>1. Running' = Running
    BY <1>10 DEF Written, Running, TypeOK
  <2>2. TypeOK'
    BY <1>10 DEF Written, Release, TypeOK
  <2> QED BY <1>3, <1>10, <2>1, <2>2 DEF Written
<1> QED BY <1>4, <1>5, <1>6, <1>7, <1>8, <1>9, <1>10 DEF Next

\* So it holds always.
LEMMA CountAlways == Spec => []CountInv
BY CountInit, CountStep, PTL DEF Spec

\* The state of a connection keeps its type, for every number of calls and every limit.
THEOREM TypeCorrect == Spec => []TypeOK
BY CountAlways, PTL DEF CountInv

\* The counter of RpcServer.accept is the number of calls in flight, always.
THEOREM CounterIsExact == Spec => []InflightExact
BY CountAlways, PTL DEF CountInv

\* No wakeup is lost: whenever the socket is paused, enough calls are in flight for the
\* end of one of them to resume it; and the limit is overrun by less than one chunk.
THEOREM PausingHolds == Spec => []PausedWhenBusy
BY CountAlways, PTL DEF CountInv

-----------------------------------------------------------------------------
\* A step that lets go of no buffers, and settles no call, keeps what is said of them.
LEMMA BuffersKept ==
  ASSUME BufferInv, TypeOK', UNCHANGED <<held, released>>,
         \A c \in Calls : \/ call'[c] = call[c]
                          \/ call[c] = "unsent" /\ call'[c] = "running"
  PROVE  BufferInv'
BY DEF BufferInv, BuffersGivenBack, Unreleased, TypeOK

\* Every step keeps what is said of the buffers.
LEMMA BufferStep == CountInv /\ BufferInv /\ CountInv' /\ [Next]_vars => BufferInv'
<1> SUFFICES ASSUME CountInv, BufferInv, CountInv', [Next]_vars PROVE BufferInv'
  OBVIOUS
<1>t. TypeOK /\ TypeOK' /\ InflightExact
  BY DEF CountInv
<1>1. CASE Data \/ BadRecord
  <2>1. PICK arrived \in Chunk : OnRecords(arrived) /\ UNCHANGED <<held, released>>
    BY <1>1 DEF Data, BadRecord
  <2>2. \A c \in Calls : call'[c] = IF c \in arrived THEN "running" ELSE call[c]
    BY <1>t, <2>1, ChunkArrives
  <2>3. \A c \in arrived : call[c] = "unsent"
    BY DEF Chunk
  <2> QED BY <1>t, <2>1, <2>2, <2>3, BuffersKept
<1>2. CASE Destroy \/ Quiet \/ UNCHANGED vars
  BY <1>2, <1>t, BuffersKept DEF Destroy, Quiet, vars
<1>3. ASSUME NEW c \in Calls, Resolve(c) PROVE BufferInv'
  BY <1>3, <1>t DEF Resolve, Release, BufferInv, BuffersGivenBack, Unreleased, TypeOK
<1>4. ASSUME NEW c \in Calls, Reject(c) PROVE BufferInv'
  BY <1>4, <1>t DEF Reject, BufferInv, BuffersGivenBack, Unreleased, TypeOK
<1>5. ASSUME NEW c \in Calls, Written(c) PROVE BufferInv'
  BY <1>5, <1>t DEF Written, Release, BufferInv, BuffersGivenBack, Unreleased, TypeOK
<1> QED BY <1>1, <1>2, <1>3, <1>4, <1>5 DEF Next

\* The pooled buffers of a reply are released once, when it is written or dropped, and
\* never while the socket may read them.
THEOREM BuffersReleasedOnce == Spec => []BuffersGivenBack
<1>1. Init => BufferInv
  BY CountInit DEF Init, CountInv, BufferInv, BuffersGivenBack, Unreleased
<1>2. BufferInv => BuffersGivenBack
  BY DEF BufferInv
<1> QED BY <1>1, <1>2, CountAlways, BufferStep, PTL DEF Spec

-----------------------------------------------------------------------------
\* What holds of 0, and of k when it holds of k - 1, holds up to n.
LEMMA InductTo ==
  ASSUME NEW n \in Nat, NEW S, 0 \in S, \A k \in 1 .. n : k - 1 \in S => k \in S
  PROVE  0 .. n \subseteq S
<1> DEFINE R == OpToRel(<, Nat)
           T == (0 .. n) \ S
<1>1. SUFFICES ASSUME T # {} PROVE FALSE
  OBVIOUS
<1>2. IsWellFoundedOn(R, Nat)
  BY NatLessThanWellFounded
<1>3. \A x, y \in Nat : x < y => <<x, y>> \in R
  BY DEF OpToRel
<1>4. T \subseteq Nat
  OBVIOUS
<1> HIDE DEF R, T
<1>5. PICK x \in T : \A y \in T : <<y, x>> \notin R
  BY <1>1, <1>2, <1>4, WFMin
<1>6. x \in 1 .. n /\ x - 1 \in 0 .. n /\ x - 1 < x /\ x \notin S
  BY <1>5 DEF T
<1>7. x - 1 \in T
  BY <1>6 DEF T
<1> QED BY <1>3, <1>4, <1>5, <1>6, <1>7

\* Of the numbers up to m + 1, one set with m + 1 has that as its largest.
LEMMA MaxOfTop ==
  ASSUME NEW m \in Nat, NEW s \in SUBSET (1 .. m + 1), m + 1 \in s
  PROVE  Max(s) = m + 1
<1>1. \A y \in s : m + 1 >= y /\ y \in Nat
  OBVIOUS
<1>2. \A x \in s : (\A y \in s : x >= y) => x = m + 1
  BY <1>1
<1> DEFINE P(x) == x \in s /\ \A y \in s : x >= y
<1>3. P(m + 1) /\ \A x : P(x) => x = m + 1
  BY <1>1, <1>2
<1>4. Max(s) = CHOOSE x : P(x)
  BY DEF Max
<1> HIDE DEF P
<1> QED BY <1>3, <1>4

\* A set of numbers that is not empty has its largest one.
LEMMA MaxIsIn ==
  ASSUME NEW n \in Nat, NEW s \in SUBSET (1 .. n), s # {}
  PROVE  Max(s) \in s
<1> DEFINE S == {m \in 0 .. n : \A r \in SUBSET (1 .. m) : r # {} => Max(r) \in r}
<1>1. 0 \in S
  <2>1. \A r \in SUBSET (1 .. 0) : r = {}
    OBVIOUS
  <2>2. \A r \in SUBSET (1 .. 0) : r # {} => Max(r) \in r
    BY <2>1
  <2>3. 0 \in 0 .. n
    OBVIOUS
  <2> QED BY <2>2, <2>3
<1>2. ASSUME NEW k \in 1 .. n, k - 1 \in S PROVE k \in S
  <2>1. ASSUME NEW r \in SUBSET (1 .. k), r # {} PROVE Max(r) \in r
    <3>1. CASE k \in r
      <4>1. k - 1 \in Nat /\ (k - 1) + 1 = k
        OBVIOUS
      <4> QED BY <3>1, <4>1, MaxOfTop
    <3>2. CASE k \notin r
      <4>1. r \in SUBSET (1 .. k - 1)
        BY <3>2
      <4> QED BY <1>2, <2>1, <4>1
    <3> QED BY <3>1, <3>2
  <2> QED BY <2>1
<1> HIDE DEF S
<1>3. n \in S
  BY <1>1, <1>2, InductTo
<1> QED BY <1>3 DEF S

\* The largest of the first k numbers is k, and without it they are the first k - 1.
LEMMA PrefixTop ==
  ASSUME NEW n \in Nat, NEW k \in 1 .. n
  PROVE  /\ Max(1 .. k) = k /\ (1 .. k) \ {k} = 1 .. (k - 1)
         /\ 1 .. k # {} /\ 1 .. k \in SUBSET (1 .. n)
<1>1. k - 1 \in Nat /\ 1 .. k \in SUBSET (1 .. (k - 1) + 1) /\ (k - 1) + 1 \in 1 .. k
      /\ (k - 1) + 1 = k
  OBVIOUS
<1>2. Max(1 .. k) = k
  BY <1>1, MaxOfTop
<1>3. (1 .. k) \ {k} = 1 .. (k - 1)
  OBVIOUS
<1>4. 1 .. k # {} /\ 1 .. k \in SUBSET (1 .. n)
  OBVIOUS
<1> QED BY <1>2, <1>3, <1>4

\* g is the fold of step over sets of numbers up to n, the largest last.
FoldsTo(g, n, T, b, step) ==
  /\ g \in [SUBSET (1 .. n) -> T]
  /\ \A s \in SUBSET (1 .. n) : g[s] = IF s = {} THEN b ELSE step[<<g[s \ {Max(s)}], Max(s)>>]

\* A fold over the numbers up to m is one over those up to m + 1.
LEMMA FoldExtends ==
  ASSUME NEW m \in Nat, NEW T, NEW b \in T, NEW n \in Nat, m + 1 \in 1 .. n,
         NEW step \in [T \X (1 .. n) -> T],
         NEW g, FoldsTo(g, m, T, b, step)
  PROVE  \E h : FoldsTo(h, m + 1, T, b, step)
<1> DEFINE k == m + 1
           h == [s \in SUBSET (1 .. k) |-> IF k \in s THEN step[<<g[s \ {k}], k>>] ELSE g[s]]
<1>1. \A s \in SUBSET (1 .. k) : (k \notin s => s \in SUBSET (1 .. m)) /\ s \ {k} \in SUBSET (1 .. m)
  OBVIOUS
<1>2. h \in [SUBSET (1 .. k) -> T]
  BY <1>1 DEF FoldsTo
<1>3. ASSUME NEW s \in SUBSET (1 .. k)
      PROVE  h[s] = IF s = {} THEN b ELSE step[<<h[s \ {Max(s)}], Max(s)>>]
  <2>1. CASE k \in s
    <3>1. Max(s) = k
      BY <2>1, MaxOfTop
    <3>2. s \ {k} \in SUBSET (1 .. k) /\ k \notin s \ {k} /\ s # {}
      BY <2>1
    <3>3. h[s \ {k}] = g[s \ {k}] /\ h[s] = step[<<g[s \ {k}], k>>]
      BY <3>2, <2>1
    <3> HIDE DEF h
    <3> QED BY <3>1, <3>2, <3>3
  <2>2. CASE k \notin s
    <3>1. s \in SUBSET (1 .. m) /\ s \ {Max(s)} \in SUBSET (1 .. k) /\ k \notin s \ {Max(s)}
      BY <2>2, <1>1
    <3>2. h[s] = g[s] /\ h[s \ {Max(s)}] = g[s \ {Max(s)}]
      BY <2>2, <3>1
    <3>3. g[s] = IF s = {} THEN b ELSE step[<<g[s \ {Max(s)}], Max(s)>>]
      BY <3>1 DEF FoldsTo
    <3> HIDE DEF h
    <3> QED BY <3>2, <3>3
  <2> QED BY <2>1, <2>2
<1> HIDE DEF h
<1> QED BY <1>2, <1>3 DEF FoldsTo

\* So it exists for every n: FoldLeft is defined by choosing a function like this.
LEMMA FoldExists ==
  ASSUME NEW n \in Nat, NEW T, NEW b \in T, NEW step \in [T \X (1 .. n) -> T]
  PROVE  \E g : FoldsTo(g, n, T, b, step)
<1> DEFINE S == {m \in 0 .. n : \E g : FoldsTo(g, m, T, b, step)}
<1>1. 0 \in S
  <2>1. FoldsTo([s \in SUBSET (1 .. 0) |-> b], 0, T, b, step)
    <3>1. SUBSET (1 .. 0) = {{}}
      OBVIOUS
    <3> QED BY <3>1 DEF FoldsTo
  <2> QED BY <2>1
<1>2. ASSUME NEW k \in 1 .. n, k - 1 \in S PROVE k \in S
  <2>1. k - 1 \in Nat /\ (k - 1) + 1 = k
    OBVIOUS
  <2>2. PICK g : FoldsTo(g, k - 1, T, b, step)
    BY <1>2
  <2>3. \E h : FoldsTo(h, (k - 1) + 1, T, b, step)
    <3>1. (k - 1) + 1 \in 1 .. n
      OBVIOUS
    <3> QED BY <2>1, <2>2, <3>1, FoldExtends
  <2> QED BY <2>1, <2>3
<1> HIDE DEF S
<1>3. n \in S
  BY <1>1, <1>2, InductTo
<1> QED BY <1>3 DEF S

-----------------------------------------------------------------------------
\* g is the sum of w over sets of numbers up to n, whichever is taken first.
SumsUp(g, n, w) ==
  /\ g \in [SUBSET (1 .. n) -> Nat] /\ g[{}] = 0
  /\ \A s \in SUBSET (1 .. n) : \A x \in s : g[s] = w[x] + g[s \ {x}]

\* A sum over the numbers up to m is one over those up to m + 1.
LEMMA SumExtends ==
  ASSUME NEW n \in Nat, NEW w \in [1 .. n -> Nat], NEW m \in Nat, m + 1 \in 1 .. n,
         NEW g, SumsUp(g, m, w)
  PROVE  \E h : SumsUp(h, m + 1, w)
<1> DEFINE k == m + 1
           h == [s \in SUBSET (1 .. k) |-> IF k \in s THEN w[k] + g[s \ {k}] ELSE g[s]]
<1>1. \A s \in SUBSET (1 .. k) : (k \notin s => s \in SUBSET (1 .. m)) /\ s \ {k} \in SUBSET (1 .. m)
  OBVIOUS
<1>2. \A x \in 1 .. k : x \in 1 .. n /\ w[x] \in Nat
  OBVIOUS
<1>3. h \in [SUBSET (1 .. k) -> Nat]
  BY <1>1, <1>2 DEF SumsUp
<1>4. h[{}] = 0
  BY <1>1 DEF SumsUp
<1>5. ASSUME NEW s \in SUBSET (1 .. k), NEW x \in s PROVE h[s] = w[x] + h[s \ {x}]
  <2>0. s \ {x} \in SUBSET (1 .. k)
    OBVIOUS
  <2>1. CASE k \notin s
    <3>1. s \in SUBSET (1 .. m) /\ k \notin s \ {x}
      BY <1>1, <2>1
    <3>2. h[s] = g[s] /\ h[s \ {x}] = g[s \ {x}]
      BY <2>0, <2>1, <3>1
    <3> HIDE DEF h
    <3> QED BY <3>1, <3>2 DEF SumsUp
  <2>2. CASE x = k
    <3>1. h[s] = w[k] + g[s \ {k}] /\ h[s \ {k}] = g[s \ {k}]
      BY <2>0, <2>2
    <3> HIDE DEF h
    <3> QED BY <2>2, <3>1
  <2>3. CASE k \in s /\ x # k
    <3>1. h[s] = w[k] + g[s \ {k}] /\ h[s \ {x}] = w[k] + g[(s \ {x}) \ {k}]
      BY <2>0, <2>3
    <3>2. s \ {k} \in SUBSET (1 .. m) /\ x \in s \ {k} /\ (s \ {k}) \ {x} = (s \ {x}) \ {k}
      BY <1>1, <2>3
    <3>3. g[s \ {k}] = w[x] + g[(s \ {x}) \ {k}]
      <4> HIDE DEF h, k
      <4>1. g[s \ {k}] = w[x] + g[(s \ {k}) \ {x}]
        BY <3>2 DEF SumsUp
      <4> QED BY <3>2, <4>1
    <3>4. (s \ {x}) \ {k} \in SUBSET (1 .. m)
      BY <2>0, <1>1
    <3>5. g[(s \ {x}) \ {k}] \in Nat
      BY <3>4 DEF SumsUp
    <3>6. w[k] \in Nat /\ w[x] \in Nat
      BY <1>2
    <3> HIDE DEF h, k
    <3> QED BY <3>1, <3>3, <3>5, <3>6
  <2> QED BY <2>1, <2>2, <2>3
<1> HIDE DEF h
<1> QED BY <1>3, <1>4, <1>5 DEF SumsUp

\* So it exists for every n.
LEMMA SumExists ==
  ASSUME NEW n \in Nat, NEW w \in [1 .. n -> Nat]
  PROVE  \E g : SumsUp(g, n, w)
<1> DEFINE S == {m \in 0 .. n : \E g : SumsUp(g, m, w)}
<1>1. 0 \in S
  <2>1. SumsUp([s \in SUBSET (1 .. 0) |-> 0], 0, w)
    <3>1. SUBSET (1 .. 0) = {{}}
      OBVIOUS
    <3> QED BY <3>1 DEF SumsUp
  <2> QED BY <2>1
<1>2. ASSUME NEW k \in 1 .. n, k - 1 \in S PROVE k \in S
  <2>1. k - 1 \in Nat /\ (k - 1) + 1 = k
    OBVIOUS
  <2>2. PICK g : SumsUp(g, k - 1, w)
    BY <1>2
  <2>3. \E h : SumsUp(h, (k - 1) + 1, w)
    <3>1. (k - 1) + 1 \in 1 .. n
      OBVIOUS
    <3> QED BY <2>1, <2>2, <3>1, SumExtends
  <2> QED BY <2>1, <2>3
<1> HIDE DEF S
<1>3. 0 .. n \subseteq S
  BY <1>1, <1>2, InductTo
<1>4. n \in S
  BY <1>3
<1> QED BY <1>4 DEF S

\* What the sum of the community modules computes with the element it chooses.
SumTurn(c, D, w) ==
  [s \in SUBSET D |-> IF s = {} THEN 0
                      ELSE w[CHOOSE x \in s : TRUE] + c[s \ {CHOOSE x \in s : TRUE}]]

SumOver(c, D, w) == c = SumTurn(c, D, w)

\* A sum in any order solves the equation of the sum in the chosen order.
LEMMA SumTurns ==
  ASSUME NEW n \in Nat, NEW w \in [1 .. n -> Nat], NEW D \in SUBSET (1 .. n),
         NEW g, SumsUp(g, n, w)
  PROVE  SumOver([s \in SUBSET D |-> g[s]], D, w)
<1> DEFINE r == [s \in SUBSET D |-> g[s]]
<1>1. ASSUME NEW s \in SUBSET D, s # {}
      PROVE  r[s] = w[CHOOSE x \in s : TRUE] + r[s \ {CHOOSE x \in s : TRUE}]
  <2>1. PICK x : x = CHOOSE y \in s : TRUE
    OBVIOUS
  <2>2. x \in s
    BY <1>1, <2>1
  <2>3. s \in SUBSET (1 .. n) /\ s \ {x} \in SUBSET D
    OBVIOUS
  <2>4. g[s] = w[x] + g[s \ {x}]
    BY <2>2, <2>3 DEF SumsUp
  <2> QED BY <2>1, <2>3, <2>4
<1>2. r[{}] = 0
  BY DEF SumsUp
<1> QED BY <1>1, <1>2 DEF SumTurn, SumOver

\* Every solution of that equation is the sum, by induction on the size of the set.
LEMMA SumChosen ==
  ASSUME NEW n \in Nat, NEW w \in [1 .. n -> Nat], NEW D \in SUBSET (1 .. n),
         NEW g, SumsUp(g, n, w), NEW c, SumOver(c, D, w)
  PROVE  c[D] = g[D]
<1>1. IsFiniteSet(1 .. n)
  BY FS_Interval
<1>2. IsFiniteSet(D)
  BY <1>1, FS_Subset
<1> DEFINE d == Cardinality(D)
           S == {m \in 0 .. d : \A s \in SUBSET D : Cardinality(s) = m => c[s] = g[s]}
<1>3. d \in Nat
  BY <1>2, FS_CardinalityType
<1>4. \A s \in SUBSET D : IsFiniteSet(s)
  BY <1>2, FS_Subset
<1>5. 0 \in S
  <2>1. ASSUME NEW s \in SUBSET D, Cardinality(s) = 0 PROVE c[s] = g[s]
    <3>1. s = {}
      BY <2>1, <1>4, FS_EmptySet
    <3>2. c[{}] = 0 /\ g[{}] = 0
      BY DEF SumTurn, SumOver, SumsUp
    <3> QED BY <3>1, <3>2
  <2>2. 0 \in 0 .. d
    BY <1>3
  <2> QED BY <2>1, <2>2
<1>6. ASSUME NEW m \in 1 .. d, m - 1 \in S PROVE m \in S
  <2>1. ASSUME NEW s \in SUBSET D, Cardinality(s) = m PROVE c[s] = g[s]
    <3>1. s # {}
      <4>1. Cardinality({}) = 0 /\ m # 0
        BY FS_EmptySet, <1>3
      <4> QED BY <2>1, <4>1
    <3>2. PICK x : x = CHOOSE y \in s : TRUE
      OBVIOUS
    <3>3. x \in s
      BY <3>1, <3>2
    <3>4. c[s] = w[x] + c[s \ {x}]
      BY <3>1, <3>2 DEF SumTurn, SumOver
    <3>5. Cardinality(s \ {x}) = m - 1
      BY <1>4, <2>1, <3>3, FS_RemoveElement
    <3>6. c[s \ {x}] = g[s \ {x}]
      BY <1>6, <3>5
    <3>7. s \in SUBSET (1 .. n)
      OBVIOUS
    <3>8. g[s] = w[x] + g[s \ {x}]
      BY <3>3, <3>7 DEF SumsUp
    <3> QED BY <3>4, <3>6, <3>8
  <2> QED BY <2>1
<1> HIDE DEF S, d
<1>7. d \in S
  BY <1>3, <1>5, <1>6, InductTo
<1> QED BY <1>7 DEF S, d

-----------------------------------------------------------------------------
\* EndOf and SizeAt of any stream, and the fragments of k's record up to k.
Fragment == [length : Nat, last : BOOLEAN]
Span(s, j) == Header + s[j].length
End(s, k) == MapThenSumSet(LAMBDA j : Span(s, j), 1 .. k)
Run(s, k) == {j \in 1 .. k : \A i \in j .. k - 1 : ~s[i].last}
SizeTo(s, k) == MapThenSumSet(LAMBDA j : s[j].length, Run(s, k))

\* What a fragment of a stream is made of.
LEMMA FragmentTypes ==
  ASSUME NEW s \in Seq(Fragment), NEW k \in 1 .. Len(s)
  PROVE  s[k].length \in Nat /\ s[k].last \in BOOLEAN
<1>1. s[k] \in Fragment
  OBVIOUS
<1> QED BY <1>1 DEF Fragment

\* The sums of the community modules are sums, whichever element they choose first.
LEMMA EndIsSum ==
  ASSUME NEW s \in Seq(Fragment), NEW k \in 0 .. Len(s),
         NEW w \in [1 .. Len(s) -> Nat],
         \A j \in 1 .. Len(s) : w[j] = Span(s, j),
         NEW g, SumsUp(g, Len(s), w)
  PROVE  End(s, k) = g[1 .. k]
<1>0. PICK D : D = 1 .. k
  OBVIOUS
<1> DEFINE Turn(c) == [r \in SUBSET D |->
                         IF r = {} THEN 0
                         ELSE Span(s, CHOOSE x \in r : TRUE)
                                + c[r \ {CHOOSE x \in r : TRUE}]]
           c == CHOOSE f : f = Turn(f)
<1>1. End(s, k) = c[D]
  BY <1>0 DEF End, MapThenSumSet, MapThenFoldSet
<1>2. D \in SUBSET (1 .. Len(s)) /\ Len(s) \in Nat
  BY <1>0
<1>4. \A f : Turn(f) = SumTurn(f, D, w)
  <2> SUFFICES ASSUME NEW f, NEW r \in SUBSET D, r # {}
               PROVE  Span(s, CHOOSE x \in r : TRUE) = w[CHOOSE x \in r : TRUE]
    BY DEF SumTurn
  <2>1. PICK x : x = CHOOSE y \in r : TRUE
    OBVIOUS
  <2>2. x \in r
    BY <2>1
  <2>3. x \in 1 .. Len(s)
    BY <1>2, <2>2
  <2>4. w[x] = Span(s, x)
    BY <2>3
  <2> QED BY <2>1, <2>4
<1> DEFINE h == [r \in SUBSET D |-> g[r]]
<1>5. h = Turn(h)
  <2> HIDE DEF Turn, h
  <2>1. SumOver(h, D, w)
    BY <1>2, SumTurns DEF h
  <2> QED BY <1>4, <2>1 DEF SumOver
<1>6. c = Turn(c)
  <2> DEFINE Q(f) == f = Turn(f)
  <2>1. Q(h)
    BY <1>5
  <2>2. c = CHOOSE f : Q(f)
    OBVIOUS
  <2> HIDE DEF Q, c, h
  <2>3. Q(c)
    BY <2>1, <2>2
  <2> QED BY <2>3 DEF Q
<1> HIDE DEF c, Turn
<1>7. SumOver(c, D, w)
  BY <1>4, <1>6 DEF SumOver
<1>8. c[D] = g[D]
  BY <1>2, <1>7, SumChosen
<1> QED BY <1>0, <1>1, <1>8

\* The same of the bytes of a record.
LEMMA SizeIsSum ==
  ASSUME NEW s \in Seq(Fragment), NEW k \in 0 .. Len(s),
         NEW w \in [1 .. Len(s) -> Nat], \A j \in 1 .. Len(s) : w[j] = s[j].length,
         NEW g, SumsUp(g, Len(s), w)
  PROVE  SizeTo(s, k) = g[Run(s, k)]
<1> DEFINE D == Run(s, k)
           Turn(c) == [r \in SUBSET D |->
                         IF r = {} THEN 0
                         ELSE s[CHOOSE x \in r : TRUE].length
                                + c[r \ {CHOOSE x \in r : TRUE}]]
           c == CHOOSE f : f = Turn(f)
<1>1. SizeTo(s, k) = c[D]
  BY DEF SizeTo, MapThenSumSet, MapThenFoldSet
<1>2. D \in SUBSET (1 .. Len(s)) /\ Len(s) \in Nat
  BY DEF Run
<1> HIDE DEF D
<1>4. \A f : Turn(f) = SumTurn(f, D, w)
  <2> SUFFICES ASSUME NEW f, NEW r \in SUBSET D, r # {}
               PROVE  s[CHOOSE x \in r : TRUE].length = w[CHOOSE x \in r : TRUE]
    BY DEF SumTurn
  <2>1. PICK x : x = CHOOSE y \in r : TRUE
    OBVIOUS
  <2>2. x \in r
    BY <2>1
  <2>3. x \in 1 .. Len(s)
    BY <1>2, <2>2
  <2>4. w[x] = s[x].length
    BY <2>3
  <2> QED BY <2>1, <2>4
<1> DEFINE h == [r \in SUBSET D |-> g[r]]
<1>5. h = Turn(h)
  <2> HIDE DEF Turn, h
  <2>1. SumOver(h, D, w)
    BY <1>2, SumTurns DEF h
  <2> QED BY <1>4, <2>1 DEF SumOver
<1>6. c = Turn(c)
  <2> DEFINE Q(f) == f = Turn(f)
  <2>1. Q(h)
    BY <1>5
  <2>2. c = CHOOSE f : Q(f)
    OBVIOUS
  <2> HIDE DEF Q, c, h
  <2>3. Q(c)
    BY <2>1, <2>2
  <2> QED BY <2>3 DEF Q
<1> HIDE DEF c, Turn
<1>7. SumOver(c, D, w)
  BY <1>4, <1>6 DEF SumOver
<1>8. c[D] = g[D]
  BY <1>2, <1>7, SumChosen
<1> QED BY <1>1, <1>8 DEF D

\* Each fragment ends its header and its bytes behind the one before.
LEMMA EndSteps ==
  ASSUME NEW s \in Seq(Fragment)
  PROVE  /\ End(s, 0) = 0
         /\ \A k \in 0 .. Len(s) : End(s, k) \in Nat
         /\ \A k \in 1 .. Len(s) : End(s, k) = End(s, k - 1) + Span(s, k)
<1> DEFINE n == Len(s)
<1>1. n \in Nat
  OBVIOUS
<1>2. PICK w \in [1 .. n -> Nat] : \A j \in 1 .. n : w[j] = Span(s, j)
  <2> DEFINE w == [j \in 1 .. n |-> Span(s, j)]
  <2>1. \A j \in 1 .. n : Span(s, j) \in Nat
    BY FragmentTypes DEF Span, Header
  <2>2. w \in [1 .. n -> Nat] /\ \A j \in 1 .. n : w[j] = Span(s, j)
    BY <2>1
  <2> QED BY <2>2
<1>3. w \in [1 .. n -> Nat]
  OBVIOUS
<1>4. PICK g : SumsUp(g, n, w)
  <2> HIDE DEF n
  <2> QED BY <1>1, <1>3, SumExists
<1>5. \A k \in 0 .. n : End(s, k) = g[1 .. k]
  BY <1>2, <1>4, EndIsSum
<1> HIDE DEF n
<1>6. 1 .. 0 = {} /\ 0 \in 0 .. n
  BY <1>1
<1>7. \A k \in 0 .. n : 1 .. k \in SUBSET (1 .. n)
  BY <1>1
<1>8. ASSUME NEW k \in 1 .. n PROVE End(s, k) = End(s, k - 1) + Span(s, k)
  <2>1. (1 .. k) \ {k} = 1 .. (k - 1) /\ k \in 1 .. k /\ k \in 0 .. n /\ k - 1 \in 0 .. n
    BY <1>1
  <2>2. g[1 .. k] = w[k] + g[(1 .. k) \ {k}]
    BY <1>4, <1>7, <2>1 DEF SumsUp
  <2>3. g[1 .. (k - 1)] \in Nat /\ w[k] \in Nat
    BY <1>3, <1>4, <1>7, <2>1 DEF SumsUp
  <2>4. w[k] = Span(s, k)
    BY <1>2
  <2>5. End(s, k) = g[1 .. k] /\ End(s, k - 1) = g[1 .. (k - 1)]
    BY <1>5, <2>1
  <2>6. End(s, k) = w[k] + g[1 .. (k - 1)]
    BY <2>1, <2>2, <2>5
  <2> HIDE DEF n
  <2> QED BY <2>3, <2>4, <2>5, <2>6
<1>9. End(s, 0) = 0 /\ \A k \in 0 .. n : End(s, k) \in Nat
  BY <1>4, <1>5, <1>6, <1>7 DEF SumsUp
<1> QED BY <1>8, <1>9 DEF n

\* Fragments end in their order.
LEMMA EndsGrow ==
  ASSUME NEW s \in Seq(Fragment), NEW k \in 0 .. Len(s)
  PROVE  \A m \in k .. Len(s) : End(s, k) <= End(s, m)
<1> DEFINE n == Len(s)
           S == {m \in 0 .. n : k <= m => End(s, k) <= End(s, m)}
<1>1. n \in Nat
  OBVIOUS
<1>2. /\ \A m \in 0 .. n : End(s, m) \in Nat
      /\ \A m \in 1 .. n : End(s, m) = End(s, m - 1) + Span(s, m)
      /\ \A m \in 1 .. n : Span(s, m) \in Nat
  BY EndSteps, FragmentTypes DEF Span, Header
<1> HIDE DEF n
<1>3. 0 \in S
  <2>1. 0 \in 0 .. n /\ (k <= 0 => k = 0)
    BY <1>1
  <2> QED BY <2>1, <1>2
<1>4. ASSUME NEW m \in 1 .. n, m - 1 \in S PROVE m \in S
  <2>1. m \in 0 .. n /\ m - 1 \in 0 .. n /\ (k <= m => k <= m - 1 \/ k = m)
    BY <1>1 DEF n
  <2>2. End(s, m - 1) <= End(s, m)
    BY <1>2, <2>1
  <2>3. k <= m - 1 => End(s, k) <= End(s, m)
    BY <1>2, <1>4, <2>1, <2>2 DEF n
  <2> QED BY <1>2, <2>1, <2>3
<1>5. 0 .. n \subseteq S
  <2> HIDE DEF S
  <2> QED BY <1>1, <1>3, <1>4, InductTo
<1>6. \A m \in k .. n : m \in 0 .. n /\ k <= m
  BY <1>1 DEF n
<1> QED BY <1>5, <1>6 DEF n

\* The record of a fragment is begun by it or goes on from the one before.
LEMMA SizeSteps ==
  ASSUME NEW s \in Seq(Fragment), NEW k \in 1 .. Len(s)
  PROVE  /\ SizeTo(s, k) \in Nat
         /\ SizeTo(s, k) = (IF k = 1 \/ s[k - 1].last THEN 0 ELSE SizeTo(s, k - 1)) + s[k].length
<1> DEFINE n == Len(s)
<1>1. n \in Nat
  OBVIOUS
<1>2. PICK w \in [1 .. n -> Nat] : \A j \in 1 .. n : w[j] = s[j].length
  <2> DEFINE w == [j \in 1 .. n |-> s[j].length]
  <2>1. \A j \in 1 .. n : s[j].length \in Nat
    BY FragmentTypes
  <2>2. w \in [1 .. n -> Nat] /\ \A j \in 1 .. n : w[j] = s[j].length
    BY <2>1 DEF Header
  <2> QED BY <2>2
<1>3. w \in [1 .. n -> Nat]
  OBVIOUS
<1>4. PICK g : SumsUp(g, n, w)
  <2> HIDE DEF n
  <2> QED BY <1>1, <1>3, SumExists
<1>5. \A m \in 0 .. n : SizeTo(s, m) = g[Run(s, m)]
  BY <1>2, <1>4, SizeIsSum
<1>6. \A m \in 0 .. n : Run(s, m) \in SUBSET (1 .. n)
  BY DEF Run
<1> HIDE DEF n
<1>7. k \in 0 .. n /\ k - 1 \in 0 .. n
  BY <1>1 DEF n
<1>8. k \in Run(s, k)
  <2>1. k .. k - 1 = {}
    OBVIOUS
  <2> QED BY <2>1 DEF Run
<1>9. CASE k = 1 \/ s[k - 1].last
  <2>1. Run(s, k) \ {k} = {}
    <3> SUFFICES ASSUME NEW j \in Run(s, k), j # k PROVE FALSE
      OBVIOUS
    <3>1. j \in 1 .. k - 1 /\ k - 1 \in j .. k - 1 /\ k # 1
      BY DEF Run
    <3> QED BY <1>9, <3>1 DEF Run
  <2>2. g[Run(s, k)] = w[k] + g[{}] /\ g[{}] = 0
    BY <1>4, <1>6, <1>7, <1>8, <2>1 DEF SumsUp
  <2>3. w[k] \in Nat /\ w[k] = s[k].length
    BY <1>2, <1>3 DEF n
  <2> QED BY <1>5, <1>7, <1>9, <2>2, <2>3
<1>10. CASE ~(k = 1 \/ s[k - 1].last)
  <2>1. Run(s, k) \ {k} = Run(s, k - 1)
    <3>1. ASSUME NEW j \in Run(s, k), j # k PROVE j \in Run(s, k - 1)
      <4>1. j \in 1 .. k - 1 /\ \A i \in j .. (k - 1) - 1 : i \in j .. k - 1
        BY <3>1 DEF Run
      <4> QED BY <4>1 DEF Run
    <3>2. ASSUME NEW j \in Run(s, k - 1) PROVE j \in Run(s, k) /\ j # k
      <4>1. j \in 1 .. k /\ j # k /\ \A i \in j .. k - 1 : i \in j .. (k - 1) - 1 \/ i = k - 1
        BY DEF Run
      <4> QED BY <1>10, <4>1 DEF Run
    <3> QED BY <3>1, <3>2
  <2>2. g[Run(s, k)] = w[k] + g[Run(s, k - 1)]
    BY <1>4, <1>6, <1>7, <1>8, <2>1 DEF SumsUp
  <2>3. w[k] \in Nat /\ w[k] = s[k].length /\ g[Run(s, k - 1)] \in Nat
    BY <1>2, <1>3, <1>4, <1>6, <1>7 DEF n, SumsUp
  <2> QED BY <1>5, <1>7, <1>10, <2>2, <2>3
<1> QED BY <1>9, <1>10

-----------------------------------------------------------------------------
\* f joins the sequences of ss one by one.
JoinsUp(f, m, T, ss) ==
  /\ f \in [0 .. m -> Seq(T)] /\ f[0] = <<>>
  /\ \A i \in 1 .. m : f[i] = f[i - 1] \o ss[i]

\* Such joins exist.
LEMMA JoinExists ==
  ASSUME NEW T, NEW ss \in Seq(Seq(T))
  PROVE  \E f : JoinsUp(f, Len(ss), T, ss)
<1> DEFINE n == Len(ss)
           S == {m \in 0 .. n : \E f : JoinsUp(f, m, T, ss)}
<1>1. n \in Nat /\ \A i \in 1 .. n : ss[i] \in Seq(T)
  OBVIOUS
<1> HIDE DEF n
<1>2. 0 \in S
  <2>1. JoinsUp([i \in 0 .. 0 |-> <<>>], 0, T, ss)
    BY DEF JoinsUp
  <2>2. 0 \in 0 .. n
    BY <1>1
  <2> QED BY <2>1, <2>2
<1>3. ASSUME NEW m \in 1 .. n, m - 1 \in S PROVE m \in S
  <2>1. PICK f : JoinsUp(f, m - 1, T, ss)
    BY <1>3
  <2> DEFINE h == [i \in 0 .. m |-> IF i = m THEN f[m - 1] \o ss[m] ELSE f[i]]
  <2>2. m - 1 \in 0 .. m - 1 /\ f[m - 1] \in Seq(T) /\ ss[m] \in Seq(T)
    BY <1>1, <2>1 DEF JoinsUp
  <2>3. f[m - 1] \o ss[m] \in Seq(T)
    BY <2>2
  <2>4. \A i \in 0 .. m : i = m \/ i \in 0 .. m - 1
    BY <1>1
  <2>5. \A i \in 0 .. m - 1 : i # m /\ i \in 0 .. m /\ h[i] = f[i] /\ f[i] \in Seq(T)
    <3>1. \A i \in 0 .. m - 1 : i # m /\ i \in 0 .. m
      BY <1>1
    <3>2. \A i \in 0 .. m - 1 : f[i] \in Seq(T)
      BY <2>1 DEF JoinsUp
    <3> QED BY <3>1, <3>2
  <2>6. h \in [0 .. m -> Seq(T)]
    BY <2>3, <2>4, <2>5
  <2>7. h[m] = h[m - 1] \o ss[m]
    <3>1. m \in 0 .. m /\ h[m - 1] = f[m - 1]
      BY <1>1, <2>2, <2>5
    <3> QED BY <3>1
  <2>8. h[0] = <<>>
    <3>1. 0 \in 0 .. m - 1
      BY <1>1
    <3> HIDE DEF h
    <3> QED BY <3>1, <2>1, <2>5 DEF JoinsUp
  <2> HIDE DEF h
  <2>9. ASSUME NEW i \in 1 .. m PROVE h[i] = h[i - 1] \o ss[i]
    <3>1. CASE i = m
      BY <2>7, <3>1
    <3>2. CASE i # m
      <4>1. i \in 0 .. m - 1 /\ i - 1 \in 0 .. m - 1 /\ i \in 1 .. m - 1
        BY <1>1, <3>2
      <4> QED BY <4>1, <2>1, <2>5 DEF JoinsUp
    <3> QED BY <3>1, <3>2
  <2>10. JoinsUp(h, m, T, ss)
    BY <2>6, <2>8, <2>9 DEF JoinsUp
  <2>11. m \in 0 .. n
    BY <1>1
  <2> QED BY <2>10, <2>11
<1> HIDE DEF S
<1>4. 0 .. n \subseteq S
  BY <1>1, <1>2, <1>3, InductTo
<1>5. n \in S
  BY <1>1, <1>4
<1> QED BY <1>5 DEF n, S

\* FlattenSeq is the last of these joins.
LEMMA FlattenJoins ==
  ASSUME NEW T, NEW ss \in Seq(Seq(T)), NEW f, JoinsUp(f, Len(ss), T, ss)
  PROVE  FlattenSeq(ss) = f[Len(ss)]
<1> DEFINE n == Len(ss)
           Turn(c) == [i \in 1 .. n |-> IF i = 1 THEN ss[i] ELSE c[i - 1] \o ss[i]]
           c == CHOOSE g : g = Turn(g)
<1>1. n \in Nat /\ \A i \in 1 .. n : ss[i] \in Seq(T)
  OBVIOUS
<1>2. CASE n = 0
  <2>1. ss = <<>>
    BY <1>2
  <2>2. FlattenSeq(ss) = ss
    BY <1>2 DEF FlattenSeq
  <2> QED BY <1>2, <2>1, <2>2 DEF JoinsUp
<1>3. CASE n # 0
  <2>1. FlattenSeq(ss) = c[n]
    BY <1>3 DEF FlattenSeq
  <2> DEFINE h == [i \in 1 .. n |-> f[i]]
  <2> HIDE DEF n
  <2>2. h = Turn(h)
    <3>1. ASSUME NEW i \in 1 .. n PROVE f[i] = IF i = 1 THEN ss[i] ELSE h[i - 1] \o ss[i]
      <4>1. f[i] = f[i - 1] \o ss[i]
        BY DEF JoinsUp, n
      <4>2. CASE i = 1
        <5>1. f[i - 1] = <<>> /\ ss[i] \in Seq(T)
          BY <1>1, <4>2 DEF JoinsUp
        <5>2. <<>> \o ss[i] = ss[i]
          BY <5>1
        <5> QED BY <4>1, <4>2, <5>1, <5>2
      <4>3. CASE i # 1
        <5>1. i - 1 \in 1 .. n
          BY <1>1, <4>3
        <5> QED BY <4>1, <4>3, <5>1
      <4> QED BY <4>2, <4>3
    <3> QED BY <3>1
  <2>3. c = Turn(c)
    <3> DEFINE Q(g) == g = Turn(g)
    <3>1. Q(h)
      BY <2>2
    <3>2. c = CHOOSE g : Q(g)
      OBVIOUS
    <3> HIDE DEF Q, c, h
    <3>3. Q(c)
      BY <3>1, <3>2
    <3> QED BY <3>3 DEF Q
  <2> HIDE DEF c
  <2> DEFINE S == {m \in 0 .. n : m > 0 => c[m] = f[m]}
  <2>4. 0 \in S
    BY <1>1
  <2>5. ASSUME NEW m \in 1 .. n, m - 1 \in S PROVE m \in S
    <3>1. f[m] = f[m - 1] \o ss[m] /\ c[m] = IF m = 1 THEN ss[m] ELSE c[m - 1] \o ss[m]
      BY <2>3 DEF JoinsUp, n
    <3>2. CASE m = 1
      <4>1. f[m - 1] = <<>> /\ ss[m] \in Seq(T)
        BY <1>1, <3>2 DEF JoinsUp
      <4>2. <<>> \o ss[m] = ss[m]
        BY <4>1
      <4> QED BY <3>1, <3>2, <4>1, <4>2
    <3>3. CASE m # 1
      <4>1. m - 1 > 0 /\ m \in 0 .. n
        BY <1>1, <3>3
      <4>2. c[m - 1] = f[m - 1]
        BY <2>5, <4>1
      <4> QED BY <3>1, <3>3, <4>1, <4>2
    <3> QED BY <3>2, <3>3
  <2> HIDE DEF S
  <2>6. 0 .. n \subseteq S
    BY <1>1, <2>4, <2>5, InductTo
  <2>7. n \in S /\ n > 0
    BY <1>1, <1>3, <2>6
  <2>8. c[n] = f[n]
    BY <2>7 DEF S
  <2> QED BY <2>1, <2>8 DEF n
<1> QED BY <1>2, <1>3

\* What is joined has the elements of what it is joined from,
LEMMA FlattenTypes ==
  ASSUME NEW T, NEW ss \in Seq(Seq(T))
  PROVE  FlattenSeq(ss) \in Seq(T)
<1>1. PICK f : JoinsUp(f, Len(ss), T, ss)
  BY JoinExists
<1>2. FlattenSeq(ss) = f[Len(ss)]
  BY <1>1, FlattenJoins
<1>3. Len(ss) \in 0 .. Len(ss)
  OBVIOUS
<1> QED BY <1>1, <1>2, <1>3 DEF JoinsUp

\* is nothing for no sequences,
LEMMA FlattenNone == FlattenSeq(<<>>) = <<>>
BY DEF FlattenSeq

\* and goes on with a sequence that is added.
LEMMA FlattenAppend ==
  ASSUME NEW T, NEW ss \in Seq(Seq(T)), NEW x \in Seq(T)
  PROVE  FlattenSeq(Append(ss, x)) = FlattenSeq(ss) \o x
<1> DEFINE n == Len(ss)
           all == Append(ss, x)
<1>1. n \in Nat /\ all \in Seq(Seq(T)) /\ Len(all) = n + 1 /\ all[n + 1] = x
      /\ \A i \in 1 .. n : all[i] = ss[i]
  OBVIOUS
<1> HIDE DEF all
<1>2. PICK f : JoinsUp(f, Len(all), T, all)
  BY <1>1, JoinExists
<1>3. FlattenSeq(all) = f[n + 1]
  BY <1>1, <1>2, FlattenJoins
<1> DEFINE h == [i \in 0 .. n |-> f[i]]
<1>4. JoinsUp(h, n, T, ss)
  <2> HIDE DEF n
  <2>1. \A i \in 0 .. n : i \in 0 .. n + 1
    BY <1>1
  <2>2. h \in [0 .. n -> Seq(T)] /\ h[0] = <<>>
    BY <1>1, <1>2, <2>1 DEF JoinsUp
  <2>3. ASSUME NEW i \in 1 .. n PROVE h[i] = h[i - 1] \o ss[i]
    <3>1. i \in 1 .. n + 1 /\ i \in 0 .. n /\ i - 1 \in 0 .. n
      BY <1>1
    <3> QED BY <1>1, <1>2, <3>1 DEF JoinsUp
  <2> HIDE DEF h
  <2> QED BY <2>2, <2>3 DEF JoinsUp
<1>5. FlattenSeq(ss) = h[n]
  <2> HIDE DEF h
  <2> QED BY <1>4, FlattenJoins
<1>6. f[n + 1] = f[n] \o x /\ h[n] = f[n]
  <2> HIDE DEF n
  <2>1. n + 1 \in 1 .. n + 1 /\ (n + 1) - 1 = n /\ n \in 0 .. n
    BY <1>1
  <2> QED BY <1>1, <1>2, <2>1 DEF JoinsUp
<1> QED BY <1>3, <1>5, <1>6 DEF all

-----------------------------------------------------------------------------
\* The reader with a bytes of stream s behind it.
Ordered(m) == [k \in 1 .. m |-> k]
Lasts(s, m) == {k \in 1 .. m : s[k].last}
Begun(s, k) == IF k = 0 \/ s[k].last THEN 0 ELSE SizeTo(s, k)

ReadersOver(N, F) == [pending : Nat, next : N, joined : Seq(F), size : Nat,
                      records : Seq(Seq(F)), bad : BOOLEAN]
Readers(n) == ReadersOver(1 .. n + 1, 1 .. n)

EndsWithLast(s, x) == \A k \in DOMAIN x : s[x[k]].last <=> k = Len(x)

Reads(s, r, a) ==
  /\ r \in Readers(Len(s))
  /\ r.pending = a - End(s, r.next - 1)
  /\ r.size = Begun(s, r.next - 1)
  /\ Len(r.records) = Cardinality(Lasts(s, r.next - 1))
  /\ FlattenSeq(r.records) \o r.joined = Ordered(r.next - 1)
  /\ \A j \in 1 .. Len(r.records) : EndsWithLast(s, r.records[j])
  /\ \A j \in 1 .. Len(r.joined) : ~s[r.joined[j]].last
  /\ \A k \in 1 .. r.next - 1 : SizeTo(s, k) <= MaxRecord
  /\ r.bad => /\ r.next <= Len(s) /\ SizeTo(s, r.next) > MaxRecord
              /\ End(s, r.next - 1) + Header <= a

\* No turn of the loop takes any more.
Stuck(s, r) ==
  \/ r.bad \/ r.pending < Header
  \/ /\ r.size + s[r.next].length <= MaxRecord
     /\ r.pending < Header + s[r.next].length

\* What taking a fragment does to the reader, field by field.
Advanced(r, p, m) == [r EXCEPT !.pending = p, !.next = m]
Closed(r, more) == [r EXCEPT !.joined = <<>>, !.size = 0, !.records = Append(@, more)]
GoesOn(r, more, z) == [r EXCEPT !.joined = more, !.size = z]

LEMMA AdvancedFields ==
  ASSUME NEW N, NEW F, NEW r \in ReadersOver(N, F), NEW p \in Nat, NEW m \in N
  PROVE  LET u == Advanced(r, p, m) IN
         /\ u \in ReadersOver(N, F) /\ u.pending = p /\ u.next = m /\ u.joined = r.joined
         /\ u.size = r.size /\ u.records = r.records /\ u.bad = r.bad
BY DEF Advanced, ReadersOver

LEMMA ClosedFields ==
  ASSUME NEW N, NEW F, NEW r \in ReadersOver(N, F), NEW more \in Seq(F)
  PROVE  LET u == Closed(r, more) IN
         /\ u \in ReadersOver(N, F) /\ u.pending = r.pending /\ u.next = r.next /\ u.joined = <<>>
         /\ u.size = 0 /\ u.records = Append(r.records, more) /\ u.bad = r.bad
<1>1. <<>> \in Seq(F) /\ 0 \in Nat
  OBVIOUS
<1>2. r.records \in Seq(Seq(F))
  BY DEF ReadersOver
<1>3. Append(r.records, more) \in Seq(Seq(F))
  BY <1>2
<1> QED BY <1>1, <1>3 DEF Closed, ReadersOver

LEMMA GoesOnFields ==
  ASSUME NEW N, NEW F, NEW r \in ReadersOver(N, F), NEW more \in Seq(F), NEW z \in Nat
  PROVE  LET u == GoesOn(r, more, z) IN
         /\ u \in ReadersOver(N, F) /\ u.pending = r.pending /\ u.next = r.next /\ u.joined = more
         /\ u.size = z /\ u.records = r.records /\ u.bad = r.bad
BY DEF GoesOn, ReadersOver

\* The two ways to take a fragment, by its last-fragment bit.
LEMMA TakenFields ==
  ASSUME NEW n \in Nat, stream \in Seq(Fragment), Len(stream) = n,
         NEW r \in Readers(n), r.next <= n, r.pending >= Header + stream[r.next].length
  PROVE  /\ FragmentTaken(r) \in Readers(n)
         /\ FragmentTaken(r).pending = r.pending - (Header + stream[r.next].length)
         /\ FragmentTaken(r).next = r.next + 1 /\ FragmentTaken(r).bad = r.bad
         /\ stream[r.next].last =>
              /\ FragmentTaken(r).joined = <<>> /\ FragmentTaken(r).size = 0
              /\ FragmentTaken(r).records = Append(r.records, Append(r.joined, r.next))
         /\ ~stream[r.next].last =>
              /\ FragmentTaken(r).joined = Append(r.joined, r.next)
              /\ FragmentTaken(r).size = r.size + stream[r.next].length
              /\ FragmentTaken(r).records = r.records
<1> DEFINE f == stream[r.next]
           more == Append(r.joined, r.next)
           p == r.pending - (Header + f.length)
           rest == Advanced(r, p, r.next + 1)
<1>1. r.pending \in Nat /\ r.next \in 1 .. n /\ r.joined \in Seq(1 .. n) /\ r.size \in Nat
  BY DEF Readers, ReadersOver
<1>2. f.length \in Nat
  BY <1>1, FragmentTypes
<1>3. more \in Seq(1 .. n)
  BY <1>1
<1>4. p \in Nat /\ r.next + 1 \in 1 .. n + 1 /\ r.size + f.length \in Nat
  <2>1. r.pending >= Header + f.length
    OBVIOUS
  <2> HIDE DEF f
  <2>2. p \in Nat
    BY <1>1, <1>2, <2>1 DEF Header
  <2>3. r.next + 1 \in 1 .. n + 1
    BY <1>1
  <2> QED BY <1>1, <1>2, <2>2, <2>3
<1> HIDE DEF p
<1>s. PICK N, F : N = 1 .. n + 1 /\ F = 1 .. n
  OBVIOUS
<1>u. /\ r \in ReadersOver(N, F) /\ r.next + 1 \in N /\ more \in Seq(F)
  BY <1>s, <1>3, <1>4 DEF Readers
<1>5. /\ rest \in ReadersOver(N, F) /\ rest.pending = p /\ rest.next = r.next + 1
      /\ rest.joined = r.joined /\ rest.size = r.size /\ rest.records = r.records
      /\ rest.bad = r.bad
  <2>1. PICK m : m = r.next + 1
    OBVIOUS
  <2>2. m \in N /\ r \in ReadersOver(N, F) /\ p \in Nat
    BY <1>4, <1>u, <2>1
  <2> DEFINE a == Advanced(r, p, m)
  <2>3. /\ a \in ReadersOver(N, F) /\ a.pending = p /\ a.next = m /\ a.joined = r.joined
        /\ a.size = r.size /\ a.records = r.records /\ a.bad = r.bad
    BY ONLY <2>2, AdvancedFields
  <2> QED BY <2>1, <2>3
<1>t. /\ f.last => FragmentTaken(r) = Closed(rest, more)
      /\ ~f.last => FragmentTaken(r) = GoesOn(rest, more, rest.size + f.length)
  BY DEF FragmentTaken, Advanced, Closed, GoesOn, p
<1> HIDE DEF f, more, rest
<1>c. CASE f.last
  <2>1. /\ Closed(rest, more) \in ReadersOver(N, F)
        /\ Closed(rest, more).pending = rest.pending /\ Closed(rest, more).next = rest.next
        /\ Closed(rest, more).joined = <<>> /\ Closed(rest, more).size = 0
        /\ Closed(rest, more).records = Append(rest.records, more)
        /\ Closed(rest, more).bad = rest.bad
    BY <1>u, <1>5, ClosedFields
  <2> QED BY <1>s, <1>5, <1>t, <1>c, <2>1 DEF f, more, p, Readers
<1>g. CASE ~f.last
  <2> DEFINE u == GoesOn(rest, more, rest.size + f.length)
  <2>1. /\ u \in ReadersOver(N, F) /\ u.pending = rest.pending /\ u.next = rest.next
        /\ u.joined = more /\ u.size = rest.size + f.length
        /\ u.records = rest.records /\ u.bad = rest.bad
    <3>1. rest.size + f.length \in Nat
      BY <1>4, <1>5
    <3>2. PICK z : z = rest.size + f.length
      OBVIOUS
    <3>3. z \in Nat /\ rest \in ReadersOver(N, F) /\ more \in Seq(F)
      BY <1>u, <1>5, <3>1, <3>2
    <3> DEFINE g == GoesOn(rest, more, z)
    <3>4. /\ g \in ReadersOver(N, F) /\ g.pending = rest.pending /\ g.next = rest.next
          /\ g.joined = more /\ g.size = z /\ g.records = rest.records /\ g.bad = rest.bad
      BY ONLY <3>3, GoesOnFields
    <3> QED BY <3>2, <3>4
  <2> HIDE DEF u
  <2>2. FragmentTaken(r) = u
    BY <1>t, <1>g DEF u
  <2> QED BY <1>s, <1>5, <1>g, <2>1, <2>2 DEF f, more, p, Readers
<1> QED BY <1>c, <1>g

\* The records that end before a fragment are one fewer than with it if it is a last one.
LEMMA LastsNext ==
  ASSUME NEW s, NEW k \in Nat \ {0}
  PROVE  /\ Cardinality(Lasts(s, k - 1)) \in Nat
         /\ s[k].last => Cardinality(Lasts(s, k)) = Cardinality(Lasts(s, k - 1)) + 1
         /\ ~s[k].last => Lasts(s, k) = Lasts(s, k - 1)
<1>1. IsFiniteSet(1 .. k - 1) /\ Lasts(s, k - 1) \in SUBSET (1 .. k - 1)
  BY FS_Interval DEF Lasts
<1>2. IsFiniteSet(Lasts(s, k - 1)) /\ Cardinality(Lasts(s, k - 1)) \in Nat
  BY <1>1, FS_Subset, FS_CardinalityType
<1>3. k \notin Lasts(s, k - 1)
  BY DEF Lasts
<1>4. ~s[k].last => Lasts(s, k) = Lasts(s, k - 1)
  BY DEF Lasts
<1>5. s[k].last => Lasts(s, k) = Lasts(s, k - 1) \cup {k}
  BY DEF Lasts
<1> QED BY <1>2, <1>3, <1>4, <1>5, FS_AddElement

\* Appending to the second of two sequences appends to both.
LEMMA AppendConcat ==
  ASSUME NEW S, NEW x \in Seq(S), NEW y \in Seq(S), NEW k \in S
  PROVE  x \o Append(y, k) = Append(x \o y, k)
<1>1. <<k>> \in Seq(S)
  OBVIOUS
<1>2. x \o y \in Seq(S)
  BY ConcatProperties
<1>3. Append(y, k) = y \o <<k>>
  BY AppendIsConcat
<1>4. Append(x \o y, k) = (x \o y) \o <<k>>
  BY <1>2, AppendIsConcat
<1>5. (x \o y) \o <<k>> = x \o (y \o <<k>>)
  BY <1>1, ConcatAssociative
<1> QED BY <1>3, <1>4, <1>5

\* The fragments taken are those of the stream in order, with one more too.
LEMMA OrderedNext ==
  ASSUME NEW n \in Nat, NEW k \in 1 .. n, NEW x \in Seq(1 .. n), NEW y \in Seq(1 .. n),
         x \o y = Ordered(k - 1)
  PROVE  x \o Append(y, k) = Ordered(k)
<1>1. x \o Append(y, k) = Append(x \o y, k)
  <2>1. PICK F : F = 1 .. n
    OBVIOUS
  <2>2. x \in Seq(F) /\ y \in Seq(F) /\ k \in F
    BY <2>1
  <2> QED BY <2>2, AppendConcat
<1>2. Append(Ordered(k - 1), k) = Ordered(k)
  <2>1. Ordered(k - 1) \in Seq(1 .. n) /\ Len(Ordered(k - 1)) = k - 1
    BY DEF Ordered
  <2> QED BY <2>1 DEF Ordered
<1> QED BY <1>1, <1>2

\* Taking a fragment that may be taken keeps the reader what it is.
LEMMA TakenReads ==
  ASSUME stream \in Seq(Fragment), NEW a \in Nat, NEW r, Reads(stream, r, a), ~r.bad,
         r.next <= Len(stream), ~TooLong(r), Complete(r)
  PROVE  /\ Reads(stream, FragmentTaken(r), a)
         /\ FragmentTaken(r).next = r.next + 1
         /\ Len(FragmentTaken(r).records) >= Len(r.records)
<1> DEFINE n == Len(stream)
           k == r.next
           f == stream[k]
           t == FragmentTaken(r)
           more == Append(r.joined, k)
<1>1. n \in Nat /\ k \in 1 .. n /\ r \in Readers(n) /\ k - 1 \in 0 .. n /\ f.length \in Nat
      /\ f.last \in BOOLEAN
  <2>1. n \in Nat /\ k \in 1 .. n /\ r \in Readers(n)
    BY DEF Reads, Readers, ReadersOver
  <2> QED BY <2>1, FragmentTypes
<1>2. /\ r.pending \in Nat /\ r.joined \in Seq(1 .. n) /\ r.size \in Nat
      /\ r.records \in Seq(Seq(1 .. n))
  BY <1>1 DEF Readers, ReadersOver
<1>3. r.pending >= Header + f.length
  BY DEF Complete
<1>4. /\ t \in Readers(n)
      /\ t.pending = r.pending - (Header + f.length)
      /\ t.next = k + 1 /\ t.bad = r.bad
      /\ f.last => t.joined = <<>> /\ t.size = 0 /\ t.records = Append(r.records, more)
      /\ ~f.last => t.joined = more /\ t.size = r.size + f.length /\ t.records = r.records
  BY <1>1, <1>3, TakenFields
<1> HIDE DEF t, f, n
<1>5. t.next - 1 = k
  BY <1>1, <1>4
<1>6. t.pending = a - End(stream, k)
  <2>1. End(stream, k) = End(stream, k - 1) + (Header + f.length) /\ End(stream, k - 1) \in Nat
    BY <1>1, EndSteps DEF Span, n, f
  <2>2. r.pending = a - End(stream, k - 1)
    BY DEF Reads
  <2> QED BY <1>1, <1>4, <2>1, <2>2 DEF Header
<1>7. SizeTo(stream, k) = r.size + f.length
  <2>1. SizeTo(stream, k) = (IF k = 1 \/ stream[k - 1].last THEN 0 ELSE SizeTo(stream, k - 1)) + f.length
    BY <1>1, SizeSteps DEF n, f
  <2>2. r.size = IF k - 1 = 0 \/ stream[k - 1].last THEN 0 ELSE SizeTo(stream, k - 1)
    BY DEF Reads, Begun
  <2>3. k - 1 = 0 <=> k = 1
    BY <1>1
  <2> QED BY <2>1, <2>2, <2>3
<1>8. t.size = Begun(stream, k)
  BY <1>1, <1>4, <1>7 DEF Begun, f
<1>9. Len(t.records) = Cardinality(Lasts(stream, k)) /\ Len(t.records) >= Len(r.records)
  <2>1. Len(r.records) = Cardinality(Lasts(stream, k - 1)) /\ Len(r.records) \in Nat
    BY <1>2 DEF Reads
  <2>2. f.last => Len(t.records) = Len(r.records) + 1
    BY <1>2, <1>4
  <2>3. k \in Nat \ {0}
    BY <1>1
  <2> QED BY <1>4, <2>1, <2>2, <2>3, LastsNext DEF f
<1>10. FlattenSeq(r.records) \o r.joined = Ordered(k - 1)
  BY DEF Reads
<1>11. FlattenSeq(r.records) \in Seq(1 .. n) /\ more \in Seq(1 .. n)
  BY <1>1, <1>2, FlattenTypes
<1>12. FlattenSeq(r.records) \o more = Ordered(k)
  BY <1>1, <1>2, <1>10, <1>11, OrderedNext
<1>13. FlattenSeq(t.records) \o t.joined = Ordered(k)
  <2>1. CASE f.last
    <3>1. FlattenSeq(t.records) = FlattenSeq(r.records) \o more
      BY <1>2, <1>4, <1>11, <2>1, FlattenAppend
    <3>2. (FlattenSeq(r.records) \o more) \o <<>> = FlattenSeq(r.records) \o more
      BY <1>11
    <3> QED BY <1>4, <1>12, <2>1, <3>1, <3>2
  <2>2. CASE ~f.last
    BY <1>4, <1>12, <2>2
  <2> QED BY <2>1, <2>2
<1>14. /\ \A j \in 1 .. Len(r.joined) : more[j] = r.joined[j] /\ ~stream[r.joined[j]].last
       /\ Len(more) = Len(r.joined) + 1 /\ more[Len(r.joined) + 1] = k /\ Len(r.joined) \in Nat
       /\ DOMAIN more = 1 .. Len(r.joined) + 1
  BY <1>1, <1>2 DEF Reads
<1>15. f.last => EndsWithLast(stream, more)
  <2> SUFFICES ASSUME f.last, NEW j \in 1 .. Len(r.joined) + 1
               PROVE  stream[more[j]].last <=> j = Len(r.joined) + 1
    BY <1>14 DEF EndsWithLast
  <2>1. j \in 1 .. Len(r.joined) \/ j = Len(r.joined) + 1
    BY <1>14
  <2>2. j \in 1 .. Len(r.joined) => j # Len(r.joined) + 1
    BY <1>14
  <2> QED BY <1>14, <2>1, <2>2 DEF f
<1>16. \A j \in 1 .. Len(t.records) : EndsWithLast(stream, t.records[j])
  <2>1. \A j \in 1 .. Len(r.records) : EndsWithLast(stream, r.records[j])
    BY DEF Reads
  <2>2. CASE f.last
    <3>1. /\ Len(t.records) = Len(r.records) + 1 /\ t.records[Len(r.records) + 1] = more
          /\ \A j \in 1 .. Len(r.records) : t.records[j] = r.records[j]
          /\ Len(r.records) \in Nat
      <4>1. PICK z : z = r.records
        OBVIOUS
      <4>2. z \in Seq(Seq(1 .. n)) /\ more \in Seq(1 .. n) /\ t.records = Append(z, more)
        BY <1>2, <1>4, <1>11, <2>2, <4>1
      <4>3. PICK T : T = Seq(1 .. n)
        OBVIOUS
      <4>4. z \in Seq(T) /\ more \in T
        BY <4>2, <4>3
      <4>5. PICK y : y = Append(z, more)
        OBVIOUS
      <4>6. /\ Len(y) = Len(z) + 1 /\ y[Len(z) + 1] = more /\ Len(z) \in Nat
            /\ \A j \in 1 .. Len(z) : y[j] = z[j]
        BY ONLY <4>4, <4>5, AppendProperties
      <4> QED BY ONLY <4>1, <4>2, <4>5, <4>6
    <3>2. \A j \in 1 .. Len(r.records) + 1 : j \in 1 .. Len(r.records) \/ j = Len(r.records) + 1
      BY <3>1
    <3> QED BY <1>15, <2>1, <2>2, <3>1, <3>2
  <2>3. CASE ~f.last
    BY <1>4, <2>1, <2>3
  <2> QED BY <2>2, <2>3
<1>17. \A j \in 1 .. Len(t.joined) : ~stream[t.joined[j]].last
  <2>1. CASE f.last
    <3>1. 1 .. Len(t.joined) = {}
      BY <1>4, <2>1
    <3> QED BY <3>1
  <2>2. CASE ~f.last
    <3>1. \A j \in 1 .. Len(r.joined) + 1 : j \in 1 .. Len(r.joined) \/ j = Len(r.joined) + 1
      BY <1>14
    <3> QED BY <1>4, <1>14, <2>2, <3>1 DEF f
  <2> QED BY <2>1, <2>2
<1>18. \A j \in 1 .. k : SizeTo(stream, j) <= MaxRecord
  <2>1. SizeTo(stream, k) <= MaxRecord
    <3>1. ~(r.size + f.length > MaxRecord)
      BY DEF TooLong, f
    <3> QED BY <1>1, <1>2, <1>7, <3>1, ServerAssumption
  <2>2. \A j \in 1 .. k - 1 : SizeTo(stream, j) <= MaxRecord
    BY DEF Reads
  <2>3. \A j \in 1 .. k : j \in 1 .. k - 1 \/ j = k
    BY <1>1
  <2> QED BY <2>1, <2>2, <2>3
<1>19. ~t.bad
  BY <1>4
<1>20. Reads(stream, t, a)
  BY <1>4, <1>5, <1>6, <1>8, <1>9, <1>13, <1>16, <1>17, <1>18, <1>19 DEF Reads, n
<1> QED BY <1>4, <1>9, <1>20 DEF t

-----------------------------------------------------------------------------
\* One turn of the loop.
LEMMA TurnReads ==
  ASSUME stream \in Seq(Fragment), NEW a \in 0 .. End(stream, Len(stream)), NEW r, Reads(stream, r, a)
  PROVE  /\ Reads(stream, LoopTurn(r), a)
         /\ Len(LoopTurn(r).records) >= Len(r.records)
         /\ Stuck(stream, LoopTurn(r)) \/ LoopTurn(r).next = r.next + 1
         /\ Stuck(stream, r) => LoopTurn(r) = r
<1> DEFINE n == Len(stream)
           k == r.next
<1>1. /\ n \in Nat /\ k \in 1 .. n + 1 /\ r.size \in Nat /\ r.pending \in Nat
      /\ r.bad \in BOOLEAN /\ Len(r.records) \in Nat /\ a \in Nat
      /\ r.records \in Seq(Seq(1 .. n))
  <2>1. r \in Readers(n) /\ n \in Nat
    BY DEF Reads
  <2>2. End(stream, n) \in Nat
    BY EndSteps, <2>1
  <2>3. r.records \in Seq(Seq(1 .. n))
    BY <2>1 DEF Readers, ReadersOver
  <2>4. Len(r.records) \in Nat
    BY <2>3
  <2> QED BY <2>1, <2>2, <2>3, <2>4 DEF Readers, ReadersOver
<1>2. CASE r.bad \/ r.pending < Header
  <2>1. LoopTurn(r) = r /\ Stuck(stream, r)
    BY <1>2 DEF LoopTurn, Stuck
  <2> QED BY <1>1, <2>1
<1>3. CASE ~(r.bad \/ r.pending < Header)
  <2>1. r.pending = a - End(stream, k - 1) /\ r.pending >= Header
    BY <1>1, <1>3 DEF Reads, Header
  <2>2. k \in 1 .. n
    <3>1. CASE k = n + 1
      <4>1. k - 1 = n /\ End(stream, n) \in Nat /\ a <= End(stream, n)
        BY <1>1, <3>1, EndSteps
      <4> QED BY <1>1, <2>1, <4>1 DEF Header
    <3> QED BY <1>1, <3>1
  <2>3. stream[k].length \in Nat /\ End(stream, k - 1) \in Nat
    <3>1. k - 1 \in 0 .. n
      BY <1>1, <2>2
    <3> QED BY <2>2, <3>1, FragmentTypes, EndSteps
  <2>4. CASE TooLong(r)
    <3> DEFINE t == [r EXCEPT !.bad = TRUE]
    <3>1. LoopTurn(r) = t
      BY <1>3, <2>4 DEF LoopTurn
    <3>2. /\ t \in Readers(n) /\ t.pending = r.pending /\ t.next = k /\ t.joined = r.joined
          /\ t.size = r.size /\ t.records = r.records /\ t.bad
      BY DEF Reads, Readers, ReadersOver
    <3> HIDE DEF t
    <3>3. SizeTo(stream, k) > MaxRecord
      <4>1. SizeTo(stream, k) = (IF k = 1 \/ stream[k - 1].last THEN 0 ELSE SizeTo(stream, k - 1))
                                  + stream[k].length
        BY <2>2, SizeSteps
      <4>2. r.size = IF k - 1 = 0 \/ stream[k - 1].last THEN 0 ELSE SizeTo(stream, k - 1)
        BY DEF Reads, Begun
      <4>3. k - 1 = 0 <=> k = 1
        BY <1>1
      <4>4. SizeTo(stream, k) = r.size + stream[k].length
        BY <4>1, <4>2, <4>3
      <4> QED BY <2>4, <4>4 DEF TooLong
    <3>4. k <= n /\ End(stream, k - 1) + Header <= a
      BY <1>1, <2>1, <2>2, <2>3 DEF Header
    <3>5. Reads(stream, t, a)
      BY <3>2, <3>3, <3>4 DEF Reads, n
    <3>6. Stuck(stream, t) /\ ~Stuck(stream, r)
      <4>1. Stuck(stream, t)
        BY <3>2 DEF Stuck
      <4>2. ~(r.size + stream[k].length <= MaxRecord)
        BY <1>1, <2>3, <2>4, ServerAssumption DEF TooLong
      <4> QED BY <1>3, <4>1, <4>2 DEF Stuck
    <3>7. Len(t.records) >= Len(r.records)
      BY <1>1, <3>2
    <3> QED BY <3>1, <3>5, <3>6, <3>7
  <2>5. CASE ~TooLong(r) /\ Complete(r)
    <3>1. LoopTurn(r) = FragmentTaken(r)
      BY <1>3, <2>5 DEF LoopTurn
    <3>2. /\ Reads(stream, FragmentTaken(r), a) /\ FragmentTaken(r).next = k + 1
          /\ Len(FragmentTaken(r).records) >= Len(r.records)
      <4>1. k <= Len(stream) /\ a \in Nat /\ ~r.bad
        BY <1>1, <1>3, <2>2
      <4> HIDE DEF n
      <4> QED BY <2>5, <4>1, TakenReads
    <3>3. ~Stuck(stream, r)
      <4>1. ~(r.pending < Header + stream[k].length)
        <5>1. PICK h \in Nat : h = Header + stream[k].length
          BY <2>3 DEF Header
        <5>2. r.pending >= h
          BY <2>5, <5>1 DEF Complete
        <5> QED BY <1>1, <5>1, <5>2
      <4> QED BY <1>3, <4>1 DEF Stuck
    <3> QED BY <3>1, <3>2, <3>3
  <2>6. CASE ~TooLong(r) /\ ~Complete(r)
    <3>1. LoopTurn(r) = r
      BY <2>6 DEF LoopTurn
    <3>2. Stuck(stream, r)
      <4>1. r.size + stream[k].length <= MaxRecord
        BY <1>1, <2>3, <2>6, ServerAssumption DEF TooLong
      <4>2. r.pending < Header + stream[k].length
        <5>1. PICK h \in Nat : h = Header + stream[k].length
          BY <2>3 DEF Header
        <5>2. ~(r.pending >= h)
          BY <2>6, <5>1 DEF Complete
        <5> QED BY <1>1, <5>1, <5>2
      <4> QED BY <4>1, <4>2 DEF Stuck
    <3> QED BY <1>1, <3>1, <3>2
  <2> QED BY <2>4, <2>5, <2>6
<1> QED BY <1>2, <1>3

\* The reader when m more bytes are in its buffer.
More(r, m) == [r EXCEPT !.pending = @ + m]

\* push is one turn after another, as many as there are fragments.
LEMMA PushSteps ==
  ASSUME stream \in Seq(Fragment), NEW m, NEW T, More(reader, m) \in T,
         \A r \in T : LoopTurn(r) \in T
  PROVE  \E u : /\ u[0] = More(reader, m) /\ u[Len(stream)] = Pushed(m)
                /\ \A k \in 1 .. Len(stream) : u[k] = LoopTurn(u[k - 1])
<1> DEFINE n == Len(stream)
           b == More(reader, m)
           step == [p \in T \X (1 .. n) |-> LoopTurn(p[1])]
           Turn(iter) == [s \in SUBSET DOMAIN stream |->
                            IF s = {} THEN b ELSE LoopTurn(iter[s \ {Max(s)}])]
           c == CHOOSE iter : iter = Turn(iter)
<1>1. Pushed(m) = c[DOMAIN stream]
  BY DEF Pushed, More, FoldLeft, MapThenFoldSet
<1>2. n \in Nat /\ DOMAIN stream = 1 .. n
  OBVIOUS
<1>3. step \in [T \X (1 .. n) -> T]
  OBVIOUS
<1>5. PICK g : FoldsTo(g, n, T, b, step)
  <2> HIDE DEF step, n, b
  <2>1. b \in T
    BY DEF b
  <2> QED BY <1>2, <1>3, <2>1, FoldExists
<1> HIDE DEF b
<1>6. g = Turn(g)
  <2>1. ASSUME NEW s \in SUBSET (1 .. n), s # {}
        PROVE  g[s] = LoopTurn(g[s \ {Max(s)}])
    <3>1. Max(s) \in 1 .. n
      BY <2>1, <1>2, MaxIsIn
    <3>2. g[s \ {Max(s)}] \in T /\ g[s] = step[<<g[s \ {Max(s)}], Max(s)>>]
      BY <2>1, <1>5 DEF FoldsTo
    <3> QED BY <3>1, <3>2
  <2>2. g \in [SUBSET (1 .. n) -> T] /\ g[{}] = b
    BY <1>5 DEF FoldsTo
  <2> QED BY <1>2, <2>1, <2>2
<1>7. c = Turn(c)
  <2> DEFINE Q(iter) == iter = Turn(iter)
  <2>1. Q(g)
    BY <1>6
  <2>2. c = CHOOSE iter : Q(iter)
    OBVIOUS
  <2> HIDE DEF Q, c
  <2>3. Q(c)
    BY <2>1, <2>2
  <2> QED BY <2>3 DEF Q
<1> DEFINE u == [k \in 0 .. n |-> c[1 .. k]]
<1> HIDE DEF c
<1>8. ASSUME NEW k \in 1 .. n PROVE u[k] = LoopTurn(u[k - 1])
  <2>1. Max(1 .. k) = k /\ (1 .. k) \ {k} = 1 .. (k - 1) /\ 1 .. k # {}
        /\ 1 .. k \in SUBSET DOMAIN stream
    BY <1>2, PrefixTop
  <2>2. c[1 .. k] = LoopTurn(c[1 .. (k - 1)])
    BY <1>7, <2>1
  <2> QED BY <2>2, <1>2
<1>9. u[0] = b
  <2>1. 1 .. 0 = {} /\ {} \in SUBSET DOMAIN stream
    OBVIOUS
  <2>2. c[{}] = b
    BY <1>7, <2>1
  <2> QED BY <1>2, <2>1, <2>2
<1>10. u[n] = Pushed(m)
  BY <1>1, <1>2
<1> HIDE DEF u
<1> QED BY <1>8, <1>9, <1>10 DEF b

\* After push the reader has taken all it can of the bytes that arrived.
LEMMA PushedReads ==
  ASSUME stream \in Seq(Fragment), NEW a \in Nat, NEW m \in Nat, a + m <= End(stream, Len(stream)),
         Reads(stream, reader, a)
  PROVE  /\ Reads(stream, Pushed(m), a + m) /\ Stuck(stream, Pushed(m))
         /\ Len(Pushed(m).records) >= Len(reader.records)
<1> DEFINE n == Len(stream)
           b == More(reader, m)
           T == {r \in Readers(n) : Reads(stream, r, a + m) /\ Len(r.records) >= Len(reader.records)}
<1>1. n \in Nat /\ End(stream, n) \in Nat /\ a + m \in 0 .. End(stream, n)
  BY EndSteps
<1>2. b \in T
  <2>1. /\ reader \in Readers(n) /\ reader.pending \in Nat /\ Len(reader.records) \in Nat
        /\ reader.next - 1 \in 0 .. n
    <3>1. reader \in Readers(n)
      BY DEF Reads
    <3>2. reader.records \in Seq(Seq(1 .. n)) /\ reader.next \in 1 .. n + 1 /\ reader.pending \in Nat
      BY <3>1 DEF Readers, ReadersOver
    <3> QED BY <1>1, <3>1, <3>2
  <2>2. /\ b \in Readers(n) /\ b.pending = reader.pending + m /\ b.next = reader.next
        /\ b.joined = reader.joined /\ b.size = reader.size /\ b.records = reader.records
        /\ b.bad = reader.bad
    <3>1. PICK p \in Nat : p = reader.pending + m
      BY <2>1
    <3>2. PICK N, F : N = 1 .. n + 1 /\ F = 1 .. n
      OBVIOUS
    <3>3. reader \in ReadersOver(N, F)
      BY <2>1, <3>2 DEF Readers
    <3> DEFINE q == [reader EXCEPT !.pending = p]
    <3>4. /\ q \in ReadersOver(N, F) /\ q.pending = p /\ q.next = reader.next
          /\ q.joined = reader.joined /\ q.size = reader.size /\ q.records = reader.records
          /\ q.bad = reader.bad
      BY ONLY <3>3, p \in Nat DEF ReadersOver
    <3>5. b = q
      BY <3>1 DEF More
    <3> HIDE DEF b, q
    <3> QED BY <3>1, <3>2, <3>4, <3>5 DEF Readers
  <2> HIDE DEF b
  <2>3. End(stream, reader.next - 1) \in Nat
    BY <2>1, EndSteps
  <2>4. b.pending = (a + m) - End(stream, b.next - 1)
    BY <2>1, <2>2, <2>3 DEF Reads
  <2>5. End(stream, reader.next - 1) + Header <= a => End(stream, reader.next - 1) + Header <= a + m
    BY <2>3 DEF Header
  <2>6. Reads(stream, b, a + m)
    BY <2>2, <2>4, <2>5 DEF Reads
  <2> QED BY <2>1, <2>2, <2>6
<1>3. \A r \in T : LoopTurn(r) \in T
  <2> SUFFICES ASSUME NEW r \in T PROVE LoopTurn(r) \in T
    OBVIOUS
  <2>1. Reads(stream, LoopTurn(r), a + m) /\ Len(LoopTurn(r).records) >= Len(r.records)
    BY <1>1, TurnReads
  <2>2. LoopTurn(r) \in Readers(n)
    BY <2>1 DEF Reads
  <2>3. \A q \in Readers(n) : Len(q.records) \in Nat
    <3>1. \A q \in Readers(n) : q.records \in Seq(Seq(1 .. n))
      BY DEF Readers, ReadersOver
    <3> QED BY <3>1
  <2>4. Len(reader.records) \in Nat
    BY <2>3 DEF Reads
  <2>5. Len(LoopTurn(r).records) \in Nat /\ Len(r.records) \in Nat
    BY <2>2, <2>3
  <2> QED BY <2>1, <2>2, <2>4, <2>5
<1>4. PICK u : /\ u[0] = b /\ u[n] = Pushed(m)
               /\ \A k \in 1 .. n : u[k] = LoopTurn(u[k - 1])
  <2> HIDE DEF T
  <2> QED BY <1>2, <1>3, PushSteps
<1> HIDE DEF n, b
<1> DEFINE S == {k \in 0 .. n : u[k] \in T /\ (Stuck(stream, u[k]) \/ u[k].next >= k + 1)}
<1>5. 0 \in S
  <2>1. b.next >= 1
    BY <1>2 DEF Readers, ReadersOver
  <2>2. 0 \in 0 .. n /\ 0 + 1 = 1
    BY <1>1
  <2> HIDE DEF T
  <2> QED BY <1>2, <1>4, <2>1, <2>2
<1>6. ASSUME NEW k \in 1 .. n, k - 1 \in S PROVE k \in S
  <2>1. u[k] = LoopTurn(u[k - 1]) /\ u[k - 1] \in T
    BY <1>4, <1>6
  <2>2. u[k] \in T
    BY <1>3, <2>1
  <2>3. /\ Stuck(stream, LoopTurn(u[k - 1])) \/ LoopTurn(u[k - 1]).next = u[k - 1].next + 1
        /\ Stuck(stream, u[k - 1]) => LoopTurn(u[k - 1]) = u[k - 1]
    BY <1>1, <2>1, TurnReads DEF n
  <2>4. Stuck(stream, u[k]) \/ u[k].next >= k + 1
    <3>1. CASE Stuck(stream, u[k - 1])
      BY <2>1, <2>3, <3>1
    <3>2. CASE ~Stuck(stream, u[k - 1])
      <4>1. u[k - 1].next >= (k - 1) + 1 /\ u[k - 1].next \in Nat
        BY <1>1, <1>6, <2>1, <3>2 DEF Readers, ReadersOver
      <4> HIDE DEF T, S
      <4> QED BY <2>1, <2>3, <4>1
    <3> QED BY <3>1, <3>2
  <2>5. k \in 0 .. n
    BY <1>1
  <2> QED BY <2>2, <2>4, <2>5
<1>7. n \in S
  <2> HIDE DEF S
  <2>1. 0 .. n \subseteq S
    BY <1>1, <1>5, <1>6, InductTo
  <2> QED BY <1>1, <2>1
<1> DEFINE r == Pushed(m)
<1>8. Reads(stream, r, a + m) /\ Len(r.records) >= Len(reader.records)
      /\ (Stuck(stream, r) \/ r.next >= n + 1) /\ r \in Readers(n)
  BY <1>4, <1>7
<1> HIDE DEF r
<1>9. Stuck(stream, r)
  <2>1. CASE r.next >= n + 1
    <3>1. r.next \in 1 .. n + 1 /\ r.pending \in Nat
      BY <1>8 DEF Readers, ReadersOver
    <3>2. r.next - 1 = n
      BY <1>1, <2>1, <3>1
    <3>3. r.pending = (a + m) - End(stream, n)
      BY <1>8, <3>2 DEF Reads
    <3>4. r.pending < Header
      BY <1>1, <3>1, <3>3 DEF Header
    <3> QED BY <3>4 DEF Stuck
  <2> QED BY <1>8, <2>1
<1> QED BY <1>8, <1>9 DEF r

-----------------------------------------------------------------------------
\* The whole server: what the connection keeps, a reader that has taken all it can of
\* what arrived, and calls that are records it delivered.
CallsAreRecords == \A c \in Calls : call[c] # "unsent" => c \in 1 .. Len(reader.records)
Came == End(stream, Len(stream)) - left

StreamOK ==
  /\ stream \in Seq(Fragment)
  /\ 1 .. Cardinality(Lasts(stream, Len(stream))) \subseteq Calls
  /\ left \in 0 .. End(stream, Len(stream))

ServerInv ==
  CountInv /\ StreamOK /\ Reads(stream, reader, Came) /\ Stuck(stream, reader) /\ CallsAreRecords

\* EndOf and SizeAt are those of the stream that is sent.
LEMMA EndIsEndOf ==
  ASSUME NEW k
  PROVE  EndOf(k) = End(stream, k) /\ SizeAt(k) = SizeTo(stream, k)
BY DEF EndOf, End, Span, SizeAt, SizeTo, Run, MapThenSumSet, MapThenFoldSet

\* It holds of a connection on which nothing has arrived.
LEMMA ServerInitInv == ServerInit => Init /\ ServerInv
<1> SUFFICES ASSUME ServerInit PROVE Init /\ ServerInv
  OBVIOUS
<1> DEFINE n == Len(stream)
<1>1. Init /\ CountInv
  BY CountInit DEF ServerInit
<1>2. stream \in Seq(Fragment) /\ n \in Nat /\ DOMAIN stream = 1 .. n
  <2>1. stream \in Streams
    BY DEF ServerInit
  <2>2. stream \in Seq(Fragment)
    BY <2>1, ServerAssumption DEF Fragment
  <2> QED BY <2>2
<1>3. 1 .. Cardinality(Lasts(stream, n)) \subseteq Calls
  <2>1. Lasts(stream, n) = {k \in DOMAIN stream : stream[k].last}
    BY <1>2 DEF Lasts
  <2> QED BY <2>1, ServerAssumption DEF ServerInit
<1>4. left = End(stream, n)
  <2>1. left = MapThenSumSet(LAMBDA k : Header + stream[k].length, 1 .. n)
    BY <1>2, Zenon DEF ServerInit
  <2> QED BY <2>1 DEF End, Span, MapThenSumSet, MapThenFoldSet
<1>5. End(stream, n) \in Nat /\ End(stream, 0) = 0
  BY <1>2, EndSteps
<1>6. Came = 0 /\ left \in 0 .. End(stream, n)
  BY <1>4, <1>5 DEF Came
<1>7. reader \in Readers(n) /\ reader.next = 1 /\ reader.pending = 0 /\ reader.size = 0
      /\ reader.records = <<>> /\ reader.joined = <<>> /\ ~reader.bad
  <2>1. 1 \in 1 .. n + 1
    BY <1>2
  <2>2. <<>> \in Seq(1 .. n) /\ <<>> \in Seq(Seq(1 .. n))
    OBVIOUS
  <2>3. reader = NewReader
    BY DEF ServerInit
  <2> HIDE DEF n
  <2>4. NewReader \in Readers(n)
    BY <2>1, <2>2 DEF NewReader, Readers, ReadersOver
  <2> QED BY <2>3, <2>4 DEF NewReader
<1>8. Reads(stream, reader, 0)
  <2>1. 1 .. 0 = {} /\ Lasts(stream, 0) = {} /\ Cardinality({}) = 0 /\ 1 - 1 = 0
    BY FS_EmptySet DEF Lasts
  <2>2. FlattenSeq(<<>>) \o <<>> = Ordered(0)
    <3>1. FlattenSeq(<<>>) = <<>>
      BY FlattenNone
    <3>2. <<>> \o <<>> = <<>> /\ Ordered(0) = <<>>
      BY <2>1 DEF Ordered
    <3> QED BY <3>1, <3>2
  <2>3. Len(<<>>) = 0
    OBVIOUS
  <2>4. reader.pending = 0 - End(stream, 0) /\ reader.size = Begun(stream, 0)
    BY <1>5, <1>7 DEF Begun
  <2>5. \A j \in 1 .. 0 : FALSE
    BY <2>1
  <2> HIDE DEF n
  <2> QED BY <1>7, <2>1, <2>2, <2>3, <2>4, <2>5 DEF Reads, n
<1>9. Stuck(stream, reader)
  BY <1>7 DEF Stuck, Header
<1>10. CallsAreRecords
  BY DEF ServerInit, Init, CallsAreRecords
<1> QED BY <1>1, <1>2, <1>3, <1>6, <1>8, <1>9, <1>10 DEF ServerInv, StreamOK

\* A chunk is a chunk of RpcConnection, or no record at all.
LEMMA PushStep ==
  ASSUME ServerInv, NEW m \in 1 .. left, Push(m)
  PROVE  [Next]_vars /\ ServerInv'
<1> DEFINE n == Len(stream)
           old == Len(reader.records)
           new == Len(reader'.records)
           arrived == old + 1 .. new
<1>1. /\ stream \in Seq(Fragment) /\ n \in Nat /\ End(stream, n) \in Nat
      /\ left \in 0 .. End(stream, n) /\ Came \in Nat
      /\ Came + m <= End(stream, n) /\ m \in Nat /\ left - m \in 0 .. End(stream, n)
      /\ Came + m = End(stream, n) - (left - m)
  <2>1. stream \in Seq(Fragment) /\ n \in Nat /\ left \in 0 .. End(stream, n)
    BY DEF ServerInv, StreamOK
  <2>2. End(stream, n) \in Nat
    BY <2>1, EndSteps
  <2> HIDE DEF n
  <2> QED BY <2>1, <2>2 DEF Came, n
<1>2. /\ Reads(stream, reader', Came + m) /\ Stuck(stream, reader') /\ new >= old
  <2>1. reader' = Pushed(m)
    BY DEF Push
  <2>2. Reads(stream, reader, Came)
    BY DEF ServerInv
  <2> HIDE DEF n
  <2> QED BY <1>1, <2>1, <2>2, PushedReads DEF n
<1>3. stream' = stream /\ left' = left - m /\ Came' = Came + m
  <2>1. stream' = stream /\ left' = left - m
    BY DEF Push
  <2> QED BY <1>1, <2>1 DEF Came
<1>4. Reads(stream, reader', Came') /\ StreamOK'
  BY <1>1, <1>2, <1>3 DEF StreamOK, ServerInv
<1>5. old \in Nat /\ new \in Nat /\ reader'.bad \in BOOLEAN
  <2>1. reader \in Readers(n) /\ reader' \in Readers(n)
    BY <1>2 DEF Reads, ServerInv
  <2>2. reader.records \in Seq(Seq(1 .. n)) /\ reader'.records \in Seq(Seq(1 .. n))
        /\ reader'.bad \in BOOLEAN
    BY <2>1 DEF Readers, ReadersOver
  <2> QED BY <2>2
<1>6. arrived \subseteq Calls
  <2>1. new = Cardinality(Lasts(stream, reader'.next - 1)) /\ reader'.next \in 1 .. n + 1
    BY <1>2 DEF Reads, Readers, ReadersOver
  <2>2. Lasts(stream, reader'.next - 1) \subseteq Lasts(stream, n)
    BY <1>1, <2>1 DEF Lasts
  <2>3. IsFiniteSet(Lasts(stream, n))
    <3>1. IsFiniteSet(1 .. n) /\ Lasts(stream, n) \subseteq 1 .. n
      BY FS_Interval, <1>1 DEF Lasts
    <3> QED BY <3>1, FS_Subset
  <2>4. Cardinality(Lasts(stream, n)) \in Nat /\ new <= Cardinality(Lasts(stream, n))
    BY <2>1, <2>2, <2>3, FS_Subset, FS_CardinalityType
  <2>5. arrived \subseteq 1 .. Cardinality(Lasts(stream, n))
    BY <1>5, <2>4
  <2> QED BY <2>5 DEF ServerInv, StreamOK
<1>7. \A c \in arrived : call[c] = "unsent"
  <2>1. \A c \in arrived : c \notin 1 .. old
    BY <1>5
  <2> QED BY <1>6, <2>1 DEF ServerInv, CallsAreRecords
<1>8. /\ open /\ ~paused /\ OnRecords(arrived) /\ Cardinality(arrived) <= MaxChunk
      /\ open' = ~reader'.bad /\ held' = held /\ released' = released
  BY DEF Push
<1>9. arrived \in Chunk
  BY <1>6, <1>7, <1>8 DEF Chunk
<1>10. CallsAreRecords'
  <2> SUFFICES ASSUME NEW c \in Calls, call'[c] # "unsent" PROVE c \in 1 .. new
    BY DEF CallsAreRecords
  <2>1. call'[c] = IF c \in arrived THEN "running" ELSE call[c]
    BY <1>8 DEF OnRecords
  <2>2. CASE c \in arrived
    BY <1>5, <2>2
  <2>3. CASE c \notin arrived
    <3>1. c \in 1 .. old
      BY <2>1, <2>3 DEF ServerInv, CallsAreRecords
    <3> QED BY <1>2, <1>5, <3>1
  <2> QED BY <2>2, <2>3
<1> HIDE DEF arrived, new, old, n
<1>11. [Next]_vars
  <2>1. CASE reader'.bad
    <3>1. open' = FALSE
      BY <1>5, <1>8, <2>1
    <3>2. BadRecord
      BY <1>8, <1>9, <3>1 DEF BadRecord
    <3> QED BY <3>2 DEF Next
  <2>2. CASE ~reader'.bad /\ arrived # {}
    <3>1. open' = open
      <4>1. open \in BOOLEAN
        BY DEF ServerInv, CountInv, TypeOK
      <4> QED BY <1>8, <2>2, <4>1
    <3>2. Data
      BY <1>8, <1>9, <2>2, <3>1 DEF Data
    <3> QED BY <3>2 DEF Next
  <2>3. CASE ~reader'.bad /\ arrived = {}
    <3>1. TypeOK
      BY DEF ServerInv, CountInv
    <3>2. open' = open
      BY <1>8, <2>3, <3>1 DEF TypeOK
    <3>3. call' = call
      BY <1>8, <2>3, <3>1 DEF OnRecords, TypeOK
    <3>4. inflight' = inflight
      <4>1. Cardinality({}) = 0
        BY FS_EmptySet
      <4> QED BY <1>8, <2>3, <3>1, <4>1 DEF OnRecords, TypeOK
    <3>5. paused' = paused
      BY <1>8, <2>3, <3>1, Zenon DEF OnRecords, TypeOK
    <3> QED BY <1>8, <3>2, <3>3, <3>4, <3>5 DEF vars
  <2> QED BY <1>5, <2>1, <2>2, <2>3
<1>12. CountInv'
  BY <1>11, CountStep DEF ServerInv
<1>13. Stuck(stream', reader') /\ Reads(stream', reader', Came')
  BY <1>2, <1>3, <1>4
<1> QED BY <1>4, <1>10, <1>11, <1>12, <1>13 DEF ServerInv

\* Every step keeps it, and is a step of RpcConnection or changes none of its state.
LEMMA ServerStep == ServerInv /\ [ServerNext]_serverVars => [Next]_vars /\ ServerInv'
<1> SUFFICES ASSUME ServerInv, [ServerNext]_serverVars PROVE [Next]_vars /\ ServerInv'
  OBVIOUS
<1>1. CASE \E m \in 1 .. left : Push(m)
  BY <1>1, PushStep
<1>2. ASSUME [Next]_vars, UNCHANGED streamVars,
             \A c \in Calls : call'[c] # "unsent" => call[c] # "unsent"
      PROVE  ServerInv'
  <2>1. CountInv'
    BY <1>2, CountStep DEF ServerInv
  <2>2. stream' = stream /\ left' = left /\ reader' = reader
    BY <1>2 DEF streamVars
  <2>3. Came' = Came /\ StreamOK' /\ Reads(stream, reader, Came)' /\ Stuck(stream, reader)'
    BY <2>2 DEF Came, StreamOK, ServerInv
  <2>4. CallsAreRecords'
    BY <1>2, <2>2 DEF ServerInv, CallsAreRecords
  <2> QED BY <2>1, <2>3, <2>4 DEF ServerInv
<1>3. CASE ConnectionStep
  <2>1. Next /\ UNCHANGED streamVars
    BY <1>3 DEF ConnectionStep, Next
  <2>2. call \in [Calls -> {"unsent", "running", "writing", "done"}]
    BY DEF ServerInv, CountInv, TypeOK
  <2>3. ASSUME NEW d \in Calls, call'[d] # "unsent" PROVE call[d] # "unsent"
    <3>1. CASE Destroy
      BY <2>3, <3>1 DEF Destroy
    <3>2. ASSUME NEW c \in Calls, Resolve(c) \/ Reject(c) \/ Written(c)
          PROVE  call[d] # "unsent"
      <4>1. call[c] # "unsent" /\ (d # c => call'[d] = call[d])
        BY <2>2, <3>2 DEF Resolve, Reject, Written
      <4> QED BY <2>3, <4>1
    <3> QED BY <1>3, <3>1, <3>2 DEF ConnectionStep
  <2> QED BY <1>2, <2>1, <2>3
<1>4. CASE ServerQuiet \/ UNCHANGED serverVars
  <2>1. UNCHANGED vars /\ UNCHANGED streamVars
    BY <1>4 DEF ServerQuiet, serverVars
  <2> QED BY <1>2, <2>1 DEF vars
<1> QED BY <1>1, <1>3, <1>4 DEF ServerNext

\* So it holds always.
LEMMA ServerAlways == ServerSpec => []ServerInv
BY ServerInitInv, ServerStep, PTL DEF ServerSpec

\* Behind the reader, whatever is sent and however it is cut into chunks, the connection
\* is RpcConnection.
THEOREM ServerImplementsConnection == ServerSpec => ImplementsConnection
<1>1. ServerInit => Init
  BY ServerInitInv
<1>2. ServerInv /\ [ServerNext]_serverVars => [Next]_vars
  BY ServerStep
<1> QED BY <1>1, <1>2, ServerAlways, PTL DEF ServerSpec, ImplementsConnection, Spec

\* So what holds of every connection holds of the server.
THEOREM ServerKeepsConnection ==
  ServerSpec => [](InflightExact /\ PausedWhenBusy /\ BuffersGivenBack)
<1>1. Spec => [](InflightExact /\ PausedWhenBusy /\ BuffersGivenBack)
  BY CounterIsExact, PausingHolds, BuffersReleasedOnce, PTL
<1> QED BY <1>1, ServerImplementsConnection, PTL DEF ImplementsConnection

\* The invariant says what RecordsWhole says of the fragments and the bytes that came.
LEMMA ReadsWhole == ServerInv => RecordsWhole
<1> SUFFICES ASSUME ServerInv PROVE RecordsWhole
  OBVIOUS
<1> DEFINE n == Len(stream)
           a == Came
           k == reader.next
<1>1. /\ stream \in Seq(Fragment) /\ n \in Nat /\ DOMAIN stream = 1 .. n
      /\ Reads(stream, reader, a) /\ Stuck(stream, reader)
  BY DEF ServerInv, StreamOK
<1>2. Arrived = a /\ a \in Nat
  <2>1. EndOf(n) = End(stream, n) /\ End(stream, n) \in Nat
    BY <1>1, EndIsEndOf, EndSteps
  <2> QED BY <2>1 DEF Arrived, Came, ServerInv, StreamOK
<1> HIDE DEF n, a
<1>3. /\ reader \in Readers(n) /\ k \in 1 .. n + 1 /\ reader.pending \in Nat
      /\ reader.size \in Nat /\ reader.bad \in BOOLEAN
      /\ reader.records \in Seq(Seq(1 .. n)) /\ reader.joined \in Seq(1 .. n)
  <2>1. reader \in Readers(n)
    BY <1>1 DEF Reads, n
  <2> QED BY <2>1 DEF Readers, ReadersOver
<1>4. FlattenSeq(reader.records) \o reader.joined = [j \in 1 .. reader.next - 1 |-> j]
  BY <1>1 DEF Reads, Ordered
<1>5. \A r \in ToSet(reader.records) : \A j \in DOMAIN r : stream[r[j]].last <=> j = Len(r)
  <2> SUFFICES ASSUME NEW r \in ToSet(reader.records), NEW j \in DOMAIN r
               PROVE  stream[r[j]].last <=> j = Len(r)
    OBVIOUS
  <2>1. PICK i \in 1 .. Len(reader.records) : r = reader.records[i]
    BY <1>3 DEF ToSet
  <2>2. EndsWithLast(stream, r)
    BY <1>1, <2>1 DEF Reads
  <2> QED BY <2>2 DEF EndsWithLast
<1>6. \A j \in ToSet(reader.joined) : ~stream[j].last
  BY <1>1, <1>3 DEF Reads, ToSet
<1>7. reader.pending = a - End(stream, k - 1)
  BY <1>1 DEF Reads
<1>8. ASSUME k \in 1 .. n
      PROVE  /\ End(stream, k - 1) \in Nat /\ End(stream, k) \in Nat /\ stream[k].length \in Nat
             /\ End(stream, k) = End(stream, k - 1) + Header + stream[k].length
             /\ SizeTo(stream, k) = reader.size + stream[k].length
  <2>1. k - 1 \in 0 .. n /\ k \in 0 .. n /\ (k - 1 = 0 <=> k = 1)
    BY <1>1, <1>8 DEF n
  <2>2. End(stream, k - 1) \in Nat /\ End(stream, k) \in Nat /\ stream[k].length \in Nat
    BY <1>1, <1>8, <2>1, EndSteps, FragmentTypes DEF n
  <2>3. End(stream, k) = End(stream, k - 1) + (Header + stream[k].length)
    BY <1>1, <1>8, EndSteps DEF n, Span
  <2>4. SizeTo(stream, k) = (IF k = 1 \/ stream[k - 1].last THEN 0 ELSE SizeTo(stream, k - 1))
                              + stream[k].length
    BY <1>1, <1>8, SizeSteps DEF n
  <2>5. reader.size = IF k - 1 = 0 \/ stream[k - 1].last THEN 0 ELSE SizeTo(stream, k - 1)
    BY <1>1 DEF Reads, Begun
  <2> QED BY <2>1, <2>2, <2>3, <2>4, <2>5 DEF Header
<1>9. reader.bad \/ k > n \/ End(stream, k) > a
  <2> SUFFICES ASSUME ~reader.bad, k \in 1 .. n PROVE End(stream, k) > a
    BY <1>1, <1>3 DEF n
  <2>1. reader.pending < Header + stream[k].length
    <3>1. CASE reader.pending < Header
      BY <1>3, <1>8, <3>1 DEF Header
    <3>2. CASE ~(reader.pending < Header)
      BY <1>1, <3>2 DEF Stuck
    <3> QED BY <3>1, <3>2
  <2> QED BY <1>2, <1>7, <1>8, <2>1 DEF Header
<1>10. reader.bad <=> \E j \in 1 .. n : SizeTo(stream, j) > MaxRecord
                                         /\ End(stream, j - 1) + Header <= a
  <2>1. ASSUME reader.bad
        PROVE  \E j \in 1 .. n : SizeTo(stream, j) > MaxRecord /\ End(stream, j - 1) + Header <= a
    <3>1. k <= n /\ SizeTo(stream, k) > MaxRecord /\ End(stream, k - 1) + Header <= a
      BY <1>1, <2>1 DEF Reads, n
    <3>2. k \in 1 .. n
      BY <1>1, <1>3, <3>1 DEF n
    <3> QED BY <3>1, <3>2
  <2>2. ASSUME ~reader.bad, NEW j \in 1 .. n, SizeTo(stream, j) > MaxRecord,
               End(stream, j - 1) + Header <= a
        PROVE  FALSE
    <3>1. ~(SizeTo(stream, j) <= MaxRecord)
      <4>1. SizeTo(stream, j) \in Nat
        BY <1>1, SizeSteps DEF n
      <4> QED BY <2>2, <4>1, ServerAssumption
    <3>2. j >= k
      <4>1. j \notin 1 .. k - 1
        BY <1>1, <3>1 DEF Reads
      <4> QED BY <1>1, <1>3, <4>1 DEF n
    <3>3. k \in 1 .. n
      BY <1>1, <1>3, <3>2 DEF n
    <3>4. CASE j = k
      <4>1. ~(reader.pending < Header)
        BY <1>2, <1>3, <1>7, <1>8, <2>2, <3>3, <3>4 DEF Header
      <4>2. reader.size + stream[k].length <= MaxRecord
        BY <1>1, <2>2, <4>1 DEF Stuck
      <4> QED BY <1>8, <3>1, <3>3, <3>4, <4>2
    <3>5. CASE j # k
      <4>1. k \in 0 .. n /\ j - 1 \in k .. n
        BY <1>1, <1>3, <3>2, <3>3, <3>5 DEF n
      <4>2. End(stream, k) <= End(stream, j - 1)
        BY <1>1, <4>1, EndsGrow DEF n
      <4>3. End(stream, k) > a
        BY <1>1, <1>3, <1>9, <2>2, <3>3 DEF n
      <4>4. End(stream, j - 1) \in Nat
        <5>1. j - 1 \in 0 .. n
          BY <1>1 DEF n
        <5> QED BY <1>1, <5>1, EndSteps DEF n
      <4> QED BY <1>2, <1>8, <2>2, <3>3, <4>2, <4>3, <4>4 DEF Header
    <3> QED BY <3>4, <3>5
  <2> QED BY <2>1, <2>2
<1>11. /\ reader.bad \/ reader.next > Len(stream) \/ EndOf(reader.next) > Arrived
       /\ reader.bad <=> \E j \in DOMAIN stream : SizeAt(j) > MaxRecord /\ EndOf(j - 1) + Header <= Arrived
  BY <1>1, <1>2, <1>9, <1>10, EndIsEndOf DEF n
<1> QED BY <1>4, <1>5, <1>6, <1>11 DEF RecordsWhole

\* Of every stream, however chunks cut it, every record arrives whole, in order and once,
\* and a record that is too long ends the connection as soon as its header tells.
THEOREM RecordsDelivered == ServerSpec => []RecordsWhole
BY ServerAlways, ReadsWhole, PTL

-----------------------------------------------------------------------------
\* Listings.  The pages of PagedListing are filled by sums as well, those of the sections
\* above.

\* The entries of s, and those after its first p; a list has no entry twice.
All(s) == {s[k] : k \in 1 .. Len(s)}
Rest(s, p) == {s[k] : k \in p + 1 .. Len(s)}
List(s) == s \in Seq(Entries) /\ \A i, j \in 1 .. Len(s) : s[i] = s[j] => i = j

\* What was there all along was listed or comes behind the reader's place p,
\* and none of it was listed twice or comes again.
Whole(sn, st, s, p) == st \subseteq {sn[i] : i \in 1 .. Len(sn)} \cup Rest(s, p)
Once(sn, st, s, p) ==
  /\ \A i, j \in 1 .. Len(sn) : sn[i] = sn[j] /\ sn[i] \in st => i = j
  /\ \A i \in 1 .. Len(sn) : sn[i] \in st => sn[i] \notin Rest(s, p)

\* An entry goes, and what the reader has before it is the same or less.
LEMMA EntryRemoved ==
  ASSUME NEW s, List(s), NEW i \in 1 .. Len(s), NEW p \in Nat
  PROVE  LET r == RemoveAt(s, i) IN
         /\ List(r) /\ Len(r) = Len(s) - 1
         /\ All(r) = All(s) \ {s[i]}
         /\ Rest(r, p) \subseteq Rest(s, p)
         /\ i > p => Rest(s, p) \ {s[i]} \subseteq Rest(r, p)
<1> DEFINE r == RemoveAt(s, i)
           n == Len(s)
<1>1. s \in Seq(Entries) /\ n \in Nat /\ i \in 1 .. n /\ \A k \in 1 .. n : s[k] \in Entries
  BY DEF List
<1>2. PICK a, b : a = SubSeq(s, 1, i - 1) /\ b = SubSeq(s, i + 1, n)
  OBVIOUS
<1>3. r = a \o b
  BY <1>2 DEF RemoveAt
<1> HIDE DEF r, n
<1>4. /\ a \in Seq(Entries) /\ Len(a) = i - 1 /\ \A k \in 1 .. i - 1 : a[k] = s[k]
      /\ b \in Seq(Entries) /\ Len(b) = n - i /\ \A k \in 1 .. n - i : b[k] = s[k + i]
  BY <1>1, <1>2 DEF n
<1>5. /\ a \o b \in Seq(Entries) /\ Len(a \o b) = Len(a) + Len(b)
      /\ \A k \in 1 .. Len(a) + Len(b) : (a \o b)[k] = IF k <= Len(a) THEN a[k] ELSE b[k - Len(a)]
  <2>1. a \in Seq(Entries) /\ b \in Seq(Entries)
    BY <1>4
  <2> QED BY ONLY <2>1
<1>6. r \in Seq(Entries) /\ Len(r) = n - 1
  BY <1>1, <1>3, <1>4, <1>5
<1>7. \A k \in 1 .. n - 1 : r[k] = IF k < i THEN s[k] ELSE s[k + 1]
  <2> SUFFICES ASSUME NEW k \in 1 .. n - 1 PROVE r[k] = IF k < i THEN s[k] ELSE s[k + 1]
    OBVIOUS
  <2>1. CASE k < i
    BY <1>1, <1>3, <1>4, <1>5, <2>1
  <2>2. CASE ~(k < i)
    <3>1. r[k] = b[k - (i - 1)]
      BY <1>1, <1>3, <1>4, <1>5, <2>2
    <3>2. k - (i - 1) \in 1 .. n - i /\ (k - (i - 1)) + i = k + 1
      BY <1>1, <2>2
    <3> QED BY <1>4, <2>2, <3>1, <3>2
  <2> QED BY <2>1, <2>2
<1>8. \A j, k \in 1 .. n : s[j] = s[k] => j = k
  BY DEF List, n
<1>9. \A k \in 1 .. n : k # i => \E j \in 1 .. n - 1 : /\ r[j] = s[k]
                                                       /\ j = IF k < i THEN k ELSE k - 1
  <2> SUFFICES ASSUME NEW k \in 1 .. n, k # i
               PROVE  \E j \in 1 .. n - 1 : r[j] = s[k] /\ j = IF k < i THEN k ELSE k - 1
    OBVIOUS
  <2>1. CASE k < i
    <3>1. k \in 1 .. n - 1
      BY <1>1, <2>1
    <3> QED BY <1>7, <2>1, <3>1
  <2>2. CASE ~(k < i)
    <3>1. k - 1 \in 1 .. n - 1 /\ ~(k - 1 < i) /\ k - 1 + 1 = k
      BY <1>1, <2>2
    <3> QED BY <1>7, <2>2, <3>1
  <2> QED BY <2>1, <2>2
<1>10. \A j \in 1 .. n - 1 : \E k \in 1 .. n : /\ r[j] = s[k] /\ k # i
                                              /\ k = IF j < i THEN j ELSE j + 1
  BY <1>1, <1>7
<1>11. List(r)
  <2> SUFFICES ASSUME NEW j \in 1 .. n - 1, NEW k \in 1 .. n - 1, r[j] = r[k] PROVE j = k
    BY <1>6 DEF List
  <2>1. PICK x \in 1 .. n : r[j] = s[x] /\ x = IF j < i THEN j ELSE j + 1
    BY <1>10
  <2>2. PICK y \in 1 .. n : r[k] = s[y] /\ y = IF k < i THEN k ELSE k + 1
    BY <1>10
  <2>3. x = y
    BY <1>8, <2>1, <2>2
  <2> QED BY <1>1, <2>1, <2>2, <2>3
<1>12. All(r) = All(s) \ {s[i]}
  <2>1. \A k \in 1 .. n : s[k] # s[i] => \E j \in 1 .. n - 1 : r[j] = s[k]
    BY <1>9
  <2>2. \A j \in 1 .. n - 1 : \E k \in 1 .. n : r[j] = s[k] /\ s[k] # s[i]
    BY <1>1, <1>8, <1>10
  <2>3. ASSUME NEW k \in 1 .. n, s[k] # s[i] PROVE s[k] \in {r[j] : j \in 1 .. n - 1}
    BY <2>1, <2>3
  <2>4. ASSUME NEW j \in 1 .. n - 1 PROVE r[j] \in {s[k] : k \in 1 .. n} \ {s[i]}
    BY <2>2
  <2> QED BY <1>6, <2>3, <2>4 DEF All, n
<1>13. Rest(r, p) \subseteq Rest(s, p)
  <2> SUFFICES ASSUME NEW j \in p + 1 .. n - 1 PROVE r[j] \in Rest(s, p)
    BY <1>6 DEF Rest
  <2>1. j \in 1 .. n - 1
    BY <1>1
  <2>2. PICK k \in 1 .. n : r[j] = s[k] /\ k = IF j < i THEN j ELSE j + 1
    BY <1>10, <2>1
  <2>3. k \in p + 1 .. n
    BY <1>1, <2>1, <2>2
  <2> QED BY <2>2, <2>3 DEF Rest, n
<1>14. ASSUME i > p PROVE Rest(s, p) \ {s[i]} \subseteq Rest(r, p)
  <2> SUFFICES ASSUME NEW k \in p + 1 .. n, k # i PROVE s[k] \in Rest(r, p)
    BY DEF Rest, n
  <2>1. k \in 1 .. n
    BY <1>1
  <2>2. PICK j \in 1 .. n - 1 : r[j] = s[k] /\ j = IF k < i THEN k ELSE k - 1
    BY <1>9, <2>1
  <2>3. j \in p + 1 .. n - 1
    BY <1>1, <1>14, <2>1, <2>2
  <2> QED BY <1>6, <2>2, <2>3 DEF Rest
<1> QED BY <1>6, <1>11, <1>12, <1>13, <1>14 DEF r, n

\* An entry comes.
LEMMA EntryAdded ==
  ASSUME NEW s, List(s), NEW i \in 1 .. Len(s) + 1, NEW e \in Entries,
         e \notin All(s), NEW p \in Nat
  PROVE  LET r == InsertAt(s, i, e) IN
         /\ List(r) /\ Len(r) = Len(s) + 1
         /\ All(r) = All(s) \cup {e}
         /\ Rest(s, p) \subseteq Rest(r, p)
         /\ i > p => Rest(r, p) \subseteq Rest(s, p) \cup {e}
<1> DEFINE r == InsertAt(s, i, e)
           n == Len(s)
<1>1. s \in Seq(Entries) /\ n \in Nat /\ i \in 1 .. n + 1 /\ \A k \in 1 .. n : s[k] \in Entries
  BY DEF List
<1>2. PICK a, b : a = SubSeq(s, 1, i - 1) /\ b = SubSeq(s, i, n)
  OBVIOUS
<1>3. r = (a \o <<e>>) \o b
  BY <1>2 DEF InsertAt
<1> HIDE DEF r, n
<1>4. /\ a \in Seq(Entries) /\ Len(a) = i - 1 /\ \A k \in 1 .. i - 1 : a[k] = s[k]
      /\ b \in Seq(Entries) /\ Len(b) = n - i + 1 /\ \A k \in 1 .. n - i + 1 : b[k] = s[k + i - 1]
  BY <1>1, <1>2 DEF n
<1>5. PICK c : c = a \o <<e>>
  OBVIOUS
<1>6. /\ c \in Seq(Entries) /\ Len(c) = i
      /\ \A k \in 1 .. i : c[k] = IF k < i THEN s[k] ELSE e
  <2>1. /\ c \in Seq(Entries) /\ Len(c) = Len(a) + 1
        /\ \A k \in 1 .. Len(a) + 1 : c[k] = IF k <= Len(a) THEN a[k] ELSE e
    BY <1>4, <1>5
  <2> QED BY <1>1, <1>4, <2>1
<1>7. /\ c \o b \in Seq(Entries) /\ Len(c \o b) = Len(c) + Len(b)
      /\ \A k \in 1 .. Len(c) + Len(b) : (c \o b)[k] = IF k <= Len(c) THEN c[k] ELSE b[k - Len(c)]
  <2>1. b \in Seq(Entries) /\ c \in Seq(Entries)
    BY <1>4, <1>6
  <2> QED BY ONLY <2>1
<1>8. r \in Seq(Entries) /\ Len(r) = n + 1
  <2>1. r = c \o b
    BY <1>5, <1>3
  <2> QED BY <1>1, <1>4, <1>6, <1>7, <2>1
<1>9. \A k \in 1 .. n + 1 : r[k] = IF k < i THEN s[k] ELSE IF k = i THEN e ELSE s[k - 1]
  <2> SUFFICES ASSUME NEW k \in 1 .. n + 1
               PROVE  r[k] = IF k < i THEN s[k] ELSE IF k = i THEN e ELSE s[k - 1]
    OBVIOUS
  <2>1. CASE k <= i
    BY <1>1, <1>5, <1>3, <1>4, <1>6, <1>7, <2>1
  <2>2. CASE k > i
    <3>1. r[k] = b[k - i]
      <4>1. Len(c) = i /\ k \in 1 .. Len(c) + Len(b) /\ ~(k <= Len(c))
        BY <1>1, <1>4, <1>6, <2>2
      <4> QED BY <1>5, <1>3, <1>7, <4>1
    <3>2. k - i \in 1 .. n - i + 1 /\ (k - i) + i - 1 = k - 1
      BY <1>1, <2>2
    <3> QED BY <1>1, <1>4, <2>2, <3>1, <3>2
  <2> QED BY <1>1, <2>1, <2>2
<1>10. \A j, k \in 1 .. n : s[j] = s[k] => j = k
  BY DEF List, n
<1>11. \A k \in 1 .. n : s[k] # e
  BY DEF All, n
<1>12. \A k \in 1 .. n : \E j \in 1 .. n + 1 : r[j] = s[k] /\ j = IF k < i THEN k ELSE k + 1
  <2> SUFFICES ASSUME NEW k \in 1 .. n
               PROVE  \E j \in 1 .. n + 1 : r[j] = s[k] /\ j = IF k < i THEN k ELSE k + 1
    OBVIOUS
  <2>1. CASE k < i
    <3>1. k \in 1 .. n + 1
      BY <1>1
    <3> QED BY <1>9, <2>1, <3>1
  <2>2. CASE ~(k < i)
    <3>1. k + 1 \in 1 .. n + 1 /\ ~(k + 1 < i) /\ k + 1 # i /\ k + 1 - 1 = k
      BY <1>1, <2>2
    <3> QED BY <1>9, <2>2, <3>1
  <2> QED BY <2>1, <2>2
<1>13. \A j \in 1 .. n + 1 :
        \/ j = i /\ r[j] = e
        \/ \E k \in 1 .. n : r[j] = s[k] /\ k = IF j < i THEN j ELSE j - 1
  <2> SUFFICES ASSUME NEW j \in 1 .. n + 1, j # i
               PROVE  \E k \in 1 .. n : r[j] = s[k] /\ k = IF j < i THEN j ELSE j - 1
    BY <1>9
  <2>1. CASE j < i
    <3>1. j \in 1 .. n
      BY <1>1, <2>1
    <3> QED BY <1>9, <2>1, <3>1
  <2>2. CASE ~(j < i)
    <3>1. j - 1 \in 1 .. n
      BY <1>1, <2>2
    <3> QED BY <1>9, <2>2, <3>1
  <2> QED BY <2>1, <2>2
<1>14. List(r)
  <2> SUFFICES ASSUME NEW j \in 1 .. n + 1, NEW k \in 1 .. n + 1, r[j] = r[k] PROVE j = k
    BY <1>8 DEF List
  <2>0. \A l \in 1 .. n + 1 : l # i => r[l] # e
    BY <1>11, <1>13
  <2>1. CASE j = i \/ k = i
    <3>1. r[i] = e
      BY <1>1, <1>9
    <3> QED BY <2>0, <2>1, <3>1
  <2>2. CASE j # i /\ k # i
    <3>1. PICK x \in 1 .. n : r[j] = s[x] /\ x = IF j < i THEN j ELSE j - 1
      BY <1>13, <2>2
    <3>2. PICK y \in 1 .. n : r[k] = s[y] /\ y = IF k < i THEN k ELSE k - 1
      BY <1>13, <2>2
    <3>3. x = y
      BY <1>10, <3>1, <3>2
    <3> QED BY <1>1, <2>2, <3>1, <3>2, <3>3
  <2> QED BY <2>1, <2>2
<1>15. All(r) = All(s) \cup {e}
  <2>1. r[i] = e /\ i \in 1 .. n + 1
    BY <1>1, <1>9
  <2>2. ASSUME NEW j \in 1 .. n + 1 PROVE r[j] \in All(s) \cup {e}
    BY <1>13 DEF All, n
  <2>3. ASSUME NEW k \in 1 .. n PROVE s[k] \in All(r)
    BY <1>8, <1>12 DEF All
  <2>4. e \in All(r)
    BY <1>8, <2>1 DEF All
  <2>5. \A x \in All(r) : \E j \in 1 .. n + 1 : x = r[j]
    BY <1>8 DEF All
  <2>6. \A x \in All(s) : \E k \in 1 .. n : x = s[k]
    BY DEF All, n
  <2> QED BY <2>2, <2>3, <2>4, <2>5, <2>6
<1>16. Rest(s, p) \subseteq Rest(r, p)
  <2> SUFFICES ASSUME NEW k \in p + 1 .. n PROVE s[k] \in Rest(r, p)
    BY DEF Rest, n
  <2>1. k \in 1 .. n
    BY <1>1
  <2>2. PICK j \in 1 .. n + 1 : r[j] = s[k] /\ j = IF k < i THEN k ELSE k + 1
    BY <1>12, <2>1
  <2>3. j \in p + 1 .. n + 1
    BY <1>1, <2>1, <2>2
  <2> QED BY <1>8, <2>2, <2>3 DEF Rest
<1>17. ASSUME i > p PROVE Rest(r, p) \subseteq Rest(s, p) \cup {e}
  <2> SUFFICES ASSUME NEW j \in p + 1 .. n + 1, r[j] # e PROVE r[j] \in Rest(s, p)
    BY <1>8 DEF Rest
  <2>1. j \in 1 .. n + 1
    BY <1>1
  <2>2. PICK k \in 1 .. n : r[j] = s[k] /\ k = IF j < i THEN j ELSE j - 1
    BY <1>13, <2>1
  <2>3. j # i
    BY <1>9, <2>1
  <2>4. k \in p + 1 .. n
    BY <1>1, <1>17, <2>1, <2>2, <2>3
  <2> QED BY <2>2, <2>4 DEF Rest, n
<1> QED BY <1>8, <1>14, <1>15, <1>16, <1>17 DEF r, n

\* A reply lists chunk: the entries of s between the places p and q, and dots.
Takes(chunk, s, p, q) ==
  /\ chunk \in Seq(Entries \cup {".", ".."})
  /\ \E off \in Int : \A i \in 1 .. Len(chunk) :
       chunk[i] \in Entries => off + i \in p + 1 .. q /\ off + i \in 1 .. Len(s) /\ chunk[i] = s[off + i]
  /\ \A k \in p + 1 .. q : k \in 1 .. Len(s) => \E i \in 1 .. Len(chunk) : chunk[i] = s[k]

\* A reply that takes the entries between two places keeps what was listed whole and
\* once, with the second place for the first.
LEMMA TakesKeeps ==
  ASSUME NEW s, List(s), NEW sn \in Seq(Entries \cup {".", ".."}), NEW st \in SUBSET Entries,
         NEW p \in Nat, NEW q \in Nat, p <= q, NEW chunk, Takes(chunk, s, p, q)
  PROVE  /\ sn \o chunk \in Seq(Entries \cup {".", ".."})
         /\ Whole(sn, st, s, p) => Whole(sn \o chunk, st, s, q)
         /\ Once(sn, st, s, p) => Once(sn \o chunk, st, s, q)
<1> DEFINE r == sn \o chunk
           n == Len(sn)
           m == Len(chunk)
<1>1. chunk \in Seq(Entries \cup {".", ".."}) /\ n \in Nat /\ m \in Nat
  BY DEF Takes
<1>2. /\ r \in Seq(Entries \cup {".", ".."}) /\ Len(r) = n + m
      /\ \A i \in 1 .. n + m : r[i] = IF i <= n THEN sn[i] ELSE chunk[i - n]
  BY <1>1
<1>3. PICK off \in Int : \A i \in 1 .. m :
        chunk[i] \in Entries => /\ off + i \in p + 1 .. q /\ off + i \in 1 .. Len(s)
                                /\ chunk[i] = s[off + i]
  BY DEF Takes
<1>4. \A k \in p + 1 .. q : k \in 1 .. Len(s) => \E i \in 1 .. m : chunk[i] = s[k]
  BY DEF Takes
<1>5. /\ Len(s) \in Nat /\ \A i, j \in 1 .. Len(s) : s[i] = s[j] => i = j
      /\ \A i \in 1 .. Len(s) : s[i] \in Entries
  BY DEF List
<1> HIDE DEF r, n, m
<1>6. ASSUME Whole(sn, st, s, p) PROVE Whole(r, st, s, q)
  <2> SUFFICES ASSUME NEW x \in st PROVE (\E i \in 1 .. n + m : r[i] = x) \/ x \in Rest(s, q)
    BY <1>2 DEF Whole
  <2>1. CASE \E i \in 1 .. n : sn[i] = x
    <3>1. PICK i \in 1 .. n : sn[i] = x
      BY <2>1
    <3>2. i \in 1 .. n + m /\ i <= n
      BY <1>1, <3>1
    <3> QED BY <1>2, <3>1, <3>2
  <2>2. CASE x \in Rest(s, p)
    <3>1. PICK k \in p + 1 .. Len(s) : x = s[k]
      BY <2>2 DEF Rest
    <3>2. CASE k <= q
      <4>1. k \in p + 1 .. q /\ k \in 1 .. Len(s)
        BY <1>5, <3>1, <3>2
      <4>2. PICK i \in 1 .. m : chunk[i] = s[k]
        BY <1>4, <4>1
      <4>3. n + i \in 1 .. n + m /\ ~(n + i <= n) /\ (n + i) - n = i
        BY <1>1, <4>2
      <4>4. r[n + i] = chunk[i]
        BY <1>2, <4>3
      <4> QED BY <3>1, <4>2, <4>3, <4>4
    <3>3. CASE ~(k <= q)
      <4>1. k \in q + 1 .. Len(s)
        BY <1>5, <3>1, <3>3
      <4> QED BY <3>1, <4>1 DEF Rest
    <3> QED BY <3>2, <3>3
  <2> QED BY <1>6, <2>1, <2>2 DEF Whole, n
<1>7. ASSUME Once(sn, st, s, p) PROVE Once(r, st, s, q)
  <2>1. ASSUME NEW i \in 1 .. m, chunk[i] \in st
        PROVE  /\ off + i \in p + 1 .. q /\ off + i \in 1 .. Len(s) /\ chunk[i] = s[off + i]
               /\ chunk[i] \in Rest(s, p)
    <3>1. off + i \in p + 1 .. q /\ off + i \in 1 .. Len(s) /\ chunk[i] = s[off + i]
      BY <1>3, <2>1
    <3>2. off + i \in p + 1 .. Len(s)
      BY <1>5, <3>1
    <3> QED BY <3>1, <3>2 DEF Rest
  <2>2. \A i \in 1 .. n : sn[i] \in st => sn[i] \notin Rest(s, p)
    BY <1>7 DEF Once, n
  <2>3. \A i, j \in 1 .. n : sn[i] = sn[j] /\ sn[i] \in st => i = j
    BY <1>7 DEF Once, n
  <2>4. ASSUME NEW i \in 1 .. n + m
        PROVE  \/ i \in 1 .. n /\ r[i] = sn[i]
               \/ i - n \in 1 .. m /\ r[i] = chunk[i - n]
    BY <1>1, <1>2
  <2>5. ASSUME NEW i \in 1 .. n + m, NEW j \in 1 .. n + m, r[i] = r[j], r[i] \in st
        PROVE  i = j
    <3>1. CASE i \in 1 .. n /\ r[i] = sn[i] /\ j \in 1 .. n /\ r[j] = sn[j]
      BY <2>3, <2>5, <3>1
    <3>2. CASE i \in 1 .. n /\ r[i] = sn[i] /\ j - n \in 1 .. m /\ r[j] = chunk[j - n]
      BY <2>1, <2>2, <2>5, <3>2
    <3>3. CASE j \in 1 .. n /\ r[j] = sn[j] /\ i - n \in 1 .. m /\ r[i] = chunk[i - n]
      BY <2>1, <2>2, <2>5, <3>3
    <3>4. CASE i - n \in 1 .. m /\ r[i] = chunk[i - n] /\ j - n \in 1 .. m /\ r[j] = chunk[j - n]
      <4>1. off + (i - n) = off + (j - n)
        <5>1. PICK k, l : k = off + (i - n) /\ l = off + (j - n)
          OBVIOUS
        <5>2. k \in 1 .. Len(s) /\ r[i] = s[k]
          BY <2>1, <2>5, <3>4, <5>1
        <5>3. l \in 1 .. Len(s) /\ r[j] = s[l]
          BY <2>1, <2>5, <3>4, <5>1
        <5> QED BY <1>5, <2>5, <5>1, <5>2, <5>3
      <4> QED BY <1>1, <4>1
    <3> QED BY <2>4, <3>1, <3>2, <3>3, <3>4
  <2>6. Rest(s, q) \subseteq Rest(s, p)
    <3> SUFFICES ASSUME NEW k \in q + 1 .. Len(s) PROVE k \in p + 1 .. Len(s)
      BY DEF Rest
    <3> QED BY <1>5
  <2>7. ASSUME NEW i \in 1 .. n + m, r[i] \in st PROVE r[i] \notin Rest(s, q)
    <3>1. CASE i \in 1 .. n /\ r[i] = sn[i]
      BY <2>2, <2>6, <2>7, <3>1
    <3>2. CASE i - n \in 1 .. m /\ r[i] = chunk[i - n]
      <4>1. PICK k : k = off + (i - n)
        OBVIOUS
      <4>2. k \in p + 1 .. q /\ k \in 1 .. Len(s) /\ r[i] = s[k]
        BY <2>1, <2>7, <3>2, <4>1
      <4>3. ASSUME NEW l \in q + 1 .. Len(s) PROVE s[l] # s[k]
        <5>1. l \in 1 .. Len(s) /\ l # k
          BY <1>5, <4>2
        <5> QED BY <1>5, <4>2, <5>1
      <4> QED BY <4>2, <4>3 DEF Rest
    <3> QED BY <2>4, <3>1, <3>2
  <2> QED BY <1>2, <2>5, <2>7 DEF Once
<1> QED BY <1>2, <1>6, <1>7 DEF r

\* Where one reply ends for NFS,
LEMMA TakesOfDir ==
  ASSUME NEW s, List(s), NEW p \in Nat, NEW q \in p .. Len(s)
  PROVE  Takes(SubSeq(s, p + 1, q), s, p, q)
<1>1. s \in Seq(Entries) /\ Len(s) \in Nat
  BY DEF List
<1>2. PICK c : c = SubSeq(s, p + 1, q)
  OBVIOUS
<1>3. c \in Seq(Entries) /\ Len(c) = q - p /\ \A i \in 1 .. q - p : c[i] = s[p + i]
  BY <1>1, <1>2
<1>4. c \in Seq(Entries \cup {".", ".."})
  <2>1. \A i \in 1 .. q - p : c[i] \in Entries
    BY <1>3
  <2> QED BY <1>3, <2>1
<1>5. \A i \in 1 .. Len(c) : p + i \in p + 1 .. q /\ p + i \in 1 .. Len(s) /\ c[i] = s[p + i]
  BY <1>1, <1>3
<1>6. ASSUME NEW k \in p + 1 .. q PROVE \E i \in 1 .. Len(c) : c[i] = s[k]
  <2>1. k - p \in 1 .. q - p /\ p + (k - p) = k
    OBVIOUS
  <2> QED BY <1>3, <2>1
<1>7. \E off \in Int : \A i \in 1 .. Len(c) :
        c[i] \in Entries => /\ off + i \in p + 1 .. q /\ off + i \in 1 .. Len(s)
                            /\ c[i] = s[off + i]
  <2>1. p \in Int
    OBVIOUS
  <2> QED BY <1>5, <2>1
<1>8. Takes(c, s, p, q)
  BY <1>4, <1>6, <1>7 DEF Takes
<1> QED BY <1>2, <1>8

\* and for FUSE, which lists "." and ".." first.
Past(c) == IF c < 2 THEN 0 ELSE c - 2
LEMMA TakesOfListed ==
  ASSUME NEW s, List(s), {".", ".."} \cap Entries = {}, NEW c \in Nat,
         NEW kept \in c + 1 .. Len(<<".", "..">> \o s)
  PROVE  /\ Takes(SubSeq(<<".", "..">> \o s, c + 1, kept), s, Past(c), Past(kept))
         /\ Past(c) \in Nat /\ Past(kept) \in Nat /\ Past(c) <= Past(kept)
<1>1. s \in Seq(Entries) /\ Len(s) \in Nat
  BY DEF List
<1>2. PICK d : d = <<".", "..">> \o s
  OBVIOUS
<1>3. /\ d \in Seq(Entries \cup {".", ".."}) /\ Len(d) = Len(s) + 2
      /\ d[1] = "." /\ d[2] = ".." /\ \A i \in 3 .. Len(s) + 2 : d[i] = s[i - 2]
  <2>1. PICK T : T = Entries \cup {".", ".."}
    OBVIOUS
  <2>2. s \in Seq(T)
    BY <1>1, <2>1
  <2>3. PICK h : h = <<".", "..">>
    OBVIOUS
  <2>4. h \in Seq(T) /\ Len(h) = 2 /\ h[1] = "." /\ h[2] = ".."
    BY <2>1, <2>3
  <2>5. /\ h \o s \in Seq(T) /\ Len(h \o s) = Len(h) + Len(s)
        /\ \A i \in 1 .. Len(h) + Len(s) : (h \o s)[i] = IF i <= Len(h) THEN h[i] ELSE s[i - Len(h)]
    <3>1. h \in Seq(T) /\ s \in Seq(T)
      BY <2>2, <2>4
    <3> QED BY ONLY <3>1
  <2>6. d = h \o s
    BY <1>2, <2>3
  <2> QED BY <1>1, <2>1, <2>4, <2>5, <2>6
<1>4. PICK e : e = SubSeq(d, c + 1, kept)
  OBVIOUS
<1>5. kept \in c + 1 .. Len(d)
  BY <1>2
<1>6. /\ e \in Seq(Entries \cup {".", ".."}) /\ Len(e) = kept - c
      /\ \A i \in 1 .. kept - c : e[i] = d[c + i]
  <2>1. PICK T : T = Entries \cup {".", ".."}
    OBVIOUS
  <2>2. d \in Seq(T) /\ Len(d) \in Nat
    BY <1>1, <1>3, <2>1
  <2>3. e \in Seq(T) /\ Len(e) = kept - c /\ \A i \in 1 .. kept - c : e[i] = d[c + i]
    BY ONLY <1>4, <1>5, <2>2, c \in Nat
  <2> QED BY <2>1, <2>3
<1>7. ASSUME NEW i \in 1 .. Len(e), e[i] \in Entries
      PROVE  /\ (c - 2) + i \in Past(c) + 1 .. Past(kept)
             /\ (c - 2) + i \in 1 .. Len(s) /\ e[i] = s[(c - 2) + i]
  <2>1. c + i \in 1 .. Len(s) + 2 /\ e[i] = d[c + i] /\ i >= 1 /\ c + i <= kept
    BY <1>1, <1>3, <1>5, <1>6
  <2>2. c + i >= 3
    BY <1>3, <1>7, <2>1
  <2>3. d[c + i] = s[(c + i) - 2] /\ (c + i) - 2 = (c - 2) + i
    BY <1>3, <2>1, <2>2
  <2> QED BY <1>1, <2>1, <2>2, <2>3 DEF Past
<1>8. ASSUME NEW k \in Past(c) + 1 .. Past(kept), k \in 1 .. Len(s)
      PROVE  \E i \in 1 .. Len(e) : e[i] = s[k]
  <2>1. k + 2 - c \in 1 .. kept - c /\ c + (k + 2 - c) = k + 2 /\ k + 2 \in 3 .. Len(s) + 2
    BY <1>1, <1>5, <1>8 DEF Past
  <2>2. e[k + 2 - c] = d[k + 2] /\ d[k + 2] = s[k + 2 - 2] /\ k + 2 - 2 = k
    BY <1>3, <1>6, <2>1
  <2> QED BY <1>6, <2>1, <2>2
<1>9. Takes(e, s, Past(c), Past(kept))
  <2>1. c - 2 \in Int
    OBVIOUS
  <2> QED BY <1>6, <1>7, <1>8, <2>1 DEF Takes
<1>10. Past(c) \in Nat /\ Past(kept) \in Nat /\ Past(c) <= Past(kept)
  BY <1>1, <1>3, <1>5 DEF Past
<1> QED BY <1>2, <1>4, <1>9, <1>10

\* Of two sums over a piece of the numbers, the one of the smaller weights is smaller.
LEMMA SumsOrdered ==
  ASSUME NEW n \in Nat, NEW v \in [1 .. n -> Nat], NEW w \in [1 .. n -> Nat],
         \A j \in 1 .. n : v[j] <= w[j], NEW f, SumsUp(f, n, v), NEW g, SumsUp(g, n, w),
         NEW a \in 0 .. n
  PROVE  \A b \in a .. n : f[a + 1 .. b] <= g[a + 1 .. b]
<1> DEFINE S == {m \in 0 .. n - a : f[a + 1 .. a + m] <= g[a + 1 .. a + m]}
<1>1. 0 \in S
  <2>1. a + 1 .. a + 0 = {} /\ 0 \in 0 .. n - a
    OBVIOUS
  <2>2. f[{}] = 0 /\ g[{}] = 0
    BY DEF SumsUp
  <2> QED BY <2>1, <2>2
<1>2. ASSUME NEW m \in 1 .. n - a, m - 1 \in S PROVE m \in S
  <2>1. PICK D, E : D = a + 1 .. a + m /\ E = a + 1 .. a + (m - 1)
    OBVIOUS
  <2>2. /\ D \in SUBSET (1 .. n) /\ E \in SUBSET (1 .. n) /\ a + m \in D /\ a + m \in 1 .. n
        /\ D \ {a + m} = E
    <3>1. /\ \A i \in D : i \in 1 .. n /\ (i # a + m => i \in E)
          /\ \A i \in E : i \in 1 .. n /\ i \in D /\ i # a + m
          /\ a + m \in D /\ a + m \in 1 .. n
      BY <2>1
    <3> QED BY <3>1
  <2>3. f[D] = v[a + m] + f[E] /\ g[D] = w[a + m] + g[E]
    BY <2>2 DEF SumsUp
  <2>4. f[E] \in Nat /\ g[E] \in Nat /\ v[a + m] \in Nat /\ w[a + m] \in Nat /\ v[a + m] <= w[a + m]
    BY <2>2 DEF SumsUp
  <2>5. f[E] <= g[E]
    BY <1>2, <2>1
  <2>6. f[D] <= g[D]
    BY <2>3, <2>4, <2>5
  <2> QED BY <2>1, <2>6
<1> HIDE DEF S
<1>3. 0 .. n - a \subseteq S
  <2>1. n - a \in Nat
    OBVIOUS
  <2> QED BY <1>1, <1>2, <2>1, InductTo
<1>4. ASSUME NEW b \in a .. n PROVE f[a + 1 .. b] <= g[a + 1 .. b]
  <2>1. b - a \in 0 .. n - a /\ a + (b - a) = b
    OBVIOUS
  <2> QED BY <1>3, <2>1 DEF S
<1> QED BY <1>4

\* The bytes counted for the entries at some places, and those they are encoded in.
Taken(i) == EntryBytes(dir[i])
Sent(i) ==
  4 + 8 + (4 + Padded(NameBytes[dir[i]])) + (4 + 4 * AttrWords) + (4 + Padded(ValueBytes[dir[i]]))
CountedBytes(D) == MapThenSumSet(LAMBDA i : Taken(i), D)
SentBytes(D) == MapThenSumSet(LAMBDA i : Sent(i), D)
NamesBytes(D) == MapThenSumSet(LAMBDA i : NameCost(dir[i]), D)

\* Both are folds of the community modules; as sums they are those of SumsUp.
LEMMA CountedIsSum ==
  ASSUME NEW n \in Nat, NEW w \in [1 .. n -> Nat], \A j \in 1 .. n : w[j] = Taken(j),
         NEW g, SumsUp(g, n, w), NEW D \in SUBSET (1 .. n)
  PROVE  CountedBytes(D) = g[D]
<1> DEFINE Turn(f) == [r \in SUBSET D |->
                         IF r = {} THEN 0
                         ELSE Taken(CHOOSE x \in r : TRUE) + f[r \ {CHOOSE x \in r : TRUE}]]
           c == CHOOSE x : x = Turn(x)
<1>1. CountedBytes(D) = c[D]
  BY DEF CountedBytes, MapThenSumSet, MapThenFoldSet
<1>2. \A f : Turn(f) = SumTurn(f, D, w)
  <2> SUFFICES ASSUME NEW f, NEW r \in SUBSET D, r # {}
               PROVE  Taken(CHOOSE x \in r : TRUE) = w[CHOOSE x \in r : TRUE]
    BY DEF SumTurn
  <2>1. PICK x : x = CHOOSE y \in r : TRUE
    OBVIOUS
  <2>2. x \in r /\ x \in 1 .. n
    BY <2>1
  <2> QED BY <2>1, <2>2
<1> DEFINE h == [r \in SUBSET D |-> g[r]]
<1>3. h = Turn(h)
  <2> HIDE DEF Turn, h
  <2>1. SumOver(h, D, w)
    BY SumTurns DEF h
  <2> QED BY <1>2, <2>1 DEF SumOver
<1>4. c = Turn(c)
  <2> DEFINE Q(x) == x = Turn(x)
  <2>1. Q(h)
    BY <1>3
  <2>2. c = CHOOSE x : Q(x)
    OBVIOUS
  <2> HIDE DEF Q, c, h
  <2>3. Q(c)
    BY <2>1, <2>2
  <2> QED BY <2>3 DEF Q
<1> HIDE DEF c, Turn
<1>5. SumOver(c, D, w)
  BY <1>2, <1>4 DEF SumOver
<1>6. c[D] = g[D]
  BY <1>5, SumChosen
<1> QED BY <1>1, <1>6

\* The same for what is sent.
LEMMA SentIsSum ==
  ASSUME NEW n \in Nat, NEW w \in [1 .. n -> Nat], \A j \in 1 .. n : w[j] = Sent(j),
         NEW g, SumsUp(g, n, w), NEW D \in SUBSET (1 .. n)
  PROVE  SentBytes(D) = g[D]
<1> DEFINE Turn(f) == [r \in SUBSET D |->
                         IF r = {} THEN 0
                         ELSE Sent(CHOOSE x \in r : TRUE) + f[r \ {CHOOSE x \in r : TRUE}]]
           c == CHOOSE x : x = Turn(x)
<1>1. SentBytes(D) = c[D]
  BY DEF SentBytes, MapThenSumSet, MapThenFoldSet
<1>2. \A f : Turn(f) = SumTurn(f, D, w)
  <2> SUFFICES ASSUME NEW f, NEW r \in SUBSET D, r # {}
               PROVE  Sent(CHOOSE x \in r : TRUE) = w[CHOOSE x \in r : TRUE]
    BY DEF SumTurn
  <2>1. PICK x : x = CHOOSE y \in r : TRUE
    OBVIOUS
  <2>2. x \in r /\ x \in 1 .. n
    BY <2>1
  <2> QED BY <2>1, <2>2
<1> DEFINE h == [r \in SUBSET D |-> g[r]]
<1>3. h = Turn(h)
  <2> HIDE DEF Turn, h
  <2>1. SumOver(h, D, w)
    BY SumTurns DEF h
  <2> QED BY <1>2, <2>1 DEF SumOver
<1>4. c = Turn(c)
  <2> DEFINE Q(x) == x = Turn(x)
  <2>1. Q(h)
    BY <1>3
  <2>2. c = CHOOSE x : Q(x)
    OBVIOUS
  <2> HIDE DEF Q, c, h
  <2>3. Q(c)
    BY <2>1, <2>2
  <2> QED BY <2>3 DEF Q
<1> HIDE DEF c, Turn
<1>5. SumOver(c, D, w)
  BY <1>2, <1>4 DEF SumOver
<1>6. c[D] = g[D]
  BY <1>5, SumChosen
<1> QED BY <1>1, <1>6

\* An entry is counted with at least the bytes it is sent in.
LEMMA EntryCounted ==
  ASSUME List(dir), NEW i \in 1 .. Len(dir)
  PROVE  Taken(i) \in Nat /\ Sent(i) \in Nat /\ Sent(i) <= Taken(i)
<1>1. dir[i] \in Entries
  BY DEF List
<1>2. NameBytes[dir[i]] \in Nat /\ AttrWords \in Nat /\ ValueBytes[dir[i]] \in Nat
  BY <1>1, ListingAssumption DEF ListingAssumption
<1>3. \A k \in Nat : Padded(k) \in Nat
  BY DEF Padded
<1>4. PICK p, q : p = Padded(NameBytes[dir[i]]) /\ q = Padded(ValueBytes[dir[i]])
  OBVIOUS
<1>5. p \in Nat /\ q \in Nat
  BY <1>2, <1>3, <1>4
<1>6. Taken(i) = 4 + 8 + 4 + p + 4 + (4 + 4 * AttrWords) + 4 + q
  BY <1>4 DEF Taken, EntryBytes
<1>7. Sent(i) = 4 + 8 + (4 + p) + (4 + 4 * AttrWords) + (4 + q)
  BY <1>4 DEF Sent
<1> QED BY <1>2, <1>5, <1>6, <1>7

\* So a page that fits as it was counted fits as it is sent.
LEMMA FittingFits ==
  ASSUME List(dir), NEW n \in 0 .. Len(dir), NEW m \in n .. Len(dir),
         NEW limits \in Limits, Fits(n, m, limits)
  PROVE  Encoded(n, m) <= limits.maxcount
<1>1. PICK l : l = Len(dir)
  OBVIOUS
<1>2. l \in Nat
  BY <1>1 DEF List
<1> DEFINE v == [j \in 1 .. l |-> Sent(j)]
           w == [j \in 1 .. l |-> Taken(j)]
<1>3. v \in [1 .. l -> Nat] /\ w \in [1 .. l -> Nat]
  BY <1>1, EntryCounted
<1>4. \A j \in 1 .. l : v[j] = Sent(j) /\ w[j] = Taken(j) /\ v[j] <= w[j]
  BY <1>1, EntryCounted
<1> HIDE DEF v, w
<1>5. PICK f : SumsUp(f, l, v)
  BY <1>2, <1>3, SumExists
<1>6. PICK g : SumsUp(g, l, w)
  BY <1>2, <1>3, SumExists
<1>7. PICK D : D = n + 1 .. m
  OBVIOUS
<1>8. D \in SUBSET (1 .. l)
  BY <1>1, <1>2, <1>7
<1>9. SentBytes(D) = f[D]
  <2>1. \A j \in 1 .. l : v[j] = Sent(j)
    BY <1>4
  <2> QED BY ONLY <1>2, <1>3, <1>5, <1>8, <2>1, SentIsSum
<1>10. CountedBytes(D) = g[D]
  <2>1. \A j \in 1 .. l : w[j] = Taken(j)
    BY <1>4
  <2> QED BY ONLY <1>2, <1>3, <1>6, <1>8, <2>1, CountedIsSum
<1>11. f[D] <= g[D] /\ f[D] \in Nat /\ g[D] \in Nat
  <2>1. f[D] <= g[D]
    <3>1. n \in 0 .. l /\ m \in n .. l
      BY <1>1
    <3> QED BY <1>2, <1>3, <1>4, <1>5, <1>6, <1>7, <3>1, SumsOrdered
  <2> QED BY <1>5, <1>6, <1>8, <2>1 DEF SumsUp
<1>12. Encoded(n, m) = 8 + 4 + 4 + SentBytes(D)
  BY <1>7 DEF Encoded, EmptyReply, SentBytes, Sent
<1>13. 32 + CountedBytes(D) <= limits.maxcount
  BY <1>7 DEF Fits, CountedBytes, Taken, ReaddirOverhead
<1>14. limits.maxcount \in Nat
  BY ListingAssumption DEF ListingAssumption
<1> QED BY <1>9, <1>10, <1>11, <1>12, <1>13, <1>14

\* A reply without entries is the 16 bytes of one, and holds no name.
LEMMA EmptyPage ==
  ASSUME NEW n \in Nat
  PROVE  Encoded(n, n) = EmptyReply /\ NamesBytes(n + 1 .. n) = 0
<1>1. n + 1 .. n = {}
  OBVIOUS
<1>2. SentBytes({}) = 0
  <2>1. PICK w : w = [j \in 1 .. 0 |-> 0]
    OBVIOUS
  <2>2. w \in [1 .. 0 -> Nat] /\ \A j \in 1 .. 0 : w[j] = Sent(j)
    BY <2>1
  <2>3. PICK f : SumsUp(f, 0, w)
    BY <2>2, SumExists
  <2>4. {} \in SUBSET (1 .. 0) /\ 0 \in Nat
    OBVIOUS
  <2>5. SentBytes({}) = f[{}]
    BY ONLY <2>2, <2>3, <2>4, SentIsSum
  <2> QED BY <2>3, <2>5 DEF SumsUp
<1>3. NamesBytes({}) = 0
  <2> DEFINE Turn(f) == [r \in SUBSET {} |->
                           IF r = {} THEN 0
                           ELSE NameCost(dir[CHOOSE x \in r : TRUE])
                                  + f[r \ {CHOOSE x \in r : TRUE}]]
             Q(x) == x = Turn(x)
             c == CHOOSE x : x = Turn(x)
  <2>1. NamesBytes({}) = c[{}]
    BY DEF NamesBytes, MapThenSumSet, MapThenFoldSet
  <2>2. Q([r \in SUBSET {} |-> 0])
    <3>1. \A r \in SUBSET {} : r = {}
      OBVIOUS
    <3> QED BY <3>1
  <2>3. c = CHOOSE x : Q(x)
    OBVIOUS
  <2>4. Q(c)
    <3> HIDE DEF Q, c
    <3> QED BY <2>2, <2>3
  <2>5. c = Turn(c)
    BY <2>4
  <2> HIDE DEF c
  <2>6. c[{}] = 0
    BY <2>5
  <2> QED BY <2>1, <2>6
<1>4. Encoded(n, n) = EmptyReply + SentBytes(n + 1 .. n)
  BY DEF Encoded, SentBytes, Sent
<1>5. EmptyReply = 16
  BY DEF EmptyReply
<1> QED BY <1>1, <1>2, <1>3, <1>4, <1>5

\* A page ends where the next entry has no room, and has room for those it takes.
LEMMA PageEndFits ==
  ASSUME List(dir), NEW n \in 0 .. Len(dir), NEW limits
  PROVE  LET m == PageEnd(n, limits) IN
         m \in n .. Len(dir) /\ (m > n => Fits(n, m, limits))
<1> DEFINE Ends(m) == /\ Fits(n, m, limits) \/ m = n
                      /\ m < Len(dir) => ~Fits(n, m + 1, limits)
<1>1. PICK l : l = Len(dir)
  OBVIOUS
<1>2. l \in Nat /\ n \in 0 .. l
  BY <1>1 DEF List
<1>3. \E m \in n .. l : Ends(m)
  <2>1. SUFFICES ASSUME \A m \in n .. l : ~Ends(m) PROVE FALSE
    OBVIOUS
  <2> DEFINE S == {k \in 0 .. l - n : Fits(n, n + k, limits) \/ k = 0}
  <2>2. 0 \in S
    BY <1>2
  <2>3. ASSUME NEW k \in 1 .. l - n, k - 1 \in S PROVE k \in S
    <3>1. PICK m : m = n + (k - 1)
      OBVIOUS
    <3>2. m \in n .. l /\ m < l /\ m + 1 = n + k /\ (k - 1 = 0 => m = n)
      BY <1>2, <3>1
    <3>3. Fits(n, m, limits) \/ m = n
      BY <2>3, <3>1, <3>2
    <3>4. Fits(n, m + 1, limits)
      BY <1>1, <2>1, <3>2, <3>3
    <3> QED BY <3>2, <3>4
  <2> HIDE DEF S
  <2>4. l - n \in S
    <3>1. l - n \in Nat
      BY <1>2
    <3>2. 0 .. l - n \subseteq S
      BY <2>2, <2>3, <3>1, InductTo
    <3> QED BY <3>1, <3>2
  <2>5. Fits(n, l, limits) \/ l = n
    <3>1. n + (l - n) = l /\ (l - n = 0 => l = n)
      BY <1>2
    <3> QED BY <2>4, <3>1 DEF S
  <2>6. l \in n .. l /\ ~(l < Len(dir))
    BY <1>1, <1>2
  <2> QED BY <2>1, <2>5, <2>6
<1>4. PageEnd(n, limits) = CHOOSE m \in n .. l : Ends(m)
  BY <1>1 DEF PageEnd
<1>5. PICK m : m = PageEnd(n, limits)
  OBVIOUS
<1>6. m \in n .. l /\ Ends(m)
  <2> HIDE DEF Ends
  <2> QED BY <1>3, <1>4, <1>5
<1> QED BY <1>1, <1>2, <1>5, <1>6

\* The invariant of a listing: Place is as far as the reader has come.
ReaderOK ==
  /\ protocol \in {"nfs", "fuse"} /\ List(dir)
  /\ cookie \in Nat /\ (protocol = "nfs" => cookie \notin {1, 2})
  /\ seen \in Seq(Entries \cup {".", ".."})
  /\ page.status \in {"none", "ok", "toosmall"} /\ done \in BOOLEAN
  /\ stable \subseteq All(dir) /\ shifted \subseteq {"removed", "added"}
  /\ changes \in 0 .. MaxChanges
Progress ==
  /\ "removed" \notin shifted => Whole(seen, stable, dir, Place)
  /\ "added" \notin shifted => Once(seen, stable, dir, Place)
  /\ done => Place >= Len(dir)
ListInv == ReaderOK /\ Progress /\ PageFits

\* Place by either protocol, and what was there all along are entries.
LEMMA StableListed ==
  ASSUME ReaderOK
  PROVE  /\ stable \in SUBSET Entries /\ Len(dir) \in Nat /\ Place \in Nat
         /\ protocol = "nfs" => Place = Start
         /\ protocol = "fuse" => Place = Past(cookie)
<1>1. Len(dir) \in Nat /\ \A k \in 1 .. Len(dir) : dir[k] \in Entries
  BY DEF ReaderOK, List
<1>2. stable \in SUBSET Entries
  BY <1>1 DEF ReaderOK, All
<1>3. protocol = "nfs" => Start \in Nat
  BY DEF ReaderOK, Start
<1>4. protocol = "nfs" => Place = Start
  BY DEF Place
<1>5. protocol = "fuse" => Place = Past(cookie)
  BY DEF Place, Past
<1>6. Place \in Nat
  BY <1>3 DEF Place, ReaderOK
<1> QED BY <1>1, <1>2, <1>3, <1>4, <1>5, <1>6

\* A reply that lists entries up to the place q.
LEMMA RepliedKeeps ==
  ASSUME ReaderOK, Progress, NEW q \in Nat, NEW chunk, Takes(chunk, dir, Place, q),
         Place <= q, seen' = seen \o chunk,
         UNCHANGED <<dir, stable, shifted>>, Place' = q, done' => q >= Len(dir)
  PROVE  seen' \in Seq(Entries \cup {".", ".."}) /\ Progress'
<1>1. PICK p : p = Place
  OBVIOUS
<1>2. p \in Nat /\ p <= q /\ stable \in SUBSET Entries /\ Takes(chunk, dir, p, q)
  BY <1>1, StableListed
<1>3. List(dir) /\ seen \in Seq(Entries \cup {".", ".."})
  BY DEF ReaderOK
<1>4. /\ seen \o chunk \in Seq(Entries \cup {".", ".."})
      /\ Whole(seen, stable, dir, p) => Whole(seen \o chunk, stable, dir, q)
      /\ Once(seen, stable, dir, p) => Once(seen \o chunk, stable, dir, q)
  BY <1>2, <1>3, TakesKeeps
<1>5. "removed" \notin shifted => Whole(seen \o chunk, stable, dir, q)
  BY <1>1, <1>4 DEF Progress
<1>6. "added" \notin shifted => Once(seen \o chunk, stable, dir, q)
  BY <1>1, <1>4 DEF Progress
<1> QED BY <1>4, <1>5, <1>6 DEF Progress

\* Nothing but what the reader is told changes.
LEMMA ReaderKept ==
  ASSUME Progress, UNCHANGED <<protocol, dir, cookie, seen, stable, shifted>>,
         done' => done \/ Place >= Len(dir)
  PROVE  Progress'
<1>1. Place' = Place
  BY DEF Place, Start
<1> QED BY <1>1 DEF Progress, Whole, Once, Rest

\* A page of READDIR with entries in it.
LEMMA ReaddirKeeps ==
  ASSUME ListInv, NEW limits \in Limits, Readdir(limits)
  PROVE  ListInv'
<1>1. PICK p, q : p = Start /\ q = PageEnd(p, limits)
  OBVIOUS
<1>2. /\ protocol = "nfs" /\ p < Len(dir) /\ q > p
      /\ seen' = seen \o SubSeq(dir, p + 1, q) /\ cookie' = q + 2 /\ done' = (q = Len(dir))
      /\ page' = Reply(p, q, limits)
      /\ UNCHANGED <<protocol, dir, stable, shifted, changes>>
  BY <1>1 DEF Readdir, CookieAfter, historyVars
<1>3. ReaderOK /\ Progress
  BY DEF ListInv
<1>4. p \in 0 .. Len(dir) /\ Place = p /\ Len(dir) \in Nat
  BY <1>1, <1>2, <1>3, StableListed
<1>5. List(dir)
  BY <1>3 DEF ReaderOK
<1>6. q \in p .. Len(dir) /\ Fits(p, q, limits)
  BY <1>1, <1>2, <1>4, <1>5, PageEndFits
<1>7. q \in Nat /\ p \in Nat /\ p <= q
  BY <1>4, <1>6
<1>8. Takes(SubSeq(dir, p + 1, q), dir, p, q)
  BY <1>5, <1>6, <1>7, TakesOfDir
<1>9. Place' = q
  BY <1>2, <1>7 DEF Place, Start
<1>10. seen' \in Seq(Entries \cup {".", ".."}) /\ Progress'
  <2>1. UNCHANGED <<dir, stable, shifted>>
    BY <1>2
  <2>2. done' => q >= Len(dir)
    <3>1. done' => q = Len(dir)
      BY <1>2
    <3> QED BY <1>4, <3>1
  <2>3. PICK c : c = SubSeq(dir, p + 1, q)
    OBVIOUS
  <2>4. seen' = seen \o c /\ Takes(c, dir, Place, q) /\ Place <= q
    BY <1>2, <1>4, <1>7, <1>8, <2>3
  <2> QED BY <1>3, <1>7, <1>9, <2>1, <2>2, <2>4, RepliedKeeps
<1>11. PageFits'
  <2>1. Encoded(p, q) <= limits.maxcount
    BY <1>4, <1>5, <1>6, FittingFits
  <2>2. /\ page'.bytes = Encoded(p, q) /\ page'.limits = limits
        /\ page'.entries = q - p /\ page'.names = NamesBytes(p + 1 .. q)
    BY <1>2 DEF Reply, NamesBytes
  <2>3. limits.dircount = 0 \/ NamesBytes(p + 1 .. q) <= limits.dircount
    BY <1>6 DEF Fits, NamesBytes
  <2>4. q - p # 0
    BY <1>2, <1>7
  <2>5. limits.dircount \in Nat
    BY ListingAssumption DEF ListingAssumption
  <2> QED BY <2>1, <2>2, <2>3, <2>4, <2>5 DEF PageFits
<1>12. ReaderOK'
  <2>1. cookie' \in Nat /\ cookie' \notin {1, 2}
    BY <1>2, <1>7, <1>4
  <2>2. page'.status = "ok" /\ done' \in BOOLEAN
    BY <1>2 DEF Reply
  <2>3. List(dir)' /\ stable' \subseteq All(dir')
    BY <1>2, <1>3 DEF ReaderOK, List
  <2> QED BY <1>2, <1>3, <1>10, <2>1, <2>2, <2>3 DEF ReaderOK, All
<1> QED BY <1>10, <1>11, <1>12 DEF ListInv

\* TOOSMALL, and the replies that end a listing: the reader is past the last entry.
LEMMA EndsKeep ==
  ASSUME ListInv,
         \/ \E limits \in Limits : TooSmall(limits) \/ ReaddirEnd(limits)
         \/ KeepNone
  PROVE  ListInv'
<1>1. ReaderOK /\ Progress /\ PageFits
  BY DEF ListInv
<1>2. UNCHANGED <<protocol, dir, cookie, seen, stable, shifted, changes>>
  BY DEF TooSmall, ReaddirEnd, KeepNone, historyVars
<1>3. Len(Listed) = Len(dir) + 2
  <2>1. PICK T, h : T = Entries \cup {".", ".."} /\ h = <<".", "..">>
    OBVIOUS
  <2>2. h \in Seq(T) /\ Len(h) = 2
    BY <2>1
  <2>3. dir \in Seq(T) /\ Len(dir) \in Nat
    BY <1>1, <2>1 DEF ReaderOK, List
  <2>4. Len(h \o dir) = Len(h) + Len(dir)
    <3>1. h \in Seq(T) /\ dir \in Seq(T)
      BY <2>2, <2>3
    <3> QED BY ONLY <3>1
  <2>5. Len(Listed) = Len(h \o dir)
    BY <2>1 DEF Listed
  <2> QED BY <2>2, <2>3, <2>4, <2>5
<1>4. /\ done' \in BOOLEAN /\ page'.status \in {"none", "ok", "toosmall"} /\ PageFits'
      /\ done' => done \/ Place >= Len(dir)
  <2>1. CASE \E limits \in Limits : TooSmall(limits)
    <3>1. done' = done /\ page' = [status |-> "toosmall"]
      BY <2>1 DEF TooSmall
    <3>2. done \in BOOLEAN
      BY <1>1 DEF ReaderOK
    <3> QED BY <3>1, <3>2 DEF PageFits
  <2>2. ASSUME NEW limits \in Limits, ReaddirEnd(limits)
        PROVE  /\ done' \in BOOLEAN /\ page'.status \in {"none", "ok", "toosmall"} /\ PageFits'
               /\ done' => done \/ Place >= Len(dir)
    <3>1. done' = TRUE /\ page' = Reply(Start, Start, limits) /\ protocol = "nfs"
          /\ Start >= Len(dir)
      BY <2>2 DEF ReaddirEnd
    <3>2. Place >= Len(dir) /\ Start \in Nat
      BY <1>1, <3>1, StableListed
    <3>3. /\ page'.status = "ok" /\ page'.bytes = EmptyReply /\ page'.names = 0
          /\ page'.entries = 0 /\ page'.limits = limits
      <4>1. PICK p : p = Start
        OBVIOUS
      <4>2. p \in Nat /\ page' = Reply(p, p, limits)
        BY <3>1, <3>2, <4>1
      <4>3. /\ page'.status = "ok" /\ page'.bytes = Encoded(p, p) /\ page'.entries = p - p
            /\ page'.names = NamesBytes(p + 1 .. p) /\ page'.limits = limits
        BY <4>2 DEF Reply, NamesBytes
      <4> QED BY <4>2, <4>3, EmptyPage
    <3>4. limits.maxcount \in Nat /\ limits.dircount \in Nat /\ EmptyReply = 16
      BY ListingAssumption DEF ListingAssumption, EmptyReply
    <3>5. PageFits'
      BY <3>1, <3>3, <3>4 DEF PageFits
    <3> QED BY <3>1, <3>2, <3>3, <3>5
  <2>3. CASE KeepNone
    <3>1. done' = TRUE /\ page' = page /\ protocol = "fuse" /\ cookie >= Len(Listed)
      BY <2>3 DEF KeepNone
    <3>2. cookie \in Nat /\ Len(dir) \in Nat /\ Place = Past(cookie)
      BY <1>1, <3>1, StableListed DEF ReaderOK
    <3>3. Place >= Len(dir)
      BY <1>3, <3>1, <3>2 DEF Past
    <3> QED BY <1>1, <3>1, <3>3 DEF ReaderOK, PageFits
  <2> QED BY <2>1, <2>2, <2>3
<1>5. Progress'
  BY <1>1, <1>2, <1>4, ReaderKept
<1>6. ReaderOK'
  BY <1>1, <1>2, <1>4 DEF ReaderOK, List, All
<1> QED BY <1>4, <1>5, <1>6 DEF ListInv

\* A batch of readdir, of which the kernel keeps what it has room for.
LEMMA KeepKeeps ==
  ASSUME ListInv, NEW kept, Keep(kept)
  PROVE  ListInv'
<1>1. ReaderOK /\ Progress /\ PageFits
  BY DEF ListInv
<1>2. PICK d : d = <<".", "..">> \o dir
  OBVIOUS
<1>3. /\ protocol = "fuse" /\ ~done /\ kept \in cookie + 1 .. BatchEnd
      /\ seen' = seen \o SubSeq(d, cookie + 1, kept) /\ cookie' = kept
      /\ UNCHANGED <<protocol, dir, page, done, stable, shifted, changes>>
  BY <1>2 DEF Keep, Listed, historyVars
<1>4. /\ cookie \in Nat /\ List(dir) /\ {".", ".."} \cap Entries = {}
      /\ Place = Past(cookie)
  BY <1>1, <1>3, StableListed, ListingAssumption DEF ReaderOK, ListingAssumption
<1>5. kept \in cookie + 1 .. Len(d)
  <2>1. Len(d) \in Nat
    <3>1. PICK T : T = Entries \cup {".", ".."}
      OBVIOUS
    <3>2. dir \in Seq(T)
      BY <1>4, <3>1 DEF List
    <3>3. <<".", "..">> \in Seq(T)
      BY <3>1
    <3>4. <<".", "..">> \o dir \in Seq(T)
      BY ONLY <3>2, <3>3
    <3> QED BY <1>2, <3>4
  <2>2. BatchEnd \in Int /\ BatchEnd <= Len(d)
    <3>1. Batch \in Nat
      BY ListingAssumption DEF ListingAssumption
    <3> QED BY <1>2, <1>4, <2>1, <3>1 DEF BatchEnd, Listed
  <2> QED BY <1>3, <1>4, <2>1, <2>2
<1>6. PICK c : c = SubSeq(d, cookie + 1, kept)
  OBVIOUS
<1>7. /\ Takes(c, dir, Past(cookie), Past(kept))
      /\ Past(cookie) \in Nat /\ Past(kept) \in Nat /\ Past(cookie) <= Past(kept)
  <2>1. kept \in cookie + 1 .. Len(<<".", "..">> \o dir)
    BY <1>2, <1>5
  <2> QED BY <1>2, <1>4, <1>6, <2>1, TakesOfListed
<1>8. kept \in Nat
  BY <1>4, <1>5
<1>9. Place' = Past(kept)
  BY <1>3 DEF Place, Past
<1>10. seen' \in Seq(Entries \cup {".", ".."}) /\ Progress'
  <2>1. UNCHANGED <<dir, stable, shifted>> /\ ~done'
    BY <1>3
  <2>2. seen' = seen \o c
    BY <1>3, <1>6
  <2> QED BY <1>1, <1>4, <1>7, <1>9, <2>1, <2>2, RepliedKeeps
<1>11. ReaderOK'
  <2>1. protocol' = "fuse" /\ cookie' \in Nat
    BY <1>3, <1>8
  <2> QED BY <1>1, <1>3, <1>10, <2>1 DEF ReaderOK, List, All
<1>12. PageFits'
  BY <1>1, <1>3 DEF PageFits
<1> QED BY <1>10, <1>11, <1>12 DEF ListInv

\* The directory changes: what comes behind an entry that goes is behind the reader
\* still when the entry is,
LEMMA RemovedKeeps ==
  ASSUME ListInv, NEW i \in 1 .. Len(dir), Removed(i)
  PROVE  ListInv'
<1>1. ReaderOK /\ Progress /\ PageFits
  BY DEF ListInv
<1>2. PICK r, p : r = RemoveAt(dir, i) /\ p = Place
  OBVIOUS
<1>3. /\ ~done /\ changes < MaxChanges /\ changes' = changes + 1
      /\ dir' = r /\ stable' = stable \ {dir[i]}
      /\ shifted' = IF i <= p THEN shifted \cup {"removed"} ELSE shifted
      /\ UNCHANGED <<protocol, cookie, seen, page, done>>
  BY <1>2 DEF Removed, readerVars
<1>4. List(dir) /\ p \in Nat /\ stable \subseteq All(dir)
  BY <1>1, <1>2, StableListed DEF ReaderOK
<1>5. List(r) /\ All(r) = All(dir) \ {dir[i]} /\ Rest(r, p) \subseteq Rest(dir, p)
      /\ (i > p => Rest(dir, p) \ {dir[i]} \subseteq Rest(r, p))
  BY <1>2, <1>4, EntryRemoved
<1>6. Place' = p
  BY <1>2, <1>3 DEF Place, Start
<1>7. Progress'
  <2>1. ASSUME "removed" \notin shifted' PROVE Whole(seen, stable', r, p)
    <3>1. "removed" \notin shifted /\ i > p
      BY <1>3, <1>4, <2>1
    <3>2. Whole(seen, stable, dir, p)
      BY <1>1, <1>2, <3>1 DEF Progress
    <3> QED BY <1>3, <1>5, <3>1, <3>2 DEF Whole
  <2>2. ASSUME "added" \notin shifted' PROVE Once(seen, stable', r, p)
    <3>1. "added" \notin shifted
      BY <1>3, <2>2
    <3>2. Once(seen, stable, dir, p)
      BY <1>1, <1>2, <3>1 DEF Progress
    <3> QED BY <1>3, <1>5, <3>2 DEF Once
  <2> QED BY <1>3, <1>6, <2>1, <2>2 DEF Progress
<1>8. ReaderOK'
  <2>1. changes' \in 0 .. MaxChanges
    <3>1. changes \in 0 .. MaxChanges /\ MaxChanges \in Nat
      BY <1>1, ListingAssumption DEF ReaderOK, ListingAssumption
    <3> QED BY <1>3, <3>1
  <2>2. shifted' \subseteq {"removed", "added"}
    BY <1>1, <1>3 DEF ReaderOK
  <2>3. stable' \subseteq All(r)
    BY <1>3, <1>4, <1>5
  <2> QED BY <1>1, <1>3, <1>5, <2>1, <2>2, <2>3 DEF ReaderOK, List, All
<1>9. PageFits'
  BY <1>1, <1>3 DEF PageFits
<1> QED BY <1>7, <1>8, <1>9 DEF ListInv

\* and an entry that comes behind the reader is none it was shown.
LEMMA AddedKeeps ==
  ASSUME ListInv, NEW i \in 1 .. Len(dir) + 1, NEW e \in Entries, Added(i, e)
  PROVE  ListInv'
<1>1. ReaderOK /\ Progress /\ PageFits
  BY DEF ListInv
<1>2. PICK r, p : r = InsertAt(dir, i, e) /\ p = Place
  OBVIOUS
<1>3. /\ ~done /\ changes < MaxChanges /\ changes' = changes + 1
      /\ e \notin ToSet(dir) /\ dir' = r
      /\ shifted' = IF i <= p THEN shifted \cup {"added"} ELSE shifted
      /\ UNCHANGED <<protocol, cookie, seen, page, done, stable>>
  BY <1>2 DEF Added, readerVars
<1>4. List(dir) /\ p \in Nat /\ stable \subseteq All(dir)
  BY <1>1, <1>2, StableListed DEF ReaderOK
<1>5. e \notin All(dir)
  <2>1. DOMAIN dir = 1 .. Len(dir)
    BY <1>4 DEF List
  <2> QED BY <1>3, <2>1 DEF ToSet, All
<1>6. List(r) /\ All(r) = All(dir) \cup {e} /\ Rest(dir, p) \subseteq Rest(r, p)
      /\ (i > p => Rest(r, p) \subseteq Rest(dir, p) \cup {e})
  BY <1>2, <1>4, <1>5, EntryAdded
<1>7. Place' = p
  BY <1>2, <1>3 DEF Place, Start
<1>8. Progress'
  <2>1. ASSUME "removed" \notin shifted' PROVE Whole(seen, stable, r, p)
    <3>1. "removed" \notin shifted
      BY <1>3, <2>1
    <3>2. Whole(seen, stable, dir, p)
      BY <1>1, <1>2, <3>1 DEF Progress
    <3> QED BY <1>6, <3>2 DEF Whole
  <2>2. ASSUME "added" \notin shifted' PROVE Once(seen, stable, r, p)
    <3>1. "added" \notin shifted /\ i > p
      BY <1>3, <1>4, <2>2
    <3>2. Once(seen, stable, dir, p)
      BY <1>1, <1>2, <3>1 DEF Progress
    <3>3. e \notin stable
      BY <1>4, <1>5
    <3> QED BY <1>6, <3>1, <3>2, <3>3 DEF Once
  <2> QED BY <1>3, <1>7, <2>1, <2>2 DEF Progress
<1>9. ReaderOK'
  <2>1. changes' \in 0 .. MaxChanges
    <3>1. changes \in 0 .. MaxChanges /\ MaxChanges \in Nat
      BY <1>1, ListingAssumption DEF ReaderOK, ListingAssumption
    <3> QED BY <1>3, <3>1
  <2>2. shifted' \subseteq {"removed", "added"}
    BY <1>1, <1>3 DEF ReaderOK
  <2>3. stable' \subseteq All(r)
    BY <1>3, <1>4, <1>6
  <2> QED BY <1>1, <1>3, <1>6, <2>1, <2>2, <2>3 DEF ReaderOK, List, All
<1>10. PageFits'
  BY <1>1, <1>3 DEF PageFits
<1> QED BY <1>8, <1>9, <1>10 DEF ListInv

\* A listing that begins has everything ahead of it.
LEMMA BegunWhole ==
  ASSUME NEW s, NEW st \in SUBSET All(s)
  PROVE  Whole(<<>>, st, s, 0) /\ Once(<<>>, st, s, 0)
<1>1. Rest(s, 0) = All(s) /\ 1 .. Len(<<>>) = {}
  BY DEF Rest, All
<1> QED BY <1>1 DEF Whole, Once

\* The reader starts over with what the directory holds.
LEMMA RewindKeeps ==
  ASSUME ListInv, Rewind
  PROVE  ListInv'
<1>1. ReaderOK
  BY DEF ListInv
<1>2. /\ done' = FALSE /\ cookie' = 0 /\ seen' = <<>> /\ page' = [status |-> "none"]
      /\ stable' = ToSet(dir) /\ shifted' = {} /\ changes' = 0
      /\ UNCHANGED <<protocol, dir>>
  BY DEF Rewind, NoPage
<1>3. List(dir) /\ stable' = All(dir)
  <2>1. List(dir) /\ DOMAIN dir = 1 .. Len(dir)
    BY <1>1 DEF ReaderOK, List
  <2> QED BY <1>2, <2>1 DEF All, ToSet
<1>4. Progress'
  <2>1. Place' = 0
    BY <1>2 DEF Place, Start
  <2>2. Whole(<<>>, stable', dir, 0) /\ Once(<<>>, stable', dir, 0)
    BY <1>3, BegunWhole
  <2> QED BY <1>2, <2>1, <2>2 DEF Progress
<1>5. ReaderOK'
  <2>1. MaxChanges \in Nat
    BY ListingAssumption DEF ListingAssumption
  <2>2. seen' \in Seq(Entries \cup {".", ".."}) /\ page'.status = "none" /\ changes' \in 0 .. MaxChanges
    BY <1>2, <2>1
  <2>3. List(dir') /\ stable' \subseteq All(dir')
    BY <1>2, <1>3
  <2>4. cookie' \in Nat /\ cookie' \notin {1, 2} /\ shifted' \subseteq {"removed", "added"}
    BY <1>2
  <2> QED BY <1>1, <1>2, <2>2, <2>3, <2>4 DEF ReaderOK
<1>6. PageFits'
  BY <1>2 DEF PageFits
<1> QED BY <1>4, <1>5, <1>6 DEF ListInv

\* A list has as many entries as its length.
LEMMA ListSize ==
  ASSUME NEW s, List(s)
  PROVE  IsFiniteSet(All(s)) /\ Cardinality(All(s)) = Len(s)
<1>1. PICK n : n = Len(s)
  OBVIOUS
<1>2. n \in Nat /\ s \in [1 .. n -> All(s)] /\ \A i, j \in 1 .. n : s[i] = s[j] => i = j
  BY <1>1 DEF List, All
<1>3. \A x \in All(s) : \E i \in 1 .. n : s[i] = x
  BY <1>1 DEF All
<1>4. s \in Bijection(1 .. n, All(s))
  BY <1>2, <1>3 DEF Bijection, Injection, Surjection, IsInjective
<1>5. ExistsBijection(1 .. n, All(s))
  BY <1>4 DEF ExistsBijection
<1> QED BY <1>1, <1>2, <1>5, FS_NatBijection, FS_CountingElements

\* The first listing begins with every entry.
LEMMA ListingBegins ==
  ASSUME ListingInit
  PROVE  ListInv
<1>1. /\ protocol \in {"nfs", "fuse"} /\ dir \in SetToSeqs(Entries) /\ cookie = 0
      /\ seen = <<>> /\ page = [status |-> "none"] /\ done = FALSE
      /\ stable = Entries /\ shifted = {} /\ changes = 0
  BY DEF ListingInit, NoPage
<1>2. PICK n : n = Cardinality(Entries)
  OBVIOUS
<1>3. n \in Nat /\ IsFiniteSet(Entries)
  <2>1. IsFiniteSet(Entries)
    BY ListingAssumption DEF ListingAssumption
  <2> QED BY <1>2, <2>1, FS_CardinalityType
<1>4. dir \in [1 .. n -> Entries] /\ \A i, j \in 1 .. n : i # j => dir[i] # dir[j]
  BY <1>1, <1>2 DEF SetToSeqs
<1>5. dir \in Seq(Entries) /\ Len(dir) = n
  BY <1>3, <1>4
<1>6. List(dir)
  BY <1>4, <1>5 DEF List
<1>7. Entries \subseteq All(dir)
  <2>1. \A i \in 1 .. n : dir[i] \in Entries
    BY <1>4
  <2>2. IsFiniteSet(All(dir)) /\ Cardinality(All(dir)) = n
    BY <1>5, <1>6, ListSize
  <2>3. All(dir) \subseteq Entries
    BY <1>5, <2>1 DEF All
  <2> QED BY <1>2, <1>3, <2>2, <2>3, FS_Subset
<1>8. Progress
  <2>1. Place = 0
    BY <1>1 DEF Place, Start
  <2>2. Whole(<<>>, stable, dir, 0) /\ Once(<<>>, stable, dir, 0)
    BY <1>1, <1>7, BegunWhole
  <2> QED BY <1>1, <2>1, <2>2 DEF Progress
<1>9. ReaderOK
  <2>1. MaxChanges \in Nat
    BY ListingAssumption DEF ListingAssumption
  <2>2. seen \in Seq(Entries \cup {".", ".."}) /\ page.status = "none" /\ changes \in 0 .. MaxChanges
    BY <1>1, <2>1
  <2>3. protocol \in {"nfs", "fuse"} /\ done \in BOOLEAN
    BY <1>1
  <2>5. cookie \in Nat /\ cookie \notin {1, 2}
    BY <1>1
  <2>4. stable \subseteq All(dir) /\ shifted \subseteq {"removed", "added"}
    BY <1>1, <1>7
  <2> QED BY <1>6, <2>2, <2>3, <2>4, <2>5 DEF ReaderOK
<1>10. PageFits
  BY <1>1 DEF PageFits
<1> QED BY <1>8, <1>9, <1>10 DEF ListInv

\* Every step of a listing.
LEMMA ListingStep ==
  ASSUME ListInv, [ListingNext]_listingVars
  PROVE  ListInv'
<1>1. ASSUME NEW limits \in Limits, Readdir(limits) \/ TooSmall(limits) \/ ReaddirEnd(limits)
      PROVE  ListInv'
  BY <1>1, ReaddirKeeps, EndsKeep
<1>2. CASE KeepNone
  BY <1>2, EndsKeep
<1>3. CASE Rewind
  BY <1>3, RewindKeeps
<1>4. ASSUME NEW kept, Keep(kept) PROVE ListInv'
  BY <1>4, KeepKeeps
<1>5. ASSUME NEW i \in 1 .. Len(dir), Removed(i) PROVE ListInv'
  BY <1>5, RemovedKeeps
<1>6. ASSUME NEW i \in 1 .. Len(dir) + 1, NEW e \in Entries, Added(i, e) PROVE ListInv'
  BY <1>6, AddedKeeps
<1>7. CASE UNCHANGED listingVars
  <2>1. UNCHANGED <<protocol, dir, cookie, seen, page, done, stable, shifted, changes>>
    BY <1>7 DEF listingVars, readerVars, historyVars
  <2>2. ReaderOK /\ Progress /\ PageFits
    BY DEF ListInv
  <2>3. Progress'
    BY <2>1, <2>2, ReaderKept
  <2>4. ReaderOK'
    BY <2>1, <2>2 DEF ReaderOK, List, All
  <2>5. PageFits'
    BY <2>1, <2>2 DEF PageFits
  <2> QED BY <2>3, <2>4, <2>5 DEF ListInv
<1> QED BY <1>1, <1>2, <1>3, <1>4, <1>5, <1>6, <1>7 DEF ListingNext

\* A listing always satisfies its invariant.
LEMMA ListingAlways == ListingSpec => []ListInv
<1>1. ListingInit => ListInv
  BY ListingBegins
<1>2. ListInv /\ [ListingNext]_listingVars => ListInv'
  BY ListingStep
<1> QED BY <1>1, <1>2, PTL DEF ListingSpec

\* The types, for every directory, batch and pair of limits: an NFS reader never comes
\* back with one of the cookies 1 and 2, which RFC 7530 reserves (compound.ts starts
\* its own at 3), and the directory read anew has no name twice.
THEOREM ListingTypes == ListingSpec => []ListingTypeOK
<1>1. ListInv => ListingTypeOK
  <2> SUFFICES ASSUME ListInv PROVE ListingTypeOK
    OBVIOUS
  <2>1. ReaderOK /\ List(dir)
    BY DEF ListInv, ReaderOK
  <2>2. dir \in Seq(Entries) /\ DOMAIN dir = 1 .. Len(dir)
    BY <2>1 DEF List
  <2>3. ToSet(dir) = All(dir)
    BY <2>2 DEF ToSet, All
  <2>4. ToSet(dir) \subseteq Entries
    BY <2>2 DEF ToSet
  <2>5. Len(dir) = Cardinality(ToSet(dir))
    BY <2>1, <2>3, ListSize
  <2>6. ToSet(seen) \subseteq Entries \cup {".", ".."}
    <3>1. PICK T : T = Entries \cup {".", ".."}
      OBVIOUS
    <3>2. seen \in Seq(T)
      BY <2>1, <3>1 DEF ReaderOK
    <3> QED BY <3>1, <3>2 DEF ToSet
  <2> QED BY <2>1, <2>3, <2>4, <2>5, <2>6 DEF ReaderOK, ListingTypeOK
<1> QED BY <1>1, ListingAlways, PTL

\* Whatever the directory holds and the client asks with, a reply to READDIR is no longer
\* than its maxcount, if that is the 16 bytes of a reply without entries, which compound.ts
\* sends whatever the limits are, or the reply has an entry: what is counted for an entry
\* is at least what is written of it.  The names are within dircount where the client
\* gives one, and a reply without entries is one with eof.
THEOREM PagesFit == ListingSpec => []PageFits
<1>1. ListInv => PageFits
  BY DEF ListInv
<1> QED BY <1>1, ListingAlways, PTL

\* However small the pages and however the directory changes between them, a listing
\* read to its end, by READDIR's cookies or by readdir's offsets, has every name that
\* was there all along, unless one before the reader's place was removed.
THEOREM ListingWhole == ListingSpec => []NothingSkipped
<1>1. ListInv => NothingSkipped
  <2> SUFFICES ASSUME ListInv, done, "removed" \notin shifted
               PROVE  stable \subseteq ToSet(seen)
    BY DEF NothingSkipped
  <2>1. ReaderOK /\ Progress
    BY DEF ListInv
  <2>2. Whole(seen, stable, dir, Place) /\ Place >= Len(dir)
    BY <2>1 DEF Progress
  <2>3. Place \in Nat /\ Len(dir) \in Nat
    BY <2>1, StableListed
  <2>4. Rest(dir, Place) = {}
    <3>1. Place + 1 .. Len(dir) = {}
      BY <2>2, <2>3
    <3> QED BY <3>1 DEF Rest
  <2>5. DOMAIN seen = 1 .. Len(seen)
    BY <2>1 DEF ReaderOK
  <2> QED BY <2>2, <2>4, <2>5 DEF Whole, ToSet
<1> QED BY <1>1, ListingAlways, PTL

\* And it has none of them twice, unless a name was added before the reader's place.
THEOREM ListingOnce == ListingSpec => []NothingTwice
<1>1. ListInv => NothingTwice
  <2> SUFFICES ASSUME ListInv PROVE NothingTwice
    OBVIOUS
  <2>1. DOMAIN seen = 1 .. Len(seen)
    BY DEF ListInv, ReaderOK
  <2> QED BY <2>1 DEF ListInv, Progress, Once, NothingTwice
<1> QED BY <1>1, ListingAlways, PTL
=============================================================================
