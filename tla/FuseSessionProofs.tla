------------------------- MODULE FuseSessionProofs -------------------------
(***************************************************************************)
(* Proofs about FuseSession: what JavaScript answers reaches the request   *)
(* it was asked, and the session's handles are the kernel's open files,    *)
(* for any number of requests, files and ids; and the loop that looks for  *)
(* an id finds one.                                                        *)
(*                                                                         *)
(* Two jobs never share an id.  Until an unmount drops the replies that is *)
(* because every job has its reply parked; after it because the counter,   *)
(* in the requests that may still come, does not reach the id of a job     *)
(* whose reply was dropped (OrphansAhead), nor one it has just given out   *)
(* (ParkedBehind).  Passing over 0 costs it one step more, once.           *)
(***************************************************************************)
EXTENDS FuseSession, FiniteSetTheorems, WellFoundedInduction, TLAPS

Cleared == {"cleared", "unmounted"}
Detached == {"waiting"} \cup Cleared
Phases == {"mounted", "detaching", "failed"} \cup Detached

Types ==
  /\ nextId \in Ids /\ pending \in [Ids -> Reqs \cup {None}]
  /\ jobs \subseteq Job /\ kernel \in [Reqs -> Request]
  /\ late \in 0 .. MaxLate /\ phase \in Phases
  /\ nextFh \in Nat \ {0} /\ closes \in [Fhs -> Nat]

\* Jobs and parked replies.
IdsApart == \A j, k \in jobs : j.id = k.id => j = k
ParkedIsMine == \A j \in jobs : pending[j.id] \in {None, j.r}
ParkedHasJob == \A id \in Ids : pending[id] # None => \E j \in jobs : j.id = id
ParkedOnce == \A a, b \in Ids : pending[a] = pending[b] /\ pending[a] # None => a = b
OutstandingParked == \A r \in Reqs : kernel[r] # Free <=> \E id \in Ids : pending[id] = r
AllParked == phase \notin Cleared => \A j \in jobs : pending[j.id] # None

\* What is left of the counter's way when no more than the bound allows will come.
ToCome == MaxLate - late
OrphansAhead ==
  phase \in Cleared =>
    \A j \in jobs : pending[j.id] = None =>
      /\ Ahead(j.id) >= ToCome
      /\ Ahead(0) <= Ahead(j.id) => Ahead(j.id) >= ToCome + 1
ParkedBehind ==
  phase \in Cleared =>
    \A id \in Ids : pending[id] # None =>
      /\ Ahead(id) >= IdSpace - late - 1
      /\ Ahead(0) < Ahead(id) => Ahead(id) >= IdSpace - late

IdInv ==
  /\ Types /\ IdsApart /\ ParkedIsMine /\ ParkedHasJob /\ ParkedOnce
  /\ OutstandingParked /\ AllParked /\ OrphansAhead /\ ParkedBehind

USE SessionAssumption DEF SessionAssumption

-----------------------------------------------------------------------------
\* The counter's arithmetic without remainders.
LEMMA IdSpaceIs ==
  /\ IdSpace \in Nat /\ IdSpace >= MaxLate + 2 /\ MaxLate \in Nat
  BY FS_CardinalityType

LEMMA Turn ==
  ASSUME NEW x \in 0 .. 2 * IdSpace - 1
  PROVE  x % IdSpace = IF x < IdSpace THEN x ELSE x - IdSpace
  BY IdSpaceIs

LEMMA Distance ==
  ASSUME NEW n \in Ids, NEW id \in Ids
  PROVE  (id + IdSpace - n) % IdSpace = IF id >= n THEN id - n ELSE id + IdSpace - n
<1> DEFINE x == id + IdSpace - n
<1>1. x \in 0 .. 2 * IdSpace - 1 /\ id \in Int /\ n \in Int /\ IdSpace \in Int
  BY IdSpaceIs DEF Ids
<1>2. x < IdSpace <=> id < n
  BY <1>1
<1>3. x - IdSpace = id - n
  BY <1>1
<1>4. x % IdSpace = IF x < IdSpace THEN x ELSE x - IdSpace
  BY <1>1, Turn
<1>5. id >= n <=> ~(id < n)
  BY <1>1
<1> QED BY <1>2, <1>3, <1>4, <1>5

LEMMA NextIs ==
  ASSUME NEW id \in Ids
  PROVE  /\ (id + 1) % IdSpace = IF id = IdSpace - 1 THEN 0 ELSE id + 1
         /\ (id + 1) % IdSpace \in Ids
<1>1. id + 1 \in 0 .. 2 * IdSpace - 1
  BY IdSpaceIs DEF Ids
<1> QED BY <1>1, Turn, IdSpaceIs DEF Ids

\* After the replies were dropped the counter settles on the id it stands at, or on
\* the one behind 0.
LEMMA FreshIsNext ==
  ASSUME IdInv, phase \in Cleared, late < MaxLate, NEW id \in Ids, Fresh(id)
  PROVE  id = IF nextId = 0 THEN 1 ELSE nextId
<1> DEFINE n == IF nextId = 0 THEN 1 ELSE nextId
<1>1. nextId \in Ids /\ n \in Ids /\ n # 0 /\ late \in Nat
  BY IdSpaceIs DEF IdInv, Types, Ids
<1>2. Ahead(n) = IF nextId = 0 THEN 1 ELSE 0
  BY <1>1, Distance DEF Ahead, Ids
<1>3. pending[n] = None
  <2>1. IdSpace - late - 1 > 1
    BY <1>1, IdSpaceIs
  <2>2. pending[n] # None => Ahead(n) >= IdSpace - late - 1
    BY <1>1 DEF IdInv, ParkedBehind
  <2> QED BY <1>1, <1>2, <2>1, <2>2, IdSpaceIs
<1>4. Ahead(id) <= Ahead(n) /\ id # 0
  BY <1>1, <1>3 DEF Fresh, Usable
<1>5. Ahead(id) = IF id >= nextId THEN id - nextId ELSE id + IdSpace - nextId
  BY <1>1, Distance DEF Ahead
<1> QED BY <1>1, <1>2, <1>4, <1>5, IdSpaceIs DEF Ids

LEMMA FreshIsNew ==
  ASSUME IdInv, NEW id \in Ids, Fresh(id), phase \in Cleared => late < MaxLate
  PROVE  pending[id] = None /\ id # 0 /\ \A j \in jobs : j.id # id
<1>1. pending[id] = None /\ id # 0
  BY DEF Fresh, Usable
<1>2. CASE phase \notin Cleared
  BY <1>1, <1>2 DEF IdInv, AllParked
<1>3. CASE phase \in Cleared
  <2> SUFFICES ASSUME NEW j \in jobs, j.id = id PROVE FALSE
    BY <1>1
  <2>1. /\ Ahead(id) >= ToCome
        /\ Ahead(0) <= Ahead(id) => Ahead(id) >= ToCome + 1
    BY <1>1, <1>3 DEF IdInv, OrphansAhead
  <2>2. id = IF nextId = 0 THEN 1 ELSE nextId
    BY <1>3, FreshIsNext
  <2>3. nextId \in Ids /\ 0 \in Ids /\ late \in Nat /\ late < MaxLate
    BY <1>3, IdSpaceIs DEF IdInv, Types, Ids
  <2>4. Ahead(id) = IF nextId = 0 THEN 1 ELSE 0
    BY <2>2, <2>3, Distance DEF Ahead, Ids
  <2>5. nextId = 0 => Ahead(0) = 0
    BY <2>3, Distance DEF Ahead, Ids
  <2> QED BY <2>1, <2>3, <2>4, <2>5, IdSpaceIs DEF ToCome
<1> QED BY <1>1, <1>2, <1>3

-----------------------------------------------------------------------------
\* A request takes an id.
LEMMA AskKeepsTypes ==
  ASSUME IdInv, NEW r \in Reqs, NEW op \in Ops, NEW fh \in Fhs \cup {NoFh}, Ask(r, op, fh)
  PROVE  Types'
<1>1. PICK id \in Ids :
        /\ pending' = [pending EXCEPT ![id] = r] /\ nextId' = (id + 1) % IdSpace
        /\ jobs' = jobs \cup {[id |-> id, r |-> r, op |-> op, fh |-> fh, at |-> "queued"]}
  BY DEF Ask
<1>2. nextId' \in Ids
  BY <1>1, NextIs
<1>3. pending' \in [Ids -> Reqs \cup {None}]
  BY <1>1 DEF IdInv, Types
<1>4. jobs' \subseteq Job
  BY <1>1 DEF IdInv, Types, Job
<1>5. kernel' \in [Reqs -> Request]
  <2>1. [op |-> op, fh |-> fh] \in Request
    BY DEF Request
  <2> QED BY <2>1 DEF Ask, IdInv, Types
<1>6. late' \in 0 .. MaxLate
  BY IdSpaceIs DEF Ask, CanAsk, IdInv, Types, Phases, Detached, Cleared
<1> QED BY <1>2, <1>3, <1>4, <1>5, <1>6 DEF Ask, fileVars, IdInv, Types

LEMMA AskKeeps ==
  ASSUME IdInv, NEW r \in Reqs, NEW op \in Ops, NEW fh \in Fhs \cup {NoFh}, Ask(r, op, fh)
  PROVE  IdInv'
<1>1. PICK id \in Ids :
        /\ Fresh(id)
        /\ pending' = [pending EXCEPT ![id] = r] /\ nextId' = (id + 1) % IdSpace
        /\ jobs' = jobs \cup {[id |-> id, r |-> r, op |-> op, fh |-> fh, at |-> "queued"]}
  BY DEF Ask
<1> DEFINE new == [id |-> id, r |-> r, op |-> op, fh |-> fh, at |-> "queued"]
<1>2. /\ phase' = phase /\ kernel[r] = Free
      /\ phase \in Cleared => late < MaxLate /\ late' = late + 1
  BY DEF Ask, CanAsk, Cleared
<1>3. pending[id] = None /\ id # 0 /\ \A j \in jobs : j.id # id
  BY <1>1, <1>2, FreshIsNew
<1>4. Types'
  BY AskKeepsTypes
<1>5. /\ pending'[id] = r /\ \A k \in Ids : k # id => pending'[k] = pending[k]
      /\ r # None
  BY <1>1 DEF IdInv, Types, None
<1>6. jobs' = jobs \cup {new} /\ new.id = id /\ new.r = r
  BY <1>1
<1> HIDE DEF new
<1>7. \A j \in jobs : j.id \in Ids
  BY DEF IdInv, Types, Job
<1>8. IdsApart'
  BY <1>3, <1>6 DEF IdInv, IdsApart
<1>9. ParkedIsMine'
  BY <1>3, <1>5, <1>6, <1>7 DEF IdInv, ParkedIsMine
<1>10. ParkedHasJob'
  BY <1>5, <1>6 DEF IdInv, ParkedHasJob
<1>11. \A k \in Ids : pending[k] # r
  BY <1>2 DEF IdInv, OutstandingParked
<1>12. ParkedOnce'
  BY <1>5, <1>11 DEF IdInv, ParkedOnce
<1>13. OutstandingParked'
  <2>1. [op |-> op, fh |-> fh] # Free
    BY DEF Free, Ops, TreeOps, FileOps
  <2>2. kernel'[r] # Free /\ \A q \in Reqs : q # r => kernel'[q] = kernel[q]
    BY <2>1 DEF Ask, IdInv, Types
  <2>3. \A q \in Reqs : q # r => ((\E k \in Ids : pending'[k] = q) <=> (\E k \in Ids : pending[k] = q))
    BY <1>3, <1>5 DEF None
  <2> QED BY <1>5, <2>2, <2>3 DEF IdInv, OutstandingParked
<1>14. AllParked'
  BY <1>2, <1>3, <1>5, <1>6, <1>7 DEF IdInv, AllParked
<1>15. ASSUME phase \in Cleared PROVE OrphansAhead' /\ ParkedBehind'
  <2>1. /\ id = (IF nextId = 0 THEN 1 ELSE nextId) /\ late < MaxLate /\ late' = late + 1
        /\ late \in Nat
    BY <1>1, <1>2, <1>15, FreshIsNext DEF IdInv, Types
  <2>2. nextId \in Ids /\ nextId' \in Ids /\ 0 \in Ids
    BY <1>4, IdSpaceIs DEF IdInv, Types, Ids
  <2>3. nextId' = IF id = IdSpace - 1 THEN 0 ELSE id + 1
    BY <1>1, NextIs
  <2>4. \A k \in Ids : /\ Ahead(k) = IF k >= nextId THEN k - nextId ELSE k + IdSpace - nextId
                       /\ Ahead(k)' = IF k >= nextId' THEN k - nextId' ELSE k + IdSpace - nextId'
    BY <2>2, Distance DEF Ahead
  <2>5. OrphansAhead'
    <3> SUFFICES ASSUME NEW j \in jobs', pending'[j.id] = None
                 PROVE  /\ Ahead(j.id)' >= ToCome'
                        /\ Ahead(0)' <= Ahead(j.id)' => Ahead(j.id)' >= ToCome' + 1
      BY DEF OrphansAhead
    <3>1. j \in jobs /\ j.id \in Ids /\ j.id # id /\ pending[j.id] = None
      BY <1>3, <1>5, <1>6, <1>7
    <3>2. /\ Ahead(j.id) >= ToCome
          /\ Ahead(0) <= Ahead(j.id) => Ahead(j.id) >= ToCome + 1
      BY <1>15, <3>1 DEF IdInv, OrphansAhead
    <3> QED BY <2>1, <2>2, <2>3, <2>4, <3>1, <3>2, IdSpaceIs DEF ToCome, Ids
  <2>6. ParkedBehind'
    <3> SUFFICES ASSUME NEW k \in Ids, pending'[k] # None
                 PROVE  /\ Ahead(k)' >= IdSpace - late' - 1
                        /\ Ahead(0)' < Ahead(k)' => Ahead(k)' >= IdSpace - late'
      BY DEF ParkedBehind
    <3>1. CASE k = id
      BY <2>1, <2>2, <2>3, <2>4, <3>1, IdSpaceIs DEF Ids
    <3>2. CASE k # id
      <4>1. /\ Ahead(k) >= IdSpace - late - 1
            /\ Ahead(0) < Ahead(k) => Ahead(k) >= IdSpace - late
        BY <1>5, <1>15, <3>2 DEF IdInv, ParkedBehind
      <4> QED BY <2>1, <2>2, <2>3, <2>4, <3>2, <4>1, IdSpaceIs DEF Ids
    <3> QED BY <3>1, <3>2
  <2> QED BY <2>5, <2>6
<1>16. phase \notin Cleared => OrphansAhead' /\ ParkedBehind'
  BY <1>2 DEF OrphansAhead, ParkedBehind
<1> QED BY <1>4, <1>8, <1>9, <1>10, <1>12, <1>13, <1>14, <1>15, <1>16 DEF IdInv

\* A job is answered and over.
LEMMA AnswerKeeps ==
  ASSUME IdInv, NEW j \in jobs, Answer(j.id), jobs' = jobs \ {j},
         UNCHANGED <<nextId, late, phase>>, nextFh' \in Nat \ {0}, closes' \in [Fhs -> Nat]
  PROVE  IdInv'
<1>1. j.id \in Ids /\ \A k \in jobs : k.id \in Ids
  BY DEF IdInv, Types, Job
<1>2. /\ pending' = [pending EXCEPT ![j.id] = None] /\ pending'[j.id] = None
      /\ \A k \in Ids : k # j.id => pending'[k] = pending[k]
  BY <1>1 DEF Answer, Take, IdInv, Types
<1>3. kernel' = IF pending[j.id] = None THEN kernel ELSE [kernel EXCEPT ![pending[j.id]] = Free]
  BY DEF Answer
<1>4. Types'
  <2>1. kernel' \in [Reqs -> Request]
    BY <1>3 DEF IdInv, Types, Request
  <2>2. pending' \in [Ids -> Reqs \cup {None}]
    BY <1>1, <1>2 DEF IdInv, Types
  <2>3. jobs' \subseteq Job
    BY DEF IdInv, Types
  <2> QED BY <2>1, <2>2, <2>3 DEF IdInv, Types
<1>5. \A k \in jobs' : k \in jobs /\ k.id # j.id /\ pending'[k.id] = pending[k.id]
  BY <1>1, <1>2 DEF IdInv, IdsApart
<1>6. IdsApart' /\ ParkedIsMine'
  BY <1>5 DEF IdInv, IdsApart, ParkedIsMine
<1>7. ParkedHasJob'
  BY <1>2 DEF IdInv, ParkedHasJob
<1>8. ParkedOnce'
  BY <1>2 DEF IdInv, ParkedOnce
<1>9. AllParked'
  BY <1>5 DEF IdInv, AllParked
<1>10. OutstandingParked'
  <2>1. CASE pending[j.id] = None
    BY <1>2, <1>3, <2>1 DEF IdInv, OutstandingParked, None
  <2>2. CASE pending[j.id] # None
    <3>1. PICK q \in Reqs : pending[j.id] = q
      BY <1>1, <2>2 DEF IdInv, Types
    <3>2. kernel'[q] = Free /\ \A r \in Reqs : r # q => kernel'[r] = kernel[r]
      BY <1>3, <2>2, <3>1 DEF IdInv, Types
    <3>3. \A k \in Ids : pending'[k] # q
      BY <1>1, <1>2, <2>2, <3>1 DEF IdInv, ParkedOnce, None
    <3>4. \A r \in Reqs : r # q =>
            ((\E k \in Ids : pending'[k] = r) <=> (\E k \in Ids : pending[k] = r))
      BY <1>2, <3>1 DEF None
    <3> QED BY <3>2, <3>3, <3>4 DEF IdInv, OutstandingParked
  <2> QED BY <2>1, <2>2
<1>11. \A k \in Ids : Ahead(k)' = Ahead(k)
  BY DEF Ahead
<1>12. 0 \in Ids /\ ToCome' = ToCome
  BY IdSpaceIs DEF Ids, ToCome
<1>13. OrphansAhead'
  BY <1>1, <1>5, <1>11, <1>12 DEF IdInv, OrphansAhead
<1>14. ParkedBehind'
  BY <1>2, <1>11, <1>12 DEF IdInv, ParkedBehind
<1> QED BY <1>4, <1>6, <1>7, <1>8, <1>9, <1>10, <1>13, <1>14 DEF IdInv

LEMMA AwaitKeeps ==
  ASSUME IdInv, NEW j \in jobs, Await(j)
  PROVE  IdInv'
<1> DEFINE later == [j EXCEPT !.at = "running"]
<1>1. later \in Job /\ later.id = j.id /\ later.r = j.r
  BY DEF IdInv, Types, Job
<1>2. jobs' = (jobs \ {j}) \cup {later}
  BY DEF Await
<1> HIDE DEF later
<1>3. UNCHANGED <<kernel, nextId, pending, late, phase, nextFh, closes>>
  BY DEF Await, kernelVars, rustVars, fileVars, lifeVars
<1>4. Types'
  BY <1>1, <1>2, <1>3 DEF IdInv, Types
<1>5. IdsApart' /\ ParkedIsMine' /\ AllParked' /\ ParkedHasJob'
  BY <1>1, <1>2, <1>3 DEF IdInv, IdsApart, ParkedIsMine, AllParked, ParkedHasJob
<1>6. OrphansAhead' /\ ParkedBehind'
  BY <1>1, <1>2, <1>3 DEF IdInv, OrphansAhead, ParkedBehind, Ahead, ToCome
<1> QED BY <1>3, <1>4, <1>5, <1>6 DEF IdInv, ParkedOnce, OutstandingParked

\* Every reply is dropped, and no request to come will take a job's id.
LEMMA ClearKeeps == IdInv /\ ClearPending => IdInv'
<1> SUFFICES ASSUME IdInv, ClearPending PROVE IdInv'
  OBVIOUS
<1>1. /\ pending' = [id \in Ids |-> None] /\ kernel' = [r \in Reqs |-> Free]
      /\ phase' = "cleared" /\ UNCHANGED <<nextId, jobs, late, nextFh, closes>>
  BY DEF ClearPending, fileVars
<1>2. Types'
  BY <1>1 DEF IdInv, Types, Request, Phases, Detached, Cleared
<1>3. IdsApart' /\ ParkedIsMine' /\ ParkedHasJob' /\ ParkedOnce' /\ AllParked' /\ ParkedBehind'
  BY <1>1 DEF IdInv, Types, Job, IdsApart, ParkedIsMine, ParkedHasJob, ParkedOnce, AllParked, ParkedBehind,
              Cleared
<1>4. OutstandingParked'
  BY <1>1 DEF OutstandingParked, None
<1>5. OrphansAhead'
  <2>1. \A j \in jobs : Ahead(j.id) > MaxLate - late /\ Ahead(j.id) \in Int
    <3>1. \A j \in jobs : Ahead(j.id) \in Int
      BY Distance, IdSpaceIs DEF Ahead, IdInv, Types, Job, Ids
    <3> QED BY <3>1 DEF ClearPending, NoneTurned
  <2>2. late \in Int /\ ToCome' = ToCome /\ \A k : Ahead(k)' = Ahead(k)
    BY <1>1 DEF IdInv, Types, ToCome, Ahead
  <2> QED BY <1>1, <2>1, <2>2, IdSpaceIs DEF OrphansAhead, ToCome
<1> QED BY <1>2, <1>3, <1>4, <1>5 DEF IdInv

\* A step that touches neither requests nor ids.
LEMMA OthersKeep ==
  ASSUME IdInv, UNCHANGED <<nextId, pending, jobs, kernel, late, nextFh>>, phase' \in Phases,
         phase' \in Cleared <=> phase \in Cleared, closes' \in [Fhs -> Nat]
  PROVE  IdInv'
<1>1. Types' /\ ToCome' = ToCome /\ \A k : Ahead(k)' = Ahead(k)
  BY DEF IdInv, Types, ToCome, Ahead
<1> QED BY <1>1 DEF IdInv, IdsApart, ParkedIsMine, ParkedHasJob, ParkedOnce, OutstandingParked,
                    AllParked, OrphansAhead, ParkedBehind

LEMMA IdInit == Init => IdInv
<1> SUFFICES ASSUME Init PROVE IdInv
  OBVIOUS
<1>1. Types
  BY IdSpaceIs DEF Init, Types, Ids, Request, Phases
<1> QED BY <1>1 DEF Init, IdInv, IdsApart, ParkedIsMine, ParkedHasJob, ParkedOnce,
                    OutstandingParked, AllParked, OrphansAhead, ParkedBehind, Cleared, None

LEMMA IdStep == IdInv /\ [Next]_vars => IdInv'
<1> SUFFICES ASSUME IdInv, [Next]_vars PROVE IdInv'
  OBVIOUS
<1> USE DEF kernelVars, rustVars, fileVars, lifeVars
<1>0. nextFh \in Nat \ {0} /\ closes \in [Fhs -> Nat] /\ phase \in Phases
  BY DEF IdInv, Types
<1>1. ASSUME NEW r \in Reqs, NEW op \in Ops, NEW fh \in Fhs \cup {NoFh}, Ask(r, op, fh)
      PROVE  IdInv'
  BY <1>1, AskKeeps
<1>2. ASSUME NEW j \in jobs, JobStep(j) PROVE IdInv'
  <2>1. CASE Await(j)
    BY <2>1, AwaitKeeps
  <2>2. CASE BadHandle(j) \/ Settle(j)
    BY <1>0, <2>2, AnswerKeeps DEF BadHandle, Settle
  <2>3. CASE Release(j)
    <3>1. closes' \in [Fhs -> Nat]
      <4>1. closes' = [closes EXCEPT ![j.fh] = IF j.fh \in handles THEN closes[j.fh] + 1 ELSE closes[j.fh]]
        BY <2>3 DEF Release
      <4>2. CASE j.fh \in Fhs
        BY <1>0, <4>1, <4>2
      <4>3. CASE j.fh \notin Fhs
        BY <1>0, <4>1, <4>3
      <4> QED BY <4>2, <4>3
    <3> QED BY <1>0, <2>3, <3>1, AnswerKeeps DEF Release
  <2>4. CASE Opened(j)
    BY <1>0, <2>4, AnswerKeeps DEF Opened
  <2> QED BY <1>2, <2>1, <2>2, <2>3, <2>4 DEF JobStep
<1>3. CASE Invalidate \/ Notified \/ ThreadEnds
  BY <1>0, <1>3, OthersKeep DEF Invalidate, Notified, ThreadEnds
<1>4. CASE Unmount
  BY <1>0, <1>4, OthersKeep DEF Unmount, Phases, Cleared
<1>5. CASE Unmounting
  <2>1. CASE Detach
    BY <1>0, <2>1, OthersKeep DEF Detach, Phases, Detached, Cleared
  <2>2. CASE CloseAll
    <3>1. closes' \in [Fhs -> Nat]
      BY <1>0, <2>2 DEF CloseAll
    <3> QED BY <2>2, <3>1, OthersKeep DEF CloseAll, Phases, Detached, Cleared
  <2> QED BY <1>5, <2>1, <2>2, ClearKeeps DEF Unmounting
<1>6. CASE UNCHANGED vars
  BY <1>0, <1>6, OthersKeep DEF vars
<1> QED BY <1>1, <1>2, <1>3, <1>4, <1>5, <1>6 DEF Next

LEMMA IdInvariant == Spec => []IdInv
  BY IdInit, IdStep, PTL DEF Spec

-----------------------------------------------------------------------------
\* Files.  Releases are queued once for a file, which the kernel has given up.
Releases == {k \in jobs : k.op = "release"}
ReleasesApart ==
  /\ \A j \in Releases : j.at = "queued"
  /\ phase \notin Cleared =>
       /\ \A j \in Releases : j.fh \notin held
       /\ \A j, k \in Releases : j.fh = k.fh => j = k

Given(fh) == fh < nextFh
FilesGiven ==
  /\ handles \subseteq Fhs /\ held \subseteq Fhs
  /\ \A fh \in handles \cup held : Given(fh)

FileInv == IdInv /\ FilesGiven /\ ReleasesApart /\ HandlesMatchKernel

LEMMA FileInit == Init => FileInv
<1> SUFFICES ASSUME Init PROVE FileInv
  OBVIOUS
<1>1. HandlesMatchKernel
  BY DEF Init, HandlesMatchKernel, Fhs
<1> QED BY <1>1, IdInit DEF Init, FileInv, FilesGiven, ReleasesApart, Releases

LEMMA MatchIs ==
  HandlesMatchKernel /\ phase \in Phases <=>
    /\ phase \in Phases
    /\ phase \notin Cleared => handles = held \cup {j.fh : j \in Releases}
    /\ \A fh \in Fhs : closes[fh] = IF Given(fh) /\ fh \notin handles THEN 1 ELSE 0
  BY DEF HandlesMatchKernel, Phases, Detached, Cleared, Releases, Given

LEMMA AskKeepsFiles ==
  ASSUME FileInv, IdInv', NEW r \in Reqs, NEW op \in Ops, NEW fh \in Fhs \cup {NoFh}, Ask(r, op, fh)
  PROVE  FileInv'
<1>1. PICK id \in Ids :
        jobs' = jobs \cup {[id |-> id, r |-> r, op |-> op, fh |-> fh, at |-> "queued"]}
  BY DEF Ask
<1> DEFINE new == [id |-> id, r |-> r, op |-> op, fh |-> fh, at |-> "queued"]
<1>2. UNCHANGED <<handles, nextFh, closes, phase>>
  BY DEF Ask, fileVars
<1>3. new.op = op /\ new.fh = fh /\ new.at = "queued" /\ jobs' = jobs \cup {new}
  BY <1>1
<1> HIDE DEF new
<1>4. CASE op = "release"
  <2>1. fh \in held /\ held' = held \ {fh}
    BY <1>4 DEF Ask, CanAsk, Askable, TreeOps
  <2>2. Releases' = Releases \cup {new}
    BY <1>3, <1>4 DEF Releases
  <2>3. ReleasesApart'
    BY <1>2, <1>3, <2>1, <2>2 DEF FileInv, ReleasesApart
  <2>4. HandlesMatchKernel'
    BY <1>2, <1>3, <2>1, <2>2, MatchIs DEF FileInv, IdInv, Types, HandlesMatchKernel, Releases
  <2> QED BY <1>2, <2>1, <2>3, <2>4 DEF FileInv, FilesGiven, Given
<1>5. CASE op # "release"
  <2>1. held' = held /\ Releases' = Releases
    BY <1>3, <1>5 DEF Ask, CanAsk, Releases
  <2> QED BY <1>2, <2>1 DEF FileInv, FilesGiven, Given, ReleasesApart, HandlesMatchKernel, Releases
<1> QED BY <1>4, <1>5

LEMMA OpenedKeepsFiles ==
  ASSUME FileInv, IdInv', NEW j \in jobs, Opened(j)
  PROVE  FileInv'
<1>1. /\ nextFh \in Fhs /\ handles' = handles \cup {nextFh} /\ nextFh' = nextFh + 1
      /\ held' = IF pending[j.id] = None THEN held ELSE held \cup {nextFh}
      /\ UNCHANGED <<closes, phase>> /\ Releases' = Releases
  BY DEF Opened, lifeVars, Releases
<1>2. phase \notin Cleared => held' = held \cup {nextFh}
  BY <1>1 DEF FileInv, IdInv, AllParked
<1>3. nextFh \notin handles /\ nextFh \notin held /\ \A fh \in Fhs : fh \in Nat
  BY DEF FileInv, FilesGiven, Given, Fhs, IdInv, Types
<1>4. FilesGiven'
  BY <1>1, <1>3 DEF FileInv, FilesGiven, Given, Fhs
<1>5. phase \notin Cleared => \A k \in Releases : k.fh # nextFh
  BY <1>3, MatchIs DEF FileInv, IdInv, Types
<1>6. ReleasesApart'
  BY <1>1, <1>2, <1>5 DEF FileInv, ReleasesApart
<1>7. \A fh \in Fhs : Given(fh)' <=> Given(fh) \/ fh = nextFh
  BY <1>1, <1>3 DEF Given, FileInv, IdInv, Types
<1>8. HandlesMatchKernel'
  <2>1. phase' \in Phases /\ (phase' \notin Cleared => handles' = held' \cup {k.fh : k \in Releases'})
    BY <1>1, <1>2, MatchIs DEF FileInv, IdInv, Types
  <2>2. \A fh \in Fhs : closes[fh] = IF Given(fh) /\ fh \notin handles THEN 1 ELSE 0
    BY MatchIs DEF FileInv, IdInv, Types
  <2>3. ~Given(nextFh)
    BY <1>3 DEF Given, FileInv, IdInv, Types
  <2>4. \A fh \in Fhs : closes'[fh] = IF Given(fh)' /\ fh \notin handles' THEN 1 ELSE 0
    BY <1>1, <1>7, <2>2, <2>3
  <2> QED BY <2>1, <2>4 DEF HandlesMatchKernel, Phases, Detached, Cleared, Releases, Given
<1> QED BY <1>4, <1>6, <1>8 DEF FileInv

LEMMA ReleaseKeepsFiles ==
  ASSUME FileInv, IdInv', NEW j \in jobs, Release(j)
  PROVE  FileInv'
<1>1. /\ handles' = handles \ {j.fh} /\ UNCHANGED <<held, nextFh, phase>>
      /\ closes' = [closes EXCEPT ![j.fh] = IF j.fh \in handles THEN closes[j.fh] + 1 ELSE closes[j.fh]]
      /\ j \in Releases /\ Releases' = Releases \ {j}
  BY DEF Release, lifeVars, Releases
<1>2. ReleasesApart' /\ FilesGiven'
  BY <1>1 DEF FileInv, ReleasesApart, FilesGiven, Given
<1>3. phase \notin Cleared => handles' = held' \cup {k.fh : k \in Releases'}
  <2>1. phase \notin Cleared =>
          /\ handles = held \cup {k.fh : k \in Releases}
          /\ j.fh \notin held /\ \A k \in Releases : k.fh = j.fh => k = j
    BY <1>1, MatchIs DEF FileInv, IdInv, Types, ReleasesApart
  <2> QED BY <1>1, <2>1
<1>4. \A fh \in Fhs : closes[fh] = IF Given(fh) /\ fh \notin handles THEN 1 ELSE 0
  BY MatchIs DEF FileInv, IdInv, Types
<1>5. \A fh \in Fhs : closes'[fh] = IF Given(fh)' /\ fh \notin handles' THEN 1 ELSE 0
  <2> SUFFICES ASSUME NEW fh \in Fhs
               PROVE  closes'[fh] = IF Given(fh)' /\ fh \notin handles' THEN 1 ELSE 0
    OBVIOUS
  <2>1. Given(fh)' = Given(fh) /\ closes \in [Fhs -> Nat]
    BY <1>1 DEF Given, FileInv, IdInv, Types
  <2>2. CASE fh = j.fh /\ fh \in handles
    <3>1. Given(fh) /\ closes[fh] = 0
      BY <1>4, <2>2 DEF FileInv, FilesGiven
    <3> QED BY <1>1, <2>1, <2>2, <3>1
  <2>3. CASE fh # j.fh \/ fh \notin handles
    <3>1. closes'[fh] = closes[fh] /\ (fh \in handles' <=> fh \in handles)
      BY <1>1, <2>1, <2>3
    <3> QED BY <1>4, <2>1, <3>1
  <2> QED BY <2>2, <2>3
<1>6. HandlesMatchKernel'
  BY <1>1, <1>3, <1>5 DEF HandlesMatchKernel, Phases, Detached, Cleared, Releases, Given
<1> QED BY <1>2, <1>6 DEF FileInv

\* A step that leaves the files and the releases alone.
LEMMA OthersKeepFiles ==
  ASSUME FileInv, IdInv', UNCHANGED <<handles, held, nextFh, closes>>, Releases' = Releases,
         phase' \notin Cleared => phase \notin Cleared
  PROVE  FileInv'
<1>1. FilesGiven' /\ ReleasesApart'
  BY DEF FileInv, FilesGiven, Given, ReleasesApart
<1>2. HandlesMatchKernel'
  <2>1. phase' \notin Cleared => handles' = held' \cup {j.fh : j \in Releases'}
    BY MatchIs DEF FileInv, IdInv, Types
  <2> QED BY <2>1 DEF FileInv, HandlesMatchKernel, Cleared, Releases
<1> QED BY <1>1, <1>2 DEF FileInv

LEMMA FileStep == FileInv /\ [Next]_vars => FileInv'
<1> SUFFICES ASSUME FileInv, [Next]_vars PROVE FileInv'
  OBVIOUS
<1>0. IdInv'
  BY IdStep DEF FileInv
<1> USE DEF kernelVars, rustVars, fileVars, lifeVars
<1>1. ASSUME NEW r \in Reqs, NEW op \in Ops, NEW fh \in Fhs \cup {NoFh}, Ask(r, op, fh)
      PROVE  FileInv'
  BY <1>0, <1>1, AskKeepsFiles
<1>2. ASSUME NEW j \in jobs, JobStep(j) PROVE FileInv'
  <2>1. CASE Await(j)
    <3> DEFINE later == [j EXCEPT !.at = "running"]
    <3>1. later.op = j.op /\ j.op # "release" /\ jobs' = (jobs \ {j}) \cup {later}
      BY <2>1 DEF Await, FileInv, IdInv, Types, Job
    <3> HIDE DEF later
    <3>2. Releases' = Releases
      BY <3>1 DEF Releases
    <3> QED BY <1>0, <2>1, <3>2, OthersKeepFiles DEF Await
  <2>2. CASE BadHandle(j) \/ Settle(j)
    <3>1. j.op # "release"
      BY <2>2 DEF BadHandle, Settle, FileInv, ReleasesApart, Releases
    <3>2. Releases' = Releases /\ UNCHANGED <<handles, held, nextFh, closes, phase>>
      BY <2>2, <3>1 DEF BadHandle, Settle, Releases
    <3> QED BY <1>0, <3>2, OthersKeepFiles
  <2> QED BY <1>0, <1>2, <2>1, <2>2, ReleaseKeepsFiles, OpenedKeepsFiles DEF JobStep
<1>3. CASE Invalidate \/ Notified \/ ThreadEnds \/ Unmount \/ Detach \/ ClearPending
  <2>1. Releases' = Releases /\ UNCHANGED <<handles, held, nextFh, closes>>
    BY <1>3 DEF Invalidate, Notified, ThreadEnds, Unmount, Detach, ClearPending, Releases
  <2>2. phase' \notin Cleared => phase \notin Cleared
    BY <1>3 DEF Invalidate, Notified, ThreadEnds, Unmount, Detach, ClearPending, Cleared
  <2> QED BY <1>0, <2>1, <2>2, OthersKeepFiles
<1>4. CASE CloseAll
  <2>1. /\ handles' = {} /\ phase' = "unmounted" /\ UNCHANGED <<held, nextFh, jobs>>
        /\ closes' = [fh \in Fhs |-> IF fh \in handles THEN closes[fh] + 1 ELSE closes[fh]]
    BY <1>4 DEF CloseAll
  <2>2. FilesGiven' /\ ReleasesApart'
    BY <2>1 DEF FileInv, FilesGiven, Given, ReleasesApart, Releases, Cleared
  <2>3. \A fh \in Fhs : closes[fh] = IF Given(fh) /\ fh \notin handles THEN 1 ELSE 0
    BY MatchIs DEF FileInv, IdInv, Types
  <2>4. \A fh \in Fhs : closes'[fh] = IF Given(fh)' THEN 1 ELSE 0
    BY <2>1, <2>3 DEF FileInv, FilesGiven, Given
  <2>5. HandlesMatchKernel'
    BY <2>1, <2>4 DEF HandlesMatchKernel, Given
  <2> QED BY <1>0, <2>2, <2>5 DEF FileInv
<1>5. CASE UNCHANGED vars
  BY <1>0, <1>5, OthersKeepFiles DEF vars, Releases
<1> QED BY <1>1, <1>2, <1>3, <1>4, <1>5 DEF Next, Unmounting

-----------------------------------------------------------------------------
\* What JavaScript answers by id (reply_*, lib.rs:721-861) reaches the request whose
\* id it was or none, and every outstanding request has one reply parked that a job
\* will find: for any number of ids and requests, with ids that wrap past parked
\* ones and past 0, and with the replies an unmount drops.
THEOREM AnswersReachTheirRequest == Spec => []RepliesReachTheirRequest
<1>1. ASSUME IdInv PROVE RepliesReachTheirRequest
  <2>1. ASSUME NEW r \in Reqs, kernel[r] # Free
        PROVE  /\ Cardinality({id \in Ids : pending[id] = r}) = 1
               /\ \E j \in jobs : pending[j.id] = r
    <3>1. PICK id \in Ids : pending[id] = r
      BY <1>1, <2>1 DEF IdInv, OutstandingParked
    <3>2. {k \in Ids : pending[k] = r} = {id}
      BY <1>1, <3>1 DEF IdInv, ParkedOnce, None
    <3>3. \E j \in jobs : j.id = id
      BY <1>1, <3>1 DEF IdInv, ParkedHasJob, None
    <3> QED BY <3>1, <3>2, <3>3, FS_Singleton
  <2> QED BY <1>1, <2>1 DEF RepliesReachTheirRequest, IdInv, ParkedIsMine
<1> QED BY <1>1, IdInvariant, PTL

\* Of distances the counter has some is the least.
LEMMA LeastAhead ==
  ASSUME NEW S \in SUBSET Ids, S # {}, nextId \in Ids
  PROVE  \E id \in S : \A k \in S : Ahead(id) <= Ahead(k)
<1> DEFINE R == OpToRel(<, Nat)
           T == {Ahead(k) : k \in S}
<1>1. \A k \in S : Ahead(k) \in Nat
  <2> SUFFICES ASSUME NEW k \in S PROVE Ahead(k) \in Nat
    OBVIOUS
  <2>1. Ahead(k) = IF k >= nextId THEN k - nextId ELSE k + IdSpace - nextId
    BY Distance DEF Ahead
  <2> QED BY <2>1, IdSpaceIs DEF Ids
<1>2. IsWellFoundedOn(R, Nat)
  BY NatLessThanWellFounded
<1>3. T \subseteq Nat /\ T # {}
  BY <1>1
<1> HIDE DEF R, T
<1>4. PICK least \in T : \A d \in T : ~(<<d, least>> \in R)
  BY <1>2, <1>3, WFMin
<1>5. PICK id \in S : least = Ahead(id)
  BY DEF T
<1>6. ASSUME NEW k \in S PROVE Ahead(id) <= Ahead(k)
  <2>1. Ahead(k) \in T
    BY DEF T
  <2>2. Ahead(k) \in Nat /\ Ahead(id) \in Nat
    BY <1>1
  <2>3. ~(Ahead(k) < Ahead(id))
    BY <1>4, <1>5, <2>1, <2>2 DEF R, OpToRel
  <2> QED BY <2>2, <2>3
<1> QED BY <1>6

\* A request takes an id however many are parked: no more than there are requests,
\* each once, and there are more ids besides 0.  The loop of dispatch (lib.rs:182)
\* therefore ends, also when the ids have wrapped.
THEOREM IdAlwaysFound == Spec => []IdFound
<1>1. ASSUME IdInv PROVE IdFound
  <2> DEFINE Parked == {id \in Ids : pending[id] # None}
             named == [id \in Parked |-> pending[id]]
             U == {id \in Ids : Usable(id)}
  <2>1. nextId \in Ids /\ pending \in [Ids -> Reqs \cup {None}]
    BY <1>1 DEF IdInv, Types
  <2>2. named \in Injection(Parked, Reqs)
    <3>1. named \in [Parked -> Reqs]
      BY <2>1
    <3>2. \A a, b \in Parked : named[a] = named[b] => a = b
      BY <1>1 DEF IdInv, ParkedOnce
    <3> QED BY <3>1, <3>2 DEF Injection, IsInjective
  <2> HIDE DEF named, Parked
  <2>3. IsFiniteSet(Parked) /\ Cardinality(Parked) <= Cardinality(Reqs)
    BY <2>2, FS_Injection
  <2>4. Cardinality(Reqs) \in Nat /\ Cardinality(Parked) \in Nat
    BY <2>3, FS_CardinalityType
  <2>5. U # {}
    <3>1. SUFFICES ASSUME U = {} PROVE FALSE
      OBVIOUS
    <3>2. 1 .. IdSpace - 1 \subseteq Parked
      BY <3>1 DEF Parked, Usable, Ids
    <3>3. Cardinality(1 .. IdSpace - 1) = IdSpace - 1
      BY IdSpaceIs, FS_Interval
    <3>4. IdSpace - 1 <= Cardinality(Parked)
      BY <2>3, <3>2, <3>3, FS_Subset
    <3> QED BY <2>3, <2>4, <3>4, IdSpaceIs
  <2>6. PICK id \in U : \A k \in U : Ahead(id) <= Ahead(k)
    BY <2>1, <2>5, LeastAhead
  <2> QED BY <2>6 DEF IdFound, Fresh
<1> QED BY <1>1, IdInvariant, PTL

\* Until an unmount the session's handles are the files the kernel has open and those
\* being released; whatever releases, opens and an unmount do to each other, a handle
\* that left the table (mount.ts:247-271, 366-375) was closed, and once.
THEOREM SessionHasKernelsFiles == Spec => []HandlesMatchKernel
<1>1. FileInv => HandlesMatchKernel
  BY DEF FileInv
<1> QED BY <1>1, FileInit, FileStep, PTL DEF Spec
=============================================================================
