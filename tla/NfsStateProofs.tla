--------------------------- MODULE NfsStateProofs ---------------------------
(***************************************************************************)
(* Proofs about NfsState.  The inductive invariant is TypeOK with what the *)
(* places of the asynchronous calls imply (TasksWhole), the agreement of   *)
(* the two client maps, and who owns a file handle (Ownership): the open   *)
(* table, the list of one task that closes handles, or nobody any more.    *)
(***************************************************************************)
EXTENDS NfsState, TLAPS

\* What the place of a task says of its other fields.
TasksWhole ==
  \A t \in Tasks :
    /\ task[t].at \in {"lookup", "open"} => task[t].client \in Ids /\ task[t].file \in Files
    /\ task[t].at \notin {"close", "sweep"} => task[t].todo = {} /\ task[t].gone = {}

USE ConstantsAssumption DEF ConstantsAssumption, Ids, None, Handles, Tasks

-----------------------------------------------------------------------------
\* The loop over handles to close leaves every table and task of its type.
LEMMA TurnTyped ==
  ASSUME TypeOK, TasksWhole,
         NEW t \in Tasks, NEW place \in {"close", "sweep"}, NEW done \in {"ready", "idle"},
         NEW todo \in SUBSET Handles, NEW gone \in SUBSET Ids,
         Turn(t, place, todo, gone, opens, done)
  PROVE  /\ opens' \subseteq opens
         /\ closes' \in [Handles -> Nat]
         /\ task' \in [Tasks -> Task]
         /\ TasksWhole'
<1> USE DEF TypeOK, TasksWhole, Task, Places, At, Closing
<1>1. CASE CloseNext(t, place, todo, gone, opens)
  <2>1. PICK h \in todo :
          /\ CloseHandle(h) /\ opens' = opens
          /\ task' = [task EXCEPT ![t] = Closing(place, todo \ {h}, gone)]
    BY <1>1 DEF CloseNext
  <2>2. Closing(place, todo \ {h}, gone) \in Task
    OBVIOUS
  <2>3. task' \in [Tasks -> Task] /\ TasksWhole'
    BY <2>1, <2>2
  <2>4. closes' \in [Handles -> Nat]
    BY <2>1 DEF CloseHandle
  <2> QED BY <2>1, <2>3, <2>4
<1>2. CASE RemoveNext(t, place, gone, opens)
  <2>1. PICK c \in gone : \E h \in HandlesOf(OpensOf(opens, c)) :
          /\ CloseHandle(h) /\ opens' = opens \ OpensOf(opens, c)
          /\ task' = [task EXCEPT ![t] = Closing(place, HandlesOf(OpensOf(opens, c)) \ {h},
                                                 {d \in gone : d > c})]
    BY <1>2 DEF RemoveNext
  <2>2. HandlesOf(OpensOf(opens, c)) \subseteq Handles
    BY DEF HandlesOf, OpensOf, OpenRecord
  <2>3. PICK h \in HandlesOf(OpensOf(opens, c)) :
          /\ CloseHandle(h) /\ opens' = opens \ OpensOf(opens, c)
          /\ task' = [task EXCEPT ![t] = Closing(place, HandlesOf(OpensOf(opens, c)) \ {h},
                                                 {d \in gone : d > c})]
    BY <2>1
  <2>4. Closing(place, HandlesOf(OpensOf(opens, c)) \ {h}, {d \in gone : d > c}) \in Task
    BY <2>2
  <2>5. task' \in [Tasks -> Task] /\ TasksWhole'
    BY <2>3, <2>4
  <2>6. closes' \in [Handles -> Nat]
    BY <2>2, <2>3 DEF CloseHandle
  <2> QED BY <2>3, <2>5, <2>6
<1>3. CASE LoopEnds(t, gone, opens, done)
  BY <1>3 DEF LoopEnds
<1> QED BY <1>1, <1>2, <1>3 DEF Turn


\* The client table holds a record of the same owner for every id issued.
KeepsRecords(new) ==
  /\ new \in [Ids -> ClientRecord \cup {NoRecord}]
  /\ \A d \in 1 .. issued : new[d] \in ClientRecord /\ new[d].owner = record[d].owner

LEMMA IdsIssued ==
  ASSUME TypeOK
  PROVE  byId \subseteq 1 .. issued /\ 1 .. issued \subseteq Ids
BY DEF TypeOK

LEMMA RecordSet ==
  ASSUME TypeOK, NEW c \in 1 .. issued, NEW q \in ClientRecord, q.owner = record[c].owner
  PROVE  KeepsRecords([record EXCEPT ![c] = q])
<1> DEFINE new == [record EXCEPT ![c] = q]
<1>1. record \in [Ids -> ClientRecord \cup {NoRecord}]
  BY DEF TypeOK
<1>2. \A d \in 1 .. issued : record[d] \in ClientRecord
  BY DEF TypeOK
<1>3. new \in [Ids -> ClientRecord \cup {NoRecord}]
  BY <1>1, IdsIssued
<1>4. ASSUME NEW d \in 1 .. issued
      PROVE  new[d] \in ClientRecord /\ new[d].owner = record[d].owner
  <2>1. CASE d = c
    BY <1>1, <2>1, IdsIssued
  <2>2. CASE d # c
    BY <1>1, <1>2, <2>2, IdsIssued
  <2> QED BY <2>1, <2>2
<1> QED BY <1>3, <1>4 DEF KeepsRecords

\* What the operations do to one record.
LEMMA RecordFields ==
  ASSUME NEW r \in ClientRecord, NEW k \in 1 .. MaxConfirms, NEW i \in 0 .. IdleLimit + 1
  PROVE  /\ [r EXCEPT !.idle = i] \in ClientRecord
         /\ [r EXCEPT !.confirm = k, !.idle = i] \in ClientRecord
         /\ [r EXCEPT !.confirmed = TRUE, !.idle = i] \in ClientRecord
         /\ [r EXCEPT !.idle = i].owner = r.owner
         /\ [r EXCEPT !.confirm = k, !.idle = i].owner = r.owner
         /\ [r EXCEPT !.confirmed = TRUE, !.idle = i].owner = r.owner
BY DEF ClientRecord

LEMMA IdleRange == 0 \in 0 .. IdleLimit + 1 /\ 1 \in 1 .. MaxConfirms
OBVIOUS

\* A record that was just heard of.
LEMMA Reset ==
  ASSUME NEW r \in ClientRecord
  PROVE  /\ [r EXCEPT !.confirmed = TRUE, !.idle = 0] \in ClientRecord
         /\ [r EXCEPT !.confirmed = TRUE, !.idle = 0].owner = r.owner
         /\ \A k \in 1 .. MaxConfirms :
              /\ [r EXCEPT !.confirm = k, !.idle = 0] \in ClientRecord
              /\ [r EXCEPT !.confirm = k, !.idle = 0].owner = r.owner
BY IdleRange DEF ClientRecord

\* A renewed lease changes no more than the time a record was last heard of.
LEMMA RenewedTyped ==
  ASSUME TypeOK, NEW c
  PROVE  KeepsRecords(Renewed(c))
<1>1. CASE ~CanRenew(c)
  BY <1>1 DEF TypeOK, Renewed, KeepsRecords
<1>2. CASE CanRenew(c)
  <2>1. c \in 1 .. issued /\ record[c] \in ClientRecord
    BY <1>2 DEF CanRenew, TypeOK
  <2>2. /\ [record[c] EXCEPT !.idle = 0] \in ClientRecord
        /\ [record[c] EXCEPT !.idle = 0].owner = record[c].owner
    BY <2>1, RecordFields, IdleRange
  <2>3. Renewed(c) = [record EXCEPT ![c] = [record[c] EXCEPT !.idle = 0]]
    BY <1>2, <2>1 DEF Renewed, TypeOK
  <2> QED BY <2>1, <2>2, <2>3, RecordSet
<1> QED BY <1>1, <1>2

\* An action that only sets one task.
LEMMA TaskSet ==
  ASSUME TypeOK, TasksWhole, NEW t \in Tasks, NEW new \in Task,
         new.at \in {"lookup", "open"} => new.client \in Ids /\ new.file \in Files,
         new.at \notin {"close", "sweep"} => new.todo = {} /\ new.gone = {},
         task' = [task EXCEPT ![t] = new]
  PROVE  task' \in [Tasks -> Task] /\ TasksWhole'
BY DEF TypeOK, TasksWhole

LEMMA TypeInit == Init => TypeOK /\ TasksWhole
BY DEF Init, TypeOK, TasksWhole, Task, Places, At

-----------------------------------------------------------------------------
\* The actions that write the client table keep a record for every id issued.
LEMMA RecordsStep ==
  ASSUME TypeOK
  PROVE  /\ \A t \in Calls, o \in Owners, b \in Boots :
              SetClientIdAgain(t, o, b) => KeepsRecords(record')
         /\ \A t \in Calls, c \in Ids, k \in 1 .. MaxConfirms :
              SetClientIdConfirm(t, c, k) => KeepsRecords(record')
         /\ Tick => KeepsRecords(record')
<1>1. ASSUME NEW t \in Calls, NEW o \in Owners, NEW b \in Boots, SetClientIdAgain(t, o, b)
      PROVE  KeepsRecords(record')
  <2> DEFINE c == byOwner[o]
  <2>1. c \in 1 .. issued /\ record[c] \in ClientRecord
    BY <1>1 DEF SetClientIdAgain, TypeOK
  <2>2. record[c].confirm + 1 \in 1 .. MaxConfirms
    BY <1>1, <2>1 DEF SetClientIdAgain, ClientRecord
  <2>3. record' = [record EXCEPT ![c] = [record[c] EXCEPT !.confirm = record[c].confirm + 1,
                                                         !.idle = 0]]
    BY <1>1, <2>1 DEF SetClientIdAgain, TypeOK
  <2> DEFINE again == [record[c] EXCEPT !.confirm = record[c].confirm + 1, !.idle = 0]
  <2>4. again \in ClientRecord /\ again.owner = record[c].owner
    BY <2>1, <2>2, Reset
  <2> HIDE DEF again
  <2> QED BY <2>1, <2>3, <2>4, RecordSet DEF again
<1>2. ASSUME NEW t \in Calls, NEW c \in Ids, NEW k \in 1 .. MaxConfirms, SetClientIdConfirm(t, c, k)
      PROVE  KeepsRecords(record')
  <2>1. c \in 1 .. issued /\ record[c] \in ClientRecord
    BY <1>2 DEF SetClientIdConfirm, TypeOK
  <2>2. record' = [record EXCEPT ![c] = [record[c] EXCEPT !.confirmed = TRUE, !.idle = 0]]
    BY <1>2, <2>1 DEF SetClientIdConfirm, TypeOK
  <2> DEFINE sure == [record[c] EXCEPT !.confirmed = TRUE, !.idle = 0]
  <2>3. sure \in ClientRecord /\ sure.owner = record[c].owner
    BY <2>1, Reset
  <2> HIDE DEF sure
  <2> QED BY <2>1, <2>2, <2>3, RecordSet DEF sure
<1>3. ASSUME Tick PROVE KeepsRecords(record')
  <2> DEFINE older(c) == [record[c] EXCEPT !.idle = record[c].idle + 1]
  <2>1. \A c \in 1 .. issued : record[c] \in ClientRecord
    BY DEF TypeOK
  <2>2. ASSUME NEW c \in byId, record[c].idle <= IdleLimit
        PROVE  older(c) \in ClientRecord /\ older(c).owner = record[c].owner
    <3>1. record[c] \in ClientRecord
      BY <2>1, IdsIssued
    <3>2. record[c].idle + 1 \in 0 .. IdleLimit + 1
      BY <2>2, <3>1 DEF ClientRecord
    <3> QED BY <3>1, <3>2, RecordFields, IdleRange
  <2>3. record' = [c \in Ids |-> IF c \in byId /\ record[c].idle <= IdleLimit
                                 THEN older(c) ELSE record[c]]
    BY <1>3 DEF Tick
  <2>4. record \in [Ids -> ClientRecord \cup {NoRecord}]
    BY DEF TypeOK
  <2> HIDE DEF older
  <2> QED BY <2>1, <2>2, <2>3, <2>4, IdsIssued DEF KeepsRecords
<1> QED BY <1>1, <1>2, <1>3

\* Each action keeps the types.
LEMMA TypeStep == TypeOK /\ TasksWhole /\ [Next]_vars => TypeOK' /\ TasksWhole'
<1> SUFFICES ASSUME TypeOK, TasksWhole, [Next]_vars PROVE TypeOK' /\ TasksWhole'
  OBVIOUS
<1> USE DEF clientVars, openVars, serverVars
<1>1. ASSUME NEW t \in Calls, Arrive(t) \/ Finish(t) PROVE TypeOK' /\ TasksWhole'
  <2>1. \A place \in {"ready", "idle"} : At(place) \in Task
    BY DEF At, Task, Places
  <2>2. task' \in [Tasks -> Task] /\ TasksWhole'
    BY <1>1, <2>1, TaskSet DEF Arrive, Finish, At
  <2> QED BY <1>1, <2>2 DEF Arrive, Finish, TypeOK
<1>2. ASSUME NEW t \in Calls, NEW o \in Owners, NEW b \in Boots, SetClientIdAgain(t, o, b)
      PROVE  TypeOK' /\ TasksWhole'
  BY <1>2, RecordsStep DEF SetClientIdAgain, TypeOK, TasksWhole, KeepsRecords
<1>3. ASSUME NEW t \in Calls, NEW o \in Owners, NEW b \in Boots, SetClientIdNew(t, o, b)
      PROVE  TypeOK' /\ TasksWhole'
  <2> DEFINE old == byOwner[o]
             replaced == IF old # None /\ record[old].confirmed THEN {old} ELSE {}
  <2>1. replaced \in SUBSET Ids
    BY DEF TypeOK
  <2>2. Turn(t, "close", {}, replaced, opens, "ready")
    BY <1>3 DEF SetClientIdNew
  <2>3. /\ opens' \subseteq opens /\ closes' \in [Handles -> Nat]
        /\ task' \in [Tasks -> Task] /\ TasksWhole'
    BY <2>1, <2>2, TurnTyped
  <2>4. [owner |-> o, boot |-> b, confirm |-> 1, confirmed |-> FALSE, idle |-> 0] \in ClientRecord
    BY DEF ClientRecord
  <2>5. record' \in [Ids -> ClientRecord \cup {NoRecord}]
    BY <1>3, <2>4 DEF SetClientIdNew, TypeOK
  <2>6. \A c \in 1 .. issued' : record'[c] \in ClientRecord
    BY <1>3, <2>4 DEF SetClientIdNew, TypeOK
  <2>7. /\ issued' \in 0 .. MaxIssued /\ byId' \subseteq 1 .. issued'
        /\ byOwner' \in [Owners -> 0 .. issued']
    BY <1>3 DEF SetClientIdNew, TypeOK
  <2> QED BY <1>3, <2>3, <2>5, <2>6, <2>7 DEF SetClientIdNew, TypeOK
<1>4. ASSUME NEW t \in Calls, NEW c \in Ids, NEW k \in 1 .. MaxConfirms, SetClientIdConfirm(t, c, k)
      PROVE  TypeOK' /\ TasksWhole'
  BY <1>4, RecordsStep DEF SetClientIdConfirm, TypeOK, TasksWhole, KeepsRecords
<1>5. ASSUME NEW t \in Calls, NEW c \in Ids, Renew(t, c) PROVE TypeOK' /\ TasksWhole'
  BY <1>5, RenewedTyped DEF Renew, TypeOK, TasksWhole, KeepsRecords
<1>6. ASSUME NEW t \in Calls, NEW c \in Ids, NEW f \in Files, Open(t, c, f)
      PROVE  TypeOK' /\ TasksWhole'
  <2>1. Opening("lookup", c, f) \in Task
    BY DEF Opening, At, Task, Places
  <2>2. task' \in [Tasks -> Task] /\ TasksWhole'
    BY <1>6, <2>1, TaskSet DEF Open, Opening, At
  <2> QED BY <1>6, <2>2, RenewedTyped DEF Open, TypeOK, KeepsRecords
<1>7. ASSUME NEW t \in Calls, NEW o \in opens, Read(t, o) PROVE TypeOK' /\ TasksWhole'
  <2>1. Reading(o.handle) \in Task
    BY DEF TypeOK, OpenRecord, Reading, At, Task, Places
  <2>2. task' \in [Tasks -> Task] /\ TasksWhole'
    BY <1>7, <2>1, TaskSet DEF Read, Reading, At
  <2> QED BY <1>7, <2>2, RenewedTyped DEF Read, TypeOK, KeepsRecords
<1>8. ASSUME NEW t \in Calls, NEW o \in opens, Close(t, o) PROVE TypeOK' /\ TasksWhole'
  <2>1. Closing("close", {}, {}) \in Task
    BY DEF Closing, At, Task, Places
  <2>2. task' \in [Tasks -> Task] /\ TasksWhole'
    BY <1>8, <2>1, TaskSet DEF Close, Closing, At
  <2>3. closes' \in [Handles -> Nat]
    BY <1>8 DEF Close, CloseHandle, TypeOK, OpenRecord
  <2> QED BY <1>8, <2>2, <2>3, RenewedTyped DEF Close, TypeOK, KeepsRecords
<1>9. ASSUME NEW t \in Tasks, OpenFound(t) \/ OpenFails(t) \/ ReadDone(t)
      PROVE  TypeOK' /\ TasksWhole'
  <2>1. \A place \in {"ready", "idle"} : At(place) \in Task
    BY DEF At, Task, Places
  <2>2. CASE OpenFound(t)
    <3>0. task[t] \in Task
      BY DEF TypeOK
    <3>1. [task[t] EXCEPT !.at = "open"] \in Task
      BY <3>0 DEF Task, Places
    <3>2. task' = [task EXCEPT ![t] = [task[t] EXCEPT !.at = "open"]]
      BY <2>2 DEF OpenFound, TypeOK
    <3>3. task[t].client \in Ids /\ task[t].file \in Files /\ task[t].todo = {} /\ task[t].gone = {}
      BY <2>2 DEF OpenFound, TasksWhole
    <3> DEFINE next == [task[t] EXCEPT !.at = "open"]
    <3>4. /\ next.at = "open" /\ next.client = task[t].client /\ next.file = task[t].file
          /\ next.todo = task[t].todo /\ next.gone = task[t].gone
      BY <3>0 DEF Task
    <3> HIDE DEF next
    <3>5. task' \in [Tasks -> Task] /\ TasksWhole'
      BY <3>1, <3>2, <3>3, <3>4, TaskSet DEF next
    <3> QED BY <2>2, <3>5 DEF OpenFound, TypeOK
  <2>3. CASE OpenFails(t)
    <3>1. task' \in [Tasks -> Task] /\ TasksWhole'
      BY <2>1, <2>3, TaskSet DEF OpenFails, At
    <3> QED BY <2>3, <3>1 DEF OpenFails, TypeOK
  <2>4. CASE ReadDone(t)
    <3>1. task' \in [Tasks -> Task] /\ TasksWhole'
      BY <2>1, <2>4, TaskSet DEF ReadDone, At
    <3> QED BY <2>4, <3>1 DEF ReadDone, TypeOK
  <2> QED BY <1>9, <2>2, <2>3, <2>4
<1>10. ASSUME NEW t \in Tasks, OpenCreate(t) PROVE TypeOK' /\ TasksWhole'
  <2>1. At("ready") \in Task
    BY DEF At, Task, Places
  <2>2. task' \in [Tasks -> Task] /\ TasksWhole'
    BY <1>10, <2>1, TaskSet DEF OpenCreate, At
  <2>3. [handle |-> opened + 1, client |-> task[t].client, file |-> task[t].file] \in OpenRecord
    BY <1>10 DEF OpenCreate, OpenRecord, TypeOK, TasksWhole
  <2> QED BY <1>10, <2>2, <2>3 DEF OpenCreate, TypeOK
<1>11. ASSUME NEW t \in Tasks, Closed(t) PROVE TypeOK' /\ TasksWhole'
  <2>1. task[t].todo \in SUBSET Handles /\ task[t].gone \in SUBSET Ids
    BY DEF TypeOK, Task
  <2>2. /\ opens' \subseteq opens /\ closes' \in [Handles -> Nat]
        /\ task' \in [Tasks -> Task] /\ TasksWhole'
    BY <1>11, <2>1, TurnTyped DEF Closed
  <2> QED BY <1>11, <2>2 DEF Closed, TypeOK
<1>12. ASSUME NEW s \in Sweepers, Sweep(s) PROVE TypeOK' /\ TasksWhole'
  <2>1. Expired \in SUBSET Ids
    BY IdsIssued DEF Expired
  <2>2. /\ opens' \subseteq opens /\ closes' \in [Handles -> Nat]
        /\ task' \in [Tasks -> Task] /\ TasksWhole'
    BY <1>12, <2>1, TurnTyped DEF Sweep
  <2>3. byId' \subseteq 1 .. issued /\ byOwner' \in [Owners -> 0 .. issued]
    <3>1. byId \subseteq 1 .. issued /\ byOwner \in [Owners -> 0 .. issued] /\ issued \in Nat
      BY DEF TypeOK
    <3>2. /\ byId' = byId \ Expired
          /\ byOwner' = [o \in Owners |-> IF \E c \in Expired : record[c].owner = o
                                           THEN None ELSE byOwner[o]]
      BY <1>12 DEF Sweep
    <3>3. \A o \in Owners : byOwner'[o] \in 0 .. issued
      BY <3>1, <3>2
    <3> QED BY <3>1, <3>2, <3>3
  <2> QED BY <1>12, <2>2, <2>3 DEF Sweep, TypeOK
<1>13. CASE Tick
  BY <1>13, RecordsStep DEF Tick, TypeOK, TasksWhole, KeepsRecords
<1>14. CASE Shutdown
  <2>1. CASE Stop
    BY <1>14, <2>1 DEF Stop, TypeOK, TasksWhole
  <2>2. ASSUME NEW left \in SUBSET Handles, CloseDoomed(left), UNCHANGED <<clientVars, opened, task>>
        PROVE  TypeOK' /\ TasksWhole'
    <3>1. /\ opens' \subseteq opens /\ doomed' \subseteq Handles
          /\ server' \in {"closing", "down"}
      BY <2>2 DEF CloseDoomed
    <3>2. closes' \in [Handles -> Nat]
      BY <2>2 DEF CloseDoomed, CloseHandle, TypeOK
    <3> QED BY <2>2, <3>1, <3>2 DEF TypeOK, TasksWhole
  <2>3. HandlesOf(opens) \in SUBSET Handles
    BY DEF HandlesOf, TypeOK, OpenRecord
  <2> QED BY <1>14, <2>1, <2>2, <2>3 DEF Shutdown, StopRpcClosed, StopNext, TypeOK
<1>15. CASE UNCHANGED vars
  BY <1>15 DEF vars, TypeOK, TasksWhole
<1> QED BY <1>1, <1>2, <1>3, <1>4, <1>5, <1>6, <1>7, <1>8, <1>9, <1>10, <1>11, <1>12,
           <1>13, <1>14, <1>15 DEF Next, Operation, Settle, Down

\* Every variable keeps its type.
THEOREM TypeCorrect == Spec => []TypeOK
<1>1. Spec => [](TypeOK /\ TasksWhole)
  BY TypeInit, TypeStep, PTL DEF Spec
<1> QED BY <1>1, PTL

-----------------------------------------------------------------------------
\* The actions that leave byId and byOwner alone keep every record's owner.
LEMMA MapsKept ==
  ASSUME TypeOK, ClientTablesAgree, KeepsRecords(record'), UNCHANGED <<byId, byOwner>>
  PROVE  ClientTablesAgree'
<1>1. \A c \in byId : record'[c].owner = record[c].owner
  BY IdsIssued DEF KeepsRecords
<1> QED BY <1>1 DEF ClientTablesAgree

LEMMA AgreeNew ==
  ASSUME TypeOK, ClientTablesAgree,
         NEW t \in Calls, NEW o \in Owners, NEW b \in Boots, SetClientIdNew(t, o, b)
  PROVE  ClientTablesAgree'
<1> DEFINE old == byOwner[o]
           new == issued + 1
<1>1. /\ byId' = (byId \ {old}) \cup {new}
      /\ byOwner' = [byOwner EXCEPT ![o] = new]
      /\ record' = [record EXCEPT ![new] = [owner |-> o, boot |-> b, confirm |-> 1,
                                            confirmed |-> FALSE, idle |-> 0]]
      /\ new \in Ids
  BY DEF SetClientIdNew
<1>2. /\ new \notin byId /\ new # None
      /\ record'[new].owner = o
      /\ \A c \in byId : record'[c] = record[c]
  BY <1>1, IdsIssued DEF TypeOK
<1>3. byOwner'[o] = new /\ \A p \in Owners \ {o} : byOwner'[p] = byOwner[p]
  BY <1>1 DEF TypeOK
<1>4. \A c \in byId : record[c].owner \in Owners
  BY IdsIssued DEF TypeOK, ClientRecord
<1>5. ASSUME NEW c \in byId' PROVE byOwner'[record'[c].owner] = c
  <2>1. CASE c = new
    BY <1>2, <1>3, <2>1
  <2>2. CASE c # new
    <3>1. c \in byId /\ c # old /\ record'[c].owner = record[c].owner
      BY <1>1, <1>2, <1>5, <2>2
    <3>2. record[c].owner # o
      BY <3>1 DEF ClientTablesAgree
    <3> QED BY <1>3, <1>4, <3>1, <3>2 DEF ClientTablesAgree
  <2> QED BY <2>1, <2>2
<1>6. ASSUME NEW p \in Owners, byOwner'[p] # None
      PROVE  byOwner'[p] \in byId' /\ record'[byOwner'[p]].owner = p
  <2>1. CASE p = o
    BY <1>1, <1>2, <1>3, <2>1
  <2>2. CASE p # o
    <3>1. byOwner'[p] = byOwner[p] /\ byOwner[p] \in byId /\ record[byOwner[p]].owner = p
      BY <1>3, <1>6, <2>2 DEF ClientTablesAgree
    <3>2. byOwner[p] # old
      <4>1. byOwner[p] = old => record[old].owner = o
        BY <1>6, <3>1 DEF ClientTablesAgree
      <4> QED BY <2>2, <3>1, <4>1
    <3> QED BY <1>1, <1>2, <3>1, <3>2
  <2> QED BY <2>1, <2>2
<1> QED BY <1>5, <1>6 DEF ClientTablesAgree

LEMMA AgreeSweep ==
  ASSUME TypeOK, ClientTablesAgree, NEW s \in Sweepers, Sweep(s)
  PROVE  ClientTablesAgree'
<1>1. /\ byId' = byId \ Expired /\ record' = record
      /\ byOwner' = [o \in Owners |-> IF \E c \in Expired : record[c].owner = o
                                       THEN None ELSE byOwner[o]]
  BY DEF Sweep
<1>2. Expired \subseteq byId /\ \A c \in byId : record[c].owner \in Owners
  BY IdsIssued DEF Expired, TypeOK, ClientRecord
<1>3. ASSUME NEW c \in byId' PROVE byOwner'[record'[c].owner] = c
  <2>1. c \in byId /\ c \notin Expired /\ byOwner[record[c].owner] = c
    BY <1>1, <1>3 DEF ClientTablesAgree
  <2>2. \A d \in Expired : record[d].owner # record[c].owner
    BY <1>2, <2>1 DEF ClientTablesAgree
  <2> QED BY <1>1, <1>2, <2>1, <2>2
<1>4. ASSUME NEW o \in Owners, byOwner'[o] # None
      PROVE  byOwner'[o] \in byId' /\ record'[byOwner'[o]].owner = o
  BY <1>1, <1>4 DEF ClientTablesAgree
<1> QED BY <1>3, <1>4 DEF ClientTablesAgree

LEMMA AgreeStep ==
  TypeOK /\ TasksWhole /\ ClientTablesAgree /\ [Next]_vars => ClientTablesAgree'
<1> SUFFICES ASSUME TypeOK, ClientTablesAgree, [Next]_vars PROVE ClientTablesAgree'
  OBVIOUS
<1> USE DEF clientVars
<1>0. record' = record => KeepsRecords(record')
  BY DEF KeepsRecords, TypeOK
<1>1. ASSUME NEW t \in Calls, Operation(t) PROVE ClientTablesAgree'
  <2>1. CASE Arrive(t) \/ Finish(t)
    BY <1>0, <2>1, MapsKept DEF Arrive, Finish
  <2>2. ASSUME NEW o \in Owners, NEW b \in Boots,
               SetClientIdAgain(t, o, b) \/ SetClientIdNew(t, o, b)
        PROVE  ClientTablesAgree'
    BY <2>2, RecordsStep, MapsKept, AgreeNew DEF SetClientIdAgain
  <2>3. ASSUME NEW c \in Ids, NEW k \in 1 .. MaxConfirms, SetClientIdConfirm(t, c, k)
        PROVE  ClientTablesAgree'
    BY <2>3, RecordsStep, MapsKept DEF SetClientIdConfirm
  <2>4. ASSUME NEW c \in Ids, Renew(t, c) \/ \E f \in Files : Open(t, c, f)
        PROVE  ClientTablesAgree'
    BY <2>4, RenewedTyped, MapsKept DEF Renew, Open
  <2>5. ASSUME NEW o \in opens, Read(t, o) \/ Close(t, o) PROVE ClientTablesAgree'
    BY <2>5, RenewedTyped, MapsKept DEF Read, Close
  <2> QED BY <1>1, <2>1, <2>2, <2>3, <2>4, <2>5 DEF Operation
<1>2. ASSUME NEW t \in Tasks, Settle(t) PROVE ClientTablesAgree'
  BY <1>0, <1>2, MapsKept DEF Settle, OpenFound, OpenFails, OpenCreate, ReadDone, Closed
<1>3. ASSUME NEW s \in Sweepers, Sweep(s) PROVE ClientTablesAgree'
  BY <1>3, AgreeSweep
<1>4. CASE Tick
  BY <1>4, RecordsStep, MapsKept DEF Tick
<1>5. CASE Shutdown \/ Down \/ UNCHANGED vars
  BY <1>0, <1>5, MapsKept DEF Shutdown, Stop, StopRpcClosed, StopNext, Down, vars
<1> QED BY <1>1, <1>2, <1>3, <1>4, <1>5 DEF Next

\* byId and byOwner stay inverses of each other.
THEOREM ClientMapsAgree == Spec => []ClientTablesAgree
<1>1. Init => ClientTablesAgree
  BY DEF Init, ClientTablesAgree
<1>2. Spec => [](TypeOK /\ TasksWhole /\ ClientTablesAgree)
  BY <1>1, TypeInit, TypeStep, AgreeStep, PTL DEF Spec
<1> QED BY <1>2, PTL

-----------------------------------------------------------------------------
(***************************************************************************)
(* Who owns a file handle: the open that names it, or the one task that    *)
(* has it on its list, and after its close nobody.  Only the shutdown loop *)
(* closes without owning.                                                  *)
(***************************************************************************)
Serving == server \in {"up", "stopping"}

Ownership ==
  /\ \A o \in opens : o.handle \in 1 .. opened /\ closes[o.handle] = 0
  /\ \A o, p \in opens : o.handle = p.handle => o = p
  /\ \A t \in Tasks : \A h \in task[t].todo :
       /\ h \in 1 .. opened /\ h \notin HandlesOf(opens)
       /\ Serving => closes[h] = 0
       /\ \A u \in Tasks : u # t => h \notin task[u].todo
  /\ \A h \in Handles : h > opened => closes[h] = 0
  /\ doomed \subseteq 1 .. opened

IInv ==
  TypeOK /\ TasksWhole /\ Ownership /\ HandlesAccounted /\ ClosedOnce

\* The actions that move no handle.
LEMMA OwnershipKept ==
  ASSUME IInv, UNCHANGED <<opens, opened, closes>>, doomed' \subseteq doomed,
         Serving' => Serving,
         \A t \in Tasks : task'[t].todo = task[t].todo
  PROVE  Ownership' /\ HandlesAccounted' /\ ClosedOnce'
BY DEF IInv, Ownership, HandlesAccounted, ClosedOnce, HandlesOf, Serving

\* A task takes opens out of the table, and closes one of the handles it then owns.
LEMMA OwnershipMoved ==
  ASSUME IInv, NEW t \in Tasks, NEW h \in Handles,
         opens' \subseteq opens,
         h \in task[t].todo \cup HandlesOf(opens \ opens'),
         closes' = [closes EXCEPT ![h] = @ + 1],
         task'[t].todo = (task[t].todo \cup HandlesOf(opens \ opens')) \ {h},
         \A u \in Tasks : u # t => task'[u].todo = task[u].todo,
         UNCHANGED <<opened, server, doomed>>
  PROVE  Ownership' /\ HandlesAccounted' /\ ClosedOnce'
<1> USE DEF IInv
<1>1. closes'[h] = closes[h] + 1 /\ \A g \in Handles \ {h} : closes'[g] = closes[g]
  BY DEF TypeOK
<1>2. \A o \in opens : o.handle \in Handles /\ o.handle \in 1 .. opened /\ closes[o.handle] = 0
  BY DEF Ownership, TypeOK, OpenRecord
<1>3. \A o, p \in opens : o.handle = p.handle => o = p
  BY DEF Ownership
<1>4. \A u \in Tasks : \A g \in task[u].todo :
        /\ g \in Handles /\ g \in 1 .. opened /\ g \notin HandlesOf(opens)
        /\ Serving => closes[g] = 0
        /\ \A v \in Tasks : v # u => g \notin task[v].todo
  BY DEF Ownership, TypeOK, Task
<1>5. \A o \in opens' : o.handle # h
  BY <1>3, <1>4 DEF HandlesOf
<1>6. h \in 1 .. opened /\ (Serving => closes[h] = 0)
  BY <1>2, <1>4 DEF HandlesOf
<1>7. \A u \in Tasks : u # t => h \notin task'[u].todo
  BY <1>2, <1>4 DEF HandlesOf
<1>8. ASSUME NEW u \in Tasks, NEW g \in task'[u].todo
      PROVE  /\ g \in Handles /\ g \in 1 .. opened /\ g \notin HandlesOf(opens') /\ g # h
             /\ Serving => closes[g] = 0
             /\ \A v \in Tasks : v # u => g \notin task'[v].todo
  BY <1>2, <1>3, <1>4, <1>7, <1>8 DEF HandlesOf
<1>9. Ownership'
  <2>1. \A o \in opens' : o.handle \in 1 .. opened' /\ closes'[o.handle] = 0
    BY <1>1, <1>2, <1>5
  <2>2. \A g \in Handles : g > opened' => closes'[g] = 0
    <3>1. opened \in Nat
      BY DEF TypeOK
    <3> QED BY <1>1, <1>6, <3>1 DEF Ownership
  <2>3. \A u \in Tasks : \A g \in task'[u].todo :
          /\ g \in 1 .. opened' /\ g \notin HandlesOf(opens')
          /\ Serving' => closes'[g] = 0
          /\ \A v \in Tasks : v # u => g \notin task'[v].todo
    BY <1>1, <1>8 DEF Serving
  <2>4. \A o, p \in opens' : o.handle = p.handle => o = p
    BY <1>3
  <2>5. doomed' \subseteq 1 .. opened'
    BY DEF Ownership
  <2>6. HandlesOf(opens)' = HandlesOf(opens')
    BY DEF HandlesOf
  <2> QED BY <2>1, <2>2, <2>3, <2>4, <2>5, <2>6 DEF Ownership
<1>10. HandlesAccounted'
  <2> SUFFICES ASSUME NEW g \in 1 .. opened, closes'[g] = 0
               PROVE  g \in HandlesOf(opens') \/ \E u \in Tasks : g \in task'[u].todo
    BY DEF HandlesAccounted, HandlesOf
  <2>1. g \in Handles /\ g # h /\ closes[g] = 0
    BY <1>1 DEF TypeOK
  <2>2. CASE g \in HandlesOf(opens)
    BY <2>1, <2>2 DEF HandlesOf
  <2>3. CASE \E u \in Tasks : g \in task[u].todo
    BY <2>1, <2>3
  <2> QED BY <2>1, <2>2, <2>3 DEF HandlesAccounted
<1>11. ClosedOnce'
  BY <1>1, <1>6 DEF ClosedOnce, Serving
<1> QED BY <1>9, <1>10, <1>11

\* One turn of the loop over the handles to close.
LEMMA OwnershipTurn ==
  ASSUME IInv, NEW t \in Tasks, NEW place \in {"close", "sweep"}, NEW done \in {"ready", "idle"},
         NEW gone \in SUBSET Ids, Turn(t, place, task[t].todo, gone, opens, done),
         UNCHANGED <<opened, server, doomed>>
  PROVE  Ownership' /\ HandlesAccounted' /\ ClosedOnce'
<1> USE DEF IInv
<1>0. task \in [Tasks -> Task] /\ task[t].todo \subseteq Handles
  BY DEF TypeOK, Task
<1>1. CASE CloseNext(t, place, task[t].todo, gone, opens)
  <2>1. PICK h \in task[t].todo :
          /\ CloseHandle(h) /\ opens' = opens
          /\ task' = [task EXCEPT ![t] = Closing(place, task[t].todo \ {h}, gone)]
    BY <1>1 DEF CloseNext
  <2>2. HandlesOf(opens \ opens') = {}
    BY <2>1 DEF HandlesOf
  <2>3. /\ task'[t].todo = task[t].todo \ {h}
        /\ \A u \in Tasks : u # t => task'[u].todo = task[u].todo
    BY <1>0, <2>1 DEF Closing, At
  <2>4. task'[t].todo = (task[t].todo \cup HandlesOf(opens \ opens')) \ {h}
    BY <2>2, <2>3
  <2>5. opens' \subseteq opens /\ h \in Handles /\ closes' = [closes EXCEPT ![h] = @ + 1]
    BY <1>0, <2>1 DEF CloseHandle
  <2> QED BY <2>3, <2>4, <2>5, OwnershipMoved
<1>2. CASE task[t].todo = {} /\ RemoveNext(t, place, gone, opens)
  <2>1. PICK c \in gone : \E h \in HandlesOf(OpensOf(opens, c)) :
          /\ CloseHandle(h) /\ opens' = opens \ OpensOf(opens, c)
          /\ task' = [task EXCEPT ![t] = Closing(place, HandlesOf(OpensOf(opens, c)) \ {h},
                                                 {d \in gone : d > c})]
    BY <1>2 DEF RemoveNext
  <2> DEFINE removed == HandlesOf(OpensOf(opens, c))
  <2>2. PICK h \in removed :
          /\ CloseHandle(h) /\ opens' = opens \ OpensOf(opens, c)
          /\ task' = [task EXCEPT ![t] = Closing(place, removed \ {h}, {d \in gone : d > c})]
    BY <2>1
  <2>3. opens \ opens' = OpensOf(opens, c) /\ opens' \subseteq opens
    BY <2>2 DEF OpensOf
  <2>4. removed \subseteq Handles
    BY DEF HandlesOf, OpensOf, TypeOK, OpenRecord
  <2> HIDE DEF removed
  <2>5. /\ task'[t].todo = removed \ {h}
        /\ \A u \in Tasks : u # t => task'[u].todo = task[u].todo
    BY <1>0, <2>2 DEF Closing, At
  <2>6. HandlesOf(opens \ opens') = removed
    BY <2>3 DEF removed
  <2>7. h \in Handles /\ h \in task[t].todo \cup HandlesOf(opens \ opens')
    BY <2>2, <2>4, <2>6
  <2>8. task'[t].todo = (task[t].todo \cup HandlesOf(opens \ opens')) \ {h}
    BY <1>2, <2>5, <2>6
  <2>9. closes' = [closes EXCEPT ![h] = @ + 1] /\ opens' \subseteq opens
    BY <2>2, <2>3 DEF CloseHandle
  <2> QED BY <2>5, <2>7, <2>8, <2>9, OwnershipMoved
<1>3. CASE task[t].todo = {} /\ LoopEnds(t, gone, opens, done)
  <2>1. opens' = opens /\ closes' = closes /\ task' = [task EXCEPT ![t] = At(done)]
    BY <1>3 DEF LoopEnds
  <2>2. \A u \in Tasks : task'[u].todo = task[u].todo
    BY <1>0, <1>3, <2>1 DEF At
  <2> QED BY <2>1, <2>2, OwnershipKept DEF Serving
<1> QED BY <1>1, <1>2, <1>3 DEF Turn

\* CLOSE takes one open out of the table and closes its handle.
LEMMA OwnershipClose ==
  ASSUME IInv, NEW t \in Calls, NEW o \in opens, Close(t, o)
  PROVE  Ownership' /\ HandlesAccounted' /\ ClosedOnce'
<1> USE DEF IInv
<1>1. /\ task[t].at = "ready" /\ opens' = opens \ {o}
      /\ closes' = [closes EXCEPT ![o.handle] = @ + 1]
      /\ task' = [task EXCEPT ![t] = Closing("close", {}, {})]
      /\ UNCHANGED <<opened, server, doomed>>
  BY DEF Close, CloseHandle, serverVars
<1>2. task[t].todo = {} /\ t \in Tasks /\ task \in [Tasks -> Task] /\ o.handle \in Handles
  BY <1>1 DEF TasksWhole, TypeOK, OpenRecord
<1>3. HandlesOf(opens \ opens') = {o.handle}
  BY <1>1 DEF HandlesOf
<1>4. task'[t].todo = {} /\ \A u \in Tasks : u # t => task'[u].todo = task[u].todo
  BY <1>1, <1>2 DEF Closing, At
<1>5. task'[t].todo = (task[t].todo \cup HandlesOf(opens \ opens')) \ {o.handle}
  BY <1>2, <1>3, <1>4
<1>6. opens' \subseteq opens /\ o.handle \in task[t].todo \cup HandlesOf(opens \ opens')
  BY <1>1, <1>3
<1> QED BY <1>1, <1>2, <1>4, <1>5, <1>6, OwnershipMoved

\* OPEN puts a new handle into the table.
LEMMA OwnershipOpen ==
  ASSUME IInv, NEW t \in Tasks, OpenCreate(t)
  PROVE  Ownership' /\ HandlesAccounted' /\ ClosedOnce'
<1> USE DEF IInv
<1> DEFINE new == [handle |-> opened + 1, client |-> task[t].client, file |-> task[t].file]
<1>1. /\ task[t].at = "open" /\ opened < MaxHandles /\ opened' = opened + 1
      /\ opens' = opens \cup {new}
      /\ task' = [task EXCEPT ![t] = At("ready")]
      /\ UNCHANGED <<closes, server, doomed>>
  BY DEF OpenCreate, serverVars
<1>2. opened \in Nat /\ opened + 1 \in Handles /\ new.handle = opened + 1
  BY <1>1 DEF TypeOK
<1>3. \A u \in Tasks : task'[u].todo = task[u].todo
  BY <1>1 DEF TypeOK, TasksWhole, At
<1>4. HandlesOf(opens') = HandlesOf(opens) \cup {opened + 1}
  BY <1>1, <1>2 DEF HandlesOf
<1>5. \A o \in opens : o.handle \in 1 .. opened
  BY DEF Ownership
<1> HIDE DEF new
<1>6. Ownership'
  <2>1. \A o \in opens' : o.handle \in 1 .. opened' /\ closes'[o.handle] = 0
    BY <1>1, <1>2 DEF Ownership
  <2>2. \A o, p \in opens' : o.handle = p.handle => o = p
    BY <1>1, <1>2, <1>5 DEF Ownership
  <2>3. \A u \in Tasks : \A g \in task'[u].todo :
          /\ g \in 1 .. opened' /\ g \notin HandlesOf(opens')
          /\ Serving' => closes'[g] = 0
          /\ \A v \in Tasks : v # u => g \notin task'[v].todo
    <3>1. \A u \in Tasks : \A g \in task[u].todo :
            /\ g \in 1 .. opened /\ g \notin HandlesOf(opens)
            /\ Serving => closes[g] = 0
            /\ \A v \in Tasks : v # u => g \notin task[v].todo
      BY DEF Ownership
    <3>2. \A g \in 1 .. opened : g \in 1 .. opened' /\ g # opened + 1
      BY <1>1, <1>2
    <3>3. Serving' = Serving
      BY <1>1 DEF Serving
    <3> QED BY <1>1, <1>3, <1>4, <3>1, <3>2, <3>3
  <2>4. (\A g \in Handles : g > opened' => closes'[g] = 0) /\ doomed' \subseteq 1 .. opened'
    BY <1>1, <1>2 DEF Ownership
  <2>5. HandlesOf(opens)' = HandlesOf(opens')
    BY DEF HandlesOf
  <2> QED BY <2>1, <2>2, <2>3, <2>4, <2>5 DEF Ownership
<1>7. HandlesAccounted'
  <2>1. \A g \in 1 .. opened' : g = opened + 1 \/ g \in 1 .. opened
    BY <1>1, <1>2
  <2>2. HandlesOf(opens)' = HandlesOf(opens')
    BY DEF HandlesOf
  <2> QED BY <1>1, <1>3, <1>4, <2>1, <2>2 DEF HandlesAccounted
<1>8. ClosedOnce'
  BY <1>1 DEF ClosedOnce
<1> QED BY <1>6, <1>7, <1>8

\* The shutdown loop removes an open of its snapshot, if it is still there, and
\* closes its handle.
LEMMA OwnershipShutdown ==
  ASSUME IInv, NEW left \in SUBSET (1 .. opened), CloseDoomed(left), UNCHANGED <<opened, task>>
  PROVE  Ownership' /\ HandlesAccounted' /\ ClosedOnce'
<1> USE DEF IInv
<1>1. CASE left = {} /\ doomed' = {} /\ server' = "down" /\ UNCHANGED <<opens, closes>>
  BY <1>1, OwnershipKept DEF Serving
<1>2. ASSUME NEW h \in left, opens' = {o \in opens : o.handle # h}, CloseHandle(h),
             doomed' = left \ {h}, server' = "closing"
      PROVE  Ownership' /\ HandlesAccounted' /\ ClosedOnce'
  <2>0. opened \in Nat /\ h \in Handles
    BY DEF TypeOK
  <2>1. closes'[h] = closes[h] + 1 /\ \A g \in Handles \ {h} : closes'[g] = closes[g]
    BY <1>2, <2>0 DEF CloseHandle, TypeOK
  <2>2. HandlesOf(opens)' = HandlesOf(opens) \ {h} /\ ~Serving'
    BY <1>2 DEF HandlesOf, Serving
  <2>3. \A o \in opens' : o \in opens /\ o.handle # h /\ o.handle \in Handles
    BY <1>2 DEF TypeOK, OpenRecord
  <2>4. Ownership'
    <3>1. \A o \in opens' : o.handle \in 1 .. opened' /\ closes'[o.handle] = 0
      BY <2>1, <2>3 DEF Ownership
    <3>2. \A o, p \in opens' : o.handle = p.handle => o = p
      BY <2>3 DEF Ownership
    <3>3. \A g \in Handles : g > opened' => closes'[g] = 0
      BY <2>0, <2>1 DEF Ownership
    <3>4. \A u \in Tasks : \A g \in task'[u].todo :
            /\ g \in 1 .. opened' /\ g \notin HandlesOf(opens)'
            /\ Serving' => closes'[g] = 0
            /\ \A v \in Tasks : v # u => g \notin task'[v].todo
      BY <2>2 DEF Ownership
    <3>5. doomed' \subseteq 1 .. opened'
      BY <1>2
    <3> QED BY <3>1, <3>2, <3>3, <3>4, <3>5 DEF Ownership
  <2>5. HandlesAccounted'
    <3>1. \A g \in 1 .. opened : closes'[g] = 0 => g # h /\ closes[g] = 0
      BY <2>0, <2>1 DEF TypeOK
    <3> QED BY <2>2, <3>1 DEF HandlesAccounted
  <2>6. ClosedOnce'
    BY <2>2 DEF ClosedOnce, Serving
  <2> QED BY <2>4, <2>5, <2>6
<1> QED BY <1>1, <1>2 DEF CloseDoomed

LEMMA OwnershipStep ==
  IInv /\ [Next]_vars => Ownership' /\ HandlesAccounted' /\ ClosedOnce'
<1> SUFFICES ASSUME IInv, [Next]_vars
             PROVE  Ownership' /\ HandlesAccounted' /\ ClosedOnce'
  OBVIOUS
<1> DEFINE Goal == Ownership' /\ HandlesAccounted' /\ ClosedOnce'
<1> USE DEF openVars, serverVars
<1>0. task \in [Tasks -> Task] /\ TasksWhole /\ TypeOK
  BY DEF IInv, TypeOK
<1>1. ASSUME NEW t \in Tasks, NEW new, new.todo = {},
             task[t].at \notin {"close", "sweep"} \/ task[t].todo = {},
             task' = [task EXCEPT ![t] = new], UNCHANGED <<opens, opened, closes, server, doomed>>
      PROVE  Goal
  <2>1. \A u \in Tasks : task'[u].todo = task[u].todo
    BY <1>0, <1>1 DEF TasksWhole
  <2> QED BY <1>1, <2>1, OwnershipKept DEF Serving
<1>2. ASSUME UNCHANGED <<task, opens, opened, closes, server, doomed>> PROVE Goal
  BY <1>2, OwnershipKept DEF Serving
<1>3. ASSUME NEW t \in Calls, Operation(t) PROVE Goal
  <2>1. CASE Arrive(t) \/ Finish(t)
    BY <1>1, <2>1 DEF Arrive, Finish, At
  <2>2. ASSUME NEW o \in Owners, NEW b \in Boots, SetClientIdAgain(t, o, b) PROVE Goal
    BY <1>2, <2>2 DEF SetClientIdAgain
  <2>3. ASSUME NEW o \in Owners, NEW b \in Boots, SetClientIdNew(t, o, b) PROVE Goal
    <3> DEFINE old == byOwner[o]
               replaced == IF old # None /\ record[old].confirmed THEN {old} ELSE {}
    <3>1. /\ task[t].at = "ready" /\ UNCHANGED <<opened, server, doomed>>
          /\ Turn(t, "close", {}, replaced, opens, "ready")
      BY <2>3 DEF SetClientIdNew
    <3>2. replaced \in SUBSET Ids
      BY <1>0, IdsIssued DEF TypeOK
    <3>3. task[t].todo = {}
      BY <1>0, <3>1 DEF TasksWhole
    <3> HIDE DEF replaced
    <3> QED BY <3>1, <3>2, <3>3, OwnershipTurn
  <2>4. ASSUME NEW c \in Ids, NEW k \in 1 .. MaxConfirms, SetClientIdConfirm(t, c, k) PROVE Goal
    BY <1>2, <2>4 DEF SetClientIdConfirm
  <2>5. ASSUME NEW c \in Ids, Renew(t, c) PROVE Goal
    BY <1>2, <2>5 DEF Renew
  <2>6. ASSUME NEW c \in Ids, NEW f \in Files, Open(t, c, f) PROVE Goal
    BY <1>1, <2>6 DEF Open, Opening, At
  <2>7. ASSUME NEW o \in opens, Read(t, o) PROVE Goal
    BY <1>1, <2>7 DEF Read, Reading, At
  <2>8. ASSUME NEW o \in opens, Close(t, o) PROVE Goal
    BY <2>8, OwnershipClose
  <2> QED BY <1>3, <2>1, <2>2, <2>3, <2>4, <2>5, <2>6, <2>7, <2>8 DEF Operation
<1>4. ASSUME NEW t \in Tasks, Settle(t) PROVE Goal
  <2>1. CASE OpenFound(t)
    <3>1. \A u \in Tasks : task'[u].todo = task[u].todo
      BY <1>0, <2>1 DEF OpenFound
    <3> QED BY <2>1, <3>1, OwnershipKept DEF OpenFound, Serving
  <2>2. CASE OpenFails(t)
    BY <1>1, <2>2 DEF OpenFails, At
  <2>3. CASE OpenCreate(t)
    BY <2>3, OwnershipOpen
  <2>4. CASE ReadDone(t)
    BY <1>1, <2>4 DEF ReadDone, At
  <2>5. CASE Closed(t)
    <3>1. task[t].gone \in SUBSET Ids
      BY <1>0 DEF Task
    <3> QED BY <2>5, <3>1, OwnershipTurn DEF Closed
  <2> QED BY <1>4, <2>1, <2>2, <2>3, <2>4, <2>5 DEF Settle
<1>5. ASSUME NEW s \in Sweepers, Sweep(s) PROVE Goal
  <2>1. Expired \in SUBSET Ids
    BY <1>0, IdsIssued DEF Expired
  <2>2. task[s].todo = {}
    BY <1>0, <1>5 DEF Sweep, TasksWhole
  <2>3. Turn(s, "sweep", {}, Expired, opens, "idle") /\ UNCHANGED <<opened, server, doomed>>
    BY <1>5 DEF Sweep
  <2> QED BY <2>1, <2>2, <2>3, OwnershipTurn
<1>6. CASE Tick
  BY <1>2, <1>6 DEF Tick
<1>7. CASE Shutdown
  <2>1. CASE Stop
    BY <2>1, OwnershipKept DEF Stop, Serving
  <2>2. HandlesOf(opens) \in SUBSET (1 .. opened) /\ doomed \in SUBSET (1 .. opened)
    BY DEF IInv, Ownership, HandlesOf
  <2>3. CASE StopRpcClosed \/ StopNext
    BY <2>2, <2>3, OwnershipShutdown DEF StopRpcClosed, StopNext
  <2> QED BY <1>7, <2>1, <2>3 DEF Shutdown
<1>8. CASE Down \/ UNCHANGED vars
  BY <1>2, <1>8 DEF Down, vars
<1> QED BY <1>3, <1>4, <1>5, <1>6, <1>7, <1>8 DEF Next

LEMMA IInvAlways == Spec => []IInv
<1>1. Init => IInv
  <2>1. Init => Ownership /\ HandlesAccounted /\ ClosedOnce
    BY DEF Init, Ownership, HandlesAccounted, ClosedOnce, HandlesOf, At
  <2> QED BY <2>1, TypeInit DEF IInv
<1>2. IInv /\ [Next]_vars => IInv'
  BY TypeStep, OwnershipStep DEF IInv
<1> QED BY <1>1, <1>2, PTL DEF Spec

\* A handle the filesystem gave out is in the table, on a list to close, or closed.
THEOREM NoHandleDropped == Spec => []HandlesAccounted
BY IInvAlways, PTL DEF IInv

\* No stateid names a handle on which close() was called.
THEOREM TableIsLive == Spec => []TableHoldsLiveHandles
<1>1. IInv => TableHoldsLiveHandles
  BY DEF IInv, Ownership, TableHoldsLiveHandles
<1> QED BY <1>1, IInvAlways, PTL

\* Before the shutdown loop nobody closes a handle twice.
THEOREM NoDoubleClose == Spec => []ClosedOnce
BY IInvAlways, PTL DEF IInv

-----------------------------------------------------------------------------
\* One turn over the opens of gone clients leaves none behind that the task has
\* not on its list.
LEMMA TurnRemoves ==
  ASSUME TypeOK, NEW t \in Tasks, NEW place, NEW done, NEW gone \in SUBSET Ids,
         Turn(t, place, {}, gone, opens, done), NEW c \in gone
  PROVE  OpensOf(opens', c) = {} \/ c \in task'[t].gone
<1>1. CASE RemoveNext(t, place, gone, opens)
  <2>1. PICK d \in gone : \E h \in HandlesOf(OpensOf(opens, d)) :
          /\ IsFirst(d, {e \in gone : OpensOf(opens, e) # {}})
          /\ opens' = opens \ OpensOf(opens, d)
          /\ task' = [task EXCEPT ![t] = Closing(place, HandlesOf(OpensOf(opens, d)) \ {h},
                                                 {e \in gone : e > d})]
    BY <1>1 DEF RemoveNext
  <2>2. task'[t].gone = {e \in gone : e > d}
    BY <2>1 DEF TypeOK, Closing, At
  <2>3. CASE c = d
    BY <2>1, <2>3 DEF OpensOf
  <2>4. CASE c > d
    BY <2>2, <2>4
  <2>5. CASE c < d
    <3>1. OpensOf(opens, c) = {}
      BY <2>1, <2>5 DEF IsFirst
    <3> QED BY <2>1, <3>1 DEF OpensOf
  <2> QED BY <2>3, <2>4, <2>5
<1>2. CASE LoopEnds(t, gone, opens, done)
  BY <1>2 DEF LoopEnds
<1> QED BY <1>1, <1>2 DEF Turn, CloseNext

\* A confirmed client never leaves the table without its opens.
THEOREM ClientTakesOpens == Spec => ClientLeavesWithOpens
<1> DEFINE Step == \A c \in byId \ byId' :
             record[c].confirmed =>
               OpensOf(opens', c) = {} \/ \E s \in Sweepers : c \in task'[s].gone
<1>1. TypeOK /\ [Next]_vars => [Step]_vars
  <2> SUFFICES ASSUME TypeOK, Next, NEW c \in byId \ byId', record[c].confirmed
               PROVE  OpensOf(opens', c) = {} \/ \E s \in Sweepers : c \in task'[s].gone
    OBVIOUS
  <2>1. CASE \E t \in Calls, o \in Owners, b \in Boots : SetClientIdNew(t, o, b)
    <3>1. PICK t \in Calls, o \in Owners, b \in Boots : SetClientIdNew(t, o, b)
      BY <2>1
    <3> DEFINE old == byOwner[o]
               replaced == IF old # None /\ record[old].confirmed THEN {old} ELSE {}
    <3>2. /\ byId' = (byId \ {old}) \cup {issued + 1}
          /\ Turn(t, "close", {}, replaced, opens, "ready")
      BY <3>1 DEF SetClientIdNew
    <3>3. c = old /\ c \in Ids /\ replaced = {c}
      BY <3>2, IdsIssued
    <3>4. CASE OpensOf(opens, c) = {}
      <4>1. opens' \subseteq opens
        BY <3>2 DEF Turn, CloseNext, RemoveNext, LoopEnds
      <4> QED BY <3>4, <4>1 DEF OpensOf
    <3>5. CASE OpensOf(opens, c) # {}
      <4>1. RemoveNext(t, "close", {c}, opens)
        BY <3>2, <3>3, <3>5 DEF Turn, CloseNext, LoopEnds
      <4>2. opens' = opens \ OpensOf(opens, c)
        BY <4>1 DEF RemoveNext
      <4> QED BY <4>2 DEF OpensOf
    <3> QED BY <3>4, <3>5
  <2>2. CASE \E s \in Sweepers : Sweep(s)
    <3>1. PICK s \in Sweepers : Sweep(s)
      BY <2>2
    <3>2. /\ byId' = byId \ Expired /\ Expired \in SUBSET Ids
          /\ Turn(s, "sweep", {}, Expired, opens, "idle")
      BY <3>1, IdsIssued DEF Sweep, Expired
    <3> QED BY <3>2, TurnRemoves
  <2>3. CASE byId \subseteq byId'
    BY <2>3
  <2> QED
    BY <2>1, <2>2, <2>3
    DEF Next, Operation, Settle, Shutdown, Down, Arrive, Finish, SetClientIdAgain,
        SetClientIdConfirm, Renew, Open, OpenFound, OpenFails, OpenCreate, Read, ReadDone,
        Close, Closed, Tick, Stop, StopRpcClosed, StopNext, clientVars, vars
<1>2. ClientLeavesWithOpens <=> [][Step]_vars
  BY DEF ClientLeavesWithOpens
<1> QED BY <1>1, <1>2, TypeCorrect, PTL DEF Spec
=============================================================================
