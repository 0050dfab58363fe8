------------------------------ MODULE NfsState ------------------------------
(***************************************************************************)
(* The client and open state of the NFSv4 server: ClientTable and          *)
(* OpenTable (nfs4/state.ts), the COMPOUND operations that use them        *)
(* (nfs4/compound.ts) and the lease sweep and shutdown of nfs4/server.ts.  *)
(*                                                                         *)
(* JavaScript runs one turn at a time and gives way only at an await, so   *)
(* an action is what one turn does: from a request, a timer or a settled   *)
(* promise to the next await.  The COMPOUNDs in flight and the sweep       *)
(* interleave at those points and nowhere else.                            *)
(*                                                                         *)
(* Random values never repeat: a client id is the number of ids issued so  *)
(* far, a confirm value the number issued for that id, and a stateid is    *)
(* named by the file handle it was created for.  Map iteration is in       *)
(* insertion order, which is the order of these numbers.  The time since a *)
(* record's lastSeen is kept instead of the clock, and stops at the first  *)
(* value the sweep treats as expired.                                      *)
(***************************************************************************)
EXTENDS Naturals, FiniteSets

CONSTANTS
  Owners,      \* the opaque ids by which clients name themselves
  Boots,       \* the verifiers a client sends, one per boot
  Files,       \* paths of the exported files
  Calls,       \* COMPOUNDs that can be in flight at once
  Sweepers,    \* sweeps that can be in flight at once
  IdleLimit,   \* ticks of silence a lease survives (2 * leaseTime)
  MaxIssued,   \* bound: client ids issued
  MaxConfirms, \* bound: confirm values issued for one client id
  MaxHandles   \* bound: file handles opened

ASSUME ConstantsAssumption ==
  /\ IdleLimit \in Nat /\ MaxIssued \in Nat /\ MaxHandles \in Nat
  /\ MaxConfirms \in Nat \ {0}
  /\ Calls \cap Sweepers = {}

Ids == 1 .. MaxIssued
None == 0  \* undefined: no client, file or handle
Handles == 1 .. MaxHandles
Tasks == Calls \cup Sweepers

\* A ClientRecord, and the entry of an id not issued yet.
ClientRecord == [owner : Owners, boot : Boots, confirm : 1 .. MaxConfirms,
                 confirmed : BOOLEAN, idle : 0 .. IdleLimit + 1]
NoRecord == [owner |-> None]

\* An OpenRecord; lastUsed and the stateid's seqid are written and never read.
OpenRecord == [handle : Handles, client : Ids, file : Files]

(***************************************************************************)
(* Where an asynchronous call stands.  "idle": not running.  "ready": a    *)
(* COMPOUND between two operations.  "lookup", "open": an OPEN awaiting    *)
(* the filesystem, for client and file.  "read": a READ awaiting the       *)
(* handle.  "close": awaiting the close of a handle; the handles of todo   *)
(* are removed from the table and still to be closed, and the opens of the *)
(* clients in gone are still to be removed (only a "sweep" has such).      *)
(***************************************************************************)
Places == {"idle", "ready", "lookup", "open", "read", "close", "sweep"}
Task == [at : Places, client : Ids \cup {None}, file : Files \cup {None},
         handle : Handles \cup {None}, todo : SUBSET Handles, gone : SUBSET Ids]

At(place) == [at |-> place, client |-> None, file |-> None,
              handle |-> None, todo |-> {}, gone |-> {}]
Opening(place, c, f) == [At(place) EXCEPT !.client = c, !.file = f]
Reading(h) == [At("read") EXCEPT !.handle = h]
Closing(place, todo, gone) == [At(place) EXCEPT !.todo = todo, !.gone = gone]

VARIABLES
  issued,   \* how many client ids were issued
  record,   \* the ClientRecord objects, by client id
  byId,     \* ClientTable.byId: the ids it holds
  byOwner,  \* ClientTable.byOwner: the id of the owner's record
  opens,    \* OpenTable.opens
  opened,   \* how many file handles the filesystem has given out
  closes,   \* calls of close() on each file handle
  task,     \* the asynchronous calls
  server,   \* "up", "stopping" (awaiting rpc.close), "closing", "down"
  doomed    \* handles the shutdown loop has yet to close

clientVars == <<issued, record, byId, byOwner>>
openVars == <<opens, opened, closes>>
serverVars == <<server, doomed>>
vars == <<clientVars, openVars, task, serverVars>>

-----------------------------------------------------------------------------
\* Operators the actions are built from.

IsFirst(x, S) == x \in S /\ \A y \in S : x <= y
OpensOf(table, c) == {o \in table : o.client = c}
HandlesOf(table) == {o.handle : o \in table}

\* ClientTable.renew: only a known, confirmed client has a lease to renew.
CanRenew(c) == c \in byId /\ record[c].confirmed
Renewed(c) == IF CanRenew(c) THEN [record EXCEPT ![c].idle = 0] ELSE record

\* Mutant: unconfirmed clients never expire.
ExpiredConfirmed == {c \in byId : record[c].confirmed /\ record[c].idle > IdleLimit}

\* The ids ClientTable.expire finds silent for too long.
Expired == {c \in byId : record[c].idle > IdleLimit}

CloseHandle(h) == closes' = [closes EXCEPT ![h] = @ + 1]

(***************************************************************************)
(* One turn of "for each gone client, remove its opens; for each removed   *)
(* open, await its close", starting from the given open table: the next    *)
(* close() is called, or the task goes on to done.  A client with no opens *)
(* takes no turn.                                                          *)
(***************************************************************************)
CloseNext(t, place, todo, gone, table) ==
  \E h \in todo :
    /\ IsFirst(h, todo)
    /\ CloseHandle(h)
    /\ opens' = table
    /\ task' = [task EXCEPT ![t] = Closing(place, todo \ {h}, gone)]

\* Mutant: the opens of a gone client are listed and stay in the table.
RemoveNextKeeps(t, place, gone, table) ==
  \E c \in gone :
    LET removed == HandlesOf(OpensOf(table, c)) IN
    /\ \E h \in removed :
         /\ IsFirst(h, removed)
         /\ CloseHandle(h)
         /\ task' = [task EXCEPT ![t] = Closing(place, removed \ {h},
                                                {d \in gone : d > c})]
    /\ opens' = table

RemoveNext(t, place, gone, table) ==
  \E c \in gone :
    LET removed == HandlesOf(OpensOf(table, c)) IN
    /\ IsFirst(c, {d \in gone : OpensOf(table, d) # {}})
    /\ \E h \in removed :
         /\ IsFirst(h, removed)
         /\ CloseHandle(h)
         /\ task' = [task EXCEPT ![t] = Closing(place, removed \ {h},
                                                {d \in gone : d > c})]
    /\ opens' = table \ OpensOf(table, c)

LoopEnds(t, gone, table, done) ==
  /\ \A c \in gone : OpensOf(table, c) = {}
  /\ opens' = table
  /\ task' = [task EXCEPT ![t] = At(done)]
  /\ UNCHANGED closes

\* Mutant: a rejected close is not caught and ends the loop.
TurnWithoutCatch(t, place, todo, gone, table, done) ==
  \/ CloseNext(t, place, todo, gone, table)
  \/ todo = {} /\ RemoveNext(t, place, gone, table)
  \/ LoopEnds(t, gone, table, "idle")

Turn(t, place, todo, gone, table, done) ==
  \/ CloseNext(t, place, todo, gone, table)
  \/ todo = {} /\ RemoveNext(t, place, gone, table)
  \/ todo = {} /\ LoopEnds(t, gone, table, done)

-----------------------------------------------------------------------------
\* A COMPOUND: it arrives, runs its operations in order, ends after the last
\* or at the first that fails.  It outlives the socket it came from.

Arrive(t) ==
  /\ server = "up" /\ task[t].at = "idle"
  /\ task' = [task EXCEPT ![t] = At("ready")]
  /\ UNCHANGED <<clientVars, openVars, serverVars>>

Finish(t) ==
  /\ task[t].at = "ready"
  /\ task' = [task EXCEPT ![t] = At("idle")]
  /\ UNCHANGED <<clientVars, openVars, serverVars>>

\* SETCLIENTID by a confirmed client with the verifier it had: a new confirm
\* value for the same id.
SetClientIdAgain(t, o, b) ==
  LET c == byOwner[o] IN
  /\ task[t].at = "ready"
  /\ c # None /\ record[c].confirmed /\ record[c].boot = b
  /\ record[c].confirm < MaxConfirms
  /\ record' = [record EXCEPT ![c].confirm = @ + 1, ![c].idle = 0]
  /\ UNCHANGED <<issued, byId, byOwner, openVars, task, serverVars>>

\* Mutants: the replaced record stays in byId; its opens are not dropped.
SetClientIdNewKeepsOld(t, o, b) ==
  LET new == issued + 1 IN
  /\ task[t].at = "ready" /\ new \in Ids
  /\ issued' = new
  /\ record' = [record EXCEPT ![new] = [owner |-> o, boot |-> b, confirm |-> 1,
                                        confirmed |-> FALSE, idle |-> 0]]
  /\ byId' = byId \cup {new}
  /\ byOwner' = [byOwner EXCEPT ![o] = new]
  /\ UNCHANGED <<openVars, task, serverVars>>

SetClientIdNewDropsNothing(t, o, b) ==
  LET new == issued + 1 IN
  /\ task[t].at = "ready" /\ new \in Ids
  /\ issued' = new
  /\ record' = [record EXCEPT ![new] = [owner |-> o, boot |-> b, confirm |-> 1,
                                        confirmed |-> FALSE, idle |-> 0]]
  /\ byId' = (byId \ {byOwner[o]}) \cup {new}
  /\ byOwner' = [byOwner EXCEPT ![o] = new]
  /\ UNCHANGED <<openVars, task, serverVars>>

\* SETCLIENTID otherwise: a new unconfirmed record takes the owner's place, and
\* the opens of the confirmed record it replaces are dropped.
SetClientIdNew(t, o, b) ==
  LET old == byOwner[o]
      new == issued + 1
      replaced == IF old # None /\ record[old].confirmed THEN {old} ELSE {}
  IN
  /\ task[t].at = "ready" /\ new \in Ids
  /\ ~(old # None /\ record[old].confirmed /\ record[old].boot = b)
  /\ issued' = new
  /\ record' = [record EXCEPT ![new] = [owner |-> o, boot |-> b, confirm |-> 1,
                                        confirmed |-> FALSE, idle |-> 0]]
  /\ byId' = (byId \ {old}) \cup {new}
  /\ byOwner' = [byOwner EXCEPT ![o] = new]
  /\ Turn(t, "close", {}, replaced, opens, "ready")
  /\ UNCHANGED <<opened, serverVars>>

\* SETCLIENTID_CONFIRM; any other confirm value is STALE_CLIENTID.
SetClientIdConfirm(t, c, k) ==
  /\ task[t].at = "ready"
  /\ c \in byId /\ record[c].confirm = k
  /\ record' = [record EXCEPT ![c].confirmed = TRUE, ![c].idle = 0]
  /\ UNCHANGED <<issued, byId, byOwner, openVars, task, serverVars>>

\* RENEW, and every operation that renews a lease and does no more: an OPEN
\* refused after its renewal, a READ at the end of the file.
Renew(t, c) ==
  /\ task[t].at = "ready" /\ CanRenew(c)
  /\ record' = Renewed(c)
  /\ UNCHANGED <<issued, byId, byOwner, openVars, task, serverVars>>

\* OPEN, up to the await of fs.lookup.
Open(t, c, f) ==
  /\ task[t].at = "ready" /\ CanRenew(c)
  /\ record' = Renewed(c)
  /\ task' = [task EXCEPT ![t] = Opening("lookup", c, f)]
  /\ UNCHANGED <<issued, byId, byOwner, openVars, serverVars>>

\* OPEN: the name is a file, and fs.open is awaited.
OpenFound(t) ==
  /\ task[t].at = "lookup"
  /\ task' = [task EXCEPT ![t].at = "open"]
  /\ UNCHANGED <<clientVars, openVars, serverVars>>

\* OPEN: no such name, not a file, or fs.open rejects; the COMPOUND ends.
OpenFails(t) ==
  /\ task[t].at \in {"lookup", "open"}
  /\ task' = [task EXCEPT ![t] = At("idle")]
  /\ UNCHANGED <<clientVars, openVars, serverVars>>

\* Mutant: the record is created for no client.
OpenCreateNoClient(t) ==
  /\ task[t].at = "open" /\ opened < MaxHandles
  /\ opened' = opened + 1
  /\ opens' = opens \cup {[handle |-> opened + 1, client |-> None,
                           file |-> task[t].file]}
  /\ task' = [task EXCEPT ![t] = At("ready")]
  /\ UNCHANGED <<clientVars, closes, serverVars>>

\* OPEN: fs.open resolves and the record is created, with no second look at
\* the client table.
OpenCreate(t) ==
  /\ task[t].at = "open" /\ opened < MaxHandles
  /\ opened' = opened + 1
  /\ opens' = opens \cup {[handle |-> opened + 1, client |-> task[t].client,
                           file |-> task[t].file]}
  /\ task' = [task EXCEPT ![t] = At("ready")]
  /\ UNCHANGED <<clientVars, closes, serverVars>>

\* READ with a stateid from OPEN, up to the await of the handle's read.
Read(t, o) ==
  /\ task[t].at = "ready" /\ o \in opens
  /\ record' = Renewed(o.client)
  /\ task' = [task EXCEPT ![t] = Reading(o.handle)]
  /\ UNCHANGED <<issued, byId, byOwner, openVars, serverVars>>

\* READ: the bytes arrive, or the read rejects and the COMPOUND ends.
ReadDone(t) ==
  /\ task[t].at = "read"
  /\ \E place \in {"ready", "idle"} : task' = [task EXCEPT ![t] = At(place)]
  /\ UNCHANGED <<clientVars, openVars, serverVars>>

\* READ, CLOSE and the like naming an unknown client or stateid, or the stateid
\* of another path: the operation fails and the COMPOUND ends, as in Finish.

\* Mutant: CLOSE looks the open up and does not remove it.
CloseKeepsOpen(t, o) ==
  /\ task[t].at = "ready" /\ o \in opens
  /\ record' = Renewed(o.client)
  /\ CloseHandle(o.handle)
  /\ task' = [task EXCEPT ![t] = Closing("close", {}, {})]
  /\ UNCHANGED <<issued, byId, byOwner, opens, opened, serverVars>>

\* CLOSE, up to the await of the handle's close.
Close(t, o) ==
  /\ task[t].at = "ready" /\ o \in opens
  /\ opens' = opens \ {o}
  /\ record' = Renewed(o.client)
  /\ CloseHandle(o.handle)
  /\ task' = [task EXCEPT ![t] = Closing("close", {}, {})]
  /\ UNCHANGED <<issued, byId, byOwner, opened, serverVars>>

\* A close settles (its errors are swallowed) in CLOSE, SETCLIENTID or the sweep.
Closed(t) ==
  \/ /\ task[t].at = "close"
     /\ Turn(t, "close", task[t].todo, task[t].gone, opens, "ready")
     /\ UNCHANGED <<clientVars, opened, serverVars>>
  \/ /\ task[t].at = "sweep"
     /\ Turn(t, "sweep", task[t].todo, task[t].gone, opens, "idle")
     /\ UNCHANGED <<clientVars, opened, serverVars>>

\* The sweep timer fires; a sweep that is still waiting does not hold it back.
Sweep(s) ==
  /\ server = "up" /\ task[s].at = "idle"
  /\ byId' = byId \ Expired
  /\ byOwner' = [o \in Owners |->
                   IF \E c \in Expired : record[c].owner = o THEN None
                                                             ELSE byOwner[o]]
  /\ Turn(s, "sweep", {}, Expired, opens, "idle")
  /\ UNCHANGED <<issued, record, opened, serverVars>>

\* Time passes.
Tick ==
  /\ \E c \in byId : record[c].idle <= IdleLimit
  /\ record' = [c \in Ids |-> IF c \in byId /\ record[c].idle <= IdleLimit
                              THEN [record[c] EXCEPT !.idle = @ + 1]
                              ELSE record[c]]
  /\ UNCHANGED <<issued, byId, byOwner, openVars, task, serverVars>>

-----------------------------------------------------------------------------
\* NfsServer.close.

\* The sweeper is cleared, the sockets destroyed, rpc.close awaited.
Stop ==
  /\ server = "up"
  /\ server' = "stopping"
  /\ UNCHANGED <<clientVars, openVars, task, doomed>>

\* One turn of the loop over a snapshot of the table; what remove returns is
\* not looked at.
CloseDoomed(left) ==
  \/ \E h \in left :
       /\ IsFirst(h, left)
       /\ opens' = {o \in opens : o.handle # h}
       /\ CloseHandle(h)
       /\ doomed' = left \ {h}
       /\ server' = "closing"
  \/ /\ left = {}
     /\ doomed' = {} /\ server' = "down"
     /\ UNCHANGED <<opens, closes>>

StopRpcClosed ==
  /\ server = "stopping"
  /\ CloseDoomed(HandlesOf(opens))
  /\ UNCHANGED <<clientVars, opened, task>>

StopNext ==
  /\ server = "closing"
  /\ CloseDoomed(doomed)
  /\ UNCHANGED <<clientVars, opened, task>>

-----------------------------------------------------------------------------
Init ==
  /\ issued = 0 /\ record = [c \in Ids |-> NoRecord]
  /\ byId = {} /\ byOwner = [o \in Owners |-> None]
  /\ opens = {} /\ opened = 0 /\ closes = [h \in Handles |-> 0]
  /\ task = [t \in Tasks |-> At("idle")]
  /\ server = "up" /\ doomed = {}

Operation(t) ==
  \/ Arrive(t) \/ Finish(t)
  \/ \E o \in Owners, b \in Boots : SetClientIdAgain(t, o, b) \/ SetClientIdNew(t, o, b)
  \/ \E c \in Ids, k \in 1 .. MaxConfirms : SetClientIdConfirm(t, c, k)
  \/ \E c \in Ids : Renew(t, c)
  \/ \E c \in Ids, f \in Files : Open(t, c, f)
  \/ \E o \in opens : Read(t, o) \/ Close(t, o)

\* What happens of itself once an operation waits for the filesystem.
Settle(t) ==
  OpenFound(t) \/ OpenFails(t) \/ OpenCreate(t) \/ ReadDone(t) \/ Closed(t)

\* The server is down and nothing is in flight: the one place where all may stop.
Down ==
  /\ server = "down" /\ \A t \in Tasks : task[t].at = "idle"
  /\ UNCHANGED vars

Shutdown == Stop \/ StopRpcClosed \/ StopNext

Next ==
  \/ \E t \in Calls : Operation(t)
  \/ \E t \in Tasks : Settle(t)
  \/ \E s \in Sweepers : Sweep(s)
  \/ Tick \/ Shutdown \/ Down

Spec == Init /\ [][Next]_vars

(***************************************************************************)
(* Every promise the server awaits settles, the timer fires and time       *)
(* passes.  Nothing makes a client send a call, or the owner stop the      *)
(* server.                                                                 *)
(***************************************************************************)
Fairness ==
  /\ \A t \in Tasks : WF_vars(Settle(t))
  /\ \A s \in Sweepers : WF_vars(Sweep(s))
  /\ WF_vars(Tick) /\ WF_vars(StopRpcClosed \/ StopNext)

FairSpec == Spec /\ Fairness

-----------------------------------------------------------------------------
\* Properties.

TypeOK ==
  /\ issued \in 0 .. MaxIssued
  /\ record \in [Ids -> ClientRecord \cup {NoRecord}]
  /\ byId \subseteq 1 .. issued
  /\ byOwner \in [Owners -> 0 .. issued]
  /\ \A c \in 1 .. issued : record[c] \in ClientRecord
  /\ opens \subseteq OpenRecord
  /\ opened \in 0 .. MaxHandles
  /\ closes \in [Handles -> Nat]
  /\ task \in [Tasks -> Task]
  /\ server \in {"up", "stopping", "closing", "down"}
  /\ doomed \subseteq Handles

\* ClientTable keeps two maps by hand, byId and byOwner: they are inverses of
\* each other, so that no owner has two live ids and the sweep, which deletes by
\* owner, never deletes the entry of a newer record.
ClientTablesAgree ==
  /\ \A c \in byId : byOwner[record[c].owner] = c
  /\ \A o \in Owners : byOwner[o] # None =>
       byOwner[o] \in byId /\ record[byOwner[o]].owner = o

\* Whoever takes an open out of the table has it on its list of handles to close:
\* a handle the filesystem gave out is never dropped unclosed, however CLOSE,
\* SETCLIENTID, the sweep and the shutdown overlap.
HandlesAccounted ==
  \A h \in 1 .. opened :
    closes[h] = 0 => h \in HandlesOf(opens) \/ \E t \in Tasks : h \in task[t].todo

\* A stateid a READ can still use never names a handle on which close() has been
\* called.
TableHoldsLiveHandles == \A o \in opens : closes[o.handle] = 0

\* Until the shutdown loop starts, close() is called on a handle once: CLOSE, its
\* retransmissions, a reboot and overlapping sweeps never both own a handle.
ClosedOnce ==
  server \in {"up", "stopping"} => \A h \in Handles : closes[h] <= 1

\* When a confirmed client leaves the table, by a reboot or by the sweep, its opens
\* leave in the same turn or are on the list of a sweep in flight.
ClientLeavesWithOpens ==
  [][\A c \in byId \ byId' :
       record[c].confirmed =>
         OpensOf(opens', c) = {} \/ \E s \in Sweepers : c \in task'[s].gone]_vars

\* A client that falls silent is forgotten: each id is, again and again, renewed
\* or unknown, until the server stops sweeping.
SilentClientExpires ==
  \A c \in Ids :
    []<>(c \notin byId \/ record[c].idle = 0 \/ server # "up")

\* state.ts:38: a client that rebooted (or expired) has no state left: every open
\* in the table belongs to a client the server knows or is about to drop.
NoOrphanOpens ==
  \A o \in opens : o.client \in byId \/ \E t \in Tasks : o.client \in task[t].gone
=============================================================================
