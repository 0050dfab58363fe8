---------------------------- MODULE FuseSession ----------------------------
(***************************************************************************)
(* The requests of a FUSE mount and the file handles behind them.  Three   *)
(* threads share them: the session thread (Fs::dispatch of lib.rs) parks   *)
(* the reply of every kernel request under an id and hands the request to  *)
(* JavaScript; the JavaScript thread (Session of mount.ts) answers by id   *)
(* when its promises settle; and a worker thread runs the UnmountTask,     *)
(* which drops every reply still parked.  Notifications are delivered by a *)
(* thread of their own, because the kernel may block it until a lookup is  *)
(* answered.                                                               *)
(*                                                                         *)
(* FORGET, which takes no reply, is in FuseCache.  What the session thread *)
(* answers itself (EROFS, flush, fsync, statfs, the extended attributes)   *)
(* is left out, and that Node refuses a call (it does while the process    *)
(* ends).                                                                  *)
(***************************************************************************)
EXTENDS Naturals, FiniteSets

CONSTANTS
  Reqs,      \* requests the kernel can have outstanding
  IdSpace,   \* ids before next_id wraps: 2^32 in the code
  MaxFh,     \* bound: files opened
  MaxLate,   \* bound: requests after the mount was detached
  MaxNotes   \* bound: notifications queued

\* No turn of the ids fits between the dropping of the replies and the last request.
ASSUME SessionAssumption ==
  /\ IdSpace \in Nat /\ MaxFh \in Nat /\ MaxNotes \in Nat /\ MaxLate \in Nat
  /\ IsFiniteSet(Reqs) /\ "none" \notin Reqs /\ IdSpace > Cardinality(Reqs) + MaxLate + 1

\* The requests that reach JavaScript.  A lookup stands for all that await the tree
\* and are answered by it (getattr, readlink, unlink, rmdir, readdir, readdirplus).
TreeOps == {"lookup"}

\* Those about an open file that are awaited,
FileOps == {"open", "read"}

\* and the one that is answered at once.
Ops == TreeOps \cup FileOps \cup {"release"}

Ids == 0 .. IdSpace - 1
Fhs == 1 .. MaxFh
NoFh == 0
None == "none"  \* no request: of an id, nobody parked a reply under it
Free == [op |-> "free", fh |-> NoFh]
Request == {Free} \cup [op : Ops, fh : Fhs \cup {NoFh}]
Job == [id : Ids, r : Reqs, op : Ops, fh : Fhs \cup {NoFh}, at : {"queued", "running"}]

VARIABLES
  kernel,   \* the kernel's outstanding requests
  held,     \* the open files of the kernel
  nextId,   \* Shared.next_id
  pending,  \* Shared.pending: which request's reply is parked under an id
  jobs,     \* requests on their way to JavaScript, or awaiting there
  handles,  \* Session.handles
  nextFh,   \* Session.nextFh
  closes,   \* calls of close() on each handle
  notes,    \* notifications in the channel
  phase,    \* of the unmount
  late,     \* requests since the mount was detached
  thread    \* whether the session thread runs

fileVars == <<handles, nextFh, closes>>
rustVars == <<nextId, pending>>
kernelVars == <<kernel, held>>
lifeVars == <<phase, late, thread>>
vars == <<kernelVars, rustVars, jobs, fileVars, notes, lifeVars>>

-----------------------------------------------------------------------------
\* How far the counter is from an id.
Ahead(id) == (id + IdSpace - nextId) % IdSpace

\* Mutant: the loop skips 0 only.
FreshTaken(id) == id = IF nextId = 0 THEN 1 ELSE nextId

\* The id the loop of dispatch settles on: the next that is neither 0 nor parked.
Usable(id) == id # 0 /\ pending[id] = None
Fresh(id) == Usable(id) /\ \A k \in Ids : Usable(k) => Ahead(id) <= Ahead(k)

\* What the kernel may ask: a file is released once, after its reads.
Askable(op, fh) ==
  \/ op \in TreeOps \cup {"open"} /\ fh = NoFh
  \/ op \in {"read", "release"} /\ fh \in held
     /\ (op = "release" => \A r \in Reqs : kernel[r].fh # fh)

\* It asks as long as the session thread runs.
CanAsk(r, op, fh) ==
  /\ thread /\ kernel[r] = Free /\ Askable(op, fh)
  /\ phase \in {"waiting", "cleared", "unmounted"} => late < MaxLate
  /\ late' = IF phase \in {"waiting", "cleared", "unmounted"} THEN late + 1 ELSE late
  /\ held' = IF op = "release" THEN held \ {fh} ELSE held

\* Fs::dispatch parks the reply and queues the request for JavaScript.
Ask(r, op, fh) ==
  /\ CanAsk(r, op, fh)
  /\ kernel' = [kernel EXCEPT ![r] = [op |-> op, fh |-> fh]]
  /\ \E id \in Ids :
     /\ Fresh(id)
     /\ pending' = [pending EXCEPT ![id] = r]
     /\ nextId' = (id + 1) % IdSpace
     /\ jobs' = jobs \cup {[id |-> id, r |-> r, op |-> op, fh |-> fh, at |-> "queued"]}
  /\ UNCHANGED <<fileVars, notes, phase, thread>>

\* Shared.take.
Take(id) == pending' = [pending EXCEPT ![id] = None]

\* Each reply_* function: what is parked under the id is taken and answered, if it
\* is still there, with what was passed or with EIO.
Answer(id) ==
  /\ Take(id)
  /\ kernel' = IF pending[id] = None THEN kernel
               ELSE [kernel EXCEPT ![pending[id]] = Free]

-----------------------------------------------------------------------------
\* Mutant: JavaScript delivers the notifications itself, and waits for them.
AwaitNotes(j) ==
  /\ j.at = "queued" /\ notes = 0
  /\ j.op # "release"
  /\ j.op = "read" => j.fh \in handles
  /\ jobs' = (jobs \ {j}) \cup {[j EXCEPT !.at = "running"]}
  /\ UNCHANGED <<kernelVars, rustVars, fileVars, notes, lifeVars>>

\* The handler runs up to its first await: the tree is asked, or the handle is.
Await(j) ==
  /\ j.at = "queued"
  /\ j.op # "release"
  /\ j.op = "read" => j.fh \in handles
  /\ jobs' = (jobs \ {j}) \cup {[j EXCEPT !.at = "running"]}
  /\ UNCHANGED <<kernelVars, rustVars, fileVars, notes, lifeVars>>

\* A read of a handle the session no longer has: EBADF.
BadHandle(j) ==
  /\ j.at = "queued"
  /\ j.op = "read" /\ j.fh \notin handles
  /\ Answer(j.id) /\ jobs' = jobs \ {j}
  /\ UNCHANGED <<held, nextId, fileVars, notes, lifeVars>>

\* Mutant: the handle is closed and stays in the table.
ReleaseKeeps(j) ==
  /\ j.at = "queued" /\ j.op = "release"
  /\ closes' = [closes EXCEPT ![j.fh] = IF j.fh \in handles THEN @ + 1 ELSE @]
  /\ Answer(j.id) /\ jobs' = jobs \ {j}
  /\ UNCHANGED <<held, nextId, handles, nextFh, notes, lifeVars>>

\* A release forgets the handle, answers, and calls close() if there was one.
Release(j) ==
  /\ j.at = "queued" /\ j.op = "release"
  /\ handles' = handles \ {j.fh}
  /\ closes' = [closes EXCEPT ![j.fh] = IF j.fh \in handles THEN @ + 1 ELSE @]
  /\ Answer(j.id) /\ jobs' = jobs \ {j}
  /\ UNCHANGED <<held, nextId, nextFh, notes, lifeVars>>

\* What was awaited settles: the answer of a lookup or a read, or any failure.
Settle(j) ==
  /\ j.at = "running"
  /\ Answer(j.id) /\ jobs' = jobs \ {j}
  /\ UNCHANGED <<held, nextId, fileVars, notes, lifeVars>>

\* fs.open resolves: the handle gets its number, and the kernel learns it if the
\* reply is still parked.
Opened(j) ==
  /\ j.at = "running" /\ j.op = "open" /\ nextFh \in Fhs
  /\ handles' = handles \cup {nextFh} /\ nextFh' = nextFh + 1
  /\ held' = IF pending[j.id] = None THEN held ELSE held \cup {nextFh}
  /\ Answer(j.id) /\ jobs' = jobs \ {j}
  /\ UNCHANGED <<nextId, closes, notes, lifeVars>>

-----------------------------------------------------------------------------
\* An invalidation queues a notification; a closed session ignores it.  The kernel
\* takes one when no lookup is in its way.
Invalidate ==
  /\ phase = "mounted" /\ notes < MaxNotes
  /\ notes' = notes + 1
  /\ UNCHANGED <<kernelVars, rustVars, jobs, fileVars, lifeVars>>

Notified ==
  /\ notes > 0 /\ \A r \in Reqs : kernel[r].op \notin TreeOps
  /\ notes' = notes - 1
  /\ UNCHANGED <<kernelVars, rustVars, jobs, fileVars, lifeVars>>

\* unmount() closes the session and starts the task; a second call returns.
Unmount ==
  /\ phase = "mounted" /\ phase' = "detaching"
  /\ UNCHANGED <<kernelVars, rustVars, jobs, fileVars, notes, late, thread>>

\* lazy_unmount.  When it fails so does unmount(), and the mount stays: fuser's own
\* attempt, when the session is dropped, is taken to fail like the one before it.
Detach ==
  /\ phase = "detaching" /\ phase' \in {"waiting", "failed"}
  /\ UNCHANGED <<kernelVars, rustVars, jobs, fileVars, notes, late, thread>>

\* A detached mount ends with its last open file, and the session thread with it.
ThreadEnds ==
  /\ thread /\ phase \in {"waiting", "cleared", "unmounted"}
  /\ held = {} /\ \A r \in Reqs : kernel[r].op \in {"free", "release"}
  /\ thread' = FALSE
  /\ UNCHANGED <<kernelVars, rustVars, jobs, fileVars, notes, phase, late>>

\* Bound: no request is a whole turn of the ids old when its reply is dropped.
NoneTurned ==
  \A j \in jobs : Ahead(j.id) > MaxLate - late

\* The task has waited for the thread, or long enough, and drops every reply: fuser
\* answers a request whose reply is dropped.
ClearPending ==
  /\ phase = "waiting" /\ phase' = "cleared" /\ NoneTurned
  /\ pending' = [id \in Ids |-> None] /\ kernel' = [r \in Reqs |-> Free]
  /\ UNCHANGED <<held, nextId, jobs, fileVars, notes, late, thread>>

\* Mutant: the table is cleared before its handles are listed.
CloseAllCleared ==
  /\ phase = "cleared" /\ phase' = "unmounted"
  /\ handles' = {}
  /\ UNCHANGED <<kernelVars, rustVars, jobs, closes, nextFh, notes, late, thread>>

\* unmount() goes on: what is open now is closed.
CloseAll ==
  /\ phase = "cleared" /\ phase' = "unmounted"
  /\ handles' = {}
  /\ closes' = [fh \in Fhs |-> IF fh \in handles THEN closes[fh] + 1 ELSE closes[fh]]
  /\ UNCHANGED <<kernelVars, rustVars, jobs, nextFh, notes, late, thread>>

-----------------------------------------------------------------------------
Init ==
  /\ kernel = [r \in Reqs |-> Free] /\ held = {}
  /\ nextId = 1 /\ pending = [id \in Ids |-> None] /\ jobs = {}
  /\ handles = {} /\ nextFh = 1 /\ closes = [fh \in Fhs |-> 0]
  /\ notes = 0 /\ phase = "mounted" /\ late = 0 /\ thread = TRUE

\* A job goes on: dispatch of mount.ts.
JobStep(j) == \/ Await(j) \/ BadHandle(j) \/ Release(j) \/ Settle(j) \/ Opened(j)

\* UnmountTask, and what unmount() does after it.
Unmounting == Detach \/ ClearPending \/ CloseAll

Next ==
  \/ \E r \in Reqs, op \in Ops, fh \in Fhs \cup {NoFh} : Ask(r, op, fh)
  \/ \E j \in jobs : JobStep(j)
  \/ Invalidate \/ Notified
  \/ Unmount \/ Unmounting \/ ThreadEnds

Spec == Init /\ [][Next]_vars

\* Threads run, promises settle in some order, the task has its deadline.
FairSpec ==
  /\ Spec
  /\ \A r \in Reqs : WF_vars(\E j \in jobs : j.r = r /\ JobStep(j))
  /\ WF_vars(Unmounting)

-----------------------------------------------------------------------------
TypeOK ==
  /\ kernel \in [Reqs -> Request] /\ held \subseteq Fhs
  /\ nextId \in Ids /\ pending \in [Ids -> Reqs \cup {None}] /\ jobs \subseteq Job
  /\ handles \subseteq Fhs /\ nextFh \in 1 .. MaxFh + 1 /\ closes \in [Fhs -> Nat]
  /\ notes \in 0 .. MaxNotes /\ late \in 0 .. MaxLate
  /\ phase \in {"mounted", "detaching", "waiting", "cleared", "unmounted", "failed"}
  /\ thread \in BOOLEAN

\* Ids wrap and a slow request may outlive them: whatever JavaScript answers, it
\* answers the request it was asked or, after an unmount, none; and an outstanding
\* request has one reply parked, which some job will find.
RepliesReachTheirRequest ==
  /\ \A j \in jobs : pending[j.id] \in {None, j.r}
  /\ \A r \in Reqs : kernel[r] # Free =>
       /\ Cardinality({id \in Ids : pending[id] = r}) = 1
       /\ \E j \in jobs : pending[j.id] = r

\* The loop that looks for an id, with the parked replies locked, finds one.
IdFound == \E id \in Ids : Fresh(id)

\* Until an unmount the session has a handle for every file the kernel has open, and
\* no other but those being released; and however releases and an unmount cross, a
\* handle that left the table was closed, and once.
HandlesMatchKernel ==
  /\ phase \in {"mounted", "detaching", "waiting", "failed"} =>
       handles = held \cup {j.fh : j \in {k \in jobs : k.op = "release"}}
  /\ \A fh \in Fhs : closes[fh] = IF fh < nextFh /\ fh \notin handles THEN 1 ELSE 0

\* Every request of the kernel is answered, with notifications queued and an
\* unmount under way or not.
RequestsAnswered == \A r \in Reqs : kernel[r] # Free ~> kernel[r] = Free

\* An unmount that succeeds closes what was open when it was asked for.
UnmountClosesHandles ==
  \A fh \in Fhs : (fh \in handles /\ phase = "detaching")
                    ~> (closes[fh] = 1 \/ phase = "failed")
=============================================================================
