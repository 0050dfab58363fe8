-------------------------- MODULE AnonymousHandles --------------------------
(***************************************************************************)
(* The cache of file handles for READs that carry a special stateid        *)
(* (AnonymousHandles in nfs4/state.ts), with the READs that ask it for a   *)
(* handle, the sweep that drops quiet ones and the shutdown.               *)
(*                                                                         *)
(* get awaits fs.open between its look at the cache and its change of it,  *)
(* and sweep awaits a close between two entries while its iterator stays   *)
(* live, so both work on a cache others have changed meanwhile.  A Map     *)
(* iterates in insertion order and a set on a present key keeps its place: *)
(* an entry's place is the handle the key was first set with.              *)
(***************************************************************************)
EXTENDS Naturals, FiniteSets

CONSTANTS
  Paths,      \* files read
  Reads,      \* READs that can be in flight at once
  Sweepers,   \* sweeps that can be in flight at once
  MaxEntries, \* maxEntries, 64 in the code
  IdleLimit,  \* idleMs of the sweep
  MaxTime,    \* bound: ticks of the clock
  MaxHandles  \* bound: file handles opened

ASSUME ConstantsAssumption ==
  /\ MaxEntries \in Nat \ {0} /\ IdleLimit \in Nat
  /\ MaxTime \in Nat /\ MaxHandles \in Nat

Handles == 1 .. MaxHandles
Times == 0 .. MaxTime
NoPath == 0  \* of a handle not given out yet
Entry == [path : Paths, handle : Handles, lastUsed : Times, place : Handles]

VARIABLES
  handles,  \* the cache, a set of entries with distinct paths
  now,      \* Date.now()
  opened,   \* how many file handles the filesystem has given out
  pathOf,   \* the file each of them is of
  closes,   \* calls of close() on each
  read,     \* per READ: "none", "open" (of path, asked at since), "read" (of handle)
  sweep,    \* per sweep: idle, or awaiting a close after place, begun at since
  up        \* whether closeAll has yet to run

fileVars == <<opened, pathOf, closes>>
vars == <<handles, now, fileVars, read, sweep, up>>

NoRead == [at |-> "none"]
AwaitOpen(p, t) == [at |-> "open", path |-> p, since |-> t]
AwaitRead(h) == [at |-> "read", handle |-> h]
NoSweep == [at |-> "none"]
AwaitClose(place, t) == [at |-> "close", place |-> place, since |-> t]

-----------------------------------------------------------------------------
\* The entry get evicts: the first in iteration order of the least recently used.
IsOldest(e) ==
  /\ e \in handles
  /\ \A f \in handles : \/ e.lastUsed < f.lastUsed
                        \/ e.lastUsed = f.lastUsed /\ e.place <= f.place

\* The cache after set(path, entry).
Put(cache, p, h, t) ==
  LET same == {e \in cache : e.path = p} IN
  (cache \ same) \cup
    {[path |-> p, handle |-> h, lastUsed |-> t, place |-> place] :
       place \in IF same = {} THEN {h} ELSE {e.place : e \in same}}

\* get finds the file's handle.
GetHit(r, e) ==
  /\ read[r].at = "none" /\ e \in handles
  /\ handles' = (handles \ {e}) \cup {[e EXCEPT !.lastUsed = now]}
  /\ read' = [read EXCEPT ![r] = AwaitRead(e.handle)]
  /\ UNCHANGED <<now, fileVars, sweep, up>>

\* get does not, and awaits open().
GetMiss(r, p) ==
  /\ read[r].at = "none" /\ \A e \in handles : e.path # p
  /\ read' = [read EXCEPT ![r] = AwaitOpen(p, now)]
  /\ UNCHANGED <<handles, now, fileVars, sweep, up>>

\* Mutant: a cache that is full is not one entry too full.
OpenResolvesLate(r) ==
  /\ read[r].at = "open" /\ opened < MaxHandles
  /\ LET h == opened + 1
         p == read[r].path IN
     /\ opened' = h /\ pathOf' = [pathOf EXCEPT ![h] = p]
     /\ handles' = Put(handles, p, h, read[r].since)
     /\ read' = [read EXCEPT ![r] = AwaitRead(h)]
  /\ UNCHANGED <<now, closes, sweep, up>>

\* Mutant: the evicted entry is closed and stays.
OpenResolvesKeeps(r) ==
  /\ read[r].at = "open" /\ opened < MaxHandles
  /\ LET h == opened + 1
         p == read[r].path IN
     /\ opened' = h /\ pathOf' = [pathOf EXCEPT ![h] = p]
     /\ closes' = [c \in Handles |-> IF \E e \in handles : IsOldest(e) /\ e.handle = c
                                     THEN closes[c] + 1 ELSE closes[c]]
     /\ handles' = Put(handles, p, h, read[r].since)
     /\ read' = [read EXCEPT ![r] = AwaitRead(h)]
  /\ UNCHANGED <<now, sweep, up>>

\* get goes on: it evicts an entry when the cache is full (its close is not
\* awaited) and sets the path, whatever happened to it since the miss.
OpenResolves(r) ==
  /\ read[r].at = "open" /\ opened < MaxHandles
  /\ LET h == opened + 1
         p == read[r].path IN
     /\ opened' = h /\ pathOf' = [pathOf EXCEPT ![h] = p]
     /\ read' = [read EXCEPT ![r] = AwaitRead(h)]
     /\ \/ /\ Cardinality(handles) >= MaxEntries
           /\ \E e \in handles :
                /\ IsOldest(e)
                /\ closes' = [closes EXCEPT ![e.handle] = @ + 1]
                /\ handles' = Put(handles \ {e}, p, h, read[r].since)
        \/ /\ Cardinality(handles) < MaxEntries
           /\ handles' = Put(handles, p, h, read[r].since)
           /\ UNCHANGED closes
  /\ UNCHANGED <<now, sweep, up>>

\* open() rejects, or the READ that was awaited settles: the READ is over.
ReadEnds(r) ==
  /\ read[r].at # "none"
  /\ read' = [read EXCEPT ![r] = NoRead]
  /\ UNCHANGED <<handles, now, fileVars, sweep, up>>

-----------------------------------------------------------------------------
\* What a sweep begun at time t that has passed place still finds idle.
Idle(place, t) == {e \in handles : e.place > place /\ t > e.lastUsed + IdleLimit}

\* Mutant: the sweep stops at the first entry it keeps.
IdlePrefix(place, t) ==
  {e \in handles : /\ e.place > place /\ t > e.lastUsed + IdleLimit
                   /\ \A f \in handles : f.place \in place + 1 .. e.place
                                           => t > f.lastUsed + IdleLimit}

\* One turn of the sweep: the next idle entry is deleted and its close awaited.
SweepTurn(s, place, t, idle) ==
  \/ \E e \in idle :
       /\ \A f \in idle : e.place <= f.place
       /\ handles' = handles \ {e}
       /\ closes' = [closes EXCEPT ![e.handle] = @ + 1]
       /\ sweep' = [sweep EXCEPT ![s] = AwaitClose(e.place, t)]
  \/ /\ idle = {}
     /\ sweep' = [sweep EXCEPT ![s] = NoSweep]
     /\ UNCHANGED <<handles, closes>>

\* Mutants of Sweep: it stops early; it closes without deleting.
SweepPrefix(s) ==
  /\ up /\ sweep[s].at = "none"
  /\ SweepTurn(s, 0, now, IdlePrefix(0, now))
  /\ UNCHANGED <<now, opened, pathOf, read, up>>

SweepKeeps(s) ==
  /\ up /\ sweep[s].at = "none"
  /\ \E e \in Idle(0, now) : closes' = [closes EXCEPT ![e.handle] = @ + 1]
  /\ UNCHANGED <<handles, sweep, now, opened, pathOf, read, up>>

Sweep(s) ==
  /\ up /\ sweep[s].at = "none"
  /\ SweepTurn(s, 0, now, Idle(0, now))
  /\ UNCHANGED <<now, opened, pathOf, read, up>>

SweepGoesOn(s) ==
  /\ sweep[s].at = "close"
  /\ SweepTurn(s, sweep[s].place, sweep[s].since, Idle(sweep[s].place, sweep[s].since))
  /\ UNCHANGED <<now, opened, pathOf, read, up>>

\* The shutdown: the snapshot is taken, the cache cleared and every close called.
CloseAll ==
  /\ up /\ up' = FALSE
  /\ handles' = {}
  /\ closes' = [h \in Handles |-> IF \E e \in handles : e.handle = h
                                  THEN closes[h] + 1 ELSE closes[h]]
  /\ UNCHANGED <<now, opened, pathOf, read, sweep>>

Tick ==
  /\ now < MaxTime /\ now' = now + 1
  /\ UNCHANGED <<handles, fileVars, read, sweep, up>>

Init ==
  /\ handles = {} /\ now = 0 /\ up = TRUE
  /\ opened = 0 /\ pathOf = [h \in Handles |-> NoPath]
  /\ closes = [h \in Handles |-> 0]
  /\ read = [r \in Reads |-> NoRead]
  /\ sweep = [s \in Sweepers |-> NoSweep]

Next ==
  \/ \E r \in Reads : \/ \E e \in handles : GetHit(r, e)
                      \/ \E p \in Paths : GetMiss(r, p)
                      \/ OpenResolves(r) \/ ReadEnds(r)
  \/ \E s \in Sweepers : Sweep(s) \/ SweepGoesOn(s)
  \/ CloseAll \/ Tick

Spec == Init /\ [][Next]_vars

\* The timer fires again and again and every close settles.
FairSpec == Spec /\ \A s \in Sweepers : WF_vars(Sweep(s)) /\ WF_vars(SweepGoesOn(s))

-----------------------------------------------------------------------------
TypeOK ==
  /\ handles \subseteq Entry
  /\ now \in Times /\ opened \in 0 .. MaxHandles
  /\ pathOf \in [Handles -> Paths \cup {NoPath}] /\ closes \in [Handles -> Nat]
  /\ read \in [Reads -> {NoRead} \cup {AwaitOpen(p, t) : p \in Paths, t \in Times}
                        \cup {AwaitRead(h) : h \in Handles}]
  /\ sweep \in [Sweepers -> {NoSweep} \cup
                            {AwaitClose(h, t) : h \in Handles, t \in Times}]
  /\ up \in BOOLEAN
  /\ \A e, f \in handles : e.path = f.path \/ e.place = f.place => e = f

\* The cache never holds more than maxEntries handles, although several gets that
\* missed before it was full may finish when it is.
SizeBounded == Cardinality(handles) <= MaxEntries

\* A READ that finds a handle in the cache finds one of its own file on which
\* close() has not been called.
HitsAreLive == \A e \in handles : closes[e.handle] = 0 /\ pathOf[e.handle] = e.path

\* Eviction, overlapping sweeps and the shutdown never both close a handle.
ClosedOnce == \A h \in Handles : closes[h] <= 1

\* A quiet handle is dropped or used again, however many others stay in use.
Quiet(h) == \E e \in handles : e.handle = h /\ now > e.lastUsed + IdleLimit
QuietHandlesClosed == \A h \in Handles : Quiet(h) ~> (~Quiet(h) \/ ~up)

\* state.ts:177, "one per file": no file has two handles open for anonymous READs.
OneHandlePerFile ==
  \A p \in Paths : Cardinality({h \in 1 .. opened : pathOf[h] = p /\ closes[h] = 0}) <= 1
=============================================================================
