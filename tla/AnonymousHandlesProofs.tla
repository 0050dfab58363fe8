----------------------- MODULE AnonymousHandlesProofs -----------------------
(***************************************************************************)
(* Proofs about AnonymousHandles: its cache stays bounded, what it holds   *)
(* is live, and nothing is closed twice, for any number of READs, sweeps   *)
(* and files.                                                              *)
(*                                                                         *)
(* All three follow from one invariant.  Entries differ in their paths,    *)
(* their places and their handles, none of them was given a handle before  *)
(* it was opened, and a handle not yet opened was not closed.              *)
(***************************************************************************)
EXTENDS AnonymousHandles, FiniteSetTheorems, TLAPS

CacheTypes ==
  /\ handles \subseteq Entry /\ IsFiniteSet(handles)
  /\ now \in Times /\ opened \in 0 .. MaxHandles
  /\ pathOf \in [Handles -> Paths \cup {NoPath}] /\ closes \in [Handles -> Nat]

ReadTypes == \A r \in Reads : read[r].at = "open" => read[r].path \in Paths /\ read[r].since \in Times
ReadShape == \E S : read \in [Reads -> S]

Distinct(cache) ==
  \A e, f \in cache :
    e.path = f.path \/ e.place = f.place \/ e.handle = f.handle => e = f

Given ==
  /\ \A e \in handles : e.place <= opened /\ e.handle <= opened
  /\ \A h \in Handles : h > opened => closes[h] = 0

CacheInv ==
  /\ CacheTypes /\ ReadTypes /\ ReadShape
  /\ Distinct(handles) /\ Given
  /\ HitsAreLive /\ ClosedOnce /\ SizeBounded

USE ConstantsAssumption DEF ConstantsAssumption

-----------------------------------------------------------------------------
LEMMA AddOne ==
  ASSUME NEW S, IsFiniteSet(S), NEW x
  PROVE  /\ IsFiniteSet(S \cup {x})
         /\ Cardinality(S) \in Nat /\ Cardinality(S \cup {x}) \in Nat
         /\ Cardinality(S \cup {x}) = Cardinality(S) \/ Cardinality(S \cup {x}) = Cardinality(S) + 1
<1>1. IsFiniteSet(S \cup {x})
  BY FS_AddElement
<1>2. Cardinality(S \cup {x}) = IF x \in S THEN Cardinality(S) ELSE Cardinality(S) + 1
  BY FS_AddElement
<1> QED BY <1>1, <1>2, FS_CardinalityType

\* set leaves one entry of the path, with the new handle, in the place of the one
\* it replaces or in a new one.
LEMMA PutOne ==
  ASSUME NEW cache \in SUBSET Entry, Distinct(cache),
         NEW p \in Paths, NEW h \in Handles, NEW t \in Times
  PROVE  \E place \in Handles :
           /\ Put(cache, p, h, t) = {e \in cache : e.path # p} \cup
                {[path |-> p, handle |-> h, lastUsed |-> t, place |-> place]}
           /\ place = h \/ \E e \in cache : e.path = p /\ e.place = place
<1> DEFINE same == {e \in cache : e.path = p}
           others == {e \in cache : e.path # p}
           New(place) == [path |-> p, handle |-> h, lastUsed |-> t, place |-> place]
<1>1. cache \ same = others
  OBVIOUS
<1>2. CASE same = {}
  <2>1. Put(cache, p, h, t) = others \cup {New(h)}
    BY <1>1, <1>2 DEF Put
  <2> QED BY <2>1
<1>3. CASE same # {}
  <2>1. PICK e \in cache : e.path = p
    BY <1>3
  <2>2. same = {e}
    BY <2>1 DEF Distinct
  <2>3. {f.place : f \in same} = {e.place} /\ e.place \in Handles
    BY <2>1, <2>2 DEF Entry
  <2>4. {New(place) : place \in {e.place}} = {New(e.place)}
    OBVIOUS
  <2>5. Put(cache, p, h, t) = others \cup {New(e.place)}
    BY <1>1, <1>3, <2>3, <2>4 DEF Put
  <2> QED BY <2>1, <2>3, <2>5
<1> QED BY <1>2, <1>3

\* What set does to a cache whose entries all came before the handle.
LEMMA PutKeeps ==
  ASSUME NEW cache \in SUBSET Entry, Distinct(cache), IsFiniteSet(cache),
         NEW p \in Paths, NEW h \in Handles, NEW t \in Times,
         \A e \in cache : e.place < h /\ e.handle < h,
         NEW next, next = Put(cache, p, h, t)
  PROVE  /\ next \subseteq Entry /\ Distinct(next) /\ IsFiniteSet(next)
         /\ Cardinality(next) <= Cardinality(cache) + 1
         /\ \A e \in next : /\ e.place <= h /\ e.handle <= h
                            /\ e \in cache \/ (e.path = p /\ e.handle = h)
<1> DEFINE others == {e \in cache : e.path # p}
<1>1. PICK place \in Handles :
        /\ next = others \cup {[path |-> p, handle |-> h, lastUsed |-> t, place |-> place]}
        /\ place = h \/ \E e \in cache : e.path = p /\ e.place = place
  BY PutOne
<1> DEFINE new == [path |-> p, handle |-> h, lastUsed |-> t, place |-> place]
<1>2. new \in Entry /\ new.path = p /\ new.handle = h /\ new.place = place
  BY DEF Entry
<1>3. \A e \in others : e.path # p /\ e.place # place /\ e.handle # h
  BY <1>1 DEF Distinct, Entry, Handles
<1>4. place <= h
  BY <1>1 DEF Handles
<1>5. next = others \cup {new} /\ others \subseteq cache
  BY <1>1
<1>6. IsFiniteSet(others) /\ Cardinality(others) <= Cardinality(cache)
  BY <1>5, FS_Subset
<1> HIDE DEF others, new
<1>7. /\ IsFiniteSet(next)
      /\ Cardinality(next) = Cardinality(others) \/ Cardinality(next) = Cardinality(others) + 1
  BY <1>5, <1>6, AddOne
<1>8. Cardinality(others) \in Nat /\ Cardinality(cache) \in Nat
  BY <1>6, FS_CardinalityType
<1>9. Distinct(next)
  BY <1>2, <1>3, <1>5 DEF Distinct
<1>10. next \subseteq Entry
  BY <1>2, <1>5
<1>11. \A e \in next : /\ e.place <= h /\ e.handle <= h
                       /\ e \in cache \/ (e.path = p /\ e.handle = h)
  BY <1>2, <1>4, <1>5 DEF Entry, Handles
<1> QED BY <1>6, <1>7, <1>8, <1>9, <1>10, <1>11

\* Closing an entry's handle and deleting the entry.
LEMMA CloseOne ==
  ASSUME CacheInv, NEW e \in handles,
         closes' = [closes EXCEPT ![e.handle] = @ + 1]
  PROVE  /\ closes' \in [Handles -> Nat]
         /\ \A h \in Handles : closes'[h] <= 1
         /\ \A h \in Handles : h > opened => closes'[h] = 0
         /\ \A f \in handles \ {e} : closes'[f.handle] = 0
<1>1. e \in Entry /\ e.handle \in Handles /\ e.handle <= opened /\ closes[e.handle] = 0
  BY DEF CacheInv, CacheTypes, Entry, Given, HitsAreLive
<1>2. \A h \in Handles : closes'[h] = IF h = e.handle THEN 1 ELSE closes[h]
  BY <1>1 DEF CacheInv, CacheTypes
<1>3. closes' \in [Handles -> Nat]
  BY <1>1, <1>2 DEF CacheInv, CacheTypes
<1>4. \A h \in Handles : h > opened => closes'[h] = 0
  BY <1>1, <1>2 DEF CacheInv, CacheTypes, Given, Handles
<1>5. \A f \in handles \ {e} : f.handle \in Handles /\ f.handle # e.handle
  BY DEF CacheInv, CacheTypes, Entry, Distinct
<1>6. \A f \in handles \ {e} : closes'[f.handle] = 0
  BY <1>2, <1>5 DEF CacheInv, HitsAreLive
<1> QED BY <1>2, <1>3, <1>4, <1>6 DEF CacheInv, ClosedOnce

LEMMA DeleteOne ==
  ASSUME CacheInv, NEW e \in handles
  PROVE  /\ handles \ {e} \subseteq Entry /\ IsFiniteSet(handles \ {e})
         /\ Distinct(handles \ {e})
         /\ Cardinality(handles \ {e}) = Cardinality(handles) - 1
         /\ Cardinality(handles) \in Nat
<1>1. IsFiniteSet(handles \ {e}) /\ Cardinality(handles \ {e}) = Cardinality(handles) - 1
  BY FS_RemoveElement DEF CacheInv, CacheTypes
<1>2. Cardinality(handles) \in Nat
  BY FS_CardinalityType DEF CacheInv, CacheTypes
<1> QED BY <1>1, <1>2 DEF CacheInv, CacheTypes, Distinct

-----------------------------------------------------------------------------
LEMMA CacheInit == Init => CacheInv
<1> SUFFICES ASSUME Init PROVE CacheInv
  OBVIOUS
<1>1. handles = {} /\ IsFiniteSet(handles) /\ Cardinality(handles) = 0
  BY FS_EmptySet DEF Init
<1>2. CacheTypes
  BY <1>1 DEF Init, CacheTypes, Times
<1>3. ReadTypes /\ ReadShape
  <2>1. read \in [Reads -> {NoRead}]
    BY DEF Init
  <2>2. \A r \in Reads : read[r].at = "none"
    BY <2>1 DEF NoRead
  <2> QED BY <2>1, <2>2 DEF ReadTypes, ReadShape
<1>4. Distinct(handles) /\ Given /\ HitsAreLive /\ ClosedOnce /\ SizeBounded
  BY <1>1 DEF Init, Distinct, Given, HitsAreLive, ClosedOnce, SizeBounded
<1> QED BY <1>2, <1>3, <1>4 DEF CacheInv

\* A READ goes to another step that is no await of open(), or of one it asks for now.
LEMMA ReadMoves ==
  ASSUME CacheInv, NEW r \in Reads, NEW to, read' = [read EXCEPT ![r] = to],
         to.at = "open" => to.path \in Paths /\ to.since \in Times
  PROVE  ReadTypes' /\ ReadShape'
<1>1. PICK S : read \in [Reads -> S]
  BY DEF CacheInv, ReadShape
<1>2. read' \in [Reads -> S \cup {to}] /\ read'[r] = to
      /\ \A q \in Reads : q # r => read'[q] = read[q]
  BY <1>1
<1> QED BY <1>2 DEF CacheInv, ReadTypes, ReadShape

LEMMA HitKeeps ==
  ASSUME CacheInv, NEW r \in Reads, NEW e \in handles, GetHit(r, e)
  PROVE  CacheInv'
<1> DEFINE new == [e EXCEPT !.lastUsed = now]
<1>1. /\ new \in Entry /\ new.path = e.path /\ new.place = e.place
      /\ new.handle = e.handle
  BY DEF CacheInv, CacheTypes, Entry
<1>2. handles' = (handles \ {e}) \cup {new}
  BY DEF GetHit
<1>3. UNCHANGED <<now, opened, pathOf, closes>>
  BY DEF GetHit, fileVars
<1>4. ReadTypes' /\ ReadShape'
  <2>1. AwaitRead(e.handle).at # "open"
    BY DEF AwaitRead
  <2> QED BY <2>1, ReadMoves DEF GetHit
<1> HIDE DEF new
<1>5. IsFiniteSet(handles') /\ Cardinality(handles') <= Cardinality(handles)
  <2> DEFINE rest == handles \ {e}
  <2>1. /\ IsFiniteSet(rest) /\ Cardinality(rest) = Cardinality(handles) - 1
        /\ Cardinality(handles) \in Nat
    BY DeleteOne
  <2>2. handles' = rest \cup {new}
    BY <1>2
  <2> HIDE DEF rest
  <2>3. /\ IsFiniteSet(rest \cup {new})
        /\ \/ Cardinality(rest \cup {new}) = Cardinality(rest)
           \/ Cardinality(rest \cup {new}) = Cardinality(rest) + 1
    BY <2>1, AddOne
  <2> QED BY <2>1, <2>2, <2>3
<1>6. Distinct(handles')
  BY <1>1, <1>2 DEF CacheInv, Distinct
<1>7. Given' /\ HitsAreLive'
  BY <1>1, <1>2, <1>3 DEF CacheInv, Given, HitsAreLive
<1>8. CacheTypes'
  BY <1>1, <1>2, <1>3, <1>5 DEF CacheInv, CacheTypes
<1>9. SizeBounded'
  BY <1>5, FS_CardinalityType DEF CacheInv, CacheTypes, SizeBounded
<1> QED BY <1>3, <1>4, <1>6, <1>7, <1>8, <1>9 DEF CacheInv, ClosedOnce

LEMMA OpenKeeps ==
  ASSUME CacheInv, NEW r \in Reads, OpenResolves(r)
  PROVE  CacheInv'
<1> DEFINE h == opened + 1
           p == read[r].path
           t == read[r].since
<1>1. p \in Paths /\ t \in Times /\ h \in Handles /\ h \in Nat
  BY DEF CacheInv, CacheTypes, ReadTypes, OpenResolves, Handles
<1>2. /\ opened' = h /\ pathOf' = [pathOf EXCEPT ![h] = p]
      /\ UNCHANGED now
  BY DEF OpenResolves
<1>3. ReadTypes' /\ ReadShape'
  <2>1. AwaitRead(h).at # "open"
    BY DEF AwaitRead
  <2> QED BY <2>1, ReadMoves DEF OpenResolves
<1>4. PICK cache \in SUBSET handles :
        /\ handles' = Put(cache, p, h, t)
        /\ Distinct(cache) /\ IsFiniteSet(cache) /\ Cardinality(cache) < MaxEntries
        /\ closes' \in [Handles -> Nat] /\ \A k \in Handles : closes'[k] <= 1
        /\ \A k \in Handles : k > opened => closes'[k] = 0
        /\ \A f \in cache : closes'[f.handle] = 0
  <2>1. CASE Cardinality(handles) < MaxEntries
    <3>1. handles' = Put(handles, p, h, t) /\ closes' = closes
      BY <2>1, FS_CardinalityType DEF OpenResolves, CacheInv, CacheTypes
    <3> QED BY <2>1, <3>1
            DEF CacheInv, CacheTypes, ClosedOnce, Given, HitsAreLive
  <2>2. CASE Cardinality(handles) >= MaxEntries
    <3>6. Cardinality(handles) \in Nat
      BY FS_CardinalityType DEF CacheInv, CacheTypes
    <3>7. ~(Cardinality(handles) < MaxEntries)
      BY <2>2, <3>6
    <3>1. PICK e \in handles :
            /\ closes' = [closes EXCEPT ![e.handle] = @ + 1]
            /\ handles' = Put(handles \ {e}, p, h, t)
      BY <3>7 DEF OpenResolves
    <3> DEFINE rest == handles \ {e}
    <3>2. /\ rest \in SUBSET handles /\ Distinct(rest) /\ IsFiniteSet(rest)
          /\ Cardinality(rest) = Cardinality(handles) - 1 /\ Cardinality(handles) \in Nat
      BY DeleteOne
    <3>3. Cardinality(rest) < MaxEntries
      BY <3>2 DEF CacheInv, SizeBounded
    <3>4. /\ closes' \in [Handles -> Nat] /\ \A k \in Handles : closes'[k] <= 1
          /\ \A k \in Handles : k > opened => closes'[k] = 0
          /\ \A f \in rest : closes'[f.handle] = 0
      BY <3>1, CloseOne
    <3>5. handles' = Put(rest, p, h, t)
      BY <3>1
    <3> HIDE DEF rest, h, p, t
    <3> QED BY <3>2, <3>3, <3>4, <3>5
  <2> QED BY <2>1, <2>2, FS_CardinalityType DEF CacheInv, CacheTypes
<1>5. /\ cache \in SUBSET Entry
      /\ \A e \in cache : e.place < h /\ e.handle < h
  BY <1>4 DEF CacheInv, CacheTypes, Given, Entry, Handles
<1>6. /\ handles' \subseteq Entry /\ Distinct(handles') /\ IsFiniteSet(handles')
      /\ Cardinality(handles') <= Cardinality(cache) + 1
      /\ \A e \in handles' : /\ e.place <= h /\ e.handle <= h
                             /\ e \in cache \/ (e.path = p /\ e.handle = h)
  BY <1>1, <1>4, <1>5, PutKeeps
<1>7. CacheTypes'
  BY <1>1, <1>2, <1>4, <1>6 DEF CacheInv, CacheTypes, Handles
<1>8. Given'
  BY <1>1, <1>2, <1>4, <1>6 DEF CacheInv, CacheTypes, Given, Handles
<1>9. HitsAreLive'
  <2>1. /\ closes'[h] = 0 /\ pathOf'[h] = p
        /\ \A f \in cache : f.handle \in Handles /\ pathOf'[f.handle] = f.path
    BY <1>1, <1>2, <1>4, <1>5 DEF CacheInv, CacheTypes, HitsAreLive, Entry
  <2> QED BY <1>4, <1>6, <2>1 DEF HitsAreLive
<1>10. SizeBounded'
  BY <1>4, <1>6, FS_CardinalityType DEF SizeBounded
<1>11. ClosedOnce'
  BY <1>4 DEF ClosedOnce
<1> QED BY <1>3, <1>6, <1>7, <1>8, <1>9, <1>10, <1>11 DEF CacheInv

LEMMA SweepKeepsInv ==
  ASSUME CacheInv, NEW s, NEW place, NEW t, NEW idle \in SUBSET handles,
         SweepTurn(s, place, t, idle), UNCHANGED <<now, opened, pathOf, read>>
  PROVE  CacheInv'
<1>1. CASE idle = {}
  <2>1. handles' = handles /\ closes' = closes
    BY <1>1 DEF SweepTurn
  <2> QED BY <2>1 DEF CacheInv, CacheTypes, ReadTypes, ReadShape, Distinct, Given, HitsAreLive,
                      ClosedOnce, SizeBounded
<1>2. CASE idle # {}
  <2>1. PICK e \in handles : /\ handles' = handles \ {e}
                             /\ closes' = [closes EXCEPT ![e.handle] = @ + 1]
    BY <1>2 DEF SweepTurn
  <2>2. /\ closes' \in [Handles -> Nat] /\ \A h \in Handles : closes'[h] <= 1
        /\ \A h \in Handles : h > opened => closes'[h] = 0
        /\ \A f \in handles \ {e} : closes'[f.handle] = 0
    BY <2>1, CloseOne
  <2>3. /\ handles' \subseteq Entry /\ IsFiniteSet(handles') /\ Distinct(handles')
        /\ Cardinality(handles') = Cardinality(handles) - 1 /\ Cardinality(handles) \in Nat
    BY <2>1, DeleteOne
  <2>5. SizeBounded' /\ ClosedOnce'
    BY <2>2, <2>3 DEF CacheInv, SizeBounded, ClosedOnce
  <2>4. ReadTypes' /\ ReadShape'
    BY DEF CacheInv, ReadTypes, ReadShape
  <2> QED BY <2>1, <2>2, <2>3, <2>4, <2>5 DEF CacheInv, CacheTypes, Given, HitsAreLive
<1> QED BY <1>1, <1>2

LEMMA CacheStep == CacheInv /\ [Next]_vars => CacheInv'
<1> SUFFICES ASSUME CacheInv, [Next]_vars PROVE CacheInv'
  OBVIOUS
<1> USE DEF fileVars
<1>1. ASSUME NEW r \in Reads, NEW e \in handles, GetHit(r, e) PROVE CacheInv'
  BY <1>1, HitKeeps
<1>2. ASSUME NEW r \in Reads, NEW p \in Paths, GetMiss(r, p) PROVE CacheInv'
  <2>1. ReadTypes' /\ ReadShape'
    <3>1. AwaitOpen(p, now).path = p /\ AwaitOpen(p, now).since = now /\ now \in Times
      BY DEF AwaitOpen, CacheInv, CacheTypes
    <3> QED BY <1>2, <3>1, ReadMoves DEF GetMiss
  <2> QED BY <1>2, <2>1 DEF GetMiss, CacheInv, CacheTypes, Distinct, Given, HitsAreLive, ClosedOnce,
                           SizeBounded
<1>3. ASSUME NEW r \in Reads, OpenResolves(r) PROVE CacheInv'
  BY <1>3, OpenKeeps
<1>4. ASSUME NEW r \in Reads, ReadEnds(r) PROVE CacheInv'
  <2>1. ReadTypes' /\ ReadShape'
    <3>1. NoRead.at # "open"
      BY DEF NoRead
    <3> QED BY <1>4, <3>1, ReadMoves DEF ReadEnds
  <2> QED BY <1>4, <2>1 DEF ReadEnds, CacheInv, CacheTypes, Distinct, Given, HitsAreLive, ClosedOnce,
                           SizeBounded
<1>5. ASSUME NEW s \in Sweepers, Sweep(s) PROVE CacheInv'
  <2>1. Idle(0, now) \in SUBSET handles
    BY DEF Idle
  <2> QED BY <1>5, <2>1, SweepKeepsInv DEF Sweep
<1>6. ASSUME NEW s \in Sweepers, SweepGoesOn(s) PROVE CacheInv'
  <2>1. Idle(sweep[s].place, sweep[s].since) \in SUBSET handles
    BY DEF Idle
  <2> QED BY <1>6, <2>1, SweepKeepsInv DEF SweepGoesOn
<1>7. CASE CloseAll
  <2>1. handles' = {} /\ IsFiniteSet(handles') /\ Cardinality(handles') = 0
    BY <1>7, FS_EmptySet DEF CloseAll
  <2>2. \A h \in Handles : closes'[h] = IF \E e \in handles : e.handle = h
                                        THEN closes[h] + 1 ELSE closes[h]
    BY <1>7 DEF CloseAll
  <2>3. \A e \in handles : closes[e.handle] = 0 /\ e.handle <= opened
    BY DEF CacheInv, HitsAreLive, Given
  <2>4. \A h \in Handles : closes'[h] \in Nat /\ closes'[h] <= 1 /\ (h > opened => closes'[h] = 0)
    BY <2>2, <2>3 DEF CacheInv, CacheTypes, ClosedOnce, Given, Handles
  <2>5. CacheTypes'
    BY <1>7, <2>1, <2>4 DEF CloseAll, CacheInv, CacheTypes
  <2>6. Distinct(handles') /\ Given' /\ HitsAreLive' /\ ClosedOnce' /\ SizeBounded'
    BY <1>7, <2>1, <2>4 DEF CloseAll, Distinct, Given, HitsAreLive, ClosedOnce, SizeBounded
  <2>7. ReadTypes' /\ ReadShape'
    BY <1>7 DEF CloseAll, CacheInv, ReadTypes, ReadShape
  <2> QED BY <2>5, <2>6, <2>7 DEF CacheInv
<1>8. CASE Tick
  BY <1>8 DEF Tick, CacheInv, CacheTypes, ReadTypes, ReadShape, Distinct, Given, HitsAreLive,
              ClosedOnce, SizeBounded, Times
<1>9. CASE UNCHANGED vars
  BY <1>9 DEF vars, CacheInv, CacheTypes, ReadTypes, ReadShape, Distinct, Given, HitsAreLive,
              ClosedOnce, SizeBounded
<1> QED BY <1>1, <1>2, <1>3, <1>4, <1>5, <1>6, <1>7, <1>8, <1>9 DEF Next

LEMMA CacheInvariant == Spec => []CacheInv
  BY CacheInit, CacheStep, PTL DEF Spec

-----------------------------------------------------------------------------
\* The cache never holds more than maxEntries handles (get, state.ts:188-216),
\* however many gets finish when it is full.
THEOREM CacheBounded == Spec => []SizeBounded
<1>1. CacheInv => SizeBounded
  BY DEF CacheInv
<1> QED BY <1>1, CacheInvariant, PTL

\* A READ that finds a handle in the cache finds a live one of its own file,
\* whatever evictions, sweeps and other gets did around it.
THEOREM CacheLive == Spec => []HitsAreLive
<1>1. CacheInv => HitsAreLive
  BY DEF CacheInv
<1> QED BY <1>1, CacheInvariant, PTL

\* Eviction, any number of overlapping sweeps and the shutdown close a handle once.
THEOREM CacheClosesOnce == Spec => []ClosedOnce
<1>1. CacheInv => ClosedOnce
  BY DEF CacheInv
<1> QED BY <1>1, CacheInvariant, PTL
=============================================================================
