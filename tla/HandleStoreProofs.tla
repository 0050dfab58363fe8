------------------------- MODULE HandleStoreProofs -------------------------
(***************************************************************************)
(* Proofs about HandleStore.  All of them rest on one invariant: what is   *)
(* about to be renamed is what the .tmp file holds, and while no write has *)
(* failed, whatever is not dirty is in the file or on its way there.       *)
(***************************************************************************)
EXTENDS HandleStore, TLAPS

Values == Seq(Paths)
Phases == {"waiting", "mkdir", "write", "rename"}

Types ==
  /\ memory \in Values /\ dirty \in BOOLEAN /\ broken \in BOOLEAN
  /\ jobs \in Seq([phase : Phases, out : Values])
  /\ file \in Values /\ tmp \in Values \cup {Torn}
  /\ process \in {"up", "closing", "down"}

\* Only the first write chained runs, and none does on a rejected promise.
OneRuns ==
  /\ \A i \in 2 .. Len(jobs) : jobs[i] = Waiting
  /\ broken \/ process = "down" => jobs = <<>>

\* A full .tmp file is renamed.
TmpFull ==
  jobs # <<>> /\ jobs[1].phase = "rename" => tmp = jobs[1].out

\* The last write chained will leave in the file what memory has.
OnItsWay ==
  jobs = <<>> \/ (Len(jobs) = 1 => jobs[1].phase = "waiting" \/ jobs[1].out = memory)
CleanIsKept ==
  ~dirty /\ ~broken /\ process # "down" =>
    OnItsWay /\ (jobs = <<>> => file = memory)

ClosingIsClean == process = "closing" => ~dirty

StoreInv == Types /\ OneRuns /\ TmpFull /\ CleanIsKept /\ ClosingIsClean

USE ConstantsAssumption DEF ConstantsAssumption

-----------------------------------------------------------------------------
LEMMA StoredIsValue ==
  ASSUME Types, NEW p \in Paths
  PROVE  /\ Stored(memory, p) \in Values
         /\ p \notin Keys(memory) =>
              \/ Stored(memory, p) = Append(memory, p)
              \/ memory # <<>> /\ Stored(memory, p) = Append(Tail(memory), p)
<1>1. Len(memory) >= MaxEntries => memory # <<>> /\ Tail(memory) \in Values
  BY DEF Types, Values
<1> QED BY <1>1 DEF Types, Values, Stored

LEMMA HeadTyped ==
  ASSUME Types, jobs # <<>>
  PROVE  /\ Head(jobs) = jobs[1] /\ 1 \in DOMAIN jobs
         /\ jobs[1] \in [phase : Phases, out : Values]
<1> DEFINE Jobs == [phase : Phases, out : Values]
<1>1. jobs \in Seq(Jobs)
  BY DEF Types
<1> HIDE DEF Jobs
<1>2. Head(jobs) = jobs[1] /\ 1 \in DOMAIN jobs /\ jobs[1] \in Jobs
  BY <1>1
<1> QED BY <1>2 DEF Jobs

LEMMA NothingIsValue == <<>> \in Values /\ <<>> \in Seq([phase : Phases, out : Values])
  BY DEF Values

LEMMA StoreInit == Init => StoreInv
<1> SUFFICES ASSUME Init PROVE StoreInv
  OBVIOUS
<1>1. Types
  BY NothingIsValue DEF Init, Types
<1>2. OneRuns
  BY DEF Init, OneRuns
<1>3. TmpFull /\ CleanIsKept /\ ClosingIsClean
  BY DEF Init, TmpFull, CleanIsKept, OnItsWay, ClosingIsClean
<1> QED BY <1>1, <1>2, <1>3 DEF StoreInv

\* A write that is chained waits behind the others, and leaves the store clean.
LEMMA FlushKeeps ==
  ASSUME StoreInv, Flush, process = "up",
         UNCHANGED <<memory, broken, diskVars>>,
         process' \in {"up", "closing"}
  PROVE  StoreInv'
<1>1. CASE dirty /\ ~broken
  <2>1. jobs' = Append(jobs, Waiting) /\ Waiting \in [phase : Phases, out : Values]
    BY <1>1 DEF Flush, Waiting, Phases, Values
  <2>2. jobs \in Seq([phase : Phases, out : Values])
    BY DEF StoreInv, Types
  <2>3. /\ jobs' \in Seq([phase : Phases, out : Values])
        /\ Len(jobs') = Len(jobs) + 1 /\ jobs' # <<>>
        /\ \A i \in 1 .. Len(jobs) : jobs'[i] = jobs[i]
        /\ jobs'[Len(jobs) + 1] = Waiting
    BY <2>1, <2>2
  <2>4. Types'
    BY <2>3 DEF StoreInv, Types, Flush, diskVars
  <2>5. OneRuns'
    BY <1>1, <2>2, <2>3 DEF StoreInv, OneRuns
  <2>6. TmpFull'
    <3>1. CASE jobs = <<>>
      BY <3>1, <2>3 DEF TmpFull, Waiting
    <3>2. CASE jobs # <<>>
      BY <3>2, <2>2, <2>3 DEF StoreInv, TmpFull, diskVars
    <3> QED BY <3>1, <3>2
  <2>7. OnItsWay'
    BY <2>2, <2>3 DEF OnItsWay, Waiting
  <2> QED BY <2>3, <2>4, <2>5, <2>6, <2>7
          DEF StoreInv, CleanIsKept, ClosingIsClean, Flush
<1>2. CASE ~(dirty /\ ~broken)
  BY <1>2 DEF StoreInv, Types, OneRuns, TmpFull, CleanIsKept, OnItsWay, ClosingIsClean,
              Flush, diskVars
<1> QED BY <1>1, <1>2

\* The write at the head of the chain takes its next step.
LEMMA HeadStepKeeps ==
  ASSUME StoreInv, NEW was \in Phases, NEW phase \in Phases, NEW out \in Values,
         Running(was), HeadBecomes(phase, out),
         UNCHANGED <<storeVars, broken, file, process>>,
         tmp' \in Values \cup {Torn}, phase = "rename" => tmp' = out,
         phase # "waiting",
         out = memory \/ (was # "waiting" /\ out = Head(jobs).out)
  PROVE  StoreInv'
<1>1. /\ jobs \in Seq([phase : Phases, out : Values]) /\ jobs # <<>>
      /\ Head(jobs) = jobs[1] /\ 1 \in DOMAIN jobs
  BY DEF StoreInv, Types, Running
<1>2. /\ jobs' \in Seq([phase : Phases, out : Values])
      /\ Len(jobs') = Len(jobs) /\ jobs' # <<>>
      /\ jobs'[1] = [phase |-> phase, out |-> out]
      /\ \A i \in 2 .. Len(jobs) : jobs'[i] = jobs[i]
  BY <1>1 DEF HeadBecomes
<1>3. Types'
  BY <1>2 DEF StoreInv, Types, storeVars
<1>4. OneRuns' /\ TmpFull'
  BY <1>1, <1>2 DEF StoreInv, OneRuns, TmpFull, Running
<1>5. CleanIsKept'
  BY <1>1, <1>2 DEF StoreInv, CleanIsKept, OnItsWay, storeVars, Running
<1>6. ClosingIsClean'
  BY DEF StoreInv, ClosingIsClean, storeVars
<1> QED BY <1>3, <1>4, <1>5, <1>6 DEF StoreInv

LEMMA RenameKeeps == ASSUME StoreInv, Rename PROVE StoreInv'
<1>1. /\ jobs \in Seq([phase : Phases, out : Values]) /\ jobs # <<>>
      /\ Head(jobs) = jobs[1] /\ 1 \in DOMAIN jobs
      /\ jobs[1] \in [phase : Phases, out : Values] /\ jobs[1].phase = "rename"
  BY HeadTyped DEF StoreInv, Types, Running, Rename
<1>2. /\ jobs' \in Seq([phase : Phases, out : Values])
      /\ Len(jobs') = Len(jobs) - 1
      /\ \A i \in 1 .. Len(jobs') : jobs'[i] = jobs[i + 1]
      /\ Len(jobs) = 1 => jobs' = <<>>
  BY <1>1 DEF Rename
<1>3. file' = jobs[1].out /\ file' \in Values /\ tmp' = tmp
  BY <1>1 DEF StoreInv, TmpFull, Rename
<1>4. \A i \in 1 .. Len(jobs') : jobs'[i] = Waiting
  BY <1>1, <1>2 DEF StoreInv, OneRuns
<1>5. Types'
  BY <1>2, <1>3 DEF StoreInv, Types, Rename, storeVars
<1>6. OneRuns' /\ TmpFull'
  <2>1. jobs' # <<>> => 1 \in 1 .. Len(jobs')
    BY <1>2
  <2>2. broken' = broken /\ process' = process /\ ~broken /\ process # "down"
    BY <1>1 DEF StoreInv, OneRuns, Rename
  <2> QED BY <1>2, <1>4, <2>1, <2>2 DEF OneRuns, TmpFull, Waiting
<1>7. CleanIsKept'
  <2>1. jobs' # <<>> => jobs'[1] = Waiting
    BY <1>2, <1>4
  <2>2. jobs' = <<>> => Len(jobs) = 1
    BY <1>1, <1>2
  <2> QED BY <1>1, <1>3, <2>1, <2>2
          DEF StoreInv, CleanIsKept, OnItsWay, Rename, storeVars, Waiting
<1>8. ClosingIsClean'
  BY DEF StoreInv, ClosingIsClean, Rename, storeVars
<1> QED BY <1>5, <1>6, <1>7, <1>8 DEF StoreInv

LEMMA StoreStep == StoreInv /\ [Next]_vars => StoreInv'
<1> SUFFICES ASSUME StoreInv, [Next]_vars PROVE StoreInv'
  OBVIOUS
<1>1. ASSUME NEW p \in Paths, Encode(p) PROVE StoreInv'
  BY <1>1, StoredIsValue
     DEF StoreInv, Types, OneRuns, TmpFull, CleanIsKept, ClosingIsClean, Encode,
         writeVars, diskVars
<1>2. CASE TimerFires
  BY <1>2, FlushKeeps DEF TimerFires, diskVars
<1>3. CASE FlushNow
  BY <1>3, FlushKeeps DEF FlushNow, diskVars
<1>4. CASE Close
  BY <1>4, FlushKeeps DEF Close, diskVars
<1>5. CASE WriteSnapshot
  BY <1>5, HeadStepKeeps DEF WriteSnapshot, diskVars, StoreInv, Types, Phases
<1>6. CASE WriteBegins
  <2>1. Head(jobs).out \in Values
    BY <1>6, HeadTyped DEF WriteBegins, Running, StoreInv
  <2> QED BY <1>6, <2>1, HeadStepKeeps DEF WriteBegins, Phases
<1>7. CASE WriteEnds
  <2>1. Head(jobs).out \in Values
    BY <1>7, HeadTyped DEF WriteEnds, Running, StoreInv
  <2> QED BY <1>7, <2>1, HeadStepKeeps DEF WriteEnds, Phases
<1>8. CASE Rename
  BY <1>8, RenameKeeps
<1>9. CASE WriteFails
  BY <1>9 DEF StoreInv, Types, OneRuns, TmpFull, CleanIsKept, ClosingIsClean, WriteFails,
              storeVars, diskVars
<1>10. CASE Exit \/ Crash
  <2>1. GoDown
    BY <1>10 DEF Exit, Crash
  <2>2. Types'
    BY <2>1, NothingIsValue DEF GoDown, StoreInv, Types, diskVars
  <2>3. OneRuns'
    BY <2>1 DEF GoDown, OneRuns
  <2>4. TmpFull' /\ CleanIsKept' /\ ClosingIsClean'
    BY <2>1 DEF GoDown, TmpFull, CleanIsKept, ClosingIsClean
  <2> QED BY <2>2, <2>3, <2>4 DEF StoreInv
<1>11. CASE Load
  BY <1>11 DEF StoreInv, Types, OneRuns, TmpFull, CleanIsKept, OnItsWay, ClosingIsClean,
               Load, writeVars, diskVars
<1>12. CASE UNCHANGED vars
  BY <1>12 DEF StoreInv, Types, OneRuns, TmpFull, CleanIsKept, OnItsWay, ClosingIsClean,
               vars, storeVars, writeVars, diskVars
<1> QED BY <1>1, <1>2, <1>3, <1>4, <1>5, <1>6, <1>7, <1>8, <1>9, <1>10, <1>11, <1>12
        DEF Next, WriteStep

LEMMA StoreInvariant == Spec => []StoreInv
  BY StoreInit, StoreStep, PTL DEF Spec

-----------------------------------------------------------------------------
\* A process that was closed and had no write fail leaves its memory in the file
\* (close, filehandle.ts:122-128).
THEOREM CloseKeeps == Spec => CloseKeepsHandles
<1>1. StoreInv => (Exit /\ ~broken => file = memory)
  BY DEF StoreInv, CleanIsKept, ClosingIsClean, Exit
<1>2. StoreInv => [Exit /\ ~broken => file = memory]_vars
  BY <1>1
<1> QED BY <1>2, StoreInvariant, PTL DEF CloseKeepsHandles

\* What a flush has yet to take has a timer that will.
DirtyHasTimer ==
  /\ process = "up" /\ dirty => timer
  /\ process = "down" => ~dirty

LEMMA TimerStep ==
  ASSUME Types, DirtyHasTimer, [Next]_vars
  PROVE  DirtyHasTimer'
<1> USE DEF DirtyHasTimer
<1>1. CASE \E p \in Paths : Encode(p)
  BY <1>1 DEF Encode
<1>2. CASE TimerFires \/ FlushNow \/ Close
  BY <1>2 DEF TimerFires, FlushNow, Close, Flush
<1>3. CASE WriteStep \/ WriteFails \/ UNCHANGED vars
  BY <1>3 DEF WriteStep, WriteSnapshot, WriteBegins, WriteEnds, Rename, WriteFails, storeVars, vars
<1>4. CASE Exit \/ Crash
  BY <1>4 DEF Exit, Crash, GoDown
<1>5. CASE Load
  BY <1>5 DEF Load
<1> QED BY <1>1, <1>2, <1>3, <1>4, <1>5 DEF Next

\* The safety in WrittenUnlessFailed: a path set while a flush or a write is under way,
\* or between two of them, is still dirty, or the next write will copy it; no change is
\* left that neither the timer nor a chained write brings to the file (set and flush,
\* filehandle.ts:88-119).
THEOREM ChangesAreWaitedFor == Spec => []NothingStranded
<1>1. Init => DirtyHasTimer
  BY DEF Init, DirtyHasTimer
<1>2. StoreInv /\ DirtyHasTimer /\ [Next]_vars => DirtyHasTimer'
  BY TimerStep DEF StoreInv
<1>3. StoreInv /\ DirtyHasTimer => NothingStranded
  BY DEF StoreInv, DirtyHasTimer, CleanIsKept, NothingStranded
<1> QED BY <1>1, <1>2, <1>3, StoreInvariant, PTL DEF Spec

\* Memory, the chain of writes and the two files implement a map that is saved whole
\* and never steps back, wherever the process dies or a write fails.
THEOREM StoreImplementsMap == Spec => ImplementsMap
<1>1. Init => Map!Init
  BY DEF Init, Map!Init, Snapshot
<1>2. StoreInv /\ [Next]_vars => [Map!Next]_(Map!vars)
  <2> SUFFICES ASSUME StoreInv, [Next]_vars PROVE Map!Next \/ UNCHANGED Map!vars
    OBVIOUS
  <2> USE DEF Map!Next, Map!vars
  <2>1. ASSUME NEW p \in Paths, Encode(p) PROVE Map!Put(p)
    BY <2>1, StoredIsValue DEF StoreInv, Encode, Map!Put, Snapshot, writeVars, diskVars
  <2>2. ASSUME Flush PROVE Snapshot' = Snapshot
    BY <2>2 DEF Flush, Snapshot, Waiting, StoreInv, Types
  <2>3. CASE TimerFires \/ FlushNow \/ Close
    BY <2>2, <2>3 DEF TimerFires, FlushNow, Close, diskVars
  <2>4. CASE WriteSnapshot
    BY <2>4 DEF WriteSnapshot, HeadBecomes, Running, Snapshot, Map!Begin, storeVars, diskVars,
                StoreInv, Types
  <2>5. CASE WriteBegins \/ WriteEnds
    BY <2>5 DEF WriteBegins, WriteEnds, HeadBecomes, Running, Snapshot, storeVars,
                StoreInv, Types
  <2>6. CASE Rename
    BY <2>6 DEF Rename, Running, Snapshot, Map!Save, storeVars, StoreInv, Types, TmpFull,
                OneRuns, Waiting
  <2>7. CASE WriteFails
    BY <2>7 DEF WriteFails, Running, Snapshot, Map!GiveUp, storeVars, diskVars
  <2>8. CASE Exit \/ Crash
    BY <2>8 DEF Exit, Crash, GoDown, Snapshot, Map!Stop, diskVars
  <2>9. CASE Load
    BY <2>9 DEF Load, Snapshot, Map!Start, writeVars, diskVars
  <2>10. CASE UNCHANGED vars
    BY <2>10 DEF vars, storeVars, writeVars, diskVars, Snapshot
  <2> QED BY <2>1, <2>3, <2>4, <2>5, <2>6, <2>7, <2>8, <2>9, <2>10 DEF Next, WriteStep
<1> QED BY <1>1, <1>2, StoreInvariant, PTL DEF Spec, ImplementsMap, Map!Spec
=============================================================================
