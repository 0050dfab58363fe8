---------------------------- MODULE HandleStore ----------------------------
(***************************************************************************)
(* JsonFileHandleStore and the MemoryHandleStore inside it                 *)
(* (nfs4/filehandle.ts): the paths behind hashed filehandles, kept in      *)
(* memory and written to a file a moment after they change, so that a      *)
(* restarted server can still reverse the handles its clients hold.        *)
(*                                                                         *)
(* flush chains its work on the promise of the flush before it, so one     *)
(* write runs at a time, and a chain whose promise has rejected runs none  *)
(* of what is chained on it.  A long path and its hash are one value: two  *)
(* paths are assumed not to share a hash.                                  *)
(***************************************************************************)
EXTENDS Naturals, Sequences

CONSTANTS
  Paths,       \* paths too long to be their own handle
  Torn,        \* the contents of a file some of whose bytes are missing
  MaxEntries,  \* maxEntries of the memory store
  MaxJobs,     \* bound: writes chained at once
  MaxFailures, \* bound: writes that fail
  MaxCrashes   \* bound: times the process dies or is closed

ASSUME ConstantsAssumption ==
  /\ MaxEntries \in Nat \ {0} /\ MaxJobs \in Nat
  /\ MaxFailures \in Nat /\ MaxCrashes \in Nat
  /\ Torn \notin Seq(Paths)

VARIABLES
  memory,   \* the Map of MemoryHandleStore, its keys in insertion order
  dirty,    \* whether memory changed since the last flush began
  timer,    \* whether the flush timer is armed
  jobs,     \* the writes chained on the writing promise, the first one running
  broken,   \* whether the writing promise has rejected
  file,     \* the file's contents, a value of memory or Torn
  tmp,      \* the contents of the .tmp file beside it
  process,  \* "up", "closing" (awaiting the flush of close), "down"
  failures, \* writes that failed so far
  crashes   \* times the process went down

storeVars == <<memory, dirty, timer>>
diskVars == <<file, tmp>>
writeVars == <<jobs, broken>>
vars == <<storeVars, writeVars, diskVars, process, failures, crashes>>

Keys(m) == {m[i] : i \in DOMAIN m}
Waiting == [phase |-> "waiting", out |-> <<>>]

-----------------------------------------------------------------------------
\* MemoryHandleStore.set: a key that is present keeps its place; the oldest key
\* makes room for a new one.
Stored(m, p) ==
  IF p \in Keys(m) THEN m
  ELSE Append(IF Len(m) >= MaxEntries THEN Tail(m) ELSE m, p)

\* Mutant: set marks the store dirty only when it arms the timer.
EncodeOncePerTimer(p) ==
  /\ process = "up" /\ p \notin Keys(memory)
  /\ memory' = Stored(memory, p)
  /\ dirty' = (dirty \/ ~timer) /\ timer' = TRUE
  /\ UNCHANGED <<writeVars, diskVars, process, failures, crashes>>

\* FileHandles.encode of a long path, which is JsonFileHandleStore.set.
Encode(p) ==
  /\ process = "up" /\ p \notin Keys(memory)
  /\ memory' = Stored(memory, p)
  /\ dirty' = TRUE /\ timer' = TRUE
  /\ UNCHANGED <<writeVars, diskVars, process, failures, crashes>>

\* flush: nothing to do, or one more write chained; on a rejected promise the
\* write will never run, and what it would have written is no longer dirty.
Flush ==
  /\ Len(jobs) < MaxJobs
  /\ dirty' = FALSE
  /\ jobs' = IF dirty /\ ~broken THEN Append(jobs, Waiting) ELSE jobs

TimerFires ==
  /\ process = "up" /\ timer
  /\ timer' = FALSE
  /\ Flush
  /\ UNCHANGED <<memory, broken, diskVars, process, failures, crashes>>

\* The application calls flush itself and handles its rejection; the timer stays.
FlushNow ==
  /\ process = "up" /\ dirty
  /\ Flush
  /\ UNCHANGED <<memory, timer, broken, diskVars, process, failures, crashes>>

-----------------------------------------------------------------------------
\* The write at the head of the chain, one await after another.
Running(phase) == jobs # <<>> /\ Head(jobs).phase = phase /\ process # "down"
HeadBecomes(phase, out) == jobs' = [jobs EXCEPT ![1] = [phase |-> phase, out |-> out]]

\* The entries are copied out of memory when the write before has settled; the
\* directory is made.
WriteSnapshot ==
  /\ Running("waiting")
  /\ HeadBecomes("mkdir", memory)
  /\ UNCHANGED <<storeVars, broken, diskVars, process, failures, crashes>>

\* Mutant: the snapshot goes straight to the file.
WriteBeginsInPlace ==
  /\ Running("mkdir")
  /\ file' = Torn
  /\ HeadBecomes("write", Head(jobs).out)
  /\ UNCHANGED <<storeVars, broken, tmp, process, failures, crashes>>

\* writeFile truncates the .tmp file and fills it.
WriteBegins ==
  /\ Running("mkdir")
  /\ tmp' = Torn
  /\ HeadBecomes("write", Head(jobs).out)
  /\ UNCHANGED <<storeVars, broken, file, process, failures, crashes>>

WriteEnds ==
  /\ Running("write")
  /\ tmp' = Head(jobs).out
  /\ HeadBecomes("rename", Head(jobs).out)
  /\ UNCHANGED <<storeVars, broken, file, process, failures, crashes>>

Rename ==
  /\ Running("rename")
  /\ file' = tmp
  /\ jobs' = Tail(jobs)
  /\ UNCHANGED <<storeVars, broken, tmp, process, failures, crashes>>

\* mkdir, writeFile or rename rejects, and with it all that is chained.
WriteFails ==
  /\ \E phase \in {"mkdir", "write", "rename"} : Running(phase)
  /\ failures < MaxFailures /\ failures' = failures + 1
  /\ broken' = TRUE /\ jobs' = <<>>
  /\ UNCHANGED <<storeVars, diskVars, process, crashes>>

-----------------------------------------------------------------------------
\* Mutant: close awaits the write under way and flushes nothing itself.
CloseWithoutFlush ==
  /\ Len(jobs) < MaxJobs
  /\ process = "up" /\ crashes < MaxCrashes
  /\ process' = "closing" /\ timer' = FALSE
  /\ UNCHANGED <<memory, dirty, jobs, broken, diskVars, failures, crashes>>

\* close: the timer is cleared and the last flush awaited; no handle is encoded
\* any more, the server having been closed first.
Close ==
  /\ process = "up" /\ crashes < MaxCrashes
  /\ process' = "closing" /\ timer' = FALSE
  /\ Flush
  /\ UNCHANGED <<memory, broken, diskVars, failures, crashes>>

GoDown ==
  /\ process' = "down" /\ crashes' = crashes + 1
  /\ memory' = <<>> /\ dirty' = FALSE /\ timer' = FALSE
  /\ jobs' = <<>> /\ broken' = FALSE
  /\ UNCHANGED <<diskVars, failures>>

\* close's await settles and the process exits.
Exit == process = "closing" /\ jobs = <<>> /\ GoDown

\* The process dies.
Crash == process # "down" /\ crashes < MaxCrashes /\ GoDown

\* A new process loads the file.
Load ==
  /\ process = "down" /\ file # Torn
  /\ process' = "up" /\ memory' = file
  /\ UNCHANGED <<dirty, timer, writeVars, diskVars, failures, crashes>>

Init ==
  /\ memory = <<>> /\ dirty = FALSE /\ timer = FALSE
  /\ jobs = <<>> /\ broken = FALSE
  /\ file = <<>> /\ tmp = <<>>
  /\ process = "up" /\ failures = 0 /\ crashes = 0

WriteStep == WriteSnapshot \/ WriteBegins \/ WriteEnds \/ Rename

Next ==
  \/ \E p \in Paths : Encode(p)
  \/ TimerFires \/ FlushNow \/ WriteStep \/ WriteFails
  \/ Close \/ Exit \/ Crash \/ Load

Spec == Init /\ [][Next]_vars

\* The timer fires and every await of a write settles.
FairSpec == Spec /\ WF_vars(TimerFires) /\ WF_vars(WriteStep)

-----------------------------------------------------------------------------
Contents == {m \in UNION {[1 .. n -> Paths] : n \in 0 .. MaxEntries} :
               \A i, j \in DOMAIN m : m[i] = m[j] => i = j}

TypeOK ==
  /\ memory \in Contents /\ dirty \in BOOLEAN /\ timer \in BOOLEAN
  /\ jobs \in Seq([phase : {"waiting", "mkdir", "write", "rename"}, out : Contents])
  /\ \A i \in DOMAIN jobs : i > 1 => jobs[i] = Waiting
  /\ broken \in BOOLEAN
  /\ file \in Contents \cup {Torn} /\ tmp \in Contents \cup {Torn}
  /\ process \in {"up", "closing", "down"}
  /\ failures \in Nat /\ crashes \in Nat

\* The value the write under way saves.
Snapshot ==
  IF jobs # <<>> /\ Head(jobs).phase # "waiting" THEN <<Head(jobs).out>> ELSE <<>>

\* Wherever the process dies and wherever a write fails, the file is a whole value
\* the store once had, and never an older one than it was: flush, the chain of
\* writes and the rename implement a map that saves its value in one step.
Map == INSTANCE DurableMap WITH
         Keyset <- Paths, value <- memory, snapshot <- Snapshot,
         saved <- file, process <- IF process = "down" THEN "down" ELSE "up"
ImplementsMap == Map!Spec

\* A process that was closed, and had no write fail, leaves exactly its memory in
\* the file: every handle it could reverse, the next one can.
CloseKeepsHandles ==
  [][Exit /\ ~broken => file = memory]_vars

\* What the file lacks of the store is waited for: by the timer or by a write.
NothingStranded ==
  process = "up" /\ ~broken /\ file # memory => timer \/ jobs # <<>>

\* A path set in a process that stays up is in the file before long, unless newer
\* ones pushed it out or a write has failed.
InFile(p) == file # Torn /\ p \in Keys(file)
WrittenUnlessFailed ==
  \A p \in Paths :
    (p \in Keys(memory)) ~> (p \notin Keys(memory) \/ InFile(p) \/ process # "up" \/ broken)

\* filehandle.ts:57, "written a moment after changes", a failed write or not.
WrittenSoon ==
  \A p \in Paths :
    (p \in Keys(memory)) ~> (p \notin Keys(memory) \/ InFile(p) \/ process # "up")
=============================================================================
