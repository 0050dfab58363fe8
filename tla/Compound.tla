------------------------------ MODULE Compound ------------------------------
(***************************************************************************)
(* One call of an NFS client, from the record it came in to its reply:     *)
(* RpcServer.dispatch (rpc.ts) and compound (nfs4/compound.ts) with the    *)
(* operations that keep no state of their own.  A COMPOUND walks the tree  *)
(* with a current and a saved filehandle, and each of its operations adds  *)
(* a result to a reply whose larger payloads stay in the application's     *)
(* buffers until the reply is written.                                     *)
(*                                                                         *)
(* Between two operations and at every await the tree may change.  The     *)
(* operations on clients, opens and cached handles change the state of     *)
(* NfsState and AnonymousHandles; here they are seen from the COMPOUND,    *)
(* with any outcome they can have.  What the client sends is fixed when    *)
(* the call begins: a record with the numbers of its operations, cut off   *)
(* if there are fewer than it says.  Their arguments are chosen when they  *)
(* are read, since nobody looks at them before.                            *)
(*                                                                         *)
(* A filehandle is the path it stands for (filehandle.ts; two paths are    *)
(* assumed not to share a hash), and of a node are kept its path and size. *)
(***************************************************************************)
EXTENDS Integers, NfsAttrs, Xdr

CONSTANTS
  Paths, Root,  \* the paths of the export
  Parent,       \* the parent of each other path
  Kind,         \* the kind of the node at each path, when one is there
  Long,         \* the paths too long to be their own handle
  Removable,    \* the paths a client may remove
  Sizes, Gone,  \* sizes of nodes, and the size of what is not there
  Requests,     \* the bitmaps a client asks attributes with
  Reads,        \* the offsets and counts a client reads with, <<offset, count>>
  MaxRead,      \* FsInfo.maxRead
  Buffers,      \* bound: 1 .. the buffers the application's handles can fill
  Records,      \* what clients send: [count |-> operations said, ops |-> their numbers]
  MaxChanges    \* bound: changes of the tree during the call

ASSUME TreeAssumption ==
  /\ Root \in Paths /\ Long \subseteq Paths /\ Removable \subseteq Paths
  /\ Parent \in [Paths \ {Root} -> Paths] /\ Kind \in [Paths -> {"dir", "file", "link"}]
  /\ Kind[Root] = "dir" /\ \A p \in Paths \ {Root} : Kind[Parent[p]] = "dir"
  /\ Sizes \subseteq Nat /\ Gone \notin Nat /\ \E m \in Sizes : \A s \in Sizes : s <= m
ASSUME ReadAssumption ==
  /\ Reads \subseteq Nat \X Nat /\ MaxRead \in Nat /\ SpliceFrom \in Nat
  /\ Buffers \subseteq Nat \ {0} /\ \A b \in Buffers : 1 .. b \subseteq Buffers
  /\ MaxChanges \in Nat
  /\ \A r \in Records : r.count \in Nat /\ Len(r.ops) <= r.count

VARIABLES
  at,       \* "call", "ops" (an operation's number is read next), "await",
            \* "replied", "sent", "unanswered"
  todo,     \* operations the COMPOUND still has, by its count
  ahead,    \* what is left of the record: the operations in it
  cur, saved, \* the current and the saved filehandle with their nodes
  wait,     \* the await: operation, path, and of a READ offset and length (of an
            \* OPEN the size found, as its length)
  out,      \* the XdrWriter
  produced, \* results so far
  kind,     \* the kind of reply: "none", "compound", or why there is no result
  taken,    \* buffers the application's handles have filled
  released, \* how often each was released
  heard,    \* history: of the last READ answered the path, where it ended, its eof
  tree,     \* per path the size of what is there
  seen,     \* per path the sizes it had since the call came
  known,    \* the long paths whose handle the store can reverse
  changes   \* changes of the tree so far

fhVars == <<cur, saved>>
callVars == <<at, todo, ahead, wait, out, produced, kind>>
readVars == <<taken, heard>>
bufferVars == <<readVars, released>>
treeVars == <<tree, seen, changes>>
vars == <<callVars, fhVars, bufferVars, treeVars, known>>

None == [path |-> "none", size |-> Gone]
NoWait == [op |-> "none", step |-> "none", path |-> "none", from |-> 0, length |-> 0]
Node(p) == [path |-> p, size |-> tree[p]]
There(p) == tree[p] # Gone
ChildrenOf(p) == {c \in Paths \ {Root} : Parent[c] = p /\ There(c)}

-----------------------------------------------------------------------------
\* The items of a reply: status, tag and count, then the results.
Prelude == <<Item("status", "OK"), Item("tag", "t"), Item("count", "0")>>
ResultOf(op) == <<Item("op", op), Item("result", "OK")>>
CountAt == 2

Release(buffers) ==
  released' = [b \in Buffers |-> released[b] + (IF b \in buffers THEN 1 ELSE 0)]

\* The last lines of compound.
Replied(w, status, count) ==
  /\ at' = "replied" /\ kind' = "compound" /\ wait' = NoWait
  /\ out' = Patch(Patch(w, 0, status), CountAt, Word(count))

\* An operation has written its result, and read the record up to rest.
Succeeds(w, rest) ==
  /\ produced' = produced + 1 /\ todo' = todo - 1 /\ ahead' = rest
  /\ IF todo = 1 THEN Replied(w, "OK", produced + 1)
     ELSE at' = "ops" /\ out' = w /\ wait' = NoWait /\ UNCHANGED kind

\* Mutant: what a failed operation has written already stays.
FailsUncut(w, body, status) ==
  /\ produced' = produced + 1 /\ todo' = 0 /\ ahead' = <<>>
  /\ Replied(Patch(w, body - 1, status), status, produced + 1)
  /\ Release({})

\* An operation fails: its body is cut off, its status patched in, and the loop
\* left.  body is where its result's body begins.
Fails(w, body, status) ==
  /\ produced' = produced + 1 /\ todo' = 0 /\ ahead' = <<>>
  /\ Replied(Patch(Truncate(w, body), body - 1, status), status, produced + 1)
  /\ Release(Dropped(w, body))

\* The number of the next operation is read, and the head of its result written.
Number(op) ==
  at = "ops" /\ ahead # <<>> /\ Head(ahead) = op
Begun(op) == Put(out, ResultOf(op))
LeftBy(op) ==
  (IF op = "OPEN_DOWNGRADE" THEN <<"GETFH", "ILLEGAL", "ILLEGAL">> ELSE <<>>) \o Tail(ahead)

\* An operation that fails, succeeds with a body, or starts to wait, in its first turn.
Refused(op, status) ==
  /\ Number(op) /\ Fails(Begun(op), Length(Begun(op)), status)
  /\ UNCHANGED <<fhVars, readVars, treeVars, known>>
Answered(op, body) ==
  /\ Number(op) /\ Succeeds(Put(Begun(op), body), LeftBy(op))
Awaits(op, w, step, path, from, length) ==
  /\ at' = "await" /\ out' = w
  /\ wait' = [op |-> op, step |-> step, path |-> path, from |-> from, length |-> length]
  /\ UNCHANGED <<todo, ahead, produced, kind>>
Waits(op, step, path) ==
  /\ Number(op) /\ Awaits(op, Begun(op), step, path, 0, 0)
  /\ UNCHANGED <<fhVars, bufferVars, treeVars, known>>

\* The await of an operation settles: it fails, or succeeds with a body.
Settles(op, step) == at = "await" /\ wait.op = op /\ wait.step = step
FailsAfter(status) ==
  /\ Fails(out, Length(out), status)
  /\ UNCHANGED <<fhVars, readVars, treeVars, known>>

-----------------------------------------------------------------------------
\* Operations on the current filehandle alone.
GetFh ==
  /\ \/ cur = None /\ Refused("GETFH", "NOFILEHANDLE")
     \/ /\ cur # None /\ Answered("GETFH", <<Item("fh", cur.path)>>)
        /\ UNCHANGED <<fhVars, bufferVars, treeVars, known>>

SaveFh ==
  \/ cur = None /\ Refused("SAVEFH", "NOFILEHANDLE")
  \/ /\ cur # None /\ Answered("SAVEFH", <<>>) /\ saved' = cur
     /\ UNCHANGED <<cur, bufferVars, treeVars, known>>

RestoreFh ==
  \/ saved = None /\ Refused("RESTOREFH", "RESTOREFH")
  \/ /\ saved # None /\ Answered("RESTOREFH", <<>>) /\ cur' = saved
     /\ UNCHANGED <<saved, bufferVars, treeVars, known>>

ReadLink ==
  \/ cur = None /\ Refused("READLINK", "NOFILEHANDLE")
  \/ cur # None /\ Kind[cur.path] = "dir" /\ Refused("READLINK", "ISDIR")
  \/ cur # None /\ Kind[cur.path] = "file" /\ Refused("READLINK", "INVAL")
  \/ /\ cur # None /\ Kind[cur.path] = "link"
     /\ Answered("READLINK", <<Item("target", cur.path)>>)
     /\ UNCHANGED <<fhVars, bufferVars, treeVars, known>>

\* GETATTR: what is not supported is left out.
Fattr(attrs, size) ==
  <<Item("bitmap", Word(WriteBitmap(attrs))), Item("values", Word(Values(attrs, size)))>>
GetAttr ==
  \/ cur = None /\ Refused("GETATTR", "NOFILEHANDLE")
  \/ /\ cur # None
     /\ \E r \in Requests : Answered("GETATTR", Fattr(SupportedOf(ReadBitmap(r)), cur.size))
     /\ UNCHANGED <<fhVars, bufferVars, treeVars, known>>

\* attrsMatch with the values a node of some size has.
AttrsMatch(attrs, size) == Values(attrs, cur.size) = Values(attrs, size)
Verify(op, fault, wanted) ==
  \/ cur = None /\ Refused(op, "NOFILEHANDLE")
  \/ /\ cur # None
     /\ \E r \in Requests, size \in Sizes :
          LET attrs == ReadBitmap(r) IN
          \/ attrs # SupportedOf(attrs) /\ Refused(op, "ATTRNOTSUPP")
          \/ /\ attrs = SupportedOf(attrs) /\ RdattrError \in attrs
             /\ Refused(op, "INVAL")
          \/ /\ attrs = SupportedOf(attrs) /\ RdattrError \notin attrs
             /\ AttrsMatch(attrs, size) # wanted /\ Refused(op, fault)
          \/ /\ attrs = SupportedOf(attrs) /\ RdattrError \notin attrs
             /\ AttrsMatch(attrs, size) = wanted /\ Answered(op, <<>>)
             /\ UNCHANGED <<fhVars, bufferVars, treeVars, known>>

-----------------------------------------------------------------------------
\* Walking.  currentDir: the fault of the current node as a directory.
DirFault ==
  CASE cur = None -> "NOFILEHANDLE"
    [] Kind[cur.path] = "link" -> "SYMLINK"
    [] Kind[cur.path] = "file" -> "NOTDIR"
    [] OTHER -> "OK"
InDir(op) == DirFault # "OK" /\ Refused(op, DirFault)

PutRoot == Waits("PUTROOTFH", "resolve", Root)

\* decode: a hashed handle the store no longer has is stale.
PutFh ==
  \/ Refused("PUTFH", "BADHANDLE")
  \/ \E p \in Paths :
       \/ p \in Long \ known /\ Refused("PUTFH", "STALE")
       \/ p \notin Long \ known /\ Waits("PUTFH", "resolve", p)

\* The operations that look a name up in the current directory.
Lookup ==
  \E op \in {"LOOKUP", "SECINFO", "REMOVE", "OPEN"} :
    \/ InDir(op)
    \/ /\ DirFault = "OK"
       /\ \E p \in Paths \ {Root} : Parent[p] = cur.path /\ Waits(op, "lookup", p)

Lookupp ==
  \/ InDir("LOOKUPP")
  \/ DirFault = "OK" /\ cur.path = Root /\ Refused("LOOKUPP", "NOENT")
  \/ /\ DirFault = "OK" /\ cur.path # Root
     /\ Waits("LOOKUPP", "resolve", Parent[cur.path])

\* setCurrent, whose encode puts the handle into the store; PUTFH keeps the handle
\* it was given.
SetCurrent(p) ==
  /\ cur' = Node(p) /\ UNCHANGED saved
  /\ known' = IF wait.op = "PUTFH" THEN known ELSE known \cup ({p} \cap Long)

Missing(op) ==
  CASE op = "PUTROOTFH" -> "SERVERFAULT" [] op = "PUTFH" -> "STALE" [] OTHER -> "NOENT"

\* resolve or lookup has found nothing, or the node to walk to.
NotFound ==
  /\ at = "await" /\ wait.step \in {"resolve", "lookup"} /\ ~There(wait.path)
  /\ FailsAfter(Missing(wait.op))
\* Mutant: what was resolved is not checked to be there.
WalkedAnyway ==
  /\ at = "await" /\ wait.op \in {"PUTROOTFH", "PUTFH", "LOOKUP", "LOOKUPP"}
  /\ Succeeds(out, LeftBy(wait.op)) /\ SetCurrent(wait.path)
  /\ UNCHANGED <<bufferVars, treeVars>>

Walked ==
  /\ at = "await" /\ wait.op \in {"PUTROOTFH", "PUTFH", "LOOKUP", "LOOKUPP"}
  /\ There(wait.path)
  /\ Succeeds(out, LeftBy(wait.op)) /\ SetCurrent(wait.path)
  /\ UNCHANGED <<bufferVars, treeVars>>

\* SECINFO answers with two flavours for whatever is there.
SecInfo ==
  /\ Settles("SECINFO", "lookup") /\ There(wait.path)
  /\ Succeeds(Put(out, <<Item("flavors", "2")>>), LeftBy("SECINFO"))
  /\ UNCHANGED <<fhVars, bufferVars, treeVars, known>>

\* OPEN: the client's lease is renewed and writing refused before the lookup, the
\* file opened after it; the open becomes the current filehandle.
OpenRefused == \E e \in {"STALE_CLIENTID", "ROFS", "NOTSUPP"} : Refused("OPEN", e)
OpenFound ==
  /\ Settles("OPEN", "lookup") /\ There(wait.path)
  /\ \/ Kind[wait.path] = "dir" /\ FailsAfter("ISDIR")
     \/ Kind[wait.path] = "link" /\ FailsAfter("SYMLINK")
     \/ /\ Kind[wait.path] = "file"
        /\ wait' = [wait EXCEPT !.step = "open", !.length = tree[wait.path]]
        /\ UNCHANGED <<at, todo, ahead, out, produced, kind, fhVars, bufferVars, treeVars, known>>
Opened ==
  /\ Settles("OPEN", "open")
  /\ Succeeds(Put(out, <<Item("stateid", wait.path)>>), LeftBy("OPEN"))
  /\ cur' = [path |-> wait.path, size |-> wait.length] /\ UNCHANGED saved
  /\ known' = known \cup ({wait.path} \cap Long)
  /\ UNCHANGED <<bufferVars, treeVars>>

\* REMOVE: what was found is removed if it may be, whatever is there by then.
RemoveFound ==
  /\ Settles("REMOVE", "lookup") /\ There(wait.path)
  /\ \/ wait.path \notin Removable /\ FailsAfter("ACCESS")
     \/ /\ wait.path \in Removable
        /\ wait' = [wait EXCEPT !.step = "remove"]
        /\ UNCHANGED <<at, todo, ahead, out, produced, kind, fhVars, bufferVars, treeVars, known>>
Removed ==
  /\ Settles("REMOVE", "remove")
  /\ \/ ~There(wait.path) /\ FailsAfter("NOENT")
     \/ \E e \in {"ACCESS", "IO"} : FailsAfter(e)
     \/ /\ There(wait.path)
        /\ Succeeds(Put(out, <<Item("change", wait.path)>>), LeftBy("REMOVE"))
        /\ tree' = [tree EXCEPT ![wait.path] = Gone]
        /\ UNCHANGED <<fhVars, bufferVars, known, seen, changes>>

\* ACCESS asks for the children of a directory before it grants a change of it.
Access ==
  \/ cur = None /\ Refused("ACCESS", "NOFILEHANDLE")
  \/ /\ cur # None /\ Answered("ACCESS", <<Item("granted", "read")>>)
     /\ UNCHANGED <<fhVars, bufferVars, treeVars, known>>
  \/ cur # None /\ Kind[cur.path] = "dir" /\ Waits("ACCESS", "readdir", cur.path)
AccessListed ==
  /\ Settles("ACCESS", "readdir")
  /\ LET granted == IF ChildrenOf(wait.path) \cap Removable = {} THEN "read" ELSE "modify"
     IN Succeeds(Put(out, <<Item("granted", granted)>>), LeftBy("ACCESS"))
  /\ UNCHANGED <<fhVars, bufferVars, treeVars, known>>

\* READDIR (PagedListing has its pages): the verifier is written before the first
\* entry is found too large, and the handles of entries are put into the store if
\* they are asked for.
Readdir ==
  \/ InDir("READDIR")
  \/ DirFault = "OK" /\ Refused("READDIR", "BAD_COOKIE")
  \/ DirFault = "OK" /\ Waits("READDIR", "readdir", cur.path)
Verifier == Put(out, <<Item("verifier", "0")>>)
ReaddirListed ==
  /\ Settles("READDIR", "readdir")
  /\ \/ /\ ChildrenOf(wait.path) # {}
        /\ Fails(Verifier, Length(out), "TOOSMALL") /\ UNCHANGED readVars
     \/ /\ Succeeds(Put(Verifier, <<Item("entries", Word(ChildrenOf(wait.path))), Item("end", "1")>>),
                    LeftBy("READDIR"))
        /\ UNCHANGED bufferVars
  /\ \E encoded \in SUBSET (ChildrenOf(wait.path) \cap Long) : known' = known \cup encoded
  /\ UNCHANGED <<fhVars, treeVars>>

-----------------------------------------------------------------------------
\* READ.  Past the end, as the node was when it became current, nothing is read.
\* Mutant: the end is the length asked for.
EofAtLength(from, got, length) == got <= length

Eof(from, got, length) == from + got >= cur.size \/ got < length
EofItem(from, got, length) == <<Item("eof", Word(Eof(from, got, length)))>>
Heard(from, got, length) ==
  heard' = [path |-> cur.path, end |-> from + got, eof |-> Eof(from, got, length)]

ReadFrom(w, from, length) ==
  \/ /\ from >= cur.size
     /\ Succeeds(Splice(Put(w, EofItem(from, 0, length)), <<>>), LeftBy("READ"))
     /\ Heard(from, 0, length)
     /\ UNCHANGED <<fhVars, taken, released, treeVars, known>>
  \/ /\ from < cur.size
     /\ Awaits("READ", w, "read", cur.path, from, length)
     /\ UNCHANGED <<fhVars, bufferVars, treeVars, known>>

\* With the handle of an open, or the special stateid and an anonymous one.
ReadCall ==
  \/ cur = None /\ Refused("READ", "NOFILEHANDLE")
  \/ cur # None /\ Kind[cur.path] = "dir" /\ Refused("READ", "ISDIR")
  \/ cur # None /\ Kind[cur.path] = "link" /\ Refused("READ", "INVAL")
  \/ cur # None /\ Kind[cur.path] = "file" /\ Refused("READ", "BAD_STATEID")
  \/ /\ cur # None /\ Kind[cur.path] = "file" /\ Number("READ")
     /\ \E r \in Reads :
          \/ ReadFrom(Begun("READ"), r[1], Min({r[2], MaxRead}))
          \/ /\ Awaits("READ", Begun("READ"), "open", cur.path, r[1], Min({r[2], MaxRead}))
             /\ UNCHANGED <<fhVars, bufferVars, treeVars, known>>
ReadOpened == Settles("READ", "open") /\ ReadFrom(out, wait.from, wait.length)

\* A file that was removed can still be read.
SizeNow == IF There(wait.path) THEN tree[wait.path] ELSE cur.size

\* What the handle gives of a file of some size, in one part or, by readv, in two.
Got(from, length, size) == Min({length, Max({size - from, 0})})
Parts(got) ==
  {<<[b |-> taken + 1, n |-> got]>>} \cup
  {<<[b |-> taken + 1, n |-> i], [b |-> taken + 2, n |-> got - i]>> : i \in {0, 1} \cap 0 .. got}

\* Mutant: copied payloads are given back with the reply only.
ReadDoneKept ==
  /\ Settles("READ", "read")
  /\ LET got == Got(wait.from, wait.length, SizeNow) IN
     /\ Heard(wait.from, got, wait.length)
     /\ \E parts \in Parts(got) :
          /\ taken + Len(parts) \in Buffers /\ taken' = taken + Len(parts)
          /\ Succeeds(Splice(Put(out, EofItem(wait.from, got, wait.length)), parts), LeftBy("READ"))
          /\ Release({})
  /\ UNCHANGED <<fhVars, treeVars, known>>

ReadDone ==
  /\ Settles("READ", "read")
  /\ LET got == Got(wait.from, wait.length, SizeNow) IN
     /\ Heard(wait.from, got, wait.length)
     /\ \E parts \in Parts(got) :
          /\ taken + Len(parts) \in Buffers /\ taken' = taken + Len(parts)
          /\ Succeeds(Splice(Put(out, EofItem(wait.from, got, wait.length)), parts), LeftBy("READ"))
          /\ Release(Consumed(parts))
  /\ UNCHANGED <<fhVars, treeVars, known>>

-----------------------------------------------------------------------------
\* Operations whose state is elsewhere, with the outcomes a COMPOUND sees.  All but
\* one read what they are sent: OPEN_DOWNGRADE leaves a seqid, an access and a deny,
\* and the seqid (10, say) is then taken for an operation.
StateOps == {"RENEW", "OPEN_DOWNGRADE"}
StateOp ==
  \E op \in StateOps :
    \/ Refused(op, IF op = "RENEW" THEN "STALE_CLIENTID" ELSE "BAD_STATEID")
    \/ Answered(op, <<>>) /\ UNCHANGED <<fhVars, bufferVars, treeVars, known>>

\* CLOSE, and a SETCLIENTID that replaces a client, await the close of handles.
CloseOp == Refused("CLOSE", "BAD_STATEID") \/ Waits("CLOSE", "close", "none")
CloseDone ==
  /\ Settles("CLOSE", "close")
  /\ Succeeds(Put(out, <<Item("stateid", "none")>>), LeftBy("CLOSE"))
  /\ UNCHANGED <<fhVars, bufferVars, treeVars, known>>

\* Everything that would write or lock.
Unsupported == \E e \in {"NOTSUPP", "LOCK_NOTSUPP", "ROFS"} : Refused("WRITE", e)

\* A number that is no operation.
Illegal == Refused("ILLEGAL", "OP_ILLEGAL")

\* Names that cannot be looked up, and arguments that are cut off.
BadArguments ==
  \E op \in {"LOOKUP", "OPEN", "REMOVE", "SECINFO"}, e \in {"INVAL", "BADNAME", "BADXDR"} :
    Refused(op, e)

\* An await of the tree or of a handle rejects; those of close are caught.
Rejected ==
  /\ at = "await" /\ wait.step # "close"
  /\ \E e \in {"NOENT", "ACCESS", "IO"} : FailsAfter(e)

\* Mutant: the rejection is not caught, and the call has no reply.
CutOffUnanswered ==
  /\ at = "ops" /\ ahead = <<>>
  /\ at' = "unanswered" /\ kind' = "none" /\ todo' = 0
  /\ UNCHANGED <<out, ahead, wait, produced, fhVars, bufferVars, treeVars, known>>

\* The record ends before the number of the next operation: the whole call is
\* answered as unreadable, and what its READs hold is never released.
CutOff ==
  /\ at = "ops" /\ ahead = <<>>
  /\ at' = "replied" /\ kind' = "garbage_args" /\ out' = EmptyWriter /\ todo' = 0
  /\ UNCHANGED <<ahead, wait, produced, fhVars, bufferVars, treeVars, known>>

-----------------------------------------------------------------------------
(***************************************************************************)
(* parseCall and dispatch: the checks of a record in their order, and what *)
(* becomes of one that fails them first.  call: the record has an xid and  *)
(* is a call; rest: its credentials can be read to their end, those of     *)
(* AUTH_SYS with at most sixteen groups.                                   *)
(***************************************************************************)
Headers == [call : BOOLEAN, version : BOOLEAN, rest : BOOLEAN, prog : BOOLEAN,
            vers : BOOLEAN, flavor : {"none", "sys", "gss"},
            proc : {"null", "compound", "other"}]
Checks(h) ==
  <<[holds |-> h.call, else |-> "unanswered"],
    [holds |-> h.version, else |-> "rpc_mismatch"],
    [holds |-> h.rest, else |-> "unanswered"],
    [holds |-> h.prog, else |-> "prog_unavail"],
    [holds |-> h.vers, else |-> "prog_mismatch"],
    [holds |-> h.flavor # "gss", else |-> "auth_error"],
    [holds |-> h.proc # "other", else |-> "proc_unavail"],
    [holds |-> h.proc # "null", else |-> "null"]>>
Fate(h) ==
  LET failed == {i \in DOMAIN Checks(h) : ~Checks(h)[i].holds}
  IN IF failed = {} THEN "compound" ELSE Checks(h)[Min(failed)].else

\* A reply without a COMPOUND's results.
RefusedWith(k) ==
  /\ at' = "replied" /\ kind' = k
  /\ UNCHANGED <<todo, ahead, out>>
CompoundBegins ==
  \E r \in Records :
    /\ todo' = r.count /\ ahead' = r.ops
    /\ IF r.count = 0 THEN Replied(Put(out, Prelude), "OK", 0)
       ELSE at' = "ops" /\ out' = Put(out, Prelude) /\ UNCHANGED <<kind, wait>>
Dispatch ==
  /\ at = "call"
  /\ \E fate \in {Fate(h) : h \in Headers} :
       \/ /\ fate = "unanswered" /\ at' = "unanswered"
          /\ UNCHANGED <<todo, ahead, out, kind, wait>>
       \/ fate \notin {"unanswered", "compound"} /\ RefusedWith(fate) /\ UNCHANGED wait
       \/ /\ fate = "compound"
          /\ \/ CompoundBegins
             \/ RefusedWith("garbage_args") /\ UNCHANGED wait
             \/ /\ Replied(Put(out, Prelude), "MINOR_VERS_MISMATCH", 0)
                /\ UNCHANGED <<todo, ahead>>
  /\ UNCHANGED <<produced, fhVars, bufferVars, treeVars, known>>

\* The reply is written, or cannot be: its buffers go back (RpcConnection).
Sent ==
  /\ at = "replied" /\ at' = "sent"
  /\ Release(Spliced(out))
  /\ UNCHANGED <<todo, ahead, wait, out, produced, kind, fhVars, readVars, treeVars, known>>

\* The tree changes, and other calls push handles out of the store.
Change ==
  /\ at \in {"ops", "await"} /\ changes < MaxChanges /\ changes' = changes + 1
  /\ \E p \in Paths, s \in Sizes \cup {Gone} :
       /\ s # tree[p] /\ (Kind[p] = "file" \/ s \in {Max(Sizes), Gone})
       /\ tree' = [tree EXCEPT ![p] = s]
       /\ seen' = [seen EXCEPT ![p] = @ \cup ({s} \ {Gone})]
  /\ UNCHANGED <<callVars, fhVars, bufferVars, known>>
Evicted ==
  /\ at \in {"ops", "await"} /\ \E p \in known : known' = known \ {p}
  /\ UNCHANGED <<callVars, fhVars, bufferVars, treeVars>>

NotRead == [path |-> Root, end |-> 0, eof |-> TRUE]

Init ==
  /\ at = "call" /\ todo = 0 /\ ahead = <<>> /\ cur = None /\ saved = None
  /\ wait = NoWait /\ out = EmptyWriter /\ produced = 0 /\ kind = "none"
  /\ taken = 0 /\ released = [b \in Buffers |-> 0] /\ heard = NotRead
  /\ tree = [p \in Paths |-> Max(Sizes)] /\ seen = [p \in Paths |-> {Max(Sizes)}]
  /\ known = Long /\ changes = 0

FirstTurn ==
  \/ GetFh \/ SaveFh \/ RestoreFh \/ ReadLink \/ GetAttr
  \/ Verify("VERIFY", "NOT_SAME", TRUE) \/ Verify("NVERIFY", "SAME", FALSE)
  \/ PutRoot \/ PutFh \/ Lookup \/ Lookupp \/ OpenRefused \/ Access \/ Readdir
  \/ ReadCall \/ StateOp \/ CloseOp \/ Unsupported \/ Illegal \/ BadArguments \/ CutOff
LaterTurn ==
  \/ NotFound \/ Walked \/ SecInfo \/ OpenFound \/ Opened \/ RemoveFound \/ Removed
  \/ AccessListed \/ ReaddirListed \/ ReadOpened \/ ReadDone \/ CloseDone \/ Rejected
Over == at \in {"sent", "unanswered"} /\ UNCHANGED vars

Next == Dispatch \/ FirstTurn \/ LaterTurn \/ Sent \/ Change \/ Evicted \/ Over
Spec == Init /\ [][Next]_vars

\* The operations run one after another, what they await settles, and the reply is
\* written or given up.
FairSpec == Spec /\ WF_vars(FirstTurn) /\ WF_vars(LaterTurn) /\ WF_vars(Sent)

-----------------------------------------------------------------------------
Nodes == [path : Paths, size : Sizes] \cup {None}

TypeOK ==
  /\ at \in {"call", "ops", "await", "replied", "sent", "unanswered"}
  /\ todo \in Nat /\ produced \in Nat
  /\ cur \in Nodes /\ saved \in Nodes /\ wait.path \in Paths \cup {"none"}
  /\ taken \in Buffers \cup {0} /\ released \in [Buffers -> Nat]
  /\ tree \in [Paths -> Sizes \cup {Gone}] /\ known \subseteq Long

\* What the client decodes: results are recognised by their first items.  While the
\* COMPOUND runs, the results so far are those of the operations that are over.
Results(items) ==
  LET body[k \in 1 .. Len(items) + 1] ==
        IF k > Len(items) \/ items[k].t = "op" THEN <<>> ELSE <<items[k]>> \o body[k + 1]
      from[k \in 1 .. Len(items) + 1] ==
        IF k > Len(items) THEN <<>>
        ELSE IF items[k].t # "op" THEN from[k + 1]
        ELSE <<[op |-> items[k].v, status |-> items[k + 1].v, body |-> body[k + 2]]>> \o from[k + 2]
  IN from[1]

Answering == at \in {"replied", "sent"}
ClientStatus ==
  CASE Answering /\ kind = "compound" -> Segments(out)[1].v
    [] Answering /\ kind = "garbage_args" -> "GARBAGE_ARGS"
    [] OTHER -> "none"
\* (The set of one has TLC evaluate the record once.)
ClientResults ==
  LET all == CHOOSE rs \in {Results(items) : items \in {Segments(out)}} : TRUE IN
  CASE kind = "none" -> SubSeq(all, 1, produced)
    [] kind = "compound" /\ out.own[CountAt + 1].v = Word(Len(all)) -> all
    [] OTHER -> <<>>

\* The reply, its payloads beside the buffer included, is one that CompoundReply
\* allows: results are added one at a time and stay as they are while operations
\* fail, are cut back and patched behind them; the last status is that of the whole
\* and the count is right.
Reply == INSTANCE CompoundReply WITH results <- ClientResults, status <- ClientStatus
ImplementsReply == Reply!Spec

\* A payload kept beside the buffer is sent behind its own length, with only parts of
\* the same payload between them, whatever is written, cut or patched after it.
PayloadsInPlace ==
  Answering =>
    \A items \in {Segments(out)} : \A k \in DOMAIN items :
      items[k].t = "data" => items[k - 1].t \in {"length", "data"}

\* A buffer a READ was given is released once: at once when its bytes were copied,
\* else when the reply they are part of is written, and never before.  Only a call
\* that is cut off after a READ loses it.
BuffersReturned ==
  /\ \A b \in Buffers : released[b] <= 1
  /\ at # "sent" => \A b \in Spliced(out) : released[b] = 0
  /\ kind # "garbage_args" =>
       \A b \in 1 .. taken : released[b] = 1 \/ (at # "sent" /\ b \in Spliced(out))

\* The eof of a READ is the truth about a size the file had during the call, however
\* the file changes between the walk to it, the open and the read.
EofHonest ==
  heard # NotRead => \E s \in seen[heard.path] : heard.eof <=> heard.end >= s

\* A COMPOUND that has begun its operations is answered, whatever they await, however
\* they fail, and also when its record ends before they do.
CallAnswered == (at = "ops") ~> (at = "sent")
=============================================================================
