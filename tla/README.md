# A verification of fsmux

fsmux exports an application's tree (an object with `lookup`, `readdir`,
`open`, ...) over NFSv4, WebDAV and FUSE. This directory holds TLA+ models of
the parts of it that keep state across an `await`, a callback, a thread or a
restart, the TLC configurations that check them, and TLAPS proofs about eight of
them. Line numbers below are those of `src/` at the commit modelled.

## 1. The system

All of `packages/fsmux` and the TypeScript half of `packages/fsmux-fuse` run on
one JavaScript thread: a piece of code runs undisturbed from one `await` to the
next, and anything may happen at an `await`. The Rust half of `fsmux-fuse` adds
three threads of its own. The models take one *turn*, from a request, timer or
settled promise to the next `await`, as one action.

| Component | State it keeps | Operations | Interacts with |
|---|---|---|---|
| `ClientTable`, `OpenTable` (`nfs4/state.ts`) | `byId`, `byOwner`, `opens` | SETCLIENTID, SETCLIENTID_CONFIRM, RENEW, OPEN, CLOSE, READ; lease sweep | the application's handles; sweep timer and shutdown of `nfs4/server.ts` |
| `AnonymousHandles` (`nfs4/state.ts`) | a bounded Map of handles by path | `get`, `sweep`, `closeAll` | READs with a special stateid; sweep; shutdown |
| `JsonFileHandleStore`, `MemoryHandleStore` (`nfs4/filehandle.ts`) | hashed handles in memory, `dirty`, timer, `writing` promise, a file and its `.tmp` | `set`, `flush`, `load`, `close` | `FileHandles.encode/decode`; the disk; restarts |
| `RpcServer` (`rpc.ts`) | per connection: the record reader, `inflight`, paused or not | data, dispatch, reply, destroy | the NFS program; pooled buffers released with a reply |
| COMPOUND (`nfs4/compound.ts`, `dispatch` of `rpc.ts`, `attrs.ts`) | of one call: current and saved filehandle, the results so far | 30 operations, the refusals of `dispatch` | all of the above, the tree |
| `XdrWriter` (`xdr.ts`) | a growing buffer, with payloads kept beside it | put, patch, truncate, `opaqueVarExternal*`, `segments` | COMPOUND writes, `RpcServer` sends and releases |
| `InodeTable` (`fsmux-fuse/src/inodes.ts`) | `byIno`, `byPath`, `children` | `remember`, `forget`, `knownChildren` | the kernel's dentry cache and reference counts |
| `Session` (`fsmux-fuse/src/mount.ts`) | `handles`, `nextFh`, `closed` | a handler per FUSE operation, `invalidate*`, `unmount` | `lib.rs`, the tree |
| `lib.rs` | `pending` replies by id, `next_id`, the notifier channel | `dispatch`, `reply_*`, `UnmountTask` | kernel, worker thread, JavaScript |
| WebDAV (`webdav/handler.ts`) | one transfer per request | OPTIONS, PROPFIND, GET, HEAD, DELETE | HTTP sockets, the tree, streams or handles of the application |
| XDR reader, attribute tables, mountpoints, probing | none between calls | conversions and I/O | |

What is hard in it, and what makes each part correct:

- *Client and open state.* COMPOUNDs from any socket, the sweep and the shutdown
  change the same tables between their awaits. Correct: the two client maps
  agree; every handle the application gave out is in the table, on a list to be
  closed, or closed, and once; a client's opens go when it goes; a silent client
  goes in the end.
- *Anonymous handles.* `get` awaits between its lookup and its insertion, `sweep`
  awaits inside a live Map iteration. Correct: bounded size, a hit is live, a
  handle is closed once, a quiet one is dropped.
- *Handle store.* Failing writes, crashes at any await, changes during a write.
  Correct: the file is always loadable, no change is forgotten, `close` leaves
  the memory in the file.
- *RPC connection.* Several records in one chunk, calls that end in any order or
  reject, sockets that die under a write. Correct: the counter is exact, a
  paused socket is resumed, buffers are given back once and not too early.
- *A COMPOUND's reply.* The tree changes between the operations and at every
  await; an operation fails after it wrote part of its result, behind payloads
  that are not in the buffer; a record stops in the middle. Correct: the reply is
  the results in order up to the first failure, whatever is cut and patched; a
  payload is sent where its READ put it; buffers go back once, and not before the
  reply is written; an end of file told was one; a COMPOUND whose operations have
  begun is answered, also one that is cut off.
- *FUSE cache.* Replies the kernel keeps in part, forgets that cross lookups,
  names that move. Correct: the session counts exactly the kernel's references,
  its index leads only to inodes it knows, an invalidation reaches every name
  the kernel found.
- *FUSE session.* Ids that wrap, answers after an unmount's deadline,
  notifications the kernel holds back, open/release/unmount crossing. Correct: a
  reply reaches its own request, every request is answered, the handles are the
  kernel's open files, an unmount closes them once.
- *WebDAV transfers.* A client leaves while a file is opened or sent, a read fails
  after the headers, a file shrinks. Correct: a body that ends normally is the
  bytes that were asked for, a handle that was opened is closed once, a client that
  stays gets an end.
- *Paged listings.* The cookie is an index into a listing read anew for each
  page. Correct: what was there all along is listed once, a page fits, one without
  entries is the last, the listing ends.

`PROJECT.json` lists every component with its status, and under `hazards` the
lines where these behaviours bite with the property that watches each.

## 2. The plan

In the order of what matters most, with what is done marked:

1. `NfsState`: clients, opens, COMPOUNDs, sweep, shutdown. Done, proved.
2. `AnonymousHandles`, `HandleStore`: done, proved; `HandleStore` implements
   `DurableMap`.
3. `RpcConnection`, and `RpcServer` with the record reader in front of it: done,
   proved, that the second implements the first included.
4. `InodeTable` with `FuseCache` over it: done, proved.
5. `FuseSession`: done, its safety proved.
6. `PagedListing`: done, its safety proved.
7. `DavTransfer`: done, its safety proved.
8. `Compound` with `Xdr` and `NfsAttrs`: the sequencing of a COMPOUND, from the
   refusals of `dispatch` to the reply, which implements `CompoundReply`. Done, its
   safety and the refinement proved.
9. To come: `Compound` over `NfsState` and `AnonymousHandles` instead of any
   outcome; the XDR reader's bounds.

Abstract specifications stated: `RpcConnection`, which `RpcServer` implements
(proved); `CompoundReply`, which `Compound` implements (proved); `DurableMap`, which
`HandleStore` implements (proved). Worth stating too: a table of handles in which each is open,
leaving or closed, implemented by `NfsState` and by `AnonymousHandles` in turn; one
request and one reply, implemented by `FuseSession`.

Theorems to come: with the composition of 9, that `Compound` keeps the invariants of
`NfsState` and `AnonymousHandles`. Every invariant and action property the passing runs
check is proved; what they check besides is liveness (section 5).

## 3. The modules

Each module states its reading of the code at its head. Operators whose comment
starts with *Mutant* are plausible mistakes in the code, kept beside the
definition they alter; the specifications do not use them. `PROJECT.json` maps
the definitions that model code to the lines they model. `TypeOK` documents the
types of a module's variables; the runs of `NfsState` and `Compound` check it, and
`NfsStateProofs`, `RpcServerProofs`, `FuseCacheProofs` and `CompoundProofs` prove it.

### NfsState, NfsStateProofs, MCNfsState

`record`, `byId`, `byOwner` are `ClientTable`; `opens` is `OpenTable`; `task` says
for every COMPOUND and sweep in flight what it awaits and which handles it has
taken from the table and has yet to close; `server` and `doomed` are
`NfsServer.close`. There is an action per operation that touches this state,
split at each await: `Open` up to `fs.lookup`, `OpenFound` up to `fs.open`,
`OpenCreate` after it. The loops that close handles one await at a time
(`dropClient`, the sweep) are one operator, `Turn`, used by the turn that starts
the loop and by `Closed`, the turn after each close. The application's handles
are external: `close()` may settle at any time or reject.

Random values (client ids, confirm verifiers, stateids) are taken never to
repeat and are numbers in the order of their creation, which is also the order in
which a Map iterates. A record carries its silence in ticks in place of
`lastSeen`.

### AnonymousHandles, AnonymousHandlesProofs, MCAnonymousHandles

`handles` is the Map, `read` and `sweep` the READs and sweeps in flight with what
they await. An entry's `place` is its position in the Map's insertion order: a
sweep that goes on after an await continues behind the last place it passed, as a
live Map iterator does. `lastUsed` of an entry made by a miss is the time `get`
was called, as in the code.

### HandleStore, DurableMap, HandleStoreProofs, MCHandleStore

`memory` (in insertion order), `dirty` and `timer` are the stores; `jobs` is what
is chained on the `writing` promise, the head being the write under way with the
`await` it stands at; `file` and `tmp` are the disk, with `Torn` for a file of
which only part is written. `Crash` may happen in every state of a live process,
`Load` starts the next one. The rename is atomic and a write that was awaited is
durable: the code does not `fsync`, so a power failure can do more than `Crash`
does. Two paths are taken not to share a hash.

`DurableMap` is what the store promises whoever restarts the server: a value, at
most one snapshot of it on its way to the disk, and the value saved last, replaced
in one step. `ImplementsMap` maps `file` to the saved value and the write at the
head of the chain, once it has copied the entries, to the snapshot: every step of
`HandleStore` is a step of `DurableMap` or none, so a file is never torn and never
goes back to an older value.

### RpcConnection, RpcServer, RpcServerProofs, MCRpcServer

`RpcConnection` is one accepted socket seen from its calls. `Data` delivers a chunk that completes one or more records,
all of which are dispatched even when the first of them pauses the socket;
`BadRecord` is a chunk with a record over the limit; `Resolve`, `Reject` and
`Finally` are the settling of a dispatch (a record too short to hold an xid
rejects, `rpc.ts:347-357`); `Written` is the callback of the reply's last write,
which also runs when the socket dies.

`RpcServer` extends it with `RecordReader`: `stream` is the fragments the client
sends, `left` the bytes still to come, `reader` the pending buffer, the fragments
joined so far and the records delivered. `Push(n)` is `push` with the next `n`
bytes, the loop folded to its end, in place of `Data` and `BadRecord`.
`ImplementsConnection` states that every step of it is one of `RpcConnection` or
none, so that what is proved of a connection holds of the whole.

### Compound, Xdr, NfsAttrs, CompoundReply, CompoundProofs, MCCompound

`Compound` is one call of a client, from its record to its reply. `at` says where
it is; `todo` is what is left of the COMPOUND's count and `ahead` what is left of
the record, which the client may have cut short or an operation left unread; `cur`
and `saved` are the filehandles with the size their nodes had; `wait` is what an
operation awaits; `out` is the `XdrWriter`; `taken` and `released` are the buffers
the application's handles filled for READs. There is an action per operation for
its first turn (`FirstTurn`) and one per await that settles (`LaterTurn`). `Fails`
is the `catch` of the loop: cut the body off, patch the status in, leave.
`Dispatch` is `parseCall` and `dispatch` of `rpc.ts`: the checks of a record in
their order, the first that fails deciding the reply.

The operations that change `NfsState` or `AnonymousHandles` are here with every
outcome a COMPOUND can see of them; `Change` is anything else that changes the tree
(a node comes, goes or has another size) at an await or between two operations,
and `Evicted` other calls that push a handle out of the bounded store. What the
client sends is fixed when the call begins, as a count and the numbers of the
operations; arguments are chosen when they are read.

`Xdr` is the writer: the buffer is a sequence of items and an offset counts items.
A payload of `SpliceFrom` bytes or more (4096 in the code) stays beside the buffer
with its offset; `Segments` puts it back. An item that is no payload is a `Word`: what
is written and which, of which later ones can be told apart. READDIR's entries are one
such item, the children listed, since the page they fill is `PagedListing`'s matter. `NfsAttrs` is bitmaps over words, of
`WordBits` bits where the code has 32. `CompoundReply` is the reply the client is
promised (RFC 7530 and the comment at `compound.ts:522-525`); `ClientResults` is
what a client decodes of `out`, payloads included, and `ImplementsReply` states the
refinement.

### InodeTable, FuseCache, FuseCacheProofs, MCFuseCache

`InodeTable` is `inodes.ts` as operators on a record of its three maps, for the
children of one directory. `FuseCache` puts it to work: lookups and readdirplus
in two steps around the tree's answer, forgets and notifications in queues of
their own, and the kernel, external and over-approximated: it may ask for any
uncached name, drop any cached one, keep any prefix of a readdirplus reply, and
forget an inode no cached name leads to. `byPath` chooses between a tree whose
inodes follow from paths and one that gives inodes of its own; `since` remembers
what was cached after the last `invalidateDir`.

### FuseSession, FuseSessionProofs, MCFuseSession

`kernel` and `held` are the kernel's outstanding requests and open files;
`nextId` and `pending` are `Shared` of `lib.rs`; `jobs` are the requests on their
way to JavaScript or awaiting there; `handles`, `nextFh` the session; `phase`,
`late`, `thread` the unmount and the session thread. `Ask` is `Fs::dispatch`,
with the loop that looks for a free id; `Await`, `BadHandle`, `Release`,
`Settle`, `Opened` are the handlers' turns; `Detach`, `ClearPending`, `CloseAll`
are `UnmountTask` and what `unmount()` does after it. All requests that await the
tree and are answered from it are one, `lookup` (getattr, readlink, unlink, rmdir,
readdir, readdirplus). Not here: what the session thread answers itself and hands to
nobody (EROFS to whatever would write, flush and fsync, statfs, the extended
attributes, access), and a call that a closing environment refuses (`lib.rs` answers
EIO at once). Of `unlink` and `rmdir`, which
look the name up and then await its removal, the two awaits are one: neither
changes the session between them.

### PagedListing, MCPagedListing (proofs in RpcServerProofs)

One reader lists one directory, over READDIR or FUSE readdir, while `Removed` and
`Added` change it between pages. `EntryBytes` is what `compound.ts` counts for an
entry, `Encoded` what RFC 7530's encoding makes of it, and `Reply` the page a client
gets, with the limits it asked with. The attributes of an entry have a length of their
own (`ValueBytes`), since a filehandle among them does. `ReaddirEnd` is a page from the
end of the listing or from beyond it: the loop over the entries, which has the only
check of the limits, does not run, and the 16 bytes of an empty reply are sent whatever
maxcount is (`compound.ts:285-322`). `PageFits` says so: a reply is within maxcount if
that has room for an empty one, its names are within dircount, and one without entries
is the end. `Keep` is the kernel keeping any non-empty prefix of a batch. Its `Spec`, `Next` and the like are named
`ListingSpec`, `ListingNext`, so that one proof module can extend it beside `RpcServer`:
pages and records are both filled by sums, and share the lemmas about them.

### DavTransfer, DavTransferProofs, MCDavTransfer

One request, from `handleWebdav` to the end of its response; requests share no
state, so one is enough. `at` is where the handler is, `client` and `aborted` the
closing of the response and whether the handler heard of it, `res` the response,
`stream`, `offset` and `closes` the `Readable` over the application's handle (or
the tree's own stream, `own`). `Window` is `resolveRange`, `Visible` is what
`resolveDavPath` makes of a node. Of Node's streams the model keeps reading ahead
one chunk, `pipe` stopping for good on a closed response, `autoDestroy`, and one
`close` event. The steps of the outside are `Leave`, `Shrink`, and a tree that rejects,
and the handler with it: when it is asked for the node (`Unresolved`), or for a listing
or a removal once the node was had (`Rejects`).

`BodyWhole` does not take the window from the code: `Asked` is what a Range header
asks of a file, byte by byte, `LastRead` the bytes that were read from the
file last, and a 200 or 206 that ends normally has sent just those. `ResponseEnds` has
an exception, `Uncaught`, with the cases where a tree that rejects leaves the response
untouched; a GET that has its node is never among them.

## 4. The runs

| Run | Instance | States | What it shows |
|---|---|---|---|
| `nfs_handles` | 1 owner with 2 boots, 2 COMPOUNDs, a sweep, 2 ids, 2 confirms, 2 handles, fairness | 307 thousand | the maps of `ClientTable` stay inverse; no handle dropped, none closed twice before the shutdown loop, the table names live ones; a client leaves with its opens; silent clients expire |
| `nfs_orphan` | as above, 1 handle | violation | finding 1 |
| `anonymous` | 3 paths, 2 READs, 2 sweeps, cache of 2, 3 handles, fairness | 169 thousand | size, live hits, one close, quiet handles dropped |
| `anonymous_twice` | 1 path, 2 READs | violation | finding 2 |
| `store` | 3 paths, cache of 2, 3 chained writes, 1 failure, 2 crashes, fairness | 69 thousand | refinement of `DurableMap`, close keeps all, changes are written |
| `store_failed` | 2 chained writes, 1 failure, no crash, fairness | violation | finding 3 |
| `rpc` | 4 streams of up to 7 fragments, cut at every byte, limit 3, at most 2 records a chunk, records of at most 3 bytes, fairness | 8 thousand | the records are those sent, the counter exact, pausing bounded and undone, buffers released once; refinement of `RpcConnection` |
| `compound` | 4 paths (2 directories, a file with a long path, a link), 25 records of up to 6 operations, 4 bitmaps, 3 reads, 4 buffers, 2 changes of the tree, fairness | 80 thousand | the reply is the results up to the first failure (refinement of `CompoundReply`), payloads in place, buffers back once, honest eof, every call answered |
| `fuse_cache` | 2 names, 2 inodes, a lookup, a readdirplus, 2 references, 2 notes | 4.1 million | exact reference counts, sound index, names reached |
| `fuse_session` | 2 requests, 5 ids, 2 files, 1 late request, 1 note, fairness | 0.4 million | replies, handles, unmount |
| `listing` | 3 names of 1, 5 and 8 bytes, attributes of 21 and 30 bytes, 8 pairs of limits, batch of 2, 2 changes, fairness | 7 thousand | pages, skips, repetitions, end |
| `dav` | a file of at most 3 units read 2 at a time, every method and range, links shown, fairness | 47 thousand | bodies, handles, responses |

Why these bounds suffice to show the interesting cases. Two COMPOUNDs and a sweep
are the fewest that put two owners of a removed handle beside somebody who looks
at the table; two client ids let an owner reboot under its own opens. That two
owners do not disturb each other is proved, not run. A
cache of two with three paths has an entry to evict that is not the newest. Two
chained writes let one fail under another, three let one wait behind both.
Five calls with a limit of three and two records a chunk overrun the limit and
leave calls for after the resumption; the streams have records of one, two and
three fragments, empty fragments, a record too long by its only fragment and one
by its second. The records
of `compound` hold every operation, alone, behind the walk it needs, and behind a
READ whose payload is in the reply already; one is cut off behind a READ. Payloads
of 1, 4 and 5 bytes with `SpliceFrom` 4 are copied, kept without and kept with
padding, in one part and in two; two READs fill all four buffers. Words of two bits
spread four attributes over two words, one of them not supported and one that no
VERIFY may ask for. Two changes let a file shrink or go between the walk and the open, and
again between the open and the read. Two names over two inodes include a rename onto
an existing name. Five ids let two requests wrap past a parked one and past 0.
A file of three units read two at a time has a whole and a cut last chunk, and room
for ranges that start past it and end past it. Three names of lengths 1, 5 and 8 cover padding by 3, 3 and 0 bytes, and limits
range from less than an empty reply over no entry to all of them.

Bounds the code does not have, each a named constant: `MaxIssued`, `MaxConfirms`,
`MaxHandles`, `MaxTime`, `MaxJobs`, `MaxFailures`, `MaxCrashes`, `MaxChunk`,
`MaxRefs`, `MaxNotes`, `MaxFh`, `MaxChanges`, `MaxSize`, `Buffers`, and `MaxLate` with `NoneTurned` in
`FuseSession`, which say that no request is 2^32 requests old when an unmount
drops its reply. Without that a job whose parked reply was dropped could answer a
newer request under the same number; with `IdSpace` of 5 the model would meet it
at once, and 2^32 makes it a matter of days of requests under one slow call.

Deadlock is checked everywhere but in `fuse_session`: after an unmount, with the
last file closed and nothing outstanding, a mount really is at its end. `NfsState`,
`RpcConnection`, `Compound` and `DavTransfer` name the places where all may stop
(`Down`, `Quiet`, `Over`).

### Fairness

Weak fairness is put on what the runtime schedules and never on what a user
does. Promises the code awaits settle (`Settle`, `Resolve \/ Reject`, `JobStep`,
`WriteStep`, `LaterTurn`) and the turns between them run (`FirstTurn`), since nothing in the code guards against one that does not; timers
fire (`Sweep`, `TimerFires`) and time passes (`Tick`); socket writes complete or
fail (`Written`, `Sent`); threads run and the unmount task has its deadline (`Unmounting`). No client needs to send, no application needs to
unmount or close, nothing needs to crash. In `PagedListing` the reader does ask
on, and in the end with room for the next entry: a listing nobody continues does
not end. That an empty page is not asked for again for ever is therefore not a matter of
`ListingEnds` but of `PageFits`: only the last page is empty.

### Findings

1. *An OPEN outlives its client* (`NoOrphanOpens`, `compound.ts:368-377`): a
   reboot or the sweep while `fs.open` is awaited leaves an open that belongs to
   no client, until a CLOSE names it or the server shuts down.
2. *Two handles for one file* (`OneHandlePerFile`, `state.ts:188-216`): two READs
   that miss together; the first handle is overwritten and never closed.
3. *A store that stops writing* (`WrittenSoon`, `filehandle.ts:105-119`): one
   failed write leaves a rejected promise on which every later write is chained.

In two places the repository promises more than the code does, and than the
properties therefore say:

- "always ends the response" (`handler.ts:519`): `handleWebdav` rejects with its
  response untouched when `resolve` of the tree does, or the `readdir` of a PROPFIND or
  the `remove` of a DELETE. `ResponseEnds` names these cases (`Uncaught`); without the
  exception TLC finds the shortest of them, a PROPFIND whose listing rejects.
- "forget its attributes and every cached name under it" (`mount.ts:78`; "visible
  immediately", `packages/fsmux-fuse/README.md:38-40`): `PositiveNamesForgotten` is for
  trees whose inodes follow from paths, and for names that were found. Where a tree gives
  inodes of its own, `unindex` drops a name from `children` when another inode has taken
  it (`inodes.ts:91`), and `invalidateDir` misses it; without the restriction TLC finds a
  rename, a readdirplus and an `invalidateDir` that leave the old name cached. And
  negative entries are not among the names that `invalidateDir` sends
  (`mount.ts:229-238`): a name that was looked up and not found may stay absent for its
  TTL after it came and was announced.

Read from the code along the way, and stated as no property because nothing in
the repository says otherwise:

- `NfsServer.close` iterates a snapshot of the opens and closes each without
  looking whether it is still in the table (`server.ts:182-184`), so a COMPOUND or
  sweep in flight can have closed it already. `ClosedOnce` of `NfsState` is about
  the time before.
- An OPEN awaiting `fs.open` across the shutdown, or a FUSE open across an
  unmount, puts its handle into a table that was already emptied.
- A failed `native.unmount` leaves `closed` set: a second `unmount()` returns at
  once and invalidations are ignored while the mount goes on (`mount.ts:247-258`).
- A lookup computed before a change may be answered after the change was
  announced (`mount.ts:310`), and its name stays cached for the TTL.
- After an unmount has dropped the reply of a read, the kernel may release the
  file, and its handle is closed, while the read is still awaited.
- A record in which no call can be read rejects `dispatch` (`rpc.ts:357`), and
  `accept` has a `finally` on that promise but no `catch`.
- A WebDAV client that leaves before the listener of `handler.ts:407` is there is
  not noticed: the body is piped into a closed response, the transfer's promise
  does not settle, and a handle it opened stays open. When a client leaves during
  the open its handle is closed, but the promise does not settle either; a stream of
  the tree's own is then piped like that of a client that left before (`Unnoticed`).
- A file that shrinks while it is sent ends the body short of its Content-Length,
  normally. `bytes=5-2` has an empty window and is answered 206.
- A READDIR whose page is empty is answered with 16 bytes even if maxcount is less, where
  one with entries would fail with TOOSMALL.
- `destroy` of the handle's stream awaits `close()` with `finally` and no `catch`
  (`handler.ts:284`): a close that rejects is nobody's.
- A COMPOUND cut off after a READ rejects as a whole (`compound.ts:550` reads the
  operation's number outside the `try`): it is answered GARBAGE_ARGS, and the READ's
  buffers are not released. `BuffersReturned` excepts that case.
- OPEN_DOWNGRADE reads a stateid and leaves the seqid, access and deny behind it
  (`compound.ts:397-402`): when it succeeds the seqid is taken for the number of
  the next operation. `LeftBy` models it.
- A SETATTR that is refused has no attrsset behind its status (`compound.ts:494`),
  which RFC 7530 has there also in a failure; `CompoundReply` follows the code's own
  rule that a failed result is its status alone.
- Only READDIR writes before it fails, so `truncate` never has a payload to drop;
  `Xdr` models that it would.
- `rpc.ts:356` says of the records that reject `dispatch` that they hold no xid to
  reply to; one whose AUTH_SYS credentials cannot be read to their end has one.

## 5. The proofs

The theorems of the eight modules hold for every value of the constants that
satisfies the module's named assumption, and assume nothing else.

`NfsStateProofs`. `TypeCorrect` first, then `ClientMapsAgree`, whose invariant
needs only the types; then the handles. `HandlesAccounted`,
`TableHoldsLiveHandles` and `ClosedOnce` are not inductive one by one: that a
CLOSE may close what it took from the table needs that the table holds live
handles, and that needs that no two opens, and no open and no list of a task,
share a handle. The inductive invariant `IInv` is therefore `TypeOK`,
`TasksWhole` (only a closing task has a list), `Ownership` (each handle has at
most one owner, an open or a task, as long as the shutdown loop has not started,
and whoever owns it has not closed it), and the three properties. Each action
is a case; those that close handles go through lemmas about `Turn`. From the same
invariant, `ClientTakesOpens` proves the action property
`ClientLeavesWithOpens`, and `NoHandleDropped`, `TableIsLive`, `NoDoubleClose`
the three invariants.

`RpcServerProofs`. Of the connection: `CountInv` is the types, `InflightExact` and
`PausedWhenBusy`. The last is inductive only with the exact count, because that a
paused socket has calls in flight follows from the counter; and its second part,
that an unpaused socket is below the limit, is what bounds the overrun when a
chunk arrives. Two lemmas carry the arithmetic of cardinalities, `OneSettles` and
`ChunkArrives`. `BufferInv` adds to `BuffersGivenBack` that a call which has not
settled has released nothing. The theorems are `TypeCorrect`, `CounterIsExact`,
`PausingHolds` and `BuffersReleasedOnce`.

Of the server with its reader: `ServerInv` adds to `CountInv` the reader's own
invariant and that no call is sent but for a record that was delivered
(`CallsAreRecords`). `Reads(s, r, a)` says of a reader `r` with the first `a` bytes of
a stream `s` behind it that it has taken the fragments below `next` in their order,
each in one record that ends with its last one; that its pending buffer holds the
rest; that the sizes it adds up are those of the records; and that it gave up only for
a record that is too long. `Stuck` says that it can take no more: the loop of `push`
stops there. `TurnReads` shows that one turn keeps `Reads` and takes a fragment unless
the reader is `Stuck`, so as many turns as the stream has fragments end it
(`PushedReads`). With `Reads`, the records a chunk completes are calls that were not
sent, which is what `Data` and `BadRecord` ask: `PushStep`, hence
`ServerImplementsConnection`, for every set of streams and every way to cut them, and
`ServerKeepsConnection`, which carries the connection's invariants over. `Stuck` makes
`RecordsWhole` follow (`RecordsDelivered`): nothing that arrived waits, and a record is
refused as soon as the header that makes it too long is there. `ServerAssumption` asks
that each record of a stream has a call to be named by, and no more.

The sums, the joins and the loop are operators of the community modules, whose
definitions choose a recursive function. The module's middle sections say what they
are without it: `SumsUp` is a sum in every order, and `SumChosen` shows by induction on
the size of a set that the order chosen does not matter; `JoinsUp` is `FlattenSeq` one
sequence at a time; `PushSteps` is the loop of `push` one turn at a time. `InductTo`
is the induction they use, from the well-foundedness of the numbers.

Of `PagedListing`, in the same module for the sums: `ListInv` says of a reader at
`Place` that what was there all along was listed or lies behind that place (`Whole`),
unless something before it was removed; that none of it was listed twice or lies behind
it still (`Once`), unless something was added before it; and that a listing that is done
has nothing behind it. From it follow `ListingWhole` and `ListingOnce`. What a reply
lists is for both protocols the entries between two places, with dots before them for
FUSE (`Takes`, `TakesOfDir`, `TakesOfListed`), and `TakesKeeps` is the one step that both
make; `EntryRemoved` and `EntryAdded` say what a change of the directory does to the
entries behind a place. `PagesFit` needs that a page has an end (`PageEndFits`, by
induction from the first entry that does not fit) and that what `compound.ts` counts for
the entries is at least what they are encoded in: entry by entry by arithmetic
(`EntryCounted`), for a page since of two sums the one of the smaller weights is the
smaller (`SumsOrdered`). A page without entries is the 16 bytes of `EmptyReply`
(`EmptyPage`), which is where the theorem asks for a maxcount of as many. No bound is
used: `MaxChanges` may be any number.

`HandleStoreProofs`. The theorems rest on `StoreInv`. `CloseKeeps` needs that
what is not dirty is in the file or on its way there while no write has failed
(`CleanIsKept`): the one write chained last has not yet copied the entries, or has
copied what memory holds; that a process in `close` has nothing dirty
(`ClosingIsClean`); and that at most the first write of the chain runs
(`OneRuns`). `StoreImplementsMap` needs besides that what is renamed is the whole
snapshot (`TmpFull`); each action is then one step of `DurableMap`, or none: the
truncation and the filling of `.tmp` are invisible, the rename is `Save`, a failed
write is `GiveUp`, and a crash loses the snapshot with the process. `ChangesAreWaitedFor`
is the safety in `WrittenUnlessFailed`: with `DirtyHasTimer`, that what a flush has yet to
take has its timer armed, no change is left that nothing will bring to the file.

`AnonymousHandlesProofs`. `SizeBounded`, `HitsAreLive` and `ClosedOnce` follow from
`CacheInv`. None is inductive alone: that an eviction or a sweep closes a handle
for the first time needs that what the cache holds is live, that the others stay
live needs that no two entries share a handle (`Distinct`), and that a new handle
is not in the cache already needs that handles are given out in order (`Given`).
`PutOne` and `PutKeeps` say what `set` does to such a cache, `CloseOne` and
`DeleteOne` what removing an entry does; the bound on the size is arithmetic on
their cardinalities.

`DavTransferProofs`. Everything rests on `DavInv`, from which `BodyIsWindow` follows. `Flowing` is its heart:
while the body is piped, what was sent and what is buffered are together what was
read from the window's start (at most that, once the client has left), a read is
under way only short of the window's end, and the stream ends itself only at the
window's end or where the file has become too short. `NotOpenYet` says that
nothing of this has started before the answer is piped, `OpenRange` that what is opened
has its window within the file (`WindowWithin`), `BodyInv` that a body which ended
normally came to the window's end or lacks bytes the file has lost. `WindowInOrder` and
`WindowSelects` are the arithmetic of `resolveRange`: a byte is in the window exactly if
the header selects it, which makes of `BodyInv` the statement about the bytes asked for
(`WholeBody`). Two of the
liveness properties have a safety part, stated by itself and proved: that a request
which is over has closed its handle, and nothing closes it twice
(`HandleClosedByTheEnd`), needs that the handle was closed exactly if the stream failed
or was destroyed (`ClosedSoFar`); that a transfer which is over was answered
(`TransfersAnswered`) needs that only a client that left aborts.

`FuseSessionProofs`. `AnswersReachTheirRequest` needs that an id is never shared.
Before the unmount drops the parked replies, every job has its own reply parked
(`AllParked`), so the loop that looks for a free id cannot return one in use. After
it, jobs are left whose replies were dropped and whose ids therefore look free:
there `OrphansAhead` says that such an id is further ahead of the counter than the
session thread still has requests to give ids to, and `ParkedBehind` that whatever
was parked since lies behind it; skipping 0 costs one id. Both hold because
`SessionAssumption` has more ids than requests and latecomers together, and
because the bound `NoneTurned` says that at the drop no request in JavaScript is a
whole turn of the ids old: a turn is 2^32 requests in the code. `SessionHasKernelsFiles` adds in `FileInv` that
handle numbers are given out in order and that no two releases name one handle.
`IdAlwaysFound` is why the loop over the ids ends: the parked replies are those of
different requests, there are more ids than requests, and of the free ones one is next.

`FuseCacheProofs`. `LookupCounts` is inductive with the shapes of what is on its way
(`RequestsTyped`, `TreeWhole`), a table the two indexes of which fit (`Sound`), and
`CachedIsHeld`: together `CountInv`, from which `TypeCorrect`, `LookupsCounted` and
`IndexesSound` follow. That a batch of a READDIRPLUS counts each inode once needs that
no two names share one. The batch is remembered and forgotten by a fold, which the
community modules define by a recursive function behind a `CHOOSE`: `InductTo` and
`FoldExists` show, from the well-foundedness of the numbers, that such a function
exists, and `Remembering` and `Forgetting` unroll it into a table per entry.
`InvalidationReaches` adds `NameInv`: for a tree whose inodes follow from paths, all
that is on its way or remembered does (`PathsFollow`), and a cached name was found
after the last `invalidateDir` or is in the notifier's channel (`Announced`). The
mark for a negative entry is assumed to be no inode: `mount.ts` answers inode 0.

`CompoundProofs`. `CallInv` has six parts: `CallOK`, where a call is; `WriterOK`, that a
payload kept beside the buffer belongs behind a length in it, one that was copied
stands there, and those beside it are in the order of their places; `BuffersOK`, that
a buffer is beside the reply at most once and is not released before it is filled;
`NodesOK` and `WaitOK`, that a size the call remembers of a node is one it had; and
`HeardOK`, that an end of file told was one. `EofHonest` needs the remembered sizes
because READ compares with one from before its await; `BuffersReturned` needs that a
payload is beside the reply once, since the reply's end releases each. Lemmas say of
`Succeeds`, `Fails`, `Splice` and `truncate` what they do to a good writer, and every
operation is a case that cites them. `SegmentsInPlace` unrolls the fold of `Segments`
over the payloads, for `PayloadsKeepPlaces`.

`CompoundImplementsReply` needs one more invariant: by `ReplyInv` the items to be sent
are between two operations a log of `produced` results, all OK (`Log`), and the same
with the number and the status of one operation behind it while that one waits
(`Begins`). What is shown of an action is what it does to those items, payloads in
their places: words and payloads that succeed are added at the end (`Adds`,
`SegmentsSpliced`), a count or a status is patched in its place (`SegmentsFollow`), and
a failure cuts back to exactly the begun operation, whichever payloads stood behind it
(`CutBegins`). `Results` reads the items from the front with two functions that are
chosen: `BodiesExist` and `DecodesExist` show by induction from the end of the items
that there are such functions, `ResultsSteps` is one step of them, `ResultsGrow` that
an operation added to a log adds one result to its end, `ResultsPatched` that a patch
changes no other result. `LogGrows` joins the two sides, and `SucceedsGoesOn` and
`FailsGoesOn` are the two steps every operation's case cites. `TreeAssumption` has a largest size among
the sizes of nodes, `ReadAssumption` numbers the buffers without gaps.

Only model-checked: the liveness properties (`SilentClientExpires`,
`QuietHandlesClosed`, `WrittenUnlessFailed`, `PausedResumes`, `RequestsAnswered`,
`UnmountClosesHandles`, `ListingEnds`, `HandleReleased`, `ResponseEnds`,
`CallAnswered`), which TLAPS does not reach under fairness. What of them is safety is
proved: `PausingHolds` and `AnswersReachTheirRequest` say that there is a call, or a job,
that ends the waiting, `SessionHasKernelsFiles` that the handles an unmount takes out of
the table were closed, and `ChangesAreWaitedFor`, `HandleClosedByTheEnd` and
`TransfersAnswered` what they are named for. Of the runs that expect a violation there is
nothing to prove.

## 6. Not modelled

The XDR reader, whose only state is an offset, and the encoding of numbers; the
bytes of filehandles and collisions of their hashes; the table of attribute
encoders; the XML of PROPFIND and the paths in it, which is formatting. The NFS
client and the in-memory filesystem are test code. Attribute and error tables,
mountpoint preparation, probing and the native build keep no state between calls:
they are conversions and I/O.
