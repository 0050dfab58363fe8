---------------------------- MODULE PagedListing ----------------------------
(***************************************************************************)
(* Directories listed by the page: READDIR of the NFS server               *)
(* (nfs4/compound.ts) and readdir of the FUSE session (mount.ts, whose     *)
(* readdirplus resumes in the same way).  Every page reads the directory   *)
(* anew, and the cookie the reader comes back with is an index into the    *)
(* listing it was taken from; the directory may change between two pages.  *)
(*                                                                         *)
(* One reader lists one directory, over one of the two protocols.  A name  *)
(* is an entry; of its encoding only the number of bytes is kept.          *)
(***************************************************************************)
EXTENDS Naturals, Sequences, FiniteSets, FiniteSetsExt, SequencesExt

CONSTANTS
  Entries,    \* names the directory can hold
  NameBytes,  \* the length of each name
  AttrWords,  \* words of the bitmap of attributes asked for
  ValueBytes, \* the length of each entry's encoded attributes
  Limits,     \* the (maxcount, dircount) an NFS client asks with
  Batch,      \* readdirBatch
  MaxChanges  \* bound: changes of the directory during a listing

ASSUME ListingAssumption ==
  /\ NameBytes \in [Entries -> Nat \ {0}] /\ ValueBytes \in [Entries -> Nat] /\ AttrWords \in Nat
  /\ Limits \subseteq [maxcount : Nat, dircount : Nat]
  /\ Batch \in Nat \ {0} /\ MaxChanges \in Nat
  /\ IsFiniteSet(Entries) /\ {".", ".."} \cap Entries = {}

VARIABLES
  protocol, \* "nfs" or "fuse"
  dir,      \* the directory, as fs.readdir lists it
  cookie,   \* what the reader resumes with: an NFS cookie or a FUSE offset
  seen,     \* the names listed so far
  page,     \* the last reply, for NFS: its status, its entries and its bytes
  done,     \* whether the reader has seen the end
  stable,   \* history: names in the directory since the listing began
  shifted,  \* history: the kinds of change before the reader's place
  changes   \* changes since the listing began

readerVars == <<cookie, seen, page, done>>
historyVars == <<stable, shifted, changes>>
listingVars == <<protocol, dir, readerVars, historyVars>>

NoPage == [status |-> "none"]

-----------------------------------------------------------------------------
\* READDIR.

Padded(n) == ((n + 3) \div 4) * 4
ReaddirOverhead == 32

\* Mutant: the bitmap of attributes is not counted.
EntryBytesBare(e) ==
  4 + 8 + 4 + Padded(NameBytes[e]) + 4 + Padded(ValueBytes[e])

\* What compound.ts counts for an entry, and for its name alone.
EntryBytes(e) ==
  4 + 8 + 4 + Padded(NameBytes[e]) + 4 + (4 + 4 * AttrWords) + 4 + Padded(ValueBytes[e])

NameCost(e) == 8 + NameBytes[e]

\* Entry i, counted from 0, has cookie i + 3; 0, 1 and 2 are reserved.
Start == IF cookie = 0 THEN 0 ELSE cookie - 2

CookieAfter(n) == n + 2

\* Whether the entries after the first n, up to the last, fit one page.
Fits(n, last, limits) ==
  /\ ReaddirOverhead + MapThenSumSet(LAMBDA i : EntryBytes(dir[i]), n + 1 .. last)
       <= limits.maxcount
  /\ \/ limits.dircount = 0
     \/ MapThenSumSet(LAMBDA i : NameCost(dir[i]), n + 1 .. last) <= limits.dircount

\* A page takes entries until one does not fit.
PageEnd(n, limits) ==
  CHOOSE last \in n .. Len(dir) :
    /\ Fits(n, last, limits) \/ last = n
    /\ last < Len(dir) => ~Fits(n, last + 1, limits)

\* RFC 7530's encoding of a READDIR4resok: verifier, end of list and eof, and entries.
EmptyReply == 8 + 4 + 4
Encoded(n, last) ==
  EmptyReply + MapThenSumSet(LAMBDA i : 4 + 8 + (4 + Padded(NameBytes[dir[i]])) +
                               (4 + 4 * AttrWords) + (4 + Padded(ValueBytes[dir[i]])),
                             n + 1 .. last)

\* The reply with the entries after the first n, up to the last.
Reply(n, last, limits) ==
  [status |-> "ok", entries |-> last - n, bytes |-> Encoded(n, last),
   names |-> MapThenSumSet(LAMBDA i : NameCost(dir[i]), n + 1 .. last), limits |-> limits]

Readdir(limits) ==
  LET last == PageEnd(Start, limits) IN
  /\ protocol = "nfs" /\ ~done
  /\ Start < Len(dir) /\ last > Start
  /\ seen' = seen \o SubSeq(dir, Start + 1, last)
  /\ cookie' = CookieAfter(last)
  /\ done' = (last = Len(dir))
  /\ page' = Reply(Start, last, limits)
  /\ UNCHANGED <<protocol, dir, historyVars>>

\* Mutant: a page that passes over an entry it has no room for.
TooSmallEmpty(limits) ==
  /\ protocol = "nfs" /\ ~done
  /\ Start < Len(dir) /\ PageEnd(Start, limits) = Start
  /\ page' = Reply(Start, Start, limits)
  /\ cookie' = CookieAfter(Start + 1)
  /\ UNCHANGED <<protocol, dir, seen, done, historyVars>>

\* TOOSMALL: not even one entry fits; the client asks again with more room.
TooSmall(limits) ==
  /\ protocol = "nfs" /\ ~done
  /\ Start < Len(dir) /\ PageEnd(Start, limits) = Start
  /\ page' = [status |-> "toosmall"]
  /\ UNCHANGED <<protocol, dir, cookie, seen, done, historyVars>>

\* Mutant: a cookie beyond the end is not the end.
ReaddirEndExact(limits) ==
  /\ protocol = "nfs" /\ ~done /\ Start >= Len(dir)
  /\ done' = (Start = Len(dir))
  /\ page' = Reply(Start, Start, limits)
  /\ UNCHANGED <<protocol, dir, cookie, seen, historyVars>>

\* A page from the end of the listing, or beyond it when that has become shorter, has
\* no entry, and the limits are not looked at.
ReaddirEnd(limits) ==
  /\ protocol = "nfs" /\ ~done /\ Start >= Len(dir)
  /\ done' = TRUE
  /\ page' = Reply(Start, Start, limits)
  /\ UNCHANGED <<protocol, dir, cookie, seen, historyVars>>

-----------------------------------------------------------------------------
\* FUSE: offsets are indices plus one, "." and ".." first.

Listed == <<".", "..">> \o dir
BatchEnd == IF cookie + Batch < Len(Listed) THEN cookie + Batch ELSE Len(Listed)

\* Mutant: the offset of an entry is its index.
KeepOffset(kept) ==
  /\ protocol = "fuse" /\ ~done
  /\ kept \in cookie + 1 .. BatchEnd
  /\ seen' = seen \o SubSeq(Listed, cookie + 1, kept)
  /\ cookie' = kept - 1
  /\ UNCHANGED <<protocol, dir, page, done, historyVars>>

\* The session replies with a batch, and the kernel keeps what its buffer takes, at
\* least one entry, and resumes from the offset of the last.
Keep(kept) ==
  /\ protocol = "fuse" /\ ~done
  /\ kept \in cookie + 1 .. BatchEnd
  /\ seen' = seen \o SubSeq(Listed, cookie + 1, kept)
  /\ cookie' = kept
  /\ UNCHANGED <<protocol, dir, page, done, historyVars>>

\* An empty reply is the end.
KeepNone ==
  /\ protocol = "fuse" /\ ~done /\ cookie >= Len(Listed)
  /\ done' = TRUE
  /\ UNCHANGED <<protocol, dir, cookie, seen, page, historyVars>>

-----------------------------------------------------------------------------
\* The exported directory changes.  Place is how many entries the reader is past.
Place == IF protocol = "nfs" THEN Start ELSE IF cookie < 2 THEN 0 ELSE cookie - 2

Removed(i) ==
  /\ ~done /\ changes < MaxChanges /\ changes' = changes + 1
  /\ dir' = RemoveAt(dir, i)
  /\ stable' = stable \ {dir[i]}
  /\ shifted' = IF i <= Place THEN shifted \cup {"removed"} ELSE shifted
  /\ UNCHANGED <<protocol, readerVars>>

Added(i, e) ==
  /\ ~done /\ changes < MaxChanges /\ changes' = changes + 1
  /\ e \notin ToSet(dir)
  /\ dir' = InsertAt(dir, i, e)
  /\ shifted' = IF i <= Place THEN shifted \cup {"added"} ELSE shifted
  /\ UNCHANGED <<protocol, readerVars, stable>>

\* The reader starts over.
Rewind ==
  /\ done /\ done' = FALSE
  /\ cookie' = 0 /\ seen' = <<>> /\ page' = NoPage
  /\ stable' = ToSet(dir) /\ shifted' = {} /\ changes' = 0
  /\ UNCHANGED <<protocol, dir>>

ListingInit ==
  /\ protocol \in {"nfs", "fuse"} /\ dir \in SetToSeqs(Entries)
  /\ cookie = 0 /\ seen = <<>> /\ page = NoPage /\ done = FALSE
  /\ stable = Entries /\ shifted = {} /\ changes = 0

ListingNext ==
  \/ \E limits \in Limits : Readdir(limits) \/ TooSmall(limits) \/ ReaddirEnd(limits)
  \/ KeepNone \/ Rewind
  \/ \E kept \in 1 .. Len(Listed) : Keep(kept)
  \/ \E i \in 1 .. Len(dir) : Removed(i)
  \/ \E i \in 1 .. Len(dir) + 1, e \in Entries : Added(i, e)

ListingSpec == ListingInit /\ [][ListingNext]_listingVars

\* The reader asks on, an NFS client with room for the next entry in the end.
FairListingSpec ==
  /\ ListingSpec
  /\ WF_listingVars(\E limits \in Limits : Readdir(limits) \/ ReaddirEnd(limits))
  /\ WF_listingVars((\E kept \in 1 .. Len(Listed) : Keep(kept)) \/ KeepNone)

-----------------------------------------------------------------------------
\* An NFS cookie is never one of the reserved values.
ListingTypeOK ==
  /\ protocol \in {"nfs", "fuse"}
  /\ ToSet(dir) \subseteq Entries /\ Len(dir) = Cardinality(ToSet(dir))
  /\ cookie \in Nat /\ (protocol = "nfs" => cookie \notin {1, 2})
  /\ ToSet(seen) \subseteq Entries \cup {".", ".."}
  /\ page.status \in {"none", "ok", "toosmall"} /\ done \in BOOLEAN
  /\ stable \subseteq ToSet(dir) /\ shifted \subseteq {"removed", "added"}
  /\ changes \in 0 .. MaxChanges

\* A reply to READDIR is, as encoded, no longer than the client has room for, if that
\* is room for a reply without entries (which is sent whatever the room); its names
\* and cookies are no more than the client asked for; and one without entries, which
\* the client would ask for again, is the end of the listing.
PageFits ==
  page.status = "ok" =>
    /\ page.limits.maxcount >= EmptyReply \/ page.entries > 0 =>
         page.bytes <= page.limits.maxcount
    /\ page.limits.dircount > 0 => page.names <= page.limits.dircount
    /\ page.entries = 0 => done

\* A listing read to its end has every name that was there all along, unless a name
\* before the reader's place was removed: adding names hides none.
NothingSkipped == done /\ "removed" \notin shifted => stable \subseteq ToSet(seen)

\* And it has none of them twice, unless a name was added before the reader's place.
NothingTwice ==
  "added" \notin shifted =>
    \A i, j \in DOMAIN seen : seen[i] = seen[j] /\ seen[i] \in stable => i = j

\* However small its pages and however the directory changes, a listing ends: a reply
\* brings the reader further or tells it to ask for more.
ListingEnds == ~done ~> done
=============================================================================
