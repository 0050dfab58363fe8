----------------------------- MODULE FuseCache -----------------------------
(***************************************************************************)
(* What a FUSE mount (mount.ts over inodes.ts and lib.rs) has the kernel   *)
(* remember of one directory: lookups and readdirplus that hand out        *)
(* inodes, forgets that give them back, and the invalidations the          *)
(* application asks for when the exported tree changed.                    *)
(*                                                                         *)
(* The kernel, external, is an over-approximation: it asks for any name at *)
(* any time, drops any cached name at any time (the TTL is one reason),    *)
(* and forgets an inode it has no cached name for.  Forgets and            *)
(* invalidations travel through queues of their own: to the JavaScript     *)
(* thread, and through the notifier thread to the kernel.                  *)
(***************************************************************************)
EXTENDS Naturals, Sequences, FiniteSets, InodeTable, SequencesExt

CONSTANTS
  Bindings,   \* the (name, inode) pairs the exported tree can come to hold
  ByPath,     \* those of a tree that derives an inode from its path
  Lookups,    \* LOOKUPs that can be in flight at once
  MaxRefs,    \* bound: references to one inode, forgets on their way included
  MaxNotes    \* bound: notifications queued

Negative == "negative"  \* a cached absence

ASSUME FuseAssumption ==
  /\ Negative \notin Inos
  /\ ByPath \subseteq Bindings /\ Bindings \subseteq Names \X Inos
  /\ \A b, c \in ByPath : b[1] = c[1] <=> b[2] = c[2]
  /\ MaxRefs \in Nat /\ MaxNotes \in Nat

VARIABLES
  byPath,    \* whether the exported tree derives inodes from paths
  tree,      \* the exported directory
  table,     \* the session's InodeTable
  lookup,    \* per LOOKUP: "none", "asked" (for name), "found" (inode or None there)
  list,      \* the READDIRPLUS: "none", "asked", "found" (a batch of children)
  forgets,   \* references given back by forgets still on their way
  notes,     \* names in the notifier's channel
  dentry,    \* the kernel's cache of names: an inode, Negative or None
  refs,      \* the kernel's references to each inode
  since      \* history: names cached since the last invalidateDir

kernelVars == <<dentry, refs, since>>
requestVars == <<lookup, list>>
treeVars == <<byPath, tree>>
vars == <<treeVars, table, requestVars, forgets, notes, kernelVars>>

NoRequest == [at |-> "none"]

-----------------------------------------------------------------------------
\* The exported filesystem changes: a name is removed or comes to be.  Inode
\* numbers are identities, no two names share one.
Change(n, i) ==
  /\ tree[n] # i
  /\ i # None => <<n, i>> \in (IF byPath THEN ByPath ELSE Bindings) /\ \A m \in Names : tree[m] # i
  /\ tree' = [tree EXCEPT ![n] = i]
  /\ UNCHANGED <<byPath, table, requestVars, forgets, notes, kernelVars>>

\* The kernel asks for a name, and fs.lookup answers.
LookupAsked(l, n) ==
  /\ lookup[l].at = "none" /\ dentry[n] = None
  /\ lookup' = [lookup EXCEPT ![l] = [at |-> "asked", name |-> n]]
  /\ UNCHANGED <<treeVars, table, list, forgets, notes, kernelVars>>

LookupFound(l) ==
  /\ lookup[l].at = "asked"
  /\ lookup' = [lookup EXCEPT ![l] = [at |-> "found", name |-> @.name,
                                      ino |-> tree[@.name]]]
  /\ UNCHANGED <<treeVars, table, list, forgets, notes, kernelVars>>

\* The child is remembered and the reply written in one turn; the kernel takes a
\* reference and caches the name.
LookupReplied(l) ==
  LET n == lookup[l].name
      i == lookup[l].ino IN
  /\ lookup[l].at = "found" /\ i # None /\ refs[i] + forgets[i] < MaxRefs
  /\ table' = Remember(table, i, n)
  /\ refs' = [refs EXCEPT ![i] = @ + 1]
  /\ dentry' = [dentry EXCEPT ![n] = i] /\ since' = since \cup {n}
  /\ lookup' = [lookup EXCEPT ![l] = NoRequest]
  /\ UNCHANGED <<treeVars, list, forgets, notes>>

\* A miss is answered with a negative entry; nothing is remembered.
LookupMissed(l) ==
  LET n == lookup[l].name IN
  /\ lookup[l].at = "found" /\ lookup[l].ino = None
  /\ dentry' = [dentry EXCEPT ![n] = Negative] /\ since' = since \cup {n}
  /\ lookup' = [lookup EXCEPT ![l] = NoRequest]
  /\ UNCHANGED <<treeVars, table, refs, list, forgets, notes>>

\* The await of the lookup rejects with another error: no entry at all.
LookupFails(l) ==
  /\ lookup[l].at = "asked"
  /\ lookup' = [lookup EXCEPT ![l] = NoRequest]
  /\ UNCHANGED <<treeVars, table, list, forgets, notes, kernelVars>>

-----------------------------------------------------------------------------
\* READDIRPLUS: fs.readdir answers, and a batch of its entries is taken from the
\* offset asked for.
ListAsked ==
  /\ list.at = "none"
  /\ list' = [at |-> "asked"]
  /\ UNCHANGED <<treeVars, table, lookup, forgets, notes, kernelVars>>

Batches ==
  UNION {SetToSeqs(S) : S \in SUBSET {<<n, tree[n]>> : n \in {m \in Names : tree[m] # None}}}

ListFound ==
  /\ list.at = "asked"
  /\ \E batch \in Batches : list' = [at |-> "found", batch |-> batch]
  /\ UNCHANGED <<treeVars, table, lookup, forgets, notes, kernelVars>>

RememberAll(t, batch) == FoldLeft(LAMBDA u, e : Remember(u, e[2], e[1]), t, batch)
ForgetAll(t, batch) == FoldLeft(LAMBDA u, e : Forget(u, e[2], 1), t, batch)

\* Mutant: the entries the kernel had no room for stay remembered.
ListRepliedKeepsAll ==
  /\ list.at = "found"
  /\ \E kept \in 0 .. Len(list.batch) :
       LET cached == {list.batch[k] : k \in 1 .. kept} IN
       /\ \A e \in cached : refs[e[2]] + forgets[e[2]] < MaxRefs
       /\ table' = RememberAll(table, list.batch)
       /\ refs' = [i \in Inos |-> IF \E e \in cached : e[2] = i THEN refs[i] + 1 ELSE refs[i]]
       /\ UNCHANGED <<dentry, since>>
  /\ list' = NoRequest
  /\ UNCHANGED <<treeVars, lookup, forgets, notes>>

\* All are remembered, the kernel's buffer keeps the first of them, and the rest
\* is forgotten again, in one turn.
ListReplied ==
  /\ list.at = "found"
  /\ \E kept \in 0 .. Len(list.batch) :
       LET cached == {list.batch[k] : k \in 1 .. kept}
           surplus == SubSeq(list.batch, kept + 1, Len(list.batch)) IN
       /\ \A e \in cached : refs[e[2]] + forgets[e[2]] < MaxRefs
       /\ table' = ForgetAll(RememberAll(table, list.batch), surplus)
       /\ refs' = [i \in Inos |-> IF \E e \in cached : e[2] = i THEN refs[i] + 1 ELSE refs[i]]
       /\ dentry' = [n \in Names |-> IF \E e \in cached : e[1] = n
                                     THEN (CHOOSE e \in cached : e[1] = n)[2]
                                     ELSE dentry[n]]
       /\ since' = since \cup {e[1] : e \in cached}
  /\ list' = NoRequest
  /\ UNCHANGED <<treeVars, lookup, forgets, notes>>

-----------------------------------------------------------------------------
\* The kernel drops a cached name, and gives back an inode it has no name for.
DentryDropped(n) ==
  /\ dentry[n] # None
  /\ dentry' = [dentry EXCEPT ![n] = None] /\ since' = since \ {n}
  /\ UNCHANGED <<treeVars, table, requestVars, forgets, notes, refs>>

ForgetSent(i) ==
  /\ refs[i] > 0 /\ \A n \in Names : dentry[n] # i
  /\ refs' = [refs EXCEPT ![i] = 0]
  /\ forgets' = [forgets EXCEPT ![i] = @ + refs[i]]
  /\ UNCHANGED <<treeVars, table, requestVars, notes, dentry, since>>

\* A forget reaches the session; those on the way for one inode are not told apart.
ForgetHandled(i, k) ==
  /\ k \in 1 .. forgets[i]
  /\ table' = Forget(table, i, k)
  /\ forgets' = [forgets EXCEPT ![i] = @ - k]
  /\ UNCHANGED <<treeVars, requestVars, notes, kernelVars>>

-----------------------------------------------------------------------------
\* Mutant: the names are left to their TTL.
InvalidateDirAttributes ==
  /\ since' = {}
  /\ UNCHANGED <<treeVars, table, requestVars, forgets, notes, dentry, refs>>

\* invalidateDir: the directory's attributes, and every known child's name.
InvalidateDir ==
  /\ Len(notes) + Cardinality(table.children) <= MaxNotes
  /\ notes' = notes \o SetToSeq(table.children)
  /\ since' = {}
  /\ UNCHANGED <<treeVars, table, requestVars, forgets, dentry, refs>>

\* invalidateEntry: one name.
InvalidateEntry(n) ==
  /\ Len(notes) < MaxNotes
  /\ notes' = Append(notes, n)
  /\ UNCHANGED <<treeVars, table, requestVars, forgets, kernelVars>>

\* The notifier thread hands a name to the kernel.
Notified ==
  /\ notes # <<>>
  /\ dentry' = [dentry EXCEPT ![Head(notes)] = None] /\ since' = since \ {Head(notes)}
  /\ notes' = Tail(notes)
  /\ UNCHANGED <<treeVars, table, requestVars, forgets, refs>>

Init ==
  /\ byPath \in BOOLEAN /\ tree = [n \in Names |-> None] /\ table = EmptyTable
  /\ lookup = [l \in Lookups |-> NoRequest] /\ list = NoRequest
  /\ forgets = [i \in Inos |-> 0] /\ notes = <<>>
  /\ dentry = [n \in Names |-> None] /\ refs = [i \in Inos |-> 0]
  /\ since = {}

Next ==
  \/ \E n \in Names, i \in Inos \cup {None} : Change(n, i)
  \/ \E l \in Lookups : \/ \E n \in Names : LookupAsked(l, n)
                        \/ LookupFound(l) \/ LookupFails(l)
                        \/ LookupReplied(l) \/ LookupMissed(l)
  \/ ListAsked \/ ListFound \/ ListReplied
  \/ \E n \in Names : DentryDropped(n) \/ InvalidateEntry(n)
  \/ \E i \in Inos : ForgetSent(i) \/ \E k \in 1 .. forgets[i] : ForgetHandled(i, k)
  \/ InvalidateDir \/ Notified

Spec == Init /\ [][Next]_vars

-----------------------------------------------------------------------------
TypeOK ==
  /\ byPath \in BOOLEAN /\ tree \in [Names -> Inos \cup {None}] /\ table \in Tables /\ EntriesWhole(table)
  /\ forgets \in [Inos -> Nat] /\ refs \in [Inos -> Nat]
  /\ notes \in Seq(Names) /\ since \subseteq Names
  /\ dentry \in [Names -> Inos \cup {None, Negative}]

\* The session counts what the kernel holds, forgets on their way included: no
\* inode the kernel can name is unknown, none is kept for ever, whatever the
\* buffer of a READDIRPLUS cut off and however forgets cross replies.
LookupCounts == \A i \in Inos : table.nlookup[i] = refs[i] + forgets[i]

\* The index by path never leads to an inode the session would answer ENOENT for.
IndexSound == PathIndexSound(table) /\ ChildrenHavePaths(table)

\* In a tree whose inodes follow from paths, when the notifier has caught up, no
\* name the kernel found before the last invalidateDir is still cached.  (mount.ts:78
\* says it of every tree and of names that were not found, too; the code does less.)
PositiveNamesForgotten ==
  byPath /\ notes = <<>> => \A n \in Names : dentry[n] \in Inos => n \in since
=============================================================================
