----------------------------- MODULE InodeTable -----------------------------
(***************************************************************************)
(* InodeTable of fsmux-fuse (inodes.ts) for the children of one directory: *)
(* which inodes the kernel holds references to, how many, and by which     *)
(* path, with the indexes by path and by parent.  An inode is in byIno     *)
(* exactly while its lookup count is positive.                             *)
(***************************************************************************)
EXTENDS Naturals

CONSTANTS
  Names, \* names in the directory; a child's path is its name
  Inos,  \* inode numbers, the root's excepted
  None   \* undefined

ASSUME NoneAssumption == None \notin Names /\ None \notin Inos

\* byIno as two functions, byPath, and the directory's set in children.
Tables == [nlookup : [Inos -> Nat], path : [Inos -> Names \cup {None}],
           byPath : [Names -> Inos \cup {None}], children : SUBSET Names]

\* byIno has one entry for an inode: a path and a positive count, or neither.
EntriesWhole(t) == \A i \in Inos : t.path[i] # None <=> t.nlookup[i] > 0

EmptyTable == [nlookup |-> [i \in Inos |-> 0], path |-> [i \in Inos |-> None],
               byPath |-> [n \in Names |-> None], children |-> {}]

Known(t, i) == t.nlookup[i] > 0

Index(t, n, i) == [t EXCEPT !.byPath[n] = i, !.children = @ \cup {n}]

\* Mutant: byPath keeps the name.
UnindexName(t, n, i) == [t EXCEPT !.children = @ \ {n}]

\* byPath keeps a name that meanwhile leads to another inode; children loses it.
Unindex(t, n, i) ==
  [t EXCEPT !.byPath[n] = IF @ = i THEN None ELSE @, !.children = @ \ {n}]

\* A lookup succeeded; an inode that was known by another path moves to this one.
Remember(t, i, n) ==
  LET counted == [t EXCEPT !.nlookup[i] = @ + 1] IN
  IF Known(t, i) /\ t.path[i] = n THEN counted
  ELSE LET moved == IF Known(t, i) THEN Unindex(counted, t.path[i], i) ELSE counted
       IN Index([moved EXCEPT !.path[i] = n], n, i)

\* The kernel gives k references back; the last one takes the inode with it.
Forget(t, i, k) ==
  IF ~Known(t, i) THEN t
  ELSE IF t.nlookup[i] > k THEN [t EXCEPT !.nlookup[i] = @ - k]
  ELSE Unindex([t EXCEPT !.nlookup[i] = 0, !.path[i] = None], t.path[i], i)

-----------------------------------------------------------------------------
\* byPath never leads to an inode that is not known, or known by another path.
PathIndexSound(t) ==
  \A n \in Names : t.byPath[n] # None =>
    Known(t, t.byPath[n]) /\ t.path[t.byPath[n]] = n

\* Every name knownChildren gives has an inode in byPath.
ChildrenHavePaths(t) == \A n \in t.children : t.byPath[n] # None
=============================================================================
