-------------------------- MODULE FuseCacheProofs --------------------------
(***************************************************************************)
(* Proofs about FuseCache: the session's inode table counts what the       *)
(* kernel holds, its indexes are sound, and an invalidation reaches every  *)
(* name the kernel has found.                                              *)
(*                                                                         *)
(* A READDIRPLUS remembers and forgets a whole batch in one turn, by a     *)
(* fold.  FoldExists says that such a fold is what its equation says, and  *)
(* Remembering and Forgetting unroll the two into a table per entry, so    *)
(* that what one Remember or Forget keeps, InductTo carries along.         *)
(***************************************************************************)
EXTENDS FuseCache, FiniteSetTheorems, SequenceTheorems, WellFoundedInduction, TLAPS

Pairs == Names \X Inos

\* The entries of a batch have names and inodes of their own.
Apart(batch) ==
  \A j, k \in DOMAIN batch : j # k => batch[j][1] # batch[k][1] /\ batch[j][2] # batch[k][2]

RequestsTyped ==
  /\ lookup \in [Lookups -> {NoRequest} \cup [at : {"asked"}, name : Names]
                            \cup [at : {"found"}, name : Names, ino : Inos \cup {None}]]
  /\ \/ list \in {NoRequest, [at |-> "asked"]}
     \/ list.at = "found" /\ list.batch \in Seq(Pairs) /\ Apart(list.batch)

\* The exported directory is finite, and no two names share an inode.
TreeWhole ==
  /\ IsFiniteSet({n \in Names : tree[n] # None})
  /\ \A m, n \in Names : tree[m] = tree[n] /\ tree[m] # None => m = n

\* A table an InodeTable can be.
Sound(t) ==
  /\ t \in Tables /\ EntriesWhole(t) /\ IsFiniteSet(t.children)
  /\ PathIndexSound(t) /\ ChildrenHavePaths(t)

\* The kernel holds a reference to what it has a name for.
CachedIsHeld == \A n \in Names : dentry[n] \in Inos => refs[dentry[n]] > 0

CountInv ==
  /\ TypeOK /\ RequestsTyped /\ TreeWhole /\ Sound(table)
  /\ LookupCounts /\ CachedIsHeld

\* A table of a tree whose inodes follow from paths: every inode is known under its
\* path, in both indexes.
Derives(t) ==
  \A i \in Inos : Known(t, i) =>
    <<t.path[i], i>> \in ByPath /\ t.byPath[t.path[i]] = i /\ t.path[i] \in t.children

\* Whatever is on its way or remembered from such a tree.
PathsFollow ==
  byPath =>
    /\ \A n \in Names : tree[n] # None => <<n, tree[n]>> \in ByPath
    /\ \A l \in Lookups : lookup[l].at = "found" /\ lookup[l].ino # None
         => <<lookup[l].name, lookup[l].ino>> \in ByPath
    /\ list.at = "found" => \A k \in DOMAIN list.batch : list.batch[k] \in ByPath
    /\ \A n \in Names : dentry[n] \in Inos => <<n, dentry[n]>> \in ByPath
    /\ Derives(table)

\* A name found before the last invalidateDir is in the notifier's channel.
Announced ==
  byPath => \A n \in Names : dentry[n] \in Inos => n \in since \cup ToSet(notes)

NameInv == CountInv /\ PathsFollow /\ Announced

USE NoneAssumption DEF NoneAssumption

-----------------------------------------------------------------------------
LEMMA InductTo ==
  ASSUME NEW n \in Nat, NEW S, 0 \in S, \A k \in 1 .. n : k - 1 \in S => k \in S
  PROVE  0 .. n \subseteq S
<1> DEFINE R == OpToRel(<, Nat)
           T == (0 .. n) \ S
<1>1. SUFFICES ASSUME T # {} PROVE FALSE
  OBVIOUS
<1>2. IsWellFoundedOn(R, Nat)
  BY NatLessThanWellFounded
<1>3. \A x, y \in Nat : x < y => <<x, y>> \in R
  BY DEF OpToRel
<1>4. T \subseteq Nat
  OBVIOUS
<1> HIDE DEF R, T
<1>5. PICK x \in T : \A y \in T : <<y, x>> \notin R
  BY <1>1, <1>2, <1>4, WFMin
<1>6. x \in 1 .. n /\ x - 1 \in 0 .. n /\ x - 1 < x /\ x \notin S
  BY <1>5 DEF T
<1>7. x - 1 \in T
  BY <1>6 DEF T
<1> QED BY <1>3, <1>4, <1>5, <1>6, <1>7

LEMMA MaxOfTop ==
  ASSUME NEW m \in Nat, NEW s \in SUBSET (1 .. m + 1), m + 1 \in s
  PROVE  Max(s) = m + 1
<1>1. \A y \in s : m + 1 >= y /\ y \in Nat
  OBVIOUS
<1>2. \A x \in s : (\A y \in s : x >= y) => x = m + 1
  BY <1>1
<1> DEFINE P(x) == x \in s /\ \A y \in s : x >= y
<1>3. P(m + 1) /\ \A x : P(x) => x = m + 1
  BY <1>1, <1>2
<1>4. Max(s) = CHOOSE x : P(x)
  BY DEF Max
<1> HIDE DEF P
<1> QED BY <1>3, <1>4

LEMMA MaxIsIn ==
  ASSUME NEW n \in Nat, NEW s \in SUBSET (1 .. n), s # {}
  PROVE  Max(s) \in s
<1> DEFINE S == {m \in 0 .. n : \A r \in SUBSET (1 .. m) : r # {} => Max(r) \in r}
<1>1. 0 \in S
  <2>1. \A r \in SUBSET (1 .. 0) : r = {}
    OBVIOUS
  <2>2. \A r \in SUBSET (1 .. 0) : r # {} => Max(r) \in r
    BY <2>1
  <2>3. 0 \in 0 .. n
    OBVIOUS
  <2> QED BY <2>2, <2>3
<1>2. ASSUME NEW k \in 1 .. n, k - 1 \in S PROVE k \in S
  <2>1. ASSUME NEW r \in SUBSET (1 .. k), r # {} PROVE Max(r) \in r
    <3>1. CASE k \in r
      <4>1. k - 1 \in Nat /\ (k - 1) + 1 = k
        OBVIOUS
      <4> QED BY <3>1, <4>1, MaxOfTop
    <3>2. CASE k \notin r
      <4>1. r \in SUBSET (1 .. k - 1)
        BY <3>2
      <4> QED BY <1>2, <2>1, <4>1
    <3> QED BY <3>1, <3>2
  <2> QED BY <2>1
<1> HIDE DEF S
<1>3. n \in S
  BY <1>1, <1>2, InductTo
<1> QED BY <1>3 DEF S

LEMMA PrefixTop ==
  ASSUME NEW n \in Nat, NEW k \in 1 .. n
  PROVE  /\ Max(1 .. k) = k /\ (1 .. k) \ {k} = 1 .. (k - 1)
         /\ 1 .. k # {} /\ 1 .. k \in SUBSET (1 .. n)
<1>1. k - 1 \in Nat /\ 1 .. k \in SUBSET (1 .. (k - 1) + 1) /\ (k - 1) + 1 \in 1 .. k
      /\ (k - 1) + 1 = k
  OBVIOUS
<1>2. Max(1 .. k) = k
  BY <1>1, MaxOfTop
<1>3. (1 .. k) \ {k} = 1 .. (k - 1)
  OBVIOUS
<1>4. 1 .. k # {} /\ 1 .. k \in SUBSET (1 .. n)
  OBVIOUS
<1> QED BY <1>2, <1>3, <1>4

\* g is the fold of step over sets of numbers up to n, the largest last.
FoldsTo(g, n, T, b, step) ==
  /\ g \in [SUBSET (1 .. n) -> T]
  /\ \A s \in SUBSET (1 .. n) : g[s] = IF s = {} THEN b ELSE step[<<g[s \ {Max(s)}], Max(s)>>]

LEMMA FoldExtends ==
  ASSUME NEW m \in Nat, NEW T, NEW b \in T, NEW n \in Nat, m + 1 \in 1 .. n, 
         NEW step \in [T \X (1 .. n) -> T],
         NEW g, FoldsTo(g, m, T, b, step)
  PROVE  \E h : FoldsTo(h, m + 1, T, b, step)
<1> DEFINE k == m + 1
           h == [s \in SUBSET (1 .. k) |-> IF k \in s THEN step[<<g[s \ {k}], k>>] ELSE g[s]]
<1>1. \A s \in SUBSET (1 .. k) : (k \notin s => s \in SUBSET (1 .. m)) /\ s \ {k} \in SUBSET (1 .. m)
  OBVIOUS
<1>2. h \in [SUBSET (1 .. k) -> T]
  BY <1>1 DEF FoldsTo
<1>3. ASSUME NEW s \in SUBSET (1 .. k)
      PROVE  h[s] = IF s = {} THEN b ELSE step[<<h[s \ {Max(s)}], Max(s)>>]
  <2>1. CASE k \in s
    <3>1. Max(s) = k
      BY <2>1, MaxOfTop
    <3>2. s \ {k} \in SUBSET (1 .. k) /\ k \notin s \ {k} /\ s # {}
      BY <2>1
    <3>3. h[s \ {k}] = g[s \ {k}] /\ h[s] = step[<<g[s \ {k}], k>>]
      BY <3>2, <2>1
    <3> HIDE DEF h
    <3> QED BY <3>1, <3>2, <3>3
  <2>2. CASE k \notin s
    <3>1. s \in SUBSET (1 .. m) /\ s \ {Max(s)} \in SUBSET (1 .. k) /\ k \notin s \ {Max(s)}
      BY <2>2, <1>1
    <3>2. h[s] = g[s] /\ h[s \ {Max(s)}] = g[s \ {Max(s)}]
      BY <2>2, <3>1
    <3>3. g[s] = IF s = {} THEN b ELSE step[<<g[s \ {Max(s)}], Max(s)>>]
      BY <3>1 DEF FoldsTo
    <3> HIDE DEF h
    <3> QED BY <3>2, <3>3
  <2> QED BY <2>1, <2>2
<1> HIDE DEF h
<1> QED BY <1>2, <1>3 DEF FoldsTo

LEMMA FoldExists ==
  ASSUME NEW n \in Nat, NEW T, NEW b \in T, NEW step \in [T \X (1 .. n) -> T]
  PROVE  \E g : FoldsTo(g, n, T, b, step)
<1> DEFINE S == {m \in 0 .. n : \E g : FoldsTo(g, m, T, b, step)}
<1>1. 0 \in S
  <2>1. FoldsTo([s \in SUBSET (1 .. 0) |-> b], 0, T, b, step)
    <3>1. SUBSET (1 .. 0) = {{}}
      OBVIOUS
    <3> QED BY <3>1 DEF FoldsTo
  <2> QED BY <2>1
<1>2. ASSUME NEW k \in 1 .. n, k - 1 \in S PROVE k \in S
  <2>1. k - 1 \in Nat /\ (k - 1) + 1 = k
    OBVIOUS
  <2>2. PICK g : FoldsTo(g, k - 1, T, b, step)
    BY <1>2
  <2> QED BY <2>1, <2>2, FoldExtends
<1> HIDE DEF S
<1>3. n \in S
  BY <1>1, <1>2, InductTo
<1> QED BY <1>3 DEF S

-----------------------------------------------------------------------------
\* The operators field by field.
LEMMA IndexFields ==
  ASSUME NEW t \in Tables, NEW i \in Inos, NEW n \in Names
  PROVE  LET u == Index(t, n, i) IN
         /\ u \in Tables
         /\ u.nlookup = t.nlookup /\ u.path = t.path
         /\ u.byPath = [t.byPath EXCEPT ![n] = i] /\ u.children = t.children \cup {n}
  BY DEF Index, Tables

LEMMA UnindexFields ==
  ASSUME NEW t \in Tables, NEW i \in Inos, NEW n \in Names
  PROVE  LET u == Unindex(t, n, i) IN
         /\ u \in Tables
         /\ u.nlookup = t.nlookup /\ u.path = t.path
         /\ u.byPath = [t.byPath EXCEPT ![n] = IF t.byPath[n] = i THEN None ELSE t.byPath[n]]
         /\ u.children = t.children \ {n}
  BY DEF Unindex, Tables

Moved(t, i, n) == [t EXCEPT !.path[i] = n]
Cleared(t, i) == [t EXCEPT !.nlookup[i] = 0, !.path[i] = None]

LEMMA MovedFields ==
  ASSUME NEW t \in Tables, NEW i \in Inos, NEW n \in Names
  PROVE  LET u == Moved(t, i, n) IN
         /\ u \in Tables
         /\ u.nlookup = t.nlookup /\ u.path = [t.path EXCEPT ![i] = n]
         /\ u.byPath = t.byPath /\ u.children = t.children
  BY DEF Tables, Moved, Cleared

LEMMA ClearedFields ==
  ASSUME NEW t \in Tables, NEW i \in Inos
  PROVE  LET u == Cleared(t, i) IN
         /\ u \in Tables
         /\ u.nlookup = [t.nlookup EXCEPT ![i] = 0] /\ u.path = [t.path EXCEPT ![i] = None]
         /\ u.byPath = t.byPath /\ u.children = t.children
  BY DEF Tables, Moved, Cleared

\* One Remember: the count of its inode, and whatever was sound stays so.
LEMMA RememberKeeps ==
  ASSUME NEW t, Sound(t), NEW i \in Inos, NEW n \in Names
  PROVE  /\ Sound(Remember(t, i, n))
         /\ Remember(t, i, n).nlookup = [t.nlookup EXCEPT ![i] = @ + 1]
<1> DEFINE u == Remember(t, i, n)
           counted == [t EXCEPT !.nlookup[i] = @ + 1]
<1> USE DEF Sound, Tables
<1>1. counted \in Tables /\ counted.nlookup = [t.nlookup EXCEPT ![i] = @ + 1]
      /\ counted.path = t.path /\ counted.byPath = t.byPath /\ counted.children = t.children
  OBVIOUS
<1>2. CASE Known(t, i) /\ t.path[i] = n
  <2>1. u = counted
    BY <1>2 DEF Remember
  <2> HIDE DEF u, counted
  <2> QED BY <1>1, <1>2, <2>1 DEF u, EntriesWhole, PathIndexSound, ChildrenHavePaths, Known
<1>3. CASE Known(t, i) /\ t.path[i] # n
  <2> DEFINE old == t.path[i]
             un == IF t.byPath[old] = i THEN None ELSE t.byPath[old]
  <2>0. old \in Names
    BY <1>3 DEF EntriesWhole, Known
  <2>1. u \in Tables /\ u.nlookup = [t.nlookup EXCEPT ![i] = @ + 1]
        /\ u.path = [t.path EXCEPT ![i] = n]
        /\ u.byPath = [[t.byPath EXCEPT ![old] = un] EXCEPT ![n] = i]
        /\ u.children = (t.children \ {old}) \cup {n}
    <3>0. PICK v, w : v = Unindex(counted, old, i) /\ w = Moved(v, i, n)
      OBVIOUS
    <3>1. u = Index(w, n, i)
      BY <1>3, <3>0 DEF Remember, Moved
    <3> HIDE DEF counted, Tables, u, old, Sound
    <3>2. v \in Tables /\ v.nlookup = counted.nlookup /\ v.path = counted.path
          /\ v.byPath = [t.byPath EXCEPT ![old] = un] /\ v.children = t.children \ {old}
      BY <1>1, <2>0, <3>0, UnindexFields
    <3>3. w \in Tables /\ w.nlookup = v.nlookup /\ w.path = [v.path EXCEPT ![i] = n]
          /\ w.byPath = v.byPath /\ w.children = v.children
      BY <3>0, <3>2, MovedFields
    <3>4. u \in Tables /\ u.nlookup = w.nlookup /\ u.path = w.path
          /\ u.byPath = [w.byPath EXCEPT ![n] = i] /\ u.children = w.children \cup {n}
      BY <3>1, <3>3, IndexFields
    <3> HIDE DEF un
    <3> QED BY <1>1, <3>2, <3>3, <3>4
  <2>2. IsFiniteSet(u.children)
    <3> HIDE DEF u
    <3>1. IsFiniteSet(t.children \ {old})
      BY FS_RemoveElement
    <3> QED BY <2>1, <3>1, FS_AddElement
  <2> HIDE DEF u, counted
  <2>3. EntriesWhole(u)
    BY <1>3, <2>1 DEF EntriesWhole, Known
  <2>4. PathIndexSound(u)
    BY <1>3, <2>0, <2>1 DEF PathIndexSound, Known, EntriesWhole
  <2>5. ChildrenHavePaths(u)
    BY <1>3, <2>0, <2>1 DEF ChildrenHavePaths, Known
  <2> QED BY <2>1, <2>2, <2>3, <2>4, <2>5 DEF u
<1>4. CASE ~Known(t, i)
  <2>1. u \in Tables /\ u.nlookup = [t.nlookup EXCEPT ![i] = @ + 1]
        /\ u.path = [t.path EXCEPT ![i] = n] /\ u.byPath = [t.byPath EXCEPT ![n] = i]
        /\ u.children = t.children \cup {n}
    <3>0. PICK w : w = Moved(counted, i, n)
      OBVIOUS
    <3>1. u = Index(w, n, i)
      BY <1>4, <3>0 DEF Remember, Moved
    <3> HIDE DEF counted, Tables, u
    <3>3. w \in Tables /\ w.nlookup = counted.nlookup /\ w.path = [t.path EXCEPT ![i] = n]
          /\ w.byPath = t.byPath /\ w.children = t.children
      BY <1>1, <3>0, MovedFields
    <3> QED BY <1>1, <3>1, <3>3, IndexFields
  <2>2. IsFiniteSet(u.children)
    BY <2>1, FS_AddElement
  <2> HIDE DEF u, counted
  <2>3. EntriesWhole(u)
    BY <1>4, <2>1 DEF EntriesWhole, Known
  <2>4. PathIndexSound(u)
    BY <1>4, <2>1 DEF PathIndexSound, Known, EntriesWhole
  <2>5. ChildrenHavePaths(u)
    BY <1>4, <2>1 DEF ChildrenHavePaths
  <2> QED BY <2>1, <2>2, <2>3, <2>4, <2>5 DEF u
<1> QED BY <1>2, <1>3, <1>4

LEMMA RememberDerives ==
  ASSUME NEW t, Sound(t), Derives(t), NEW i \in Inos, NEW n \in Names, <<n, i>> \in ByPath
  PROVE  Derives(Remember(t, i, n))
<1> DEFINE u == Remember(t, i, n)
<1> USE DEF Sound, Tables
<1>0. \A b, c \in ByPath : b[1] = c[1] <=> b[2] = c[2]
  BY FuseAssumption DEF FuseAssumption
<1>1. CASE Known(t, i)
  <2>1. t.path[i] = n
    BY <1>0, <1>1 DEF Derives
  <2>2. u = [t EXCEPT !.nlookup[i] = @ + 1]
    BY <1>1, <2>1 DEF Remember
  <2> QED BY <1>1, <2>2 DEF Derives, Known
<1>2. CASE ~Known(t, i)
  <2>1. u.nlookup = [t.nlookup EXCEPT ![i] = @ + 1]
        /\ u.path = [t.path EXCEPT ![i] = n] /\ u.byPath = [t.byPath EXCEPT ![n] = i]
        /\ u.children = t.children \cup {n}
    BY <1>2 DEF Remember, Index
  <2> HIDE DEF u
  <2>2. ASSUME NEW j \in Inos, Known(u, j), j # i
        PROVE  <<u.path[j], j>> \in ByPath /\ u.byPath[u.path[j]] = j /\ u.path[j] \in u.children
    <3>1. Known(t, j) /\ u.path[j] = t.path[j]
      BY <2>1, <2>2 DEF Known
    <3>2. t.path[j] # n
      BY <1>0, <2>2, <3>1 DEF Derives
    <3> QED BY <2>1, <3>1, <3>2 DEF Derives
  <2>3. <<n, i>> \in ByPath /\ u.path[i] = n /\ u.byPath[n] = i /\ n \in u.children
    BY <2>1
  <2>4. Derives(u)
    BY <2>2, <2>3 DEF Derives
  <2> QED BY <2>4 DEF u
<1> QED BY <1>1, <1>2

\* One Forget of no more references than there are.
LEMMA ForgetKeeps ==
  ASSUME NEW t, Sound(t), NEW i \in Inos, NEW k \in Nat, 1 <= k, k <= t.nlookup[i]
  PROVE  /\ Sound(Forget(t, i, k))
         /\ Forget(t, i, k).nlookup = [t.nlookup EXCEPT ![i] = @ - k]
         /\ Derives(t) => Derives(Forget(t, i, k))
<1> DEFINE u == Forget(t, i, k)
           old == t.path[i]
           un == IF t.byPath[old] = i THEN None ELSE t.byPath[old]
<1> USE DEF Sound, Tables
<1>0. Known(t, i) /\ old \in Names
  BY DEF EntriesWhole, Known
<1>1. CASE t.nlookup[i] > k
  <2>1. u = [t EXCEPT !.nlookup[i] = @ - k]
    BY <1>0, <1>1 DEF Forget
  <2>2. u \in Tables /\ u.nlookup = [t.nlookup EXCEPT ![i] = @ - k]
        /\ u.path = t.path /\ u.byPath = t.byPath /\ u.children = t.children
    BY <1>1, <2>1
  <2> HIDE DEF u
  <2>3. \A j \in Inos : Known(u, j) <=> Known(t, j)
    BY <1>1, <1>0, <2>2 DEF Known
  <2>4. EntriesWhole(u)
    BY <2>3, <2>2 DEF Known, EntriesWhole
  <2>5. PathIndexSound(u) /\ ChildrenHavePaths(u)
    BY <2>3, <2>2 DEF PathIndexSound, ChildrenHavePaths
  <2> QED BY <2>2, <2>3, <2>4, <2>5 DEF u, Derives
<1>2. CASE t.nlookup[i] = k
  <2>1. u \in Tables /\ u.nlookup = [t.nlookup EXCEPT ![i] = @ - k]
        /\ u.path = [t.path EXCEPT ![i] = None] /\ u.byPath = [t.byPath EXCEPT ![old] = un]
        /\ u.children = t.children \ {old}
    <3>0. PICK w : w = Cleared(t, i)
      OBVIOUS
    <3>1. u = Unindex(w, old, i)
      BY <1>0, <1>2, <3>0 DEF Forget, Cleared
    <3>2. [t.nlookup EXCEPT ![i] = @ - k] = [t.nlookup EXCEPT ![i] = 0]
      BY <1>2
    <3> HIDE DEF Tables, u, old, Sound
    <3>3. w \in Tables /\ w.nlookup = [t.nlookup EXCEPT ![i] = 0]
          /\ w.path = [t.path EXCEPT ![i] = None]
          /\ w.byPath = t.byPath /\ w.children = t.children
      BY <3>0, ClearedFields DEF Sound, old
    <3>4. u \in Tables /\ u.nlookup = w.nlookup /\ u.path = w.path
          /\ u.byPath = [w.byPath EXCEPT ![old] = IF w.byPath[old] = i THEN None ELSE w.byPath[old]]
          /\ u.children = w.children \ {old}
      BY <1>0, <3>1, <3>3, UnindexFields
    <3> QED BY <3>2, <3>3, <3>4
  <2>2. IsFiniteSet(u.children)
    BY <2>1, FS_RemoveElement
  <2> HIDE DEF u
  <2>3. \A j \in Inos : Known(u, j) <=> Known(t, j) /\ j # i
    BY <1>2, <2>1 DEF Known
  <2>4. EntriesWhole(u)
    BY <2>3, <2>1 DEF Known, EntriesWhole
  <2>5. PathIndexSound(u)
    BY <1>0, <2>3, <2>1 DEF PathIndexSound
  <2>6. ChildrenHavePaths(u)
    BY <1>0, <2>1 DEF ChildrenHavePaths
  <2>7. ASSUME Derives(t) PROVE Derives(u)
    <3>0. \A b, c \in ByPath : b[1] = c[1] <=> b[2] = c[2]
      BY FuseAssumption DEF FuseAssumption
    <3>1. ASSUME NEW j \in Inos, Known(u, j)
          PROVE  <<u.path[j], j>> \in ByPath /\ u.byPath[u.path[j]] = j /\ u.path[j] \in u.children
      <4>1. Known(t, j) /\ u.path[j] = t.path[j] /\ j # i
        BY <2>3, <2>1, <3>1
      <4>2. t.path[j] # old
        BY <1>0, <3>0, <4>1, <2>7 DEF Derives
      <4> QED BY <2>1, <2>7, <4>1, <4>2 DEF Derives
    <3> QED BY <3>1 DEF Derives
  <2> QED BY <2>1, <2>2, <2>4, <2>5, <2>6, <2>7 DEF u
<1> QED BY <1>1, <1>2

-----------------------------------------------------------------------------
\* A batch remembered, one table per entry.
LEMMA RememberSteps ==
  ASSUME NEW t, Sound(t), NEW batch \in Seq(Pairs)
  PROVE  \E u : /\ u[0] = t /\ u[Len(batch)] = RememberAll(t, batch)
                /\ \A k \in 1 .. Len(batch) :
                     u[k] = Remember(u[k - 1], batch[k][2], batch[k][1])
<1> DEFINE n == Len(batch)
           T == {v \in Tables : Sound(v)}
           step == [p \in T \X (1 .. n) |-> Remember(p[1], batch[p[2]][2], batch[p[2]][1])]
           Turn(iter) == [s \in SUBSET DOMAIN batch |->
                            IF s = {} THEN t
                            ELSE Remember(iter[s \ {Max(s)}], batch[Max(s)][2], batch[Max(s)][1])]
           c == CHOOSE iter : iter = Turn(iter)
<1>1. RememberAll(t, batch) = c[DOMAIN batch]
  BY DEF RememberAll, FoldLeft, MapThenFoldSet
<1>2. n \in Nat /\ DOMAIN batch = 1 .. n /\ \A k \in 1 .. n : batch[k] \in Pairs
  OBVIOUS
<1>3. step \in [T \X (1 .. n) -> T]
  <2>1. ASSUME NEW v \in T, NEW k \in 1 .. n
        PROVE  Remember(v, batch[k][2], batch[k][1]) \in T
    <3>1. batch[k][1] \in Names /\ batch[k][2] \in Inos
      BY <1>2 DEF Pairs
    <3>2. Sound(Remember(v, batch[k][2], batch[k][1]))
      BY <3>1, RememberKeeps
    <3> QED BY <3>2 DEF Sound
  <2> QED BY <2>1
<1>4. t \in T
  BY DEF Sound
<1>5. PICK g : FoldsTo(g, n, T, t, step)
  <2> HIDE DEF step, T, n
  <2> QED BY <1>2, <1>3, <1>4, FoldExists
<1>6. g = Turn(g)
  <2>1. ASSUME NEW s \in SUBSET (1 .. n), s # {}
        PROVE  g[s] = Remember(g[s \ {Max(s)}], batch[Max(s)][2], batch[Max(s)][1])
    <3>1. Max(s) \in 1 .. n
      BY <2>1, <1>2, MaxIsIn
    <3>2. g[s \ {Max(s)}] \in T /\ g[s] = step[<<g[s \ {Max(s)}], Max(s)>>]
      BY <2>1, <1>5 DEF FoldsTo
    <3> QED BY <3>1, <3>2
  <2>2. g \in [SUBSET (1 .. n) -> T] /\ g[{}] = t
    BY <1>5 DEF FoldsTo
  <2> QED BY <1>2, <2>1, <2>2
<1>7. c = Turn(c)
  <2> DEFINE Q(iter) == iter = Turn(iter)
  <2>1. Q(g)
    BY <1>6
  <2>2. c = CHOOSE iter : Q(iter)
    OBVIOUS
  <2> HIDE DEF Q, c
  <2>3. Q(c)
    BY <2>1, <2>2
  <2> QED BY <2>3 DEF Q
<1> DEFINE u == [k \in 0 .. n |-> c[1 .. k]]
<1> HIDE DEF c
<1>8. ASSUME NEW k \in 1 .. n
      PROVE  u[k] = Remember(u[k - 1], batch[k][2], batch[k][1])
  <2>1. Max(1 .. k) = k /\ (1 .. k) \ {k} = 1 .. (k - 1) /\ 1 .. k # {}
        /\ 1 .. k \in SUBSET DOMAIN batch
    BY <1>2, PrefixTop
  <2>2. c[1 .. k] = Remember(c[1 .. (k - 1)], batch[k][2], batch[k][1])
    BY <1>7, <2>1
  <2> QED BY <2>2, <1>2
<1>9. u[0] = t
  <2>1. 1 .. 0 = {} /\ {} \in SUBSET DOMAIN batch
    OBVIOUS
  <2>2. c[{}] = t
    BY <1>7, <2>1
  <2> QED BY <1>2, <2>1, <2>2
<1>10. u[n] = RememberAll(t, batch)
  BY <1>1, <1>2
<1> HIDE DEF u
<1> QED BY <1>8, <1>9, <1>10

\* And forgotten.
LEMMA ForgetSteps ==
  ASSUME NEW t, Sound(t), NEW batch \in Seq(Pairs)
  PROVE  \E u : /\ u[0] = t /\ u[Len(batch)] = ForgetAll(t, batch)
                /\ \A k \in 1 .. Len(batch) :
                     u[k] = Forget(u[k - 1], batch[k][2], 1)
<1> DEFINE n == Len(batch)
           T == {v \in Tables : Sound(v)}
           step == [p \in T \X (1 .. n) |-> Forget(p[1], batch[p[2]][2], 1)]
           Turn(iter) == [s \in SUBSET DOMAIN batch |->
                            IF s = {} THEN t
                            ELSE Forget(iter[s \ {Max(s)}], batch[Max(s)][2], 1)]
           c == CHOOSE iter : iter = Turn(iter)
<1>1. ForgetAll(t, batch) = c[DOMAIN batch]
  BY DEF ForgetAll, FoldLeft, MapThenFoldSet
<1>2. n \in Nat /\ DOMAIN batch = 1 .. n /\ \A k \in 1 .. n : batch[k] \in Pairs
  OBVIOUS
<1>3. step \in [T \X (1 .. n) -> T]
  <2>1. ASSUME NEW v \in T, NEW k \in 1 .. n
        PROVE  Forget(v, batch[k][2], 1) \in T
    <3>1. batch[k][2] \in Inos
      BY <1>2 DEF Pairs
    <3>2. CASE Known(v, batch[k][2])
      <4>1. 1 <= v.nlookup[batch[k][2]]
        BY <3>1, <3>2 DEF Known, Sound, Tables
      <4>2. 1 \in Nat /\ 1 <= 1 /\ Sound(v)
        OBVIOUS
      <4>3. Sound(Forget(v, batch[k][2], 1))
        <5> HIDE DEF step, T, n, Turn, c
        <5> QED BY <3>1, <4>1, <4>2, ForgetKeeps
      <4> QED BY <4>3 DEF Sound
    <3>3. CASE ~Known(v, batch[k][2])
      BY <3>3 DEF Forget
    <3> QED BY <3>2, <3>3
  <2> QED BY <2>1
<1>4. t \in T
  BY DEF Sound
<1>5. PICK g : FoldsTo(g, n, T, t, step)
  <2> HIDE DEF step, T, n
  <2> QED BY <1>2, <1>3, <1>4, FoldExists
<1>6. g = Turn(g)
  <2>1. ASSUME NEW s \in SUBSET (1 .. n), s # {}
        PROVE  g[s] = Forget(g[s \ {Max(s)}], batch[Max(s)][2], 1)
    <3>1. Max(s) \in 1 .. n
      BY <2>1, <1>2, MaxIsIn
    <3>2. g[s \ {Max(s)}] \in T /\ g[s] = step[<<g[s \ {Max(s)}], Max(s)>>]
      BY <2>1, <1>5 DEF FoldsTo
    <3> QED BY <3>1, <3>2
  <2>2. g \in [SUBSET (1 .. n) -> T] /\ g[{}] = t
    BY <1>5 DEF FoldsTo
  <2> QED BY <1>2, <2>1, <2>2
<1>7. c = Turn(c)
  <2> DEFINE Q(iter) == iter = Turn(iter)
  <2>1. Q(g)
    BY <1>6
  <2>2. c = CHOOSE iter : Q(iter)
    OBVIOUS
  <2> HIDE DEF Q, c
  <2>3. Q(c)
    BY <2>1, <2>2
  <2> QED BY <2>3 DEF Q
<1> DEFINE u == [k \in 0 .. n |-> c[1 .. k]]
<1> HIDE DEF c
<1>8. ASSUME NEW k \in 1 .. n
      PROVE  u[k] = Forget(u[k - 1], batch[k][2], 1)
  <2>1. Max(1 .. k) = k /\ (1 .. k) \ {k} = 1 .. (k - 1) /\ 1 .. k # {}
        /\ 1 .. k \in SUBSET DOMAIN batch
    BY <1>2, PrefixTop
  <2>2. c[1 .. k] = Forget(c[1 .. (k - 1)], batch[k][2], 1)
    BY <1>7, <2>1
  <2> QED BY <2>2, <1>2
<1>9. u[0] = t
  <2>1. 1 .. 0 = {} /\ {} \in SUBSET DOMAIN batch
    OBVIOUS
  <2>2. c[{}] = t
    BY <1>7, <2>1
  <2> QED BY <1>2, <2>1, <2>2
<1>10. u[n] = ForgetAll(t, batch)
  BY <1>1, <1>2
<1> HIDE DEF u
<1> QED BY <1>8, <1>9, <1>10

\* How many times an inode is among the first k entries of a batch.
Among(batch, k, i) == IF \E j \in 1 .. k : batch[j][2] = i THEN 1 ELSE 0

LEMMA AmongNext ==
  ASSUME NEW batch \in Seq(Pairs), Apart(batch), NEW k \in 1 .. Len(batch), NEW i
  PROVE  /\ Among(batch, k, i) = IF batch[k][2] = i THEN 1 ELSE Among(batch, k - 1, i)
         /\ batch[k][2] = i => Among(batch, k - 1, i) = 0
<1>1. \A j \in 1 .. k - 1 : j # k /\ j \in DOMAIN batch /\ k \in DOMAIN batch
  OBVIOUS
<1>2. batch[k][2] = i => ~\E j \in 1 .. k - 1 : batch[j][2] = i
  BY <1>1 DEF Apart
<1>3. (\E j \in 1 .. k : batch[j][2] = i) <=> batch[k][2] = i \/ \E j \in 1 .. k - 1 : batch[j][2] = i
  OBVIOUS
<1> QED BY <1>2, <1>3 DEF Among

\* A batch remembered counts each of its inodes once more.
LEMMA Remembering ==
  ASSUME NEW t, Sound(t), NEW batch \in Seq(Pairs), Apart(batch)
  PROVE  LET r == RememberAll(t, batch) IN
         /\ Sound(r)
         /\ \A i \in Inos : r.nlookup[i] = t.nlookup[i] + Among(batch, Len(batch), i)
         /\ Derives(t) /\ (\A k \in DOMAIN batch : batch[k] \in ByPath) => Derives(r)
<1> DEFINE n == Len(batch)
<1>1. PICK u : /\ u[0] = t /\ u[n] = RememberAll(t, batch)
               /\ \A k \in 1 .. n : u[k] = Remember(u[k - 1], batch[k][2], batch[k][1])
  BY RememberSteps
<1> DEFINE Counts(k) == \A i \in Inos : u[k].nlookup[i] = t.nlookup[i] + Among(batch, k, i)
           All == \A k \in DOMAIN batch : batch[k] \in ByPath
           S == {k \in 0 .. n : Sound(u[k]) /\ Counts(k) /\ (Derives(t) /\ All => Derives(u[k]))}
<1>2. 0 \in S
  <2>1. \A i \in Inos : Among(batch, 0, i) = 0 /\ t.nlookup[i] \in Nat
    BY DEF Among, Sound, Tables
  <2> QED BY <1>1, <2>1
<1>3. ASSUME NEW k \in 1 .. n, k - 1 \in S PROVE k \in S
  <2> DEFINE v == u[k - 1]
             i == batch[k][2]
  <2>1. Sound(v) /\ Counts(k - 1) /\ (Derives(t) /\ All => Derives(v))
    BY <1>3
  <2>2. i \in Inos /\ batch[k][1] \in Names /\ k \in DOMAIN batch /\ batch[k] = <<batch[k][1], i>>
    BY DEF Pairs
  <2>3. u[k] = Remember(v, i, batch[k][1])
    BY <1>1
  <2>4. Sound(u[k]) /\ u[k].nlookup = [v.nlookup EXCEPT ![i] = @ + 1]
    <3> HIDE DEF v, i
    <3> QED BY <2>1, <2>2, <2>3, RememberKeeps
  <2>5. Counts(k)
    <3> SUFFICES ASSUME NEW h \in Inos
                 PROVE  u[k].nlookup[h] = t.nlookup[h] + Among(batch, k, h)
      OBVIOUS
    <3>1. v.nlookup \in [Inos -> Nat] /\ t.nlookup[h] \in Nat
      BY <2>1 DEF Sound, Tables
    <3>2. v.nlookup[h] = t.nlookup[h] + Among(batch, k - 1, h)
      BY <2>1
    <3>3. Among(batch, k - 1, h) \in {0, 1}
      BY DEF Among
    <3>4. u[k].nlookup[h] = IF h = i THEN v.nlookup[h] + 1 ELSE v.nlookup[h]
      BY <2>4, <3>1
    <3>5. Among(batch, k, h) = IF i = h THEN 1 ELSE Among(batch, k - 1, h)
      BY AmongNext
    <3>6. i = h => Among(batch, k - 1, h) = 0
      BY AmongNext
    <3> HIDE DEF v, i, Counts
    <3> QED BY <3>1, <3>2, <3>3, <3>4, <3>5, <3>6
  <2>6. ASSUME Derives(t), All PROVE Derives(u[k])
    <3>1. Derives(v) /\ <<batch[k][1], i>> \in ByPath
      BY <2>1, <2>2, <2>6
    <3> HIDE DEF v, i
    <3> QED BY <2>1, <2>2, <2>3, <3>1, RememberDerives
  <2> HIDE DEF Counts, All
  <2> QED BY <2>4, <2>5, <2>6
<1>4. n \in S
  <2>1. n \in Nat
    OBVIOUS
  <2> HIDE DEF S, n
  <2>2. n \in 0 .. n
    BY <2>1
  <2> QED BY <1>2, <1>3, <2>1, <2>2, InductTo
<1> QED BY <1>1, <1>4

\* Forgotten again, it counts each of them once less.
LEMMA Forgetting ==
  ASSUME NEW t, Sound(t), NEW batch \in Seq(Pairs), Apart(batch),
         \A i \in Inos : Among(batch, Len(batch), i) <= t.nlookup[i]
  PROVE  LET r == ForgetAll(t, batch) IN
         /\ Sound(r)
         /\ \A i \in Inos : r.nlookup[i] = t.nlookup[i] - Among(batch, Len(batch), i)
         /\ Derives(t) => Derives(r)
<1> DEFINE n == Len(batch)
<1>1. PICK u : /\ u[0] = t /\ u[n] = ForgetAll(t, batch)
               /\ \A k \in 1 .. n : u[k] = Forget(u[k - 1], batch[k][2], 1)
  BY ForgetSteps
<1> DEFINE Counts(k) == \A i \in Inos : u[k].nlookup[i] = t.nlookup[i] - Among(batch, k, i)
           S == {k \in 0 .. n : Sound(u[k]) /\ Counts(k) /\ (Derives(t) => Derives(u[k]))}
<1>2. 0 \in S
  <2>1. \A i \in Inos : Among(batch, 0, i) = 0 /\ t.nlookup[i] \in Nat
    BY DEF Among, Sound, Tables
  <2> QED BY <1>1, <2>1
<1>3. ASSUME NEW k \in 1 .. n, k - 1 \in S PROVE k \in S
  <2> DEFINE v == u[k - 1]
             i == batch[k][2]
  <2>1. Sound(v) /\ Counts(k - 1) /\ (Derives(t) => Derives(v))
    BY <1>3
  <2>2. i \in Inos
    BY DEF Pairs
  <2>3. u[k] = Forget(v, i, 1)
    BY <1>1
  <2>4. 1 <= v.nlookup[i]
    <3>1. Among(batch, k - 1, i) = 0
      BY AmongNext
    <3>2. Among(batch, n, i) = 1
      BY DEF Among
    <3> QED BY <2>1, <2>2, <3>1, <3>2 DEF Sound, Tables
  <2>5. /\ Sound(u[k]) /\ u[k].nlookup = [v.nlookup EXCEPT ![i] = @ - 1]
        /\ Derives(v) => Derives(u[k])
    <3> HIDE DEF v, i
    <3>1. 1 \in Nat /\ 1 <= 1
      OBVIOUS
    <3> QED BY <2>1, <2>2, <2>3, <2>4, <3>1, ForgetKeeps
  <2>6. Counts(k)
    <3> SUFFICES ASSUME NEW h \in Inos
                 PROVE  u[k].nlookup[h] = t.nlookup[h] - Among(batch, k, h)
      OBVIOUS
    <3>1. v.nlookup \in [Inos -> Nat] /\ t.nlookup[h] \in Nat
      BY <2>1 DEF Sound, Tables
    <3>2. v.nlookup[h] = t.nlookup[h] - Among(batch, k - 1, h)
      BY <2>1
    <3>3. Among(batch, k - 1, h) \in {0, 1}
      BY DEF Among
    <3>4. u[k].nlookup[h] = IF h = i THEN v.nlookup[h] - 1 ELSE v.nlookup[h]
      BY <2>5, <3>1
    <3>5. Among(batch, k, h) = IF i = h THEN 1 ELSE Among(batch, k - 1, h)
      BY AmongNext
    <3>6. i = h => Among(batch, k - 1, h) = 0
      BY AmongNext
    <3> HIDE DEF v, i, Counts
    <3> QED BY <3>1, <3>2, <3>3, <3>4, <3>5, <3>6
  <2> HIDE DEF Counts
  <2> QED BY <2>1, <2>5, <2>6
<1>4. n \in S
  <2>1. n \in Nat
    OBVIOUS
  <2> HIDE DEF S, n
  <2>2. n \in 0 .. n
    BY <2>1
  <2> QED BY <1>2, <1>3, <2>1, <2>2, InductTo
<1> QED BY <1>1, <1>4

-----------------------------------------------------------------------------
\* A finite set as a sequence has all its elements.
LEMMA SetToSeqHasAll ==
  ASSUME NEW S, IsFiniteSet(S)
  PROVE  SetToSeq(S) \in Seq(S) /\ ToSet(SetToSeq(S)) = S
<1> DEFINE n == Cardinality(S)
           f == SetToSeq(S)
<1>1. n \in Nat /\ Bijection(1 .. n, S) # {}
  BY FS_CardinalityType DEF ExistsBijection
<1>2. \E g \in [1 .. n -> S] : IsInjective(g)
  BY <1>1 DEF Bijection, Injection
<1>3. f \in [1 .. n -> S] /\ IsInjective(f)
  BY <1>2 DEF SetToSeq
<1> HIDE DEF f, n
<1>4. f \in Injection(1 .. n, S)
  BY <1>3 DEF Injection
<1>5. IsFiniteSet(1 .. n) /\ Cardinality(1 .. n) = n
  BY <1>1, FS_Interval
<1>6. f \in Surjection(1 .. n, S)
  BY <1>4, <1>5, FS_Injection DEF n
<1>7. DOMAIN f = 1 .. n /\ f \in Seq(S)
  BY <1>1, <1>3
<1>8. ToSet(f) = S
  BY <1>3, <1>6, <1>7 DEF ToSet, Surjection
<1> QED BY <1>7, <1>8 DEF f

LEMMA CountInit == Init => CountInv
<1> SUFFICES ASSUME Init PROVE CountInv
  OBVIOUS
<1> USE DEF Init
<1>1. Sound(table)
  BY FS_EmptySet DEF Sound, EmptyTable, Tables, EntriesWhole, PathIndexSound, ChildrenHavePaths
<1>2. TypeOK
  BY <1>1 DEF TypeOK, Sound
<1>3. RequestsTyped
  BY DEF RequestsTyped, NoRequest
<1>4. TreeWhole
  <2>1. {n \in Names : tree[n] # None} = {}
    OBVIOUS
  <2> QED BY <2>1, FS_EmptySet DEF TreeWhole
<1>5. LookupCounts
  BY DEF LookupCounts, EmptyTable
<1>6. CachedIsHeld
  BY DEF CachedIsHeld
<1> QED BY <1>1, <1>2, <1>3, <1>4, <1>5, <1>6 DEF CountInv

LEMMA ChangeCounts ==
  ASSUME CountInv, NEW n \in Names, NEW i \in Inos \cup {None}, Change(n, i)
  PROVE  CountInv'
<1> USE DEF CountInv, Change, requestVars, kernelVars
<1>1. tree' \in [Names -> Inos \cup {None}]
  BY DEF TypeOK
<1>2. TreeWhole'
  <2> DEFINE S == {m \in Names : tree[m] # None}
             T == {m \in Names : tree'[m] # None}
  <2>1. T \subseteq S \cup {n}
    BY DEF TypeOK
  <2>2. IsFiniteSet(S \cup {n})
    BY FS_AddElement DEF TreeWhole
  <2>3. IsFiniteSet(T)
    <3> HIDE DEF S, T
    <3> QED BY <2>1, <2>2, FS_Subset
  <2>4. \A m, k \in Names : tree'[m] = tree'[k] /\ tree'[m] # None => m = k
    BY DEF TypeOK, TreeWhole
  <2> QED BY <2>3, <2>4 DEF TreeWhole
<1>3. TypeOK'
  BY <1>1 DEF TypeOK
<1> QED BY <1>2, <1>3 DEF RequestsTyped, Sound, LookupCounts, CachedIsHeld

\* Steps of a LOOKUP that count nothing.
LEMMA LookupCountsOn ==
  ASSUME CountInv, NEW l \in Lookups,
         (\E n \in Names : LookupAsked(l, n)) \/ LookupFound(l) \/ LookupFails(l) \/ LookupMissed(l)
  PROVE  CountInv'
<1> USE DEF CountInv, treeVars, kernelVars, NoRequest
<1> DEFINE Requests == {NoRequest} \cup [at : {"asked"}, name : Names]
                         \cup [at : {"found"}, name : Names, ino : Inos \cup {None}]
<1>1. lookup \in [Lookups -> Requests]
  BY DEF RequestsTyped
<1>2. CASE \E n \in Names : LookupAsked(l, n)
  <2>1. lookup' \in [Lookups -> Requests]
    BY <1>1, <1>2 DEF LookupAsked
  <2> QED BY <1>2, <2>1 DEF LookupAsked, TypeOK, RequestsTyped, TreeWhole, LookupCounts, CachedIsHeld
<1>3. CASE LookupFound(l)
  <2>1. lookup[l] \in [at : {"asked"}, name : Names]
    BY <1>1, <1>3 DEF LookupFound
  <2>2. lookup' \in [Lookups -> Requests]
    BY <1>1, <1>3, <2>1 DEF LookupFound, TypeOK
  <2> QED BY <1>3, <2>2 DEF LookupFound, TypeOK, RequestsTyped, TreeWhole, LookupCounts, CachedIsHeld
<1>4. CASE LookupFails(l)
  <2>1. lookup' \in [Lookups -> Requests]
    BY <1>1, <1>4 DEF LookupFails
  <2> QED BY <1>4, <2>1 DEF LookupFails, TypeOK, RequestsTyped, TreeWhole, LookupCounts, CachedIsHeld
<1>5. CASE LookupMissed(l)
  <2>1. lookup' \in [Lookups -> Requests]
    BY <1>1, <1>5 DEF LookupMissed
  <2>2. lookup[l].name \in Names
    BY <1>1, <1>5 DEF LookupMissed
  <2>3. TypeOK'
    BY <1>5, <2>2 DEF LookupMissed, TypeOK
  <2>4. CachedIsHeld'
    BY <1>5, <2>2, FuseAssumption DEF LookupMissed, TypeOK, CachedIsHeld, FuseAssumption
  <2> QED BY <1>5, <2>1, <2>3, <2>4 DEF LookupMissed, RequestsTyped, TreeWhole, LookupCounts
<1> QED BY <1>2, <1>3, <1>4, <1>5

LEMMA LookupRepliedCounts ==
  ASSUME CountInv, NEW l \in Lookups, LookupReplied(l)
  PROVE  CountInv'
<1> USE DEF CountInv, treeVars
<1>0. lookup[l] \in [at : {"found"}, name : Names, ino : Inos \cup {None}] /\ lookup[l].ino # None
  BY DEF LookupReplied, RequestsTyped, NoRequest
<1>1. PICK n \in Names, i \in Inos :
         /\ n = lookup[l].name /\ i = lookup[l].ino
         /\ table' = Remember(table, i, n) /\ refs' = [refs EXCEPT ![i] = @ + 1]
         /\ dentry' = [dentry EXCEPT ![n] = i] /\ since' = since \cup {n}
  BY <1>0 DEF LookupReplied
<1>2. UNCHANGED <<byPath, tree, list, forgets, notes>> /\ lookup' = [lookup EXCEPT ![l] = NoRequest]
  BY DEF LookupReplied
<1>3. Sound(table') /\ table'.nlookup = [table.nlookup EXCEPT ![i] = @ + 1]
  BY <1>1, RememberKeeps
<1>4. TypeOK'
  BY <1>1, <1>2, <1>3 DEF TypeOK, Sound
<1>5. RequestsTyped' /\ TreeWhole'
  BY <1>2 DEF RequestsTyped, TreeWhole
<1>6. LookupCounts'
  BY <1>1, <1>2, <1>3 DEF LookupCounts, TypeOK, Tables
<1>7. CachedIsHeld'
  BY <1>1, <1>2 DEF CachedIsHeld, TypeOK
<1> QED BY <1>3, <1>4, <1>5, <1>6, <1>7

\* The kernel's own steps, and a forget.
LEMMA KernelCounts ==
  ASSUME CountInv,
         \/ \E n \in Names : DentryDropped(n) \/ InvalidateEntry(n)
         \/ Notified \/ InvalidateDir \/ ListAsked
  PROVE  CountInv'
<1> USE DEF CountInv, treeVars, requestVars, kernelVars, NoRequest
<1>1. CASE \E n \in Names : DentryDropped(n)
  <2>1. PICK n \in Names : DentryDropped(n)
    BY <1>1
  <2>2. TypeOK' /\ CachedIsHeld'
    BY <2>1 DEF DentryDropped, TypeOK, CachedIsHeld
  <2> QED BY <2>1, <2>2 DEF DentryDropped, RequestsTyped, TreeWhole, LookupCounts
<1>2. CASE \E n \in Names : InvalidateEntry(n)
  <2>1. PICK n \in Names : InvalidateEntry(n)
    BY <1>2
  <2>2. TypeOK'
    BY <2>1 DEF InvalidateEntry, TypeOK
  <2> QED BY <2>1, <2>2 DEF InvalidateEntry, RequestsTyped, TreeWhole, LookupCounts, CachedIsHeld
<1>3. CASE Notified
  <2>1. Head(notes) \in Names /\ notes' \in Seq(Names)
    BY <1>3 DEF Notified, TypeOK
  <2>2. TypeOK' /\ CachedIsHeld'
    BY <1>3, <2>1 DEF Notified, TypeOK, CachedIsHeld
  <2> QED BY <1>3, <2>2 DEF Notified, RequestsTyped, TreeWhole, LookupCounts
<1>4. CASE InvalidateDir
  <2>1. SetToSeq(table.children) \in Seq(table.children) /\ table.children \subseteq Names
    BY SetToSeqHasAll DEF Sound, Tables
  <2>2. notes' \in Seq(Names)
    BY <1>4, <2>1 DEF InvalidateDir, TypeOK
  <2>3. TypeOK'
    BY <1>4, <2>2 DEF InvalidateDir, TypeOK
  <2> QED BY <1>4, <2>3 DEF InvalidateDir, RequestsTyped, TreeWhole, LookupCounts, CachedIsHeld
<1>5. CASE ListAsked
  BY <1>5 DEF ListAsked, TypeOK, RequestsTyped, TreeWhole, LookupCounts, CachedIsHeld
<1> QED BY <1>1, <1>2, <1>3, <1>4, <1>5

LEMMA ForgetCounts ==
  ASSUME CountInv, NEW i \in Inos,
         ForgetSent(i) \/ \E k \in 1 .. forgets[i] : ForgetHandled(i, k)
  PROVE  CountInv'
<1> USE DEF CountInv, treeVars, requestVars, kernelVars
<1>1. CASE ForgetSent(i)
  <2>1. TypeOK'
    BY <1>1 DEF ForgetSent, TypeOK
  <2>2. LookupCounts'
    BY <1>1 DEF ForgetSent, TypeOK, LookupCounts
  <2>3. CachedIsHeld'
    BY <1>1 DEF ForgetSent, TypeOK, CachedIsHeld
  <2> QED BY <1>1, <2>1, <2>2, <2>3 DEF ForgetSent, RequestsTyped, TreeWhole
<1>2. CASE \E k \in 1 .. forgets[i] : ForgetHandled(i, k)
  <2>1. PICK k \in 1 .. forgets[i] : ForgetHandled(i, k)
    BY <1>2
  <2>2. k \in Nat /\ 1 <= k /\ k <= table.nlookup[i]
    BY DEF TypeOK, LookupCounts
  <2>3. Sound(table') /\ table'.nlookup = [table.nlookup EXCEPT ![i] = @ - k]
    BY <2>1, <2>2, ForgetKeeps DEF ForgetHandled
  <2>4. TypeOK'
    BY <2>1, <2>3 DEF ForgetHandled, TypeOK, Sound
  <2>5. LookupCounts'
    BY <2>1, <2>3 DEF ForgetHandled, TypeOK, Tables, LookupCounts
  <2> QED BY <2>1, <2>3, <2>4, <2>5 DEF ForgetHandled, RequestsTyped, TreeWhole, CachedIsHeld
<1> QED BY <1>1, <1>2

-----------------------------------------------------------------------------
\* A batch of a directory's entries has each of them once.
LEMMA BatchesApart ==
  ASSUME CountInv, NEW batch \in Batches
  PROVE  /\ batch \in Seq(Pairs) /\ Apart(batch)
         /\ \A k \in DOMAIN batch : batch[k][2] = tree[batch[k][1]] /\ batch[k][1] \in Names
<1> USE DEF CountInv
<1> DEFINE M == {m \in Names : tree[m] # None}
           E == {<<n, tree[n]>> : n \in M}
<1>1. PICK S \in SUBSET E : batch \in SetToSeqs(S)
  BY DEF Batches
<1>2. IsFiniteSet(E)
  <2>1. IsFiniteSet(M)
    BY DEF TreeWhole
  <2> DEFINE f == [n \in M |-> <<n, tree[n]>>]
  <2>2. f \in Surjection(M, E)
    BY DEF Surjection
  <2> HIDE DEF M, E, f
  <2> QED BY <2>1, <2>2, FS_Surjection
<1>3. IsFiniteSet(S) /\ Cardinality(S) \in Nat
  BY <1>1, <1>2, FS_Subset, FS_CardinalityType
<1>4. /\ batch \in [1 .. Cardinality(S) -> S]
      /\ \A j, k \in 1 .. Cardinality(S) : j # k => batch[j] # batch[k]
  BY <1>1 DEF SetToSeqs
<1>5. \A e \in S : e \in Pairs /\ e[2] = tree[e[1]] /\ e[1] \in Names
  BY DEF Pairs, TypeOK
<1>6. batch \in Seq(Pairs) /\ DOMAIN batch = 1 .. Cardinality(S)
  BY <1>3, <1>4, <1>5
<1>7. \A j, k \in DOMAIN batch : j # k => batch[j] # batch[k]
  BY <1>4, <1>6
<1>8. \A k \in DOMAIN batch : batch[k] \in S
  BY <1>4, <1>6
<1>9. Apart(batch)
  <2> SUFFICES ASSUME NEW j \in DOMAIN batch, NEW k \in DOMAIN batch, j # k
               PROVE  batch[j][1] # batch[k][1] /\ batch[j][2] # batch[k][2]
    BY DEF Apart
  <2>1. PICK m \in M, n \in M : batch[j] = <<m, tree[m]>> /\ batch[k] = <<n, tree[n]>>
    BY <1>8
  <2>2. m # n
    BY <1>7, <2>1
  <2> QED BY <2>1, <2>2 DEF TreeWhole
<1> QED BY <1>5, <1>6, <1>8, <1>9

\* What the kernel's buffer keeps of a batch is remembered once more, the rest as
\* often as before.
LEMMA Keeping ==
  ASSUME NEW t, Sound(t), NEW batch \in Seq(Pairs), Apart(batch), NEW kept \in 0 .. Len(batch)
  PROVE  LET u == ForgetAll(RememberAll(t, batch), SubSeq(batch, kept + 1, Len(batch))) IN
         /\ Sound(u)
         /\ \A i \in Inos : u.nlookup[i] = t.nlookup[i] + Among(batch, kept, i)
         /\ Derives(t) /\ (\A k \in DOMAIN batch : batch[k] \in ByPath) => Derives(u)
<1> DEFINE n == Len(batch)
           surplus == SubSeq(batch, kept + 1, n)
           r == RememberAll(t, batch)
<1>1. n \in Nat /\ kept \in Nat /\ kept <= n /\ DOMAIN batch = 1 .. n
  OBVIOUS
<1>2. /\ surplus \in Seq(Pairs) /\ Len(surplus) = n - kept /\ DOMAIN surplus = 1 .. n - kept
      /\ \A j \in 1 .. n - kept : surplus[j] = batch[kept + j]
  <2>1. \A j \in kept + 1 .. n : batch[j] \in Pairs
    BY <1>1
  <2> HIDE DEF n
  <2>2. kept + 1 \in Int /\ n \in Int /\ n - (kept + 1) + 1 = n - kept
        /\ (IF kept + 1 <= n THEN n - (kept + 1) + 1 ELSE 0) = n - kept
    <3>1. n \in Nat /\ kept \in Nat /\ kept <= n
      BY <1>1
    <3> HIDE DEF n
    <3> QED BY <3>1
  <2>3. \A j \in 1 .. n - kept : (kept + 1) + j - 1 = kept + j
    BY <1>1
  <2>4. /\ surplus \in Seq(Pairs) /\ Len(surplus) = n - kept
        /\ \A j \in 1 .. n - kept : surplus[j] = batch[(kept + 1) + j - 1]
    BY <2>1, <2>2, SubSeqProperties
  <2> QED BY <2>3, <2>4
<1>3. Apart(surplus)
  <2> SUFFICES ASSUME NEW j \in 1 .. n - kept, NEW k \in 1 .. n - kept, j # k
               PROVE  surplus[j][1] # surplus[k][1] /\ surplus[j][2] # surplus[k][2]
    BY <1>2 DEF Apart
  <2>1. kept + j \in DOMAIN batch /\ kept + k \in DOMAIN batch /\ kept + j # kept + k
    BY <1>1
  <2>2. batch[kept + j][1] # batch[kept + k][1] /\ batch[kept + j][2] # batch[kept + k][2]
    BY <2>1 DEF Apart
  <2> HIDE DEF surplus
  <2> QED BY <1>2, <2>2
<1>4. /\ Sound(r)
      /\ \A i \in Inos : r.nlookup[i] = t.nlookup[i] + Among(batch, n, i)
      /\ Derives(t) /\ (\A k \in DOMAIN batch : batch[k] \in ByPath) => Derives(r)
  BY Remembering
<1> HIDE DEF surplus, r
<1>5. ASSUME NEW i \in Inos
      PROVE  Among(batch, n, i) = Among(batch, kept, i) + Among(surplus, n - kept, i)
  <2>1. (\E j \in 1 .. n - kept : surplus[j][2] = i) <=> \E j \in kept + 1 .. n : batch[j][2] = i
    <3>1. ASSUME NEW j \in kept + 1 .. n, batch[j][2] = i
          PROVE  \E k \in 1 .. n - kept : surplus[k][2] = i
      <4>1. j - kept \in 1 .. n - kept /\ kept + (j - kept) = j
        BY <1>1
      <4>2. surplus[j - kept] = batch[j]
        BY <4>1, <1>2
      <4> QED BY <3>1, <4>1, <4>2
    <3>2. ASSUME NEW j \in 1 .. n - kept, surplus[j][2] = i
          PROVE  \E k \in kept + 1 .. n : batch[k][2] = i
      <4>1. kept + j \in kept + 1 .. n
        BY <1>1
      <4> QED BY <1>2, <3>2, <4>1
    <3> QED BY <3>1, <3>2
  <2>2. \A j \in 1 .. kept : \A k \in kept + 1 .. n : batch[j][2] # batch[k][2]
    <3>1. \A j \in 1 .. kept : \A k \in kept + 1 .. n :
            j # k /\ j \in DOMAIN batch /\ k \in DOMAIN batch
      BY <1>1
    <3> QED BY <3>1 DEF Apart
  <2>3. 1 .. n = (1 .. kept) \cup (kept + 1 .. n)
    BY <1>1
  <2>4. (\E j \in 1 .. n : batch[j][2] = i)
          <=> (\E j \in 1 .. kept : batch[j][2] = i) \/ \E j \in kept + 1 .. n : batch[j][2] = i
    BY <2>3
  <2>5. ~((\E j \in 1 .. kept : batch[j][2] = i) /\ \E j \in kept + 1 .. n : batch[j][2] = i)
    BY <2>2
  <2> QED BY <2>1, <2>4, <2>5 DEF Among
<1>6. \A i \in Inos : Among(surplus, n - kept, i) \in {0, 1} /\ Among(batch, kept, i) \in {0, 1}
                      /\ t.nlookup[i] \in Nat
  BY DEF Among, Sound, Tables
<1>7. \A i \in Inos : Among(surplus, Len(surplus), i) <= r.nlookup[i]
  <2> SUFFICES ASSUME NEW i \in Inos PROVE Among(surplus, n - kept, i) <= r.nlookup[i]
    BY <1>2
  <2> HIDE DEF n
  <2>1. r.nlookup[i] = t.nlookup[i] + (Among(batch, kept, i) + Among(surplus, n - kept, i))
    BY <1>4, <1>5
  <2> QED BY <2>1, <1>6
<1> DEFINE u == ForgetAll(r, surplus)
<1>8. /\ Sound(u)
      /\ \A i \in Inos : u.nlookup[i] = r.nlookup[i] - Among(surplus, Len(surplus), i)
      /\ Derives(r) => Derives(u)
  BY <1>2, <1>3, <1>4, <1>7, Forgetting
<1>9. u = ForgetAll(RememberAll(t, batch), SubSeq(batch, kept + 1, Len(batch)))
  BY DEF surplus, r
<1>10. \A i \in Inos : u.nlookup[i] = t.nlookup[i] + Among(batch, kept, i)
  <2> HIDE DEF u, n
  <2> QED BY <1>2, <1>4, <1>5, <1>6, <1>8
<1> HIDE DEF u
<1> QED BY <1>4, <1>8, <1>9, <1>10

LEMMA ListCounts ==
  ASSUME CountInv, ListFound \/ ListReplied
  PROVE  CountInv'
<1> USE DEF CountInv, treeVars, kernelVars, NoRequest
<1>1. CASE ListFound
  <2>1. PICK batch \in Batches : list' = [at |-> "found", batch |-> batch]
    BY <1>1 DEF ListFound
  <2>2. list'.at = "found" /\ list'.batch \in Seq(Pairs) /\ Apart(list'.batch)
    BY <2>1, BatchesApart
  <2> QED BY <1>1, <2>2 DEF ListFound, TypeOK, RequestsTyped, TreeWhole, LookupCounts, CachedIsHeld
<1>2. CASE ListReplied
  <2> DEFINE batch == list.batch
             Cached(kept) == {batch[k] : k \in 1 .. kept}
  <2>1. batch \in Seq(Pairs) /\ Apart(batch)
    BY <1>2 DEF ListReplied, RequestsTyped
  <2>2. PICK kept \in 0 .. Len(batch) :
          /\ table' = ForgetAll(RememberAll(table, batch), SubSeq(batch, kept + 1, Len(batch)))
          /\ refs' = [i \in Inos |-> IF \E e \in Cached(kept) : e[2] = i THEN refs[i] + 1 ELSE refs[i]]
          /\ dentry' = [n \in Names |-> IF \E e \in Cached(kept) : e[1] = n
                                        THEN (CHOOSE e \in Cached(kept) : e[1] = n)[2]
                                        ELSE dentry[n]]
          /\ since' = since \cup {e[1] : e \in Cached(kept)}
    BY <1>2 DEF ListReplied
  <2> DEFINE cached == Cached(kept)
  <2>3. UNCHANGED <<byPath, tree, lookup, forgets, notes>> /\ list' = NoRequest
    BY <1>2 DEF ListReplied
  <2>4. Sound(table') /\ \A i \in Inos : table'.nlookup[i] = table.nlookup[i] + Among(batch, kept, i)
    <3> HIDE DEF batch
    <3> QED BY <2>1, <2>2, Keeping
  <2>5. \A e \in cached : e[1] \in Names /\ e[2] \in Inos
    BY <2>1 DEF Pairs
  <2>6. \A i \in Inos : refs'[i] = refs[i] + Among(batch, kept, i)
    <3>1. \A i : (\E e \in cached : e[2] = i) <=> (\E k \in 1 .. kept : batch[k][2] = i)
      OBVIOUS
    <3> QED BY <2>2, <3>1 DEF Among, TypeOK
  <2> HIDE DEF Cached, batch
  <2>7. ASSUME NEW n \in Names
        PROVE  \/ dentry'[n] = dentry[n]
               \/ \E e \in cached : dentry'[n] = e[2] /\ e[1] = n
    BY <2>2
  <2>8. TypeOK'
    <3>1. refs' \in [Inos -> Nat]
      BY <2>2 DEF TypeOK
    <3>2. dentry' \in [Names -> Inos \cup {None, Negative}]
      <4>1. \A n \in Names : dentry'[n] \in Inos \cup {None, Negative}
        BY <2>5, <2>7 DEF TypeOK
      <4>2. dentry' = [n \in Names |-> dentry'[n]]
        BY <2>2
      <4> QED BY <4>1, <4>2
    <3>3. since' \subseteq Names
      BY <2>2, <2>5 DEF TypeOK
    <3> QED BY <2>3, <2>4, <3>1, <3>2, <3>3 DEF TypeOK, Sound
  <2>9. CachedIsHeld'
    <3> SUFFICES ASSUME NEW n \in Names, dentry'[n] \in Inos PROVE refs'[dentry'[n]] > 0
      BY DEF CachedIsHeld
    <3>1. CASE dentry'[n] = dentry[n]
      BY <2>6, <3>1 DEF CachedIsHeld, TypeOK, Among
    <3>2. CASE \E e \in cached : dentry'[n] = e[2] /\ e[1] = n
      <4>1. PICK e \in cached : dentry'[n] = e[2]
        BY <3>2
      <4>2. refs'[e[2]] = refs[e[2]] + 1
        BY <2>2, <2>5, <4>1
      <4> QED BY <2>5, <4>1, <4>2 DEF TypeOK
    <3> QED BY <2>7, <3>1, <3>2
  <2>10. LookupCounts'
    <3>1. \A i \in Inos : Among(batch, kept, i) \in {0, 1} /\ refs[i] \in Nat /\ forgets[i] \in Nat
      BY DEF Among, TypeOK
    <3> QED BY <2>3, <2>4, <2>6, <3>1 DEF LookupCounts
  <2> QED BY <2>3, <2>4, <2>8, <2>9, <2>10 DEF RequestsTyped, TreeWhole
<1> QED BY <1>1, <1>2

LEMMA CountStep == CountInv /\ [Next]_vars => CountInv'
<1> SUFFICES ASSUME CountInv, [Next]_vars PROVE CountInv'
  OBVIOUS
<1>1. CASE \E n \in Names, i \in Inos \cup {None} : Change(n, i)
  BY <1>1, ChangeCounts
<1>2. ASSUME NEW l \in Lookups,
             \/ \E n \in Names : LookupAsked(l, n)
             \/ LookupFound(l) \/ LookupFails(l) \/ LookupMissed(l)
      PROVE  CountInv'
  BY <1>2, LookupCountsOn
<1>3. ASSUME NEW l \in Lookups, LookupReplied(l) PROVE CountInv'
  BY <1>3, LookupRepliedCounts
<1>4. CASE ListFound \/ ListReplied
  BY <1>4, ListCounts
<1>5. CASE \/ \E n \in Names : DentryDropped(n) \/ InvalidateEntry(n)
           \/ Notified \/ InvalidateDir \/ ListAsked
  BY <1>5, KernelCounts
<1>6. ASSUME NEW i \in Inos, ForgetSent(i) \/ \E k \in 1 .. forgets[i] : ForgetHandled(i, k)
      PROVE  CountInv'
  BY <1>6, ForgetCounts
<1>7. CASE UNCHANGED vars
  BY <1>7 DEF vars, treeVars, requestVars, kernelVars, CountInv, TypeOK, RequestsTyped, TreeWhole,
              LookupCounts, CachedIsHeld
<1> QED BY <1>1, <1>2, <1>3, <1>4, <1>5, <1>6, <1>7 DEF Next

LEMMA CountInvariant == Spec => []CountInv
<1>1. Init => CountInv
  BY CountInit
<1>2. CountInv /\ [Next]_vars => CountInv'
  BY CountStep
<1> QED BY <1>1, <1>2, PTL DEF Spec

-----------------------------------------------------------------------------
LEMMA NameInit == Init => NameInv
<1> SUFFICES ASSUME Init PROVE NameInv
  OBVIOUS
<1>1. CountInv
  BY CountInit
<1>2. Derives(table)
  BY DEF Init, EmptyTable, Derives, Known
<1>3. PathsFollow /\ Announced
  BY <1>2 DEF Init, NoRequest, PathsFollow, Announced
<1> QED BY <1>1, <1>3 DEF NameInv

\* ToSet of the notifier's channel as it grows and shrinks.
LEMMA ToSetGrows ==
  ASSUME NEW s \in Seq(Names), NEW r \in Seq(Names)
  PROVE  ToSet(s \o r) = ToSet(s) \cup ToSet(r)
<1>1. DOMAIN s = 1 .. Len(s) /\ DOMAIN r = 1 .. Len(r) /\ DOMAIN (s \o r) = 1 .. Len(s) + Len(r)
  OBVIOUS
<1>2. \A k \in 1 .. Len(s) : (s \o r)[k] = s[k]
  OBVIOUS
<1>3. \A k \in 1 .. Len(r) : (s \o r)[Len(s) + k] = r[k]
  OBVIOUS
<1>4. \A k \in DOMAIN (s \o r) : k \in DOMAIN s \/ (k - Len(s) \in DOMAIN r /\ k = Len(s) + (k - Len(s)))
  BY <1>1
<1>5. \A k \in DOMAIN s : k \in DOMAIN (s \o r)
  BY <1>1
<1>6. \A k \in DOMAIN r : Len(s) + k \in DOMAIN (s \o r)
  BY <1>1
<1> DEFINE q == s \o r
<1>7. ASSUME NEW x, x \in ToSet(q) PROVE x \in ToSet(s) \cup ToSet(r)
  <2>1. PICK k \in DOMAIN q : q[k] = x
    BY <1>7 DEF ToSet
  <2> QED BY <1>1, <1>2, <1>3, <1>4, <2>1 DEF ToSet
<1>8. ASSUME NEW x, x \in ToSet(s) \cup ToSet(r) PROVE x \in ToSet(q)
  <2> HIDE DEF q
  <2> QED BY <1>1, <1>2, <1>3, <1>5, <1>6, <1>8 DEF ToSet, q
<1> QED BY <1>7, <1>8

LEMMA ToSetShrinks ==
  ASSUME NEW s \in Seq(Names), s # <<>>
  PROVE  ToSet(s) \subseteq ToSet(Tail(s)) \cup {Head(s)}
<1> SUFFICES ASSUME NEW k \in DOMAIN s, k # 1 PROVE s[k] \in ToSet(Tail(s))
  BY DEF ToSet
<1>1. Len(Tail(s)) = Len(s) - 1 /\ \A i \in 1 .. Len(Tail(s)) : Tail(s)[i] = s[i + 1]
  BY HeadTailProperties
<1>2. k \in 2 .. Len(s) /\ k - 1 \in 1 .. Len(s) - 1 /\ (k - 1) + 1 = k
  OBVIOUS
<1>3. k - 1 \in DOMAIN Tail(s) /\ Tail(s)[k - 1] = s[k]
  BY <1>1, <1>2
<1> QED BY <1>3 DEF ToSet

\* The steps that leave the table, the dentries and the channel alone.
LEMMA RequestNames ==
  ASSUME NameInv,
         \/ \E n \in Names, i \in Inos \cup {None} : Change(n, i)
         \/ \E l \in Lookups : (\E n \in Names : LookupAsked(l, n)) \/ LookupFound(l) \/ LookupFails(l)
         \/ ListAsked \/ ListFound
  PROVE  PathsFollow' /\ Announced'
<1> USE DEF NameInv, CountInv, treeVars, requestVars, kernelVars, NoRequest
<1>1. CASE \E n \in Names, i \in Inos \cup {None} : Change(n, i)
  <2>1. PICK n \in Names, i \in Inos \cup {None} : Change(n, i)
    BY <1>1
  <2>2. /\ UNCHANGED <<byPath, table, requestVars, notes, kernelVars>>
        /\ tree' = [tree EXCEPT ![n] = i] /\ (byPath /\ i # None => <<n, i>> \in ByPath)
    BY <2>1 DEF Change
  <2>3. byPath => \A m \in Names : tree'[m] # None => <<m, tree'[m]>> \in ByPath
    BY <2>2 DEF PathsFollow, TypeOK
  <2> QED BY <2>2, <2>3 DEF PathsFollow, Announced
<1>2. ASSUME NEW l \in Lookups, NEW n \in Names, LookupAsked(l, n) PROVE PathsFollow' /\ Announced'
  BY <1>2 DEF LookupAsked, PathsFollow, Announced, RequestsTyped
<1>3. ASSUME NEW l \in Lookups, LookupFound(l) PROVE PathsFollow' /\ Announced'
  <2>1. lookup[l] \in [at : {"asked"}, name : Names]
    BY <1>3 DEF LookupFound, RequestsTyped
  <2>2. \A m \in Lookups : lookup'[m] = IF m = l THEN [at |-> "found", name |-> lookup[l].name,
                                                     ino |-> tree[lookup[l].name]]
                                       ELSE lookup[m]
    BY <1>3 DEF LookupFound, RequestsTyped
  <2>3. UNCHANGED <<treeVars, table, list, forgets, notes, kernelVars>>
    BY <1>3 DEF LookupFound
  <2> QED BY <2>1, <2>2, <2>3 DEF PathsFollow, Announced
<1>4. ASSUME NEW l \in Lookups, LookupFails(l) PROVE PathsFollow' /\ Announced'
  BY <1>4 DEF LookupFails, PathsFollow, Announced, RequestsTyped
<1>5. CASE ListAsked
  BY <1>5 DEF ListAsked, PathsFollow, Announced
<1>6. CASE ListFound
  <2>1. PICK batch \in Batches : list' = [at |-> "found", batch |-> batch]
    BY <1>6 DEF ListFound
  <2>2. /\ \A k \in DOMAIN batch : batch[k][2] = tree[batch[k][1]] /\ batch[k][1] \in Names
        /\ \A k \in DOMAIN batch : batch[k] = <<batch[k][1], batch[k][2]>> /\ batch[k][2] \in Inos
    BY BatchesApart DEF Pairs
  <2>3. byPath => \A k \in DOMAIN batch : batch[k] \in ByPath
    BY <2>2 DEF PathsFollow
  <2> QED BY <1>6, <2>1, <2>3 DEF ListFound, PathsFollow, Announced
<1> QED BY <1>1, <1>2, <1>3, <1>4, <1>5, <1>6

\* The steps that hand a name to the kernel.
LEMMA ReplyNames ==
  ASSUME NameInv, (\E l \in Lookups : LookupReplied(l) \/ LookupMissed(l)) \/ ListReplied
  PROVE  PathsFollow' /\ Announced'
<1> USE DEF NameInv, CountInv, treeVars, NoRequest
<1>1. ASSUME NEW l \in Lookups, LookupReplied(l) PROVE PathsFollow' /\ Announced'
  <2>0. lookup[l] \in [at : {"found"}, name : Names, ino : Inos \cup {None}] /\ lookup[l].ino # None
    BY <1>1 DEF LookupReplied, RequestsTyped
  <2>1. PICK n \in Names, i \in Inos :
           /\ n = lookup[l].name /\ i = lookup[l].ino
           /\ table' = Remember(table, i, n)
           /\ dentry' = [dentry EXCEPT ![n] = i] /\ since' = since \cup {n}
    BY <1>1, <2>0 DEF LookupReplied
  <2>2. UNCHANGED <<byPath, tree, list, notes>> /\ lookup' = [lookup EXCEPT ![l] = NoRequest]
    BY <1>1 DEF LookupReplied
  <2>3. byPath => <<n, i>> \in ByPath
    BY <2>0, <2>1 DEF PathsFollow
  <2>4. byPath => Derives(table')
    BY <2>1, <2>3, RememberDerives DEF PathsFollow
  <2>5. PathsFollow'
    BY <2>1, <2>2, <2>3, <2>4 DEF PathsFollow, TypeOK, RequestsTyped
  <2> QED BY <2>1, <2>2, <2>5 DEF Announced, TypeOK
<1>2. ASSUME NEW l \in Lookups, LookupMissed(l) PROVE PathsFollow' /\ Announced'
  <2>1. PICK n : n = lookup[l].name /\ dentry' = [dentry EXCEPT ![n] = Negative]
                 /\ since' = since \cup {n}
    BY <1>2 DEF LookupMissed
  <2>2. UNCHANGED <<byPath, tree, table, list, notes>> /\ lookup' = [lookup EXCEPT ![l] = NoRequest]
    BY <1>2 DEF LookupMissed
  <2>3. \A m \in Names : dentry'[m] \in Inos => dentry'[m] = dentry[m]
    BY <2>1, FuseAssumption DEF TypeOK, FuseAssumption
  <2> QED BY <2>1, <2>2, <2>3 DEF PathsFollow, Announced, RequestsTyped
<1>3. CASE ListReplied
  <2> DEFINE batch == list.batch
             Cached(kept) == {batch[k] : k \in 1 .. kept}
  <2>1. batch \in Seq(Pairs) /\ Apart(batch) /\ list.at = "found"
    BY <1>3 DEF ListReplied, RequestsTyped
  <2>2. PICK kept \in 0 .. Len(batch) :
          /\ table' = ForgetAll(RememberAll(table, batch), SubSeq(batch, kept + 1, Len(batch)))
          /\ dentry' = [n \in Names |-> IF \E e \in Cached(kept) : e[1] = n
                                        THEN (CHOOSE e \in Cached(kept) : e[1] = n)[2]
                                        ELSE dentry[n]]
          /\ since' = since \cup {e[1] : e \in Cached(kept)}
    BY <1>3 DEF ListReplied
  <2> DEFINE cached == Cached(kept)
  <2>3. UNCHANGED <<byPath, tree, lookup, notes>> /\ list' = NoRequest
    BY <1>3 DEF ListReplied
  <2>4. byPath => \A k \in DOMAIN batch : batch[k] \in ByPath
    BY <2>1 DEF PathsFollow
  <2>5. byPath => Derives(table')
    <3>1. byPath => Derives(table)
      BY DEF PathsFollow
    <3> HIDE DEF batch
    <3> QED BY <2>1, <2>2, <2>4, <3>1, Keeping
  <2>6. \A e \in cached : e \in Pairs /\ (byPath => e \in ByPath) /\ e = <<e[1], e[2]>>
    BY <2>1, <2>4 DEF Pairs
  <2> HIDE DEF Cached, batch
  <2>7. ASSUME NEW n \in Names
        PROVE  \/ dentry'[n] = dentry[n]
               \/ \E e \in cached : dentry'[n] = e[2] /\ e[1] = n
    BY <2>2
  <2>8. byPath => \A n \in Names : dentry'[n] \in Inos => <<n, dentry'[n]>> \in ByPath
    BY <2>6, <2>7 DEF PathsFollow
  <2>9. PathsFollow'
    BY <2>3, <2>5, <2>8 DEF PathsFollow
  <2>10. Announced'
    BY <2>2, <2>3, <2>7 DEF Announced
  <2> QED BY <2>9, <2>10
<1> QED BY <1>1, <1>2, <1>3

\* The steps that take a name back, and those that announce that it must be.
LEMMA KernelNames ==
  ASSUME NameInv,
         \/ \E n \in Names : DentryDropped(n) \/ InvalidateEntry(n)
         \/ \E i \in Inos : ForgetSent(i) \/ \E k \in 1 .. forgets[i] : ForgetHandled(i, k)
         \/ InvalidateDir \/ Notified
  PROVE  PathsFollow' /\ Announced'
<1> USE DEF NameInv, CountInv, treeVars, requestVars, kernelVars
<1>1. ASSUME NEW n \in Names, DentryDropped(n) PROVE PathsFollow' /\ Announced'
  <2>1. \A m \in Names : dentry'[m] \in Inos => dentry'[m] = dentry[m] /\ m # n
    BY <1>1, NoneAssumption DEF DentryDropped, TypeOK, NoneAssumption
  <2> QED BY <1>1, <2>1 DEF DentryDropped, PathsFollow, Announced
<1>2. ASSUME NEW n \in Names, InvalidateEntry(n) PROVE PathsFollow' /\ Announced'
  <2>1. notes' = notes \o <<n>> /\ <<n>> \in Seq(Names) /\ notes \in Seq(Names)
    <3>1. notes' = Append(notes, n) /\ notes \in Seq(Names)
      BY <1>2 DEF InvalidateEntry, TypeOK
    <3> QED BY <3>1, AppendIsConcat
  <2>2. ToSet(notes) \subseteq ToSet(notes')
    BY <2>1, ToSetGrows
  <2> QED BY <1>2, <2>2 DEF InvalidateEntry, PathsFollow, Announced
<1>3. ASSUME NEW i \in Inos, ForgetSent(i) PROVE PathsFollow' /\ Announced'
  BY <1>3 DEF ForgetSent, PathsFollow, Announced
<1>4. ASSUME NEW i \in Inos, NEW k \in 1 .. forgets[i], ForgetHandled(i, k)
      PROVE  PathsFollow' /\ Announced'
  <2>1. k \in Nat /\ 1 <= k /\ k <= table.nlookup[i]
    BY DEF TypeOK, LookupCounts
  <2>2. byPath => Derives(table')
    BY <1>4, <2>1, ForgetKeeps DEF ForgetHandled, PathsFollow
  <2> QED BY <1>4, <2>2 DEF ForgetHandled, PathsFollow, Announced
<1>5. CASE InvalidateDir
  <2>1. /\ SetToSeq(table.children) \in Seq(Names) /\ notes \in Seq(Names)
        /\ ToSet(SetToSeq(table.children)) = table.children
    BY SetToSeqHasAll DEF Sound, Tables, TypeOK
  <2>2. table.children \subseteq ToSet(notes')
    BY <1>5, <2>1, ToSetGrows DEF InvalidateDir
  <2>3. ASSUME byPath, NEW n \in Names, dentry[n] \in Inos PROVE n \in table.children
    <3>1. Known(table, dentry[n])
      BY <2>3 DEF CachedIsHeld, LookupCounts, TypeOK, Known
    <3>2. /\ <<n, dentry[n]>> \in ByPath /\ <<table.path[dentry[n]], dentry[n]>> \in ByPath
          /\ table.path[dentry[n]] \in table.children
      BY <2>3, <3>1 DEF PathsFollow, Derives
    <3>3. table.path[dentry[n]] = n
      BY <3>2, FuseAssumption DEF FuseAssumption
    <3> QED BY <3>2, <3>3
  <2> QED BY <1>5, <2>2, <2>3 DEF InvalidateDir, PathsFollow, Announced
<1>6. CASE Notified
  <2>1. notes \in Seq(Names) /\ notes # <<>>
    BY <1>6 DEF Notified, TypeOK
  <2>2. ToSet(notes) \subseteq ToSet(notes') \cup {Head(notes)}
    BY <1>6, <2>1, ToSetShrinks DEF Notified
  <2>3. \A m \in Names : dentry'[m] \in Inos => dentry'[m] = dentry[m] /\ m # Head(notes)
    BY <1>6, NoneAssumption DEF Notified, TypeOK, NoneAssumption
  <2> QED BY <1>6, <2>2, <2>3 DEF Notified, PathsFollow, Announced
<1> QED BY <1>1, <1>2, <1>3, <1>4, <1>5, <1>6

LEMMA NameStep == NameInv /\ [Next]_vars => NameInv'
<1> SUFFICES ASSUME NameInv, [Next]_vars PROVE NameInv'
  OBVIOUS
<1>1. CountInv'
  BY CountStep DEF NameInv
<1>2. PathsFollow' /\ Announced'
  <2>1. CASE UNCHANGED vars
    BY <2>1 DEF vars, treeVars, requestVars, kernelVars, NameInv, PathsFollow, Announced
  <2>2. CASE Next
    BY <2>2, RequestNames, ReplyNames, KernelNames DEF Next
  <2> QED BY <2>1, <2>2
<1> QED BY <1>1, <1>2 DEF NameInv

LEMMA NameInvariant == Spec => []NameInv
<1>1. Init => NameInv
  BY NameInit
<1>2. NameInv /\ [Next]_vars => NameInv'
  BY NameStep
<1> QED BY <1>1, <1>2, PTL DEF Spec

-----------------------------------------------------------------------------
\* Every value the session and the kernel keep has its type, the batch of a
\* READDIRPLUS included, and an entry of byIno has both a path and a count.
THEOREM TypeCorrect == Spec => []TypeOK
<1>1. CountInv => TypeOK
  BY DEF CountInv
<1> QED BY <1>1, CountInvariant, PTL

\* nlookup of every inode is what the kernel holds or has given back on the way
\* (remember and forget of inodes.ts, handleLookup, handleReaddirplus and handleForget
\* of mount.ts), for every number of names, inodes, LOOKUPs and references, and for
\* every cut of every batch.
THEOREM LookupsCounted == Spec => []LookupCounts
<1>1. CountInv => LookupCounts
  BY DEF CountInv
<1> QED BY <1>1, CountInvariant, PTL

\* byPath leads only to inodes that are known by that path, and every name of
\* knownChildren has an inode in it (index, unindex of inodes.ts), whatever
\* renames the exported tree goes through between two replies.
THEOREM IndexesSound == Spec => []IndexSound
<1>1. CountInv => IndexSound
  BY DEF CountInv, Sound, IndexSound
<1> QED BY <1>1, CountInvariant, PTL

\* invalidateDir of mount.ts announces every name the kernel has found: when the
\* notifier of lib.rs has caught up, only names found since are cached, provided
\* the exported tree derives inodes from paths.
THEOREM InvalidationReaches == Spec => []PositiveNamesForgotten
<1>1. NameInv => PositiveNamesForgotten
  <2>1. ToSet(<<>>) = {}
    BY DEF ToSet
  <2> QED BY <2>1 DEF NameInv, Announced, PositiveNamesForgotten
<1> QED BY <1>1, NameInvariant, PTL
=============================================================================
