--------------------------- MODULE CompoundProofs ---------------------------
(***************************************************************************)
(* Proofs about Compound: types, the release of the buffers READs are      *)
(* given, the truth of their eof, the places of payloads in a reply, and   *)
(* that it implements CompoundReply.                                       *)
(*                                                                         *)
(* Every action adds to the reply through Succeeds, Fails or Splice, so    *)
(* each of them has a lemma, and an action's proof says which it takes.    *)
(* Segments and truncate go through the payloads by a fold; FoldExists     *)
(* says that such a fold is what its equation says, and the invariants of  *)
(* its steps go along the payloads by InductTo.                            *)
(*                                                                         *)
(* For the refinement, Adds and Begins say what an action does to the      *)
(* items that are sent, Results is taken apart along the items, and        *)
(* ReplyInv says that the items are a whole number of results between two  *)
(* operations, and one more, just begun, while an operation waits.         *)
(***************************************************************************)
EXTENDS Compound, FiniteSetTheorems, SequenceTheorems, WellFoundedInduction, TLAPS

\* A reply under construction: each of its items has a type; a payload that was
\* copied stands behind its length or another part of it, one that was not belongs
\* behind its length; and the payloads are in the order of their places.
InPlace(items) ==
  \A k \in DOMAIN items :
    items[k].t = "data" => k > 1 /\ items[k - 1].t \in {"length", "data"}
WriterOK(w) ==
  /\ w = [own |-> w.own, ext |-> w.ext]
  /\ w.own \in Seq(ToSet(w.own)) /\ \A x \in ToSet(w.own) : x = Item(x.t, x.v)
  /\ w.ext \in Seq([at : Nat, p : [b : Buffers, n : Nat]])
  /\ InPlace(w.own)
  /\ \A j \in DOMAIN w.ext : w.ext[j].at \in 1 .. Length(w) /\ w.own[w.ext[j].at].t = "length"
  /\ \A j, k \in DOMAIN w.ext : j <= k => w.ext[j].at <= w.ext[k].at

CallOK ==
  /\ at \in {"call", "ops", "await", "replied", "sent", "unanswered"}
  /\ todo \in Nat /\ produced \in Nat /\ (at \in {"ops", "await"} => todo > 0)
  /\ at \in {"call", "ops", "await"} => kind = "none"

\* Each buffer is beside the reply at most once, and none was released before it
\* was filled.
Once(ext) == \A j, k \in DOMAIN ext : ext[j].p.b = ext[k].p.b => j = k
BuffersOK ==
  /\ taken \in Buffers \cup {0} /\ released \in [Buffers -> Nat]
  /\ Once(out.ext) /\ Spliced(out) \subseteq 1 .. taken
  /\ \A b \in Buffers : b > taken => released[b] = 0
  /\ BuffersReturned

\* The sizes a node was found with are sizes that were there.
NodesOK ==
  /\ tree \in [Paths -> Sizes \cup {Gone}] /\ seen \in [Paths -> SUBSET Sizes]
  /\ known \subseteq Long
  /\ cur \in Nodes /\ saved \in Nodes
  /\ \A p \in Paths : There(p) => tree[p] \in seen[p]
  /\ \A f \in {cur, saved} : f # None => f.size \in seen[f.path]

\* An await is of one of these operations, at one of these steps.
AwaitOps == {"none", "PUTROOTFH", "PUTFH", "LOOKUP", "LOOKUPP", "SECINFO", "OPEN", "REMOVE",
             "ACCESS", "READDIR", "READ", "CLOSE"}
AwaitSteps == {"none", "resolve", "lookup", "open", "remove", "readdir", "read", "close"}
Await == [op : AwaitOps, step : AwaitSteps, path : Paths \cup {"none"}, from : Nat, length : Nat]
WaitOK ==
  /\ wait \in Await
  /\ at = "await" => 
       /\ wait.op # "CLOSE" => wait.path \in Paths
       /\ wait.op = "READ" => cur # None /\ wait.path = cur.path
       /\ wait.op = "OPEN" /\ wait.step = "open" => wait.length \in seen[wait.path]

HeardOK == heard \in [path : Paths, end : Nat, eof : BOOLEAN] /\ EofHonest

CallInv == CallOK /\ WriterOK(out) /\ BuffersOK /\ NodesOK /\ WaitOK /\ HeardOK

-----------------------------------------------------------------------------
LEMMA InductTo ==
  ASSUME NEW n \in Nat, NEW S, 0 \in S, \A k \in 1 .. n : k - 1 \in S => k \in S
  PROVE  0 .. n \subseteq S
<1> DEFINE R == OpToRel(<, Nat)
           T == (0 .. n) \ S
<1>1. SUFFICES ASSUME T # {} PROVE FALSE
  OBVIOUS
<1>2. IsWellFoundedOn(R, Nat)
  BY NatLessThanWellFounded
<1>3. \A x, y \in Nat : x < y => <<x, y>> \in R
  BY DEF OpToRel
<1>4. T \subseteq Nat
  OBVIOUS
<1> HIDE DEF R, T
<1>5. PICK x \in T : \A y \in T : <<y, x>> \notin R
  BY <1>1, <1>2, <1>4, WFMin
<1>6. x \in 1 .. n /\ x - 1 \in 0 .. n /\ x - 1 < x /\ x \notin S
  BY <1>5 DEF T
<1>7. x - 1 \in T
  BY <1>6 DEF T
<1> QED BY <1>3, <1>4, <1>5, <1>6, <1>7

\* The same, from the top down.
LEMMA InductDown ==
  ASSUME NEW n \in Nat, NEW S, n + 1 \in S, \A k \in 1 .. n : k + 1 \in S => k \in S
  PROVE  1 .. n + 1 \subseteq S
<1> DEFINE T == {d \in 0 .. n : n + 1 - d \in S}
<1>1. 0 \in T
  OBVIOUS
<1>2. ASSUME NEW d \in 1 .. n, d - 1 \in T PROVE d \in T
  <2>1. n + 1 - d \in 1 .. n /\ (n + 1 - d) + 1 = n + 1 - (d - 1)
    OBVIOUS
  <2> QED BY <1>2, <2>1
<1> HIDE DEF T
<1>3. 0 .. n \subseteq T
  BY <1>1, <1>2, InductTo
<1>4. ASSUME NEW k \in 1 .. n + 1 PROVE k \in S
  <2>1. n + 1 - k \in 0 .. n /\ n + 1 - (n + 1 - k) = k
    OBVIOUS
  <2> QED BY <1>3, <2>1 DEF T
<1> QED BY <1>4

LEMMA MinOfBottom ==
  ASSUME NEW n \in Nat, NEW k \in 1 .. n, NEW s \in SUBSET (k .. n), k \in s
  PROVE  Min(s) = k
<1>1. \A y \in s : k <= y /\ y \in Nat
  OBVIOUS
<1>2. \A x \in s : (\A y \in s : x =< y) => x = k
  BY <1>1
<1> DEFINE P(x) == x \in s /\ \A y \in s : x =< y
<1>3. P(k) /\ \A x : P(x) => x = k
  BY <1>1, <1>2
<1>4. Min(s) = CHOOSE x : P(x)
  BY DEF Min
<1> HIDE DEF P
<1> QED BY <1>3, <1>4

LEMMA MinIsIn ==
  ASSUME NEW n \in Nat, NEW s \in SUBSET (1 .. n), s # {}
  PROVE  Min(s) \in s
<1> DEFINE S == {k \in 1 .. n + 1 : \A r \in SUBSET (k .. n) : r # {} => Min(r) \in r}
<1>1. n + 1 \in S
  <2>1. \A r \in SUBSET (n + 1 .. n) : r = {}
    OBVIOUS
  <2>2. \A r \in SUBSET (n + 1 .. n) : r # {} => Min(r) \in r
    BY <2>1
  <2>3. n + 1 \in 1 .. n + 1
    OBVIOUS
  <2> QED BY <2>2, <2>3
<1>2. ASSUME NEW k \in 1 .. n, k + 1 \in S PROVE k \in S
  <2>1. ASSUME NEW r \in SUBSET (k .. n), r # {} PROVE Min(r) \in r
    <3>1. CASE k \in r
      BY <3>1, MinOfBottom
    <3>2. CASE k \notin r
      <4>1. r \in SUBSET (k + 1 .. n)
        BY <3>2
      <4> QED BY <1>2, <2>1, <4>1
    <3> QED BY <3>1, <3>2
  <2> QED BY <2>1
<1> HIDE DEF S
<1>3. 1 \in 1 .. n + 1
  OBVIOUS
<1>4. 1 \in S
  BY <1>1, <1>2, <1>3, InductDown
<1> QED BY <1>4 DEF S

LEMMA SuffixBottom ==
  ASSUME NEW n \in Nat, NEW k \in 1 .. n
  PROVE  /\ Min(k .. n) = k /\ (k .. n) \ {k} = k + 1 .. n
         /\ k .. n # {} /\ k .. n \in SUBSET (1 .. n)
<1>1. k .. n \in SUBSET (k .. n) /\ k \in k .. n
  OBVIOUS
<1>2. Min(k .. n) = k
  BY <1>1, MinOfBottom
<1>3. (k .. n) \ {k} = k + 1 .. n
  OBVIOUS
<1>4. k .. n # {} /\ k .. n \in SUBSET (1 .. n)
  OBVIOUS
<1> QED BY <1>2, <1>3, <1>4

\* g is the fold of step over sets of numbers from k to n, the smallest last.
FoldsFrom(g, k, n, T, b, step) ==
  /\ g \in [SUBSET (k .. n) -> T]
  /\ \A s \in SUBSET (k .. n) : g[s] = IF s = {} THEN b ELSE step[<<g[s \ {Min(s)}], Min(s)>>]

LEMMA FoldExtends ==
  ASSUME NEW n \in Nat, NEW k \in 1 .. n, NEW T, NEW b \in T, 
         NEW step \in [T \X (1 .. n) -> T],
         NEW g, FoldsFrom(g, k + 1, n, T, b, step)
  PROVE  \E h : FoldsFrom(h, k, n, T, b, step)
<1> DEFINE h == [s \in SUBSET (k .. n) |-> IF k \in s THEN step[<<g[s \ {k}], k>>] ELSE g[s]]
<1>1. \A s \in SUBSET (k .. n) : /\ k \notin s => s \in SUBSET (k + 1 .. n)
                                 /\ s \ {k} \in SUBSET (k + 1 .. n)
  OBVIOUS
<1>2. h \in [SUBSET (k .. n) -> T]
  BY <1>1 DEF FoldsFrom
<1>3. ASSUME NEW s \in SUBSET (k .. n)
      PROVE  h[s] = IF s = {} THEN b ELSE step[<<h[s \ {Min(s)}], Min(s)>>]
  <2>1. CASE k \in s
    <3>1. Min(s) = k
      BY <2>1, MinOfBottom
    <3>2. s \ {k} \in SUBSET (k .. n) /\ k \notin s \ {k} /\ s # {}
      BY <2>1
    <3>3. h[s \ {k}] = g[s \ {k}] /\ h[s] = step[<<g[s \ {k}], k>>]
      BY <3>2, <2>1
    <3> HIDE DEF h
    <3> QED BY <3>1, <3>2, <3>3
  <2>2. CASE k \notin s
    <3>1. s \in SUBSET (k + 1 .. n) /\ s \ {Min(s)} \in SUBSET (k .. n) /\ k \notin s \ {Min(s)}
      BY <2>2, <1>1
    <3>2. h[s] = g[s] /\ h[s \ {Min(s)}] = g[s \ {Min(s)}]
      BY <2>2, <3>1
    <3>3. g[s] = IF s = {} THEN b ELSE step[<<g[s \ {Min(s)}], Min(s)>>]
      BY <3>1 DEF FoldsFrom
    <3> HIDE DEF h
    <3> QED BY <3>2, <3>3
  <2> QED BY <2>1, <2>2
<1> HIDE DEF h
<1> QED BY <1>2, <1>3 DEF FoldsFrom

LEMMA FoldExists ==
  ASSUME NEW n \in Nat, NEW T, NEW b \in T, NEW step \in [T \X (1 .. n) -> T]
  PROVE  \E g : FoldsFrom(g, 1, n, T, b, step)
<1> DEFINE S == {k \in 1 .. n + 1 : \E g : FoldsFrom(g, k, n, T, b, step)}
<1>1. n + 1 \in S
  <2>1. FoldsFrom([s \in SUBSET (n + 1 .. n) |-> b], n + 1, n, T, b, step)
    <3>1. SUBSET (n + 1 .. n) = {{}}
      OBVIOUS
    <3> QED BY <3>1 DEF FoldsFrom
  <2> QED BY <2>1
<1>2. ASSUME NEW k \in 1 .. n, k + 1 \in S PROVE k \in S
  <2>1. PICK g : FoldsFrom(g, k + 1, n, T, b, step)
    BY <1>2
  <2> QED BY <2>1, FoldExtends
<1>3. 1 \in 1 .. n + 1
  OBVIOUS
<1> HIDE DEF S
<1>4. 1 \in S
  BY <1>1, <1>2, <1>3, InductDown
<1> QED BY <1>4 DEF S

-----------------------------------------------------------------------------
\* The elements of a sequence that are in a set, one suffix per element.
LEMMA ThoseSteps ==
  ASSUME NEW T, NEW s \in Seq(T), NEW S
  PROVE  \E u : /\ u[Len(s) + 1] = <<>> /\ u[1] = Those(s, S)
                /\ \A k \in 1 .. Len(s) :
                     u[k] = IF s[k] \in S THEN <<s[k]>> \o u[k + 1] ELSE u[k + 1]
<1> DEFINE n == Len(s)
           Q == Seq(T)
           Step(e, rest) == IF e \in S THEN <<e>> \o rest ELSE rest
           step == [p \in Q \X (1 .. n) |-> Step(s[p[2]], p[1])]
           Turn(iter) == [r \in SUBSET DOMAIN s |->
                            IF r = {} THEN <<>> ELSE Step(s[Min(r)], iter[r \ {Min(r)}])]
           c == CHOOSE iter : iter = Turn(iter)
<1>1. Those(s, S) = c[DOMAIN s]
  BY DEF Those, FoldRight, MapThenFoldSet
<1>2. n \in Nat /\ DOMAIN s = 1 .. n /\ \A k \in 1 .. n : s[k] \in T
  OBVIOUS
<1>3. step \in [Q \X (1 .. n) -> Q]
  <2>1. ASSUME NEW q \in Q, NEW k \in 1 .. n PROVE Step(s[k], q) \in Q
    BY <1>2
  <2> HIDE DEF Step
  <2> QED BY <2>1
<1>4. <<>> \in Q
  OBVIOUS
<1>5. PICK g : FoldsFrom(g, 1, n, Q, <<>>, step)
  <2> HIDE DEF step, Q, n
  <2> QED BY <1>2, <1>3, <1>4, FoldExists
<1>6. g = Turn(g)
  <2>1. ASSUME NEW r \in SUBSET (1 .. n), r # {}
        PROVE  g[r] = Step(s[Min(r)], g[r \ {Min(r)}])
    <3>1. Min(r) \in 1 .. n
      BY <2>1, <1>2, MinIsIn
    <3>2. g[r \ {Min(r)}] \in Q /\ g[r] = step[<<g[r \ {Min(r)}], Min(r)>>]
      BY <2>1, <1>5 DEF FoldsFrom
    <3> HIDE DEF Step, Q
    <3> QED BY <3>1, <3>2
  <2>2. g \in [SUBSET (1 .. n) -> Q] /\ g[{}] = <<>>
    BY <1>5 DEF FoldsFrom
  <2> HIDE DEF Step, Q
  <2> QED BY <1>2, <2>1, <2>2
<1>7. c = Turn(c)
  <2> DEFINE P(iter) == iter = Turn(iter)
  <2>1. P(g)
    BY <1>6
  <2>2. c = CHOOSE iter : P(iter)
    OBVIOUS
  <2> HIDE DEF P, c
  <2>3. P(c)
    BY <2>1, <2>2
  <2> QED BY <2>3 DEF P
<1> DEFINE u == [k \in 1 .. n + 1 |-> c[k .. n]]
<1> HIDE DEF c
<1>8. ASSUME NEW k \in 1 .. n PROVE u[k] = Step(s[k], u[k + 1])
  <2>1. Min(k .. n) = k /\ (k .. n) \ {k} = k + 1 .. n /\ k .. n # {}
        /\ k .. n \in SUBSET DOMAIN s
    BY <1>2, SuffixBottom
  <2> HIDE DEF Step
  <2>2. c[k .. n] = Step(s[k], c[k + 1 .. n])
    BY <1>7, <2>1
  <2> QED BY <2>2, <1>2
<1>9. u[n + 1] = <<>>
  <2>1. n + 1 .. n = {} /\ {} \in SUBSET DOMAIN s /\ n + 1 \in 1 .. n + 1
    BY <1>2
  <2>2. c[{}] = <<>>
    BY <1>7, <2>1
  <2> QED BY <2>1, <2>2
<1>10. u[1] = Those(s, S)
  BY <1>1, <1>2
<1> HIDE DEF u
<1> QED BY <1>8, <1>9, <1>10

\* They are a subsequence: places gives the place of each in the whole.
LEMMA ThoseChosen ==
  ASSUME NEW T, NEW s \in Seq(T), NEW S
  PROVE  LET r == Those(s, S) IN
         /\ r \in Seq(T)
         /\ \E places \in [DOMAIN r -> DOMAIN s] :
              /\ \A j, k \in DOMAIN r : j < k => places[j] < places[k]
              /\ \A k \in DOMAIN r : r[k] = s[places[k]] /\ r[k] \in S
              /\ \A i \in DOMAIN s : s[i] \in S => \E k \in DOMAIN r : places[k] = i
<1> DEFINE n == Len(s)
<1>1. PICK u : /\ u[n + 1] = <<>> /\ u[1] = Those(s, S)
               /\ \A k \in 1 .. n :
                    u[k] = IF s[k] \in S THEN <<s[k]>> \o u[k + 1] ELSE u[k + 1]
  BY ThoseSteps
<1>2. n \in Nat /\ DOMAIN s = 1 .. n /\ \A k \in 1 .. n : s[k] \in T
  OBVIOUS
<1> HIDE DEF n
<1> DEFINE Chosen(r, m) ==
             /\ r \in Seq(T)
             /\ \E places \in [DOMAIN r -> m .. n] :
                  /\ \A j, k \in DOMAIN r : j < k => places[j] < places[k]
                  /\ \A k \in DOMAIN r : r[k] = s[places[k]] /\ r[k] \in S
                  /\ \A i \in m .. n : s[i] \in S => \E k \in DOMAIN r : places[k] = i
           C == {m \in 1 .. n + 1 : Chosen(u[m], m)}
<1>3. n + 1 \in C
  <2>1. u[n + 1] = <<>> /\ DOMAIN u[n + 1] = {} /\ n + 1 .. n = {} /\ n + 1 \in 1 .. n + 1
    BY <1>1, <1>2
  <2>2. u[n + 1] \in Seq(T)
    BY <2>1
  <2>3. [k \in {} |-> k] \in [DOMAIN u[n + 1] -> n + 1 .. n]
    BY <2>1
  <2>4. Chosen(u[n + 1], n + 1)
    BY <2>1, <2>2, <2>3
  <2> HIDE DEF Chosen
  <2> QED BY <2>1, <2>4
<1>4. ASSUME NEW m \in 1 .. n, m + 1 \in C PROVE m \in C
  <2> DEFINE rest == u[m + 1]
  <2>1. PICK old \in [DOMAIN rest -> m + 1 .. n] :
          /\ \A j, k \in DOMAIN rest : j < k => old[j] < old[k]
          /\ \A k \in DOMAIN rest : rest[k] = s[old[k]] /\ rest[k] \in S
          /\ \A i \in m + 1 .. n : s[i] \in S => \E k \in DOMAIN rest : old[k] = i
    BY <1>4
  <2>2. rest \in Seq(T) /\ Len(rest) \in Nat /\ DOMAIN rest = 1 .. Len(rest)
    BY <1>4
  <2>3. CASE s[m] \notin S
    <3>1. u[m] = rest
      BY <1>1, <2>3
    <3>2. old \in [DOMAIN rest -> m .. n] /\ \A i \in m .. n : s[i] \in S => i \in m + 1 .. n
      BY <2>3, <1>2
    <3> HIDE DEF rest
    <3>3. Chosen(u[m], m)
      BY <2>1, <2>2, <3>1, <3>2
    <3> HIDE DEF Chosen
    <3> QED BY <3>3, <1>2
  <2>4. CASE s[m] \in S
    <3> DEFINE r == <<s[m]>> \o rest
               l == Len(rest)
               places == [k \in 1 .. l + 1 |-> IF k = 1 THEN m ELSE old[k - 1]]
    <3>1. u[m] = r
      BY <1>1, <2>4
    <3> HIDE DEF rest
    <3>2. r \in Seq(T) /\ DOMAIN r = 1 .. l + 1 /\ r[1] = s[m]
          /\ \A k \in 2 .. l + 1 : r[k] = rest[k - 1]
      BY <1>2, <2>2
    <3>3. \A k \in 2 .. l + 1 : k - 1 \in DOMAIN rest /\ old[k - 1] \in m + 1 .. n
      BY <2>2
    <3>4. places \in [DOMAIN r -> m .. n]
      <4>1. \A k \in 1 .. l + 1 : k = 1 \/ k \in 2 .. l + 1
        BY <2>2
      <4>2. \A k \in 1 .. l + 1 : places[k] \in m .. n
        BY <1>2, <3>3, <4>1
      <4> HIDE DEF r
      <4> QED BY <3>2, <4>2
    <3>5. \A k \in 2 .. l + 1 : places[k] = old[k - 1]
      BY <2>2
    <3>6. places[1] = m
      BY <2>2
    <3> HIDE DEF r, l, places
    <3>7. \A k \in 1 .. l + 1 : k = 1 \/ k \in 2 .. l + 1
      BY <2>2 DEF l
    <3>8. \A j, k \in DOMAIN r : j < k => places[j] < places[k]
      <4> SUFFICES ASSUME NEW j \in 1 .. l + 1, NEW k \in 1 .. l + 1, j < k
                   PROVE  places[j] < places[k]
        BY <3>2
      <4>1. k \in 2 .. l + 1 /\ (j = 1 \/ (j \in 2 .. l + 1 /\ j - 1 < k - 1))
        BY <3>7, <2>2 DEF l
      <4> QED BY <1>2, <2>1, <3>3, <3>5, <3>6, <4>1
    <3>9. \A k \in DOMAIN r : r[k] = s[places[k]] /\ r[k] \in S
      BY <2>1, <2>4, <3>2, <3>3, <3>5, <3>6, <3>7
    <3>10. \A i \in m .. n : s[i] \in S => \E k \in DOMAIN r : places[k] = i
      <4> SUFFICES ASSUME NEW i \in m .. n, s[i] \in S PROVE \E k \in 1 .. l + 1 : places[k] = i
        BY <3>2
      <4>1. CASE i = m
        BY <2>2, <3>6, <4>1 DEF l
      <4>2. CASE i # m
        <5>1. i \in m + 1 .. n
          BY <4>2, <1>2
        <5>2. PICK k \in DOMAIN rest : old[k] = i
          BY <2>1, <5>1
        <5>3. k + 1 \in 2 .. l + 1 /\ (k + 1) - 1 = k /\ k + 1 \in 1 .. l + 1
          BY <2>2 DEF l
        <5> QED BY <3>5, <5>2, <5>3
      <4> QED BY <4>1, <4>2
    <3>11. Chosen(u[m], m)
      BY <3>1, <3>2, <3>4, <3>8, <3>9, <3>10
    <3> HIDE DEF Chosen
    <3> QED BY <3>11, <1>2
  <2> QED BY <2>3, <2>4
<1>5. 1 \in C
  <2>1. 1 \in 1 .. n + 1
    BY <1>2
  <2> HIDE DEF C
  <2> QED BY <1>2, <1>3, <1>4, <2>1, InductDown
<1>6. Chosen(u[1], 1)
  BY <1>5
<1> QED BY <1>1, <1>2, <1>6

-----------------------------------------------------------------------------
\* The record as it is sent, one payload put in its place after another.
Inserted(e, items) == InsertAt(items, e.at + 1, Payload(e.p))

LEMMA InsertedItems ==
  ASSUME NEW I, NEW items \in Seq(I), NEW e, e.at \in 1 .. Len(items), Payload(e.p) \in I
  PROVE  LET r == Inserted(e, items) IN
         /\ r \in Seq(I) /\ Len(r) = Len(items) + 1
         /\ \A k \in 1 .. e.at : r[k] = items[k]
         /\ r[e.at + 1] = Payload(e.p)
         /\ \A k \in e.at + 2 .. Len(items) + 1 : r[k] = items[k - 1]
<1> DEFINE n == Len(items)
           x == Payload(e.p)
           front == SubSeq(items, 1, e.at)
           back == SubSeq(items, e.at + 1, n)
<1>1. PICK a : a = e.at
  OBVIOUS
<1>2. a \in Nat /\ n \in Nat /\ 1 <= a /\ a <= n /\ DOMAIN items = 1 .. n
      /\ \A k \in 1 .. n : items[k] \in I
  BY <1>1
<1>3. Inserted(e, items) = front \o <<x>> \o back
  <2>1. (a + 1) - 1 = a
    BY <1>2
  <2> HIDE DEF x
  <2> QED BY <1>1, <2>1 DEF Inserted, InsertAt, x
<1> HIDE DEF n, x
<1>4. /\ front \in Seq(I) /\ Len(front) = a
      /\ \A k \in 1 .. a : front[k] = items[1 + k - 1]
  <2>1. 1 \in Int /\ a \in Int /\ a - 1 + 1 = a /\ 1 <= a /\ \A k \in 1 .. a : items[k] \in I
    BY <1>2
  <2> QED BY <1>1, <2>1, SubSeqProperties
<1>5. /\ back \in Seq(I) /\ Len(back) = n - a
      /\ \A k \in 1 .. n - a : back[k] = items[(a + 1) + k - 1]
  <2>1. a + 1 \in Int /\ n \in Int /\ n - (a + 1) + 1 = n - a
        /\ \A k \in a + 1 .. n : items[k] \in I
    BY <1>2
  <2>2. (IF a + 1 <= n THEN n - (a + 1) + 1 ELSE 0) = n - a
    BY <1>2
  <2> HIDE DEF front, back
  <2>3. /\ SubSeq(items, a + 1, n) \in Seq(I) /\ Len(SubSeq(items, a + 1, n)) = n - a
        /\ \A k \in 1 .. n - a : SubSeq(items, a + 1, n)[k] = items[(a + 1) + k - 1]
    BY <2>1, <2>2, SubSeqProperties
  <2>4. back = SubSeq(items, a + 1, n)
    BY <1>1 DEF back
  <2> QED BY <2>3, <2>4
<1> HIDE DEF front, back
<1> DEFINE m == front \o <<x>>
           r == m \o back
<1>6. m \in Seq(I) /\ Len(m) = a + 1 /\ m[a + 1] = x /\ \A k \in 1 .. a : m[k] = front[k]
  BY <1>2, <1>4 DEF x
<1> HIDE DEF m
<1>7. /\ r \in Seq(I) /\ Len(r) = n + 1
      /\ \A k \in 1 .. a + 1 : r[k] = m[k]
      /\ \A k \in 1 .. n - a : r[a + 1 + k] = back[k]
  <2>1. Len(m) \in Nat /\ Len(back) \in Nat /\ (a + 1) + (n - a) = n + 1
    BY <1>2, <1>5, <1>6
  <2>2. r \in Seq(I) /\ Len(r) = Len(m) + Len(back)
    BY <1>5, <1>6, ConcatProperties
  <2>3. \A k \in 1 .. Len(m) : r[k] = m[k]
    BY <1>5, <1>6
  <2>4. \A k \in 1 .. Len(back) : r[Len(m) + k] = back[k]
    BY <1>5, <1>6
  <2> QED BY <1>5, <1>6, <2>1, <2>2, <2>3, <2>4
<1> HIDE DEF r
<1>8. \A k \in 1 .. a : r[k] = items[k]
  BY <1>2, <1>4, <1>6, <1>7
<1>9. r[a + 1] = x
  BY <1>2, <1>6, <1>7
<1>10. ASSUME NEW k \in a + 2 .. n + 1 PROVE r[k] = items[k - 1]
  <2>1. k - (a + 1) \in 1 .. n - a /\ a + 1 + (k - (a + 1)) = k
        /\ (a + 1) + (k - (a + 1)) - 1 = k - 1
    BY <1>2
  <2> QED BY <1>5, <1>7, <2>1
<1>11. r = Inserted(e, items)
  BY <1>3 DEF r, m
<1> QED BY <1>1, <1>7, <1>8, <1>9, <1>10, <1>11 DEF n, x

LEMMA SegmentSteps ==
  ASSUME NEW w, WriterOK(w)
  PROVE  \E u, I :
           /\ u[Len(w.ext) + 1] = w.own /\ u[1] = Segments(w)
           /\ w.own \in Seq(I) /\ \A j \in DOMAIN w.ext : Payload(w.ext[j].p) \in I
           /\ \A k \in 1 .. Len(w.ext) :
                u[k] = Inserted(w.ext[k], u[k + 1])
           /\ \A k \in 1 .. Len(w.ext) + 1 : u[k] \in Seq(I) /\ Len(u[k]) >= Length(w)
<1> DEFINE s == w.ext
           n == Len(s)
           I == ToSet(w.own) \cup {Payload(s[j].p) : j \in DOMAIN s}
           Q == {q \in Seq(I) : Len(q) >= Length(w)}
           step == [p \in Q \X (1 .. n) |-> Inserted(s[p[2]], p[1])]
           Turn(iter) == [r \in SUBSET DOMAIN s |->
                            IF r = {} THEN w.own
                            ELSE InsertAt(iter[r \ {Min(r)}], s[Min(r)].at + 1,
                                          Payload(s[Min(r)].p))]
           c == CHOOSE iter : iter = Turn(iter)
<1>1. Segments(w) = c[DOMAIN s]
  BY DEF Segments, FoldRight, MapThenFoldSet
<1>2. n \in Nat /\ DOMAIN s = 1 .. n /\ \A k \in 1 .. n : s[k].at \in 1 .. Length(w)
  BY DEF WriterOK
<1>0. Length(w) \in Nat
  BY DEF WriterOK, Length
<1>3. step \in [Q \X (1 .. n) -> Q]
  <2>1. ASSUME NEW q \in Q, NEW k \in 1 .. n PROVE Inserted(s[k], q) \in Q
    <3>1. s[k].at \in 1 .. Len(q) /\ Payload(s[k].p) \in I /\ q \in Seq(I) /\ Len(q) >= Length(w)
      BY <1>2, <1>0
    <3> HIDE DEF I, s
    <3>2. Inserted(s[k], q) \in Seq(I) /\ Len(Inserted(s[k], q)) = Len(q) + 1
      BY <3>1, InsertedItems
    <3> QED BY <1>0, <3>1, <3>2
  <2> HIDE DEF Q, s
  <2> QED BY <2>1
<1>4. w.own \in Q
  <2>1. w.own \in Seq(ToSet(w.own)) /\ Len(w.own) >= Length(w)
    BY DEF WriterOK, Length
  <2>2. w.own \in Seq(I)
    <3>1. ToSet(w.own) \subseteq I
      OBVIOUS
    <3> HIDE DEF I
    <3> QED BY <2>1, <3>1
  <2> QED BY <2>1, <2>2
<1>5. PICK g : FoldsFrom(g, 1, n, Q, w.own, step)
  <2> HIDE DEF step, Q, n, s
  <2> QED BY <1>2, <1>3, <1>4, FoldExists
<1>6. g = Turn(g)
  <2>1. ASSUME NEW r \in SUBSET (1 .. n), r # {}
        PROVE  g[r] = Inserted(s[Min(r)], g[r \ {Min(r)}])
    <3>1. Min(r) \in 1 .. n
      BY <2>1, <1>2, MinIsIn
    <3>2. g[r \ {Min(r)}] \in Q /\ g[r] = step[<<g[r \ {Min(r)}], Min(r)>>]
      BY <2>1, <1>5 DEF FoldsFrom
    <3> HIDE DEF Q, s
    <3> QED BY <3>1, <3>2
  <2>2. g \in [SUBSET (1 .. n) -> Q] /\ g[{}] = w.own
    BY <1>5 DEF FoldsFrom
  <2> HIDE DEF Q, s
  <2> QED BY <1>2, <2>1, <2>2 DEF Inserted
<1>7. c = Turn(c)
  <2> DEFINE P(iter) == iter = Turn(iter)
  <2>1. P(g)
    BY <1>6
  <2>2. c = CHOOSE iter : P(iter)
    OBVIOUS
  <2> HIDE DEF P, c
  <2>3. P(c)
    BY <2>1, <2>2
  <2> QED BY <2>3 DEF P
<1> DEFINE u == [k \in 1 .. n + 1 |-> c[k .. n]]
<1> HIDE DEF c, s
<1>8. ASSUME NEW k \in 1 .. n PROVE u[k] = Inserted(s[k], u[k + 1])
  <2>1. Min(k .. n) = k /\ (k .. n) \ {k} = k + 1 .. n /\ k .. n # {}
        /\ k .. n \in SUBSET DOMAIN s
    BY <1>2, SuffixBottom
  <2>2. c[k .. n] = Inserted(s[k], c[k + 1 .. n])
    BY <1>7, <2>1 DEF Inserted
  <2> QED BY <2>2, <1>2
<1>9. u[n + 1] = w.own
  <2>1. n + 1 .. n = {} /\ {} \in SUBSET DOMAIN s /\ n + 1 \in 1 .. n + 1
    BY <1>2
  <2>2. c[{}] = w.own
    BY <1>7, <2>1
  <2> QED BY <2>1, <2>2
<1>10. u[1] = Segments(w)
  BY <1>1, <1>2
<1> HIDE DEF u
<1>11. ASSUME NEW k \in 1 .. n + 1 PROVE u[k] \in Q
  <2> DEFINE C == {i \in 1 .. n + 1 : u[i] \in Q}
  <2>1. n + 1 \in C
    BY <1>2, <1>4, <1>9
  <2>2. ASSUME NEW i \in 1 .. n, i + 1 \in C PROVE i \in C
    <3>1. u[i + 1] \in Q /\ i \in 1 .. n + 1
      BY <2>2, <1>2
    <3>2. step[<<u[i + 1], i>>] = u[i] /\ step[<<u[i + 1], i>>] \in Q
      <4> HIDE DEF Q
      <4> QED BY <1>3, <1>8, <3>1
    <3> HIDE DEF Q, step
    <3> QED BY <3>1, <3>2
  <2> HIDE DEF C, n
  <2>3. k \in C
    BY <1>2, <2>1, <2>2, InductDown
  <2> QED BY <2>3 DEF C
<1>12. w.own \in Seq(I) /\ \A j \in DOMAIN s : Payload(s[j].p) \in I
  BY <1>4
<1> HIDE DEF n, I
<1> QED BY <1>8, <1>9, <1>10, <1>11, <1>12 DEF s, n

\* Put in their places, payloads stand behind their lengths or other parts.
LEMMA SegmentsInPlace ==
  ASSUME NEW w, WriterOK(w)
  PROVE  InPlace(Segments(w))
<1> DEFINE s == w.ext
           n == Len(s)
<1>1. PICK u, I :
           /\ u[n + 1] = w.own /\ u[1] = Segments(w)
           /\ w.own \in Seq(I) /\ \A j \in DOMAIN s : Payload(s[j].p) \in I
           /\ \A k \in 1 .. n : u[k] = Inserted(s[k], u[k + 1])
           /\ \A k \in 1 .. n + 1 : u[k] \in Seq(I) /\ Len(u[k]) >= Length(w)
  BY SegmentSteps
<1>2. n \in Nat /\ DOMAIN s = 1 .. n /\ Length(w) \in Nat
  BY DEF WriterOK, Length
<1>3. \A j \in 1 .. n : s[j].at \in 1 .. Length(w) /\ w.own[s[j].at].t = "length"
  BY <1>2 DEF WriterOK
<1>4. \A j, k \in 1 .. n : j <= k => s[j].at <= s[k].at
  BY <1>2 DEF WriterOK
<1>5. InPlace(w.own)
  BY DEF WriterOK
<1> HIDE DEF n, s
<1> DEFINE C == {k \in 1 .. n + 1 :
                   InPlace(u[k]) /\ \A j \in 1 .. k - 1 : \A i \in 1 .. s[j].at : u[k][i] = w.own[i]}
<1>6. n + 1 \in C
  BY <1>1, <1>2, <1>5
<1>7. ASSUME NEW k \in 1 .. n, k + 1 \in C PROVE k \in C
  <2> DEFINE old == u[k + 1]
             e == s[k]
             a == e.at
  <2>1. old \in Seq(I) /\ a \in 1 .. Len(old) /\ Payload(e.p) \in I /\ u[k] = Inserted(e, old)
    <3>1. k + 1 \in 1 .. n + 1 /\ k \in DOMAIN s
      BY <1>2
    <3>2. old \in Seq(I) /\ Len(old) >= Length(w) /\ Len(old) \in Nat
      BY <1>1, <3>1
    <3> HIDE DEF old
    <3> QED BY <1>1, <1>2, <1>3, <3>1, <3>2 DEF old
  <2>2. /\ InPlace(old) /\ old[a].t = "length"
        /\ \A j \in 1 .. k - 1 : \A i \in 1 .. s[j].at : old[i] = w.own[i]
    <3>1. InPlace(old) /\ \A j \in 1 .. (k + 1) - 1 : \A i \in 1 .. s[j].at : old[i] = w.own[i]
      BY <1>7
    <3>2. k \in 1 .. (k + 1) - 1 /\ \A j \in 1 .. k - 1 : j \in 1 .. (k + 1) - 1
      BY <1>2
    <3>3. a \in 1 .. a
      BY <1>3, <1>2
    <3> HIDE DEF old
    <3> QED BY <1>3, <3>1, <3>2, <3>3
  <2> HIDE DEF old
  <2>3. /\ u[k] \in Seq(I) /\ Len(u[k]) = Len(old) + 1
        /\ \A i \in 1 .. a : u[k][i] = old[i]
        /\ u[k][a + 1] = Payload(e.p)
        /\ \A i \in a + 2 .. Len(old) + 1 : u[k][i] = old[i - 1]
    <3> HIDE DEF e
    <3> QED BY <2>1, InsertedItems
  <2> DEFINE l == Len(old)
             new == u[k]
  <2> HIDE DEF e
  <2>4. l \in Nat /\ a \in Nat /\ 1 <= a /\ a <= l /\ DOMAIN old = 1 .. l /\ DOMAIN new = 1 .. l + 1
    BY <2>1, <2>3
  <2> HIDE DEF l, a, new
  <2>5. ASSUME NEW i \in 1 .. l + 1, new[i].t = "data"
        PROVE  i > 1 /\ new[i - 1].t \in {"length", "data"}
    <3>1. CASE i \in 1 .. a
      <4>1. old[i].t = "data" /\ i \in DOMAIN old
        BY <2>3, <2>4, <2>5, <3>1 DEF new, l, a
      <4>2. i > 1 /\ old[i - 1].t \in {"length", "data"}
        BY <2>2, <4>1 DEF InPlace
      <4>3. i - 1 \in 1 .. a
        BY <2>4, <3>1, <4>2
      <4> QED BY <2>3, <4>2, <4>3 DEF new, l, a
    <3>2. CASE i = a + 1
      <4>1. i > 1 /\ i - 1 = a /\ a \in 1 .. a
        BY <2>4, <3>2
      <4> QED BY <2>2, <2>3, <4>1 DEF new, l, a
    <3>3. CASE i = a + 2
      <4>1. i > 1 /\ i - 1 = a + 1
        BY <2>4, <3>3
      <4>2. Payload(e.p).t = "data"
        BY DEF Payload, Item
      <4> QED BY <2>3, <4>1, <4>2 DEF new, l, a
    <3>4. CASE i \in a + 3 .. l + 1
      <4>1. i \in a + 2 .. l + 1 /\ i - 1 \in a + 2 .. l + 1 /\ i > 1 /\ i - 1 > 1
            /\ i - 1 \in DOMAIN old
        BY <2>4, <3>4
      <4>2. new[i] = old[i - 1] /\ new[i - 1] = old[(i - 1) - 1]
        BY <2>3, <4>1 DEF new, l, a
      <4> QED BY <2>2, <2>5, <4>1, <4>2 DEF InPlace
    <3>5. i \in 1 .. a \/ i = a + 1 \/ i = a + 2 \/ i \in a + 3 .. l + 1
      BY <2>4
    <3> QED BY <3>1, <3>2, <3>3, <3>4, <3>5
  <2>6. InPlace(new)
    BY <2>4, <2>5 DEF InPlace
  <2>7. ASSUME NEW j \in 1 .. k - 1, NEW i \in 1 .. s[j].at PROVE new[i] = w.own[i]
    <3>1. j \in 1 .. n /\ j <= k /\ s[j].at \in Nat
      BY <1>2, <1>3
    <3>2. i \in 1 .. a
      BY <1>2, <1>3, <1>4, <3>1 DEF a, e
    <3> QED BY <2>2, <2>3, <3>2 DEF new, a
  <2>8. k \in 1 .. n + 1
    BY <1>2
  <2> QED BY <2>6, <2>7, <2>8 DEF new
<1>8. 1 \in C
  <2>1. 1 \in 1 .. n + 1
    BY <1>2
  <2> HIDE DEF C
  <2> QED BY <1>2, <1>6, <1>7, <2>1, InductDown
<1> QED BY <1>1, <1>8

-----------------------------------------------------------------------------
\* The writer's operations keep its reply whole.
Ext == [at : Nat, p : [b : Buffers, n : Nat]]
Written(items) == items \in Seq(ToSet(items)) /\ \A x \in ToSet(items) : x = Item(x.t, x.v)
Plain(items) == Written(items) /\ \A x \in ToSet(items) : x.t # "data"

\* A payload among the items has what it belongs to before it.
Follow(own, items) ==
  \A k \in DOMAIN items : items[k].t = "data" =>
    IF k > 1 THEN items[k - 1].t \in {"length", "data"}
    ELSE own # <<>> /\ own[Len(own)].t \in {"length", "data"}

LEMMA SeqToSet ==
  ASSUME NEW T, NEW s \in Seq(T)
  PROVE  s \in Seq(ToSet(s)) /\ Len(s) \in Nat /\ DOMAIN s = 1 .. Len(s)
         /\ \A k \in 1 .. Len(s) : s[k] \in ToSet(s)
<1>1. DOMAIN s = 1 .. Len(s) /\ Len(s) \in Nat
  OBVIOUS
<1>2. \A k \in 1 .. Len(s) : s[k] \in ToSet(s)
  BY <1>1 DEF ToSet
<1> QED BY <1>1, <1>2

LEMMA OwnChanged ==
  ASSUME NEW w, w = [own |-> w.own, ext |-> w.ext], NEW x
  PROVE  LET r == [w EXCEPT !.own = x] IN
         r.own = x /\ r.ext = w.ext /\ r = [own |-> r.own, ext |-> r.ext]
<1>1. PICK a, b : a = w.own /\ b = w.ext
  OBVIOUS
<1>2. w = [own |-> a, ext |-> b]
  BY <1>1
<1>3. [w EXCEPT !.own = x] = [own |-> x, ext |-> b]
  BY <1>2
<1> QED BY <1>1, <1>3

LEMMA PutKeeps ==
  ASSUME NEW w, WriterOK(w), NEW items, Written(items), Follow(w.own, items)
  PROVE  LET r == Put(w, items) IN
         /\ WriterOK(r) /\ r.ext = w.ext /\ Length(r) = Length(w) + Len(items)
         /\ \A k \in 1 .. Length(w) : r.own[k] = w.own[k]
         /\ \A k \in 1 .. Len(items) : r.own[Length(w) + k] = items[k]
<1> DEFINE r == Put(w, items)
           S == ToSet(w.own) \cup ToSet(items)
           m == Len(w.own)
           n == Len(items)
<1>1. r = [w EXCEPT !.own = w.own \o items]
  BY DEF Put
<1>2. r.own = w.own \o items /\ r.ext = w.ext /\ r = [own |-> r.own, ext |-> r.ext]
  <2> HIDE DEF r
  <2>1. w = [own |-> w.own, ext |-> w.ext]
    BY DEF WriterOK
  <2> QED BY <1>1, <2>1, OwnChanged
<1>3. w.own \in Seq(S) /\ items \in Seq(S) /\ \A x \in S : x = Item(x.t, x.v)
  <2>1. w.own \in Seq(ToSet(w.own)) /\ items \in Seq(ToSet(items))
    BY DEF WriterOK, Written
  <2>2. ToSet(w.own) \subseteq S /\ ToSet(items) \subseteq S
    OBVIOUS
  <2>3. \A x \in S : x = Item(x.t, x.v)
    BY DEF WriterOK, Written
  <2> HIDE DEF S
  <2> QED BY <2>1, <2>2, <2>3
<1> HIDE DEF r, S
<1>4. /\ r.own \in Seq(S) /\ Len(r.own) = m + n
      /\ \A k \in 1 .. m + n : r.own[k] = IF k <= m THEN w.own[k] ELSE items[k - m]
  BY <1>2, <1>3, ConcatProperties
<1>5. m \in Nat /\ n \in Nat /\ DOMAIN w.own = 1 .. m /\ DOMAIN items = 1 .. n
      /\ DOMAIN r.own = 1 .. m + n
  BY <1>3, <1>4
<1> HIDE DEF m, n
<1>6. r.own \in Seq(ToSet(r.own)) /\ \A x \in ToSet(r.own) : x = Item(x.t, x.v)
  <2>1. r.own \in Seq(ToSet(r.own))
    BY <1>4, SeqToSet
  <2>2. ToSet(r.own) \subseteq S
    BY <1>4 DEF ToSet
  <2> QED BY <2>1, <2>2, <1>3
<1>7. \A k \in 1 .. m : r.own[k] = w.own[k]
  BY <1>4, <1>5
<1>8. ASSUME NEW k \in 1 .. n PROVE r.own[m + k] = items[k]
  <2>1. m + k \in 1 .. m + n /\ ~(m + k <= m) /\ (m + k) - m = k
    BY <1>5
  <2> QED BY <1>4, <2>1
<1>9. InPlace(r.own)
  <2> SUFFICES ASSUME NEW k \in 1 .. m + n, r.own[k].t = "data"
               PROVE  k > 1 /\ r.own[k - 1].t \in {"length", "data"}
    BY <1>5 DEF InPlace
  <2>1. CASE k \in 1 .. m
    <3>1. k > 1 /\ w.own[k - 1].t \in {"length", "data"}
      BY <1>5, <1>7, <2>1 DEF WriterOK, InPlace
    <3>2. k - 1 \in 1 .. m
      BY <1>5, <2>1, <3>1
    <3> QED BY <1>7, <3>1, <3>2
  <2>2. CASE k = m + 1
    <3>1. 1 \in 1 .. n /\ r.own[m + 1] = items[1]
      BY <1>5, <1>8, <2>2
    <3>2. w.own # <<>> /\ w.own[m].t \in {"length", "data"}
      <4>1. items[1].t = "data" /\ 1 \in DOMAIN items
        BY <1>5, <2>2, <3>1
      <4>2. ~(1 > 1)
        OBVIOUS
      <4> QED BY <4>1, <4>2, Zenon DEF Follow, m
    <3>3. m \in 1 .. m
      BY <1>3, <1>5, <3>2 DEF m
    <3>4. k > 1 /\ k - 1 = m
      BY <1>5, <2>2, <3>3
    <3> QED BY <1>7, <3>2, <3>3, <3>4
  <2>3. CASE k \in m + 2 .. m + n
    <3>1. k - m \in 1 .. n /\ k - m - 1 \in 1 .. n /\ k = m + (k - m) /\ k - 1 = m + (k - m - 1)
          /\ k - m > 1 /\ k > 1
      BY <1>5, <2>3
    <3>2. r.own[k] = items[k - m] /\ r.own[k - 1] = items[k - m - 1]
      BY <1>8, <3>1
    <3> QED BY <1>5, <3>1, <3>2 DEF Follow
  <2> QED BY <1>5, <2>1, <2>2, <2>3
<1>10. \A j \in DOMAIN r.ext : r.ext[j].at \in 1 .. Length(r) /\ r.own[r.ext[j].at].t = "length"
  BY <1>2, <1>4, <1>5, <1>7 DEF WriterOK, Length, m
<1> QED BY <1>2, <1>4, <1>6, <1>8, <1>9, <1>10 DEF WriterOK, Length, m, n, r

LEMMA PutPlain ==
  ASSUME NEW w, WriterOK(w), NEW items, Plain(items)
  PROVE  LET r == Put(w, items) IN
         WriterOK(r) /\ r.ext = w.ext /\ Length(r) = Length(w) + Len(items)
<1>1. Written(items) /\ Follow(w.own, items)
  BY DEF Plain, Follow, ToSet
<1> QED BY <1>1, PutKeeps

LEMMA PatchKeeps ==
  ASSUME NEW w, WriterOK(w), NEW offset, NEW v
  PROVE  LET r == Patch(w, offset, v) IN
         /\ WriterOK(r) /\ r.ext = w.ext /\ Length(r) = Length(w)
         /\ \A k \in 1 .. Length(w) : /\ r.own[k].t = w.own[k].t
                                      /\ r.own[k].v = IF k = offset + 1 THEN v ELSE w.own[k].v
                                      /\ k # offset + 1 => r.own[k] = w.own[k]
<1> DEFINE r == Patch(w, offset, v)
           m == Len(w.own)
<1>1. r = [w EXCEPT !.own = [w.own EXCEPT ![offset + 1].v = v]]
  BY DEF Patch
<1>2. r.own = [w.own EXCEPT ![offset + 1].v = v] /\ r.ext = w.ext /\ r = [own |-> r.own, ext |-> r.ext]
  <2> HIDE DEF r
  <2>1. w = [own |-> w.own, ext |-> w.ext]
    BY DEF WriterOK
  <2> QED BY <1>1, <2>1, OwnChanged
<1> HIDE DEF r
<1>3. m \in Nat /\ DOMAIN w.own = 1 .. m /\ w.own \in Seq(ToSet(w.own))
      /\ \A k \in 1 .. m : w.own[k] = Item(w.own[k].t, w.own[k].v)
  BY DEF WriterOK, ToSet
<1> HIDE DEF m
<1>4. \A k \in 1 .. m : /\ r.own[k] = Item(r.own[k].t, r.own[k].v)
                        /\ r.own[k].t = w.own[k].t
                        /\ r.own[k].v = IF k = offset + 1 THEN v ELSE w.own[k].v
                        /\ k # offset + 1 => r.own[k] = w.own[k]
  <2> SUFFICES ASSUME NEW k \in 1 .. m
               PROVE  /\ r.own[k] = Item(r.own[k].t, r.own[k].v)
                      /\ r.own[k].t = w.own[k].t
                      /\ r.own[k].v = IF k = offset + 1 THEN v ELSE w.own[k].v
                      /\ k # offset + 1 => r.own[k] = w.own[k]
    OBVIOUS
  <2>1. PICK t, x : t = w.own[k].t /\ x = w.own[k].v /\ w.own[k] = [t |-> t, v |-> x]
    BY <1>3 DEF Item
  <2>2. CASE k = offset + 1
    <3>1. r.own[k] = [w.own[k] EXCEPT !.v = v]
      BY <1>2, <1>3, <2>2
    <3>2. r.own[k] = [t |-> t, v |-> v]
      BY <2>1, <3>1
    <3> QED BY <2>1, <2>2, <3>2 DEF Item
  <2>3. CASE k # offset + 1
    <3>1. r.own[k] = w.own[k]
      BY <1>2, <1>3, <2>3
    <3> QED BY <1>3, <2>3, <3>1
  <2> QED BY <2>2, <2>3
<1>5. DOMAIN r.own = 1 .. m /\ r.own = [k \in 1 .. m |-> r.own[k]]
  BY <1>2, <1>3
<1>6. \A k \in 1 .. m : r.own[k] \in ToSet(r.own)
  BY <1>5 DEF ToSet
<1>7. r.own \in Seq(ToSet(r.own)) /\ Len(r.own) = m
  BY <1>3, <1>5, <1>6
<1>8. \A x \in ToSet(r.own) : x = Item(x.t, x.v)
  BY <1>4, <1>5 DEF ToSet
<1>9. InPlace(r.own)
  <2> SUFFICES ASSUME NEW k \in 1 .. m, r.own[k].t = "data"
               PROVE  k > 1 /\ r.own[k - 1].t \in {"length", "data"}
    BY <1>5 DEF InPlace
  <2>1. k > 1 /\ w.own[k - 1].t \in {"length", "data"}
    BY <1>3, <1>4 DEF WriterOK, InPlace
  <2>2. k - 1 \in 1 .. m
    BY <1>3, <2>1
  <2> QED BY <1>4, <2>1, <2>2
<1>10. \A j \in DOMAIN r.ext : r.ext[j].at \in 1 .. Length(r) /\ r.own[r.ext[j].at].t = "length"
  BY <1>2, <1>3, <1>4, <1>7 DEF WriterOK, Length, m
<1>11. WriterOK(r) /\ Length(r) = Length(w)
  BY <1>2, <1>7, <1>8, <1>9, <1>10 DEF WriterOK, Length, m
<1>12. \A k \in 1 .. Length(w) : k \in 1 .. m
  BY DEF Length, m
<1>13. \A k \in 1 .. Length(w) : /\ r.own[k].t = w.own[k].t
                                 /\ r.own[k].v = IF k = offset + 1 THEN v ELSE w.own[k].v
                                 /\ k # offset + 1 => r.own[k] = w.own[k]
  BY ONLY <1>4, <1>12, Zenon
<1> QED BY ONLY <1>2, <1>11, <1>13 DEF r

\* truncate keeps the payloads that belong before the cut, and gives the others back.
LEMMA TruncateKeeps ==
  ASSUME NEW w, WriterOK(w), NEW length \in 0 .. Length(w)
  PROVE  LET r == Truncate(w, length) IN
         /\ WriterOK(r) /\ Length(r) = length
         /\ r.own = SubSeq(w.own, 1, length) /\ \A k \in 1 .. length : r.own[k] = w.own[k]
         /\ \E places \in [DOMAIN r.ext -> DOMAIN w.ext] :
              /\ \A j, k \in DOMAIN r.ext : j < k => places[j] < places[k]
              /\ \A k \in DOMAIN r.ext : r.ext[k] = w.ext[places[k]] /\ r.ext[k].at < length
              /\ \A i \in DOMAIN w.ext : w.ext[i].at < length => \E k \in DOMAIN r.ext : places[k] = i
<1> DEFINE r == Truncate(w, length)
           S == {e \in ToSet(w.ext) : e.at < length}
           m == Len(w.own)
<1>1. r.own = SubSeq(w.own, 1, length) /\ r.ext = Those(w.ext, S)
      /\ r = [own |-> r.own, ext |-> r.ext]
  BY DEF Truncate
<1>2. m \in Nat /\ DOMAIN w.own = 1 .. m /\ length \in Nat /\ length <= m
      /\ \A k \in 1 .. m : w.own[k] \in ToSet(w.own)
  BY SeqToSet DEF WriterOK, Length
<1>3. \A e \in S : e.at < length
  OBVIOUS
<1>4. \A i \in DOMAIN w.ext : w.ext[i].at < length => w.ext[i] \in S
  BY DEF ToSet
<1> HIDE DEF r, S
<1>5. /\ r.own \in Seq(ToSet(w.own)) /\ Len(r.own) = length
      /\ \A k \in 1 .. length : r.own[k] = w.own[k]
  <2>1. 1 \in Int /\ length \in Int /\ length - 1 + 1 = length
        /\ \A k \in 1 .. length : w.own[k] \in ToSet(w.own)
    BY <1>2
  <2>2. (IF 1 <= length THEN length - 1 + 1 ELSE 0) = length
    BY <1>2
  <2>3. /\ SubSeq(w.own, 1, length) \in Seq(ToSet(w.own)) /\ Len(SubSeq(w.own, 1, length)) = length
        /\ \A k \in 1 .. length : SubSeq(w.own, 1, length)[k] = w.own[1 + k - 1]
    BY <2>1, <2>2, SubSeqProperties
  <2>4. \A k \in 1 .. length : 1 + k - 1 = k
    BY <1>2
  <2> QED BY <1>1, <2>3, <2>4
<1>6. w.ext \in Seq(Ext)
  BY DEF WriterOK, Ext
<1>7. r.ext \in Seq(Ext)
  BY <1>1, <1>6, ThoseChosen
<1>8. PICK places \in [DOMAIN r.ext -> DOMAIN w.ext] :
              /\ \A j, k \in DOMAIN r.ext : j < k => places[j] < places[k]
              /\ \A k \in DOMAIN r.ext : r.ext[k] = w.ext[places[k]] /\ r.ext[k] \in S
              /\ \A i \in DOMAIN w.ext : w.ext[i] \in S => \E k \in DOMAIN r.ext : places[k] = i
  BY <1>1, <1>6, ThoseChosen
<1> HIDE DEF m
<1>9. r.own \in Seq(ToSet(r.own)) /\ \A x \in ToSet(r.own) : x = Item(x.t, x.v)
  <2>1. r.own \in Seq(ToSet(r.own)) /\ ToSet(r.own) \subseteq ToSet(w.own)
    BY <1>5, SeqToSet DEF ToSet
  <2> QED BY <2>1 DEF WriterOK
<1>10. DOMAIN r.own = 1 .. length
  BY <1>5
<1>11. InPlace(r.own)
  <2> SUFFICES ASSUME NEW k \in 1 .. length, r.own[k].t = "data"
               PROVE  k > 1 /\ r.own[k - 1].t \in {"length", "data"}
    BY <1>10 DEF InPlace
  <2>1. k > 1 /\ w.own[k - 1].t \in {"length", "data"}
    BY <1>2, <1>5 DEF WriterOK, InPlace
  <2>2. k - 1 \in 1 .. length
    BY <1>2, <2>1
  <2> QED BY <1>5, <2>1, <2>2
<1>12. \A j \in DOMAIN r.ext : r.ext[j].at \in 1 .. Length(r) /\ r.own[r.ext[j].at].t = "length"
  <2> SUFFICES ASSUME NEW j \in DOMAIN r.ext
               PROVE  r.ext[j].at \in 1 .. length /\ r.own[r.ext[j].at].t = "length"
    BY <1>5 DEF Length
  <2>1. r.ext[j].at < length /\ r.ext[j] = w.ext[places[j]] /\ places[j] \in DOMAIN w.ext
    BY <1>3, <1>8
  <2>2. r.ext[j].at \in 1 .. Length(w) /\ w.own[r.ext[j].at].t = "length"
    BY <2>1 DEF WriterOK
  <2>3. r.ext[j].at \in 1 .. length
    BY <1>2, <2>1, <2>2 DEF Length, m
  <2> QED BY <1>5, <2>2, <2>3
<1>13. \A j, k \in DOMAIN r.ext : j <= k => r.ext[j].at <= r.ext[k].at
  <2> SUFFICES ASSUME NEW j \in DOMAIN r.ext, NEW k \in DOMAIN r.ext, j <= k
               PROVE  r.ext[j].at <= r.ext[k].at
    OBVIOUS
  <2>1. places[j] <= places[k]
    <3>1. places[j] \in Nat /\ places[k] \in Nat /\ j \in Nat /\ k \in Nat
      BY <1>6, <1>7, <1>8
    <3> QED BY <1>8, <3>1
  <2>2. r.ext[j] = w.ext[places[j]] /\ r.ext[k] = w.ext[places[k]]
    BY <1>8
  <2> QED BY <1>8, <2>1, <2>2 DEF WriterOK
<1>14. WriterOK(r)
  BY <1>1, <1>7, <1>9, <1>11, <1>12, <1>13 DEF WriterOK, Ext
<1>15. \A k \in DOMAIN r.ext : r.ext[k] = w.ext[places[k]] /\ r.ext[k].at < length
  BY <1>3, <1>8
<1>16. \A i \in DOMAIN w.ext : w.ext[i].at < length => \E k \in DOMAIN r.ext : places[k] = i
  BY <1>4, <1>8
<1> QED BY <1>1, <1>5, <1>8, <1>14, <1>15, <1>16 DEF Length, r

\* opaqueVarExternalParts: each part is copied behind its length or kept for there,
\* if it has any bytes.
Part == [b : Buffers, n : Nat]

LEMMA ExtChanged ==
  ASSUME NEW w, w = [own |-> w.own, ext |-> w.ext], NEW x
  PROVE  LET r == [w EXCEPT !.ext = x] IN
         r.ext = x /\ r.own = w.own /\ r = [own |-> r.own, ext |-> r.ext]
<1>1. PICK a, b : a = w.own /\ b = w.ext
  OBVIOUS
<1>2. w = [own |-> a, ext |-> b]
  BY <1>1
<1>3. [w EXCEPT !.ext = x] = [own |-> a, ext |-> x]
  BY <1>2
<1> QED BY <1>1, <1>3

Writer(w) == w = [own |-> w.own, ext |-> w.ext]

LEMMA ExtAdded ==
  ASSUME NEW w, WriterOK(w), Length(w) > 0, w.own[Length(w)].t = "length",
         NEW kept \in Seq(Ext), \A i \in DOMAIN kept : kept[i].at = Length(w),
         NEW r, r.own = w.own, r.ext = w.ext \o kept, Writer(r)
  PROVE  WriterOK(r) /\ Length(r) = Length(w)
<1> DEFINE m == Len(w.ext)
           n == Len(kept)
<1>1. r.own = w.own /\ r.ext = w.ext \o kept
  OBVIOUS
<1>2. Length(w) \in Nat
  BY DEF WriterOK, Length
<1>3. n \in Nat
  OBVIOUS
<1>5. \A i \in 1 .. n : kept[i].at = Length(w)
  OBVIOUS
<1>6. w.ext \in Seq(Ext) /\ m \in Nat /\ DOMAIN w.ext = 1 .. m
  BY DEF WriterOK, Ext
<1> HIDE DEF m, n
<1>7. /\ r.ext \in Seq(Ext) /\ Len(r.ext) = m + n
      /\ \A k \in 1 .. m + n : r.ext[k] = IF k <= m THEN w.ext[k] ELSE kept[k - m]
  <2>1. /\ w.ext \o kept \in Seq(Ext) /\ Len(w.ext \o kept) = Len(w.ext) + Len(kept)
        /\ \A k \in 1 .. Len(w.ext) + Len(kept) :
             (w.ext \o kept)[k] = IF k <= Len(w.ext) THEN w.ext[k] ELSE kept[k - Len(w.ext)]
    BY <1>6, ConcatProperties
  <2>2. Len(w.ext) = m /\ Len(kept) = n
    BY DEF m, n
  <2> QED BY <1>1, <2>1, <2>2
<1>8. DOMAIN r.ext = 1 .. m + n
  BY <1>7
<1>9. \A k \in 1 .. m + n : IF k <= m THEN r.ext[k] = w.ext[k] /\ k \in DOMAIN w.ext
                                      ELSE r.ext[k].at = Length(w)
  <2> SUFFICES ASSUME NEW k \in 1 .. m + n
               PROVE  IF k <= m THEN r.ext[k] = w.ext[k] /\ k \in DOMAIN w.ext
                                ELSE r.ext[k].at = Length(w)
    OBVIOUS
  <2>1. CASE k <= m
    BY <1>3, <1>6, <1>7, <2>1
  <2>2. CASE ~(k <= m)
    <3>1. k - m \in 1 .. n
      BY <1>3, <1>6, <2>2
    <3> QED BY <1>5, <1>7, <2>2, <3>1
  <2> QED BY <2>1, <2>2
<1>10. \A j \in DOMAIN w.ext : w.ext[j].at \in 1 .. Length(w) /\ w.own[w.ext[j].at].t = "length"
  BY DEF WriterOK
<1>11. \A j \in DOMAIN r.ext : r.ext[j].at \in 1 .. Length(w) /\ r.own[r.ext[j].at].t = "length"
  <2>1. Length(w) \in 1 .. Length(w)
    BY <1>2
  <2> QED BY <1>1, <1>8, <1>9, <1>10, <2>1
<1>12. \A j, k \in DOMAIN r.ext : j <= k => r.ext[j].at <= r.ext[k].at
  <2> SUFFICES ASSUME NEW j \in 1 .. m + n, NEW k \in 1 .. m + n, j <= k
               PROVE  r.ext[j].at <= r.ext[k].at
    BY <1>8
  <2>1. CASE k <= m
    <3>1. j <= m
      BY <1>3, <1>6, <2>1
    <3> QED BY <1>9, <2>1, <3>1 DEF WriterOK
  <2>2. CASE ~(k <= m)
    <3>1. r.ext[j].at \in 1 .. Length(w)
      BY <1>8, <1>11
    <3>2. r.ext[k].at = Length(w)
      BY <1>9, <2>2
    <3>3. \A x \in 1 .. Length(w) : x <= Length(w)
      BY <1>2
    <3> QED BY <3>1, <3>2, <3>3, Zenon
  <2> QED BY <2>1, <2>2
<1>13. Length(r) = Length(w)
  BY <1>1 DEF Length
<1>14. WriterOK(r)
  <2>1. r = [own |-> r.own, ext |-> r.ext]
    BY DEF Writer
  <2> QED BY <2>1, <1>1, <1>7, <1>11, <1>12, <1>13 DEF WriterOK, Ext
<1> QED BY <1>13, <1>14


-----------------------------------------------------------------------------
\* Items added to the buffer are sent last, items changed before every payload are
\* sent in their places, and payloads added at the end are sent last too.
Follows(a, b, h) == Len(b) <= Len(a) /\ \A i \in h .. Len(b) : a[i] = b[i]

IsSeq(a) == \E T : a \in Seq(T)

LEMMA InsertFollows ==
  ASSUME NEW a, IsSeq(a), NEW b, IsSeq(b), NEW h \in Nat \ {0}, Follows(a, b, h),
         NEW e, e.at \in h .. Len(b)
  PROVE  LET x == Inserted(e, a)
             y == Inserted(e, b) IN
         /\ Follows(x, y, h) /\ Len(x) = Len(a) + 1 /\ Len(y) = Len(b) + 1
         /\ \A i \in 1 .. h - 1 : x[i] = a[i]
         /\ \A i \in 1 .. Len(a) - Len(b) : x[Len(y) + i] = a[Len(b) + i]
<1> DEFINE x == Inserted(e, a)
           y == Inserted(e, b)
<1>0. PICK I : a \in Seq(I) /\ b \in Seq(I) /\ Payload(e.p) \in I
  <2>1. PICK T, R : a \in Seq(T) /\ b \in Seq(R)
    BY DEF IsSeq
  <2>2. PICK I : I = T \cup R \cup {Payload(e.p)}
    OBVIOUS
  <2> QED BY <2>1, <2>2
<1>1. PICK m, n, c : m = Len(a) /\ n = Len(b) /\ c = e.at
  OBVIOUS
<1>2. m \in Nat /\ n \in Nat /\ n <= m /\ c \in h .. n /\ c \in 1 .. n /\ c \in 1 .. m
  BY <1>0, <1>1 DEF Follows
<1>3. /\ Len(x) = m + 1 /\ \A k \in 1 .. c : x[k] = a[k]
      /\ x[c + 1] = Payload(e.p)
      /\ \A k \in c + 2 .. m + 1 : x[k] = a[k - 1]
  BY <1>0, <1>1, <1>2, InsertedItems
<1>4. /\ Len(y) = n + 1 /\ \A k \in 1 .. c : y[k] = b[k]
      /\ y[c + 1] = Payload(e.p)
      /\ \A k \in c + 2 .. n + 1 : y[k] = b[k - 1]
  BY <1>0, <1>1, <1>2, InsertedItems
<1>5. \A i \in h .. n : a[i] = b[i]
  BY <1>1 DEF Follows
<1> HIDE DEF x, y
<1>6. ASSUME NEW i \in h .. n + 1 PROVE x[i] = y[i]
  <2>1. CASE i \in 1 .. c
    <3>1. i \in h .. n
      BY <1>2, <2>1
    <3> QED BY <1>3, <1>4, <1>5, <2>1, <3>1
  <2>2. CASE i = c + 1
    BY <1>3, <1>4, <2>2
  <2>3. CASE i \in c + 2 .. n + 1
    <3>1. i - 1 \in h .. n /\ i \in c + 2 .. m + 1
      BY <1>2, <2>3
    <3> QED BY <1>3, <1>4, <1>5, <2>3, <3>1
  <2>4. i \in 1 .. c \/ i = c + 1 \/ i \in c + 2 .. n + 1
    BY <1>2
  <2> QED BY <2>1, <2>2, <2>3, <2>4
<1>7. Follows(x, y, h)
  <2>1. Len(y) = n + 1 /\ Len(y) <= Len(x)
    BY <1>2, <1>3, <1>4
  <2> QED BY <1>6, <2>1 DEF Follows
<1>8. \A i \in 1 .. h - 1 : x[i] = a[i]
  BY <1>2, <1>3
<1>9. ASSUME NEW i \in 1 .. m - n PROVE x[(n + 1) + i] = a[n + i]
  <2>1. (n + 1) + i \in c + 2 .. m + 1 /\ ((n + 1) + i) - 1 = n + i
    BY <1>2
  <2> QED BY <1>3, <2>1
<1> QED BY <1>1, <1>3, <1>4, <1>7, <1>8, <1>9 DEF x, y

LEMMA SegmentsFollow ==
  ASSUME NEW w, WriterOK(w), NEW r, WriterOK(r), r.ext = w.ext, NEW h \in Nat \ {0},
         Follows(r.own, w.own, h), \A j \in DOMAIN w.ext : w.ext[j].at >= h
  PROVE  LET x == Segments(r)
             y == Segments(w) IN
         /\ Follows(x, y, h) /\ Len(x) \in Nat /\ Len(y) \in Nat
         /\ Len(x) - Len(y) = Length(r) - Length(w)
         /\ \A i \in 1 .. h - 1 : x[i] = r.own[i]
         /\ \A i \in 1 .. Length(r) - Length(w) : x[Len(y) + i] = r.own[Length(w) + i]
<1> DEFINE s == w.ext
           n == Len(s)
<1>1. PICK u, I :
           /\ u[n + 1] = w.own /\ u[1] = Segments(w)
           /\ w.own \in Seq(I) /\ \A j \in DOMAIN s : Payload(s[j].p) \in I
           /\ \A k \in 1 .. n : u[k] = Inserted(s[k], u[k + 1])
           /\ \A k \in 1 .. n + 1 : u[k] \in Seq(I) /\ Len(u[k]) >= Length(w)
  BY SegmentSteps
<1>2. PICK v, J :
           /\ v[n + 1] = r.own /\ v[1] = Segments(r)
           /\ r.own \in Seq(J) /\ \A j \in DOMAIN s : Payload(s[j].p) \in J
           /\ \A k \in 1 .. n : v[k] = Inserted(s[k], v[k + 1])
           /\ \A k \in 1 .. n + 1 : v[k] \in Seq(J) /\ Len(v[k]) >= Length(r)
  BY SegmentSteps
<1>3. n \in Nat /\ DOMAIN s = 1 .. n /\ Length(w) \in Nat /\ Length(r) \in Nat
  BY DEF WriterOK, Length
<1>4. \A j \in 1 .. n : s[j].at \in h .. Length(w)
  <2>1. \A j \in 1 .. n : s[j].at \in 1 .. Length(w) /\ s[j].at >= h
    BY <1>3 DEF WriterOK
  <2> QED BY <2>1, <1>3
<1> DEFINE d == Length(r) - Length(w)
           P(x, y) == /\ Follows(x, y, h) /\ Len(x) - Len(y) = d
                      /\ \A i \in 1 .. h - 1 : x[i] = r.own[i]
                      /\ \A i \in 1 .. d : x[Len(y) + i] = r.own[Length(w) + i]
           C == {k \in 1 .. n + 1 : P(v[k], u[k])}
<1> HIDE DEF n, s
<1>5. n + 1 \in C
  <2>1. Follows(r.own, w.own, h) /\ Len(r.own) - Len(w.own) = d
    BY DEF Length
  <2>2. \A i \in 1 .. h - 1 : r.own[i] = r.own[i]
    OBVIOUS
  <2>3. \A i \in 1 .. d : r.own[Len(w.own) + i] = r.own[Length(w) + i]
    BY DEF Length
  <2>4. n + 1 \in 1 .. n + 1
    BY <1>3
  <2>5. P(v[n + 1], u[n + 1])
    BY <1>1, <1>2, <2>1, <2>3
  <2> HIDE DEF P
  <2> QED BY <2>4, <2>5
<1>6. ASSUME NEW k \in 1 .. n, k + 1 \in C PROVE k \in C
  <2>1. PICK a, b, e : a = v[k + 1] /\ b = u[k + 1] /\ e = s[k]
    OBVIOUS
  <2>2. k + 1 \in 1 .. n + 1 /\ k \in 1 .. n + 1 /\ k \in DOMAIN s
    BY <1>3
  <2>3. P(a, b)
    BY <1>6, <2>1
  <2>4. /\ a \in Seq(J) /\ b \in Seq(I) /\ Len(b) >= Length(w)
        /\ Payload(e.p) \in I /\ Payload(e.p) \in J
        /\ v[k] = Inserted(e, a) /\ u[k] = Inserted(e, b)
    BY <1>1, <1>2, <2>1, <2>2
  <2>5. e.at \in h .. Len(b) /\ Len(a) \in Nat /\ Len(b) \in Nat
    BY <1>3, <1>4, <2>1, <2>4
  <2>6. PICK x, y : x = v[k] /\ y = u[k]
    OBVIOUS
  <2>7. Follows(a, b, h)
    BY <2>3
  <2>8. /\ Follows(x, y, h) /\ Len(x) = Len(a) + 1 /\ Len(y) = Len(b) + 1
        /\ \A i \in 1 .. h - 1 : x[i] = a[i]
        /\ \A i \in 1 .. Len(a) - Len(b) : x[Len(y) + i] = a[Len(b) + i]
    <3> HIDE DEF P, C
    <3>1. x = Inserted(e, a) /\ y = Inserted(e, b)
      BY <2>4, <2>6
    <3>2. IsSeq(a) /\ IsSeq(b)
      BY <2>4 DEF IsSeq
    <3>3. Follows(Inserted(e, a), Inserted(e, b), h)
      BY <3>2, <2>5, <2>7, InsertFollows
    <3>4. Len(Inserted(e, a)) = Len(a) + 1 /\ Len(Inserted(e, b)) = Len(b) + 1
      BY <3>2, <2>5, <2>7, InsertFollows
    <3>5. \A i \in 1 .. h - 1 : Inserted(e, a)[i] = a[i]
      BY <3>2, <2>5, <2>7, InsertFollows
    <3>6. \A i \in 1 .. Len(a) - Len(b) : Inserted(e, a)[Len(Inserted(e, b)) + i] = a[Len(b) + i]
      BY <3>2, <2>5, <2>7, InsertFollows
    <3> QED BY ONLY <3>1, <3>3, <3>4, <3>5, <3>6
  <2> HIDE DEF C
  <2>9. P(x, y)
    <3>1. Len(a) - Len(b) = d /\ \A i \in 1 .. h - 1 : a[i] = r.own[i]
      BY <2>3
    <3>2. \A i \in 1 .. d : a[Len(b) + i] = r.own[Length(w) + i]
      BY <2>3
    <3>3. Len(x) - Len(y) = d
      BY <2>5, <2>8, <3>1
    <3> HIDE DEF d
    <3> QED BY <2>8, <3>1, <3>2, <3>3
  <2> QED BY <2>2, <2>6, <2>9 DEF C
<1>7. 1 \in C
  <2>1. 1 \in 1 .. n + 1
    BY <1>3
  <2> HIDE DEF C
  <2> QED BY <1>3, <1>5, <1>6, <2>1, InductDown
<1>8. Segments(r) \in Seq(J) /\ Segments(w) \in Seq(I)
  <2>1. 1 \in 1 .. n + 1
    BY <1>3
  <2> QED BY <1>1, <1>2, <2>1
<1>9. P(Segments(r), Segments(w))
  <2> HIDE DEF P
  <2> QED BY <1>1, <1>2, <1>7
<1>10. Len(Segments(r)) \in Nat /\ Len(Segments(w)) \in Nat
  BY <1>8
<1> QED BY <1>9, <1>10

LEMMA SegmentsSpliced ==
  ASSUME NEW w, WriterOK(w), Length(w) > 0, NEW r, WriterOK(r), r.own = w.own,
         NEW kept \in Seq(Ext), r.ext = w.ext \o kept, \A j \in DOMAIN kept : kept[j].at = Length(w)
  PROVE  LET x == Segments(r)
             y == Segments(w) IN
         /\ Follows(x, y, 1) /\ Len(x) \in Nat /\ Len(y) \in Nat
         /\ \A i \in Len(y) + 1 .. Len(x) : x[i].t = "data"
<1> DEFINE s == r.ext
           m == Len(w.ext)
           n == Len(kept)
           l == Length(w)
<1>1. PICK u, I :
           /\ u[m + 1] = w.own /\ u[1] = Segments(w)
           /\ w.own \in Seq(I) /\ \A j \in DOMAIN w.ext : Payload(w.ext[j].p) \in I
           /\ \A k \in 1 .. m : u[k] = Inserted(w.ext[k], u[k + 1])
           /\ \A k \in 1 .. m + 1 : u[k] \in Seq(I) /\ Len(u[k]) >= Length(w)
  BY SegmentSteps
<1>2. PICK v, J :
           /\ v[Len(s) + 1] = r.own /\ v[1] = Segments(r)
           /\ r.own \in Seq(J) /\ \A j \in DOMAIN s : Payload(s[j].p) \in J
           /\ \A k \in 1 .. Len(s) : v[k] = Inserted(s[k], v[k + 1])
           /\ \A k \in 1 .. Len(s) + 1 : v[k] \in Seq(J) /\ Len(v[k]) >= Length(r)
  BY SegmentSteps
<1>3. /\ m \in Nat /\ n \in Nat /\ l \in Nat /\ l = Len(w.own) /\ l > 0
      /\ Len(s) = m + n /\ DOMAIN s = 1 .. m + n
      /\ \A k \in 1 .. m : s[k] = w.ext[k]
      /\ \A k \in m + 1 .. m + n : s[k].at = l
  <2>1. w.ext \in Seq(Ext) /\ w.own \in Seq(ToSet(w.own))
    BY DEF WriterOK, Ext
  <2>2. m \in Nat /\ n \in Nat /\ l \in Nat /\ l = Len(w.own) /\ l > 0
    BY <2>1 DEF Length
  <2>3. /\ w.ext \o kept \in Seq(Ext) /\ Len(w.ext \o kept) = m + n
        /\ \A k \in 1 .. m + n : (w.ext \o kept)[k] = IF k <= m THEN w.ext[k] ELSE kept[k - m]
    BY <2>1, ConcatProperties
  <2> HIDE DEF m, n, l
  <2>4. DOMAIN (w.ext \o kept) = 1 .. m + n
    BY <2>3
  <2>5. \A k \in 1 .. m : k \in 1 .. m + n /\ k <= m
    BY <2>2
  <2>6. \A k \in m + 1 .. m + n : k \in 1 .. m + n /\ ~(k <= m) /\ k - m \in 1 .. n
    BY <2>2
  <2>7. \A j \in 1 .. n : kept[j].at = l
    BY DEF n, l
  <2>8. s = w.ext \o kept
    OBVIOUS
  <2> HIDE DEF s
  <2>9. \A k \in 1 .. m : s[k] = w.ext[k]
    BY <2>3, <2>5, <2>8
  <2>10. \A k \in m + 1 .. m + n : s[k].at = l
    BY <2>3, <2>6, <2>7, <2>8
  <2> QED BY <2>2, <2>3, <2>4, <2>8, <2>9, <2>10
<1>4. \A j \in 1 .. m : w.ext[j].at \in 1 .. l
  <2>1. DOMAIN w.ext = 1 .. m
    BY DEF WriterOK
  <2> QED BY <2>1 DEF WriterOK
<1> HIDE DEF m, n, s, l
<1> DEFINE Goes(x, y) == Follows(x, y, 1) /\ \A i \in Len(y) + 1 .. Len(x) : x[i].t = "data"
           base == [k \in 1 .. m + n + 1 |-> IF k <= m THEN u[k] ELSE w.own]
           C == {k \in 1 .. m + n + 1 : Goes(v[k], base[k])}
<1>5. \A k \in 1 .. m + 1 : base[k] = u[k]
  BY <1>1, <1>3
<1>6. \A k \in m + 1 .. m + n + 1 : base[k] = w.own
  BY <1>3
<1>7. m + n + 1 \in C
  <2>1. m + n + 1 \in m + 1 .. m + n + 1 /\ m + n + 1 \in 1 .. m + n + 1
    BY <1>3
  <2>2. v[m + n + 1] = w.own
    BY <1>2, <1>3
  <2>3. Follows(w.own, w.own, 1) /\ Len(w.own) + 1 .. Len(w.own) = {}
    BY <1>3 DEF Follows
  <2>4. Goes(w.own, w.own)
    BY <2>3
  <2> HIDE DEF Goes, base
  <2> QED BY <1>6, <2>1, <2>2, <2>4
<1>8. ASSUME NEW k \in 1 .. m + n, k + 1 \in C PROVE k \in C
  <2>1. k \in 1 .. m + n + 1 /\ k + 1 \in 1 .. m + n + 1
    BY <1>3
  <2>2. PICK a, e, x : a = v[k + 1] /\ e = s[k] /\ x = v[k]
    OBVIOUS
  <2>3. a \in Seq(J) /\ Payload(e.p) \in J /\ x = Inserted(e, a)
    BY <1>2, <1>3, <2>1, <2>2
  <2>4. PICK b, y : b = base[k + 1] /\ y = base[k]
    OBVIOUS
  <2>5. Goes(a, b)
    BY <1>8, <2>2, <2>4
  <2> HIDE DEF C, base
  <2>6. Len(a) \in Nat
    BY <2>3
  <2>7. CASE k \in 1 .. m
    <3>1. b = u[k + 1] /\ y = Inserted(e, b) /\ b \in Seq(I) /\ Len(b) >= l /\ e.at \in 1 .. l
      <4>1. k \in 1 .. m + 1 /\ k + 1 \in 1 .. m + 1
        BY <1>3, <2>7
      <4> QED BY <1>1, <1>3, <1>4, <1>5, <2>2, <2>4, <2>7, <4>1 DEF l
    <3>2. e.at \in 1 .. Len(b) /\ Len(b) \in Nat
      BY <1>3, <3>1
    <3>3. Follows(a, b, 1) /\ IsSeq(a) /\ IsSeq(b) /\ 1 \in Nat \ {0}
      BY <2>3, <2>5, <3>1 DEF IsSeq
    <3> HIDE DEF Goes
    <3>4. Follows(x, y, 1)
      BY <2>3, <3>1, <3>2, <3>3, InsertFollows
    <3>5. Len(x) = Len(a) + 1 /\ Len(y) = Len(b) + 1
      BY <2>3, <3>1, <3>2, <3>3, InsertFollows
    <3>6. \A i \in 1 .. Len(a) - Len(b) : x[Len(y) + i] = a[Len(b) + i]
      <4>1. \A i \in 1 .. Len(a) - Len(b) :
              Inserted(e, a)[Len(Inserted(e, b)) + i] = a[Len(b) + i]
        BY ONLY <3>2, <3>3, InsertFollows
      <4> QED BY ONLY <2>3, <3>1, <4>1
    <3>7. ASSUME NEW i \in Len(y) + 1 .. Len(x) PROVE x[i].t = "data"
      <4>1. PICK d : d = i - Len(y)
        OBVIOUS
      <4>2. d \in 1 .. Len(a) - Len(b) /\ i = Len(y) + d /\ Len(b) + d \in Len(b) + 1 .. Len(a)
        <5>1. PICK p, q, h, z : p = Len(a) /\ q = Len(b) /\ h = Len(x) /\ z = Len(y)
          OBVIOUS
        <5>2. p \in Nat /\ q \in Nat /\ h = p + 1 /\ z = q + 1 /\ d = i - z /\ i \in z + 1 .. h
          BY <2>6, <3>2, <3>5, <4>1, <5>1
        <5>3. d \in 1 .. p - q /\ i = z + d /\ q + d \in q + 1 .. p
          BY ONLY <5>2
        <5> QED BY ONLY <5>1, <5>3
      <4>3. a[Len(b) + d].t = "data"
        BY <2>5, <4>2 DEF Goes
      <4> QED BY <3>6, <4>2, <4>3
    <3>8. Goes(x, y)
      BY <3>4, <3>7 DEF Goes
    <3> QED BY <2>1, <2>2, <2>4, <3>8 DEF C
  <2>8. CASE k \in m + 1 .. m + n
    <3>1. b = w.own /\ y = w.own /\ e.at = l
      <4>1. k \in m + 1 .. m + n + 1 /\ k + 1 \in m + 1 .. m + n + 1
        BY <1>3, <2>8
      <4> QED BY <1>3, <1>6, <2>2, <2>4, <2>8, <4>1
    <3>2. /\ Len(b) = l /\ l \in 1 .. Len(a) /\ \A i \in 1 .. l : a[i] = b[i]
          /\ \A i \in l + 1 .. Len(a) : a[i].t = "data"
      BY <1>3, <2>5, <2>6, <3>1 DEF Follows
    <3> HIDE DEF Goes
    <3>3. /\ Len(x) = Len(a) + 1
          /\ \A i \in 1 .. l : x[i] = a[i]
          /\ x[l + 1] = Payload(e.p)
          /\ \A i \in l + 2 .. Len(a) + 1 : x[i] = a[i - 1]
      <4>1. e.at \in 1 .. Len(a)
        BY <3>1, <3>2
      <4>2. /\ Len(x) = Len(a) + 1
            /\ \A i \in 1 .. e.at : x[i] = a[i]
            /\ x[e.at + 1] = Payload(e.p)
            /\ \A i \in e.at + 2 .. Len(a) + 1 : x[i] = a[i - 1]
        BY <2>3, <4>1, InsertedItems
      <4> QED BY <3>1, <4>2
    <3>4. Payload(e.p).t = "data"
      BY DEF Payload, Item
    <3>5. ASSUME NEW i \in l + 1 .. Len(x) PROVE x[i].t = "data"
      <4>1. CASE i = l + 1
        BY <3>3, <3>4, <4>1
      <4>2. CASE i # l + 1
        <5>1. i \in l + 2 .. Len(a) + 1 /\ i - 1 \in l + 1 .. Len(a)
          BY <1>3, <2>6, <3>3, <4>2
        <5> QED BY <3>2, <3>3, <5>1
      <4> QED BY <4>1, <4>2
    <3>6. Follows(x, y, 1)
      <4>1. Len(y) = l /\ l <= Len(x) /\ \A i \in 1 .. l : x[i] = y[i]
        BY <1>3, <2>6, <3>1, <3>2, <3>3
      <4> QED BY <4>1 DEF Follows
    <3>7. Goes(x, y)
      BY <3>1, <3>2, <3>5, <3>6 DEF Goes
    <3> QED BY <2>1, <2>2, <2>4, <3>7 DEF C
  <2>9. k \in 1 .. m \/ k \in m + 1 .. m + n
    BY <1>3
  <2> QED BY <2>7, <2>8, <2>9
<1>9. 1 \in C
  <2>1. 1 \in 1 .. (m + n) + 1 /\ m + n \in Nat /\ (m + n) + 1 = m + n + 1
    BY <1>3
  <2> HIDE DEF C
  <2> QED BY <1>7, <1>8, <2>1, InductDown
<1>10. 1 \in 1 .. m + 1 /\ 1 \in 1 .. m + n + 1
  BY <1>3
<1>11. Goes(Segments(r), Segments(w))
  BY <1>1, <1>2, <1>5, <1>9, <1>10
<1>12. Segments(r) \in Seq(J) /\ Segments(w) \in Seq(I)
  BY <1>1, <1>2, <1>3, <1>10
<1>13. Len(Segments(r)) \in Nat /\ Len(Segments(w)) \in Nat
  BY <1>12
<1> QED BY <1>11, <1>13

\* What is written at the end, payloads included, but for the results of operations.
Adds(r, w) ==
  /\ WriterOK(r) /\ Follows(r.own, w.own, 1) /\ Follows(Segments(r), Segments(w), 1)
  /\ \A i \in Len(Segments(w)) + 1 .. Len(Segments(r)) : Segments(r)[i].t # "op"

LEMMA SegmentsSeq ==
  ASSUME NEW w, WriterOK(w)
  PROVE  IsSeq(Segments(w)) /\ Len(Segments(w)) \in Nat
<1>1. PICK u, I : u[1] = Segments(w) /\ \A k \in 1 .. Len(w.ext) + 1 : u[k] \in Seq(I)
  BY SegmentSteps
<1>2. 1 \in 1 .. Len(w.ext) + 1
  BY DEF WriterOK
<1>3. Segments(w) \in Seq(I)
  BY <1>1, <1>2
<1> QED BY <1>3 DEF IsSeq

LEMMA AddsTrans ==
  ASSUME NEW w, WriterOK(w), NEW x, Adds(x, w), NEW r, Adds(r, x)
  PROVE  Adds(r, w)
<1>1. PICK a, b, c : a = Segments(w) /\ b = Segments(x) /\ c = Segments(r)
  OBVIOUS
<1>2. Len(a) \in Nat /\ Len(b) \in Nat /\ Len(c) \in Nat
  BY <1>1, SegmentsSeq DEF Adds
<1>3. Len(w.own) \in Nat /\ Len(x.own) \in Nat /\ Len(r.own) \in Nat
  BY DEF Adds, WriterOK
<1>4. Follows(r.own, w.own, 1)
  <2>1. Follows(r.own, x.own, 1) /\ Follows(x.own, w.own, 1)
    BY DEF Adds
  <2> QED BY <1>3, <2>1 DEF Follows
<1>5. /\ Follows(c, b, 1) /\ Follows(b, a, 1)
      /\ \A i \in Len(a) + 1 .. Len(b) : b[i].t # "op"
      /\ \A i \in Len(b) + 1 .. Len(c) : c[i].t # "op"
  BY <1>1 DEF Adds
<1>6. Follows(c, a, 1)
  BY <1>2, <1>5 DEF Follows
<1>7. ASSUME NEW i \in Len(a) + 1 .. Len(c) PROVE c[i].t # "op"
  <2>1. CASE i \in Len(a) + 1 .. Len(b)
    <3>1. i \in 1 .. Len(b)
      BY <1>2, <2>1
    <3>2. c[i] = b[i]
      BY <1>5, <3>1 DEF Follows
    <3> QED BY <1>5, <2>1, <3>2
  <2>2. CASE i \in Len(b) + 1 .. Len(c)
    BY <1>5, <2>2
  <2> QED BY <1>2, <2>1, <2>2
<1> QED BY <1>1, <1>4, <1>6, <1>7 DEF Adds

LEMMA PutAdds ==
  ASSUME NEW w, WriterOK(w), NEW items, Written(items), Follow(w.own, items),
         \A x \in ToSet(items) : x.t # "op"
  PROVE  Adds(Put(w, items), w)
<1>1. PICK r : r = Put(w, items)
  OBVIOUS
<1>2. /\ WriterOK(r) /\ r.ext = w.ext /\ Length(r) = Length(w) + Len(items)
      /\ \A k \in 1 .. Length(w) : r.own[k] = w.own[k]
      /\ \A k \in 1 .. Len(items) : r.own[Length(w) + k] = items[k]
  BY <1>1, PutKeeps
<1>3. Len(items) \in Nat /\ \A k \in 1 .. Len(items) : items[k] \in ToSet(items)
  BY SeqToSet DEF Written
<1>4. Length(w) \in Nat /\ Length(r) \in Nat
  BY <1>2 DEF WriterOK, Length
<1>5. Follows(r.own, w.own, 1)
  BY <1>2, <1>3, <1>4 DEF Follows, Length
<1>6. PICK h : h = 1
  OBVIOUS
<1>7. h \in Nat \ {0} /\ Follows(r.own, w.own, h) /\ \A j \in DOMAIN w.ext : w.ext[j].at >= h
  <2>1. \A j \in DOMAIN w.ext : w.ext[j].at \in 1 .. Length(w)
    BY DEF WriterOK
  <2> QED BY <1>4, <1>5, <1>6, <2>1
<1>8. PICK a, b : a = Segments(w) /\ b = Segments(r)
  OBVIOUS
<1>9. /\ Follows(b, a, h) /\ Len(b) \in Nat /\ Len(a) \in Nat
      /\ Len(b) - Len(a) = Length(r) - Length(w)
      /\ \A i \in 1 .. Length(r) - Length(w) : b[Len(a) + i] = r.own[Length(w) + i]
  <2>1. PICK d : d = Length(r) - Length(w)
    OBVIOUS
  <2>2. Follows(b, a, h) /\ Len(b) \in Nat /\ Len(a) \in Nat
    BY <1>2, <1>7, <1>8, SegmentsFollow
  <2>3. Len(b) - Len(a) = Length(r) - Length(w)
    BY <1>2, <1>7, <1>8, SegmentsFollow
  <2>4. \A i \in 1 .. Length(r) - Length(w) : b[Len(a) + i] = r.own[Length(w) + i]
    <3>1. \A i \in 1 .. Length(r) - Length(w) :
            Segments(r)[Len(Segments(w)) + i] = r.own[Length(w) + i]
      BY <1>2, <1>7, SegmentsFollow
    <3> QED BY ONLY <1>8, <3>1
  <2> QED BY <2>2, <2>3, <2>4
<1>10. ASSUME NEW i \in Len(a) + 1 .. Len(b) PROVE b[i].t # "op"
  <2>1. PICK k : k = i - Len(a)
    OBVIOUS
  <2>2. k \in 1 .. Len(items) /\ k \in 1 .. Length(r) - Length(w) /\ i = Len(a) + k
    BY <1>2, <1>3, <1>4, <1>9, <2>1
  <2>3. b[i] = items[k]
    BY <1>2, <1>9, <2>2
  <2> QED BY <1>3, <2>2, <2>3
<1> QED BY <1>1, <1>2, <1>5, <1>6, <1>8, <1>9, <1>10 DEF Adds

LEMMA ExtAdds ==
  ASSUME NEW w, WriterOK(w), Length(w) > 0, w.own[Length(w)].t = "length",
         NEW kept \in Seq(Ext), \A i \in DOMAIN kept : kept[i].at = Length(w),
         NEW r, r.own = w.own, r.ext = w.ext \o kept, Writer(r)
  PROVE  Adds(r, w)
<1>1. WriterOK(r)
  BY ExtAdded
<1>2. PICK a, b : a = Segments(w) /\ b = Segments(r)
  OBVIOUS
<1>3. Follows(b, a, 1) /\ \A i \in Len(a) + 1 .. Len(b) : b[i].t = "data"
  BY <1>1, <1>2, SegmentsSpliced
<1>4. Follows(r.own, w.own, 1)
  <2>1. Len(w.own) \in Nat
    BY DEF WriterOK
  <2> QED BY <2>1 DEF Follows
<1> QED BY <1>1, <1>2, <1>3, <1>4 DEF Adds

LEMMA PlainAdds ==
  ASSUME NEW w, WriterOK(w), NEW items, Plain(items), \A x \in ToSet(items) : x.t # "op"
  PROVE  Adds(Put(w, items), w)
<1>1. Written(items) /\ Follow(w.own, items)
  BY DEF Plain, Written, Follow, ToSet
<1> QED BY <1>1, PutAdds

LEMMA SpliceKeeps ==
  ASSUME NEW w, WriterOK(w), NEW parts \in Seq(Part),
         \A j, k \in DOMAIN parts : parts[j].b = parts[k].b => j = k
  PROVE  LET r == Splice(w, parts) IN
         /\ WriterOK(r) /\ Adds(r, w)
         /\ \E kept \in Seq(Ext) :
              /\ r.ext = w.ext \o kept
              /\ \A j, k \in DOMAIN kept : kept[j].p.b = kept[k].p.b => j = k
              /\ {kept[j].p.b : j \in DOMAIN kept} = {p.b : p \in ToSet(parts)} \ Consumed(parts)
<1> DEFINE r == Splice(w, parts)
           size == Item("length", Word(Bytes(parts)))
           sized == Put(w, <<size>>)
           full == NotEmpty(parts)
           copies == [i \in DOMAIN full |-> Payload(full[i])]
           kept == [i \in DOMAIN full |-> [at |-> Length(sized), p |-> full[i]]]
           beside == [sized EXCEPT !.ext = @ \o kept]
<1>1. /\ WriterOK(sized) /\ sized.ext = w.ext /\ Length(sized) > 0
      /\ sized.own[Length(sized)].t = "length" /\ Adds(sized, w)
  <2>1. <<size>> \in Seq({size}) /\ Len(<<size>>) = 1 /\ <<size>>[1] = size /\ DOMAIN <<size>> = {1}
        /\ size.t = "length" /\ size = Item(size.t, size.v)
    <3> HIDE DEF size
    <3>1. /\ <<size>> \in Seq({size}) /\ Len(<<size>>) = 1 /\ <<size>>[1] = size
          /\ DOMAIN <<size>> = {1}
      OBVIOUS
    <3>2. size.t = "length" /\ size = Item(size.t, size.v)
      BY DEF size, Item
    <3> QED BY <3>1, <3>2
  <2> HIDE DEF size
  <2>2. Written(<<size>>)
    <3>1. ToSet(<<size>>) = {size}
      BY <2>1 DEF ToSet
    <3> QED BY <2>1, <3>1 DEF Written
  <2>3. Follow(w.own, <<size>>)
    BY <2>1 DEF Follow
  <2>4. /\ WriterOK(sized) /\ sized.ext = w.ext /\ Length(sized) = Length(w) + Len(<<size>>)
        /\ \A k \in 1 .. Len(<<size>>) : sized.own[Length(w) + k] = <<size>>[k]
    <3> HIDE DEF sized
    <3>1. sized = Put(w, <<size>>)
      BY DEF sized
    <3>2. PICK q : q = <<size>>
      OBVIOUS
    <3>3. Written(q) /\ Follow(w.own, q)
      BY <2>2, <2>3, <3>2
    <3>4. /\ WriterOK(Put(w, q)) /\ Put(w, q).ext = w.ext /\ Length(Put(w, q)) = Length(w) + Len(q)
          /\ \A k \in 1 .. Len(q) : Put(w, q).own[Length(w) + k] = q[k]
      BY <3>3, PutKeeps
    <3> QED BY <3>1, <3>2, <3>4
  <2>6. Adds(sized, w)
    <3>1. PICK q : q = <<size>>
      OBVIOUS
    <3>2. \A x \in ToSet(q) : x.t # "op"
      BY <2>1, <3>1 DEF ToSet
    <3>3. Written(q) /\ Follow(w.own, q)
      BY <2>2, <2>3, <3>1
    <3>4. Adds(Put(w, q), w)
      BY <3>2, <3>3, PutAdds
    <3>5. sized = Put(w, <<size>>)
      OBVIOUS
    <3> HIDE DEF sized
    <3> QED BY ONLY <3>1, <3>4, <3>5
  <2>5. Length(w) \in Nat /\ 1 \in 1 .. Len(<<size>>)
    BY <2>1 DEF WriterOK, Length
  <2> HIDE DEF sized
  <2> QED BY <2>1, <2>4, <2>5, <2>6
<1> DEFINE N == {p \in ToSet(parts) : p.n > 0}
<1>2. full = Those(parts, N)
  BY DEF NotEmpty
<1>3. \A p \in ToSet(parts) : p \in Part /\ (p \in N <=> ~(p.n = 0))
  <2>1. \A p \in ToSet(parts) : p \in Part
    BY DEF ToSet
  <2>2. \A p \in Part : p.n \in Nat
    BY DEF Part
  <2>3. \A p \in ToSet(parts) : p.n > 0 <=> ~(p.n = 0)
    BY <2>1, <2>2
  <2> QED BY <2>1, <2>3
<1>4. N \subseteq ToSet(parts)
  OBVIOUS
<1> HIDE DEF size, sized, full, N
<1>5. /\ full \in Seq(Part)
      /\ \E places \in [DOMAIN full -> DOMAIN parts] :
              /\ \A j, k \in DOMAIN full : j < k => places[j] < places[k]
              /\ \A k \in DOMAIN full : full[k] = parts[places[k]] /\ full[k] \in N
              /\ \A i \in DOMAIN parts : parts[i] \in N => \E k \in DOMAIN full : places[k] = i
  BY <1>2, ThoseChosen
<1>6. PICK places \in [DOMAIN full -> DOMAIN parts] :
              /\ \A j, k \in DOMAIN full : j < k => places[j] < places[k]
              /\ \A k \in DOMAIN full : full[k] = parts[places[k]] /\ full[k] \in N
              /\ \A i \in DOMAIN parts : parts[i] \in N => \E k \in DOMAIN full : places[k] = i
  BY <1>5
<1>7. \A j, k \in DOMAIN full : full[j].b = full[k].b => j = k
  <2> SUFFICES ASSUME NEW j \in DOMAIN full, NEW k \in DOMAIN full, full[j].b = full[k].b
               PROVE  j = k
    OBVIOUS
  <2>1. places[j] = places[k] /\ places[j] \in Nat
    BY <1>6
  <2>2. j \in Nat /\ k \in Nat
    BY <1>5
  <2> QED BY <1>6, <2>1, <2>2
<1>8. {full[j].b : j \in DOMAIN full} = {p.b : p \in N}
  <2>1. \A j \in DOMAIN full : full[j] \in N
    BY <1>6
  <2>2. \A p \in N : \E j \in DOMAIN full : full[j] = p
    <3> SUFFICES ASSUME NEW p \in N PROVE \E j \in DOMAIN full : full[j] = p
      OBVIOUS
    <3>1. PICK i \in DOMAIN parts : parts[i] = p
      BY <1>4 DEF ToSet
    <3> QED BY <1>6, <3>1
  <2> QED BY <2>1, <2>2
<1>9. Plain(Padding(parts)) /\ \A x \in ToSet(Padding(parts)) : x.t # "op"
  <2>1. Plain(<<>>) /\ \A x \in ToSet(<<>>) : x.t # "op"
    BY DEF Plain, Written, ToSet
  <2>2. Plain(<<Item("pad", "0")>>) /\ \A x \in ToSet(<<Item("pad", "0")>>) : x.t # "op"
    <3>1. ToSet(<<Item("pad", "0")>>) = {Item("pad", "0")} /\ <<Item("pad", "0")>> \in Seq({Item("pad", "0")})
      BY DEF ToSet
    <3>2. Item("pad", "0").t = "pad" /\ Item("pad", "0").v = "0"
      BY DEF Item
    <3> QED BY <3>1, <3>2 DEF Plain, Written
  <2> QED BY <2>1, <2>2 DEF Padding
<1>10. CASE Copied(parts)
  <2>1. r = Put(Put(sized, copies), Padding(parts))
    BY <1>10 DEF Splice, sized, size, full
  <2>2. Written(copies) /\ \A k \in DOMAIN copies : copies[k].t = "data"
    <3>1. \A k \in DOMAIN full : Payload(full[k]).t = "data"
                                 /\ Payload(full[k]) = Item(Payload(full[k]).t, Payload(full[k]).v)
      BY DEF Payload, Item
    <3>2. copies \in Seq({Payload(full[k]) : k \in DOMAIN full})
      BY <1>5
    <3>3. copies \in Seq(ToSet(copies))
      <4> HIDE DEF copies
      <4> QED BY <3>2, SeqToSet
    <3> QED BY <3>1, <3>3 DEF Written, ToSet
  <2>3. Follow(sized.own, copies)
    <3>1. DOMAIN copies = 1 .. Len(full) /\ Len(full) \in Nat
      BY <1>5
    <3>2. \A k \in DOMAIN copies : k > 1 => k - 1 \in DOMAIN copies
      BY <3>1
    <3>3. sized.own # <<>> /\ sized.own[Len(sized.own)].t = "length"
      BY <1>1 DEF Length
    <3> HIDE DEF copies
    <3> QED BY <2>2, <3>2, <3>3 DEF Follow
  <2>4. WriterOK(Put(sized, copies)) /\ Put(sized, copies).ext = w.ext
    <3> HIDE DEF copies
    <3> QED BY <1>1, <2>2, <2>3, PutKeeps
  <2>5. WriterOK(r) /\ r.ext = w.ext
    <3> HIDE DEF copies, r
    <3> QED BY <1>9, <2>1, <2>4, PutPlain
  <2>9. Adds(r, w)
    <3>1. PICK x : x = Put(sized, copies)
      OBVIOUS
    <3>2. \A y \in ToSet(copies) : y.t # "op"
      BY <2>2 DEF ToSet
    <3> HIDE DEF copies
    <3>3. Adds(x, sized)
      BY <1>1, <2>2, <2>3, <3>1, <3>2, PutAdds
    <3>4. Adds(r, x)
      <4>1. r = Put(x, Padding(parts)) /\ WriterOK(x)
        BY <2>1, <2>4, <3>1
      <4> HIDE DEF r
      <4> QED BY <1>9, <4>1, PlainAdds
    <3>5. WriterOK(w) /\ Adds(sized, w)
      BY <1>1
    <3>6. Adds(x, w)
      BY ONLY <3>3, <3>5, AddsTrans
    <3> QED BY ONLY <3>4, <3>5, <3>6, AddsTrans
  <2>6. w.ext = w.ext \o <<>> /\ <<>> \in Seq(Ext) /\ DOMAIN <<>> = {}
    BY DEF WriterOK
  <2>7. Consumed(parts) = {p.b : p \in ToSet(parts)}
    BY <1>10 DEF Consumed
  <2>8. {<<>>[j].p.b : j \in DOMAIN <<>>} = {p.b : p \in ToSet(parts)} \ Consumed(parts)
    BY <2>6, <2>7
  <2> HIDE DEF r
  <2> QED BY <2>5, <2>6, <2>8, <2>9 DEF r
<1>11. CASE ~Copied(parts)
  <2>1. r = Put(beside, Padding(parts))
    BY <1>11 DEF Splice, sized, size, full
  <2>2. /\ WriterOK(beside) /\ beside.ext = sized.ext \o kept /\ kept \in Seq(Ext)
        /\ Adds(beside, sized)
    <3>1. beside = [sized EXCEPT !.ext = sized.ext \o kept]
      OBVIOUS
    <3>2. kept \in Seq(Ext) /\ \A i \in DOMAIN kept : kept[i].at = Length(sized)
      <4>1. full \in Seq(Part) /\ Length(sized) \in Nat
        BY <1>1, <1>5 DEF WriterOK, Length
      <4>2. \A i \in DOMAIN full : [at |-> Length(sized), p |-> full[i]] \in Ext
        <5>1. \A i \in DOMAIN full : full[i] \in Part
          BY <4>1
        <5> QED BY <4>1, <5>1 DEF Ext, Part
      <4> QED BY <4>1, <4>2
    <3> HIDE DEF kept, beside
    <3>3. sized = [own |-> sized.own, ext |-> sized.ext]
      BY <1>1 DEF WriterOK
    <3>4. beside.ext = sized.ext \o kept /\ beside.own = sized.own /\ Writer(beside)
      BY <3>1, <3>3, ExtChanged DEF Writer
    <3> QED BY <1>1, <3>2, <3>4, ExtAdded, ExtAdds
  <2>3. WriterOK(r) /\ r.ext = w.ext \o kept
    <3> HIDE DEF beside, kept, r
    <3> QED BY <1>1, <1>9, <2>1, <2>2, PutPlain
  <2>11. Adds(r, w)
    <3> HIDE DEF beside, kept
    <3>1. PICK x : x = beside
      OBVIOUS
    <3>2. Adds(r, x)
      <4>1. r = Put(x, Padding(parts)) /\ WriterOK(x)
        BY <2>1, <2>2, <3>1
      <4> HIDE DEF r
      <4> QED BY <1>9, <4>1, PlainAdds
    <3>3. WriterOK(w) /\ Adds(sized, w) /\ Adds(x, sized)
      BY <1>1, <2>2, <3>1
    <3>4. Adds(x, w)
      BY ONLY <3>3, AddsTrans
    <3> QED BY ONLY <3>2, <3>3, <3>4, AddsTrans
  <2>4. \A j \in DOMAIN full : kept[j].p.b = full[j].b
    OBVIOUS
  <2>5. DOMAIN kept = DOMAIN full
    OBVIOUS
  <2> HIDE DEF kept, beside
  <2>6. \A j, k \in DOMAIN kept : kept[j].p.b = kept[k].p.b => j = k
    BY <1>7, <2>4, <2>5
  <2>7. {kept[j].p.b : j \in DOMAIN kept} = {p.b : p \in N}
    <3>1. {kept[j].p.b : j \in DOMAIN kept} = {full[j].b : j \in DOMAIN full}
      BY <2>4, <2>5
    <3> QED BY <1>8, <3>1
  <2>8. Consumed(parts) = {p.b : p \in {q \in ToSet(parts) : q.n = 0}}
    BY <1>11 DEF Consumed
  <2>9. \A p, q \in ToSet(parts) : p.b = q.b => p = q
    BY DEF ToSet
  <2>10. {p.b : p \in N} = {p.b : p \in ToSet(parts)} \ Consumed(parts)
    BY <1>3, <1>4, <2>8, <2>9
  <2> HIDE DEF r
  <2> QED BY <2>2, <2>3, <2>6, <2>7, <2>10, <2>11 DEF r
<1> QED BY <1>10, <1>11

-----------------------------------------------------------------------------
\* What actions write that is no payload.
LEMMA PlainNone == Plain(<<>>)
BY DEF Plain, Written, ToSet

LEMMA PlainOne ==
  ASSUME NEW t, t # "data", NEW v
  PROVE  Plain(<<Item(t, v)>>)
<1>1. PICK x : x = Item(t, v)
  OBVIOUS
<1>2. x = Item(x.t, x.v) /\ x.t # "data"
  BY <1>1 DEF Item
<1>3. <<x>> \in Seq({x}) /\ ToSet(<<x>>) = {x}
  BY DEF ToSet
<1> QED BY <1>1, <1>2, <1>3 DEF Plain, Written

LEMMA PlainTwo ==
  ASSUME NEW t1, t1 # "data", NEW v1, NEW t2, t2 # "data", NEW v2
  PROVE  Plain(<<Item(t1, v1), Item(t2, v2)>>)
<1>1. PICK x, y : x = Item(t1, v1) /\ y = Item(t2, v2)
  OBVIOUS
<1>2. \A i \in {x, y} : i = Item(i.t, i.v) /\ i.t # "data"
  BY <1>1 DEF Item
<1>3. <<x, y>> \in Seq({x, y}) /\ ToSet(<<x, y>>) = {x, y}
  BY DEF ToSet
<1>4. Plain(<<x, y>>)
  BY <1>2, <1>3 DEF Plain, Written
<1> QED BY <1>1, <1>4

LEMMA PlainThree ==
  ASSUME NEW t1, t1 # "data", NEW v1, NEW t2, t2 # "data", NEW v2, NEW t3, t3 # "data", NEW v3
  PROVE  Plain(<<Item(t1, v1), Item(t2, v2), Item(t3, v3)>>)
<1>1. PICK x, y, z : x = Item(t1, v1) /\ y = Item(t2, v2) /\ z = Item(t3, v3)
  OBVIOUS
<1>2. \A i \in {x, y, z} : i = Item(i.t, i.v) /\ i.t # "data"
  BY <1>1 DEF Item
<1>3. <<x, y, z>> \in Seq({x, y, z}) /\ ToSet(<<x, y, z>>) = {x, y, z}
  BY DEF ToSet
<1>4. Plain(<<x, y, z>>)
  BY <1>2, <1>3 DEF Plain, Written
<1> QED BY <1>1, <1>4

LEMMA BegunOK ==
  ASSUME NEW op, WriterOK(out)
  PROVE  WriterOK(Begun(op)) /\ Begun(op).ext = out.ext /\ Length(Begun(op)) \in Nat
<1>1. Plain(ResultOf(op))
  <2>1. "op" # "data" /\ "result" # "data"
    OBVIOUS
  <2> QED BY <2>1, PlainTwo DEF ResultOf
<1>2. WriterOK(Begun(op)) /\ Begun(op).ext = out.ext
  BY <1>1, PutPlain DEF Begun
<1> HIDE DEF Begun
<1> QED BY <1>2 DEF WriterOK, Length

-----------------------------------------------------------------------------
\* The parts of the invariant that an action leaves alone.
LEMMA NodesKept ==
  ASSUME NodesOK, UNCHANGED <<cur, saved, tree, seen, known>>
  PROVE  NodesOK'
BY DEF NodesOK, There, Nodes, None

LEMMA HeardKept ==
  ASSUME HeardOK, UNCHANGED <<heard, seen>>
  PROVE  HeardOK'
BY DEF HeardOK, EofHonest, NotRead

LEMMA BuffersKept ==
  ASSUME BuffersOK, UNCHANGED <<taken, released>>, out'.ext = out.ext,
         at # "sent", at' # "sent", kind = "garbage_args" => kind' = "garbage_args"
  PROVE  BuffersOK'
<1>1. Spliced(out)' = Spliced(out)
  BY DEF Spliced
<1>2. Once(out.ext)'
  BY DEF BuffersOK, Once
<1> QED BY <1>1, <1>2 DEF BuffersOK, BuffersReturned

-----------------------------------------------------------------------------
\* The last lines of compound, and what an operation does last.
LEMMA RepliedWhole ==
  ASSUME NEW w, WriterOK(w), NEW status, NEW count, Replied(w, status, count)
  PROVE  /\ WriterOK(out)' /\ out'.ext = w.ext
         /\ at' = "replied" /\ kind' = "compound" /\ wait' = NoWait
<1> DEFINE x == Patch(w, 0, status)
           y == Patch(x, CountAt, Word(count))
<1>1. WriterOK(x) /\ x.ext = w.ext
  BY PatchKeeps
<1>2. out' = y
  BY DEF Replied
<1> HIDE DEF x
<1>3. WriterOK(y) /\ y.ext = x.ext
  BY <1>1, PatchKeeps
<1> HIDE DEF y
<1> QED BY <1>1, <1>2, <1>3 DEF Replied

LEMMA NoWaitOK ==
  ASSUME wait' = NoWait, at' # "await"
  PROVE  WaitOK'
<1>1. NoWait \in Await
  BY DEF Await, AwaitOps, AwaitSteps, NoWait
<1> QED BY <1>1 DEF WaitOK

LEMMA SucceedsKeeps ==
  ASSUME CallOK, at \in {"ops", "await"}, NEW w, WriterOK(w), NEW rest, Succeeds(w, rest)
  PROVE  /\ CallOK' /\ WriterOK(out)' /\ out'.ext = w.ext /\ WaitOK'
         /\ at' \in {"ops", "replied"} /\ kind' # "garbage_args"
<1>1. CASE todo = 1
  <2>1. Replied(w, "OK", produced + 1) /\ produced' = produced + 1 /\ todo' = todo - 1
    BY <1>1 DEF Succeeds
  <2>2. /\ WriterOK(out)' /\ out'.ext = w.ext
        /\ at' = "replied" /\ kind' = "compound" /\ wait' = NoWait
    BY <2>1, RepliedWhole
  <2>3. WaitOK'
    BY <2>2, NoWaitOK
  <2>4. CallOK'
    BY <1>1, <2>1, <2>2 DEF CallOK
  <2> QED BY <2>2, <2>3, <2>4
<1>2. CASE todo # 1
  <2>1. /\ produced' = produced + 1 /\ todo' = todo - 1
        /\ at' = "ops" /\ out' = w /\ wait' = NoWait /\ kind' = kind
    BY <1>2 DEF Succeeds
  <2>2. WaitOK'
    BY <2>1, NoWaitOK
  <2>3. CallOK'
    BY <1>2, <2>1 DEF CallOK
  <2>4. WriterOK(out)' /\ kind' # "garbage_args"
    BY <2>1 DEF CallOK
  <2> QED BY <2>1, <2>2, <2>3, <2>4
<1> QED BY <1>1, <1>2

LEMMA FailsKeeps ==
  ASSUME CallOK, BuffersOK, at \in {"ops", "await"},
         NEW w, WriterOK(w), w.ext = out.ext, NEW body \in 0 .. Length(w),
         NEW status, Fails(w, body, status), UNCHANGED taken
  PROVE  CallOK' /\ WriterOK(out)' /\ BuffersOK' /\ WaitOK' /\ at' # "await"
<1> DEFINE t == Truncate(w, body)
           p == Patch(t, body - 1, status)
<1>1. /\ produced' = produced + 1 /\ todo' = 0 /\ Release(Dropped(w, body))
      /\ Replied(p, status, produced + 1)
  BY DEF Fails
<1>2. /\ WriterOK(t)
      /\ \E places \in [DOMAIN t.ext -> DOMAIN w.ext] :
           /\ \A j, k \in DOMAIN t.ext : j < k => places[j] < places[k]
           /\ \A k \in DOMAIN t.ext : t.ext[k] = w.ext[places[k]] /\ t.ext[k].at < body
           /\ \A i \in DOMAIN w.ext : w.ext[i].at < body => \E k \in DOMAIN t.ext : places[k] = i
  BY TruncateKeeps
<1> HIDE DEF t
<1>3. WriterOK(p) /\ p.ext = t.ext
  BY <1>2, PatchKeeps
<1> HIDE DEF p
<1>4. /\ WriterOK(out)' /\ out'.ext = t.ext
      /\ at' = "replied" /\ kind' = "compound" /\ wait' = NoWait
  BY <1>1, <1>3, RepliedWhole
<1>5. CallOK' /\ WaitOK' /\ at' # "await"
  BY <1>1, <1>4, NoWaitOK DEF CallOK
<1>6. PICK places \in [DOMAIN t.ext -> DOMAIN w.ext] :
           /\ \A j, k \in DOMAIN t.ext : j < k => places[j] < places[k]
           /\ \A k \in DOMAIN t.ext : t.ext[k] = w.ext[places[k]] /\ t.ext[k].at < body
           /\ \A i \in DOMAIN w.ext : w.ext[i].at < body => \E k \in DOMAIN t.ext : places[k] = i
  BY <1>2
<1>7. Once(t.ext)
  <2> SUFFICES ASSUME NEW j \in DOMAIN t.ext, NEW k \in DOMAIN t.ext, t.ext[j].p.b = t.ext[k].p.b
               PROVE  j = k
    BY DEF Once
  <2>1. places[j] = places[k]
    BY <1>6 DEF BuffersOK, Once
  <2>2. j \in Nat /\ k \in Nat /\ places[j] \in Nat
    <3>1. t.ext \in Seq(Ext) /\ w.ext \in Seq(Ext)
      BY <1>2 DEF WriterOK, Ext
    <3> QED BY <1>6, <3>1
  <2> QED BY <1>6, <2>1, <2>2
<1>8. \A i \in DOMAIN w.ext : w.ext[i].at \in Nat /\ w.ext[i].p.b \in Buffers
  <2>1. w.ext \in Seq(Ext)
    BY DEF WriterOK, Ext
  <2>2. \A e \in Ext : e.at \in Nat /\ e.p.b \in Buffers
    BY DEF Ext
  <2> QED BY <2>1, <2>2
<1>9. Spliced(out)' = {t.ext[k].p.b : k \in DOMAIN t.ext}
      /\ Spliced(out) = {w.ext[i].p.b : i \in DOMAIN w.ext}
      /\ Dropped(w, body) = {w.ext[i].p.b : i \in {j \in DOMAIN w.ext : w.ext[j].at >= body}}
  BY <1>4 DEF Spliced, Dropped, ToSet
<1>10. Spliced(out)' \subseteq Spliced(out)
  BY <1>6, <1>9
<1>11. Dropped(w, body) = Spliced(out) \ Spliced(out)'
  <2>1. ASSUME NEW b \in Spliced(out), b \notin Dropped(w, body) PROVE b \in Spliced(out)'
    <3>1. PICK i \in DOMAIN w.ext : b = w.ext[i].p.b
      BY <1>9, <2>1
    <3>2. w.ext[i].at < body
      BY <1>8, <1>9, <2>1, <3>1
    <3> QED BY <1>6, <1>9, <3>1, <3>2
  <2>2. ASSUME NEW b \in Dropped(w, body) PROVE b \notin Spliced(out)'
    <3>1. PICK i \in DOMAIN w.ext : b = w.ext[i].p.b /\ w.ext[i].at >= body
      BY <1>9, <2>2
    <3>2. SUFFICES ASSUME NEW k \in DOMAIN t.ext, t.ext[k].p.b = b PROVE FALSE
      BY <1>9
    <3>3. w.ext[places[k]].p.b = w.ext[i].p.b /\ w.ext[places[k]].at < body
          /\ places[k] \in DOMAIN w.ext
      BY <1>6, <3>1, <3>2
    <3>4. places[k] = i
      BY <3>3 DEF BuffersOK, Once
    <3> QED BY <1>8, <3>1, <3>3, <3>4
  <2>3. Dropped(w, body) \subseteq Spliced(out)
    BY <1>9
  <2> QED BY <2>1, <2>2, <2>3
<1>12. \A b \in Buffers : released'[b] = released[b] + (IF b \in Dropped(w, body) THEN 1 ELSE 0)
  BY <1>1 DEF Release
<1>13. released' \in [Buffers -> Nat] /\ released \in [Buffers -> Nat]
  BY <1>1 DEF Release, BuffersOK
<1>14. \A b \in Spliced(out) : b \in Buffers /\ b \in 1 .. taken /\ released[b] = 0
  BY <1>8, <1>9 DEF BuffersOK, BuffersReturned
<1>15. \A b \in Buffers : released[b] <= 1
  BY DEF BuffersOK, BuffersReturned
<1>16. taken \in Nat /\ 1 .. taken \subseteq Buffers
  BY ReadAssumption DEF BuffersOK
<1>17. \A b \in Buffers : released'[b] <= 1
  BY <1>11, <1>12, <1>13, <1>14, <1>15
<1>18. \A b \in Spliced(out)' : released'[b] = 0
  BY <1>10, <1>11, <1>12, <1>14
<1>19. \A b \in 1 .. taken : released'[b] = 1 \/ b \in Spliced(out)'
  <2> SUFFICES ASSUME NEW b \in 1 .. taken, b \notin Spliced(out)' PROVE released'[b] = 1
    OBVIOUS
  <2>1. b \in Buffers
    BY <1>16
  <2>2. CASE b \in Spliced(out)
    BY <1>11, <1>12, <1>14, <2>1, <2>2
  <2>3. CASE b \notin Spliced(out)
    <3>1. released[b] = 1
      BY <2>3 DEF BuffersOK, BuffersReturned, CallOK
    <3> QED BY <1>11, <1>12, <2>1, <2>3, <3>1
  <2> QED BY <2>2, <2>3
<1>20. \A b \in Buffers : b > taken => released'[b] = 0
  <2> SUFFICES ASSUME NEW b \in Buffers, b > taken PROVE released'[b] = 0
    OBVIOUS
  <2>1. b \notin Spliced(out)
    BY <1>14, <1>16
  <2> QED BY <1>11, <1>12, <2>1 DEF BuffersOK
<1>21. BuffersOK'
  <2>1. (taken \in Buffers \cup {0})' /\ Once(out.ext)' /\ (Spliced(out) \subseteq 1 .. taken)'
    BY <1>4, <1>7, <1>10 DEF BuffersOK, Once
  <2> QED BY <2>1, <1>4, <1>13, <1>17, <1>18, <1>19, <1>20 DEF BuffersOK, BuffersReturned
<1> QED BY <1>4, <1>5, <1>21

-----------------------------------------------------------------------------
\* What an operation can do in its first turn, and in a later one.
LEMMA RefusedKeeps ==
  ASSUME CallInv, NEW op, NEW status, Refused(op, status)
  PROVE  CallInv'
<1> DEFINE w == Begun(op)
<1>1. /\ at = "ops" /\ Fails(w, Length(w), status)
      /\ UNCHANGED <<cur, saved, taken, heard, tree, seen, known>>
  BY DEF Refused, Number, fhVars, readVars, treeVars
<1>2. WriterOK(w) /\ w.ext = out.ext /\ Length(w) \in Nat
  BY BegunOK DEF CallInv
<1> HIDE DEF w
<1>3. Length(w) \in 0 .. Length(w)
  BY <1>2
<1>4. CallOK' /\ WriterOK(out)' /\ BuffersOK' /\ WaitOK'
  BY <1>1, <1>2, <1>3, FailsKeeps DEF CallInv
<1>5. NodesOK' /\ HeardOK'
  BY <1>1, NodesKept, HeardKept DEF CallInv
<1> QED BY <1>4, <1>5 DEF CallInv

LEMMA FailsAfterKeeps ==
  ASSUME CallInv, at = "await", NEW status, FailsAfter(status)
  PROVE  CallInv'
<1>1. Fails(out, Length(out), status) /\ UNCHANGED <<cur, saved, taken, heard, tree, seen, known>>
  BY DEF FailsAfter, fhVars, readVars, treeVars
<1>2. WriterOK(out) /\ Length(out) \in 0 .. Length(out)
  BY DEF CallInv, WriterOK, Length
<1>3. CallOK' /\ WriterOK(out)' /\ BuffersOK' /\ WaitOK'
  BY <1>1, <1>2, FailsKeeps DEF CallInv
<1>4. NodesOK' /\ HeardOK'
  BY <1>1, NodesKept, HeardKept DEF CallInv
<1> QED BY <1>3, <1>4 DEF CallInv

\* An operation that succeeds and has nothing to do with buffers.
LEMMA DoneKeeps ==
  ASSUME CallInv, at \in {"ops", "await"}, NEW w, WriterOK(w), w.ext = out.ext,
         NEW body, Plain(body), NEW rest, Succeeds(Put(w, body), rest),
         UNCHANGED <<taken, released, heard, seen>>
  PROVE  CallOK' /\ WriterOK(out)' /\ BuffersOK' /\ WaitOK' /\ HeardOK'
<1> DEFINE x == Put(w, body)
<1>1. WriterOK(x) /\ x.ext = out.ext
  BY PutPlain
<1>2. Succeeds(x, rest)
  OBVIOUS
<1> HIDE DEF x
<1>3. /\ CallOK' /\ WriterOK(out)' /\ out'.ext = out.ext /\ WaitOK'
      /\ at' \in {"ops", "replied"} /\ kind' # "garbage_args"
  BY <1>1, <1>2, SucceedsKeeps DEF CallInv
<1>4. BuffersOK'
  BY <1>3, BuffersKept DEF CallInv, CallOK
<1>5. HeardOK'
  BY HeardKept DEF CallInv
<1> QED BY <1>3, <1>4, <1>5

LEMMA AnsweredKeeps ==
  ASSUME CallInv, NEW op, NEW body, Plain(body), Answered(op, body), UNCHANGED <<bufferVars, treeVars>>
  PROVE  CallOK' /\ WriterOK(out)' /\ BuffersOK' /\ WaitOK' /\ HeardOK'
<1>1. at = "ops" /\ Succeeds(Put(Begun(op), body), LeftBy(op))
  BY DEF Answered, Number
<1>2. WriterOK(Begun(op)) /\ Begun(op).ext = out.ext
  BY BegunOK DEF CallInv
<1>3. UNCHANGED <<taken, released, heard, seen>>
  BY DEF bufferVars, readVars, treeVars
<1> QED BY <1>1, <1>2, <1>3, DoneKeeps

LEMMA AnsweredAlone ==
  ASSUME CallInv, NEW op, NEW body, Plain(body), Answered(op, body),
         UNCHANGED <<fhVars, bufferVars, treeVars, known>>
  PROVE  CallInv'
<1>1. CallOK' /\ WriterOK(out)' /\ BuffersOK' /\ WaitOK' /\ HeardOK'
  BY AnsweredKeeps
<1>2. NodesOK'
  BY NodesKept DEF CallInv, fhVars, treeVars
<1> QED BY <1>1, <1>2 DEF CallInv

LEMMA SettledAlone ==
  ASSUME CallInv, at = "await", NEW body, Plain(body), NEW rest, Succeeds(Put(out, body), rest),
         UNCHANGED <<fhVars, bufferVars, treeVars, known>>
  PROVE  CallInv'
<1>1. WriterOK(out) /\ UNCHANGED <<taken, released, heard, seen>>
  BY DEF CallInv, bufferVars, readVars, treeVars
<1>2. CallOK' /\ WriterOK(out)' /\ BuffersOK' /\ WaitOK' /\ HeardOK'
  BY <1>1, DoneKeeps
<1>3. NodesOK'
  BY NodesKept DEF CallInv, fhVars, treeVars
<1> QED BY <1>2, <1>3 DEF CallInv

\* An operation starts to wait.
LEMMA AwaitsKeeps ==
  ASSUME CallInv, at \in {"ops", "await"}, NEW w, WriterOK(w), w.ext = out.ext,
         NEW op \in AwaitOps, NEW step \in AwaitSteps, NEW path \in Paths \cup {"none"},
         NEW from \in Nat, NEW length \in Nat,
         op # "CLOSE" => path \in Paths,
         op = "READ" => cur # None /\ path = cur.path,
         op = "OPEN" /\ step = "open" => length \in seen[path],
         Awaits(op, w, step, path, from, length), UNCHANGED <<fhVars, bufferVars, treeVars, known>>
  PROVE  CallInv'
<1>1. /\ at' = "await" /\ out' = w /\ UNCHANGED <<todo, produced, kind>>
      /\ wait' = [op |-> op, step |-> step, path |-> path, from |-> from, length |-> length]
  BY DEF Awaits
<1>2. UNCHANGED <<cur, saved, taken, heard, released, tree, seen, known>>
  BY DEF fhVars, bufferVars, readVars, treeVars
<1>3. CallOK' /\ WriterOK(out)'
  BY <1>1 DEF CallInv, CallOK
<1>4. BuffersOK'
  BY <1>1, <1>2, BuffersKept DEF CallInv, CallOK
<1>5. NodesOK' /\ HeardOK'
  BY <1>2, NodesKept, HeardKept DEF CallInv
<1>6. wait' \in Await
  BY <1>1 DEF Await
<1>7. wait'.op = op /\ wait'.step = step /\ wait'.path = path /\ wait'.length = length
  BY <1>1
<1>8. WaitOK'
  BY <1>2, <1>6, <1>7 DEF WaitOK, None
<1> QED BY <1>3, <1>4, <1>5, <1>8 DEF CallInv

LEMMA WaitsKeeps ==
  ASSUME CallInv, NEW op \in AwaitOps, NEW step \in AwaitSteps, NEW path \in Paths \cup {"none"},
         op # "CLOSE" => path \in Paths, op # "READ", step # "open",
         Waits(op, step, path)
  PROVE  CallInv'
<1>1. /\ at = "ops" /\ Awaits(op, Begun(op), step, path, 0, 0)
      /\ UNCHANGED <<fhVars, bufferVars, treeVars, known>>
  BY DEF Waits, Number
<1>2. WriterOK(Begun(op)) /\ Begun(op).ext = out.ext
  BY BegunOK DEF CallInv
<1>3. 0 \in Nat
  OBVIOUS
<1> QED BY <1>1, <1>2, <1>3, AwaitsKeeps

-----------------------------------------------------------------------------
\* The operations in their first turn.
LEMMA NodeOf ==
  ASSUME NodesOK, NEW f \in {cur, saved}, f # None
  PROVE  f.path \in Paths /\ f.size \in Sizes /\ f.size \in Nat /\ f.size \in seen[f.path]
BY TreeAssumption DEF NodesOK, Nodes

LEMMA FhKeeps ==
  ASSUME CallInv, GetFh \/ SaveFh \/ RestoreFh
  PROVE  CallInv'
<1>1. CASE GetFh
  <2>1. CASE cur = None /\ Refused("GETFH", "NOFILEHANDLE")
    BY <2>1, RefusedKeeps
  <2>2. CASE /\ cur # None /\ Answered("GETFH", <<Item("fh", cur.path)>>)
             /\ UNCHANGED <<fhVars, bufferVars, treeVars, known>>
    <3>1. Plain(<<Item("fh", cur.path)>>)
      BY PlainOne
    <3> QED BY <2>2, <3>1, AnsweredAlone
  <2> QED BY <1>1, <2>1, <2>2 DEF GetFh
<1>2. CASE SaveFh
  <2>1. CASE cur = None /\ Refused("SAVEFH", "NOFILEHANDLE")
    BY <2>1, RefusedKeeps
  <2>2. CASE /\ cur # None /\ Answered("SAVEFH", <<>>) /\ saved' = cur
             /\ UNCHANGED <<cur, bufferVars, treeVars, known>>
    <3>1. CallOK' /\ WriterOK(out)' /\ BuffersOK' /\ WaitOK' /\ HeardOK'
      BY <2>2, PlainNone, AnsweredKeeps
    <3>2. NodesOK'
      BY <2>2 DEF CallInv, NodesOK, treeVars, There, Nodes, None
    <3> QED BY <3>1, <3>2 DEF CallInv
  <2> QED BY <1>2, <2>1, <2>2 DEF SaveFh
<1>3. CASE RestoreFh
  <2>1. CASE saved = None /\ Refused("RESTOREFH", "RESTOREFH")
    BY <2>1, RefusedKeeps
  <2>2. CASE /\ saved # None /\ Answered("RESTOREFH", <<>>) /\ cur' = saved
             /\ UNCHANGED <<saved, bufferVars, treeVars, known>>
    <3>1. CallOK' /\ WriterOK(out)' /\ BuffersOK' /\ WaitOK' /\ HeardOK'
      BY <2>2, PlainNone, AnsweredKeeps
    <3>2. NodesOK'
      BY <2>2 DEF CallInv, NodesOK, treeVars, There, Nodes, None
    <3> QED BY <3>1, <3>2 DEF CallInv
  <2> QED BY <1>3, <2>1, <2>2 DEF RestoreFh
<1> QED BY <1>1, <1>2, <1>3

LEMMA AttributesKeep ==
  ASSUME CallInv, ReadLink \/ GetAttr
  PROVE  CallInv'
<1>1. CASE ReadLink
  <2>1. ASSUME NEW e, Refused("READLINK", e) PROVE CallInv'
    BY <2>1, RefusedKeeps
  <2>2. CASE /\ Answered("READLINK", <<Item("target", cur.path)>>)
             /\ UNCHANGED <<fhVars, bufferVars, treeVars, known>>
    <3>1. Plain(<<Item("target", cur.path)>>)
      BY PlainOne
    <3> QED BY <2>2, <3>1, AnsweredAlone
  <2> QED BY <1>1, <2>1, <2>2 DEF ReadLink
<1>2. CASE GetAttr
  <2>1. CASE Refused("GETATTR", "NOFILEHANDLE")
    BY <2>1, RefusedKeeps
  <2>2. ASSUME NEW r \in Requests,
               Answered("GETATTR", Fattr(SupportedOf(ReadBitmap(r)), cur.size)),
               UNCHANGED <<fhVars, bufferVars, treeVars, known>>
        PROVE  CallInv'
    <3>1. Plain(Fattr(SupportedOf(ReadBitmap(r)), cur.size))
      BY PlainTwo DEF Fattr
    <3> QED BY <2>2, <3>1, AnsweredAlone
  <2> QED BY <1>2, <2>1, <2>2 DEF GetAttr
<1> QED BY <1>1, <1>2

LEMMA VerifyKeeps ==
  ASSUME CallInv, NEW op, NEW fault, NEW wanted, Verify(op, fault, wanted)
  PROVE  CallInv'
<1>1. ASSUME NEW e, Refused(op, e) PROVE CallInv'
  BY <1>1, RefusedKeeps
<1>2. CASE Answered(op, <<>>) /\ UNCHANGED <<fhVars, bufferVars, treeVars, known>>
  BY <1>2, PlainNone, AnsweredAlone
<1> QED BY <1>1, <1>2 DEF Verify

LEMMA WalkKeeps ==
  ASSUME CallInv, PutRoot \/ PutFh \/ Lookup \/ Lookupp
  PROVE  CallInv'
<1>1. /\ {"PUTROOTFH", "PUTFH", "LOOKUP", "SECINFO", "REMOVE", "OPEN", "LOOKUPP"} \subseteq AwaitOps
      /\ {"resolve", "lookup"} \subseteq AwaitSteps
  BY DEF AwaitOps, AwaitSteps
<1>2. ASSUME NEW op \in {"PUTROOTFH", "PUTFH", "LOOKUP", "SECINFO", "REMOVE", "OPEN", "LOOKUPP"},
             NEW step \in {"resolve", "lookup"}, NEW p \in Paths, Waits(op, step, p)
      PROVE  CallInv'
  <2>1. op \in AwaitOps /\ step \in AwaitSteps /\ op # "READ" /\ step # "open"
    BY <1>1
  <2> QED BY <1>2, <2>1, WaitsKeeps
<1>3. ASSUME NEW op, NEW e, Refused(op, e) PROVE CallInv'
  BY <1>3, RefusedKeeps
<1>4. ASSUME NEW op, InDir(op) PROVE CallInv'
  BY <1>3, <1>4 DEF InDir
<1>5. CASE PutRoot
  BY <1>2, <1>5, TreeAssumption DEF PutRoot
<1>6. CASE PutFh
  BY <1>2, <1>3, <1>6 DEF PutFh
<1>7. CASE Lookup
  BY <1>2, <1>4, <1>7 DEF Lookup
<1>8. CASE Lookupp
  <2>1. CASE InDir("LOOKUPP")
    BY <1>4, <2>1
  <2>2. CASE Refused("LOOKUPP", "NOENT")
    BY <1>3, <2>2
  <2>3. CASE /\ DirFault = "OK" /\ cur.path # Root
             /\ Waits("LOOKUPP", "resolve", Parent[cur.path])
    <3>1. cur # None
      BY <2>3 DEF DirFault
    <3>2. Parent[cur.path] \in Paths
      BY <2>3, <3>1, NodeOf, TreeAssumption DEF CallInv
    <3> QED BY <1>2, <2>3, <3>2
  <2> QED BY <1>8, <2>1, <2>2, <2>3 DEF Lookupp
<1> QED BY <1>5, <1>6, <1>7, <1>8

LEMMA ListsKeep ==
  ASSUME CallInv, Access \/ Readdir
  PROVE  CallInv'
<1>1. ASSUME NEW op, NEW e, Refused(op, e) PROVE CallInv'
  BY <1>1, RefusedKeeps
<1>2. ASSUME NEW op \in {"ACCESS", "READDIR"}, cur # None, Waits(op, "readdir", cur.path)
      PROVE  CallInv'
  <2>1. op \in AwaitOps /\ "readdir" \in AwaitSteps /\ op # "READ"
    BY DEF AwaitOps, AwaitSteps
  <2>2. cur.path \in Paths
    BY <1>2, NodeOf DEF CallInv
  <2> QED BY <1>2, <2>1, <2>2, WaitsKeeps
<1>3. CASE Access
  <2>1. CASE Refused("ACCESS", "NOFILEHANDLE")
    BY <1>1, <2>1
  <2>2. CASE /\ Answered("ACCESS", <<Item("granted", "read")>>)
             /\ UNCHANGED <<fhVars, bufferVars, treeVars, known>>
    <3>1. Plain(<<Item("granted", "read")>>)
      BY PlainOne
    <3> QED BY <2>2, <3>1, AnsweredAlone
  <2> QED BY <1>2, <1>3, <2>1, <2>2 DEF Access
<1>4. CASE Readdir
  <2>1. DirFault = "OK" => cur # None
    BY DEF DirFault
  <2> QED BY <1>1, <1>2, <1>4, <2>1 DEF Readdir, InDir
<1> QED BY <1>3, <1>4

LEMMA OthersKeep ==
  ASSUME CallInv, OpenRefused \/ StateOp \/ CloseOp \/ Unsupported \/ Illegal \/ BadArguments
  PROVE  CallInv'
<1>1. ASSUME NEW op, NEW e, Refused(op, e) PROVE CallInv'
  BY <1>1, RefusedKeeps
<1>2. CASE OpenRefused
  BY <1>1, <1>2 DEF OpenRefused
<1>3. CASE StateOp
  <2>1. ASSUME NEW op, Answered(op, <<>>), UNCHANGED <<fhVars, bufferVars, treeVars, known>>
        PROVE  CallInv'
    BY <2>1, PlainNone, AnsweredAlone
  <2> QED BY <1>1, <1>3, <2>1 DEF StateOp
<1>4. CASE CloseOp
  <2>1. "CLOSE" \in AwaitOps /\ "close" \in AwaitSteps
    BY DEF AwaitOps, AwaitSteps
  <2>2. CASE Waits("CLOSE", "close", "none")
    BY <2>1, <2>2, WaitsKeeps
  <2> QED BY <1>1, <1>4, <2>2 DEF CloseOp
<1>5. CASE Unsupported \/ Illegal \/ BadArguments
  BY <1>1, <1>5 DEF Unsupported, Illegal, BadArguments
<1> QED BY <1>2, <1>3, <1>4, <1>5

LEMMA CutOffKeeps ==
  ASSUME CallInv, CutOff
  PROVE  CallInv'
<1>1. /\ at = "ops" /\ at' = "replied" /\ kind' = "garbage_args" /\ out' = EmptyWriter /\ todo' = 0
      /\ UNCHANGED <<wait, produced, cur, saved, taken, heard, released, tree, seen, known>>
  BY DEF CutOff, fhVars, bufferVars, readVars, treeVars
<1>2. WriterOK(EmptyWriter) /\ EmptyWriter.ext = <<>>
  BY DEF WriterOK, EmptyWriter, InPlace, ToSet
<1>3. CallOK' /\ WriterOK(out)'
  BY <1>1, <1>2 DEF CallInv, CallOK
<1>4. Once(out.ext)' /\ Spliced(out)' = {}
  BY <1>1, <1>2 DEF Once, Spliced, ToSet
<1>5. BuffersOK'
  BY <1>1, <1>4 DEF CallInv, BuffersOK, BuffersReturned
<1>6. NodesOK' /\ HeardOK'
  BY <1>1, NodesKept, HeardKept DEF CallInv
<1>7. WaitOK'
  BY <1>1 DEF CallInv, WaitOK
<1> QED BY <1>3, <1>5, <1>6, <1>7 DEF CallInv

-----------------------------------------------------------------------------
\* READ.
LEMMA MinOfTwo ==
  ASSUME NEW a \in Int, NEW b \in Int
  PROVE  Min({a, b}) = IF a <= b THEN a ELSE b
<1> DEFINE m == IF a <= b THEN a ELSE b
           P(x) == x \in {a, b} /\ \A y \in {a, b} : x =< y
<1>1. P(m) /\ \A x : P(x) => x = m
  OBVIOUS
<1>2. Min({a, b}) = CHOOSE x : P(x)
  BY DEF Min
<1> HIDE DEF P, m
<1>3. Min({a, b}) = m
  BY <1>1, <1>2
<1> QED BY <1>3 DEF m

LEMMA MaxOfTwo ==
  ASSUME NEW a \in Int, NEW b \in Int
  PROVE  Max({a, b}) = IF a <= b THEN b ELSE a
<1> DEFINE m == IF a <= b THEN b ELSE a
           P(x) == x \in {a, b} /\ \A y \in {a, b} : x >= y
<1>1. P(m) /\ \A x : P(x) => x = m
  OBVIOUS
<1>2. Max({a, b}) = CHOOSE x : P(x)
  BY DEF Max
<1> HIDE DEF P, m
<1>3. Max({a, b}) = m
  BY <1>1, <1>2
<1> QED BY <1>3 DEF m

\* What a READ gets is no more than it asked for, and less only at the file's end.
LEMMA GotToEnd ==
  ASSUME NEW from \in Nat, NEW length \in Nat, NEW size \in Nat
  PROVE  LET got == Got(from, length, size) IN
         got \in Nat /\ got <= length /\ (got < length => from + got >= size)
<1> DEFINE d == Max({size - from, 0})
<1>1. size - from \in Int /\ 0 \in Int /\ length \in Int
  OBVIOUS
<1>2. d = IF size - from <= 0 THEN 0 ELSE size - from
  BY <1>1, MaxOfTwo
<1>3. Got(from, length, size) = Min({length, d})
  BY DEF Got
<1> HIDE DEF d
<1>4. d \in Int
  BY <1>2
<1>5. Min({length, d}) = IF length <= d THEN length ELSE d
  BY <1>1, <1>4, MinOfTwo
<1> QED BY <1>2, <1>3, <1>5

\* The parts a handle fills, each in the next buffer.
LEMMA PartsNext ==
  ASSUME NEW got \in Nat, NEW parts \in Parts(got), taken \in Nat,
         taken + Len(parts) \in Buffers
  PROVE  parts \in Seq(Part) /\ \A j \in DOMAIN parts : parts[j].b = taken + j
<1>1. 1 .. taken + Len(parts) \subseteq Buffers
  BY ReadAssumption
<1>2. CASE parts = <<[b |-> taken + 1, n |-> got]>>
  <2>1. Len(parts) = 1 /\ DOMAIN parts = {1} /\ parts[1] = [b |-> taken + 1, n |-> got]
    BY <1>2
  <2>2. taken + 1 \in Buffers
    BY <2>1
  <2>3. [b |-> taken + 1, n |-> got] \in Part
    BY <2>2 DEF Part
  <2> QED BY <1>2, <2>1, <2>3
<1>3. ASSUME NEW i \in {0, 1} \cap 0 .. got,
             parts = <<[b |-> taken + 1, n |-> i], [b |-> taken + 2, n |-> got - i]>>
      PROVE  parts \in Seq(Part) /\ \A j \in DOMAIN parts : parts[j].b = taken + j
  <2>1. /\ Len(parts) = 2 /\ DOMAIN parts = {1, 2}
        /\ parts[1] = [b |-> taken + 1, n |-> i] /\ parts[2] = [b |-> taken + 2, n |-> got - i]
    BY <1>3
  <2>2. taken + 1 \in Buffers /\ taken + 2 \in Buffers
    <3>1. taken + 1 \in 1 .. taken + Len(parts) /\ taken + 2 \in 1 .. taken + Len(parts)
      BY <2>1
    <3> QED BY <1>1, <3>1
  <2>3. i \in Nat /\ got - i \in Nat
    OBVIOUS
  <2>4. [b |-> taken + 1, n |-> i] \in Part /\ [b |-> taken + 2, n |-> got - i] \in Part
    BY <2>2, <2>3 DEF Part
  <2> QED BY <1>3, <2>1, <2>4
<1> QED BY <1>2, <1>3 DEF Parts

\* Buffers that are filled are released or beside the reply.
LEMMA FilledKeeps ==
  ASSUME BuffersOK, WriterOK(out), kind # "garbage_args", at # "sent", at' # "sent",
         NEW w, WriterOK(w), w.ext = out.ext,
         NEW parts \in Seq(Part), \A j \in DOMAIN parts : parts[j].b = taken + j,
         taken' = taken + Len(parts), taken' \in Buffers \cup {0},
         Release(Consumed(parts)), out'.ext = Splice(w, parts).ext
  PROVE  BuffersOK'
<1> DEFINE n == Len(parts)
           new == taken + 1 .. taken + n
<1>1. taken \in Nat /\ n \in Nat /\ DOMAIN parts = 1 .. n /\ taken' = taken + n
  <2>1. taken \in Nat
    BY ReadAssumption DEF BuffersOK
  <2> QED BY <2>1
<1>2. 1 .. taken + n \subseteq Buffers
  BY <1>1, ReadAssumption
<1>3. \A j, k \in DOMAIN parts : parts[j].b = parts[k].b => j = k
  BY <1>1
<1>4. {p.b : p \in ToSet(parts)} = new
  <2>1. {p.b : p \in ToSet(parts)} = {parts[j].b : j \in 1 .. n}
    BY <1>1 DEF ToSet
  <2>2. {parts[j].b : j \in 1 .. n} = {taken + j : j \in 1 .. n}
    BY <1>1
  <2>3. {taken + j : j \in 1 .. n} = new
    <3>1. \A b \in new : b - taken \in 1 .. n /\ b = taken + (b - taken)
      BY <1>1
    <3>2. \A j \in 1 .. n : taken + j \in new
      BY <1>1
    <3> QED BY <3>1, <3>2
  <2> QED BY <2>1, <2>2, <2>3
<1> HIDE DEF n, new
<1>5. PICK kept \in Seq(Ext) :
        /\ Splice(w, parts).ext = w.ext \o kept
        /\ \A j, k \in DOMAIN kept : kept[j].p.b = kept[k].p.b => j = k
        /\ {kept[j].p.b : j \in DOMAIN kept} = {p.b : p \in ToSet(parts)} \ Consumed(parts)
  BY <1>3, SpliceKeeps
<1> DEFINE m == Len(out.ext)
           l == Len(kept)
           e == out'.ext
           used == Consumed(parts)
<1>6. e = out.ext \o kept
  BY <1>5
<1>7. out.ext \in Seq(Ext) /\ m \in Nat /\ l \in Nat /\ DOMAIN out.ext = 1 .. m /\ DOMAIN kept = 1 .. l
  BY DEF WriterOK, Ext
<1>8. /\ e \in Seq(Ext) /\ Len(e) = m + l
      /\ \A k \in 1 .. m + l : e[k] = IF k <= m THEN out.ext[k] ELSE kept[k - m]
  BY <1>6, <1>7, ConcatProperties
<1> HIDE DEF m, l, e
<1>9. DOMAIN e = 1 .. m + l
  BY <1>8
<1>10. \A k \in 1 .. m : k \in 1 .. m + l /\ e[k] = out.ext[k]
  BY <1>7, <1>8
<1>11. \A k \in 1 .. l : m + k \in 1 .. m + l /\ e[m + k] = kept[k]
  <2> SUFFICES ASSUME NEW k \in 1 .. l PROVE m + k \in 1 .. m + l /\ e[m + k] = kept[k]
    OBVIOUS
  <2>1. m + k \in 1 .. m + l /\ ~(m + k <= m) /\ (m + k) - m = k
    BY <1>7
  <2> QED BY <1>8, <2>1
<1>12. \A k \in 1 .. m + l : k \in 1 .. m \/ (k - m \in 1 .. l /\ k = m + (k - m))
  BY <1>7
<1>13. used \subseteq new
  BY <1>4 DEF Consumed
<1>14. {kept[j].p.b : j \in 1 .. l} = new \ used
  BY <1>4, <1>5, <1>7
<1>15. Spliced(out) = {out.ext[k].p.b : k \in 1 .. m}
  BY <1>7 DEF Spliced, ToSet
<1>16. Spliced(out)' = Spliced(out) \cup (new \ used)
  <2>1. Spliced(out)' = {e[k].p.b : k \in 1 .. m + l}
    BY <1>9 DEF Spliced, ToSet, e
  <2>2. {e[k].p.b : k \in 1 .. m + l} = {out.ext[k].p.b : k \in 1 .. m} \cup {kept[j].p.b : j \in 1 .. l}
    BY <1>10, <1>11, <1>12
  <2> QED BY <1>14, <1>15, <2>1, <2>2
<1>17. Spliced(out) \subseteq 1 .. taken /\ Once(out.ext)
  BY DEF BuffersOK
<1>18. \A b \in new : b \in Nat /\ b > taken /\ b \in 1 .. taken + n /\ b \in Buffers
  BY <1>1, <1>2 DEF new
<1>19. Once(e)
  <2> SUFFICES ASSUME NEW j \in 1 .. m + l, NEW k \in 1 .. m + l, e[j].p.b = e[k].p.b
               PROVE  j = k
    BY <1>9 DEF Once
  <2>1. ASSUME NEW x \in 1 .. m, NEW y \in 1 .. l, out.ext[x].p.b = kept[y].p.b PROVE FALSE
    <3>1. out.ext[x].p.b \in 1 .. taken /\ out.ext[x].p.b \in new
      BY <1>14, <1>15, <1>17, <2>1
    <3>2. \A b \in 1 .. taken : ~(b > taken)
      BY <1>1
    <3> QED BY <1>18, <3>1, <3>2
  <2>2. CASE j \in 1 .. m /\ k \in 1 .. m
    BY <1>7, <1>10, <1>17, <2>2 DEF Once
  <2>3. CASE j \in 1 .. m /\ k - m \in 1 .. l /\ k = m + (k - m)
    BY <1>10, <1>11, <2>1, <2>3
  <2>4. CASE k \in 1 .. m /\ j - m \in 1 .. l /\ j = m + (j - m)
    BY <1>10, <1>11, <2>1, <2>4
  <2>5. CASE j - m \in 1 .. l /\ j = m + (j - m) /\ k - m \in 1 .. l /\ k = m + (k - m)
    <3>1. e[j] = kept[j - m] /\ e[k] = kept[k - m]
      BY <1>11, <2>5
    <3>2. j - m = k - m
      BY <1>5, <1>7, <2>5, <3>1
    <3> QED BY <2>5, <3>2
  <2> QED BY <1>12, <2>2, <2>3, <2>4, <2>5
<1>20. /\ released \in [Buffers -> Nat] /\ released' \in [Buffers -> Nat]
       /\ \A b \in Buffers : released'[b] = released[b] + (IF b \in used THEN 1 ELSE 0)
  BY DEF Release, BuffersOK, used
<1> HIDE DEF used
<1>21. \A b \in new : released[b] = 0
  BY <1>18 DEF BuffersOK
<1>22. \A b \in Spliced(out) : released[b] = 0
  BY DEF BuffersOK, BuffersReturned
<1>23. \A b \in Buffers : released'[b] <= 1
  <2>1. \A b \in Buffers : released[b] <= 1
    BY DEF BuffersOK, BuffersReturned
  <2> QED BY <1>13, <1>20, <1>21, <2>1
<1>24. \A b \in Spliced(out)' : released'[b] = 0
  <2>1. ASSUME NEW b \in Spliced(out) PROVE released'[b] = 0
    <3>1. b \in 1 .. taken /\ b \in Buffers
      BY <1>1, <1>2, <1>17, <2>1
    <3>2. b \notin used
      BY <1>1, <1>13, <1>18, <3>1
    <3> QED BY <1>20, <1>22, <3>1, <3>2
  <2>2. ASSUME NEW b \in new \ used PROVE released'[b] = 0
    BY <1>18, <1>20, <1>21, <2>2
  <2> QED BY <1>16, <2>1, <2>2
<1>25. \A b \in 1 .. taken + n : released'[b] = 1 \/ b \in Spliced(out)'
  <2> SUFFICES ASSUME NEW b \in 1 .. taken + n, b \notin Spliced(out)' PROVE released'[b] = 1
    OBVIOUS
  <2>1. CASE b \in 1 .. taken
    <3>1. released[b] = 1
      BY <1>16, <2>1 DEF BuffersOK, BuffersReturned
    <3>2. b \notin used /\ b \in Buffers
      BY <1>1, <1>2, <1>13, <1>18, <2>1
    <3> QED BY <1>20, <3>1, <3>2
  <2>2. CASE b \in new
    <3>1. b \in used
      BY <1>16, <2>2
    <3> QED BY <1>18, <1>20, <1>21, <2>2, <3>1
  <2>3. b \in 1 .. taken \/ b \in new
    BY <1>1 DEF new
  <2> QED BY <2>1, <2>2, <2>3
<1>26. \A b \in Buffers : b > taken + n => released'[b] = 0
  <2> SUFFICES ASSUME NEW b \in Buffers, b > taken + n PROVE released'[b] = 0
    OBVIOUS
  <2>1. b \in Nat
    BY ReadAssumption
  <2>2. b > taken /\ b \notin used
    BY <1>1, <1>13, <1>18, <2>1
  <2> QED BY <1>20, <2>2 DEF BuffersOK
<1>27. Spliced(out)' \subseteq 1 .. taken + n
  BY <1>1, <1>16, <1>17, <1>18
<1> QED BY <1>1, <1>19, <1>20, <1>23, <1>24, <1>25, <1>26, <1>27 DEF BuffersOK, BuffersReturned, e

\* A READ that succeeds: its eof item and its parts are added, its end is heard.
LEMMA ReadKeeps ==
  ASSUME CallInv, at \in {"ops", "await"}, NEW w, WriterOK(w), w.ext = out.ext,
         NEW eof, NEW parts \in Seq(Part), \A j \in DOMAIN parts : parts[j].b = taken + j,
         taken' = taken + Len(parts), taken' \in Buffers \cup {0}, Release(Consumed(parts)),
         NEW rest, Succeeds(Splice(Put(w, <<Item("eof", Word(eof))>>), parts), rest),
         UNCHANGED <<cur, saved, tree, seen, known>>
  PROVE  CallOK' /\ WriterOK(out)' /\ BuffersOK' /\ NodesOK' /\ WaitOK'
<1>1. PICK x : x = Put(w, <<Item("eof", Word(eof))>>)
  OBVIOUS
<1>2. WriterOK(x) /\ x.ext = out.ext
  <2>1. Plain(<<Item("eof", Word(eof))>>)
    BY PlainOne
  <2>2. PICK q : q = <<Item("eof", Word(eof))>>
    OBVIOUS
  <2>3. Plain(q) /\ x = Put(w, q)
    BY <1>1, <2>1, <2>2
  <2> QED BY <2>3, PutPlain
<1>3. PICK y : y = Splice(x, parts)
  OBVIOUS
<1>4. \A j, k \in DOMAIN parts : parts[j].b = parts[k].b => j = k
  BY ReadAssumption DEF CallInv, BuffersOK
<1>5. WriterOK(y)
  BY <1>2, <1>3, <1>4, SpliceKeeps
<1>6. Succeeds(y, rest)
  BY <1>1, <1>3
<1>7. /\ CallOK' /\ WriterOK(out)' /\ out'.ext = y.ext /\ WaitOK'
      /\ at' \in {"ops", "replied"} /\ kind' # "garbage_args"
  BY <1>5, <1>6, SucceedsKeeps DEF CallInv
<1>8. kind # "garbage_args" /\ at # "sent" /\ at' # "sent"
  BY <1>7 DEF CallInv, CallOK
<1>9. BuffersOK'
  BY <1>2, <1>3, <1>7, <1>8, FilledKeeps DEF CallInv
<1>10. NodesOK'
  BY NodesKept DEF CallInv
<1> QED BY <1>7, <1>9, <1>10

\* The eof of a READ that got all it asked for is the truth about the size found by
\* the walk; that of one that got less is the truth about the size read.
LEMMA HeardHonest ==
  ASSUME CallInv, cur # None, NEW from \in Nat, NEW length \in Nat,
         NEW size \in seen[cur.path], NEW got \in Nat, got <= length,
         got < length => from + got >= size,
         Heard(from, got, length), UNCHANGED seen
  PROVE  HeardOK'
<1>1. cur.path \in Paths /\ cur.size \in Nat /\ cur.size \in seen[cur.path]
  BY NodeOf DEF CallInv
<1>2. size \in Nat
  BY <1>1, TreeAssumption DEF CallInv, NodesOK
<1>3. heard' = [path |-> cur.path, end |-> from + got, eof |-> Eof(from, got, length)]
  BY DEF Heard
<1>4. Eof(from, got, length) \in BOOLEAN
  BY DEF Eof
<1>5. heard' \in [path : Paths, end : Nat, eof : BOOLEAN]
  <2>1. from + got \in Nat
    OBVIOUS
  <2> QED BY <1>1, <1>3, <1>4, <2>1
<1>6. \E s \in seen[cur.path] : Eof(from, got, length) <=> from + got >= s
  <2>1. CASE got < length
    BY <2>1 DEF Eof
  <2>2. CASE ~(got < length)
    BY <1>1, <2>2 DEF Eof
  <2> QED BY <2>1, <2>2
<1>7. heard'.path = cur.path /\ heard'.end = from + got /\ heard'.eof = Eof(from, got, length)
  BY <1>3
<1>8. EofHonest'
  BY <1>6, <1>7 DEF EofHonest
<1> QED BY <1>5, <1>8 DEF HeardOK

LEMMA ReadFromKeeps ==
  ASSUME CallInv, at \in {"ops", "await"}, cur # None, NEW w, WriterOK(w), w.ext = out.ext,
         NEW from \in Nat, NEW length \in Nat, ReadFrom(w, from, length)
  PROVE  CallInv'
<1>1. cur.path \in Paths /\ cur.size \in Nat /\ cur.size \in seen[cur.path]
  BY NodeOf DEF CallInv
<1>2. CASE /\ from >= cur.size
           /\ Succeeds(Splice(Put(w, EofItem(from, 0, length)), <<>>), LeftBy("READ"))
           /\ Heard(from, 0, length)
           /\ UNCHANGED <<fhVars, taken, released, treeVars, known>>
  <2>1. UNCHANGED <<cur, saved, taken, released, tree, seen, known>>
    BY <1>2 DEF fhVars, treeVars
  <2>2. PICK parts : parts = <<>>
    OBVIOUS
  <2>3. parts \in Seq(Part) /\ Len(parts) = 0 /\ DOMAIN parts = {}
    BY <2>2
  <2>4. Consumed(parts) = {}
    BY <2>3 DEF Consumed, ToSet
  <2>5. taken \in Buffers \cup {0} /\ taken + 0 = taken /\ released \in [Buffers -> Nat]
    BY ReadAssumption DEF CallInv, BuffersOK
  <2>6. Release(Consumed(parts))
    <3>1. \A b \in Buffers : released[b] + (IF b \in {} THEN 1 ELSE 0) = released[b]
      BY <2>5
    <3> QED BY <2>1, <2>4, <2>5, <3>1 DEF Release
  <2>7. PICK eof : eof = Eof(from, 0, length)
    OBVIOUS
  <2>8. Succeeds(Splice(Put(w, <<Item("eof", Word(eof))>>), parts), LeftBy("READ"))
    BY <1>2, <2>2, <2>7 DEF EofItem
  <2>9. CallOK' /\ WriterOK(out)' /\ BuffersOK' /\ NodesOK' /\ WaitOK'
    BY <2>1, <2>3, <2>5, <2>6, <2>8, ReadKeeps
  <2>10. HeardOK'
    <3>1. 0 \in Nat /\ 0 <= length /\ (0 < length => from + 0 >= cur.size)
      BY <1>1, <1>2
    <3> QED BY <1>1, <1>2, <2>1, <3>1, HeardHonest
  <2> QED BY <2>9, <2>10 DEF CallInv
<1>3. CASE /\ Awaits("READ", w, "read", cur.path, from, length)
           /\ UNCHANGED <<fhVars, bufferVars, treeVars, known>>
  <2>1. "READ" \in AwaitOps /\ "read" \in AwaitSteps
    BY DEF AwaitOps, AwaitSteps
  <2> QED BY <1>1, <1>3, <2>1, AwaitsKeeps
<1> QED BY <1>2, <1>3 DEF ReadFrom

LEMMA ReadCallKeeps ==
  ASSUME CallInv, ReadCall
  PROVE  CallInv'
<1>1. ASSUME NEW e, Refused("READ", e) PROVE CallInv'
  BY <1>1, RefusedKeeps
<1>2. ASSUME cur # None, at = "ops", NEW r \in Reads,
             \/ ReadFrom(Begun("READ"), r[1], Min({r[2], MaxRead}))
             \/ /\ Awaits("READ", Begun("READ"), "open", cur.path, r[1], Min({r[2], MaxRead}))
                /\ UNCHANGED <<fhVars, bufferVars, treeVars, known>>
      PROVE  CallInv'
  <2>1. WriterOK(Begun("READ")) /\ Begun("READ").ext = out.ext
    BY BegunOK DEF CallInv
  <2>2. r[1] \in Nat /\ r[2] \in Int /\ r[2] \in Nat /\ MaxRead \in Nat /\ MaxRead \in Int
    BY ReadAssumption
  <2>3. Min({r[2], MaxRead}) \in Nat
    BY <2>2, MinOfTwo
  <2>4. cur.path \in Paths
    BY <1>2, NodeOf DEF CallInv
  <2>5. "READ" \in AwaitOps /\ "open" \in AwaitSteps
    BY DEF AwaitOps, AwaitSteps
  <2>6. CASE ReadFrom(Begun("READ"), r[1], Min({r[2], MaxRead}))
    BY <1>2, <2>1, <2>2, <2>3, <2>6, ReadFromKeeps
  <2>7. CASE /\ Awaits("READ", Begun("READ"), "open", cur.path, r[1], Min({r[2], MaxRead}))
             /\ UNCHANGED <<fhVars, bufferVars, treeVars, known>>
    BY <1>2, <2>1, <2>2, <2>3, <2>4, <2>5, <2>7, AwaitsKeeps
  <2> QED BY <1>2, <2>6, <2>7
<1> QED BY <1>1, <1>2 DEF ReadCall, Number

LEMMA ReadOpenedKeeps ==
  ASSUME CallInv, ReadOpened
  PROVE  CallInv'
<1>1. at = "await" /\ wait.op = "READ" /\ ReadFrom(out, wait.from, wait.length)
  BY DEF ReadOpened, Settles
<1>2. cur # None /\ wait.from \in Nat /\ wait.length \in Nat
  BY <1>1 DEF CallInv, WaitOK, Await
<1>3. WriterOK(out)
  BY DEF CallInv
<1> QED BY <1>1, <1>2, <1>3, ReadFromKeeps

LEMMA ReadDoneKeeps ==
  ASSUME CallInv, ReadDone
  PROVE  CallInv'
<1> DEFINE from == wait.from
           length == wait.length
           got == Got(from, length, SizeNow)
<1>1. /\ at = "await" /\ wait.op = "READ" /\ Heard(from, got, length)
      /\ UNCHANGED <<cur, saved, tree, seen, known>>
  BY DEF ReadDone, Settles, fhVars, treeVars
<1>2. PICK parts \in Parts(got) :
        /\ taken + Len(parts) \in Buffers /\ taken' = taken + Len(parts)
        /\ Succeeds(Splice(Put(out, EofItem(from, got, length)), parts), LeftBy("READ"))
        /\ Release(Consumed(parts))
  BY DEF ReadDone
<1>3. cur # None /\ wait.path = cur.path /\ from \in Nat /\ length \in Nat
  BY <1>1 DEF CallInv, WaitOK, Await
<1>4. cur.path \in Paths /\ cur.size \in seen[cur.path]
  BY <1>3, NodeOf DEF CallInv
<1>5. SizeNow \in seen[cur.path] /\ SizeNow \in Nat
  <2>1. SizeNow \in seen[cur.path]
    BY <1>3, <1>4 DEF SizeNow, CallInv, NodesOK
  <2> QED BY <1>4, <2>1, TreeAssumption DEF CallInv, NodesOK
<1> HIDE DEF from, length
<1>6. got \in Nat /\ got <= length /\ (got < length => from + got >= SizeNow)
  BY <1>3, <1>5, GotToEnd
<1> HIDE DEF got
<1>7. taken \in Nat
  BY ReadAssumption DEF CallInv, BuffersOK
<1>8. parts \in Seq(Part) /\ \A j \in DOMAIN parts : parts[j].b = taken + j
  BY <1>2, <1>6, <1>7, PartsNext
<1>9. PICK eof : eof = Eof(from, got, length)
  OBVIOUS
<1>10. Succeeds(Splice(Put(out, <<Item("eof", Word(eof))>>), parts), LeftBy("READ"))
  BY <1>2, <1>9 DEF EofItem
<1>11. WriterOK(out)
  BY DEF CallInv
<1>12. CallOK' /\ WriterOK(out)' /\ BuffersOK' /\ NodesOK' /\ WaitOK'
  BY <1>1, <1>2, <1>8, <1>10, <1>11, ReadKeeps
<1>13. HeardOK'
  BY <1>1, <1>3, <1>5, <1>6, HeardHonest
<1> QED BY <1>12, <1>13 DEF CallInv

-----------------------------------------------------------------------------
\* What an await that settles leads to.
LEMMA WalkedKeeps ==
  ASSUME CallInv, Walked
  PROVE  CallInv'
<1>1. /\ at = "await" /\ There(wait.path) /\ wait.op # "CLOSE"
      /\ Succeeds(out, LeftBy(wait.op)) /\ SetCurrent(wait.path)
      /\ UNCHANGED <<bufferVars, treeVars>>
  BY DEF Walked
<1>2. WriterOK(out) /\ UNCHANGED <<taken, released, heard, tree, seen, saved>>
  BY <1>1 DEF CallInv, SetCurrent, bufferVars, readVars, treeVars
<1>3. /\ CallOK' /\ WriterOK(out)' /\ out'.ext = out.ext /\ WaitOK'
      /\ at' \in {"ops", "replied"} /\ kind' # "garbage_args"
  BY <1>1, <1>2, SucceedsKeeps DEF CallInv
<1>4. BuffersOK'
  BY <1>1, <1>2, <1>3, BuffersKept DEF CallInv, CallOK
<1>5. HeardOK'
  BY <1>2, HeardKept DEF CallInv
<1>6. wait.path \in Paths
  BY <1>1 DEF CallInv, WaitOK
<1>7. Node(wait.path) \in Nodes /\ Node(wait.path).path = wait.path
      /\ Node(wait.path).size \in seen[wait.path]
  BY <1>1, <1>6 DEF CallInv, NodesOK, Node, Nodes, There
<1>8. cur' = Node(wait.path) /\ known' \subseteq known \cup Long
  BY <1>1 DEF SetCurrent
<1>9. NodesOK'
  BY <1>2, <1>7, <1>8 DEF CallInv, NodesOK, There, Nodes, None
<1> QED BY <1>3, <1>4, <1>5, <1>9 DEF CallInv

LEMMA OpenKeeps ==
  ASSUME CallInv, OpenFound \/ Opened
  PROVE  CallInv'
<1>1. CASE OpenFound
  <2>1. at = "await" /\ wait.op = "OPEN" /\ wait.step = "lookup" /\ There(wait.path)
    BY <1>1 DEF OpenFound, Settles
  <2>2. ASSUME NEW e, FailsAfter(e) PROVE CallInv'
    BY <2>1, <2>2, FailsAfterKeeps
  <2>3. CASE /\ wait' = [wait EXCEPT !.step = "open", !.length = tree[wait.path]]
             /\ UNCHANGED <<at, todo, ahead, out, produced, kind, fhVars, bufferVars, treeVars, known>>
    <3>1. wait.path \in Paths /\ wait.from \in Nat /\ tree[wait.path] \in Nat
          /\ tree[wait.path] \in seen[wait.path]
      BY <2>1, TreeAssumption DEF CallInv, WaitOK, Await, NodesOK, There
    <3>2. wait' = [op |-> "OPEN", step |-> "open", path |-> wait.path, from |-> wait.from,
                   length |-> tree[wait.path]]
      BY <2>1, <2>3 DEF CallInv, WaitOK, Await
    <3>3. "OPEN" \in AwaitOps /\ "open" \in AwaitSteps
      BY DEF AwaitOps, AwaitSteps
    <3>4. Awaits("OPEN", out, "open", wait.path, wait.from, tree[wait.path])
      BY <2>1, <2>3, <3>2 DEF Awaits
    <3>5. WriterOK(out)
      BY DEF CallInv
    <3> QED BY <2>1, <2>3, <3>1, <3>3, <3>4, <3>5, AwaitsKeeps
  <2> QED BY <1>1, <2>2, <2>3 DEF OpenFound
<1>2. CASE Opened
  <2>1. /\ at = "await" /\ wait.op = "OPEN" /\ wait.step = "open"
        /\ Succeeds(Put(out, <<Item("stateid", wait.path)>>), LeftBy("OPEN"))
        /\ cur' = [path |-> wait.path, size |-> wait.length] /\ UNCHANGED saved
        /\ known' = known \cup ({wait.path} \cap Long)
        /\ UNCHANGED <<bufferVars, treeVars>>
    BY <1>2 DEF Opened, Settles
  <2>2. UNCHANGED <<taken, released, heard, tree, seen>>
    BY <2>1 DEF bufferVars, readVars, treeVars
  <2>3. Plain(<<Item("stateid", wait.path)>>)
    BY PlainOne
  <2>4. WriterOK(out)
    BY DEF CallInv
  <2>5. CallOK' /\ WriterOK(out)' /\ BuffersOK' /\ WaitOK' /\ HeardOK'
    BY <2>1, <2>2, <2>3, <2>4, DoneKeeps
  <2>6. wait.path \in Paths /\ wait.length \in seen[wait.path] /\ wait.length \in Sizes
    BY <2>1 DEF CallInv, WaitOK, NodesOK
  <2>7. cur' \in Nodes /\ cur'.path = wait.path /\ cur'.size = wait.length
    BY <2>1, <2>6 DEF Nodes
  <2>8. NodesOK'
    BY <2>1, <2>2, <2>6, <2>7 DEF CallInv, NodesOK, There, Nodes, None
  <2> QED BY <2>5, <2>8 DEF CallInv
<1> QED BY <1>1, <1>2

LEMMA RemoveKeeps ==
  ASSUME CallInv, RemoveFound \/ Removed
  PROVE  CallInv'
<1>1. at = "await" /\ wait.op = "REMOVE" /\ WriterOK(out)
  BY DEF RemoveFound, Removed, Settles, CallInv
<1>2. ASSUME NEW e, FailsAfter(e) PROVE CallInv'
  BY <1>1, <1>2, FailsAfterKeeps
<1>3. wait.path \in Paths /\ wait.from \in Nat /\ wait.length \in Nat
  BY <1>1 DEF CallInv, WaitOK, Await
<1>4. CASE RemoveFound
  <2>1. CASE /\ wait' = [wait EXCEPT !.step = "remove"]
             /\ UNCHANGED <<at, todo, ahead, out, produced, kind, fhVars, bufferVars, treeVars, known>>
    <3>1. wait' = [op |-> "REMOVE", step |-> "remove", path |-> wait.path, from |-> wait.from,
                   length |-> wait.length]
      BY <1>1, <2>1 DEF CallInv, WaitOK, Await
    <3>2. "REMOVE" \in AwaitOps /\ "remove" \in AwaitSteps
      BY DEF AwaitOps, AwaitSteps
    <3>3. Awaits("REMOVE", out, "remove", wait.path, wait.from, wait.length)
      BY <1>1, <2>1, <3>1 DEF Awaits
    <3> QED BY <1>1, <1>3, <2>1, <3>2, <3>3, AwaitsKeeps
  <2> QED BY <1>2, <1>4, <2>1 DEF RemoveFound
<1>5. CASE Removed
  <2>1. CASE /\ There(wait.path)
             /\ Succeeds(Put(out, <<Item("change", wait.path)>>), LeftBy("REMOVE"))
             /\ tree' = [tree EXCEPT ![wait.path] = Gone]
             /\ UNCHANGED <<fhVars, bufferVars, known, seen, changes>>
    <3>1. UNCHANGED <<cur, saved, taken, released, heard, seen, known>>
      BY <2>1 DEF fhVars, bufferVars, readVars
    <3>2. Plain(<<Item("change", wait.path)>>)
      BY PlainOne
    <3>3. CallOK' /\ WriterOK(out)' /\ BuffersOK' /\ WaitOK' /\ HeardOK'
      BY <1>1, <2>1, <3>1, <3>2, DoneKeeps
    <3>4. tree \in [Paths -> Sizes \cup {Gone}]
      BY DEF CallInv, NodesOK
    <3>5. tree' \in [Paths -> Sizes \cup {Gone}] /\ \A p \in Paths : There(p)' => tree'[p] = tree[p] /\ There(p)
      BY <1>3, <2>1, <3>4 DEF There
    <3>6. NodesOK'
      BY <3>1, <3>5 DEF CallInv, NodesOK, Nodes, None
    <3> QED BY <3>3, <3>6 DEF CallInv
  <2> QED BY <1>2, <1>5, <2>1 DEF Removed
<1> QED BY <1>4, <1>5

LEMMA ListedKeeps ==
  ASSUME CallInv, AccessListed \/ ReaddirListed
  PROVE  CallInv'
<1>1. at = "await" /\ WriterOK(out)
  BY DEF AccessListed, ReaddirListed, Settles, CallInv
<1>2. CASE AccessListed
  <2>1. PICK granted : granted = (IF ChildrenOf(wait.path) \cap Removable = {} THEN "read" ELSE "modify")
    OBVIOUS
  <2>2. /\ Succeeds(Put(out, <<Item("granted", granted)>>), LeftBy("ACCESS"))
        /\ UNCHANGED <<fhVars, bufferVars, treeVars, known>>
    BY <1>2, <2>1 DEF AccessListed
  <2>3. Plain(<<Item("granted", granted)>>)
    BY PlainOne
  <2> QED BY <1>1, <2>2, <2>3, SettledAlone
<1>3. CASE ReaddirListed
  <2>1. UNCHANGED <<cur, saved, tree, seen>> /\ known' \subseteq known \cup Long
    BY <1>3 DEF ReaddirListed, fhVars, treeVars
  <2>2. NodesOK'
    BY <2>1 DEF CallInv, NodesOK, There, Nodes, None
  <2>3. WriterOK(Verifier) /\ Verifier.ext = out.ext /\ Length(Verifier) = Length(out) + 1
    <3>1. PICK q : q = <<Item("verifier", "0")>>
      OBVIOUS
    <3>2. Plain(q) /\ Len(q) = 1 /\ Verifier = Put(out, q)
      BY <3>1, PlainOne DEF Verifier
    <3> QED BY <1>1, <3>2, PutPlain
  <2>4. CASE Fails(Verifier, Length(out), "TOOSMALL") /\ UNCHANGED readVars
    <3>1. Length(out) \in 0 .. Length(Verifier)
      BY <1>1, <2>3 DEF WriterOK, Length
    <3>2. UNCHANGED <<taken, heard>>
      BY <2>4 DEF readVars
    <3>3. CallOK' /\ WriterOK(out)' /\ BuffersOK' /\ WaitOK'
      BY <1>1, <2>3, <2>4, <3>1, <3>2, FailsKeeps DEF CallInv
    <3>4. HeardOK'
      BY <2>1, <3>2, HeardKept DEF CallInv
    <3> QED BY <2>2, <3>3, <3>4 DEF CallInv
  <2>5. CASE /\ Succeeds(Put(Verifier, <<Item("entries", Word(ChildrenOf(wait.path))), Item("end", "1")>>),
                         LeftBy("READDIR"))
             /\ UNCHANGED bufferVars
    <3>1. Plain(<<Item("entries", Word(ChildrenOf(wait.path))), Item("end", "1")>>)
      BY PlainTwo
    <3>2. UNCHANGED <<taken, released, heard, seen>>
      BY <2>1, <2>5 DEF bufferVars, readVars
    <3>3. CallOK' /\ WriterOK(out)' /\ BuffersOK' /\ WaitOK' /\ HeardOK'
      BY <1>1, <2>3, <2>5, <3>1, <3>2, DoneKeeps
    <3> QED BY <2>2, <3>3 DEF CallInv
  <2> QED BY <1>3, <2>4, <2>5 DEF ReaddirListed
<1> QED BY <1>2, <1>3

LEMMA SettledKeeps ==
  ASSUME CallInv, NotFound \/ SecInfo \/ CloseDone \/ Rejected
  PROVE  CallInv'
<1>1. at = "await"
  BY DEF NotFound, SecInfo, CloseDone, Rejected, Settles
<1>2. ASSUME NEW e, FailsAfter(e) PROVE CallInv'
  BY <1>1, <1>2, FailsAfterKeeps
<1>3. CASE NotFound \/ Rejected
  BY <1>2, <1>3 DEF NotFound, Rejected
<1>4. CASE SecInfo
  <2>1. Plain(<<Item("flavors", "2")>>)
    BY PlainOne
  <2>2. /\ Succeeds(Put(out, <<Item("flavors", "2")>>), LeftBy("SECINFO"))
        /\ UNCHANGED <<fhVars, bufferVars, treeVars, known>>
    BY <1>4 DEF SecInfo
  <2> QED BY <1>1, <2>1, <2>2, SettledAlone
<1>5. CASE CloseDone
  <2>1. Plain(<<Item("stateid", "none")>>)
    BY PlainOne
  <2>2. /\ Succeeds(Put(out, <<Item("stateid", "none")>>), LeftBy("CLOSE"))
        /\ UNCHANGED <<fhVars, bufferVars, treeVars, known>>
    BY <1>5 DEF CloseDone
  <2> QED BY <1>1, <2>1, <2>2, SettledAlone
<1> QED BY <1>3, <1>4, <1>5

-----------------------------------------------------------------------------
\* The call comes in, the reply goes out, and the tree changes.
LEMMA MaxSize == Max(Sizes) \in Sizes
<1>1. \E m \in Sizes : \A s \in Sizes : m >= s
  BY TreeAssumption
<1> QED BY <1>1 DEF Max

LEMMA DispatchKeeps ==
  ASSUME CallInv, Dispatch
  PROVE  CallInv'
<1>1. at = "call" /\ UNCHANGED <<produced, cur, saved, taken, heard, released, tree, seen, known>>
  BY DEF Dispatch, fhVars, bufferVars, readVars, treeVars
<1>2. NodesOK' /\ HeardOK'
  BY <1>1, NodesKept, HeardKept DEF CallInv
<1>3. ASSUME at' # "await", at' # "sent", out'.ext = out.ext, WriterOK(out)', CallOK',
             wait' = wait \/ wait' = NoWait
      PROVE  CallInv'
  <2>1. BuffersOK'
    BY <1>1, <1>3, BuffersKept DEF CallInv, CallOK
  <2>2. NoWait \in Await
    BY DEF Await, AwaitOps, AwaitSteps, NoWait
  <2>3. WaitOK'
    BY <1>3, <2>2 DEF CallInv, WaitOK
  <2> QED BY <1>2, <1>3, <2>1, <2>3 DEF CallInv
<1>4. CASE /\ at' \in {"unanswered", "replied"}
           /\ UNCHANGED <<todo, out, wait>>
  <2>1. CallOK'
    BY <1>1, <1>4 DEF CallInv, CallOK
  <2> QED BY <1>3, <1>4, <2>1 DEF CallInv
<1>5. PICK x : x = Put(out, Prelude)
  OBVIOUS
<1>6. WriterOK(x) /\ x.ext = out.ext
  <2>1. PICK q : q = Prelude
    OBVIOUS
  <2>2. Plain(q)
    BY <2>1, PlainThree DEF Prelude
  <2> QED BY <1>5, <2>1, <2>2, PutPlain DEF CallInv
<1>7. ASSUME NEW status, NEW count, Replied(x, status, count), todo' \in Nat
      PROVE  CallInv'
  <2>1. /\ WriterOK(out)' /\ out'.ext = x.ext
        /\ at' = "replied" /\ kind' = "compound" /\ wait' = NoWait
    BY <1>6, <1>7, RepliedWhole
  <2>2. CallOK'
    BY <1>1, <1>7, <2>1 DEF CallInv, CallOK
  <2> QED BY <1>3, <1>6, <2>1, <2>2
<1>8. CASE CompoundBegins
  <2>1. PICK r \in Records :
          /\ todo' = r.count
          /\ IF r.count = 0 THEN Replied(x, "OK", 0)
             ELSE at' = "ops" /\ out' = x /\ UNCHANGED <<kind, wait>>
    BY <1>5, <1>8 DEF CompoundBegins
  <2>2. r.count \in Nat
    BY ReadAssumption
  <2>3. CASE r.count = 0
    BY <1>7, <2>1, <2>2, <2>3
  <2>4. CASE r.count # 0
    <3>1. at' = "ops" /\ out' = x /\ UNCHANGED <<kind, wait>> /\ todo' > 0
      BY <2>1, <2>2, <2>4
    <3>2. CallOK'
      BY <1>1, <2>1, <2>2, <3>1 DEF CallInv, CallOK
    <3> QED BY <1>3, <1>6, <3>1, <3>2
  <2> QED BY <2>3, <2>4
<1>9. CASE Replied(x, "MINOR_VERS_MISMATCH", 0) /\ UNCHANGED todo
  <2>1. todo' \in Nat
    BY <1>9 DEF CallInv, CallOK
  <2> QED BY <1>7, <1>9, <2>1
<1> QED BY <1>4, <1>5, <1>8, <1>9 DEF Dispatch, RefusedWith

LEMMA SentKeeps ==
  ASSUME CallInv, Sent
  PROVE  CallInv'
<1>1. /\ at = "replied" /\ at' = "sent" /\ Release(Spliced(out))
      /\ UNCHANGED <<todo, wait, out, produced, kind, cur, saved, taken, heard, tree, seen, known>>
  BY DEF Sent, fhVars, readVars, treeVars
<1>2. CallOK' /\ WriterOK(out)' /\ NodesOK' /\ HeardOK'
  BY <1>1, NodesKept, HeardKept DEF CallInv, CallOK
<1>3. WaitOK'
  BY <1>1 DEF CallInv, WaitOK
<1>4. /\ released \in [Buffers -> Nat] /\ released' \in [Buffers -> Nat]
      /\ \A b \in Buffers : released'[b] = released[b] + (IF b \in Spliced(out) THEN 1 ELSE 0)
  BY <1>1 DEF Release, CallInv, BuffersOK
<1>5. taken \in Nat /\ 1 .. taken \subseteq Buffers /\ Spliced(out) \subseteq 1 .. taken
  BY ReadAssumption DEF CallInv, BuffersOK
<1>6. \A b \in Spliced(out) : released[b] = 0
  BY <1>1 DEF CallInv, BuffersOK, BuffersReturned
<1>7. \A b \in Buffers : released'[b] <= 1
  <2>1. \A b \in Buffers : released[b] <= 1
    BY DEF CallInv, BuffersOK, BuffersReturned
  <2> QED BY <1>4, <1>6, <2>1
<1>8. \A b \in Buffers : b > taken => released'[b] = 0
  <2>1. \A b \in Buffers : b > taken => released[b] = 0
    BY DEF CallInv, BuffersOK
  <2>2. \A b \in Spliced(out) : ~(b > taken)
    BY <1>5
  <2> QED BY <1>4, <2>1, <2>2
<1>9. kind # "garbage_args" => \A b \in 1 .. taken : released'[b] = 1
  <2>1. kind # "garbage_args" => \A b \in 1 .. taken : released[b] = 1 \/ b \in Spliced(out)
    BY DEF CallInv, BuffersOK, BuffersReturned
  <2> SUFFICES ASSUME kind # "garbage_args", NEW b \in 1 .. taken PROVE released'[b] = 1
    OBVIOUS
  <2>2. b \in Buffers
    BY <1>5
  <2>3. CASE b \in Spliced(out)
    BY <1>4, <1>6, <2>2, <2>3
  <2>4. CASE b \notin Spliced(out)
    BY <1>4, <2>1, <2>2, <2>4
  <2> QED BY <2>3, <2>4
<1>10. BuffersOK'
  <2>1. Once(out.ext)' /\ Spliced(out)' = Spliced(out) /\ taken' = taken /\ kind' = kind
    BY <1>1 DEF CallInv, BuffersOK, Once, Spliced
  <2> QED BY <1>1, <1>4, <1>5, <1>7, <1>8, <1>9, <2>1 DEF CallInv, BuffersOK, BuffersReturned
<1> QED BY <1>2, <1>3, <1>10 DEF CallInv

LEMMA TreeKeeps ==
  ASSUME CallInv, Change \/ Evicted
  PROVE  CallInv'
<1>1. /\ at \in {"ops", "await"}
      /\ UNCHANGED <<at, todo, wait, out, produced, kind, cur, saved, taken, heard, released>>
  BY DEF Change, Evicted, callVars, fhVars, bufferVars, readVars
<1>2. CallOK' /\ WriterOK(out)' /\ BuffersOK'
  BY <1>1, BuffersKept DEF CallInv, CallOK
<1>3. CASE Evicted
  <2>1. UNCHANGED <<tree, seen>> /\ known' \subseteq known
    BY <1>3 DEF Evicted, treeVars
  <2>2. NodesOK'
    BY <1>1, <2>1 DEF CallInv, NodesOK, There, Nodes, None
  <2>3. HeardOK' /\ WaitOK'
    BY <1>1, <2>1, HeardKept DEF CallInv, WaitOK, None
  <2> QED BY <1>2, <2>2, <2>3 DEF CallInv
<1>4. CASE Change
  <2>1. PICK p \in Paths, s \in Sizes \cup {Gone} :
          /\ tree' = [tree EXCEPT ![p] = s]
          /\ seen' = [seen EXCEPT ![p] = @ \cup ({s} \ {Gone})]
    BY <1>4 DEF Change
  <2>2. UNCHANGED known
    BY <1>4 DEF Change
  <2>3. tree \in [Paths -> Sizes \cup {Gone}] /\ seen \in [Paths -> SUBSET Sizes]
    BY DEF CallInv, NodesOK
  <2>4. \A q \in Paths : seen[q] \subseteq seen'[q] /\ seen'[q] \subseteq Sizes
    BY <2>1, <2>3
  <2>5. tree' \in [Paths -> Sizes \cup {Gone}] /\ seen' \in [Paths -> SUBSET Sizes]
    BY <2>1, <2>3
  <2>6. \A q \in Paths : There(q)' => tree'[q] \in seen'[q]
    BY <2>1, <2>3 DEF CallInv, NodesOK, There
  <2>7. \A f \in {cur, saved} : f # None => f.path \in Paths /\ f.size \in seen[f.path]
    BY DEF CallInv, NodesOK, Nodes
  <2>8. NodesOK'
    BY <1>1, <2>2, <2>4, <2>5, <2>6, <2>7 DEF CallInv, NodesOK, None, Nodes
  <2>9. WaitOK'
    <3>1. at = "await" /\ wait.op = "OPEN" /\ wait.step = "open" =>
            wait.path \in Paths /\ wait.length \in seen[wait.path]
      BY DEF CallInv, WaitOK
    <3> QED BY <1>1, <2>4, <3>1 DEF CallInv, WaitOK, None
  <2>10. HeardOK'
    <3>1. heard.path \in Paths
      BY DEF CallInv, HeardOK
    <3>2. EofHonest'
      BY <1>1, <2>4, <3>1 DEF CallInv, HeardOK, EofHonest, NotRead
    <3> QED BY <1>1, <3>2 DEF CallInv, HeardOK
  <2> QED BY <1>2, <2>8, <2>9, <2>10 DEF CallInv
<1> QED BY <1>3, <1>4

LEMMA InitCall == Init => CallInv
<1> SUFFICES ASSUME Init PROVE CallInv
  OBVIOUS
<1>1. WriterOK(out) /\ out.ext = <<>>
  BY DEF Init, WriterOK, EmptyWriter, InPlace, ToSet
<1>2. CallOK
  BY DEF Init, CallOK
<1>3. Once(out.ext) /\ Spliced(out) = {}
  BY <1>1 DEF Once, Spliced, ToSet
<1>4. BuffersOK
  BY <1>3 DEF Init, BuffersOK, BuffersReturned
<1>5. NodesOK
  BY MaxSize DEF Init, NodesOK, Nodes, There
<1>6. NoWait \in Await
  BY DEF Await, AwaitOps, AwaitSteps, NoWait
<1>7. WaitOK
  BY <1>6 DEF Init, WaitOK
<1>8. HeardOK
  BY TreeAssumption DEF Init, HeardOK, EofHonest, NotRead
<1> QED BY <1>1, <1>2, <1>4, <1>5, <1>7, <1>8 DEF CallInv

LEMMA StepCall == CallInv /\ [Next]_vars => CallInv'
<1> SUFFICES ASSUME CallInv, [Next]_vars PROVE CallInv'
  OBVIOUS
<1>1. CASE FirstTurn
  BY <1>1, FhKeeps, AttributesKeep, VerifyKeeps, WalkKeeps, ListsKeep, ReadCallKeeps, OthersKeep,
     CutOffKeeps DEF FirstTurn
<1>2. CASE LaterTurn
  BY <1>2, WalkedKeeps, OpenKeeps, RemoveKeeps, ListedKeeps, ReadOpenedKeeps, ReadDoneKeeps,
     SettledKeeps DEF LaterTurn
<1>3. CASE Dispatch
  BY <1>3, DispatchKeeps
<1>4. CASE Sent
  BY <1>4, SentKeeps
<1>5. CASE Change \/ Evicted
  BY <1>5, TreeKeeps
<1>6. CASE UNCHANGED vars
  <2>1. UNCHANGED <<at, todo, wait, out, produced, kind, cur, saved, taken, heard, released,
                    tree, seen, known>>
    BY <1>6 DEF vars, callVars, fhVars, bufferVars, readVars, treeVars
  <2>2. CallOK' /\ WriterOK(out)' /\ NodesOK' /\ HeardOK'
    BY <2>1, NodesKept, HeardKept DEF CallInv, CallOK
  <2>3. BuffersOK'
    BY <2>1 DEF CallInv, BuffersOK, BuffersReturned, Once, Spliced
  <2>4. WaitOK'
    BY <2>1 DEF CallInv, WaitOK, None
  <2> QED BY <2>2, <2>3, <2>4 DEF CallInv
<1> QED BY <1>1, <1>2, <1>3, <1>4, <1>5, <1>6 DEF Next, Over

LEMMA CallInvariant == Spec => []CallInv
<1>1. Init => CallInv
  BY InitCall
<1>2. CallInv /\ [Next]_vars => CallInv'
  BY StepCall
<1> QED BY <1>1, <1>2, PTL DEF Spec

-----------------------------------------------------------------------------
\* Types (nfs4/compound.ts): the state of a call is what its declarations say, the
\* current and the saved filehandle have a node, and no operation's count runs below
\* zero.
THEOREM TypeCorrect == Spec => []TypeOK
<1>1. CallInv => TypeOK
  BY DEF CallInv, CallOK, BuffersOK, NodesOK, WaitOK, Await, TypeOK
<1> QED BY <1>1, CallInvariant, PTL

\* READ of compound.ts with opaqueVarExternalParts and truncate of xdr.ts and the
\* writing of the reply: whatever operations run, fail and are cut back between a READ
\* and the end of its reply, each buffer it was given is released once, at once when
\* its bytes were copied and with the reply when they were not; only a call that is
\* cut off loses one.
THEOREM BuffersGoBack == Spec => []BuffersReturned
<1>1. CallInv => BuffersReturned
  BY DEF CallInv, BuffersOK
<1> QED BY <1>1, CallInvariant, PTL

\* READ of compound.ts: its eof is the truth about a size that the file had during the
\* call, the one its walk found or the one it had when it was read.
THEOREM EofTrue == Spec => []EofHonest
<1>1. CallInv => EofHonest
  BY DEF CallInv, HeardOK
<1> QED BY <1>1, CallInvariant, PTL

\* segments of xdr.ts: every payload is sent behind its length or another part of it,
\* however many others are put in behind it and whatever was cut off or patched since.
THEOREM PayloadsKeepPlaces == Spec => []PayloadsInPlace
<1>1. ASSUME CallInv PROVE PayloadsInPlace
  <2>1. InPlace(Segments(out))
    BY <1>1, SegmentsInPlace DEF CallInv
  <2> QED BY <2>1 DEF PayloadsInPlace, InPlace
<1>2. CallInv => PayloadsInPlace
  BY <1>1
<1> QED BY <1>2, CallInvariant, PTL

-----------------------------------------------------------------------------
\* What the client decodes.  Items are closed if no operation's number is the last.
Closed(items) == \A k \in 1 .. Len(items) : items[k].t = "op" => k < Len(items)

BodyAt(items, b, k) == IF items[k].t = "op" THEN <<>> ELSE <<items[k]>> \o b[k + 1]
ResultAt(items, b, k) == [op |-> items[k].v, status |-> items[k + 1].v, body |-> b[k + 2]]

Bodies(items, b) ==
  b[Len(items) + 1] = <<>> /\ \A k \in 1 .. Len(items) : b[k] = BodyAt(items, b, k)
Decodes(items, b, f) ==
  /\ f[Len(items) + 1] = <<>>
  /\ \A k \in 1 .. Len(items) :
       f[k] = IF items[k].t = "op" THEN <<ResultAt(items, b, k)>> \o f[k + 2] ELSE f[k + 1]

LEMMA BodiesExist ==
  ASSUME NEW T, NEW items \in Seq(T)
  PROVE  \E b : b \in [1 .. Len(items) + 1 -> Seq(T)] /\ Bodies(items, b)
<1> DEFINE n == Len(items)
           B == [1 .. n + 1 -> Seq(T)]
           Upon(b, k) == b[n + 1] = <<>> /\ \A i \in k .. n : b[i] = BodyAt(items, b, i)
           C == {k \in 1 .. n + 1 : \E b \in B : Upon(b, k)}
<1>1. n \in Nat /\ DOMAIN items = 1 .. n /\ \A k \in 1 .. n : items[k] \in T
  OBVIOUS
<1>2. n + 1 \in C
  <2>1. PICK b : b = [k \in 1 .. n + 1 |-> <<>>]
    OBVIOUS
  <2>2. b \in B
    <3>1. PICK Q : Q = Seq(T)
      OBVIOUS
    <3>2. <<>> \in Q
      BY <3>1
    <3> QED BY <2>1, <3>1, <3>2
  <2>3. Upon(b, n + 1) /\ n + 1 \in 1 .. n + 1
    BY <1>1, <2>1
  <2> QED BY <2>2, <2>3
<1> HIDE DEF n
<1>3. ASSUME NEW k \in 1 .. n, k + 1 \in C PROVE k \in C
  <2>1. PICK b \in B : Upon(b, k + 1)
    BY <1>3
  <2>2. k \in 1 .. n + 1 /\ k + 1 \in 1 .. n + 1 /\ k # n + 1
    BY <1>1
  <2>3. PICK e : e = BodyAt(items, b, k)
    OBVIOUS
  <2>4. e \in Seq(T)
    <3>1. b[k + 1] \in Seq(T) /\ <<items[k]>> \in Seq(T) /\ <<>> \in Seq(T)
      BY <1>1, <2>2
    <3>2. <<items[k]>> \o b[k + 1] \in Seq(T)
      BY <3>1
    <3> QED BY <2>3, <3>1, <3>2 DEF BodyAt
  <2>5. PICK g : g = [b EXCEPT ![k] = e]
    OBVIOUS
  <2>6. g \in B /\ g[k] = e /\ \A i \in 1 .. n + 1 : i # k => g[i] = b[i]
    <3>1. PICK Q : Q = Seq(T)
      OBVIOUS
    <3>2. b \in [1 .. n + 1 -> Q] /\ e \in Q
      BY <2>4, <3>1
    <3>3. g \in [1 .. n + 1 -> Q] /\ g[k] = e /\ \A i \in 1 .. n + 1 : i # k => g[i] = b[i]
      BY ONLY <2>2, <2>5, <3>2
    <3> QED BY <3>1, <3>3
  <2>7. ASSUME NEW i \in k .. n PROVE g[i] = BodyAt(items, g, i)
    <3>1. i \in 1 .. n + 1 /\ i + 1 \in 1 .. n + 1 /\ i + 1 # k
      BY <1>1
    <3>2. g[i + 1] = b[i + 1]
      BY <2>6, <3>1
    <3>3. CASE i = k
      BY <2>3, <2>6, <3>2, <3>3 DEF BodyAt
    <3>4. CASE i # k
      <4>1. i \in k + 1 .. n
        BY <1>1, <3>4
      <4>2. b[i] = BodyAt(items, b, i)
        BY <2>1, <4>1
      <4>3. g[i] = b[i]
        BY <2>6, <3>1, <3>4
      <4> QED BY <3>2, <4>2, <4>3 DEF BodyAt
    <3> QED BY <3>3, <3>4
  <2>8. g[n + 1] = <<>>
    <3>1. n + 1 \in 1 .. n + 1
      BY <1>1
    <3> QED BY <2>1, <2>2, <2>6, <3>1
  <2> QED BY <2>2, <2>6, <2>7, <2>8
<1>4. 1 \in C
  <2>1. 1 \in 1 .. n + 1
    BY <1>1
  <2> HIDE DEF C
  <2> QED BY <1>1, <1>2, <1>3, <2>1, InductDown
<1>5. PICK b \in B : Upon(b, 1)
  BY <1>4
<1> QED BY <1>5 DEF Bodies, n

LEMMA DecodesExist ==
  ASSUME NEW R, NEW items, Len(items) \in Nat, Closed(items), NEW b,
         \A k \in 1 .. Len(items) : ResultAt(items, b, k) \in R
  PROVE  \E f : f \in [1 .. Len(items) + 1 -> Seq(R)] /\ Decodes(items, b, f)
<1> DEFINE n == Len(items)
           B == [1 .. n + 1 -> Seq(R)]
           Step(f, k) == IF items[k].t = "op" THEN <<ResultAt(items, b, k)>> \o f[k + 2] ELSE f[k + 1]
           Upon(f, k) == f[n + 1] = <<>> /\ \A i \in k .. n : f[i] = Step(f, i)
           C == {k \in 1 .. n + 1 : \E f \in B : Upon(f, k)}
<1>1. n \in Nat /\ \A k \in 1 .. n : ResultAt(items, b, k) \in R /\ (items[k].t = "op" => k < n)
  BY DEF Closed
<1>2. n + 1 \in C
  <2>1. PICK f : f = [k \in 1 .. n + 1 |-> <<>>]
    OBVIOUS
  <2>2. f \in B
    <3>1. PICK Q : Q = Seq(R)
      OBVIOUS
    <3>2. <<>> \in Q
      BY <3>1
    <3> QED BY <2>1, <3>1, <3>2
  <2>3. Upon(f, n + 1) /\ n + 1 \in 1 .. n + 1
    BY <1>1, <2>1
  <2> QED BY <2>2, <2>3
<1> HIDE DEF n
<1>3. ASSUME NEW k \in 1 .. n, k + 1 \in C PROVE k \in C
  <2>1. PICK f \in B : Upon(f, k + 1)
    BY <1>3
  <2>2. k \in 1 .. n + 1 /\ k + 1 \in 1 .. n + 1 /\ k # n + 1
    BY <1>1
  <2>3. PICK e : e = Step(f, k)
    OBVIOUS
  <2>4. e \in Seq(R)
    <3>1. CASE items[k].t = "op"
      <4>1. PICK x : x = ResultAt(items, b, k)
        OBVIOUS
      <4>2. x \in R /\ k + 2 \in 1 .. n + 1
        BY <1>1, <3>1, <4>1
      <4>3. <<x>> \in Seq(R) /\ f[k + 2] \in Seq(R)
        BY <4>2
      <4>4. <<x>> \o f[k + 2] \in Seq(R)
        BY <4>3
      <4> QED BY <2>3, <3>1, <4>1, <4>4
    <3>2. CASE items[k].t # "op"
      BY <2>2, <2>3, <3>2
    <3> QED BY <3>1, <3>2
  <2> HIDE DEF Step
  <2>5. PICK g : g = [f EXCEPT ![k] = e]
    OBVIOUS
  <2>6. g \in B /\ g[k] = e /\ \A i \in 1 .. n + 1 : i # k => g[i] = f[i]
    <3>1. PICK Q : Q = Seq(R)
      OBVIOUS
    <3>2. f \in [1 .. n + 1 -> Q] /\ e \in Q
      BY <2>4, <3>1
    <3>3. g \in [1 .. n + 1 -> Q] /\ g[k] = e /\ \A i \in 1 .. n + 1 : i # k => g[i] = f[i]
      BY ONLY <2>2, <2>5, <3>2
    <3> QED BY <3>1, <3>3
  <2>7. ASSUME NEW i \in k .. n PROVE g[i] = Step(g, i)
    <3>1. i \in 1 .. n /\ i \in 1 .. n + 1 /\ i + 1 \in 1 .. n + 1 /\ i + 1 # k /\ i + 2 # k
      BY <1>1
    <3>2. g[i + 1] = f[i + 1]
      BY <2>6, <3>1
    <3>3. items[i].t = "op" => g[i + 2] = f[i + 2]
      <4>1. items[i].t = "op" => i + 2 \in 1 .. n + 1
        BY <1>1, <3>1
      <4> QED BY <2>6, <3>1, <4>1
    <3>4. Step(g, i) = Step(f, i)
      BY <3>2, <3>3 DEF Step
    <3>5. CASE i = k
      BY <2>3, <2>6, <3>4, <3>5
    <3>6. CASE i # k
      <4>1. i \in k + 1 .. n
        BY <1>1, <3>6
      <4>2. f[i] = Step(f, i)
        BY <2>1, <4>1
      <4>3. g[i] = f[i]
        BY <2>6, <3>1, <3>6
      <4> QED BY <3>4, <4>2, <4>3
    <3> QED BY <3>5, <3>6
  <2>8. g[n + 1] = <<>>
    <3>1. n + 1 \in 1 .. n + 1
      BY <1>1
    <3> QED BY <2>1, <2>2, <2>6, <3>1
  <2> QED BY <2>2, <2>6, <2>7, <2>8
<1>4. 1 \in C
  <2>1. 1 \in 1 .. n + 1
    BY <1>1
  <2> HIDE DEF C
  <2> QED BY <1>1, <1>2, <1>3, <2>1, InductDown
<1>5. PICK f \in B : Upon(f, 1)
  BY <1>4
<1> QED BY <1>5 DEF Decodes, n

\* Results, read from any place of the items.
LEMMA ResultsSteps ==
  ASSUME NEW T, NEW items \in Seq(T), Closed(items)
  PROVE  \E b, f, R :
           /\ b \in [1 .. Len(items) + 1 -> Seq(T)] /\ Bodies(items, b)
           /\ f \in [1 .. Len(items) + 1 -> Seq(R)] /\ Decodes(items, b, f)
           /\ \A k \in 1 .. Len(items) : ResultAt(items, b, k) \in R
           /\ Results(items) = f[1]
<1> DEFINE n == Len(items)
           D == 1 .. n + 1
           BodyTurn(b) == [k \in D |-> IF k > n \/ items[k].t = "op" THEN <<>>
                                       ELSE <<items[k]>> \o b[k + 1]]
           c == CHOOSE b : b = BodyTurn(b)
           Turn(f) == [k \in D |->
                         IF k > n THEN <<>>
                         ELSE IF items[k].t # "op" THEN f[k + 1]
                         ELSE <<[op |-> items[k].v, status |-> items[k + 1].v, body |-> c[k + 2]]>>
                              \o f[k + 2]]
           d == CHOOSE f : f = Turn(f)
<1>1. n \in Nat /\ DOMAIN items = 1 .. n /\ \A k \in 1 .. n : items[k] \in T
  OBVIOUS
<1>2. Results(items) = d[1]
  BY DEF Results
<1> HIDE DEF n
<1>3. /\ n + 1 \in D /\ n + 1 > n /\ \A k \in 1 .. n : k \in D /\ ~ (k > n)
      /\ \A k \in D : k \in 1 .. n \/ k = n + 1
  BY <1>1
<1>4. c = BodyTurn(c)
  <2> DEFINE Q(e) == e = BodyTurn(e)
  <2>1. PICK b : b \in [D -> Seq(T)] /\ Bodies(items, b)
    BY BodiesExist DEF n
  <2>2. Q(b)
    <3>1. ASSUME NEW k \in D
          PROVE b[k] = IF k > n \/ items[k].t = "op" THEN <<>> ELSE <<items[k]>> \o b[k + 1]
      BY <1>3, <2>1 DEF Bodies, BodyAt, n
    <3> QED BY <2>1, <3>1
  <2>3. c = CHOOSE x : Q(x)
    OBVIOUS
  <2> HIDE DEF Q, c
  <2>4. Q(c)
    BY <2>2, <2>3
  <2> QED BY <2>4 DEF Q
<1> HIDE DEF c
<1>5. Bodies(items, c) /\ DOMAIN c = D
  <2>1. c[n + 1] = <<>>
    BY <1>3, <1>4
  <2>2. ASSUME NEW k \in 1 .. n PROVE c[k] = BodyAt(items, c, k)
    BY <1>3, <1>4 DEF BodyAt
  <2>3. DOMAIN c = D
    BY <1>4
  <2> HIDE DEF BodyTurn
  <2> QED BY <2>1, <2>2, <2>3 DEF Bodies, n
<1> DEFINE C == {k \in D : c[k] \in Seq(T)}
<1>6. D \subseteq C
  <2>1. n + 1 \in C
    <3>1. PICK Q : Q = Seq(T)
      OBVIOUS
    <3>2. <<>> \in Q
      BY <3>1
    <3>3. c[n + 1] = <<>>
      BY <1>5 DEF Bodies, n
    <3> QED BY <1>3, <3>1, <3>2, <3>3
  <2>2. ASSUME NEW k \in 1 .. n, k + 1 \in C PROVE k \in C
    <3>1. c[k] = BodyAt(items, c, k) /\ c[k + 1] \in Seq(T) /\ <<items[k]>> \in Seq(T)
      BY <1>1, <1>5, <2>2 DEF Bodies, n
    <3>2. PICK Q : Q = Seq(T)
      OBVIOUS
    <3>3. <<items[k]>> \o c[k + 1] \in Q /\ <<>> \in Q
      BY <3>1, <3>2
    <3>4. c[k] \in Q
      BY <3>1, <3>3 DEF BodyAt
    <3> QED BY <1>3, <3>2, <3>4
  <2> HIDE DEF C
  <2> QED BY <1>1, <2>1, <2>2, InductDown
<1>7. c \in [D -> Seq(T)]
  <2>1. \A k \in D : c[k] \in Seq(T)
    BY <1>6
  <2>2. c = [k \in D |-> c[k]]
    BY <1>4
  <2> HIDE DEF C, D
  <2> QED BY <2>1, <2>2
<1> DEFINE R == {ResultAt(items, c, k) : k \in 1 .. n}
<1>8. d = Turn(d)
  <2> DEFINE Q(e) == e = Turn(e)
  <2>1. PICK f : f \in [D -> Seq(R)] /\ Decodes(items, c, f)
    <3>1. \A k \in 1 .. n : ResultAt(items, c, k) \in R
      OBVIOUS
    <3> HIDE DEF R
    <3> QED BY <1>1, <3>1, DecodesExist DEF n
  <2>2. Q(f)
    <3>1. ASSUME NEW k \in D
          PROVE f[k] = IF k > n THEN <<>>
                       ELSE IF items[k].t # "op" THEN f[k + 1]
                       ELSE <<[op |-> items[k].v, status |-> items[k + 1].v, body |-> c[k + 2]]>>
                            \o f[k + 2]
      BY <1>3, <2>1 DEF Decodes, ResultAt, n
    <3> HIDE DEF R
    <3> QED BY <2>1, <3>1
  <2>3. d = CHOOSE x : Q(x)
    OBVIOUS
  <2> HIDE DEF Q, d, R
  <2>4. Q(d)
    BY <2>2, <2>3
  <2> QED BY <2>4 DEF Q
<1> HIDE DEF d
<1>9. Decodes(items, c, d) /\ DOMAIN d = D
  <2>1. d[n + 1] = <<>>
    BY <1>3, <1>8
  <2>2. ASSUME NEW k \in 1 .. n
        PROVE d[k] = IF items[k].t = "op" THEN <<ResultAt(items, c, k)>> \o d[k + 2] ELSE d[k + 1]
    BY <1>3, <1>8 DEF ResultAt
  <2>3. DOMAIN d = D
    BY <1>8
  <2> HIDE DEF Turn
  <2> QED BY <2>1, <2>2, <2>3 DEF Decodes, n
<1> HIDE DEF R
<1>10. \A k \in 1 .. n : ResultAt(items, c, k) \in R
  BY DEF R
<1>11. d \in [D -> Seq(R)]
  <2>0. PICK Q : Q = Seq(R)
    OBVIOUS
  <2> DEFINE E == {k \in D : \A i \in k .. n + 1 : d[i] \in Q}
  <2>1. n + 1 \in E
    <3>1. <<>> \in Q
      BY <2>0
    <3>2. d[n + 1] = <<>>
      BY <1>9 DEF Decodes, n
    <3> QED BY <1>1, <1>3, <3>1, <3>2
  <2>2. ASSUME NEW k \in 1 .. n, k + 1 \in E PROVE k \in E
    <3>1. d[k] \in Q
      <4>1. CASE items[k].t = "op"
        <5>1. k + 2 \in k + 1 .. n + 1
          BY <1>1, <4>1 DEF Closed, n
        <5>2. PICK x : x = ResultAt(items, c, k)
          OBVIOUS
        <5>3. d[k] = <<x>> \o d[k + 2]
          BY <1>9, <4>1, <5>2 DEF Decodes, n
        <5>4. <<x>> \in Seq(R) /\ d[k + 2] \in Seq(R)
          BY <1>10, <2>0, <2>2, <5>1, <5>2
        <5>5. <<x>> \o d[k + 2] \in Seq(R)
          BY ONLY <5>4
        <5> QED BY <2>0, <5>3, <5>5
      <4>2. CASE items[k].t # "op"
        <5>1. k + 1 \in k + 1 .. n + 1
          BY <1>1
        <5> QED BY <1>9, <2>2, <4>2, <5>1 DEF Decodes, n
      <4> QED BY <4>1, <4>2
    <3>2. \A i \in k .. n + 1 : i = k \/ i \in k + 1 .. n + 1
      BY <1>1
    <3> QED BY <1>3, <2>2, <3>1, <3>2
  <2> HIDE DEF E
  <2>3. 1 .. n + 1 \subseteq E
    BY <1>1, <2>1, <2>2, InductDown
  <2>4. \A k \in D : d[k] \in Q
    <3>1. \A k \in D : k \in k .. n + 1
      BY <1>1
    <3> QED BY <2>3, <3>1 DEF E
  <2>5. d = [k \in D |-> d[k]]
    BY <1>8
  <2> HIDE DEF D
  <2> QED BY <2>0, <2>4, <2>5
<1> HIDE DEF D
<1> QED BY <1>2, <1>5, <1>7, <1>9, <1>10, <1>11 DEF D, n

\* A result that is added to what the client decodes,
LEMMA BodiesSame ==
  ASSUME NEW a, NEW b, IsSeq(b), Follows(a, b, 1), IsSeq(a),
         Len(a) > Len(b) => a[Len(b) + 1].t = "op",
         NEW g, Bodies(a, g), NEW h, Bodies(b, h)
  PROVE  \A k \in 1 .. Len(b) + 1 : g[k] = h[k]
<1> DEFINE n == Len(b)
           C == {k \in 1 .. n + 1 : g[k] = h[k]}
<1>1. n \in Nat /\ Len(a) \in Nat /\ n <= Len(a) /\ \A i \in 1 .. n : a[i] = b[i]
  BY DEF IsSeq, Follows
<1>2. n + 1 \in C
  <2>1. h[n + 1] = <<>> /\ n + 1 \in 1 .. n + 1
    BY <1>1 DEF Bodies
  <2>2. CASE Len(a) = n
    BY <2>1, <2>2 DEF Bodies
  <2>3. CASE Len(a) > n
    <3>1. n + 1 \in 1 .. Len(a)
      BY <1>1, <2>3
    <3>2. g[n + 1] = BodyAt(a, g, n + 1)
      BY <3>1 DEF Bodies
    <3>3. g[n + 1] = <<>>
      BY <2>3, <3>2 DEF BodyAt
    <3> QED BY <2>1, <3>3
  <2> QED BY <1>1, <2>2, <2>3
<1>3. ASSUME NEW k \in 1 .. n, k + 1 \in C PROVE k \in C
  <2>1. k \in 1 .. Len(a) /\ k \in 1 .. n + 1
    BY <1>1
  <2>2. g[k] = BodyAt(a, g, k)
    BY <2>1 DEF Bodies
  <2>3. h[k] = BodyAt(b, h, k)
    BY DEF Bodies
  <2>4. a[k] = b[k] /\ g[k + 1] = h[k + 1]
    BY <1>1, <1>3
  <2> QED BY <2>1, <2>2, <2>3, <2>4 DEF BodyAt
<1> HIDE DEF C
<1>4. 1 .. n + 1 \subseteq C
  BY <1>1, <1>2, <1>3, InductDown
<1> QED BY <1>4 DEF C

LEMMA DecodesNothing ==
  ASSUME NEW a, IsSeq(a), NEW g, NEW f, Decodes(a, g, f), NEW m \in Nat,
         \A i \in m + 1 .. Len(a) : a[i].t # "op"
  PROVE  \A k \in m + 1 .. Len(a) + 1 : f[k] = <<>>
<1> DEFINE n == Len(a)
           C == {k \in 1 .. n + 1 : k > m => f[k] = <<>>}
<1>1. n \in Nat
  BY DEF IsSeq
<1>2. n + 1 \in C
  BY <1>1 DEF Decodes
<1>3. ASSUME NEW k \in 1 .. n, k + 1 \in C PROVE k \in C
  <2>1. CASE k > m
    <3>1. k \in m + 1 .. n /\ k + 1 > m
      BY <1>1, <2>1
    <3>2. f[k] = f[k + 1]
      BY <3>1 DEF Decodes
    <3> QED BY <1>1, <1>3, <3>1, <3>2
  <2>2. CASE ~ (k > m)
    BY <1>1, <2>2
  <2> QED BY <2>1, <2>2
<1> HIDE DEF C
<1>4. 1 .. n + 1 \subseteq C
  BY <1>1, <1>2, <1>3, InductDown
<1>5. \A k \in m + 1 .. n + 1 : k \in 1 .. n + 1 /\ k > m
  BY <1>1
<1> QED BY <1>4, <1>5 DEF C

LEMMA ConsAppend ==
  ASSUME NEW R, NEW s \in Seq(R), NEW x \in R, NEW z \in R
  PROVE  <<x>> \o Append(s, z) = Append(<<x>> \o s, z)
<1>1. <<x>> \in Seq(R) /\ <<z>> \in Seq(R)
  OBVIOUS
<1>2. \A r \in Seq(R) : Append(r, z) = r \o <<z>>
  OBVIOUS
<1>3. <<x>> \o s \in Seq(R)
  BY <1>1
<1>4. <<x>> \o (s \o <<z>>) = (<<x>> \o s) \o <<z>>
  BY <1>1, ConcatAssociative
<1> QED BY <1>2, <1>3, <1>4

LEMMA ResultsGrow ==
  ASSUME NEW a, IsSeq(a), NEW b, IsSeq(b), Closed(b), Follows(a, b, 1), Len(a) >= Len(b) + 2,
         a[Len(b) + 1].t = "op", \A i \in Len(b) + 2 .. Len(a) : a[i].t # "op"
  PROVE  /\ Closed(a)
         /\ \E R, z : /\ Results(b) \in Seq(R) /\ z \in R /\ Results(a) = Append(Results(b), z)
                      /\ z.status = a[Len(b) + 2].v
                      /\ Len(a) = Len(b) + 2 => z.body = <<>>
<1> DEFINE n == Len(b)
           m == Len(a)
<1>1. n \in Nat /\ m \in Nat /\ m >= n + 2 /\ \A i \in 1 .. n : a[i] = b[i]
  BY DEF IsSeq, Follows
<1>2. Closed(a)
  <2>1. ASSUME NEW k \in 1 .. m, a[k].t = "op" PROVE k < m
    <3>1. CASE k \in 1 .. n
      BY <1>1, <3>1
    <3>2. CASE k = n + 1
      BY <1>1, <3>2
    <3>3. k \notin n + 2 .. m
      BY <2>1
    <3> QED BY <1>1, <3>1, <3>2, <3>3
  <2> QED BY <2>1 DEF Closed
<1>3. PICK T, U : a \in Seq(T) /\ b \in Seq(U)
  BY DEF IsSeq
<1>4. PICK g, f, P :
           /\ Bodies(a, g) /\ f \in [1 .. m + 1 -> Seq(P)] /\ Decodes(a, g, f)
           /\ \A k \in 1 .. m : ResultAt(a, g, k) \in P
           /\ Results(a) = f[1]
  BY <1>2, <1>3, ResultsSteps
<1>5. PICK h, e, Q :
           /\ Bodies(b, h) /\ e \in [1 .. n + 1 -> Seq(Q)] /\ Decodes(b, h, e)
           /\ \A k \in 1 .. n : ResultAt(b, h, k) \in Q
           /\ Results(b) = e[1]
  BY <1>3, ResultsSteps
<1>6. \A k \in 1 .. n + 1 : g[k] = h[k]
  <2> HIDE DEF n, m
  <2>1. Len(a) > Len(b) => a[Len(b) + 1].t = "op"
    OBVIOUS
  <2> QED BY <1>4, <1>5, <2>1, BodiesSame DEF n, m
<1>7. PICK z : z = ResultAt(a, g, n + 1)
  OBVIOUS
<1>8. PICK R : R = P \cup Q
  OBVIOUS
<1> HIDE DEF n, m
<1>9. z \in R /\ z.status = a[n + 2].v /\ (m = n + 2 => z.body = <<>>)
  <2>1. n + 1 \in 1 .. m /\ (n + 1) + 1 = n + 2 /\ (n + 1) + 2 = n + 3
    BY <1>1
  <2>2. z \in R /\ z.status = a[n + 2].v /\ z.body = g[n + 3]
    BY <1>4, <1>7, <1>8, <2>1 DEF ResultAt
  <2>3. m = n + 2 => n + 3 = m + 1
    BY <1>1
  <2> QED BY <1>4, <2>2, <2>3 DEF Bodies, m
<1>10. f[n + 1] = <<z>>
  <2>1. n + 1 \in 1 .. m /\ (n + 1) + 2 = n + 3 /\ n + 3 \in n + 2 .. m + 1 /\ (n + 1) + 1 = n + 2
    BY <1>1
  <2>2. f[n + 1] = <<z>> \o f[n + 3]
    BY <1>4, <1>7, <2>1 DEF Decodes, n, m
  <2>3. f[n + 3] = <<>>
    <3>1. \A i \in (n + 1) + 1 .. m : a[i].t # "op"
      BY <2>1 DEF n, m
    <3>2. \A k \in (n + 1) + 1 .. m + 1 : f[k] = <<>>
      <4>1. PICK l : l = n + 1
        OBVIOUS
      <4>2. l \in Nat /\ \A i \in l + 1 .. Len(a) : a[i].t # "op"
        BY <1>1, <3>1, <4>1 DEF m
      <4>3. \A k \in l + 1 .. Len(a) + 1 : f[k] = <<>>
        <5>1. Decodes(a, g, f) /\ IsSeq(a)
          BY <1>4
        <5> QED BY ONLY <4>2, <5>1, DecodesNothing
      <4> QED BY ONLY <4>1, <4>3 DEF m
    <3> QED BY <2>1, <3>2
  <2> QED BY <2>2, <2>3
<1>11. \A k \in 1 .. n + 1 : e[k] \in Seq(R)
  BY <1>5, <1>8 DEF n
<1> DEFINE C == {k \in 1 .. n + 1 : \A i \in k .. n + 1 : f[i] = Append(e[i], z)}
<1>12. n + 1 \in C
  <2>1. e[n + 1] = <<>> /\ Append(<<>>, z) = <<z>>
    BY <1>5 DEF Decodes, n
  <2>2. \A i \in n + 1 .. n + 1 : i = n + 1
    BY <1>1
  <2>3. f[n + 1] = Append(e[n + 1], z)
    BY ONLY <1>10, <2>1
  <2>4. n + 1 \in 1 .. n + 1
    BY <1>1
  <2> QED BY <2>2, <2>3, <2>4
<1>13. ASSUME NEW k \in 1 .. n, k + 1 \in C PROVE k \in C
  <2>1. /\ k \in 1 .. m /\ k \in 1 .. n + 1 /\ k + 1 \in k + 1 .. n + 1 /\ a[k] = b[k]
        /\ \A i \in k .. n + 1 : i = k \/ i \in k + 1 .. n + 1
    BY <1>1
  <2>2. CASE a[k].t = "op"
    <3>1. k < n
      BY <2>1, <2>2 DEF Closed, n
    <3>2. k + 1 \in 1 .. n /\ k + 2 \in 1 .. n + 1 /\ k + 2 \in k + 1 .. n + 1
      BY <1>1, <3>1
    <3>3. PICK x : x = ResultAt(b, h, k)
      OBVIOUS
    <3>4. ResultAt(a, g, k) = x
      BY <1>1, <1>6, <2>1, <3>2, <3>3 DEF ResultAt
    <3>5. f[k] = <<x>> \o f[k + 2]
      BY <1>4, <2>1, <2>2, <3>4 DEF Decodes, m
    <3>6. e[k] = <<x>> \o e[k + 2]
      BY <1>5, <2>1, <2>2, <3>3 DEF Decodes, n
    <3>7. f[k + 2] = Append(e[k + 2], z)
      BY <1>13, <3>2
    <3>8. x \in R /\ e[k + 2] \in Seq(R)
      BY <1>5, <1>8, <1>11, <3>2, <3>3 DEF n
    <3>9. f[k] = Append(e[k], z)
      <4>1. PICK s : s = e[k + 2]
        OBVIOUS
      <4>2. s \in Seq(R) /\ x \in R /\ z \in R
        BY <1>9, <3>8, <4>1
      <4>3. <<x>> \o Append(s, z) = Append(<<x>> \o s, z)
        BY ONLY <4>2, ConsAppend
      <4> QED BY ONLY <3>5, <3>6, <3>7, <4>1, <4>3
    <3> QED BY <1>13, <2>1, <3>9
  <2>3. CASE a[k].t # "op"
    <3>1. f[k] = f[k + 1]
      BY <1>4, <2>1, <2>3 DEF Decodes, m
    <3>2. e[k] = e[k + 1]
      BY <1>5, <2>1, <2>3 DEF Decodes, n
    <3>3. f[k + 1] = Append(e[k + 1], z)
      BY <1>13, <2>1
    <3> QED BY <1>13, <2>1, <3>1, <3>2, <3>3
  <2> QED BY <2>2, <2>3
<1>14. f[1] = Append(e[1], z)
  <2> HIDE DEF C
  <2>1. 1 .. n + 1 \subseteq C
    BY <1>1, <1>12, <1>13, InductDown
  <2>2. 1 \in 1 .. n + 1
    BY <1>1
  <2>3. 1 \in C
    BY <2>1, <2>2
  <2> QED BY <2>2, <2>3 DEF C
<1>15. e[1] \in Seq(R)
  <2>1. 1 \in 1 .. n + 1
    BY <1>1
  <2> QED BY <1>11, <2>1
<1> QED BY <1>2, <1>4, <1>5, <1>9, <1>14, <1>15 DEF n, m

\* A status or a count that is patched shows in its own result alone.
LEMMA ResultsPatched ==
  ASSUME NEW a, IsSeq(a), NEW b, IsSeq(b), Closed(b), Len(a) = Len(b), NEW m \in Nat,
         \A i \in 1 .. Len(b) : i <= m => a[i].t # "op" /\ b[i].t # "op",
         \A i \in 1 .. Len(b) : i > m => a[i] = b[i]
  PROVE  Closed(a) /\ Results(a) = Results(b)
<1> DEFINE n == Len(b)
<1>1. n \in Nat /\ n = Len(a)
  BY DEF IsSeq
<1>2. Closed(a)
  BY <1>1 DEF Closed
<1>3. PICK T, U : a \in Seq(T) /\ b \in Seq(U)
  BY DEF IsSeq
<1>4. PICK g, f : Bodies(a, g) /\ Decodes(a, g, f) /\ Results(a) = f[1]
  BY <1>2, <1>3, ResultsSteps
<1>5. PICK h, e : Bodies(b, h) /\ Decodes(b, h, e) /\ Results(b) = e[1]
  BY <1>3, ResultsSteps
<1> HIDE DEF n
<1> DEFINE B == {k \in 1 .. n + 1 : k > m => g[k] = h[k]}
<1>6. n + 1 \in B
  BY <1>1, <1>4, <1>5 DEF Bodies, n
<1>7. ASSUME NEW k \in 1 .. n, k + 1 \in B PROVE k \in B
  <2>1. CASE k > m
    <3>1. a[k] = b[k] /\ k + 1 > m /\ k \in 1 .. n + 1
      BY <1>1, <2>1 DEF n
    <3>2. g[k] = BodyAt(a, g, k) /\ h[k] = BodyAt(b, h, k)
      BY <1>1, <1>4, <1>5 DEF Bodies, n
    <3>3. g[k + 1] = h[k + 1]
      BY <1>7, <3>1
    <3> QED BY <3>1, <3>2, <3>3 DEF BodyAt
  <2>2. CASE ~ (k > m)
    BY <1>1, <2>2
  <2> QED BY <2>1, <2>2
<1>8. 1 .. n + 1 \subseteq B
  <2> HIDE DEF B
  <2> QED BY <1>1, <1>6, <1>7, InductDown
<1> DEFINE C == {k \in 1 .. n + 1 : \A i \in k .. n + 1 : f[i] = e[i]}
<1>9. n + 1 \in C
  <2>1. f[n + 1] = <<>> /\ e[n + 1] = <<>>
    BY <1>1, <1>4, <1>5 DEF Decodes, n
  <2>2. n + 1 \in 1 .. n + 1 /\ \A i \in n + 1 .. n + 1 : i = n + 1
    BY <1>1
  <2> QED BY <2>1, <2>2
<1>10. ASSUME NEW k \in 1 .. n, k + 1 \in C PROVE k \in C
  <2>1. /\ k \in 1 .. n + 1 /\ k + 1 \in k + 1 .. n + 1
        /\ \A i \in k .. n + 1 : i = k \/ i \in k + 1 .. n + 1
    BY <1>1
  <2>2. CASE b[k].t = "op"
    <3>1. k > m /\ a[k] = b[k] /\ k < n
      BY <1>1, <2>2 DEF n, Closed
    <3>2. k + 1 \in 1 .. n /\ k + 2 \in 1 .. n + 1 /\ k + 2 \in k + 1 .. n + 1 /\ k + 1 > m /\ k + 2 > m
      BY <1>1, <3>1
    <3>3. g[k + 2] = h[k + 2] /\ a[k + 1] = b[k + 1]
      BY <1>8, <3>2 DEF n
    <3>4. ResultAt(a, g, k) = ResultAt(b, h, k)
      BY <3>1, <3>3 DEF ResultAt
    <3>5. f[k] = <<ResultAt(a, g, k)>> \o f[k + 2]
      BY <1>1, <1>4, <2>2, <3>1 DEF Decodes
    <3>6. e[k] = <<ResultAt(b, h, k)>> \o e[k + 2]
      BY <1>5, <2>2 DEF Decodes, n
    <3>7. f[k + 2] = e[k + 2]
      BY <1>10, <3>2
    <3>8. f[k] = e[k]
      BY ONLY <3>4, <3>5, <3>6, <3>7
    <3> QED BY <1>10, <2>1, <3>8
  <2>3. CASE b[k].t # "op"
    <3>0. a[k].t # "op"
      <4>1. CASE k <= m
        BY <4>1 DEF n
      <4>2. CASE k > m
        BY <2>3, <4>2 DEF n
      <4> QED BY <1>1, <4>1, <4>2
    <3>1. f[k] = f[k + 1]
      BY <1>1, <1>4, <3>0 DEF Decodes
    <3>2. e[k] = e[k + 1]
      BY <1>5, <2>3 DEF Decodes, n
    <3>3. f[k + 1] = e[k + 1]
      BY <1>10, <2>1
    <3> QED BY <1>10, <2>1, <3>1, <3>2, <3>3
  <2> QED BY <2>2, <2>3
<1>11. f[1] = e[1]
  <2> HIDE DEF C
  <2>1. 1 .. n + 1 \subseteq C
    BY <1>1, <1>9, <1>10, InductDown
  <2>2. 1 \in 1 .. n + 1
    BY <1>1
  <2>3. 1 \in C
    BY <2>1, <2>2
  <2> QED BY <2>2, <2>3 DEF C
<1> QED BY <1>2, <1>4, <1>5, <1>11

\* Without an operation number there is no result.
LEMMA ResultsNone ==
  ASSUME NEW a, IsSeq(a), \A i \in 1 .. Len(a) : a[i].t # "op"
  PROVE  Closed(a) /\ Results(a) = <<>>
<1>1. Closed(a)
  BY DEF Closed
<1>2. PICK T : a \in Seq(T)
  BY DEF IsSeq
<1>3. PICK g, f : Bodies(a, g) /\ Decodes(a, g, f) /\ Results(a) = f[1]
  BY <1>1, <1>2, ResultsSteps
<1>4. PICK m : m = 0
  OBVIOUS
<1>5. m \in Nat /\ \A i \in m + 1 .. Len(a) : a[i].t # "op"
  BY <1>2, <1>4
<1>6. \A k \in m + 1 .. Len(a) + 1 : f[k] = <<>>
  BY <1>3, <1>5, DecodesNothing
<1>7. 1 \in m + 1 .. Len(a) + 1
  BY <1>2, <1>4
<1> QED BY <1>1, <1>3, <1>6, <1>7

-----------------------------------------------------------------------------
\* The reply between two operations, with n results; an operation has begun: its
\* number and its status are written.
Log(w, n) ==
  /\ WriterOK(w) /\ Length(w) >= 3
  /\ \A i \in 1 .. 3 : w.own[i].t \notin {"op", "length"}
  /\ Closed(Segments(w)) /\ Len(Results(Segments(w))) = n
Begins(x, w, status) ==
  /\ WriterOK(x) /\ x.ext = w.ext /\ Length(x) = Length(w) + 2 /\ Follows(x.own, w.own, 1)
  /\ x.own[Length(w) + 1].t = "op" /\ x.own[Length(w) + 2].t = "result"
  /\ x.own[Length(w) + 2].v = status

\* r is what the reply w becomes with one more result, of some status.
Grown(r, w, status, bare) ==
  \E R, z : /\ Results(Segments(w)) \in Seq(R) /\ z \in R
            /\ Results(Segments(r)) = Append(Results(Segments(w)), z)
            /\ z.status = status /\ (bare => z.body = <<>>)

LEMMA LogGrows ==
  ASSUME NEW n \in Nat, NEW w, Log(w, n), NEW status, NEW x, Begins(x, w, status),
         NEW r, Adds(r, x)
  PROVE  Log(r, n + 1) /\ Grown(r, w, status, r = x)
<1>1. PICK a, b, c : a = Segments(r) /\ b = Segments(x) /\ c = Segments(w)
  OBVIOUS
<1>2. WriterOK(w) /\ WriterOK(x) /\ WriterOK(r) /\ x.ext = w.ext
  BY DEF Log, Begins, Adds
<1>3. /\ IsSeq(a) /\ IsSeq(b) /\ IsSeq(c)
      /\ Len(a) \in Nat /\ Len(b) \in Nat /\ Len(c) \in Nat
  BY <1>1, <1>2, SegmentsSeq
<1>4. PICK l : l = Length(w)
  OBVIOUS
<1>5. l \in Nat /\ l >= 3 /\ Length(x) = l + 2 /\ Length(r) >= l + 2 /\ Length(r) \in Nat
      /\ Len(w.own) = l /\ Len(x.own) = l + 2
  <2>1. Length(r) \in Nat /\ Length(x) \in Nat /\ Length(w) \in Nat
    BY <1>2 DEF WriterOK, Length
  <2>2. Length(r) >= Length(x)
    BY <2>1 DEF Adds, Follows, Length
  <2> QED BY <1>4, <2>1, <2>2 DEF Log, Begins, Length
<1>6. \A i \in 1 .. l : x.own[i] = w.own[i]
  BY <1>5 DEF Begins, Follows
<1>7. \A i \in 1 .. l + 2 : r.own[i] = x.own[i]
  BY <1>5 DEF Adds, Follows
<1>8. PICK h : h = 1
  OBVIOUS
<1>9. h \in Nat \ {0} /\ Follows(x.own, w.own, h) /\ \A j \in DOMAIN w.ext : w.ext[j].at >= h
  <2>1. \A j \in DOMAIN w.ext : w.ext[j].at \in 1 .. Length(w)
    BY <1>2 DEF WriterOK
  <2> QED BY <1>4, <1>5, <1>8, <2>1 DEF Begins
<1>10. Follows(b, c, 1) /\ Len(b) = Len(c) + 2
       /\ b[Len(c) + 1] = x.own[l + 1] /\ b[Len(c) + 2] = x.own[l + 2]
  <2>1. Follows(b, c, 1)
    BY <1>1, <1>2, <1>8, <1>9, SegmentsFollow
  <2>2. Len(b) - Len(c) = Length(x) - Length(w)
    <3>1. Len(Segments(x)) - Len(Segments(w)) = Length(x) - Length(w)
      BY <1>2, <1>9, SegmentsFollow
    <3> QED BY ONLY <1>1, <3>1
  <2>3. \A i \in 1 .. Length(x) - Length(w) : b[Len(c) + i] = x.own[Length(w) + i]
    <3>1. \A i \in 1 .. Length(x) - Length(w) :
            Segments(x)[Len(Segments(w)) + i] = x.own[Length(w) + i]
      BY <1>2, <1>9, SegmentsFollow
    <3> QED BY ONLY <1>1, <3>1
  <2>4. Length(x) - Length(w) = 2 /\ 1 \in 1 .. 2 /\ 2 \in 1 .. 2
    BY <1>4, <1>5
  <2>5. b[Len(c) + 1] = x.own[l + 1] /\ b[Len(c) + 2] = x.own[l + 2]
    BY ONLY <1>4, <2>3, <2>4
  <2> QED BY <1>3, <2>1, <2>2, <2>4, <2>5
<1>11. Follows(a, b, 1) /\ \A i \in Len(b) + 1 .. Len(a) : a[i].t # "op"
  BY <1>1 DEF Adds
<1>12. Follows(a, c, 1) /\ Len(a) >= Len(c) + 2
       /\ a[Len(c) + 1] = x.own[l + 1] /\ a[Len(c) + 2] = x.own[l + 2]
  <2>1. Len(b) <= Len(a) /\ \A i \in 1 .. Len(b) : a[i] = b[i]
    BY <1>11 DEF Follows
  <2>2. \A i \in 1 .. Len(c) : b[i] = c[i]
    BY <1>10 DEF Follows
  <2>3. Len(c) + 1 \in 1 .. Len(b) /\ Len(c) + 2 \in 1 .. Len(b)
    BY <1>3, <1>10
  <2>4. \A i \in 1 .. Len(c) : i \in 1 .. Len(b)
    BY <1>3, <1>10
  <2>5. Len(c) <= Len(a) /\ Len(a) >= Len(c) + 2
    BY <1>3, <1>10, <2>1
  <2> QED BY <1>10, <2>1, <2>2, <2>3, <2>4, <2>5 DEF Follows
<1>13. /\ x.own[l + 1].t = "op" /\ x.own[l + 2].t # "op" /\ x.own[l + 2].v = status
  BY <1>4 DEF Begins
<1>14. \A i \in Len(c) + 2 .. Len(a) : a[i].t # "op"
  <2>1. \A i \in Len(c) + 2 .. Len(a) : i = Len(c) + 2 \/ i \in Len(b) + 1 .. Len(a)
    BY <1>3, <1>10
  <2> QED BY <1>11, <1>12, <1>13, <2>1
<1>15. Closed(c) /\ Len(Results(c)) = n
  BY <1>1 DEF Log
<1>16. /\ Closed(a)
       /\ \E R, z : /\ Results(c) \in Seq(R) /\ z \in R /\ Results(a) = Append(Results(c), z)
                    /\ z.status = a[Len(c) + 2].v
                    /\ Len(a) = Len(c) + 2 => z.body = <<>>
  <2>1. a[Len(c) + 1].t = "op"
    BY <1>12, <1>13
  <2> QED BY ONLY <1>3, <1>12, <1>14, <1>15, <2>1, ResultsGrow
<1>17. PICK R, z : /\ Results(c) \in Seq(R) /\ z \in R /\ Results(a) = Append(Results(c), z)
                   /\ z.status = a[Len(c) + 2].v
                   /\ Len(a) = Len(c) + 2 => z.body = <<>>
  BY <1>16
<1>18. Len(Results(a)) = n + 1
  BY <1>15, <1>17
<1>19. r = x => Len(a) = Len(c) + 2
  BY <1>1, <1>10
<1>20. Grown(r, w, status, r = x)
  <2>1. z.status = status /\ (r = x => z.body = <<>>)
    BY <1>12, <1>13, <1>17, <1>19
  <2> QED BY <1>1, <1>17, <2>1 DEF Grown
<1>21. \A i \in 1 .. 3 : r.own[i].t \notin {"op", "length"}
  <2>1. \A i \in 1 .. 3 : i \in 1 .. l /\ i \in 1 .. l + 2
    BY <1>5
  <2> QED BY <1>6, <1>7, <2>1 DEF Log
<1> QED BY <1>1, <1>2, <1>5, <1>16, <1>18, <1>20, <1>21 DEF Log

\* An operation's number and its status are two items,
LEMMA PutBegins ==
  ASSUME NEW w, WriterOK(w), NEW op
  PROVE  Begins(Put(w, ResultOf(op)), w, "OK")
<1>1. PICK p, q, items : p = Item("op", op) /\ q = Item("result", "OK") /\ items = <<p, q>>
  OBVIOUS
<1>2. p.t = "op" /\ q.t = "result" /\ q.v = "OK" /\ items = ResultOf(op)
  BY <1>1 DEF Item, ResultOf
<1>3. Len(items) = 2 /\ items[1] = p /\ items[2] = q
  BY ONLY <1>1
<1>4. Written(items) /\ Follow(w.own, items)
  <2>1. "op" # "data" /\ "result" # "data"
    OBVIOUS
  <2>2. Plain(items)
    BY <1>2, <2>1, PlainTwo DEF ResultOf
  <2> QED BY <2>2 DEF Plain, Written, Follow, ToSet
<1>5. PICK r : r = Put(w, items)
  OBVIOUS
<1>6. /\ WriterOK(r) /\ r.ext = w.ext /\ Length(r) = Length(w) + Len(items)
      /\ \A k \in 1 .. Length(w) : r.own[k] = w.own[k]
      /\ \A k \in 1 .. Len(items) : r.own[Length(w) + k] = items[k]
  BY <1>4, <1>5, PutKeeps
<1>7. r.own[Length(w) + 1] = p /\ r.own[Length(w) + 2] = q
  BY <1>3, <1>6
<1>8. Follows(r.own, w.own, 1)
  <2>1. Len(w.own) \in Nat /\ Len(r.own) = Len(w.own) + 2
    BY <1>3, <1>6 DEF WriterOK, Length
  <2>2. Len(w.own) <= Len(r.own)
    BY <2>1
  <2> QED BY <1>6, <2>2 DEF Follows, Length
<1>9. Begins(r, w, "OK")
  BY <1>2, <1>3, <1>6, <1>7, <1>8 DEF Begins
<1> QED BY <1>2, <1>5, <1>9

\* nothing more is there of one that has failed,
LEMMA ThoseAll ==
  ASSUME NEW T, NEW s \in Seq(T), NEW S, \A k \in DOMAIN s : s[k] \in S
  PROVE  Those(s, S) = s
<1>1. PICK t : t = Those(s, S)
  OBVIOUS
<1>2. PICK u : /\ u[Len(s) + 1] = <<>> /\ u[1] = t
               /\ \A k \in 1 .. Len(s) :
                     u[k] = IF s[k] \in S THEN <<s[k]>> \o u[k + 1] ELSE u[k + 1]
  BY <1>1, ThoseSteps
<1> DEFINE n == Len(s)
           P(v, k) == /\ v \in Seq(T) /\ Len(v) = n + 1 - k
                      /\ \A i \in 1 .. n + 1 - k : v[i] = s[k - 1 + i]
           C == {k \in 1 .. n + 1 : P(u[k], k)}
<1>3. n \in Nat /\ DOMAIN s = 1 .. n /\ \A k \in 1 .. n : s[k] \in T
  OBVIOUS
<1>4. n + 1 \in C
  <2>1. PICK Q : Q = Seq(T)
    OBVIOUS
  <2>2. <<>> \in Q /\ Len(<<>>) = 0
    BY <2>1
  <2>3. n + 1 - (n + 1) = 0 /\ n + 1 \in 1 .. n + 1
    BY <1>3
  <2>4. P(u[n + 1], n + 1)
    BY <1>2, <2>1, <2>2, <2>3
  <2> HIDE DEF P
  <2> QED BY <2>3, <2>4
<1>5. ASSUME NEW k \in 1 .. n, k + 1 \in C PROVE k \in C
  <2>1. PICK v, x, y : v = u[k + 1] /\ x = s[k] /\ y = u[k]
    OBVIOUS
  <2>2. y = <<x>> \o v /\ x \in T
    BY <1>2, <1>3, <2>1
  <2> HIDE DEF n
  <2>3. v \in Seq(T) /\ Len(v) = n - k /\ \A i \in 1 .. n - k : v[i] = s[k + i]
    <3>1. P(v, k + 1)
      BY <1>5, <2>1
    <3>2. n + 1 - (k + 1) = n - k /\ \A i \in 1 .. n - k : k + 1 - 1 + i = k + i
      BY <1>3
    <3> QED BY <3>1, <3>2
  <2>4. /\ y \in Seq(T) /\ Len(y) = 1 + Len(v)
        /\ \A i \in 1 .. 1 + Len(v) : y[i] = IF i <= 1 THEN <<x>>[i] ELSE v[i - 1]
    <3>1. <<x>> \in Seq(T) /\ Len(<<x>>) = 1
      BY <2>2
    <3> QED BY <2>2, <2>3, <3>1, ConcatProperties
  <2>5. Len(y) = n + 1 - k
    BY <1>3, <2>3, <2>4
  <2>6. ASSUME NEW i \in 1 .. n + 1 - k PROVE y[i] = s[k - 1 + i]
    <3>1. i \in 1 .. 1 + Len(v)
      BY <1>3, <2>3
    <3>2. CASE i = 1
      <4>1. y[i] = x /\ k - 1 + i = k
        BY <1>3, <2>4, <3>1, <3>2
      <4> QED BY <2>1, <4>1
    <3>3. CASE i # 1
      <4>1. ~(i <= 1) /\ i - 1 \in 1 .. n - k /\ k + (i - 1) = k - 1 + i
        BY <1>3, <3>3
      <4>2. y[i] = v[i - 1]
        BY <2>4, <3>1, <4>1
      <4>3. v[i - 1] = s[k + (i - 1)]
        BY <2>3, <4>1
      <4> QED BY <4>1, <4>2, <4>3
    <3> QED BY <3>2, <3>3
  <2>7. P(y, k) /\ k \in 1 .. n + 1
    BY <1>3, <2>4, <2>5, <2>6
  <2> HIDE DEF P
  <2> QED BY <2>1, <2>7
<1>6. P(t, 1)
  <2> HIDE DEF n, P
  <2> HIDE DEF C
  <2>1. 1 .. n + 1 \subseteq C
    BY <1>3, <1>4, <1>5, InductDown
  <2>2. 1 \in 1 .. n + 1
    BY <1>3
  <2>3. P(u[1], 1)
    BY <2>1, <2>2 DEF C
  <2> QED BY <1>2, <2>3
<1>7. t \in Seq(T) /\ Len(t) = n /\ \A i \in 1 .. n : t[i] = s[i]
  <2> HIDE DEF n
  <2>1. n + 1 - 1 = n /\ \A i \in 1 .. n : 1 - 1 + i = i
    BY <1>3
  <2> QED BY <1>6, <2>1
<1>8. t = s
  BY <1>3, <1>7
<1> QED BY <1>1, <1>8

LEMMA CutBegins ==
  ASSUME NEW w, WriterOK(w), NEW x, Begins(x, w, "OK"), NEW v, WriterOK(v), v.ext = x.ext,
         Follows(v.own, x.own, 1), NEW status
  PROVE  Begins(Patch(Truncate(v, Length(x)), Length(x) - 1, status), w, status)
<1>1. PICK l : l = Length(w)
  OBVIOUS
<1>2. /\ l \in Nat /\ Length(x) = l + 2 /\ Length(x) \in 0 .. Length(v)
      /\ Len(w.own) = l /\ Len(x.own) = l + 2
  <2>1. Length(w) \in Nat /\ Length(v) \in Nat /\ Length(x) = Length(w) + 2
    BY DEF WriterOK, Length, Begins
  <2>2. Length(x) <= Length(v)
    BY DEF Follows, Length
  <2>3. Length(x) = Len(x.own) /\ Length(w) = Len(w.own)
    BY DEF Length
  <2> QED BY <1>1, <2>1, <2>2, <2>3
<1>3. PICK t : t = Truncate(v, Length(x))
  OBVIOUS
<1>4. WriterOK(t) /\ Length(t) = l + 2 /\ \A k \in 1 .. l + 2 : t.own[k] = v.own[k]
  BY <1>2, <1>3, TruncateKeeps
<1>5. t.ext = w.ext
  <2>1. \A k \in DOMAIN v.ext : v.ext[k].at < Length(x)
    <3>1. v.ext = w.ext
      BY DEF Begins
    <3>2. \A k \in DOMAIN w.ext : w.ext[k].at \in 1 .. l
      BY <1>1 DEF WriterOK
    <3> QED BY <1>2, <3>1, <3>2
  <2>2. PICK S : S = {e \in ToSet(v.ext) : e.at < Length(x)}
    OBVIOUS
  <2>3. \A k \in DOMAIN v.ext : v.ext[k] \in S
    BY <2>1, <2>2 DEF ToSet
  <2>4. v.ext \in Seq(Ext)
    BY DEF WriterOK, Ext
  <2>5. Those(v.ext, S) = v.ext
    BY ONLY <2>3, <2>4, ThoseAll
  <2>6. t.ext = Those(v.ext, S)
    BY <1>3, <2>2 DEF Truncate
  <2> QED BY <2>5, <2>6 DEF Begins
<1>6. PICK o : o = Length(x) - 1
  OBVIOUS
<1>7. PICK r : r = Patch(t, o, status)
  OBVIOUS
<1>8. /\ WriterOK(r) /\ r.ext = t.ext /\ Length(r) = Length(t)
      /\ \A k \in 1 .. Length(t) : /\ r.own[k].t = t.own[k].t
                                   /\ r.own[k].v = IF k = o + 1 THEN status ELSE t.own[k].v
                                   /\ k # o + 1 => r.own[k] = t.own[k]
  BY <1>4, <1>7, PatchKeeps
<1>9. o + 1 = l + 2 /\ l + 2 \in 1 .. l + 2 /\ l + 1 \in 1 .. l + 2 /\ l + 1 # o + 1
      /\ \A k \in 1 .. l : k \in 1 .. l + 2 /\ k # o + 1
  BY <1>2, <1>6
<1>10. \A k \in 1 .. l + 2 : t.own[k] = x.own[k]
  BY <1>2, <1>4 DEF Follows
<1>11. \A k \in 1 .. l : x.own[k] = w.own[k]
  BY <1>2 DEF Begins, Follows
<1>12. /\ r.own[l + 1].t = "op" /\ r.own[l + 2].t = "result" /\ r.own[l + 2].v = status
  BY <1>1, <1>4, <1>8, <1>9, <1>10 DEF Begins
<1>13. ASSUME NEW k \in 1 .. l PROVE r.own[k] = w.own[k]
  <2>1. k \in 1 .. l + 2 /\ k # o + 1 /\ Length(t) = l + 2
    BY <1>4, <1>9
  <2>2. r.own[k] = t.own[k]
    BY <1>8, <2>1
  <2> QED BY <1>10, <1>11, <2>1, <2>2
<1>14. Follows(r.own, w.own, 1)
  <2>1. Len(r.own) = l + 2 /\ Len(w.own) <= Len(r.own)
    BY <1>2, <1>4, <1>8 DEF Length
  <2> QED BY <1>2, <1>13, <2>1 DEF Follows
<1>15. Begins(r, w, status)
  BY <1>1, <1>4, <1>5, <1>8, <1>12, <1>14 DEF Begins
<1> QED BY <1>3, <1>6, <1>7, <1>15

-----------------------------------------------------------------------------
\* What the client sees of a reply, by the kind of reply and the results so far.
ResultsSeen(w, k, n) ==
  LET all == Results(Segments(w)) IN
  IF k = "none" THEN SubSeq(all, 1, n)
  ELSE IF k = "compound" /\ w.own[CountAt + 1].v = Word(Len(all)) THEN all ELSE <<>>
StatusSeen(w, a, k) ==
  IF a \in {"replied", "sent"} /\ k = "compound" THEN Segments(w)[1].v
  ELSE IF a \in {"replied", "sent"} /\ k = "garbage_args" THEN "GARBAGE_ARGS"
  ELSE "none"

LEMMA ChosenOne == \A x : (CHOOSE rs \in {Results(items) : items \in {x}} : TRUE) = Results(x)
<1> SUFFICES ASSUME NEW x PROVE (CHOOSE rs \in {Results(items) : items \in {x}} : TRUE) = Results(x)
  OBVIOUS
<1>1. {Results(items) : items \in {x}} = {Results(x)}
  OBVIOUS
<1>2. PICK r : r = Results(x)
  OBVIOUS
<1>3. (CHOOSE rs \in {r} : TRUE) = r
  OBVIOUS
<1> QED BY <1>1, <1>2, <1>3

LEMMA Seen ==
  /\ ClientResults = ResultsSeen(out, kind, produced)
  /\ ClientStatus = StatusSeen(out, at, kind)
<1>1. (CHOOSE rs \in {Results(items) : items \in {Segments(out)}} : TRUE) = Results(Segments(out))
  BY ChosenOne
<1>2. ClientResults = ResultsSeen(out, kind, produced)
  BY <1>1 DEF ClientResults, ResultsSeen
<1>3. ClientStatus = StatusSeen(out, at, kind)
  BY DEF ClientStatus, StatusSeen, Answering
<1> QED BY <1>2, <1>3

LEMMA SeenNext ==
  /\ ClientResults' = ResultsSeen(out', kind', produced')
  /\ ClientStatus' = StatusSeen(out', at', kind')
<1>1. (CHOOSE rs \in {Results(items) : items \in {Segments(out')}} : TRUE) = Results(Segments(out'))
  BY ChosenOne
<1>2. ClientResults' = ResultsSeen(out', kind', produced')
  BY <1>1 DEF ClientResults, ResultsSeen
<1>3. ClientStatus' = StatusSeen(out', at', kind')
  BY DEF ClientStatus, StatusSeen, Answering
<1> QED BY <1>2, <1>3

LEMMA ResultsSeq ==
  ASSUME NEW items, IsSeq(items), Closed(items)
  PROVE  IsSeq(Results(items))
<1>1. PICK T : items \in Seq(T)
  BY DEF IsSeq
<1>2. PICK f, R : f \in [1 .. Len(items) + 1 -> Seq(R)] /\ Results(items) = f[1]
  BY <1>1, ResultsSteps
<1>3. 1 \in 1 .. Len(items) + 1
  BY <1>1
<1> QED BY <1>2, <1>3 DEF IsSeq

LEMMA SeenRunning ==
  ASSUME NEW n \in Nat, NEW w, Log(w, n)
  PROVE  ResultsSeen(w, "none", n) = Results(Segments(w)) /\ IsSeq(Results(Segments(w)))
<1>1. IsSeq(Results(Segments(w)))
  BY SegmentsSeq, ResultsSeq DEF Log
<1>2. PICK R, s : s \in Seq(R) /\ s = Results(Segments(w))
  BY <1>1 DEF IsSeq
<1>3. Len(s) = n
  BY <1>2 DEF Log
<1>4. SubSeq(s, 1, n) = s
  BY <1>2, <1>3
<1> QED BY <1>1, <1>2, <1>4 DEF ResultsSeen

LEMMA AddsSelf ==
  ASSUME NEW w, WriterOK(w)
  PROVE  Adds(w, w)
<1>1. PICK a : a = Segments(w)
  OBVIOUS
<1>2. Len(a) \in Nat /\ Len(w.own) \in Nat
  BY <1>1, SegmentsSeq DEF WriterOK
<1>3. Follows(w.own, w.own, 1) /\ Follows(a, a, 1) /\ \A i \in Len(a) + 1 .. Len(a) : a[i].t # "op"
  BY <1>2 DEF Follows
<1> QED BY <1>1, <1>3 DEF Adds

LEMMA SeenBegun ==
  ASSUME NEW n \in Nat, NEW w, Log(w, n), NEW status, NEW x, Begins(x, w, status)
  PROVE  ResultsSeen(x, "none", n) = Results(Segments(w))
<1>1. Adds(x, x)
  BY AddsSelf DEF Begins
<1>2. Grown(x, w, status, TRUE)
  BY <1>1, LogGrows
<1>3. PICK R, z, s, t : s \in Seq(R) /\ z \in R /\ t = Append(s, z)
                        /\ s = Results(Segments(w)) /\ t = Results(Segments(x))
  BY <1>2 DEF Grown
<1>4. Len(s) = n
  BY <1>3 DEF Log
<1>5. SubSeq(t, 1, n) = s
  BY ONLY <1>3, <1>4
<1> QED BY <1>3, <1>5 DEF ResultsSeen

\* The last lines of compound: what the client decodes of the finished reply.
LEMMA SeenReplied ==
  ASSUME NEW n \in Nat, NEW w, Log(w, n), NEW status, NEW r,
         r = Patch(Patch(w, 0, status), CountAt, Word(n)), NEW m, NEW a \in {"replied", "sent"}
  PROVE  ResultsSeen(r, "compound", m) = Results(Segments(w)) /\ StatusSeen(r, a, "compound") = status
<1>1. PICK p, q, x : p = 0 /\ q = CountAt /\ x = Patch(w, p, status)
  OBVIOUS
<1>2. r = Patch(x, q, Word(n)) /\ WriterOK(w)
  BY <1>1 DEF Log
<1>3. PICK l : l = Length(w)
  OBVIOUS
<1>4. l \in Nat /\ l >= 3 /\ Len(w.own) = l
  BY <1>2, <1>3 DEF Log, WriterOK, Length
<1>5. /\ WriterOK(x) /\ x.ext = w.ext /\ Length(x) = l
      /\ \A k \in 1 .. l : /\ x.own[k].t = w.own[k].t
                           /\ x.own[k].v = IF k = p + 1 THEN status ELSE w.own[k].v
                           /\ k # p + 1 => x.own[k] = w.own[k]
  BY <1>1, <1>2, <1>3, PatchKeeps
<1>6. PICK c : c = Word(n)
  OBVIOUS
<1>7. /\ WriterOK(r) /\ r.ext = x.ext /\ Length(r) = l
      /\ \A k \in 1 .. l : /\ r.own[k].t = x.own[k].t
                           /\ r.own[k].v = IF k = q + 1 THEN c ELSE x.own[k].v
                           /\ k # q + 1 => r.own[k] = x.own[k]
  BY <1>2, <1>5, <1>6, PatchKeeps
<1>8. p + 1 = 1 /\ q + 1 = 3 /\ 1 \in 1 .. l /\ 3 \in 1 .. l
  BY <1>1, <1>4 DEF CountAt
<1>9. r.own[1].v = status /\ r.own[CountAt + 1].v = c
  BY <1>1, <1>5, <1>7, <1>8
<1>10. ASSUME NEW k \in 4 .. l PROVE r.own[k] = w.own[k]
  <2>1. k \in 1 .. l /\ k # 1 /\ k # 3
    BY <1>4
  <2> QED BY <1>5, <1>7, <1>8, <2>1
<1>11. \A k \in 1 .. 3 : r.own[k].t \notin {"op", "length"} /\ w.own[k].t \notin {"op", "length"}
  <2>1. \A k \in 1 .. 3 : k \in 1 .. l
    BY <1>4
  <2> QED BY <1>5, <1>7, <2>1 DEF Log
<1>12. PICK h : h = 4
  OBVIOUS
<1>13. h \in Nat \ {0} /\ Follows(r.own, w.own, h) /\ Follows(w.own, w.own, h)
       /\ \A j \in DOMAIN w.ext : w.ext[j].at >= h
  <2>1. ASSUME NEW j \in DOMAIN w.ext PROVE w.ext[j].at >= 4
    <3>1. w.ext[j].at \in 1 .. l /\ w.own[w.ext[j].at].t = "length"
      BY <1>2, <1>3 DEF WriterOK
    <3>2. w.ext[j].at \notin 1 .. 3
      BY <1>11, <3>1
    <3> QED BY <1>4, <3>1, <3>2
  <2>2. Len(r.own) = l
    BY <1>7 DEF Length
  <2>3. Follows(r.own, w.own, 4) /\ Follows(w.own, w.own, 4)
    BY <1>4, <1>10, <2>2 DEF Follows
  <2> QED BY <1>12, <2>1, <2>3
<1>14. PICK u, v : u = Segments(r) /\ v = Segments(w)
  OBVIOUS
<1>15. r.ext = w.ext
  BY <1>5, <1>7
<1>16. Follows(u, v, h)
  BY <1>2, <1>7, <1>13, <1>14, <1>15, SegmentsFollow
<1>17. IsSeq(u) /\ IsSeq(v) /\ Len(u) \in Nat /\ Len(v) \in Nat
  BY <1>2, <1>7, <1>14, SegmentsSeq
<1>18. Len(u) = Len(v)
  <2>1. Len(Segments(r)) - Len(Segments(w)) = Length(r) - Length(w)
    BY <1>2, <1>7, <1>13, <1>15, SegmentsFollow
  <2>2. Length(r) - Length(w) = 0
    BY <1>3, <1>4, <1>7
  <2> QED BY <1>14, <1>17, <2>1, <2>2
<1>19. \A i \in 1 .. h - 1 : u[i] = r.own[i]
  <2>1. \A i \in 1 .. h - 1 : Segments(r)[i] = r.own[i]
    BY <1>2, <1>7, <1>13, <1>15, SegmentsFollow
  <2> QED BY ONLY <1>14, <2>1
<1>20. \A i \in 1 .. h - 1 : v[i] = w.own[i]
  <2>1. \A i \in 1 .. h - 1 : Segments(w)[i] = w.own[i]
    BY <1>2, <1>13, SegmentsFollow
  <2> QED BY ONLY <1>14, <2>1
<1>21. Results(u) = Results(v)
  <2>1. PICK d : d = 3
    OBVIOUS
  <2>2. \A i \in 1 .. Len(v) : i <= d => u[i].t # "op" /\ v[i].t # "op"
    <3>1. \A i \in 1 .. Len(v) : i <= d => i \in 1 .. 3 /\ i \in 1 .. h - 1
      BY <1>12, <1>17, <2>1
    <3> QED BY <1>11, <1>19, <1>20, <3>1
  <2>3. \A i \in 1 .. Len(v) : i > d => u[i] = v[i]
    <3>1. \A i \in 1 .. Len(v) : i > d => i \in h .. Len(v)
      BY <1>12, <1>17, <2>1
    <3> QED BY <1>16, <3>1 DEF Follows
  <2>4. Closed(v) /\ d \in Nat
    BY <1>14, <2>1 DEF Log
  <2> QED BY ONLY <1>17, <1>18, <2>2, <2>3, <2>4, ResultsPatched
<1>22. Len(Results(v)) = n
  BY <1>14 DEF Log
<1>23. u[1].v = status
  BY <1>9, <1>12, <1>19
<1>24. ResultsSeen(r, "compound", m) = Results(v)
  <2>1. r.own[CountAt + 1].v = Word(Len(Results(u)))
    BY <1>6, <1>9, <1>21, <1>22
  <2> QED BY <1>14, <1>21, <2>1 DEF ResultsSeen
<1> QED BY <1>14, <1>23, <1>24 DEF StatusSeen

\* Before the first operation the client sees no results.
LEMMA FirstLog ==
  /\ Log(Put(EmptyWriter, Prelude), 0) /\ Results(Segments(Put(EmptyWriter, Prelude))) = <<>>
  /\ ResultsSeen(EmptyWriter, "none", 0) = <<>>
<1>1. PICK w : w = EmptyWriter
  OBVIOUS
<1>2. WriterOK(w) /\ w.ext = <<>> /\ w.own = <<>>
  BY <1>1 DEF WriterOK, EmptyWriter, InPlace, ToSet
<1>3. PICK items : items = Prelude
  OBVIOUS
<1>4. /\ Len(items) = 3 /\ \A k \in 1 .. 3 : items[k].t \in {"status", "tag", "count"}
      /\ Plain(items) /\ \A k \in DOMAIN items : items[k].t # "op"
  <2>1. PICK x, y, z : x = Item("status", "OK") /\ y = Item("tag", "t") /\ z = Item("count", "0")
    OBVIOUS
  <2>2. items = <<x, y, z>>
    BY <1>3, <2>1 DEF Prelude
  <2>3. x.t = "status" /\ y.t = "tag" /\ z.t = "count"
    BY <2>1 DEF Item
  <2>4. Plain(items)
    BY <1>3, PlainThree DEF Prelude
  <2>5. Len(items) = 3 /\ items[1] = x /\ items[2] = y /\ items[3] = z /\ DOMAIN items = 1 .. 3
    BY <2>2
  <2> QED BY <2>3, <2>4, <2>5
<1>5. ASSUME NEW r, WriterOK(r), r.ext = <<>>
      PROVE  Segments(r) = r.own
  <2>1. PICK u : u[Len(r.ext) + 1] = r.own /\ u[1] = Segments(r)
    BY <1>5, SegmentSteps
  <2> QED BY <1>5, <2>1
<1>6. PICK r : r = Put(w, items)
  OBVIOUS
<1>7. /\ WriterOK(r) /\ r.ext = w.ext /\ Length(r) = Length(w) + Len(items)
      /\ \A k \in 1 .. Len(items) : r.own[Length(w) + k] = items[k]
  <2>1. Written(items) /\ Follow(w.own, items)
    BY <1>4 DEF Plain, Written, Follow, ToSet
  <2> QED BY <1>2, <1>6, <2>1, PutKeeps
<1>8. Length(r) = 3 /\ \A k \in 1 .. 3 : r.own[k] = items[k]
  <2>1. Length(w) = 0
    BY <1>2 DEF Length
  <2> QED BY <1>4, <1>7, <2>1
<1>9. PICK a : a = Segments(r)
  OBVIOUS
<1>10. a = r.own /\ IsSeq(a) /\ Len(a) = 3
  BY <1>2, <1>5, <1>7, <1>8, <1>9, SegmentsSeq DEF Length
<1>11. \A i \in 1 .. Len(a) : a[i].t # "op"
  BY <1>4, <1>8, <1>10
<1>12. Closed(a) /\ Results(a) = <<>>
  BY <1>10, <1>11, ResultsNone
<1>13. Log(r, 0)
  <2>1. \A i \in 1 .. 3 : r.own[i].t \notin {"op", "length"}
    BY <1>4, <1>8
  <2>2. Len(Results(Segments(r))) = 0
    BY <1>9, <1>12
  <2> QED BY <1>7, <1>8, <1>9, <1>12, <2>1, <2>2 DEF Log
<1>14. ResultsSeen(w, "none", 0) = <<>>
  <2>1. PICK b : b = Segments(w)
    OBVIOUS
  <2>2. b = <<>> /\ IsSeq(b)
    BY <1>2, <1>5, <2>1, SegmentsSeq
  <2>3. Results(b) = <<>>
    BY <2>2, ResultsNone
  <2>4. SubSeq(<<>>, 1, 0) = <<>>
    OBVIOUS
  <2> QED BY <2>1, <2>3, <2>4 DEF ResultsSeen
<1> QED BY <1>1, <1>3, <1>6, <1>9, <1>12, <1>13, <1>14

-----------------------------------------------------------------------------
\* Between two operations the reply is a log of the results so far; during an await
\* the operation that waits has begun, too.
ReplyInv ==
  /\ at = "call" => out = EmptyWriter /\ produced = 0
  /\ at = "ops" => Log(out, produced)
  /\ at = "await" => \E w : Log(w, produced) /\ Begins(out, w, "OK")

\* An action goes on with the reply as CompoundReply allows.
GoesOn == ReplyInv' /\ [Reply!Next]_<<ClientResults, ClientStatus>>

\* w is the log an action finds.
Found(w) ==
  /\ at \in {"ops", "await"} /\ produced \in Nat /\ kind = "none" /\ Log(w, produced)
  /\ \/ at = "ops" /\ out = w
     \/ at = "await" /\ Begins(out, w, "OK")

LEMMA FoundOps ==
  ASSUME CallInv, ReplyInv, at = "ops"
  PROVE  Found(out)
BY DEF CallInv, CallOK, ReplyInv, Found

LEMMA FoundAwait ==
  ASSUME CallInv, ReplyInv, at = "await"
  PROVE  \E w : Found(w) /\ Begins(out, w, "OK")
BY DEF CallInv, CallOK, ReplyInv, Found

LEMMA FoundSeen ==
  ASSUME NEW w, Found(w)
  PROVE  ClientResults = Results(Segments(w)) /\ ClientStatus = "none" /\ IsSeq(Results(Segments(w)))
<1>1. ResultsSeen(out, "none", produced) = Results(Segments(w)) /\ IsSeq(Results(Segments(w)))
  <2>1. ResultsSeen(w, "none", produced) = Results(Segments(w)) /\ IsSeq(Results(Segments(w)))
    BY SeenRunning DEF Found
  <2>2. CASE out = w
    BY <2>1, <2>2
  <2>3. CASE Begins(out, w, "OK")
    BY <2>1, <2>3, SeenBegun DEF Found
  <2> QED BY <2>1, <2>2, <2>3 DEF Found
<1>2. StatusSeen(out, at, kind) = "none"
  BY DEF Found, StatusSeen
<1> QED BY <1>1, <1>2, Seen DEF Found

LEMMA SameReply ==
  ASSUME ReplyInv, UNCHANGED <<at, out, produced, kind>>
  PROVE  GoesOn
<1>1. ReplyInv'
  BY DEF ReplyInv
<1>2. UNCHANGED <<ClientResults, ClientStatus>>
  BY Seen, SeenNext
<1> QED BY <1>1, <1>2 DEF GoesOn

\* What an operation adds to the reply when it succeeds or fails,
LEMMA SucceedsGoesOn ==
  ASSUME NEW w, Found(w), NEW x, Begins(x, w, "OK"), NEW r, Adds(r, x), NEW rest, Succeeds(r, rest)
  PROVE  GoesOn
<1>1. PICK n : n = produced
  OBVIOUS
<1>2. n \in Nat /\ kind = "none" /\ Log(w, n) /\ at \in {"ops", "await"}
  BY <1>1 DEF Found
<1>3. Log(r, n + 1) /\ Grown(r, w, "OK", r = x)
  BY <1>2, LogGrows
<1>4. PICK R, z, s, t :
        /\ s \in Seq(R) /\ z \in R /\ t = Append(s, z) /\ z.status = "OK"
        /\ s = Results(Segments(w)) /\ t = Results(Segments(r))
  BY <1>3 DEF Grown
<1>5. ClientResults = s /\ ClientStatus = "none"
  BY <1>4, FoundSeen
<1>6. /\ ClientResults' = t /\ ClientStatus' \in {"none", "OK"} /\ ReplyInv'
  <2>1. CASE todo = 1
    <3>1. /\ at' = "replied" /\ kind' = "compound" /\ produced' = n + 1
          /\ out' = Patch(Patch(r, 0, "OK"), CountAt, Word(n + 1))
      BY <1>1, <2>1 DEF Succeeds, Replied
    <3>2. PICK m, o : m = n + 1 /\ o = out'
      OBVIOUS
    <3>3. ResultsSeen(o, "compound", m) = t /\ StatusSeen(o, "replied", "compound") = "OK"
      <4>1. m \in Nat /\ Log(r, m) /\ o = Patch(Patch(r, 0, "OK"), CountAt, Word(m))
        BY <1>2, <1>3, <3>1, <3>2
      <4> QED BY ONLY <1>4, <4>1, SeenReplied
    <3>4. ClientResults' = t /\ ClientStatus' = "OK"
      BY <3>1, <3>2, <3>3, SeenNext
    <3> QED BY <3>1, <3>4 DEF ReplyInv
  <2>2. CASE todo # 1
    <3>1. /\ at' = "ops" /\ kind' = "none" /\ produced' = n + 1 /\ out' = r
      BY <1>1, <1>2, <2>2 DEF Succeeds
    <3>2. PICK m : m = n + 1
      OBVIOUS
    <3>3. ResultsSeen(r, "none", m) = t
      BY <1>2, <1>3, <1>4, <3>2, SeenRunning
    <3>4. StatusSeen(r, "ops", "none") = "none"
      BY DEF StatusSeen
    <3>5. ClientResults' = t /\ ClientStatus' = "none"
      BY <3>1, <3>2, <3>3, <3>4, SeenNext
    <3> QED BY <1>3, <3>1, <3>5 DEF ReplyInv
  <2> QED BY <2>1, <2>2
<1>7. Len(t) = Len(s) + 1 /\ SubSeq(t, 1, Len(t) - 1) = s /\ t[Len(t)] = z
  BY ONLY <1>4, AppendProperties, SubSeqProperties
<1>8. Reply!OneMore
  BY ONLY <1>5, <1>6, <1>7 DEF Reply!OneMore, Reply!Front
<1>9. Reply!Succeed
  BY ONLY <1>4, <1>5, <1>6, <1>7, <1>8 DEF Reply!Succeed, Reply!Last
<1> QED BY <1>6, <1>9 DEF GoesOn, Reply!Next

LEMMA FailsGoesOn ==
  ASSUME NEW w, Found(w), NEW x, Begins(x, w, "OK"),
         NEW v, WriterOK(v), v.ext = x.ext, Follows(v.own, x.own, 1),
         NEW status, status # "OK", Fails(v, Length(x), status)
  PROVE  GoesOn
<1>1. PICK n : n = produced
  OBVIOUS
<1>2. n \in Nat /\ kind = "none" /\ Log(w, n)
  BY <1>1 DEF Found
<1>3. PICK r : r = Patch(Truncate(v, Length(x)), Length(x) - 1, status)
  OBVIOUS
<1>4. Begins(r, w, status)
  <2>1. WriterOK(w)
    BY <1>2 DEF Log
  <2> QED BY <1>3, <2>1, CutBegins
<1>5. Log(r, n + 1) /\ Grown(r, w, status, TRUE)
  <2>1. Adds(r, r)
    BY <1>4, AddsSelf DEF Begins
  <2>2. Log(r, n + 1) /\ Grown(r, w, status, r = r)
    BY <1>2, <1>4, <2>1, LogGrows
  <2> QED BY <2>2
<1>6. PICK R, z, s, t :
        /\ s \in Seq(R) /\ z \in R /\ t = Append(s, z) /\ z.status = status /\ z.body = <<>>
        /\ s = Results(Segments(w)) /\ t = Results(Segments(r))
  BY <1>5 DEF Grown
<1>7. ClientResults = s /\ ClientStatus = "none"
  BY <1>6, FoundSeen
<1>8. /\ at' = "replied" /\ kind' = "compound" /\ produced' = n + 1
      /\ out' = Patch(Patch(r, 0, status), CountAt, Word(n + 1))
  BY <1>1, <1>3 DEF Fails, Replied
<1>9. ClientResults' = t /\ ClientStatus' = status /\ ReplyInv'
  <2>1. PICK m, o : m = n + 1 /\ o = out'
    OBVIOUS
  <2>2. ResultsSeen(o, "compound", m) = t /\ StatusSeen(o, "replied", "compound") = status
    <3>1. m \in Nat /\ Log(r, m) /\ o = Patch(Patch(r, 0, status), CountAt, Word(m))
      BY <1>2, <1>5, <1>8, <2>1
    <3> QED BY ONLY <1>6, <3>1, SeenReplied
  <2>3. ClientResults' = t /\ ClientStatus' = status
    BY <1>8, <2>1, <2>2, SeenNext
  <2> QED BY <1>8, <2>3 DEF ReplyInv
<1>10. Len(t) = Len(s) + 1 /\ SubSeq(t, 1, Len(t) - 1) = s /\ t[Len(t)] = z
  BY ONLY <1>6, AppendProperties, SubSeqProperties
<1>11. Reply!OneMore
  BY ONLY <1>7, <1>9, <1>10 DEF Reply!OneMore, Reply!Front
<1>12. Reply!Fail
  <2>1. status # "OK"
    OBVIOUS
  <2> QED BY ONLY <1>6, <1>7, <1>9, <1>10, <1>11, <2>1 DEF Reply!Fail, Reply!Last
<1> QED BY <1>9, <1>12 DEF GoesOn, Reply!Next

\* in its first turn
LEMMA RefusedGoesOn ==
  ASSUME CallInv, ReplyInv, NEW op, NEW status, status # "OK", Refused(op, status)
  PROVE  GoesOn
<1>1. at = "ops" /\ Fails(Begun(op), Length(Begun(op)), status)
  BY DEF Refused, Number
<1>2. Found(out) /\ WriterOK(out)
  BY <1>1, FoundOps DEF CallInv
<1>3. PICK x : x = Begun(op)
  OBVIOUS
<1>4. Begins(x, out, "OK")
  BY <1>2, <1>3, PutBegins DEF Begun
<1>5. WriterOK(x) /\ Follows(x.own, x.own, 1)
  BY <1>4, AddsSelf DEF Begins, Adds
<1> QED BY <1>1, <1>2, <1>3, <1>4, <1>5, FailsGoesOn

LEMMA BegunGoesOn ==
  ASSUME CallInv, ReplyInv, at = "ops", NEW op, NEW r, Adds(r, Begun(op)), NEW rest, Succeeds(r, rest)
  PROVE  GoesOn
<1>1. Found(out) /\ WriterOK(out)
  BY FoundOps DEF CallInv
<1>2. PICK x : x = Begun(op)
  OBVIOUS
<1>3. Begins(x, out, "OK") /\ Adds(r, x)
  BY <1>1, <1>2, PutBegins DEF Begun
<1> QED BY <1>1, <1>3, SucceedsGoesOn

Body(items) == Plain(items) /\ \A x \in ToSet(items) : x.t # "op"

LEMMA AnsweredGoesOn ==
  ASSUME CallInv, ReplyInv, NEW op, NEW body, Body(body), Answered(op, body)
  PROVE  GoesOn
<1>1. at = "ops" /\ Succeeds(Put(Begun(op), body), LeftBy(op))
  BY DEF Answered, Number
<1>2. PICK x, r : x = Begun(op) /\ r = Put(x, body)
  OBVIOUS
<1>3. WriterOK(x)
  BY <1>2, BegunOK DEF CallInv
<1>4. Adds(r, x)
  BY <1>2, <1>3, PlainAdds DEF Body
<1> QED BY <1>1, <1>2, <1>4, BegunGoesOn

LEMMA WaitsGoesOn ==
  ASSUME CallInv, ReplyInv, at = "ops", NEW op, NEW p, NEW step, NEW path, NEW from, NEW length,
         Awaits(p, Begun(op), step, path, from, length)
  PROVE  GoesOn
<1>1. Found(out) /\ WriterOK(out)
  BY FoundOps DEF CallInv
<1>2. PICK x, w : x = Begun(op) /\ w = out
  OBVIOUS
<1>3. Begins(x, w, "OK") /\ Found(w)
  BY <1>1, <1>2, PutBegins DEF Begun
<1>4. at' = "await" /\ out' = x /\ produced' = produced /\ kind' = "none" /\ Log(w, produced)
  BY <1>2, <1>3 DEF Awaits, Found
<1>5. ReplyInv'
  BY <1>3, <1>4 DEF ReplyInv
<1>6. ResultsSeen(x, "none", produced) = Results(Segments(w))
  BY <1>3, SeenBegun DEF Found
<1>7. StatusSeen(x, "await", "none") = "none"
  BY DEF StatusSeen
<1>8. UNCHANGED <<ClientResults, ClientStatus>>
  BY <1>3, <1>4, <1>6, <1>7, FoundSeen, SeenNext
<1> QED BY <1>5, <1>8 DEF GoesOn

\* and when what it has waited for settles.
LEMMA FailsAfterGoesOn ==
  ASSUME CallInv, ReplyInv, at = "await", NEW status, status # "OK", FailsAfter(status)
  PROVE  GoesOn
<1>1. PICK w : Found(w) /\ Begins(out, w, "OK")
  BY FoundAwait
<1>2. WriterOK(out) /\ Follows(out.own, out.own, 1)
  BY AddsSelf DEF CallInv, Adds
<1>3. Fails(out, Length(out), status)
  BY DEF FailsAfter
<1> QED BY <1>1, <1>2, <1>3, FailsGoesOn

LEMMA SettledGoesOn ==
  ASSUME CallInv, ReplyInv, at = "await", NEW r, Adds(r, out), NEW rest, Succeeds(r, rest)
  PROVE  GoesOn
BY FoundAwait, SucceedsGoesOn

LEMMA BodyNone == Body(<<>>)
BY PlainNone DEF Body, ToSet

LEMMA BodyOne ==
  ASSUME NEW t, t \notin {"data", "op"}, NEW v
  PROVE  Body(<<Item(t, v)>>)
<1>1. Plain(<<Item(t, v)>>)
  BY PlainOne
<1>2. PICK x : x = Item(t, v)
  OBVIOUS
<1>3. x.t # "op"
  BY <1>2 DEF Item
<1>4. ToSet(<<x>>) = {x}
  BY DEF ToSet
<1> QED BY <1>1, <1>2, <1>3, <1>4 DEF Body

LEMMA BodyTwo ==
  ASSUME NEW t1, t1 \notin {"data", "op"}, NEW v1, NEW t2, t2 \notin {"data", "op"}, NEW v2
  PROVE  Body(<<Item(t1, v1), Item(t2, v2)>>)
<1>1. Plain(<<Item(t1, v1), Item(t2, v2)>>)
  BY PlainTwo
<1>2. PICK x, y : x = Item(t1, v1) /\ y = Item(t2, v2)
  OBVIOUS
<1>3. x.t # "op" /\ y.t # "op"
  BY <1>2 DEF Item
<1>4. ToSet(<<x, y>>) = {x, y}
  BY DEF ToSet
<1> QED BY <1>1, <1>2, <1>3, <1>4 DEF Body

\* The operations in their first turn.
LEMMA FhGoesOn ==
  ASSUME CallInv, ReplyInv, GetFh \/ SaveFh \/ RestoreFh \/ ReadLink \/ GetAttr
  PROVE  GoesOn
<1>1. ASSUME NEW op, NEW e, e # "OK", Refused(op, e) PROVE GoesOn
  BY <1>1, RefusedGoesOn
<1>2. ASSUME NEW op, NEW t, t \notin {"data", "op"}, NEW v, Answered(op, <<Item(t, v)>>) PROVE GoesOn
  <2>1. Body(<<Item(t, v)>>)
    BY <1>2, BodyOne
  <2> QED BY <1>2, <2>1, AnsweredGoesOn
<1>3. ASSUME NEW op, Answered(op, <<>>) PROVE GoesOn
  BY <1>3, BodyNone, AnsweredGoesOn
<1>4. CASE GetFh
  BY <1>1, <1>2, <1>4 DEF GetFh
<1>5. CASE SaveFh
  BY <1>1, <1>3, <1>5 DEF SaveFh
<1>6. CASE RestoreFh
  BY <1>1, <1>3, <1>6 DEF RestoreFh
<1>7. CASE ReadLink
  BY <1>1, <1>2, <1>7 DEF ReadLink
<1>8. CASE GetAttr
  <2>1. ASSUME NEW r \in Requests, Answered("GETATTR", Fattr(SupportedOf(ReadBitmap(r)), cur.size))
        PROVE  GoesOn
    <3>1. Body(Fattr(SupportedOf(ReadBitmap(r)), cur.size))
      BY BodyTwo DEF Fattr
    <3> QED BY <2>1, <3>1, AnsweredGoesOn
  <2> QED BY <1>1, <1>8, <2>1 DEF GetAttr
<1> QED BY <1>4, <1>5, <1>6, <1>7, <1>8

LEMMA VerifyGoesOn ==
  ASSUME CallInv, ReplyInv, NEW op, NEW fault, fault # "OK", NEW wanted, Verify(op, fault, wanted)
  PROVE  GoesOn
<1>1. ASSUME NEW e, e # "OK", Refused(op, e) PROVE GoesOn
  BY <1>1, RefusedGoesOn
<1>2. ASSUME Answered(op, <<>>) PROVE GoesOn
  BY <1>2, BodyNone, AnsweredGoesOn
<1> QED BY <1>1, <1>2 DEF Verify

LEMMA WalkGoesOn ==
  ASSUME CallInv, ReplyInv, PutRoot \/ PutFh \/ Lookup \/ Lookupp \/ Access \/ Readdir
  PROVE  GoesOn
<1>1. ASSUME NEW op, NEW e, e # "OK", Refused(op, e) PROVE GoesOn
  BY <1>1, RefusedGoesOn
<1>2. ASSUME NEW op, InDir(op) PROVE GoesOn
  BY <1>1, <1>2 DEF InDir
<1>3. ASSUME NEW op, NEW step, NEW p, Waits(op, step, p) PROVE GoesOn
  BY <1>3, WaitsGoesOn DEF Waits, Number
<1>4. CASE PutRoot
  BY <1>3, <1>4 DEF PutRoot
<1>5. CASE PutFh
  BY <1>1, <1>3, <1>5 DEF PutFh
<1>6. CASE Lookup
  BY <1>2, <1>3, <1>6 DEF Lookup
<1>7. CASE Lookupp
  BY <1>1, <1>2, <1>3, <1>7 DEF Lookupp
<1>8. CASE Access
  <2>1. ASSUME Answered("ACCESS", <<Item("granted", "read")>>) PROVE GoesOn
    <3>1. Body(<<Item("granted", "read")>>)
      BY BodyOne
    <3> QED BY <2>1, <3>1, AnsweredGoesOn
  <2> QED BY <1>1, <1>3, <1>8, <2>1 DEF Access
<1>9. CASE Readdir
  BY <1>1, <1>2, <1>3, <1>9 DEF Readdir
<1> QED BY <1>4, <1>5, <1>6, <1>7, <1>8, <1>9

LEMMA OthersGoOn ==
  ASSUME CallInv, ReplyInv,
         OpenRefused \/ StateOp \/ CloseOp \/ Unsupported \/ Illegal \/ BadArguments
  PROVE  GoesOn
<1>1. ASSUME NEW op, NEW e, e # "OK", Refused(op, e) PROVE GoesOn
  BY <1>1, RefusedGoesOn
<1>2. ASSUME NEW op, Answered(op, <<>>) PROVE GoesOn
  BY <1>2, BodyNone, AnsweredGoesOn
<1>3. CASE OpenRefused
  BY <1>1, <1>3 DEF OpenRefused
<1>4. CASE StateOp
  BY <1>1, <1>2, <1>4 DEF StateOp
<1>5. CASE CloseOp
  <2>1. ASSUME Waits("CLOSE", "close", "none") PROVE GoesOn
    BY <2>1, WaitsGoesOn DEF Waits, Number
  <2> QED BY <1>1, <1>5, <2>1 DEF CloseOp
<1>6. CASE Unsupported \/ Illegal \/ BadArguments
  BY <1>1, <1>6 DEF Unsupported, Illegal, BadArguments
<1> QED BY <1>3, <1>4, <1>5, <1>6

\* The answer to a READ: its eof, the length of what was read, and the payloads.
LEMMA ReadAdds ==
  ASSUME NEW x, WriterOK(x), NEW from, NEW got, NEW length, NEW parts \in Seq(Part),
         \A j, k \in DOMAIN parts : parts[j].b = parts[k].b => j = k
  PROVE  Adds(Splice(Put(x, EofItem(from, got, length)), parts), x)
<1>1. PICK q : q = EofItem(from, got, length)
  OBVIOUS
<1>2. Body(q)
  BY <1>1, BodyOne DEF EofItem
<1>3. PICK y : y = Put(x, q)
  OBVIOUS
<1>4. Adds(y, x)
  BY <1>2, <1>3, PlainAdds DEF Body
<1>5. WriterOK(y)
  BY <1>4 DEF Adds
<1>6. PICK r : r = Splice(y, parts)
  OBVIOUS
<1>7. Adds(r, y)
  BY <1>5, <1>6, SpliceKeeps
<1>8. Adds(r, x)
  BY ONLY <1>4, <1>7, WriterOK(x), AddsTrans
<1> QED BY ONLY <1>1, <1>3, <1>6, <1>8

LEMMA PastEndAdds ==
  ASSUME NEW x, WriterOK(x), NEW from, NEW got, NEW length
  PROVE  Adds(Splice(Put(x, EofItem(from, got, length)), <<>>), x)
<1>1. PICK parts : parts = <<>>
  OBVIOUS
<1>2. parts \in Seq(Part) /\ DOMAIN parts = {}
  BY <1>1
<1>3. Adds(Splice(Put(x, EofItem(from, got, length)), parts), x)
  BY <1>2, ReadAdds
<1> QED BY <1>1, <1>3

LEMMA ReadCallGoesOn ==
  ASSUME CallInv, ReplyInv, ReadCall
  PROVE  GoesOn
<1>1. ASSUME NEW e, e # "OK", Refused("READ", e) PROVE GoesOn
  BY <1>1, RefusedGoesOn
<1>2. ASSUME at = "ops", NEW from, NEW length,
             \/ ReadFrom(Begun("READ"), from, length)
             \/ Awaits("READ", Begun("READ"), "open", cur.path, from, length)
      PROVE  GoesOn
  <2>1. PICK x : x = Begun("READ")
    OBVIOUS
  <2>2. WriterOK(x)
    BY <2>1, BegunOK DEF CallInv
  <2>3. CASE Succeeds(Splice(Put(x, EofItem(from, 0, length)), <<>>), LeftBy("READ"))
    <3>1. Adds(Splice(Put(x, EofItem(from, 0, length)), <<>>), x)
      BY <2>2, PastEndAdds
    <3> QED BY <1>2, <2>1, <2>3, <3>1, BegunGoesOn
  <2>4. ASSUME NEW step, Awaits("READ", x, step, cur.path, from, length) PROVE GoesOn
    BY <1>2, <2>1, <2>4, WaitsGoesOn
  <2> QED BY <1>2, <2>1, <2>3, <2>4 DEF ReadFrom
<1> QED BY <1>1, <1>2 DEF ReadCall, Number

LEMMA ReadSettledGoesOn ==
  ASSUME CallInv, ReplyInv, ReadOpened \/ ReadDone
  PROVE  GoesOn
<1>1. CASE ReadOpened
  <2>1. PICK from, length : from = wait.from /\ length = wait.length
    OBVIOUS
  <2>2. at = "await" /\ ReadFrom(out, from, length) /\ WriterOK(out)
    BY <1>1, <2>1 DEF ReadOpened, Settles, CallInv
  <2>3. CASE Succeeds(Splice(Put(out, EofItem(from, 0, length)), <<>>), LeftBy("READ"))
    <3>1. Adds(Splice(Put(out, EofItem(from, 0, length)), <<>>), out)
      BY <2>2, PastEndAdds
    <3> QED BY <2>2, <2>3, <3>1, SettledGoesOn
  <2>4. CASE Awaits("READ", out, "read", cur.path, from, length)
    <3>1. UNCHANGED <<at, out, produced, kind>>
      BY <2>2, <2>4 DEF Awaits
    <3> QED BY <3>1, SameReply
  <2> QED BY <2>2, <2>3, <2>4 DEF ReadFrom
<1>2. CASE ReadDone
  <2>1. PICK from, length, got : from = wait.from /\ length = wait.length /\ got = Got(from, length, SizeNow)
    OBVIOUS
  <2>2. PICK parts \in Parts(got) :
          /\ taken + Len(parts) \in Buffers
          /\ Succeeds(Splice(Put(out, EofItem(from, got, length)), parts), LeftBy("READ"))
    BY <1>2, <2>1 DEF ReadDone
  <2>3. at = "await" /\ wait.op = "READ" /\ cur # None /\ wait.path = cur.path
        /\ from \in Nat /\ length \in Nat /\ WriterOK(out)
    BY <1>2, <2>1 DEF ReadDone, Settles, CallInv, WaitOK, Await
  <2>4. SizeNow \in Nat
    <3>1. cur.path \in Paths /\ cur.size \in Sizes
      BY <2>3, NodeOf DEF CallInv
    <3>2. SizeNow \in Sizes
      BY <2>3, <3>1 DEF SizeNow, There, CallInv, NodesOK
    <3> QED BY <3>2, TreeAssumption
  <2>5. got \in Nat
    BY <2>1, <2>3, <2>4, GotToEnd
  <2>6. taken \in Nat
    BY ReadAssumption DEF CallInv, BuffersOK
  <2>7. parts \in Seq(Part) /\ \A j \in DOMAIN parts : parts[j].b = taken + j
    BY <2>2, <2>5, <2>6, PartsNext
  <2>8. \A j, k \in DOMAIN parts : parts[j].b = parts[k].b => j = k
    BY <2>6, <2>7
  <2>9. Adds(Splice(Put(out, EofItem(from, got, length)), parts), out)
    BY <2>3, <2>7, <2>8, ReadAdds
  <2> QED BY <2>2, <2>3, <2>9, SettledGoesOn
<1> QED BY <1>1, <1>2

\* What an await that settles leads to.
LEMMA LaterGoesOn ==
  ASSUME CallInv, ReplyInv,
         \/ NotFound \/ Walked \/ SecInfo \/ OpenFound \/ Opened \/ RemoveFound \/ Removed
         \/ AccessListed \/ CloseDone \/ Rejected
  PROVE  GoesOn
<1>1. at = "await" /\ WriterOK(out)
  BY DEF NotFound, Walked, SecInfo, OpenFound, Opened, RemoveFound, Removed, AccessListed,
         CloseDone, Rejected, Settles, CallInv
<1>2. ASSUME NEW e, e # "OK", FailsAfter(e) PROVE GoesOn
  BY <1>1, <1>2, FailsAfterGoesOn
<1>3. ASSUME NEW t, t \notin {"data", "op"}, NEW v, NEW rest, Succeeds(Put(out, <<Item(t, v)>>), rest)
      PROVE  GoesOn
  <2>1. PICK q : q = <<Item(t, v)>>
    OBVIOUS
  <2>2. Body(q)
    BY <1>3, <2>1, BodyOne
  <2>3. Adds(Put(out, q), out)
    BY <1>1, <2>2, PlainAdds DEF Body
  <2> QED BY <1>1, <1>3, <2>1, <2>3, SettledGoesOn
<1>4. ASSUME UNCHANGED <<at, out, produced, kind>> PROVE GoesOn
  BY <1>4, SameReply
<1>5. CASE NotFound
  <2>1. Missing(wait.op) # "OK"
    BY DEF Missing
  <2> QED BY <1>2, <1>5, <2>1 DEF NotFound
<1>6. CASE Walked
  <2>1. Succeeds(out, LeftBy(wait.op)) /\ Adds(out, out)
    BY <1>1, <1>6, AddsSelf DEF Walked
  <2> QED BY <1>1, <2>1, SettledGoesOn
<1>7. CASE SecInfo
  BY <1>3, <1>7 DEF SecInfo
<1>8. CASE OpenFound
  BY <1>2, <1>4, <1>8 DEF OpenFound
<1>9. CASE Opened
  BY <1>3, <1>9 DEF Opened
<1>10. CASE RemoveFound
  BY <1>2, <1>4, <1>10 DEF RemoveFound
<1>11. CASE Removed
  BY <1>2, <1>3, <1>11 DEF Removed
<1>12. CASE AccessListed
  <2>1. PICK granted : Succeeds(Put(out, <<Item("granted", granted)>>), LeftBy("ACCESS"))
    BY <1>12 DEF AccessListed
  <2> QED BY <1>3, <2>1
<1>13. CASE CloseDone
  BY <1>3, <1>13 DEF CloseDone
<1>14. CASE Rejected
  BY <1>2, <1>14 DEF Rejected
<1> QED BY <1>5, <1>6, <1>7, <1>8, <1>9, <1>10, <1>11, <1>12, <1>13, <1>14

LEMMA ListedGoesOn ==
  ASSUME CallInv, ReplyInv, ReaddirListed
  PROVE  GoesOn
<1>1. at = "await" /\ WriterOK(out)
  BY DEF ReaddirListed, Settles, CallInv
<1>2. PICK q : q = <<Item("verifier", "0")>>
  OBVIOUS
<1>3. Body(q) /\ Verifier = Put(out, q)
  BY <1>2, BodyOne DEF Verifier
<1>4. Adds(Verifier, out) /\ WriterOK(Verifier) /\ Verifier.ext = out.ext
  BY <1>1, <1>3, PlainAdds, PutPlain DEF Body
<1>5. CASE Fails(Verifier, Length(out), "TOOSMALL")
  <2>1. PICK w : Found(w) /\ Begins(out, w, "OK")
    BY <1>1, FoundAwait
  <2>2. Follows(Verifier.own, out.own, 1)
    BY <1>4 DEF Adds
  <2> QED BY <1>4, <1>5, <2>1, <2>2, FailsGoesOn
<1>6. CASE Succeeds(Put(Verifier, <<Item("entries", Word(ChildrenOf(wait.path))), Item("end", "1")>>),
                    LeftBy("READDIR"))
  <2>1. PICK p, v : p = <<Item("entries", Word(ChildrenOf(wait.path))), Item("end", "1")>> /\ v = Verifier
    OBVIOUS
  <2>2. Body(p)
    BY <2>1, BodyTwo
  <2>3. Adds(Put(v, p), v) /\ Adds(v, out)
    BY <1>4, <2>1, <2>2, PlainAdds DEF Body
  <2>4. Adds(Put(v, p), out)
    BY ONLY <1>1, <2>3, AddsTrans
  <2> QED BY <1>1, <1>6, <2>1, <2>4, SettledGoesOn
<1> QED BY <1>5, <1>6 DEF ReaddirListed

\* A call without results.
LEMMA DispatchGoesOn ==
  ASSUME CallInv, ReplyInv, Dispatch
  PROVE  GoesOn
<1>1. /\ at = "call" /\ produced' = produced /\ produced = 0 /\ out = EmptyWriter /\ kind = "none"
  BY DEF Dispatch, ReplyInv, CallInv, CallOK
<1>2. ClientResults = <<>> /\ ClientStatus = "none"
  <2>1. StatusSeen(out, "call", "none") = "none"
    BY DEF StatusSeen
  <2> QED BY <1>1, <2>1, FirstLog, Seen
<1>3. PICK w : w = Put(out, Prelude)
  OBVIOUS
<1>4. Log(w, 0) /\ Results(Segments(w)) = <<>>
  BY <1>1, <1>3, FirstLog
<1>5. ASSUME NEW status \in {"OK", "MINOR_VERS_MISMATCH"}, Replied(w, status, 0) PROVE GoesOn
  <2>1. PICK n, r : n = 0 /\ r = out'
    OBVIOUS
  <2>2. r = Patch(Patch(w, 0, status), CountAt, Word(n)) /\ n \in Nat /\ Log(w, n)
    BY <1>4, <1>5, <2>1 DEF Replied
  <2>3. ResultsSeen(r, "compound", n) = <<>> /\ StatusSeen(r, "replied", "compound") = status
    <3>1. ResultsSeen(r, "compound", n) = Results(Segments(w))
          /\ StatusSeen(r, "replied", "compound") = status
      BY ONLY <2>2, SeenReplied
    <3> QED BY <1>4, <3>1
  <2>4. at' = "replied" /\ kind' = "compound" /\ produced' = n /\ out' = r
    BY <1>1, <1>5, <2>1 DEF Replied
  <2>5. ClientResults' = <<>> /\ ClientStatus' = status
    BY <2>3, <2>4, SeenNext
  <2>6. Reply!Nothing
    BY ONLY <1>2, <1>5, <2>5 DEF Reply!Nothing
  <2> QED BY <2>4, <2>6 DEF GoesOn, ReplyInv, Reply!Next
<1>6. ASSUME NEW k, k # "compound", at' \in {"unanswered", "replied"}, kind' = k, UNCHANGED out
      PROVE  GoesOn
  <2>1. ResultsSeen(EmptyWriter, k, 0) = <<>>
    BY <1>6, FirstLog DEF ResultsSeen
  <2>2. ClientResults' = <<>>
    BY <1>1, <1>6, <2>1, SeenNext
  <2>3. ClientStatus' = "none" \/ ClientStatus' = "GARBAGE_ARGS"
    BY <1>6, SeenNext DEF StatusSeen
  <2>4. ReplyInv'
    BY <1>6 DEF ReplyInv
  <2>5. CASE ClientStatus' = "none"
    BY <1>2, <2>2, <2>4, <2>5 DEF GoesOn
  <2>6. CASE ClientStatus' = "GARBAGE_ARGS"
    <3>1. Reply!Garbage
      BY ONLY <1>2, <2>2, <2>6 DEF Reply!Garbage
    <3> QED BY <2>4, <3>1 DEF GoesOn, Reply!Next
  <2> QED BY <2>3, <2>5, <2>6
<1>7. CASE CompoundBegins
  <2>1. CASE Replied(w, "OK", 0)
    BY <1>5, <2>1
  <2>2. CASE at' = "ops" /\ out' = w /\ UNCHANGED <<kind, wait>>
    <3>1. ReplyInv'
      BY <1>1, <1>4, <2>2 DEF ReplyInv
    <3>2. PICK n : n = 0
      OBVIOUS
    <3>3. ResultsSeen(w, "none", n) = <<>>
      BY <1>4, <3>2, SeenRunning
    <3>4. StatusSeen(w, "ops", "none") = "none"
      BY DEF StatusSeen
    <3>5. UNCHANGED <<ClientResults, ClientStatus>>
      BY <1>1, <1>2, <2>2, <3>2, <3>3, <3>4, SeenNext
    <3> QED BY <3>1, <3>5 DEF GoesOn
  <2> QED BY <1>3, <1>7, <2>1, <2>2 DEF CompoundBegins
<1>8. ASSUME NEW fate, fate \notin {"unanswered", "compound"}, RefusedWith(fate) PROVE GoesOn
  BY <1>6, <1>8 DEF RefusedWith
<1>9. CASE RefusedWith("garbage_args")
  BY <1>6, <1>9 DEF RefusedWith
<1>10. CASE at' = "unanswered" /\ UNCHANGED <<todo, ahead, out, kind, wait>>
  BY <1>1, <1>6, <1>10
<1>11. CASE Replied(w, "MINOR_VERS_MISMATCH", 0)
  BY <1>5, <1>11
<1> QED BY <1>3, <1>7, <1>8, <1>9, <1>10, <1>11 DEF Dispatch

LEMMA CutOffGoesOn ==
  ASSUME CallInv, ReplyInv, CutOff
  PROVE  GoesOn
<1>1. at = "ops" /\ at' = "replied" /\ kind' = "garbage_args"
  BY DEF CutOff
<1>2. ClientStatus = "none"
  BY <1>1, FoundOps, FoundSeen
<1>3. ClientResults' = <<>> /\ ClientStatus' = "GARBAGE_ARGS"
  BY <1>1, SeenNext DEF ResultsSeen, StatusSeen
<1>4. Reply!Garbage
  BY ONLY <1>2, <1>3 DEF Reply!Garbage
<1> QED BY <1>1, <1>4 DEF GoesOn, ReplyInv, Reply!Next

LEMMA OverGoesOn ==
  ASSUME ReplyInv, Sent \/ Change \/ Evicted \/ UNCHANGED vars
  PROVE  GoesOn
<1>1. CASE Sent
  <2>1. at = "replied" /\ at' = "sent" /\ UNCHANGED <<out, produced, kind>>
    BY <1>1 DEF Sent
  <2>2. StatusSeen(out, "replied", kind) = StatusSeen(out, "sent", kind)
    BY DEF StatusSeen
  <2>3. UNCHANGED <<ClientResults, ClientStatus>>
    BY <2>1, <2>2, Seen, SeenNext
  <2> QED BY <2>1, <2>3 DEF GoesOn, ReplyInv
<1>2. CASE Change \/ Evicted \/ UNCHANGED vars
  <2>1. UNCHANGED <<at, out, produced, kind>>
    BY <1>2 DEF Change, Evicted, vars, callVars
  <2> QED BY <2>1, SameReply
<1> QED BY <1>1, <1>2

\* The refinement: the first state, and every step.
LEMMA InitReply == Init => ReplyInv /\ Reply!Init
<1> SUFFICES ASSUME Init PROVE ReplyInv /\ Reply!Init
  OBVIOUS
<1>1. at = "call" /\ out = EmptyWriter /\ produced = 0 /\ kind = "none"
  BY DEF Init
<1>2. StatusSeen(out, "call", "none") = "none"
  BY DEF StatusSeen
<1>3. ClientResults = <<>> /\ ClientStatus = "none"
  BY <1>1, <1>2, FirstLog, Seen
<1> QED BY <1>1, <1>3 DEF ReplyInv, Reply!Init

LEMMA StepReply == CallInv /\ ReplyInv /\ [Next]_vars => GoesOn
<1> SUFFICES ASSUME CallInv, ReplyInv, [Next]_vars PROVE GoesOn
  OBVIOUS
<1>1. CASE FirstTurn
  <2>1. "NOT_SAME" # "OK" /\ "SAME" # "OK"
    OBVIOUS
  <2> QED BY <1>1, <2>1, FhGoesOn, VerifyGoesOn, WalkGoesOn, ReadCallGoesOn, OthersGoOn, CutOffGoesOn
          DEF FirstTurn
<1>2. CASE LaterTurn
  BY <1>2, LaterGoesOn, ListedGoesOn, ReadSettledGoesOn DEF LaterTurn
<1>3. CASE Dispatch
  BY <1>3, DispatchGoesOn
<1>4. CASE Sent \/ Change \/ Evicted \/ UNCHANGED vars
  BY <1>4, OverGoesOn
<1> QED BY <1>1, <1>2, <1>3, <1>4 DEF Next, Over

\* compound of nfs4/compound.ts ("Ops execute in order and stop at the first failure;
\* the reply carries every result produced up to and including that one"): what the
\* client decodes of the reply grows by one result at its end, only while every result
\* before it is NFS4_OK, a failed one has nothing but its status, and the reply is sent
\* with the last result's status; arguments that cannot be read leave no results.
\* Payloads, patched statuses and what is cut off change none of it.
THEOREM CompoundImplementsReply == Spec => ImplementsReply
<1>1. Init => ReplyInv /\ Reply!Init
  BY InitReply
<1>2. CallInv /\ ReplyInv /\ [Next]_vars => ReplyInv' /\ [Reply!Next]_<<ClientResults, ClientStatus>>
  BY StepReply DEF GoesOn
<1> QED BY <1>1, <1>2, CallInvariant, PTL DEF Spec, ImplementsReply, Reply!Spec, Reply!vars
=============================================================================
