---------------------------- MODULE BackupProofs ----------------------------
(***************************************************************************)
(* BackupSafety and BackupKeepsOthers of MCReflectionBackup: the backup of *)
(* a session, from the entry to the verified copy, for any number of       *)
(* entries on any tree of branches, any size of chunks, any number of      *)
(* faults and of paths that others create during an export.                *)
(*                                                                         *)
(* BackupCapture computes with recursive functions: Within, ChunkEntries,  *)
(* BranchTo, FlattenSeq.  That each exists is shown once (Recursion), by   *)
(* collecting the functions that solve its equation up to N; what it       *)
(* computes, by the least counterexample (UpTo).  So the chunks drawn are  *)
(* the parts of what they were drawn from, in its order, none of them      *)
(* empty (ChunksAre), and depend on the entries flushed alone (ChunksSame).*)
(*                                                                         *)
(* Each of the three ways a flush goes is one FlushStep: k jobs of it were *)
(* queued, and memory and file are where that left them.  The invariant    *)
(* has a part for each promise:                                            *)
(*   BType      types; what is covered is a set of entries that exist, and *)
(*              a parent is older than its child;                          *)
(*   Somewhere  a text that memory or file counts as covered is in a chunk *)
(*              that is queued, stored or refused;                         *)
(*   Declared   a manifest that declares no chunk twice declares chunks of *)
(*              covered entries only: one that a flush that threw has left *)
(*              begins at the cursor, where the next chunk meets it;       *)
(*   Replayed   while no other flush came between, nor a stranger, all     *)
(*              that is placed at a seq from the cursor of the file on is  *)
(*              what the flush cut short would draw again, and no seq has  *)
(*              two contents;                                              *)
(*   Faithful   in a session of text, with no flush that threw, the chunks *)
(*              of the state are numbered from 0, placed, hold in order    *)
(*              what it covers, and the newest manifest is of that state.  *)
(* The invariant of the export, CopyInv, is at the end.                    *)
(***************************************************************************)
EXTENDS ReflectionEngineProofs

-----------------------------------------------------------------------------
(***************************************************************************)
(* Induction and recursion over the length of a sequence.                  *)
(***************************************************************************)

\* Induction up to N: without it the least number missing in S had a predecessor.
LEMMA UpTo ==
    ASSUME NEW N \in Nat, NEW S, 0 \in S, \A n \in 1..N : n - 1 \in S => n \in S
    PROVE  \A n \in 0..N : n \in S
<1> DEFINE T == (0..N) \ S
<1> SUFFICES ASSUME T # {} PROVE FALSE
  OBVIOUS
<1>1. T \subseteq Nat
  OBVIOUS
<1>2. PICK x \in T : \A y \in T : x <= y
  <2> HIDE DEF T
  <2> QED
    BY <1>1, Least
<1>3. x \in 0..N /\ x \notin S
  OBVIOUS
<1>4. x # 0
  BY <1>3
<1>5. x \in 1..N /\ x - 1 \in 0..N /\ ~(x <= x - 1)
  BY <1>3, <1>4
<1>6. x - 1 \notin T
  <2> HIDE DEF T
  <2> QED
    BY <1>2, <1>5
<1>7. x - 1 \in S
  BY <1>5, <1>6
<1> QED
  BY <1>3, <1>5, <1>7

\* A function whose value at n depends on its value at an earlier place.
Recurrence(X, x0, N, p, G) ==
    /\ x0 \in X /\ N \in Nat /\ p \in [1..N -> Nat] /\ G \in [1..N -> [X -> X]]
    /\ \A n \in 1..N : p[n] < n
Solves(X, x0, N, p, G, f) ==
    /\ f \in [0..N -> X] /\ f[0] = x0
    /\ \A n \in 1..N : f[n] = G[n][f[p[n]]]

LEMMA Recursion ==
    ASSUME NEW X, NEW x0, NEW N, NEW p, NEW G, Recurrence(X, x0, N, p, G)
    PROVE  \E f : Solves(X, x0, N, p, G, f)
<1>0. /\ x0 \in X /\ N \in Nat /\ p \in [1..N -> Nat] /\ G \in [1..N -> [X -> X]]
      /\ \A n \in 1..N : p[n] < n
  BY DEF Recurrence
<1> USE <1>0
<1> DEFINE Good(n, f) == f[0] = x0 /\ \A i \in 1..n : f[i] = G[i][f[p[i]]]
           S == {n \in 0..N : \E f \in [0..n -> X] : Good(n, f)}
<1>1. 0 \in S
  <2> DEFINE f0 == [i \in 0..0 |-> x0]
  <2>1. f0 \in [0..0 -> X] /\ f0[0] = x0
    OBVIOUS
  <2>2. \A i \in 1..0 : FALSE
    OBVIOUS
  <2>3. Good(0, f0)
    BY <2>1, <2>2
  <2> HIDE DEF f0, Good
  <2> QED
    BY <2>1, <2>3
<1>2. ASSUME NEW n \in 1..N, n - 1 \in S PROVE n \in S
  <2>1. PICK f \in [0..(n - 1) -> X] : Good(n - 1, f)
    BY <1>2
  <2> DEFINE v == G[n][f[p[n]]]
             g == [i \in 0..n |-> IF i = n THEN v ELSE f[i]]
  <2>2. p[n] \in 0..(n - 1) /\ n \in 1..N
    OBVIOUS
  <2>3. v \in X
    <3>1. f[p[n]] \in X
      BY <2>2
    <3>2. G[n] \in [X -> X]
      OBVIOUS
    <3> QED
      BY <3>1, <3>2
  <2>4. \A i \in 0..n : i # n => i \in 0..(n - 1)
    OBVIOUS
  <2> HIDE DEF v
  <2>5. g \in [0..n -> X]
    BY <2>3, <2>4
  <2>6. g[n] = v /\ \A i \in 0..(n - 1) : g[i] = f[i]
    BY <2>4
  <2> HIDE DEF g
  <2>7. \A i \in 1..n : g[i] = G[i][g[p[i]]]
    <3> SUFFICES ASSUME NEW i \in 1..n PROVE g[i] = G[i][g[p[i]]]
      OBVIOUS
    <3>1. i \in 1..N /\ p[i] \in Nat /\ p[i] < i
      OBVIOUS
    <3>2. p[i] \in 0..(n - 1)
      BY <3>1
    <3>3. g[p[i]] = f[p[i]]
      BY <2>6, <3>2
    <3>4. CASE i = n
      BY <2>6, <3>3, <3>4 DEF v
    <3>5. CASE i # n
      <4>1. i \in 1..(n - 1) /\ i \in 0..(n - 1)
        BY <3>5
      <4> QED
        BY <2>1, <2>6, <3>3, <4>1
    <3> QED
      BY <3>4, <3>5
  <2>8. g[0] = x0
    BY <2>1, <2>6
  <2>9. Good(n, g)
    BY <2>7, <2>8
  <2>10. n \in 0..N
    OBVIOUS
  <2> HIDE DEF Good
  <2> QED
    BY <2>5, <2>9, <2>10
<1>3. N \in S
  <2> HIDE DEF S
  <2>1. \A n \in 0..N : n \in S
    BY <1>1, <1>2, UpTo
  <2> QED
    BY <2>1
<1> QED
  BY <1>3 DEF Solves

\* Two sequences with the same members in the same places.
LEMMA SameSeq ==
    ASSUME NEW R, NEW s \in Seq(R), NEW t \in Seq(R), Len(s) = Len(t),
           \A i \in 1..Len(s) : s[i] = t[i]
    PROVE  s = t
OBVIOUS

\* The first members of a sequence.
LEMMA PrefixIs ==
    ASSUME NEW R, NEW s \in Seq(R), NEW n \in 0..Len(s)
    PROVE  /\ SubSeq(s, 1, n) \in Seq(R) /\ Len(SubSeq(s, 1, n)) = n
           /\ \A i \in 1..n : SubSeq(s, 1, n)[i] = s[i]
OBVIOUS

LEMMA PrefixGrows ==
    ASSUME NEW R, NEW s \in Seq(R), NEW n \in 1..Len(s)
    PROVE  SubSeq(s, 1, n) = Append(SubSeq(s, 1, n - 1), s[n])
<1> DEFINE u == SubSeq(s, 1, n)
           v == SubSeq(s, 1, n - 1)
           w == Append(v, s[n])
<1>1. u \in Seq(R) /\ Len(u) = n /\ \A i \in 1..n : u[i] = s[i]
  BY PrefixIs
<1>2. v \in Seq(R) /\ Len(v) = n - 1 /\ \A i \in 1..(n - 1) : v[i] = s[i]
  BY PrefixIs
<1> HIDE DEF u, v
<1>3. s[n] \in R
  OBVIOUS
<1>4. w \in Seq(R) /\ Len(w) = n /\ w[n] = s[n] /\ \A i \in 1..(n - 1) : w[i] = v[i]
  BY <1>2, <1>3
<1> HIDE DEF w
<1>5. \A i \in 1..n : u[i] = w[i]
  BY <1>1, <1>2, <1>4
<1>6. u = w
  BY <1>1, <1>4, <1>5, SameSeq
<1> QED
  BY <1>6 DEF u, v, w

LEMMA PrefixWhole ==
    ASSUME NEW R, NEW s \in Seq(R)
    PROVE  SubSeq(s, 1, Len(s)) = s /\ SubSeq(s, 1, 0) = << >>
<1>1. Len(s) \in Nat
  OBVIOUS
<1>2. SubSeq(s, 1, Len(s)) = s
  BY <1>1, PrefixIs, SameSeq
<1>3. SubSeq(s, 1, 0) = << >>
  OBVIOUS
<1> QED
  BY <1>2, <1>3

\* One sequence after another, element by element.
LEMMA Joined ==
    ASSUME NEW R, NEW s \in Seq(R), NEW t \in Seq(R), NEW w, w = s \o t
    PROVE  /\ w \in Seq(R) /\ Len(w) = Len(s) + Len(t)
           /\ \A i \in 1..Len(s) : w[i] = s[i]
           /\ \A i \in 1..Len(t) : w[Len(s) + i] = t[i]
<1>1. w \in Seq(R) /\ Len(w) = Len(s) + Len(t) /\ Len(s) \in Nat /\ Len(t) \in Nat
  OBVIOUS
<1>2. \A i \in 1..Len(s) : w[i] = s[i]
  OBVIOUS
<1>3. ASSUME NEW i \in 1..Len(t) PROVE w[Len(s) + i] = t[i]
  OBVIOUS
<1> QED
  BY <1>1, <1>2, <1>3

\* The first member of a sequence, and what is left of it.
LEMMA TailOf ==
    ASSUME NEW R, NEW s \in Seq(R), s # << >>
    PROVE  /\ Tail(s) \in Seq(R) /\ Head(s) \in R
           /\ \A p : (\E i \in 1..Len(s) : s[i] = p)
                        => p = Head(s) \/ \E i \in 1..Len(Tail(s)) : Tail(s)[i] = p
<1>1. Tail(s) \in Seq(R) /\ Head(s) \in R /\ Head(s) = s[1] /\ Len(Tail(s)) = Len(s) - 1
  OBVIOUS
<1>2. \A i \in 1..Len(Tail(s)) : Tail(s)[i] = s[i + 1]
  OBVIOUS
<1>3. ASSUME NEW i \in 1..Len(s), i # 1
      PROVE  i - 1 \in 1..Len(Tail(s)) /\ Tail(s)[i - 1] = s[i]
  BY <1>1, <1>2, <1>3
<1> QED
  BY <1>1, <1>3

\* What a concatenation holds, and when it holds nothing twice.
LEMMA JoinedElems ==
    ASSUME NEW R, NEW s \in Seq(R), NEW t \in Seq(R), NEW w, w = s \o t
    PROVE  /\ Elems(w) = Elems(s) \cup Elems(t)
           /\ Distinct(s) /\ Distinct(t) /\ Elems(s) \cap Elems(t) = {} => Distinct(w)
           /\ Elems(s) \cap Elems(t) # {} => ~ Distinct(w)
           /\ Distinct(w) => Distinct(s) /\ Distinct(t)
<1>1. /\ w \in Seq(R) /\ Len(w) = Len(s) + Len(t)
      /\ \A i \in 1..Len(s) : w[i] = s[i]
      /\ \A i \in 1..Len(t) : w[Len(s) + i] = t[i]
  BY Joined
<1>2. Len(s) \in Nat /\ Len(t) \in Nat
  OBVIOUS
<1>3. \A i \in 1..Len(s) : i \in 1..Len(w)
  BY <1>1, <1>2
<1>4. \A i \in 1..Len(t) : Len(s) + i \in 1..Len(w)
  BY <1>1, <1>2
<1>5. ASSUME NEW i \in 1..Len(w)
      PROVE  \/ i \in 1..Len(s) /\ w[i] = s[i]
             \/ i - Len(s) \in 1..Len(t) /\ w[i] = t[i - Len(s)] /\ i = Len(s) + (i - Len(s))
  BY <1>1, <1>2
<1>6. Elems(w) = Elems(s) \cup Elems(t)
  <2>1. Elems(w) \subseteq Elems(s) \cup Elems(t)
    BY <1>5 DEF Elems
  <2>2. Elems(s) \subseteq Elems(w)
    BY <1>1, <1>3 DEF Elems
  <2>3. Elems(t) \subseteq Elems(w)
    BY <1>1, <1>4 DEF Elems
  <2> QED
    BY <2>1, <2>2, <2>3
<1>7. ASSUME Distinct(s), Distinct(t), Elems(s) \cap Elems(t) = {} PROVE Distinct(w)
  <2> SUFFICES ASSUME NEW i \in 1..Len(w), NEW j \in 1..Len(w), w[i] = w[j] PROVE i = j
    BY DEF Distinct
  <2>1. \A a \in 1..Len(s), b \in 1..Len(t) : s[a] # t[b]
    BY <1>7 DEF Elems
  <2>2. CASE i \in 1..Len(s) /\ w[i] = s[i] /\ j \in 1..Len(s) /\ w[j] = s[j]
    BY <1>7, <2>2 DEF Distinct
  <2>3. CASE /\ i - Len(s) \in 1..Len(t) /\ w[i] = t[i - Len(s)]
             /\ j - Len(s) \in 1..Len(t) /\ w[j] = t[j - Len(s)]
    <3>1. i - Len(s) = j - Len(s)
      BY <1>7, <2>3 DEF Distinct
    <3> QED
      BY <1>2, <3>1
  <2> QED
    BY <1>5, <2>1, <2>2, <2>3
<1>8. ASSUME Elems(s) \cap Elems(t) # {} PROVE ~ Distinct(w)
  <2>1. PICK a \in 1..Len(s), b \in 1..Len(t) : s[a] = t[b]
    BY <1>8 DEF Elems
  <2>2. w[a] = w[Len(s) + b] /\ a # Len(s) + b
    BY <1>1, <1>2, <2>1
  <2> QED
    BY <1>3, <1>4, <2>2 DEF Distinct
<1>9. ASSUME Distinct(w) PROVE Distinct(s) /\ Distinct(t)
  <2>1. Distinct(s)
    BY <1>1, <1>3, <1>9 DEF Distinct
  <2>2. ASSUME NEW i \in 1..Len(t), NEW j \in 1..Len(t), t[i] = t[j] PROVE i = j
    <3>1. w[Len(s) + i] = w[Len(s) + j]
      BY <1>1, <2>2
    <3>2. Len(s) + i = Len(s) + j
      BY <1>4, <1>9, <3>1 DEF Distinct
    <3> QED
      BY <1>2, <3>2
  <2> QED
    BY <2>1, <2>2 DEF Distinct
<1> QED
  BY <1>6, <1>7, <1>8, <1>9

\* Joining under a name of its own, so that the lemmas about it can be applied.
Cat(s, t) == s \o t

LEMMA CatIs ==
    ASSUME NEW R, NEW s \in Seq(R), NEW t \in Seq(R)
    PROVE  /\ Cat(s, t) \in Seq(R) /\ Len(Cat(s, t)) = Len(s) + Len(t)
           /\ \A i \in 1..Len(s) : Cat(s, t)[i] = s[i]
           /\ \A i \in 1..Len(t) : Cat(s, t)[Len(s) + i] = t[i]
<1> DEFINE w == s \o t
<1>1. w = s \o t
  OBVIOUS
<1> HIDE DEF w
<1>2. /\ w \in Seq(R) /\ Len(w) = Len(s) + Len(t)
      /\ \A i \in 1..Len(s) : w[i] = s[i]
      /\ \A i \in 1..Len(t) : w[Len(s) + i] = t[i]
  BY <1>1, Joined
<1>4. w = Cat(s, t)
  BY <1>1 DEF Cat
<1> QED
  BY <1>2, <1>4

LEMMA CatElems ==
    ASSUME NEW R, NEW s \in Seq(R), NEW t \in Seq(R)
    PROVE  Elems(Cat(s, t)) = Elems(s) \cup Elems(t)
BY JoinedElems DEF Cat

LEMMA CatDistinct ==
    ASSUME NEW R, NEW s \in Seq(R), NEW t \in Seq(R)
    PROVE  Distinct(Cat(s, t)) <=> Distinct(s) /\ Distinct(t) /\ Elems(s) \cap Elems(t) = {}
BY JoinedElems DEF Cat

\* Joining is associative, and nothing joined to a sequence is the sequence.
LEMMA JoinedNothing ==
    ASSUME NEW R, NEW s \in Seq(R)
    PROVE  /\ << >> \o s = s /\ s \o << >> = s
           /\ Cat(<< >>, s) = s /\ Cat(s, << >>) = s
BY DEF Cat

LEMMA CatTwice ==
    ASSUME NEW R, NEW s \in Seq(R), NEW t \in Seq(R), NEW u \in Seq(R)
    PROVE  Cat(Cat(s, t), u) = Cat(s, Cat(t, u))
<1> DEFINE v == Cat(s, t)
           x == Cat(t, u)
           a == Cat(v, u)
           b == Cat(s, x)
<1>1. /\ v \in Seq(R) /\ Len(v) = Len(s) + Len(t)
      /\ \A i \in 1..Len(s) : v[i] = s[i]
      /\ \A i \in 1..Len(t) : v[Len(s) + i] = t[i]
  <2>1. v \in Seq(R) /\ Len(v) = Len(s) + Len(t)
    BY CatIs
  <2>2. \A i \in 1..Len(s) : v[i] = s[i]
    BY CatIs
  <2>3. \A i \in 1..Len(t) : v[Len(s) + i] = t[i]
    BY CatIs
  <2> QED
    BY <2>1, <2>2, <2>3
<1>2. /\ x \in Seq(R) /\ Len(x) = Len(t) + Len(u)
      /\ \A i \in 1..Len(t) : x[i] = t[i]
      /\ \A i \in 1..Len(u) : x[Len(t) + i] = u[i]
  <2>1. x \in Seq(R) /\ Len(x) = Len(t) + Len(u)
    BY CatIs
  <2>2. \A i \in 1..Len(t) : x[i] = t[i]
    BY CatIs
  <2>3. \A i \in 1..Len(u) : x[Len(t) + i] = u[i]
    BY CatIs
  <2> QED
    BY <2>1, <2>2, <2>3
<1> HIDE DEF v, x
<1>3. /\ a \in Seq(R) /\ Len(a) = Len(v) + Len(u)
      /\ \A i \in 1..Len(v) : a[i] = v[i]
      /\ \A i \in 1..Len(u) : a[Len(v) + i] = u[i]
  <2>0. v \in Seq(R)
    BY <1>1
  <2>1. a \in Seq(R) /\ Len(a) = Len(v) + Len(u)
    BY <2>0, CatIs
  <2>2. \A i \in 1..Len(v) : a[i] = v[i]
    BY <2>0, CatIs
  <2>3. \A i \in 1..Len(u) : a[Len(v) + i] = u[i]
    BY <2>0, CatIs
  <2> QED
    BY <2>1, <2>2, <2>3
<1>4. /\ b \in Seq(R) /\ Len(b) = Len(s) + Len(x)
      /\ \A i \in 1..Len(s) : b[i] = s[i]
      /\ \A i \in 1..Len(x) : b[Len(s) + i] = x[i]
  <2>0. x \in Seq(R)
    BY <1>2
  <2>1. b \in Seq(R) /\ Len(b) = Len(s) + Len(x)
    BY <2>0, CatIs
  <2>2. \A i \in 1..Len(s) : b[i] = s[i]
    BY <2>0, CatIs
  <2>3. \A i \in 1..Len(x) : b[Len(s) + i] = x[i]
    BY <2>0, CatIs
  <2> QED
    BY <2>1, <2>2, <2>3
<1> HIDE DEF a, b
<1>5. Len(s) \in Nat /\ Len(t) \in Nat /\ Len(u) \in Nat
  OBVIOUS
<1>6. Len(a) = Len(b)
  BY <1>1, <1>2, <1>3, <1>4, <1>5
<1>7. ASSUME NEW i \in 1..Len(a) PROVE a[i] = b[i]
  <2>1. CASE i <= Len(s)
    <3>1. i \in 1..Len(s) /\ i \in 1..Len(v)
      BY <1>1, <1>5, <2>1
    <3> QED
      BY <1>1, <1>3, <1>4, <3>1
  <2>2. CASE i > Len(s) /\ i <= Len(s) + Len(t)
    <3> DEFINE k == i - Len(s)
    <3>1. k \in 1..Len(t) /\ i = Len(s) + k /\ i \in 1..Len(v) /\ k \in 1..Len(x)
      BY <1>1, <1>2, <1>5, <2>2
    <3> HIDE DEF k
    <3>2. a[i] = v[i] /\ v[i] = t[k]
      BY <1>1, <1>3, <3>1
    <3>3. b[i] = x[k] /\ x[k] = t[k]
      BY <1>2, <1>4, <3>1
    <3> QED
      BY <3>2, <3>3
  <2>3. CASE i > Len(s) + Len(t)
    <3> DEFINE k == i - (Len(s) + Len(t))
    <3>1. k \in 1..Len(u) /\ i = Len(v) + k /\ i = Len(s) + (Len(t) + k) /\ Len(t) + k \in 1..Len(x)
      BY <1>1, <1>2, <1>3, <1>5, <2>3
    <3> HIDE DEF k
    <3>2. a[i] = u[k]
      BY <1>3, <3>1
    <3>3. b[i] = x[Len(t) + k] /\ x[Len(t) + k] = u[k]
      BY <1>2, <1>4, <3>1
    <3> QED
      BY <3>2, <3>3
  <2> QED
    BY <1>3, <1>5, <2>1, <2>2, <2>3
<1>8. a = b
  BY <1>3, <1>4, <1>6, <1>7, SameSeq
<1> QED
  BY <1>8 DEF a, b, v, x

\* Appending is joining one member.
LEMMA AppendCat ==
    ASSUME NEW R, NEW s \in Seq(R), NEW x \in R
    PROVE  /\ Append(s, x) = Cat(s, <<x>>) /\ <<x>> \in Seq(R) /\ Elems(<<x>>) = {x}
           /\ Distinct(<<x>>)
<1>1. <<x>> \in Seq(R) /\ Len(<<x>>) = 1 /\ <<x>>[1] = x
  OBVIOUS
<1>2. Append(s, x) = s \o <<x>>
  OBVIOUS
<1>3. Elems(<<x>>) = {x} /\ Distinct(<<x>>)
  BY <1>1 DEF Elems, Distinct
<1> QED
  BY <1>1, <1>2, <1>3 DEF Cat

LEMMA AppendJoined ==
    ASSUME NEW R, NEW s \in Seq(R), NEW t \in Seq(R), NEW x \in R
    PROVE  Cat(s, Append(t, x)) = Append(Cat(s, t), x)
<1>1. <<x>> \in Seq(R) /\ Append(t, x) = Cat(t, <<x>>)
  BY AppendCat
<1>2. Cat(s, t) \in Seq(R)
  BY CatIs
<1>3. Append(Cat(s, t), x) = Cat(Cat(s, t), <<x>>)
  BY <1>2, AppendCat
<1> DEFINE u == <<x>>
<1>e. u \in Seq(R)
  BY <1>1
<1> HIDE DEF u
<1>4. Cat(Cat(s, t), u) = Cat(s, Cat(t, u))
  BY <1>e, CatTwice
<1> QED
  BY <1>1, <1>3, <1>4 DEF u

-----------------------------------------------------------------------------
(***************************************************************************)
(* The operators of BackupCapture on sequences.                            *)
(***************************************************************************)

\* FlattenSeq, step by step.
Runs(ss, f) ==
    f = [i \in 1..Len(ss) |-> IF i = 1 THEN ss[i] ELSE f[i - 1] \o ss[i]]

LEMMA RunsExist ==
    ASSUME NEW R, NEW ss \in Seq(Seq(R)), ss # << >>
    PROVE  \E f : Runs(ss, f) /\ Backup!FlattenSeq(ss) = f[Len(ss)]
<1>1. Len(ss) \in Nat /\ Len(ss) # 0 /\ \A i \in 1..Len(ss) : ss[i] \in Seq(R)
  OBVIOUS
<1> DEFINE N == Len(ss)
           p == [n \in 1..N |-> n - 1]
           G == [n \in 1..N |-> [x \in Seq(R) |-> x \o ss[n]]]
<1>2. << >> \in Seq(R)
  OBVIOUS
<1>3. p \in [1..N -> Nat] /\ \A n \in 1..N : p[n] < n /\ p[n] = n - 1
  OBVIOUS
<1>4. \A n \in 1..N : [x \in Seq(R) |-> x \o ss[n]] \in [Seq(R) -> Seq(R)]
  BY <1>1
<1>5. G \in [1..N -> [Seq(R) -> Seq(R)]]
  BY <1>4
<1>6. \A n \in 1..N, x \in Seq(R) : G[n][x] = x \o ss[n]
  OBVIOUS
<1>x. N \in Nat
  BY <1>1
<1> HIDE DEF p, G, N
<1>7. PICK f \in [0..N -> Seq(R)] : f[0] = << >> /\ \A n \in 1..N : f[n] = G[n][f[p[n]]]
  <2>1. Recurrence(Seq(R), << >>, N, p, G)
    BY <1>x, <1>2, <1>3, <1>5 DEF Recurrence
  <2>2. \E f : Solves(Seq(R), << >>, N, p, G, f)
    BY <2>1, Recursion
  <2> QED
    BY <2>2 DEF Solves
<1> USE DEF N
<1> DEFINE g == [n \in 1..N |-> f[n]]
<1>8. \A n \in 1..N : g[n] = f[n - 1] \o ss[n]
  <2> SUFFICES ASSUME NEW n \in 1..N PROVE g[n] = f[n - 1] \o ss[n]
    OBVIOUS
  <2>1. n - 1 \in 0..N
    BY <1>1
  <2>2. f[n - 1] \in Seq(R)
    BY <1>7, <2>1
  <2> QED
    BY <1>3, <1>6, <1>7, <2>2
<1>9. \A n \in 1..N : g[n] = IF n = 1 THEN ss[n] ELSE g[n - 1] \o ss[n]
  <2> SUFFICES ASSUME NEW n \in 1..N PROVE g[n] = IF n = 1 THEN ss[n] ELSE g[n - 1] \o ss[n]
    OBVIOUS
  <2>1. CASE n = 1
    <3>1. ss[n] \in Seq(R) /\ f[n - 1] = << >>
      BY <1>1, <1>7, <2>1
    <3>2. << >> \o ss[n] = ss[n]
      BY <3>1, JoinedNothing
    <3> QED
      BY <1>8, <2>1, <3>1, <3>2
  <2>2. CASE n # 1
    <3>1. n - 1 \in 1..N
      BY <1>1, <2>2
    <3> QED
      BY <1>8, <2>2, <3>1
  <2> QED
    BY <2>1, <2>2
<1>10. Runs(ss, g)
  <2> DEFINE h == [i \in 1..N |-> IF i = 1 THEN ss[i] ELSE g[i - 1] \o ss[i]]
  <2>1. \A i \in 1..N : h[i] = IF i = 1 THEN ss[i] ELSE g[i - 1] \o ss[i]
    OBVIOUS
  <2>2. \A i \in 1..N : g[i] = h[i]
    <3> HIDE DEF g, h
    <3> QED
      BY <1>9, <2>1
  <2>3. g = h
    <3> DEFINE g1(i) == f[i]
               h1(i) == IF i = 1 THEN ss[i] ELSE g[i - 1] \o ss[i]
    <3>1. g = [i \in 1..N |-> g[i]] /\ h = [i \in 1..N |-> h[i]]
      OBVIOUS
    <3> HIDE DEF g, h
    <3> QED
      BY <2>2, <3>1
  <2> QED
    BY <2>3 DEF Runs
<1> HIDE DEF g
<1>11. Backup!FlattenSeq(ss) = (CHOOSE f1 : Runs(ss, f1))[Len(ss)]
  BY <1>1 DEF Backup!FlattenSeq, Runs
<1>12. Runs(ss, CHOOSE f1 : Runs(ss, f1))
  BY <1>10
<1> QED
  BY <1>11, <1>12

\* Its two equations.
LEMMA FlattenNothing == Backup!FlattenSeq(<< >>) = << >>
BY DEF Backup!FlattenSeq

LEMMA FlattenAppended ==
    ASSUME NEW R, NEW ss \in Seq(Seq(R)), NEW x \in Seq(R), NEW tt, tt = Append(ss, x),
           Backup!FlattenSeq(ss) \in Seq(R)
    PROVE  Backup!FlattenSeq(tt) = Cat(Backup!FlattenSeq(ss), x)
<1> DEFINE N == Len(ss)
<1>1. /\ N \in Nat /\ tt \in Seq(Seq(R)) /\ Len(tt) = N + 1 /\ tt[N + 1] = x
      /\ \A i \in 1..N : tt[i] = ss[i]
      /\ tt # << >>
  OBVIOUS
<1>2. PICK g : Runs(tt, g) /\ Backup!FlattenSeq(tt) = g[N + 1]
  BY <1>1, RunsExist
<1>3. \A i \in 1..(N + 1) : g[i] = IF i = 1 THEN tt[i] ELSE g[i - 1] \o tt[i]
  BY <1>1, <1>2 DEF Runs
<1>4. CASE N = 0
  <2>1. ss = << >> /\ Backup!FlattenSeq(ss) = << >>
    BY <1>4, FlattenNothing
  <2>2. g[N + 1] = x
    BY <1>1, <1>3, <1>4
  <2>3. Cat(<< >>, x) = x
    BY JoinedNothing
  <2> QED
    BY <1>2, <2>1, <2>2, <2>3
<1>5. CASE N # 0
  <2>1. PICK f : Runs(ss, f) /\ Backup!FlattenSeq(ss) = f[N]
    BY <1>5, RunsExist
  <2>2. \A i \in 1..N : f[i] = IF i = 1 THEN ss[i] ELSE f[i - 1] \o ss[i]
    BY <1>1, <2>1 DEF Runs
  <2> DEFINE S == {i \in 0..N : i # 0 => f[i] = g[i]}
  <2>3. 0 \in S
    BY <1>1
  <2>4. ASSUME NEW i \in 1..N, i - 1 \in S PROVE i \in S
    <3>1. i \in 1..(N + 1) /\ tt[i] = ss[i] /\ i \in 0..N
      BY <1>1
    <3>2. CASE i = 1
      BY <1>3, <2>2, <3>1, <3>2
    <3>3. CASE i # 1
      <4>1. f[i - 1] = g[i - 1]
        BY <2>4, <3>3
      <4> QED
        BY <1>3, <2>2, <3>1, <3>3, <4>1
    <3> QED
      BY <3>2, <3>3
  <2>5. N \in S
    <3> HIDE DEF S
    <3>1. \A i \in 0..N : i \in S
      BY <1>1, <2>3, <2>4, UpTo
    <3> QED
      BY <1>1, <3>1
  <2>6. f[N] = g[N]
    BY <1>5, <2>5
  <2>7. g[N + 1] = g[N] \o x
    <3>1. N + 1 \in 1..(N + 1) /\ N + 1 # 1 /\ (N + 1) - 1 = N
      BY <1>1, <1>5
    <3> QED
      BY <1>1, <1>3, <3>1
  <2> QED
    BY <1>2, <2>1, <2>6, <2>7 DEF Cat
<1> QED
  BY <1>4, <1>5

\* What the flattened sequence holds, and that nothing hides in two of its parts.
LEMMA FlattenIs ==
    ASSUME NEW R, NEW ss \in Seq(Seq(R))
    PROVE  /\ Backup!FlattenSeq(ss) \in Seq(R)
           /\ \A e : e \in Elems(Backup!FlattenSeq(ss)) <=> \E i \in 1..Len(ss) : e \in Elems(ss[i])
           /\ \A i, j \in 1..Len(ss) : i # j /\ Elems(ss[i]) \cap Elems(ss[j]) # {}
                => ~ Distinct(Backup!FlattenSeq(ss))
<1> DEFINE N == Len(ss)
           F(n) == Backup!FlattenSeq(SubSeq(ss, 1, n))
           Has(n) == \A e : e \in Elems(F(n)) <=> \E i \in 1..n : e \in Elems(ss[i])
           Hides(n) == \A i, j \in 1..n : i < j /\ Elems(ss[i]) \cap Elems(ss[j]) # {}
                           => ~ Distinct(F(n))
           S == {n \in 0..N : F(n) \in Seq(R) /\ Has(n) /\ Hides(n)}
<1>1. N \in Nat /\ \A i \in 1..N : ss[i] \in Seq(R)
  OBVIOUS
<1>2. 0 \in S
  <2>1. F(0) = << >>
    BY PrefixWhole, FlattenNothing
  <2> HIDE DEF F
  <2>2. << >> \in Seq(R) /\ Elems(<< >>) = {}
    BY DEF Elems
  <2>3. Has(0) /\ Hides(0)
    BY <2>1, <2>2
  <2>5. 0 \in 0..N
    BY <1>1
  <2>4. F(0) \in Seq(R)
    BY <2>1, <2>2
  <2> HIDE DEF Has, Hides
  <2> QED
    BY <2>3, <2>4, <2>5
<1>3. ASSUME NEW n \in 1..N, n - 1 \in S PROVE n \in S
  <2>1. F(n - 1) \in Seq(R) /\ Has(n - 1) /\ Hides(n - 1)
    BY <1>3
  <2>2. SubSeq(ss, 1, n) = Append(SubSeq(ss, 1, n - 1), ss[n]) /\ SubSeq(ss, 1, n - 1) \in Seq(Seq(R))
    <3>1. n - 1 \in 0..Len(ss)
      BY <1>1
    <3> QED
      BY <3>1, PrefixGrows, PrefixIs
  <2>3. F(n) = Cat(F(n - 1), ss[n])
    <3> DEFINE u == SubSeq(ss, 1, n - 1)
               v == SubSeq(ss, 1, n)
    <3>1. u \in Seq(Seq(R)) /\ v = Append(u, ss[n]) /\ Backup!FlattenSeq(u) \in Seq(R)
      BY <2>1, <2>2
    <3> HIDE DEF u, v
    <3>2. ss[n] \in Seq(R)
      BY <1>1
    <3>3. Backup!FlattenSeq(v) = Cat(Backup!FlattenSeq(u), ss[n])
      BY <3>1, <3>2, FlattenAppended
    <3> QED
      BY <3>3 DEF u, v
  <2> HIDE DEF F
  <2>b. ss[n] \in Seq(R) /\ F(n - 1) \in Seq(R)
    BY <1>1, <2>1
  <2>4. /\ F(n) \in Seq(R) /\ Elems(F(n)) = Elems(F(n - 1)) \cup Elems(ss[n])
        /\ Elems(F(n - 1)) \cap Elems(ss[n]) # {} => ~ Distinct(F(n))
        /\ Distinct(F(n)) => Distinct(F(n - 1))
    <3>1. F(n) \in Seq(R)
      BY <2>b, <2>3, CatIs
    <3>2. Elems(F(n)) = Elems(F(n - 1)) \cup Elems(ss[n])
      BY <2>b, <2>3, CatElems
    <3>3. Distinct(F(n)) <=> Distinct(F(n - 1)) /\ Distinct(ss[n]) /\ Elems(F(n - 1)) \cap Elems(ss[n]) = {}
      BY <2>b, <2>3, CatDistinct
    <3> QED
      BY <3>1, <3>2, <3>3
  <2>5. \A i \in 1..n : i = n \/ i \in 1..(n - 1)
    OBVIOUS
  <2>6. \A i \in 1..(n - 1) : i \in 1..n
    OBVIOUS
  <2>7. Has(n)
    BY <2>1, <2>4, <2>5, <2>6
  <2>8. Hides(n)
    <3> SUFFICES ASSUME NEW i \in 1..n, NEW j \in 1..n, i < j, Elems(ss[i]) \cap Elems(ss[j]) # {}
                 PROVE  ~ Distinct(F(n))
      OBVIOUS
    <3>1. i \in 1..(n - 1)
      OBVIOUS
    <3>2. CASE j = n
      <4>1. PICK e : e \in Elems(ss[i]) /\ e \in Elems(ss[n])
        BY <3>2
      <4>2. e \in Elems(F(n - 1))
        BY <2>1, <3>1, <4>1
      <4> QED
        BY <2>4, <4>1, <4>2
    <3>3. CASE j # n
      BY <2>1, <2>4, <2>5, <3>1, <3>3
    <3> QED
      BY <3>2, <3>3
  <2> HIDE DEF Has, Hides
  <2> QED
    BY <2>4, <2>7, <2>8
<1>4. N \in S
  <2> HIDE DEF S
  <2>1. \A n \in 0..N : n \in S
    BY <1>1, <1>2, <1>3, UpTo
  <2> QED
    BY <1>1, <2>1
<1>5. F(N) = Backup!FlattenSeq(ss)
  BY PrefixWhole
<1> HIDE DEF F
<1>6. \A i, j \in 1..N : i # j => i < j \/ j < i
  BY <1>1
<1> QED
  BY <1>4, <1>5, <1>6

LEMMA FlattenJoined ==
    ASSUME NEW R, NEW ss \in Seq(Seq(R)), NEW tt \in Seq(Seq(R)), NEW w, w = Cat(ss, tt)
    PROVE  Backup!FlattenSeq(w) = Cat(Backup!FlattenSeq(ss), Backup!FlattenSeq(tt))
<1> DEFINE N == Len(tt)
           P(n) == SubSeq(tt, 1, n)
           W(n) == Cat(ss, P(n))
           F(u) == Backup!FlattenSeq(u)
           S == {n \in 0..N : F(W(n)) = Cat(F(ss), F(P(n)))}
<1>1. N \in Nat /\ \A i \in 1..N : tt[i] \in Seq(R)
  OBVIOUS
<1>2. \A n \in 0..N : P(n) \in Seq(Seq(R))
  BY PrefixIs
<1>3. \A n \in 1..N : P(n) = Append(P(n - 1), tt[n])
  BY PrefixGrows
<1>4. P(0) = << >> /\ P(N) = tt
  BY PrefixWhole
<1> HIDE DEF P
<1>5. \A n \in 0..N : W(n) \in Seq(Seq(R))
  BY <1>2, CatIs
<1>6. \A n \in 1..N : W(n) = Append(W(n - 1), tt[n])
  <2> SUFFICES ASSUME NEW n \in 1..N PROVE W(n) = Append(W(n - 1), tt[n])
    OBVIOUS
  <2>1. n - 1 \in 0..N
    BY <1>1
  <2>2. P(n - 1) \in Seq(Seq(R)) /\ tt[n] \in Seq(R)
    BY <1>1, <1>2, <2>1
  <2>3. Cat(ss, Append(P(n - 1), tt[n])) = Append(Cat(ss, P(n - 1)), tt[n])
    BY <2>2, AppendJoined
  <2> QED
    BY <1>3, <2>3
<1>7. W(0) = ss
  <2>1. Cat(ss, << >>) = ss
    BY JoinedNothing
  <2> QED
    BY <1>4, <2>1
<1>8. F(ss) \in Seq(R) /\ \A n \in 0..N : F(P(n)) \in Seq(R) /\ F(W(n)) \in Seq(R)
  BY <1>2, <1>5, FlattenIs
<1>9. 0 \in S
  <2>1. F(P(0)) = << >>
    BY <1>4, FlattenNothing
  <2>2. Cat(F(ss), << >>) = F(ss)
    BY <1>8, JoinedNothing
  <2> HIDE DEF W, F
  <2>3. F(W(0)) = Cat(F(ss), F(P(0)))
    BY <1>7, <2>1, <2>2
  <2> QED
    BY <1>1, <2>3
<1>10. ASSUME NEW n \in 1..N, n - 1 \in S PROVE n \in S
  <2>1. n - 1 \in 0..N /\ n \in 0..N
    BY <1>1
  <2>2. F(W(n - 1)) = Cat(F(ss), F(P(n - 1)))
    BY <1>10
  <2> HIDE DEF W
  <2>a. tt[n] \in Seq(R)
    BY <1>1
  <2>3. F(W(n)) = Cat(F(W(n - 1)), tt[n])
    <3>1. /\ W(n - 1) \in Seq(Seq(R)) /\ W(n) = Append(W(n - 1), tt[n])
          /\ Backup!FlattenSeq(W(n - 1)) \in Seq(R)
      BY <1>5, <1>6, <1>8, <2>1
    <3> QED
      BY <2>a, <3>1, FlattenAppended
  <2>4. F(P(n)) = Cat(F(P(n - 1)), tt[n])
    <3>1. /\ P(n - 1) \in Seq(Seq(R)) /\ P(n) = Append(P(n - 1), tt[n])
          /\ Backup!FlattenSeq(P(n - 1)) \in Seq(R)
      BY <1>2, <1>3, <1>8, <2>1
    <3> QED
      BY <2>a, <3>1, FlattenAppended
  <2> HIDE DEF F
  <2>5. Cat(Cat(F(ss), F(P(n - 1))), tt[n]) = Cat(F(ss), Cat(F(P(n - 1)), tt[n]))
    <3>1. F(ss) \in Seq(R) /\ F(P(n - 1)) \in Seq(R)
      BY <1>8, <2>1
    <3> QED
      BY <2>a, <3>1, CatTwice
  <2> QED
    BY <2>1, <2>2, <2>3, <2>4, <2>5
<1>11. N \in S
  <2> HIDE DEF S
  <2>1. \A n \in 0..N : n \in S
    BY <1>1, <1>9, <1>10, UpTo
  <2> QED
    BY <1>1, <2>1
<1>12. W(N) = w
  BY <1>4
<1> HIDE DEF W
<1> QED
  BY <1>4, <1>11, <1>12

\* Within(s, S) keeps the order: what it has at a place comes after everything
\* of s in S that stands before it there.
Follows(w, s, S) ==
    \A j \in 1..Len(w) : \E b \in 1..Len(s) :
        /\ w[j] = s[b]
        /\ \A a \in 1..(b - 1) : s[a] \in S => \E i \in 1..(j - 1) : w[i] = s[a]

LEMMA WithinOrder ==
    ASSUME NEW R, NEW s \in Seq(R), NEW S
    PROVE  Follows(Within(s, S), s, S)
<1>1. PICK f : Picks(s, S, f) /\ Within(s, S) = f[Len(s)]
  <2>1. \E f : Picks(s, S, f)
    BY PicksExist
  <2> QED
    BY <2>1 DEF Within, Picks
<1>2. Len(s) \in Nat /\ \A i \in 1..Len(s) : s[i] \in R
  OBVIOUS
<1> DEFINE After(w, j, n) == \E b \in 1..n :
              /\ w[j] = s[b]
              /\ \A a \in 1..(b - 1) : s[a] \in S => \E i \in 1..(j - 1) : w[i] = s[a]
           Has(w, n) == \A a \in 1..n : s[a] \in S => \E i \in 1..Len(w) : w[i] = s[a]
           Right(w, n) == w \in Seq(R) /\ Has(w, n) /\ \A j \in 1..Len(w) : After(w, j, n)
           T == {n \in 0..Len(s) : Right(f[n], n)}
<1>3. f[0] = << >> /\ \A n \in 1..Len(s) :
                       f[n] = IF s[n] \in S THEN Append(f[n - 1], s[n]) ELSE f[n - 1]
  <2>1. f = [n \in 0..Len(s) |->
               IF n = 0 THEN << >> ELSE IF s[n] \in S THEN Append(f[n - 1], s[n]) ELSE f[n - 1]]
    BY <1>1 DEF Picks
  <2>2. 0 \in 0..Len(s) /\ \A n \in 1..Len(s) : n \in 0..Len(s) /\ n # 0
    BY <1>2
  <2> QED
    BY <2>1, <2>2
<1>4. 0 \in T
  <2> DEFINE w == f[0]
  <2>1. w \in Seq(R) /\ Len(w) = 0
    BY <1>3
  <2> HIDE DEF w
  <2>2. \A j \in 1..Len(w) : FALSE
    BY <2>1
  <2>3. Has(w, 0)
    OBVIOUS
  <2>4. Right(w, 0)
    BY <2>1, <2>2, <2>3
  <2> HIDE DEF Right
  <2> QED
    BY <1>2, <2>4 DEF w
<1>5. ASSUME NEW n \in 1..Len(s), n - 1 \in T PROVE n \in T
  <2> DEFINE u == f[n - 1]
             w == f[n]
  <2>1. Right(u, n - 1) /\ s[n] \in R /\ n \in 0..Len(s)
    BY <1>2, <1>5
  <2>2. w = IF s[n] \in S THEN Append(u, s[n]) ELSE u
    BY <1>3
  <2> HIDE DEF u, w
  <2>3. Len(u) \in Nat /\ u \in Seq(R)
    BY <2>1
  <2>4. CASE s[n] \notin S
    <3>1. w = u
      BY <2>2, <2>4
    <3>2. \A a \in 1..n : s[a] \in S => a \in 1..(n - 1)
      BY <2>4
    <3>3. \A b \in 1..(n - 1) : b \in 1..n
      OBVIOUS
    <3>4. Has(u, n)
      BY <2>1, <3>2
    <3>5. \A j \in 1..Len(u) : After(u, j, n)
      <4> SUFFICES ASSUME NEW j \in 1..Len(u) PROVE After(u, j, n)
        OBVIOUS
      <4>1. After(u, j, n - 1)
        BY <2>1
      <4> QED
        BY <3>3, <4>1
    <3>6. Right(w, n)
      BY <2>3, <3>1, <3>4, <3>5
    <3> HIDE DEF Right
    <3> QED
      BY <2>1, <3>6 DEF w
  <2>5. CASE s[n] \in S
    <3>1. /\ w \in Seq(R) /\ Len(w) = Len(u) + 1 /\ w[Len(u) + 1] = s[n]
          /\ \A i \in 1..Len(u) : w[i] = u[i]
      BY <2>1, <2>2, <2>3, <2>5
    <3>2. Has(w, n)
      <4> SUFFICES ASSUME NEW a \in 1..n, s[a] \in S PROVE \E i \in 1..Len(w) : w[i] = s[a]
        OBVIOUS
      <4>1. CASE a = n
        BY <2>3, <3>1, <4>1
      <4>2. CASE a # n
        <5>1. PICK i \in 1..Len(u) : u[i] = s[a]
          BY <2>1, <4>2
        <5>2. i \in 1..Len(w)
          BY <2>3, <3>1
        <5> QED
          BY <3>1, <5>1, <5>2
      <4> QED
        BY <4>1, <4>2
    <3>3. ASSUME NEW j \in 1..Len(w) PROVE After(w, j, n)
      <4>1. CASE j = Len(u) + 1
        <5>1. \A a \in 1..(n - 1) : s[a] \in S => \E i \in 1..(j - 1) : w[i] = s[a]
          <6> SUFFICES ASSUME NEW a \in 1..(n - 1), s[a] \in S
                       PROVE  \E i \in 1..(j - 1) : w[i] = s[a]
            OBVIOUS
          <6>1. PICK i \in 1..Len(u) : u[i] = s[a]
            BY <2>1
          <6> QED
            BY <2>3, <3>1, <4>1, <6>1
        <5> QED
          BY <3>1, <4>1, <5>1
      <4>2. CASE j # Len(u) + 1
        <5>1. j \in 1..Len(u) /\ \A i \in 1..(j - 1) : w[i] = u[i] /\ w[j] = u[j]
          BY <2>3, <3>1, <4>2
        <5>a. w[j] = u[j]
          BY <3>1, <5>1
        <5>2. PICK b \in 1..(n - 1) :
                 /\ u[j] = s[b]
                 /\ \A a \in 1..(b - 1) : s[a] \in S => \E i \in 1..(j - 1) : u[i] = s[a]
          BY <2>1, <5>1
        <5> QED
          BY <5>1, <5>a, <5>2
      <4> QED
        BY <4>1, <4>2
    <3>4. Right(w, n)
      BY <3>1, <3>2, <3>3
    <3> HIDE DEF Right
    <3> QED
      BY <2>1, <3>4 DEF w
  <2> QED
    BY <2>4, <2>5
<1>6. Len(s) \in T
  <2> HIDE DEF T
  <2>1. \A n \in 0..Len(s) : n \in T
    BY <1>2, <1>4, <1>5, UpTo
  <2> QED
    BY <1>2, <2>1
<1> DEFINE w == f[Len(s)]
<1>7. \A j \in 1..Len(w) : After(w, j, Len(s))
  BY <1>6
<1> HIDE DEF w
<1>8. Follows(w, s, S)
  BY <1>7 DEF Follows
<1> QED
  BY <1>1, <1>8 DEF w

\* It is as long as s only if nothing is left out, and then it is s.
LEMMA WithinWhole ==
    ASSUME NEW R, NEW s \in Seq(R), NEW S
    PROVE  /\ Elems(s) \subseteq S => Within(s, S) = s
           /\ Len(Within(s, S)) = Len(s) => Elems(s) \subseteq S
<1>1. PICK f : Picks(s, S, f) /\ Within(s, S) = f[Len(s)]
  <2>1. \E f : Picks(s, S, f)
    BY PicksExist
  <2> QED
    BY <2>1 DEF Within, Picks
<1>2. Len(s) \in Nat /\ \A i \in 1..Len(s) : s[i] \in R
  OBVIOUS
<1> DEFINE P(n) == SubSeq(s, 1, n)
           All(n) == \A i \in 1..n : s[i] \in S
           Right(n) == /\ f[n] \in Seq(R) /\ Len(f[n]) <= n
                       /\ All(n) => f[n] = P(n)
                       /\ Len(f[n]) = n => All(n)
           T == {n \in 0..Len(s) : Right(n)}
<1>3. f[0] = << >> /\ \A n \in 1..Len(s) :
                       f[n] = IF s[n] \in S THEN Append(f[n - 1], s[n]) ELSE f[n - 1]
  <2>1. f = [n \in 0..Len(s) |->
               IF n = 0 THEN << >> ELSE IF s[n] \in S THEN Append(f[n - 1], s[n]) ELSE f[n - 1]]
    BY <1>1 DEF Picks
  <2>2. 0 \in 0..Len(s) /\ \A n \in 1..Len(s) : n \in 0..Len(s) /\ n # 0
    BY <1>2
  <2> QED
    BY <2>1, <2>2
<1>p. P(0) = << >> /\ P(Len(s)) = s
  BY PrefixWhole
<1>q. \A n \in 1..Len(s) : P(n) = Append(P(n - 1), s[n])
  BY PrefixGrows
<1> HIDE DEF P
<1>4. 0 \in T
  <2> DEFINE w == f[0]
  <2>1. w \in Seq(R) /\ Len(w) = 0 /\ w = P(0)
    BY <1>3, <1>p
  <2> HIDE DEF w
  <2>2. All(0)
    OBVIOUS
  <2>3. Right(0)
    BY <2>1, <2>2 DEF w
  <2> HIDE DEF Right
  <2> QED
    BY <1>2, <2>3
<1>5. ASSUME NEW n \in 1..Len(s), n - 1 \in T PROVE n \in T
  <2> DEFINE u == f[n - 1]
  <2>1. Right(n - 1) /\ s[n] \in R /\ n \in 0..Len(s)
    BY <1>2, <1>5
  <2>2. f[n] = IF s[n] \in S THEN Append(u, s[n]) ELSE u
    BY <1>3
  <2>3. u \in Seq(R) /\ Len(u) <= n - 1 /\ Len(u) \in Nat
    BY <2>1
  <2>4. All(n) <=> All(n - 1) /\ s[n] \in S
    <3>1. \A i \in 1..n : i = n \/ i \in 1..(n - 1)
      OBVIOUS
    <3>2. \A i \in 1..(n - 1) : i \in 1..n
      OBVIOUS
    <3>3. n \in 1..n
      OBVIOUS
    <3> QED
      BY <3>1, <3>2, <3>3
  <2>5. (All(n - 1) => u = P(n - 1)) /\ (Len(u) = n - 1 => All(n - 1))
    BY <2>1
  <2> HIDE DEF u, All
  <2>6. CASE s[n] \notin S
    <3>1. f[n] = u /\ ~ All(n) /\ Len(u) # n /\ Len(u) <= n
      BY <2>2, <2>3, <2>4, <2>6
    <3>2. Right(n)
      BY <2>3, <3>1
    <3> QED
      BY <2>1, <3>2
  <2>7. CASE s[n] \in S
    <3>1. f[n] = Append(u, s[n])
      BY <2>2, <2>7
    <3>2. f[n] \in Seq(R) /\ Len(f[n]) = Len(u) + 1
      BY <2>1, <2>3, <3>1
    <3>3. All(n) => f[n] = P(n)
      BY <1>q, <2>4, <2>5, <3>1
    <3>4. Len(f[n]) = n => All(n)
      BY <2>3, <2>4, <2>5, <2>7, <3>2
    <3>5. Len(f[n]) <= n
      BY <2>3, <3>2
    <3>6. Right(n)
      BY <3>2, <3>3, <3>4, <3>5
    <3> QED
      BY <2>1, <3>6
  <2> QED
    BY <2>6, <2>7
<1>6. Len(s) \in T
  <2> HIDE DEF T
  <2>1. \A n \in 0..Len(s) : n \in T
    BY <1>2, <1>4, <1>5, UpTo
  <2> QED
    BY <1>2, <2>1
<1>7. All(Len(s)) <=> Elems(s) \subseteq S
  BY DEF Elems
<1> HIDE DEF All
<1> QED
  BY <1>1, <1>p, <1>6, <1>7

-----------------------------------------------------------------------------
(***************************************************************************)
(* The chunks drawn from a sequence of entries.                            *)
(***************************************************************************)

\* ChunkEntries with the entries as a parameter.
SizeOf(E, c) ==
    Len(c) + ChunkCap * Backup!Cardinality({i \in 1..Len(c) : E[c[i]].kind = "big"})
Closing(acc) == IF acc.pending = << >> THEN acc.drafts ELSE Append(acc.drafts, acc.pending)
Acc(pending, drafts) == [pending |-> pending, drafts |-> drafts]
StepOf(E, acc, e) ==
    IF SizeOf(E, Append(acc.pending, e)) <= ChunkCap
    THEN Acc(Append(acc.pending, e), acc.drafts)
    ELSE Acc(<< >>, Append(Closing(acc), <<e>>))
Steps(E, c, f) ==
    f = [n \in 0..Len(c) |-> IF n = 0 THEN Acc(<< >>, << >>) ELSE StepOf(E, f[n - 1], c[n])]
ChunksOf(E, c) == Closing((CHOOSE f : Steps(E, c, f))[Len(c)])

LEMMA ChunkEntriesIs == \A c : Backup!ChunkEntries(c) = ChunksOf(entries, c)
BY DEF Backup!ChunkEntries, Backup!ChunkStep, Backup!Closed, Backup!Size, ChunksOf, Steps,
       StepOf, Closing, Acc, SizeOf

NoneEmpty(ss) == \A i \in 1..Len(ss) : ss[i] # << >>
More(s, e) == Append(s, e)
AllOf(acc) == Cat(Backup!FlattenSeq(acc.drafts), acc.pending)
Accs(R) == [pending : Seq(R), drafts : Seq(Seq(R))]

LEMMA AccIs ==
    ASSUME NEW R, NEW c \in Seq(R), NEW d \in Seq(Seq(R))
    PROVE  Acc(c, d) \in Accs(R) /\ Acc(c, d).pending = c /\ Acc(c, d).drafts = d
BY DEF Acc, Accs

LEMMA ClosingIs ==
    ASSUME NEW R, NEW acc \in Accs(R)
    PROVE  /\ acc.pending \in Seq(R) /\ acc.drafts \in Seq(Seq(R))
           /\ Closing(acc) \in Seq(Seq(R))
           /\ Backup!FlattenSeq(Closing(acc)) = Cat(Backup!FlattenSeq(acc.drafts), acc.pending)
           /\ NoneEmpty(acc.drafts) => NoneEmpty(Closing(acc))
<1> DEFINE p == acc.pending
           d == acc.drafts
           w == Closing(acc)
<1>1. p \in Seq(R) /\ d \in Seq(Seq(R))
  BY DEF Accs
<1>2. w = IF p = << >> THEN d ELSE Append(d, p)
  BY DEF Closing
<1> HIDE DEF p, d, w
<1>3. Backup!FlattenSeq(d) \in Seq(R)
  BY <1>1, FlattenIs
<1>4. CASE p = << >>
  <2>1. w = d
    BY <1>2, <1>4
  <2>2. Cat(Backup!FlattenSeq(d), << >>) = Backup!FlattenSeq(d)
    BY <1>3, JoinedNothing
  <2> QED
    BY <1>1, <1>4, <2>1, <2>2 DEF w, d, p
<1>5. CASE p # << >>
  <2>1. w = Append(d, p)
    BY <1>2, <1>5
  <2>2. Backup!FlattenSeq(w) = Cat(Backup!FlattenSeq(d), p)
    BY <1>1, <1>3, <2>1, FlattenAppended
  <2>3. w \in Seq(Seq(R))
    BY <1>1, <2>1
  <2>4. NoneEmpty(d) => NoneEmpty(w)
    <3>1. Len(d) \in Nat /\ Len(w) = Len(d) + 1 /\ w[Len(d) + 1] = p
      BY <1>1, <2>1
    <3>2. \A i \in 1..Len(d) : w[i] = d[i]
      BY <1>1, <2>1
    <3>3. \A i \in 1..Len(w) : i \in 1..Len(d) \/ i = Len(d) + 1
      BY <3>1
    <3> QED
      BY <1>5, <3>1, <3>2, <3>3 DEF NoneEmpty
  <2> QED
    BY <1>1, <2>2, <2>3, <2>4 DEF w, d, p
<1> QED
  BY <1>4, <1>5

LEMMA StepOfIs ==
    ASSUME NEW R, NEW E, NEW acc \in Accs(R), NEW e \in R
    PROVE  /\ StepOf(E, acc, e) \in Accs(R)
           /\ AllOf(StepOf(E, acc, e)) = More(AllOf(acc), e)
           /\ NoneEmpty(acc.drafts) => NoneEmpty(StepOf(E, acc, e).drafts)
<1> DEFINE p == acc.pending
           d == acc.drafts
           k == Closing(acc)
           x == <<e>>
           g == Append(p, e)
           dx == Append(k, x)
           new == StepOf(E, acc, e)
<1>1. p \in Seq(R) /\ d \in Seq(Seq(R)) /\ k \in Seq(Seq(R))
  BY ClosingIs
<1>2. Backup!FlattenSeq(k) = Cat(Backup!FlattenSeq(d), p)
  BY ClosingIs
<1>3. NoneEmpty(d) => NoneEmpty(k)
  BY ClosingIs
<1>4. x \in Seq(R) /\ x # << >>
  OBVIOUS
<1>5. new = Acc(g, d) \/ new = Acc(<< >>, dx)
  BY DEF StepOf
<1>6. Backup!FlattenSeq(d) \in Seq(R) /\ Backup!FlattenSeq(k) \in Seq(R)
  <2> HIDE DEF d, k
  <2> QED
    BY <1>1, FlattenIs
<1> HIDE DEF p, d, k, new
<1>7. CASE new = Acc(g, d)
  <2>1. g \in Seq(R)
    BY <1>1
  <2>2. Cat(Backup!FlattenSeq(d), g) = Append(Cat(Backup!FlattenSeq(d), p), e)
    BY <1>1, <1>6, AppendJoined
  <2> HIDE DEF g
  <2>3. new \in Accs(R) /\ new.pending = g /\ new.drafts = d
    BY <1>1, <1>7, <2>1, AccIs
  <2> QED
    BY <2>2, <2>3 DEF new, d, p, AllOf, More
<1>8. CASE new = Acc(<< >>, dx)
  <2>1. dx \in Seq(Seq(R)) /\ << >> \in Seq(R)
    BY <1>1, <1>4
  <2>2. Backup!FlattenSeq(dx) = Cat(Backup!FlattenSeq(k), x)
    BY <1>1, <1>4, <1>6, FlattenAppended
  <2>3. Append(Backup!FlattenSeq(k), e) = Cat(Backup!FlattenSeq(k), x)
    BY <1>6, AppendCat
  <2>4. \A i \in 1..Len(dx) : (i \in 1..Len(k) /\ dx[i] = k[i]) \/ dx[i] = x
    <3> HIDE DEF x
    <3> QED
      BY <1>1, <1>4
  <2> HIDE DEF dx
  <2>5. new \in Accs(R) /\ new.pending = << >> /\ new.drafts = dx
    <3> DEFINE o == << >>
    <3>1. o \in Seq(R) /\ new = Acc(o, dx)
      BY <1>8
    <3> HIDE DEF o
    <3>2. new \in Accs(R) /\ new.pending = o /\ new.drafts = dx
      BY <2>1, <3>1, AccIs
    <3> QED
      BY <3>2 DEF o
  <2>6. Cat(Backup!FlattenSeq(dx), << >>) = Backup!FlattenSeq(dx)
    <3>1. Backup!FlattenSeq(dx) \in Seq(R)
      BY <2>1, FlattenIs
    <3> QED
      BY <3>1, JoinedNothing
  <2>7. NoneEmpty(d) => NoneEmpty(dx)
    BY <1>3, <1>4, <2>4 DEF NoneEmpty
  <2>8. Cat(Backup!FlattenSeq(new.drafts), new.pending) = Append(Cat(Backup!FlattenSeq(d), p), e)
    BY <1>2, <2>2, <2>3, <2>5, <2>6
  <2> QED
    BY <2>5, <2>7, <2>8 DEF new, d, p, AllOf, More
<1> QED
  BY <1>5, <1>7, <1>8

LEMMA StepsExist ==
    ASSUME NEW R, NEW E, NEW c \in Seq(R)
    PROVE  \E f : /\ ChunksOf(E, c) = Closing(f[Len(c)])
                  /\ f[0] = Acc(<< >>, << >>)
                  /\ \A n \in 1..Len(c) : f[n] = StepOf(E, f[n - 1], c[n])
<1> DEFINE N == Len(c)
           X == Accs(R)
           x0 == Acc(<< >>, << >>)
           p == [n \in 1..N |-> n - 1]
           G == [n \in 1..N |-> [x \in X |-> StepOf(E, x, c[n])]]
<1>1. N \in Nat /\ \A n \in 1..N : c[n] \in R
  OBVIOUS
<1>2. x0 \in X
  <2>1. << >> \in Seq(R) /\ << >> \in Seq(Seq(R))
    OBVIOUS
  <2> QED
    BY <2>1, AccIs
<1> HIDE DEF X, x0
<1>3. p \in [1..N -> Nat] /\ \A n \in 1..N : p[n] < n /\ p[n] = n - 1
  OBVIOUS
<1>4. \A n \in 1..N, x \in X : StepOf(E, x, c[n]) \in X
  BY <1>1, StepOfIs DEF X
<1>5. G \in [1..N -> [X -> X]]
  <2>1. \A n \in 1..N : [x \in X |-> StepOf(E, x, c[n])] \in [X -> X]
    BY <1>4
  <2> QED
    BY <2>1
<1>6. \A n \in 1..N, x \in X : G[n][x] = StepOf(E, x, c[n])
  OBVIOUS
<1> HIDE DEF p, G
<1>7. PICK f \in [0..N -> X] : f[0] = x0 /\ \A n \in 1..N : f[n] = G[n][f[p[n]]]
  <2>1. Recurrence(X, x0, N, p, G)
    BY <1>1, <1>2, <1>3, <1>5 DEF Recurrence
  <2>2. \E f : Solves(X, x0, N, p, G, f)
    BY <2>1, Recursion
  <2> QED
    BY <2>2 DEF Solves
<1>8. \A n \in 1..N : n - 1 \in 0..N /\ f[n] = StepOf(E, f[n - 1], c[n])
  <2> SUFFICES ASSUME NEW n \in 1..N PROVE n - 1 \in 0..N /\ f[n] = StepOf(E, f[n - 1], c[n])
    OBVIOUS
  <2>1. n - 1 \in 0..N
    BY <1>1
  <2>2. f[n - 1] \in X
    BY <1>7, <2>1
  <2> QED
    BY <1>3, <1>6, <1>7, <2>1, <2>2
<1>9. Steps(E, c, f)
  <2> DEFINE h == [n \in 0..N |-> IF n = 0 THEN x0 ELSE StepOf(E, f[n - 1], c[n])]
  <2>1. \A n \in 0..N : h[n] = IF n = 0 THEN x0 ELSE StepOf(E, f[n - 1], c[n])
    OBVIOUS
  <2>2. \A n \in 0..N : n = 0 \/ n \in 1..N
    OBVIOUS
  <2>3. \A n \in 0..N : f[n] = h[n]
    <3> HIDE DEF h
    <3> QED
      BY <1>7, <1>8, <2>1, <2>2
  <2>4. f = [n \in 0..N |-> f[n]] /\ h = [n \in 0..N |-> h[n]]
    BY <1>7
  <2>5. f = h
    <3> HIDE DEF h
    <3> QED
      BY <2>3, <2>4
  <2> QED
    BY <2>5 DEF Steps, x0
<1> DEFINE g == CHOOSE f1 : Steps(E, c, f1)
<1>10. Steps(E, c, g) /\ ChunksOf(E, c) = Closing(g[N])
  BY <1>9 DEF ChunksOf
<1> HIDE DEF g
<1>11. g = [n \in 0..N |-> IF n = 0 THEN x0 ELSE StepOf(E, g[n - 1], c[n])]
  BY <1>10 DEF Steps, x0
<1>12. g[0] = x0 /\ \A n \in 1..N : g[n] = StepOf(E, g[n - 1], c[n])
  <2>1. 0 \in 0..N /\ \A n \in 1..N : n \in 0..N /\ n # 0
    BY <1>1
  <2> QED
    BY <1>11, <2>1
<1> QED
  BY <1>10, <1>12 DEF x0

\* The chunks of a sequence are its parts in their order, none of them empty.
LEMMA ChunksAre ==
    ASSUME NEW R, NEW E, NEW c \in Seq(R)
    PROVE  /\ ChunksOf(E, c) \in Seq(Seq(R))
           /\ NoneEmpty(ChunksOf(E, c))
           /\ Backup!FlattenSeq(ChunksOf(E, c)) = c
<1>1. PICK f : /\ ChunksOf(E, c) = Closing(f[Len(c)])
               /\ f[0] = Acc(<< >>, << >>)
               /\ \A n \in 1..Len(c) : f[n] = StepOf(E, f[n - 1], c[n])
  BY StepsExist
<1> DEFINE N == Len(c)
           P(n) == SubSeq(c, 1, n)
           Right(n, a) == /\ a \in Accs(R)
                          /\ AllOf(a) = P(n)
                          /\ NoneEmpty(a.drafts)
           T == {n \in 0..N : Right(n, f[n])}
<1>2. N \in Nat /\ \A n \in 1..N : c[n] \in R
  OBVIOUS
<1>3. P(0) = << >> /\ P(N) = c
  BY PrefixWhole
<1>4. \A n \in 1..N : P(n) = Append(P(n - 1), c[n])
  BY PrefixGrows
<1> HIDE DEF P
<1>5. 0 \in T
  <2>1. << >> \in Seq(R) /\ << >> \in Seq(Seq(R))
    OBVIOUS
  <2>2. f[0] \in Accs(R) /\ f[0].pending = << >> /\ f[0].drafts = << >>
    <3> DEFINE o == << >>
    <3>1. o \in Seq(R) /\ o \in Seq(Seq(R)) /\ f[0] = Acc(o, o)
      BY <1>1
    <3> HIDE DEF o
    <3>2. f[0] \in Accs(R) /\ f[0].pending = o /\ f[0].drafts = o
      BY <3>1, AccIs
    <3> QED
      BY <3>2 DEF o
  <2>3. Cat(Backup!FlattenSeq(<< >>), << >>) = << >>
    BY <2>1, FlattenNothing, JoinedNothing
  <2>4. NoneEmpty(f[0].drafts)
    BY <2>2 DEF NoneEmpty
  <2>5. Right(0, f[0])
    BY <1>3, <2>2, <2>3, <2>4 DEF AllOf
  <2> HIDE DEF Right
  <2> QED
    BY <1>2, <2>5
<1>6. ASSUME NEW n \in 1..N, n - 1 \in T PROVE n \in T
  <2> DEFINE a == f[n - 1]
             b == StepOf(E, a, c[n])
  <2>1. Right(n - 1, a) /\ c[n] \in R /\ n \in 0..N
    BY <1>2, <1>6
  <2>2. f[n] = b
    BY <1>1
  <2> HIDE DEF a
  <2>0. a \in Accs(R)
    BY <2>1
  <2>e. c[n] \in R
    BY <2>1
  <2>3. b \in Accs(R)
    BY <2>0, <2>e, StepOfIs
  <2>4. AllOf(b) = More(AllOf(a), c[n])
    BY <2>0, <2>e, StepOfIs
  <2>5. NoneEmpty(a.drafts) => NoneEmpty(b.drafts)
    BY <2>0, <2>e, StepOfIs
  <2> HIDE DEF b
  <2>6. Right(n, b)
    BY <1>4, <2>1, <2>3, <2>4, <2>5 DEF More
  <2> HIDE DEF Right
  <2> QED
    BY <2>1, <2>2, <2>6
<1>7. N \in T
  <2> HIDE DEF T
  <2>1. \A n \in 0..N : n \in T
    BY <1>2, <1>5, <1>6, UpTo
  <2> QED
    BY <1>2, <2>1
<1> DEFINE a == f[N]
           w == Closing(a)
<1>8. Right(N, a)
  BY <1>7
<1> HIDE DEF a
<1>9. a \in Accs(R)
  BY <1>8
<1>10. w \in Seq(Seq(R)) /\ Backup!FlattenSeq(w) = Cat(Backup!FlattenSeq(a.drafts), a.pending)
  BY <1>9, ClosingIs
<1>11. NoneEmpty(a.drafts) => NoneEmpty(w)
  BY <1>9, ClosingIs
<1> HIDE DEF w
<1>12. NoneEmpty(w)
  BY <1>8, <1>11
<1>13. w = ChunksOf(E, c)
  BY <1>1 DEF w, a
<1> QED
  BY <1>3, <1>8, <1>10, <1>12, <1>13 DEF AllOf

\* They depend on which of its own entries are big, not on any other.
LEMMA ChunksSame ==
    ASSUME NEW R, NEW c \in Seq(R), NEW E1, NEW E2, \A e \in R : E1[e].kind = E2[e].kind
    PROVE  ChunksOf(E1, c) = ChunksOf(E2, c)
<1>1. PICK f : /\ ChunksOf(E1, c) = Closing(f[Len(c)])
               /\ f[0] = Acc(<< >>, << >>)
               /\ \A n \in 1..Len(c) : f[n] = StepOf(E1, f[n - 1], c[n])
  BY StepsExist
<1>2. PICK g : /\ ChunksOf(E2, c) = Closing(g[Len(c)])
               /\ g[0] = Acc(<< >>, << >>)
               /\ \A n \in 1..Len(c) : g[n] = StepOf(E2, g[n - 1], c[n])
  BY StepsExist
<1> DEFINE N == Len(c)
           T == {n \in 0..N : f[n] \in Accs(R) /\ f[n] = g[n]}
<1>3. N \in Nat /\ \A n \in 1..N : c[n] \in R
  OBVIOUS
<1>4. 0 \in T
  <2> DEFINE o == << >>
  <2>1. o \in Seq(R) /\ o \in Seq(Seq(R)) /\ f[0] = Acc(o, o) /\ g[0] = Acc(o, o)
    BY <1>1, <1>2
  <2> HIDE DEF o
  <2>2. Acc(o, o) \in Accs(R)
    BY <2>1, AccIs
  <2> QED
    BY <1>3, <2>1, <2>2
<1>5. ASSUME NEW n \in 1..N, n - 1 \in T PROVE n \in T
  <2> DEFINE a == f[n - 1]
             u == Append(a.pending, c[n])
  <2>1. a \in Accs(R) /\ a = g[n - 1] /\ c[n] \in R /\ n \in 0..N
    BY <1>3, <1>5
  <2> HIDE DEF a
  <2>2. u \in Seq(R)
    <3>1. a.pending \in Seq(R)
      BY <2>1 DEF Accs
    <3> QED
      BY <2>1, <3>1
  <2> HIDE DEF u
  <2>3. \A i \in 1..Len(u) : u[i] \in R
    BY <2>2
  <2>4. SizeOf(E1, u) = SizeOf(E2, u)
    <3>1. {i \in 1..Len(u) : E1[u[i]].kind = "big"} = {i \in 1..Len(u) : E2[u[i]].kind = "big"}
      BY <2>3
    <3> QED
      BY <3>1 DEF SizeOf
  <2>5. StepOf(E1, a, c[n]) = StepOf(E2, a, c[n])
    BY <2>4 DEF StepOf, u
  <2>6. StepOf(E1, a, c[n]) \in Accs(R)
    BY <2>1, StepOfIs
  <2>7. f[n] = StepOf(E1, a, c[n]) /\ g[n] = StepOf(E2, a, c[n])
    BY <1>1, <1>2, <2>1 DEF a
  <2> QED
    BY <2>1, <2>5, <2>6, <2>7
<1>6. N \in T
  <2> HIDE DEF T
  <2>1. \A n \in 0..N : n \in T
    BY <1>3, <1>4, <1>5, UpTo
  <2> QED
    BY <1>3, <2>1
<1> QED
  BY <1>1, <1>2, <1>6

-----------------------------------------------------------------------------
(***************************************************************************)
(* What a flush is given: the views of the tree.                           *)
(***************************************************************************)

LEMMA BackupWithin == \A s, S : Backup!Within(s, S) = Within(s, S)
BY DEF Backup!Within, Within

LEMMA ToSetIs == ASSUME NEW R, NEW s \in Seq(R) PROVE Backup!ToSet(s) = Elems(s)
<1>1. DOMAIN s = 1..Len(s)
  OBVIOUS
<1> QED
  BY <1>1 DEF Backup!ToSet, Elems

\* An entry's parent is older than the entry.
Tree(E) == \A e \in 1..Len(E) : E[e].parent \in 0..(e - 1)

\* The parent of every member is in C or stands before it.
Linked(E, v, C) ==
    \A i \in 1..Len(v) : \/ E[v[i]].parent = 0 \/ E[v[i]].parent \in C
                         \/ \E j \in 1..(i - 1) : v[j] = E[v[i]].parent
View(E, v) == v \in Seq(1..Len(E)) /\ Distinct(v) /\ Linked(E, v, {})

Branches(E, f) ==
    f = [e \in 0..Len(E) |-> IF e = 0 THEN << >> ELSE Append(f[E[e].parent], e)]

LEMMA BranchesExist ==
    ASSUME NEW E, Len(E) \in Nat, Tree(E)
    PROVE  \E f : Branches(E, f)
<1> DEFINE N == Len(E)
           X == Seq(1..N)
           p == [n \in 1..N |-> E[n].parent]
           G == [n \in 1..N |-> [x \in X |-> Append(x, n)]]
<1>1. N \in Nat
  OBVIOUS
<1>3. p \in [1..N -> Nat] /\ \A n \in 1..N : p[n] < n /\ p[n] = E[n].parent
  <2>1. \A n \in 1..N : E[n].parent \in Nat /\ E[n].parent < n
    BY DEF Tree
  <2> QED
    BY <2>1
<1>5. G \in [1..N -> [X -> X]] /\ \A n \in 1..N, x \in X : G[n][x] = Append(x, n)
  <2>1. \A n \in 1..N, x \in X : Append(x, n) \in X
    OBVIOUS
  <2>2. \A n \in 1..N : [x \in X |-> Append(x, n)] \in [X -> X]
    BY <2>1
  <2> QED
    BY <2>2
<1>2. << >> \in X
  OBVIOUS
<1> HIDE DEF p, G, X
<1>7. PICK f \in [0..N -> X] : f[0] = << >> /\ \A n \in 1..N : f[n] = G[n][f[p[n]]]
  <2>1. Recurrence(X, << >>, N, p, G)
    BY <1>1, <1>2, <1>3, <1>5 DEF Recurrence
  <2>2. \E f : Solves(X, << >>, N, p, G, f)
    BY <2>1, Recursion
  <2> QED
    BY <2>2 DEF Solves
<1>8. \A n \in 1..N : f[n] = Append(f[E[n].parent], n)
  <2> SUFFICES ASSUME NEW n \in 1..N PROVE f[n] = Append(f[E[n].parent], n)
    OBVIOUS
  <2>1. p[n] \in 0..N /\ p[n] = E[n].parent
    BY <1>1, <1>3
  <2>2. f[p[n]] \in X
    BY <1>7, <2>1
  <2> QED
    BY <1>5, <1>7, <2>1, <2>2
<1> DEFINE h == [n \in 0..N |-> IF n = 0 THEN << >> ELSE Append(f[E[n].parent], n)]
<1>9. \A n \in 0..N : h[n] = IF n = 0 THEN << >> ELSE Append(f[E[n].parent], n)
  OBVIOUS
<1>10. \A n \in 0..N : n = 0 \/ n \in 1..N
  OBVIOUS
<1>11. \A n \in 0..N : f[n] = h[n]
  <2> HIDE DEF h
  <2> QED
    BY <1>7, <1>8, <1>9, <1>10
<1>12. f = [n \in 0..N |-> f[n]] /\ h = [n \in 0..N |-> h[n]]
  BY <1>7
<1>13. f = h
  <2> HIDE DEF h
  <2> QED
    BY <1>11, <1>12
<1> QED
  BY <1>13 DEF Branches

\* The path to an entry holds no entry twice, and every parent before its child.
LEMMA BranchIsView ==
    ASSUME NEW E, Len(E) \in Nat, Tree(E), NEW f, Branches(E, f)
    PROVE  \A e \in 1..Len(E) : View(E, f[e])
<1> DEFINE N == Len(E)
           Good(e) == /\ View(E, f[e]) /\ Elems(f[e]) \subseteq 1..e
                      /\ e # 0 => e \in Elems(f[e])
           T == {n \in 0..N : \A e \in 0..n : Good(e)}
<1>1. f[0] = << >> /\ \A e \in 1..N : f[e] = Append(f[E[e].parent], e)
  <2>1. \A e \in 0..N : f[e] = IF e = 0 THEN << >> ELSE Append(f[E[e].parent], e)
    BY DEF Branches
  <2>2. 0 \in 0..N /\ \A e \in 1..N : e \in 0..N /\ e # 0
    OBVIOUS
  <2> QED
    BY <2>1, <2>2
<1>2. Good(0)
  <2> DEFINE w == f[0]
  <2>1. w \in Seq(1..N) /\ Len(w) = 0
    BY <1>1
  <2> HIDE DEF w
  <2>2. \A i \in 1..Len(w) : FALSE
    BY <2>1
  <2>3. View(E, w) /\ Elems(w) \subseteq 1..0
    BY <2>1, <2>2 DEF View, Distinct, Linked, Elems
  <2> QED
    BY <2>3 DEF w
<1>3. ASSUME NEW n \in 1..N, \A e \in 0..(n - 1) : Good(e) PROVE Good(n)
  <2> DEFINE q == E[n].parent
             u == f[q]
             w == f[n]
  <2>1. q \in 0..(n - 1)
    BY DEF Tree
  <2>2. Good(q)
    BY <1>3, <2>1
  <2>3. w = Append(u, n)
    BY <1>1
  <2>4. u \in Seq(1..N) /\ Distinct(u) /\ Linked(E, u, {}) /\ Elems(u) \subseteq 1..q /\ (q # 0 => q \in Elems(u))
    BY <2>2 DEF View
  <2> HIDE DEF u, w, q
  <2>5. n \notin Elems(u)
    BY <2>1, <2>4
  <2>s. u \in Seq(1..N)
    BY <2>4
  <2>6. w \in Seq(1..N) /\ Elems(w) = Elems(u) \cup {n}
    BY <2>s, <2>3, AppendIs
  <2>7. Distinct(w)
    <3>1. Distinct(u) /\ n \notin Elems(u) => Distinct(w)
      BY <2>s, <2>3, AppendIs
    <3> QED
      BY <2>4, <2>5, <3>1
  <2>8. /\ Len(u) \in Nat /\ Len(w) = Len(u) + 1 /\ w[Len(u) + 1] = n
        /\ \A i \in 1..Len(u) : w[i] = u[i]
    BY <2>s, <2>3
  <2>9. Linked(E, w, {})
    <3> SUFFICES ASSUME NEW i \in 1..Len(w), E[w[i]].parent # 0
                 PROVE  \E j \in 1..(i - 1) : w[j] = E[w[i]].parent
      BY DEF Linked
    <3>1. CASE i \in 1..Len(u)
      <4>1. w[i] = u[i] /\ \A j \in 1..(i - 1) : j \in 1..Len(u) /\ w[j] = u[j]
        BY <2>8, <3>1
      <4>2. \E j \in 1..(i - 1) : u[j] = E[u[i]].parent
        BY <2>4, <3>1, <4>1 DEF Linked
      <4> QED
        BY <4>1, <4>2
    <3>2. CASE i = Len(u) + 1
      <4>1. w[i] = n /\ E[n].parent = q
        BY <2>8, <3>2 DEF q
      <4>2. q \in Elems(u)
        BY <2>4, <4>1
      <4>3. PICK j \in 1..Len(u) : u[j] = q
        BY <4>2 DEF Elems
      <4> QED
        BY <2>8, <3>2, <4>1, <4>3
    <3> QED
      BY <2>8, <3>1, <3>2
  <2>10. Elems(w) \subseteq 1..n /\ n \in Elems(w)
    BY <2>1, <2>4, <2>6
  <2>11. View(E, w)
    BY <2>6, <2>7, <2>9 DEF View
  <2> QED
    BY <2>10, <2>11 DEF w
<1> HIDE DEF Good
<1>4. 0 \in T
  <2>1. \A e \in 0..0 : e = 0
    OBVIOUS
  <2> QED
    BY <1>2, <2>1
<1>5. ASSUME NEW n \in 1..N, n - 1 \in T PROVE n \in T
  <2>1. \A e \in 0..(n - 1) : Good(e)
    BY <1>5
  <2>2. Good(n)
    BY <1>3, <2>1
  <2>3. \A e \in 0..n : e \in 0..(n - 1) \/ e = n
    OBVIOUS
  <2> QED
    BY <2>1, <2>2, <2>3
<1>6. N \in T
  <2> HIDE DEF T
  <2>1. \A n \in 0..N : n \in T
    BY <1>4, <1>5, UpTo
  <2> QED
    BY <2>1
<1>7. \A e \in 1..N : e \in 0..N
  OBVIOUS
<1> QED
  BY <1>6, <1>7 DEF Good

\* Every view a flush may be given.
LEMMA DeliveriesAre ==
    ASSUME Len(entries) \in Nat, Tree(entries), NEW view \in Backup!Deliveries
    PROVE  View(entries, view)
<1> DEFINE N == Len(entries)
<1>1. CASE view = Backup!Ids
  <2>1. view = [i \in 1..N |-> i]
    BY <1>1 DEF Backup!Ids
  <2>2. view \in Seq(1..N) /\ Len(view) = N /\ \A i \in 1..N : view[i] = i
    BY <2>1
  <2>3. Distinct(view)
    BY <2>2 DEF Distinct
  <2>4. Linked(entries, view, {})
    <3> SUFFICES ASSUME NEW i \in 1..Len(view), entries[view[i]].parent # 0
                 PROVE  \E j \in 1..(i - 1) : view[j] = entries[view[i]].parent
      BY DEF Linked
    <3>1. view[i] = i /\ entries[i].parent \in 0..(i - 1)
      BY <2>2 DEF Tree
    <3>2. entries[i].parent \in 1..(i - 1) /\ entries[i].parent \in 1..N
      BY <2>2, <3>1
    <3> QED
      BY <2>2, <3>1, <3>2
  <2> QED
    BY <2>2, <2>3, <2>4 DEF View
<1>2. CASE view # Backup!Ids
  <2>1. PICK e \in 1..N : view = Backup!BranchTo[e]
    BY <1>2 DEF Backup!Deliveries
  <2> DEFINE f == Backup!BranchTo
  <2>2. f = CHOOSE g : Branches(entries, g)
    BY DEF Backup!BranchTo, Branches
  <2>3. \E g : Branches(entries, g)
    BY BranchesExist
  <2> HIDE DEF f
  <2>4. Branches(entries, f)
    BY <2>2, <2>3
  <2>5. \A k \in 1..N : View(entries, f[k])
    BY <2>4, BranchIsView
  <2> QED
    BY <2>1, <2>5 DEF f
<1> QED
  BY <1>1, <1>2

\* What is left of a view when what is covered is taken out.
LEMMA RestIs ==
    ASSUME NEW E, NEW v, View(E, v), NEW C, NEW w, w = Within(v, Elems(v) \ C)
    PROVE  /\ w \in Seq(1..Len(E)) /\ Distinct(w) /\ Elems(w) = Elems(v) \ C
           /\ Linked(E, w, C)
<1> DEFINE R == 1..Len(E)
           S == Elems(v) \ C
<1>1. v \in Seq(R) /\ Distinct(v) /\ Linked(E, v, {})
  BY DEF View
<1> HIDE DEF R
<1>v. v \in Seq(R)
  BY <1>1
<1> HIDE DEF S
<1>2. w = Within(v, S)
  BY DEF S
<1>3. w \in Seq(R) /\ Elems(w) = Elems(v) \cap S
  <2>1. Within(v, S) \in Seq(R) /\ Elems(Within(v, S)) = Elems(v) \cap S
    BY <1>v, WithinIs
  <2> QED
    BY <1>2, <2>1
<1>4. Distinct(w)
  <2>1. Distinct(v) => Distinct(Within(v, S))
    BY <1>v, WithinIs
  <2> QED
    BY <1>1, <1>2, <2>1
<1>5. Follows(w, v, S)
  BY <1>v, <1>2, WithinOrder
<1>6. Linked(E, w, C)
  <2> SUFFICES ASSUME NEW j \in 1..Len(w), E[w[j]].parent # 0, E[w[j]].parent \notin C
               PROVE  \E i \in 1..(j - 1) : w[i] = E[w[j]].parent
    BY DEF Linked
  <2>1. PICK b \in 1..Len(v) :
          /\ w[j] = v[b]
          /\ \A a \in 1..(b - 1) : v[a] \in S => \E i \in 1..(j - 1) : w[i] = v[a]
    BY <1>5 DEF Follows
  <2>2. PICK a \in 1..(b - 1) : v[a] = E[v[b]].parent
    BY <1>1, <2>1 DEF Linked
  <2>3. v[a] \in S
    <3>1. Len(v) \in Nat
      BY <1>v
    <3>2. a \in 1..Len(v)
      BY <3>1
    <3> QED
      BY <2>1, <2>2, <3>2 DEF S, Elems
  <2> QED
    BY <2>1, <2>2, <2>3
<1>7. Elems(w) = Elems(v) \ C
  BY <1>3 DEF S
<1> QED
  BY <1>3, <1>4, <1>6, <1>7 DEF R

-----------------------------------------------------------------------------
(***************************************************************************)
(* What a flush draws and covers.                                          *)
(***************************************************************************)

\* What a flush of s draws, covers and records, with the entries as a parameter.
TextsOf(E, s) == {e \in Elems(s) : E[e].kind \in {"text", "big"}}
DrawnOf(E, s) == ChunksOf(E, Within(s, TextsOf(E, s)))
CoverOf(E, s) == Within(s, {e \in Elems(s) : E[e].kind # "held"})
Chunk(q, c) == [seq |-> q, content |-> c]
DraftsOf(E, n, s) == [i \in 1..Len(DrawnOf(E, s)) |-> Chunk(n + i - 1, DrawnOf(E, s)[i])]
Chunks(R) == [seq : Nat, content : Seq(R)]

LEMMA DrawnIs ==
    ASSUME NEW R, NEW E, NEW s \in Seq(R)
    PROVE  /\ DrawnOf(E, s) \in Seq(Seq(R))
           /\ NoneEmpty(DrawnOf(E, s))
           /\ \A i \in 1..Len(DrawnOf(E, s)) : Elems(DrawnOf(E, s)[i]) \subseteq TextsOf(E, s)
           /\ \A e \in TextsOf(E, s) : \E i \in 1..Len(DrawnOf(E, s)) : e \in Elems(DrawnOf(E, s)[i])
           /\ TextsOf(E, s) = {} => DrawnOf(E, s) = << >>
           /\ Elems(s) \subseteq TextsOf(E, s) => Backup!FlattenSeq(DrawnOf(E, s)) = s
<1> DEFINE S == TextsOf(E, s)
           w == Within(s, S)
           d == DrawnOf(E, s)
<1>1. w \in Seq(R) /\ Elems(w) = Elems(s) \cap S
  BY WithinIs
<1>2. S \subseteq Elems(s)
  BY DEF TextsOf
<1>3. Elems(s) \subseteq S => w = s
  BY WithinWhole
<1>4. d = ChunksOf(E, w)
  BY DEF DrawnOf
<1> HIDE DEF S, w, d
<1>w. w \in Seq(R)
  BY <1>1
<1>5. d \in Seq(Seq(R))
  BY <1>w, <1>4, ChunksAre
<1>6. NoneEmpty(d)
  BY <1>w, <1>4, ChunksAre
<1>7. Backup!FlattenSeq(d) = w
  BY <1>w, <1>4, ChunksAre
<1>8. \A e : e \in Elems(Backup!FlattenSeq(d)) <=> \E i \in 1..Len(d) : e \in Elems(d[i])
  BY <1>5, FlattenIs
<1>9. \A i \in 1..Len(d) : Elems(d[i]) \subseteq S
  <2> SUFFICES ASSUME NEW i \in 1..Len(d), NEW e \in Elems(d[i]) PROVE e \in S
    OBVIOUS
  <2>1. e \in Elems(w)
    BY <1>7, <1>8
  <2> QED
    BY <1>1, <2>1
<1>10. \A e \in S : \E i \in 1..Len(d) : e \in Elems(d[i])
  BY <1>1, <1>2, <1>7, <1>8
<1>11. S = {} => d = << >>
  <2> SUFFICES ASSUME S = {}, d # << >> PROVE FALSE
    OBVIOUS
  <2>1. Len(d) \in Nat /\ Len(d) # 0 /\ d[1] \in Seq(R)
    BY <1>5
  <2>2. 1 \in 1..Len(d)
    BY <2>1
  <2>3. d[1] # << >>
    BY <1>6, <2>2 DEF NoneEmpty
  <2>4. d[1][1] \in Elems(d[1])
    BY <2>1, <2>3 DEF Elems
  <2> QED
    BY <1>9, <2>2, <2>4
<1> QED
  BY <1>3, <1>5, <1>6, <1>7, <1>9, <1>10, <1>11 DEF S, d

LEMMA DraftsAre ==
    ASSUME NEW R, NEW E, NEW s \in Seq(R), NEW n \in Nat
    PROVE  /\ DraftsOf(E, n, s) \in Seq(Chunks(R))
           /\ Len(DraftsOf(E, n, s)) = Len(DrawnOf(E, s))
           /\ \A i \in 1..Len(DrawnOf(E, s)) :
                 /\ DraftsOf(E, n, s)[i].seq = n + i - 1
                 /\ DraftsOf(E, n, s)[i].content = DrawnOf(E, s)[i]
<1> DEFINE d == DrawnOf(E, s)
           r == DraftsOf(E, n, s)
<1>1. d \in Seq(Seq(R))
  BY DrawnIs
<1>2. r = [i \in 1..Len(d) |-> Chunk(n + i - 1, d[i])]
  BY DEF DraftsOf
<1> HIDE DEF d, r
<1>3. Len(d) \in Nat /\ \A i \in 1..Len(d) : d[i] \in Seq(R) /\ n + i - 1 \in Nat
  BY <1>1
<1>4. \A i \in 1..Len(d) : /\ Chunk(n + i - 1, d[i]) \in Chunks(R)
                          /\ Chunk(n + i - 1, d[i]).seq = n + i - 1
                          /\ Chunk(n + i - 1, d[i]).content = d[i]
  BY <1>3 DEF Chunk, Chunks
<1>5. r \in Seq(Chunks(R)) /\ Len(r) = Len(d) /\ \A i \in 1..Len(d) : r[i] = Chunk(n + i - 1, d[i])
  <2> DEFINE N == Len(d)
             g(i) == Chunk(n + i - 1, d[i])
  <2>1. N \in Nat /\ \A i \in 1..N : g(i) \in Chunks(R)
    BY <1>3, <1>4
  <2>2. r = [i \in 1..N |-> g(i)]
    BY <1>2
  <2>3. \A i \in 1..N : r[i] = Chunk(n + i - 1, d[i])
    BY <1>2
  <2> HIDE DEF g, N
  <2>4. r \in Seq(Chunks(R)) /\ Len(r) = N
    BY <2>1, <2>2
  <2> QED
    BY <2>3, <2>4 DEF N
<1> QED
  BY <1>4, <1>5 DEF d, r

LEMMA CoverIs ==
    ASSUME NEW R, NEW E, NEW s \in Seq(R)
    PROVE  /\ CoverOf(E, s) \in Seq(R)
           /\ Elems(CoverOf(E, s)) = {e \in Elems(s) : E[e].kind # "held"}
           /\ TextsOf(E, s) \subseteq Elems(CoverOf(E, s))
           /\ Distinct(s) => Distinct(CoverOf(E, s))
           /\ Elems(s) \subseteq TextsOf(E, s) => CoverOf(E, s) = s
<1> DEFINE S == {e \in Elems(s) : E[e].kind # "held"}
           w == Within(s, S)
<1>1. w = CoverOf(E, s)
  BY DEF CoverOf
<1>2. w \in Seq(R) /\ Elems(w) = Elems(s) \cap S
  BY WithinIs
<1>3. Distinct(s) => Distinct(w)
  BY WithinIs
<1>4. Elems(s) \subseteq S => w = s
  BY WithinWhole
<1>5. TextsOf(E, s) \subseteq S
  BY DEF TextsOf
<1> HIDE DEF w
<1>6. Elems(w) = S
  BY <1>2
<1> HIDE DEF S
<1>7. Elems(s) \subseteq TextsOf(E, s) => w = s
  BY <1>4, <1>5
<1>8. TextsOf(E, s) \subseteq Elems(w)
  BY <1>5, <1>6
<1> QED
  BY <1>1, <1>2, <1>3, <1>6, <1>7, <1>8 DEF S

\* Entries that are appended later change nothing of it.
LEMMA DrawnSame ==
    ASSUME NEW R, NEW s \in Seq(R), NEW E1, NEW E2, \A e \in R : E1[e].kind = E2[e].kind
    PROVE  /\ TextsOf(E1, s) = TextsOf(E2, s)
           /\ DrawnOf(E1, s) = DrawnOf(E2, s) /\ CoverOf(E1, s) = CoverOf(E2, s)
<1>1. \A e \in Elems(s) : e \in R
  BY DEF Elems
<1>2. TextsOf(E1, s) = TextsOf(E2, s)
  BY <1>1 DEF TextsOf
<1> DEFINE w == Within(s, TextsOf(E1, s))
           v == Within(s, TextsOf(E2, s))
<1>3. w \in Seq(R)
  BY WithinIs
<1>4. v = w
  BY <1>2
<1> HIDE DEF w
<1>5. ChunksOf(E1, w) = ChunksOf(E2, w)
  BY <1>3, ChunksSame
<1>6. DrawnOf(E1, s) = DrawnOf(E2, s)
  BY <1>4, <1>5 DEF DrawnOf, w
<1>7. {e \in Elems(s) : E1[e].kind # "held"} = {e \in Elems(s) : E2[e].kind # "held"}
  BY <1>1
<1>8. CoverOf(E1, s) = CoverOf(E2, s)
  BY <1>7 DEF CoverOf
<1> QED
  BY <1>2, <1>6, <1>8

LEMMA DrawnNothing ==
    \A E : DrawnOf(E, << >>) = << >> /\ CoverOf(E, << >>) = << >>
<1> SUFFICES ASSUME NEW E PROVE DrawnOf(E, << >>) = << >> /\ CoverOf(E, << >>) = << >>
  OBVIOUS
<1> DEFINE o == << >>
<1>1. o \in Seq(Nat) /\ Elems(o) = {}
  BY DEF Elems
<1> HIDE DEF o
<1>2. TextsOf(E, o) = {}
  BY <1>1 DEF TextsOf
<1>3. DrawnOf(E, o) = << >>
  BY <1>1, <1>2, DrawnIs
<1>4. Elems(o) \subseteq TextsOf(E, o)
  BY <1>1
<1>5. CoverOf(E, o) = o
  <2>1. o \in Seq(Nat)
    BY <1>1
  <2> QED
    BY <2>1, <1>4, CoverIs
<1> QED
  BY <1>3, <1>5 DEF o

-----------------------------------------------------------------------------
(***************************************************************************)
(* The jobs of a flush, and the state it leaves.                           *)
(***************************************************************************)

Entry == 1..MaxEntries
ChunkJobs == [type : {"chunk"}, seq : Nat, content : Seq(Entry)]
Bodies == [chunks : Seq(Chunks(Entry)), covered : Seq(Entry)]
ManifestJobs == [type : {"manifest"}, body : Bodies]
BoxJobs == ChunkJobs \cup ManifestJobs
States == [covered : Seq(Entry), nextSeq : Nat, chunks : Seq(Chunks(Entry))]

StateOf(c, n, ks) == [covered |-> c, nextSeq |-> n, chunks |-> ks]
ChunkJobOf(d) == [type |-> "chunk", seq |-> d.seq, content |-> d.content]
BodyOf(s) == [chunks |-> s.chunks, covered |-> s.covered]
ManifestJobOf(s) == [type |-> "manifest", body |-> BodyOf(s)]

LEMMA StateOfIs ==
    ASSUME NEW c \in Seq(Entry), NEW n \in Nat, NEW ks \in Seq(Chunks(Entry))
    PROVE  /\ StateOf(c, n, ks) \in States /\ StateOf(c, n, ks).covered = c
           /\ StateOf(c, n, ks).nextSeq = n /\ StateOf(c, n, ks).chunks = ks
BY DEF StateOf, States

LEMMA ChunkJobIs ==
    ASSUME NEW d \in Chunks(Entry)
    PROVE  /\ ChunkJobOf(d) \in BoxJobs /\ ChunkJobOf(d).type = "chunk"
           /\ ChunkJobOf(d).seq = d.seq /\ ChunkJobOf(d).content = d.content
BY DEF ChunkJobOf, BoxJobs, ChunkJobs, Chunks

LEMMA ManifestJobIs ==
    ASSUME NEW s \in States
    PROVE  /\ ManifestJobOf(s) \in BoxJobs /\ ManifestJobOf(s).type = "manifest"
           /\ ManifestJobOf(s).body = BodyOf(s) /\ BodyOf(s) \in Bodies
           /\ BodyOf(s).chunks = s.chunks /\ BodyOf(s).covered = s.covered
BY DEF ManifestJobOf, BodyOf, BoxJobs, ManifestJobs, Bodies, States

\* The jobs of a flush: the chunks, and the manifest when there are any.
JobList(d, s) ==
    [i \in 1..Len(d) |-> ChunkJobOf(d[i])]
        \o (IF d = << >> THEN << >> ELSE <<ManifestJobOf(s)>>)
JobsAre(d, s, js) ==
    /\ js \in Seq(BoxJobs) /\ Len(js) = IF d = << >> THEN 0 ELSE Len(d) + 1
    /\ \A i \in 1..Len(d) : js[i] = ChunkJobOf(d[i])
    /\ d # << >> => js[Len(d) + 1] = ManifestJobOf(s)

LEMMA JobListIs ==
    ASSUME NEW d \in Seq(Chunks(Entry)), NEW s \in States
    PROVE  JobsAre(d, s, JobList(d, s))
<1> DEFINE g(i) == ChunkJobOf(d[i])
           N == Len(d)
           u == [i \in 1..N |-> g(i)]
           m == ManifestJobOf(s)
           v == IF d = << >> THEN << >> ELSE <<m>>
           w == u \o v
<1>1. N \in Nat /\ (d = << >> <=> N = 0) /\ \A i \in 1..N : d[i] \in Chunks(Entry)
  OBVIOUS
<1>2. \A i \in 1..N : g(i) \in BoxJobs
  BY <1>1, ChunkJobIs
<1>3. m \in BoxJobs
  BY ManifestJobIs
<1>4. w = JobList(d, s)
  BY DEF JobList
<1>j. \A i \in 1..N : g(i) = ChunkJobOf(d[i])
  OBVIOUS
<1> HIDE DEF g, N, m
<1>5. u \in Seq(BoxJobs) /\ Len(u) = N /\ \A i \in 1..N : u[i] = g(i)
  BY <1>1, <1>2
<1>6. v \in Seq(BoxJobs) /\ Len(v) = (IF d = << >> THEN 0 ELSE 1) /\ (d # << >> => v[1] = m)
  BY <1>3
<1>w. w = u \o v
  OBVIOUS
<1> HIDE DEF u, v, w
<1>7. /\ w \in Seq(BoxJobs) /\ Len(w) = Len(u) + Len(v)
      /\ \A i \in 1..Len(u) : w[i] = u[i]
      /\ \A i \in 1..Len(v) : w[Len(u) + i] = v[i]
  <2>1. u \in Seq(BoxJobs) /\ v \in Seq(BoxJobs)
    BY <1>5, <1>6
  <2> QED
    BY <2>1, <1>w, Joined
<1>8. Len(w) = IF d = << >> THEN 0 ELSE N + 1
  BY <1>1, <1>5, <1>6, <1>7
<1>9. \A i \in 1..N : w[i] = ChunkJobOf(d[i])
  BY <1>5, <1>7, <1>j
<1>10. d # << >> => w[N + 1] = m
  BY <1>1, <1>5, <1>6, <1>7
<1>11. JobsAre(d, s, w)
  BY <1>7, <1>8, <1>9, <1>10 DEF JobsAre, N, m
<1> QED
  BY <1>4, <1>11

\* One field of a state after the other.
WithChunks(s, x) == [s EXCEPT !.chunks = x]
WithCursor(s, x, y) == [s EXCEPT !.covered = x, !.nextSeq = y]
LEMMA StateFields ==
    ASSUME NEW c, NEW n, NEW ks, NEW s, s = StateOf(c, n, ks)
    PROVE  /\ \A x : WithChunks(s, x) = StateOf(c, n, x)
           /\ \A x, y : WithCursor(s, x, y) = StateOf(x, y, ks)
           /\ s.covered = c /\ s.nextSeq = n /\ s.chunks = ks
<1>1. s = [covered |-> c, nextSeq |-> n, chunks |-> ks]
  BY DEF StateOf
<1>2. ASSUME NEW x PROVE [s EXCEPT !.chunks = x] = [covered |-> c, nextSeq |-> n, chunks |-> x]
  BY <1>1
<1>3. ASSUME NEW x, NEW y
      PROVE  [s EXCEPT !.covered = x, !.nextSeq = y] = [covered |-> x, nextSeq |-> y, chunks |-> ks]
  <2> DEFINE q == [s EXCEPT !.covered = x]
  <2>1. q = [covered |-> x, nextSeq |-> n, chunks |-> ks]
    BY <1>1
  <2>2. [s EXCEPT !.covered = x, !.nextSeq = y] = [q EXCEPT !.nextSeq = y]
    BY <1>1
  <2> HIDE DEF q
  <2>3. [q EXCEPT !.nextSeq = y] = [covered |-> x, nextSeq |-> y, chunks |-> ks]
    BY <2>1
  <2> QED
    BY <2>2, <2>3 DEF q
<1> QED
  BY <1>1, <1>2, <1>3 DEF StateOf, WithChunks, WithCursor

\* The state and the jobs of a flush of f.
DraftsNow(f) == DraftsOf(entries, mem.nextSeq, f)
AfterFlush(f) ==
    StateOf(Cat(mem.covered, CoverOf(entries, f)), mem.nextSeq + Len(DraftsNow(f)),
            Cat(mem.chunks, DraftsNow(f)))
MemAt(f, k) ==
    IF k < Len(DraftsNow(f))
    THEN StateOf(mem.covered, mem.nextSeq, Cat(mem.chunks, SubSeq(DraftsNow(f), 1, k)))
    ELSE AfterFlush(f)

LEMMA FlushIs ==
    ASSUME mem \in States, NEW f \in Seq(Entry)
    PROVE  /\ Backup!FlushJobs(f) = JobList(DraftsNow(f), AfterFlush(f))
           /\ \A k : Backup!MemoryAt(f, k) = MemAt(f, k)
<1> DEFINE d == DraftsNow(f)
           c == CoverOf(entries, f)
<1>1. Backup!ToSet(f) = Elems(f)
  BY ToSetIs
<1>2. Backup!Drafts(f) = d
  <2> DEFINE S == {e \in Elems(f) : Backup!IsText(e)}
  <2>1. S = TextsOf(entries, f)
    BY DEF TextsOf, Backup!IsText
  <2>2. Backup!Within(f, S) = Within(f, TextsOf(entries, f))
    BY <2>1, BackupWithin
  <2> HIDE DEF S
  <2>3. Backup!ChunkEntries(Backup!Within(f, S)) = DrawnOf(entries, f)
    BY <2>2, ChunkEntriesIs DEF DrawnOf
  <2>4. Backup!Drafts(f) =
          LET contents == Backup!ChunkEntries(Backup!Within(f, S))
          IN  [i \in 1..Len(contents) |-> [seq |-> mem.nextSeq + i - 1, content |-> contents[i]]]
    BY <1>1 DEF Backup!Drafts, S
  <2> QED
    BY <2>3, <2>4 DEF DraftsOf, DraftsNow, Chunk
<1>3. Backup!CoveredNow(f) = c
  BY <1>1, BackupWithin DEF Backup!CoveredNow, CoverOf
<1> HIDE DEF d, c
<1>4. \A x : Backup!Recorded(mem, x) = StateOf(mem.covered, mem.nextSeq, Cat(mem.chunks, x))
  <2>1. mem = StateOf(mem.covered, mem.nextSeq, mem.chunks)
    BY DEF StateOf, States
  <2>2. \A x : WithChunks(mem, x) = StateOf(mem.covered, mem.nextSeq, x)
    BY <2>1, StateFields
  <2>3. \A x : Backup!Recorded(mem, x) = WithChunks(mem, mem.chunks \o x)
    BY DEF Backup!Recorded, WithChunks
  <2> QED
    BY <2>2, <2>3 DEF Cat
<1>5. Backup!Advanced(Backup!Recorded(mem, d), f, d) = AfterFlush(f)
  <2> DEFINE r == Backup!Recorded(mem, d)
  <2>1. r = StateOf(mem.covered, mem.nextSeq, Cat(mem.chunks, d))
    BY <1>4
  <2> HIDE DEF r
  <2>2. Backup!Advanced(r, f, d)
          = WithCursor(r, r.covered \o c, r.nextSeq + Len(d))
    BY <1>3 DEF Backup!Advanced, WithCursor
  <2>3. \A x, y : WithCursor(r, x, y) = StateOf(x, y, Cat(mem.chunks, d))
    BY <2>1, StateFields
  <2>4. r.covered = mem.covered /\ r.nextSeq = mem.nextSeq
    BY <2>1, StateFields
  <2>5. Backup!Advanced(r, f, d) = StateOf(r.covered \o c, r.nextSeq + Len(d), Cat(mem.chunks, d))
    BY <2>2, <2>3
  <2> QED
    BY <2>4, <2>5 DEF AfterFlush, Cat, d, c, r
<1>6. Backup!FlushJobs(f) = JobList(d, AfterFlush(f))
  BY <1>2, <1>5 DEF Backup!FlushJobs, JobList, Backup!ChunkJob, ChunkJobOf,
     Backup!ManifestJob, Backup!ManifestOf, ManifestJobOf, BodyOf
<1>7. ASSUME NEW k PROVE Backup!MemoryAt(f, k) = MemAt(f, k)
  BY <1>2, <1>4, <1>5 DEF Backup!MemoryAt, MemAt, d
<1> QED
  BY <1>6, <1>7 DEF d

-----------------------------------------------------------------------------
(***************************************************************************)
(* A flush, as far as it went.                                             *)
(***************************************************************************)

StateGood(s, n) == s \in States /\ Distinct(s.covered) /\ Elems(s.covered) \subseteq 1..n

\* Types, and what the numbers of entries refer to.
BType ==
    /\ entries \in Seq([kind : Backup!Kinds, parent : 0..MaxEntries])
    /\ Len(entries) <= MaxEntries /\ Tree(entries)
    /\ StateGood(mem, Len(entries)) /\ StateGood(state, Len(entries))
    /\ outbox \in Seq(BoxJobs)
    /\ stored \in [DOMAIN stored -> Seq(Entry)] /\ DOMAIN stored \subseteq Nat
    /\ manifest = {} \/ \E b \in Bodies : manifest = {b}
    /\ quarantined \subseteq ChunkJobs
    /\ failures \in 0..MaxBackupFaults
    /\ cut \in Seq(1..Len(entries))
    /\ moved \in BOOLEAN /\ thrown \in BOOLEAN /\ tampered \in BOOLEAN

LEMMA EntryIs ==
    ASSUME BType
    PROVE  /\ MaxEntries \in Nat /\ MaxBackupFaults \in Nat /\ Len(entries) \in Nat
           /\ \A R : \A s \in Seq(R) : R \subseteq Entry => s \in Seq(Entry)
           /\ 1..Len(entries) \subseteq Entry
<1>1. MaxEntries \in Nat /\ MaxBackupFaults \in Nat
  BY BackupAssumption DEF Backup!BoundsAssumption
<1>2. Len(entries) \in Nat
  BY DEF BType
<1>3. 1..Len(entries) \subseteq Entry
  BY <1>1, <1>2 DEF BType, Entry
<1>4. \A R : \A s \in Seq(R) : R \subseteq Entry => s \in Seq(Entry)
  OBVIOUS
<1> QED
  BY <1>1, <1>2, <1>3, <1>4

\* The entries a flush works on: a part of a view that nothing covers yet.
Rest(f) ==
    /\ f \in Seq(1..Len(entries)) /\ f # << >> /\ Distinct(f)
    /\ Elems(f) \cap Elems(mem.covered) = {} /\ Linked(entries, f, Elems(mem.covered))

\* The first k jobs of a flush are queued.
Queued(box, js, k, new) ==
    /\ k \in 0..Len(js)
    /\ new \in Seq(BoxJobs) /\ Len(new) = Len(box) + k
    /\ \A i \in 1..Len(box) : new[i] = box[i]
    /\ \A i \in 1..k : new[Len(box) + i] = js[i]

\* What a flush of f that went as far as its k-th job has made of the state.
Complete == mem' = state' /\ cut' = << >> /\ UNCHANGED <<failures, thrown>>
FlushStep(f, k) ==
    /\ Rest(f)
    /\ Queued(outbox, JobList(DraftsNow(f), AfterFlush(f)), k, outbox')
    /\ UNCHANGED <<entries, stored, manifest, quarantined, tampered>>
    /\ moved' = (moved \/ (cut # << >> /\ f # cut))
    /\ \/ /\ k = Len(JobList(DraftsNow(f), AfterFlush(f)))
          /\ mem' = MemAt(f, k) /\ Complete
       \/ /\ mem' = MemAt(f, k) /\ state' = state /\ cut' = f /\ thrown' = TRUE
          /\ failures < MaxBackupFaults /\ failures' = failures + 1
       \/ /\ mem' = state /\ state' = state /\ cut' = f /\ thrown' = thrown
          /\ failures < MaxBackupFaults /\ failures' = failures + 1

LEMMA FreshIs ==
    ASSUME BType, NEW view \in Backup!Deliveries, Backup!Fresh(view) # << >>
    PROVE  Rest(Backup!Fresh(view))
<1> DEFINE f == Backup!Fresh(view)
           C == Elems(mem.covered)
<1>1. Len(entries) \in Nat /\ Tree(entries) /\ mem.covered \in Seq(Entry)
  BY EntryIs DEF BType, StateGood, States
<1>2. View(entries, view)
  BY <1>1, DeliveriesAre
<1>3. view \in Seq(1..Len(entries))
  BY <1>2 DEF View
<1>4. Backup!ToSet(view) = Elems(view) /\ Backup!ToSet(mem.covered) = C
  BY <1>1, <1>3, ToSetIs
<1> DEFINE T == Elems(view) \ C
<1>5. f = Backup!Within(view, T)
  BY <1>4 DEF Backup!Fresh
<1> HIDE DEF f, C, T
<1>6. f = Within(view, T)
  BY <1>5, BackupWithin
<1>7. f = Within(view, Elems(view) \ C)
  BY <1>6 DEF T
<1>8. /\ f \in Seq(1..Len(entries)) /\ Distinct(f) /\ Elems(f) = Elems(view) \ C
      /\ Linked(entries, f, C)
  BY <1>2, <1>7, RestIs
<1>9. f # << >>
  BY DEF f
<1>10. Elems(f) \cap C = {}
  BY <1>8
<1> QED
  BY <1>8, <1>9, <1>10 DEF Rest, f, C

LEMMA RestTyped ==
    ASSUME BType, NEW f, Rest(f)
    PROVE  /\ f \in Seq(Entry) /\ mem \in States
           /\ DraftsNow(f) \in Seq(Chunks(Entry)) /\ CoverOf(entries, f) \in Seq(Entry)
           /\ AfterFlush(f) \in States
           /\ AfterFlush(f).covered = Cat(mem.covered, CoverOf(entries, f))
           /\ AfterFlush(f).nextSeq = mem.nextSeq + Len(DraftsNow(f))
           /\ AfterFlush(f).chunks = Cat(mem.chunks, DraftsNow(f))
<1>1. f \in Seq(Entry)
  <2>1. f \in Seq(1..Len(entries))
    BY DEF Rest
  <2> QED
    BY <2>1, EntryIs
<1>2. mem \in States
  BY DEF BType, StateGood
<1>3. mem.nextSeq \in Nat /\ mem.covered \in Seq(Entry) /\ mem.chunks \in Seq(Chunks(Entry))
  BY <1>2 DEF States
<1> DEFINE d == DraftsNow(f)
           c == CoverOf(entries, f)
           n == mem.nextSeq + Len(d)
           ca == Cat(mem.covered, c)
           ka == Cat(mem.chunks, d)
<1>4. d \in Seq(Chunks(Entry))
  <2>1. mem.nextSeq \in Nat
    BY <1>3
  <2> QED
    BY <1>1, <2>1, DraftsAre DEF DraftsNow
<1>5. c \in Seq(Entry)
  BY <1>1, CoverIs
<1>6. AfterFlush(f) = StateOf(ca, n, ka)
  BY DEF AfterFlush
<1> HIDE DEF d, c
<1>7. n \in Nat
  <2>1. Len(d) \in Nat
    BY <1>4
  <2> QED
    BY <1>3, <2>1
<1>8. ca \in Seq(Entry)
  <2>1. mem.covered \in Seq(Entry)
    BY <1>3
  <2> QED
    BY <1>5, <2>1, CatIs
<1>9. ka \in Seq(Chunks(Entry))
  <2>1. mem.chunks \in Seq(Chunks(Entry))
    BY <1>3
  <2> QED
    BY <1>4, <2>1, CatIs
<1> HIDE DEF n, ca, ka
<1>10. /\ AfterFlush(f) \in States /\ AfterFlush(f).covered = ca
       /\ AfterFlush(f).nextSeq = n /\ AfterFlush(f).chunks = ka
  BY <1>6, <1>7, <1>8, <1>9, StateOfIs
<1> QED
  BY <1>1, <1>2, <1>4, <1>5, <1>10 DEF d, c, n, ca, ka

LEMMA PrefixQueued ==
    ASSUME NEW box \in Seq(BoxJobs), NEW js \in Seq(BoxJobs), NEW k \in 0..Len(js),
           NEW new, new = box \o SubSeq(js, 1, k)
    PROVE  Queued(box, js, k, new)
<1> DEFINE u == SubSeq(js, 1, k)
<1>1. u \in Seq(BoxJobs) /\ Len(u) = k /\ \A i \in 1..k : u[i] = js[i]
  BY PrefixIs
<1>2. new = box \o u
  OBVIOUS
<1> HIDE DEF u
<1>u. u \in Seq(BoxJobs)
  BY <1>1
<1> DEFINE w == Cat(box, u)
<1>3. /\ w \in Seq(BoxJobs) /\ Len(w) = Len(box) + Len(u)
      /\ \A i \in 1..Len(box) : w[i] = box[i]
      /\ \A i \in 1..Len(u) : w[Len(box) + i] = u[i]
  <2>1. w \in Seq(BoxJobs) /\ Len(w) = Len(box) + Len(u)
    BY <1>u, CatIs
  <2>2. \A i \in 1..Len(box) : w[i] = box[i]
    BY <1>u, CatIs
  <2>3. \A i \in 1..Len(u) : w[Len(box) + i] = u[i]
    BY <1>u, CatIs
  <2> QED
    BY <2>1, <2>2, <2>3
<1>4. new = w
  BY <1>2 DEF Cat
<1> HIDE DEF w
<1> QED
  BY <1>1, <1>3, <1>4 DEF Queued

\* Each of the three ways a flush goes is such a step.
LEMMA CaptureIs ==
    ASSUME BType, NEW view \in Backup!Deliveries,
           Backup!Capture(view) \/ Backup!CaptureThrows(view) \/ Backup!CaptureDies(view)
    PROVE  \E f, k : FlushStep(f, k)
<1> DEFINE f == Backup!Fresh(view)
           js == JobList(DraftsNow(f), AfterFlush(f))
<1>1. f # << >>
  BY DEF Backup!Capture, Backup!CaptureThrows, Backup!CaptureDies
<1>2. Rest(f)
  BY <1>1, FreshIs
<1> HIDE DEF f
<1>3. f \in Seq(Entry) /\ mem \in States
  BY <1>2, RestTyped
<1>4. Backup!FlushJobs(f) = js /\ \A k : Backup!MemoryAt(f, k) = MemAt(f, k)
  BY <1>3, FlushIs
<1>5. js \in Seq(BoxJobs)
  <2> DEFINE d == DraftsNow(f)
             a == AfterFlush(f)
  <2>1. d \in Seq(Chunks(Entry)) /\ a \in States
    BY <1>2, RestTyped
  <2> HIDE DEF d, a
  <2>2. JobsAre(d, a, JobList(d, a))
    BY <2>1, JobListIs
  <2> QED
    BY <2>2 DEF JobsAre, d, a
<1>6. outbox \in Seq(BoxJobs) /\ Len(js) \in Nat
  BY <1>5 DEF BType
<1>7. CASE Backup!Capture(view)
  <2>1. /\ outbox' = outbox \o js /\ mem' = MemAt(f, Len(js)) /\ state' = mem'
        /\ moved' = (moved \/ (cut # << >> /\ f # cut)) /\ cut' = << >>
        /\ UNCHANGED <<entries, stored, manifest, quarantined, failures, thrown, tampered>>
    BY <1>4, <1>7 DEF Backup!Capture, Backup!Moves, Backup!remote, f
  <2> HIDE DEF js
  <2>2. SubSeq(js, 1, Len(js)) = js
    BY <1>5, PrefixWhole
  <2>3. outbox' = outbox \o SubSeq(js, 1, Len(js))
    BY <2>1, <2>2
  <2>4. Len(js) \in 0..Len(js)
    BY <1>6
  <2>5. Queued(outbox, js, Len(js), outbox')
    BY <1>5, <1>6, <2>3, <2>4, PrefixQueued
  <2>6. FlushStep(f, Len(js))
    BY <1>2, <2>1, <2>5 DEF FlushStep, Complete, js
  <2> QED
    BY <2>6
<1>8. CASE Backup!CaptureThrows(view)
  <2>1. PICK k \in 0..Len(js) : outbox' = outbox \o SubSeq(js, 1, k) /\ mem' = MemAt(f, k)
    BY <1>4, <1>8 DEF Backup!CaptureThrows, f
  <2>2. /\ moved' = (moved \/ (cut # << >> /\ f # cut)) /\ cut' = f /\ thrown' = TRUE
        /\ failures < MaxBackupFaults /\ failures' = failures + 1
        /\ UNCHANGED <<entries, state, stored, manifest, quarantined, tampered>>
    BY <1>8 DEF Backup!CaptureThrows, Backup!Moves, Backup!remote, Backup!Fault, f
  <2> HIDE DEF js
  <2>3. Queued(outbox, js, k, outbox')
    BY <1>5, <1>6, <2>1, PrefixQueued
  <2>4. FlushStep(f, k)
    BY <1>2, <2>1, <2>2, <2>3 DEF FlushStep, js
  <2> QED
    BY <2>4
<1>9. CASE Backup!CaptureDies(view)
  <2>1. PICK k \in 0..Len(js) : outbox' = outbox \o SubSeq(js, 1, k)
    BY <1>4, <1>9 DEF Backup!CaptureDies, f
  <2>2. /\ moved' = (moved \/ (cut # << >> /\ f # cut)) /\ cut' = f
        /\ mem' = state /\ failures < MaxBackupFaults /\ failures' = failures + 1
        /\ UNCHANGED <<entries, state, stored, manifest, quarantined, thrown, tampered>>
    BY <1>9 DEF Backup!CaptureDies, Backup!Moves, Backup!remote, Backup!Fault, f
  <2> HIDE DEF js
  <2>3. Queued(outbox, js, k, outbox')
    BY <1>5, <1>6, <2>1, PrefixQueued
  <2>4. FlushStep(f, k)
    BY <1>2, <2>1, <2>2, <2>3 DEF FlushStep, js
  <2> QED
    BY <2>4
<1> QED
  BY <1>7, <1>8, <1>9

LEMMA ElemsIn == ASSUME NEW R, NEW s \in Seq(R) PROVE Elems(s) \subseteq R
BY DEF Elems

Safe(e) ==
    \/ \E i \in 1..Len(outbox) : outbox[i].type = "chunk" /\ e \in Elems(outbox[i].content)
    \/ \E q \in DOMAIN stored : e \in Elems(stored[q])
    \/ \E j \in quarantined : e \in Elems(j.content)

\* An entry with text that counts as covered is in a chunk somewhere.
Somewhere ==
    ~tampered => \A e \in Elems(mem.covered) \cup Elems(state.covered) :
                    entries[e].kind \in {"text", "big"} => Safe(e)

LEMMA MemoryIs ==
    ASSUME BType, NEW f, NEW k \in Nat, Rest(f)
    PROVE  /\ StateGood(AfterFlush(f), Len(entries)) /\ StateGood(MemAt(f, k), Len(entries))
           /\ k >= Len(DraftsNow(f)) => MemAt(f, k) = AfterFlush(f)
           /\ k < Len(DraftsNow(f)) =>
                /\ MemAt(f, k).covered = mem.covered /\ MemAt(f, k).nextSeq = mem.nextSeq
                /\ MemAt(f, k).chunks = Cat(mem.chunks, SubSeq(DraftsNow(f), 1, k))
<1> DEFINE d == DraftsNow(f)
           a == AfterFlush(f)
           c == CoverOf(entries, f)
           m == MemAt(f, k)
           p == SubSeq(d, 1, k)
           ka == Cat(mem.chunks, p)
<1>1. /\ f \in Seq(Entry) /\ mem \in States /\ d \in Seq(Chunks(Entry)) /\ c \in Seq(Entry)
      /\ a \in States /\ a.covered = Cat(mem.covered, c)
  BY RestTyped
<1>2. /\ mem.covered \in Seq(Entry) /\ mem.nextSeq \in Nat /\ mem.chunks \in Seq(Chunks(Entry))
      /\ Distinct(mem.covered) /\ Elems(mem.covered) \subseteq 1..Len(entries)
  BY DEF BType, StateGood, States
<1>3. Elems(c) = {e \in Elems(f) : entries[e].kind # "held"} /\ (Distinct(f) => Distinct(c))
  <2>1. f \in Seq(Entry)
    BY <1>1
  <2>2. Elems(c) = {e \in Elems(f) : entries[e].kind # "held"}
    BY <2>1, CoverIs
  <2>3. Distinct(f) => Distinct(c)
    BY <2>1, CoverIs
  <2> QED
    BY <2>2, <2>3
<1>4. /\ Distinct(f) /\ Elems(f) \cap Elems(mem.covered) = {}
      /\ Elems(f) \subseteq 1..Len(entries)
  <2>1. f \in Seq(1..Len(entries))
    BY DEF Rest
  <2>2. Elems(f) \subseteq 1..Len(entries)
    BY <2>1, ElemsIn
  <2> QED
    BY <2>2 DEF Rest
<1>5. StateGood(a, Len(entries))
  <2> HIDE DEF a, c
  <2>1. c \in Seq(Entry) /\ mem.covered \in Seq(Entry)
    BY <1>1, <1>2
  <2>2. Elems(Cat(mem.covered, c)) = Elems(mem.covered) \cup Elems(c)
    BY <2>1, CatElems
  <2>3. Distinct(Cat(mem.covered, c)) <=>
            Distinct(mem.covered) /\ Distinct(c) /\ Elems(mem.covered) \cap Elems(c) = {}
    BY <2>1, CatDistinct
  <2>4. Elems(mem.covered) \cap Elems(c) = {}
    BY <1>3, <1>4
  <2>5. Elems(c) \subseteq 1..Len(entries)
    BY <1>3, <1>4
  <2>6. Distinct(a.covered)
    BY <1>1, <1>2, <1>3, <1>4, <2>3, <2>4
  <2>7. Elems(a.covered) \subseteq 1..Len(entries)
    BY <1>1, <1>2, <2>2, <2>5
  <2> QED
    BY <1>1, <2>6, <2>7 DEF StateGood
<1>6. Len(d) \in Nat
  <2> HIDE DEF d
  <2> QED
    BY <1>1
<1>7. CASE k >= Len(d)
  <2>1. m = a
    BY <1>6, <1>7 DEF MemAt
  <2> HIDE DEF m, a, d
  <2> QED
    BY <1>5, <1>6, <1>7, <2>1 DEF m, a, d
<1>8. CASE k < Len(d)
  <2>1. m = StateOf(mem.covered, mem.nextSeq, ka)
    BY <1>8 DEF MemAt
  <2>2. p \in Seq(Chunks(Entry))
    <3> HIDE DEF d
    <3>1. k \in 0..Len(d) /\ d \in Seq(Chunks(Entry))
      BY <1>1, <1>6, <1>8
    <3> QED
      BY <3>1, PrefixIs
  <2> HIDE DEF p
  <2>3. ka \in Seq(Chunks(Entry))
    <3>1. mem.chunks \in Seq(Chunks(Entry))
      BY <1>2
    <3> QED
      BY <2>2, <3>1, CatIs
  <2> HIDE DEF ka, m
  <2>4. m \in States /\ m.covered = mem.covered /\ m.nextSeq = mem.nextSeq /\ m.chunks = ka
    BY <1>2, <2>1, <2>3, StateOfIs
  <2>5. StateGood(m, Len(entries))
    BY <1>2, <2>4 DEF StateGood
  <2> HIDE DEF a, d
  <2> QED
    BY <1>5, <1>6, <1>8, <2>4, <2>5 DEF m, a, d, ka, p
<1> QED
  BY <1>6, <1>7, <1>8

\* What is queued: the drafts in their order, then the manifest.
LEMMA BoxGrows ==
    ASSUME BType, NEW f, NEW k, FlushStep(f, k)
    PROVE  /\ outbox' \in Seq(BoxJobs) /\ Len(outbox') = Len(outbox) + k
           /\ k \in Nat /\ Len(outbox) \in Nat /\ Len(DraftsNow(f)) \in Nat
           /\ \A i \in 1..Len(outbox) : outbox'[i] = outbox[i]
           /\ \A j \in 1..k : j <= Len(DraftsNow(f)) =>
                 outbox'[Len(outbox) + j] = ChunkJobOf(DraftsNow(f)[j])
           /\ \/ k <= Len(DraftsNow(f))
              \/ /\ k = Len(DraftsNow(f)) + 1 /\ DraftsNow(f) # << >>
                 /\ outbox'[Len(outbox) + k] = ManifestJobOf(AfterFlush(f))
           /\ Complete => /\ DraftsNow(f) # << >> => k = Len(DraftsNow(f)) + 1
                          /\ DraftsNow(f) = << >> => k = 0
<1> DEFINE d == DraftsNow(f)
           a == AfterFlush(f)
           js == JobList(d, a)
<1>1. Rest(f) /\ Queued(outbox, js, k, outbox')
  BY DEF FlushStep
<1>2. d \in Seq(Chunks(Entry)) /\ a \in States
  BY <1>1, RestTyped
<1>c. Complete => k = Len(js)
  BY DEF FlushStep, Complete, Rest
<1> HIDE DEF d, a, js
<1>3. JobsAre(d, a, js)
  BY <1>2, JobListIs DEF js
<1>4. /\ js \in Seq(BoxJobs) /\ Len(js) = (IF d = << >> THEN 0 ELSE Len(d) + 1)
      /\ \A i \in 1..Len(d) : js[i] = ChunkJobOf(d[i])
      /\ d # << >> => js[Len(d) + 1] = ManifestJobOf(a)
  BY <1>3 DEF JobsAre
<1>5. Len(d) \in Nat /\ (d = << >> <=> Len(d) = 0) /\ Len(outbox) \in Nat
  BY <1>2 DEF BType
<1>6. /\ k \in 0..Len(js)
      /\ outbox' \in Seq(BoxJobs) /\ Len(outbox') = Len(outbox) + k
      /\ \A i \in 1..Len(outbox) : outbox'[i] = outbox[i]
      /\ \A i \in 1..k : outbox'[Len(outbox) + i] = js[i]
  BY <1>1 DEF Queued
<1>7. k \in Nat
  BY <1>4, <1>5, <1>6
<1>8. ASSUME NEW j \in 1..k, j <= Len(d) PROVE outbox'[Len(outbox) + j] = ChunkJobOf(d[j])
  BY <1>4, <1>6, <1>8
<1>9. \/ k <= Len(d)
      \/ k = Len(d) + 1 /\ d # << >> /\ outbox'[Len(outbox) + k] = ManifestJobOf(a)
  <2> SUFFICES ASSUME k > Len(d)
               PROVE  k = Len(d) + 1 /\ d # << >> /\ outbox'[Len(outbox) + k] = ManifestJobOf(a)
    BY <1>5, <1>7
  <2>1. k = Len(d) + 1 /\ d # << >> /\ k \in 1..k
    BY <1>4, <1>5, <1>6
  <2> QED
    BY <1>4, <1>6, <2>1
<1>10. Complete => (d # << >> => k = Len(d) + 1) /\ (d = << >> => k = 0)
  BY <1>4, <1>c
<1> QED
  BY <1>5, <1>6, <1>7, <1>8, <1>9, <1>10 DEF d, a

-----------------------------------------------------------------------------
(***************************************************************************)
(* The types.                                                              *)
(***************************************************************************)

LEMMA SeqWider ==
    ASSUME NEW R1, NEW R2, R1 \subseteq R2, NEW s \in Seq(R1)
    PROVE  s \in Seq(R2)
OBVIOUS

LEMMA FlushTypes ==
    ASSUME BType, NEW f, NEW k, FlushStep(f, k)
    PROVE  BType'
<1>1. Rest(f) /\ k \in Nat
  BY BoxGrows DEF FlushStep
<1>2. StateGood(AfterFlush(f), Len(entries)) /\ StateGood(MemAt(f, k), Len(entries))
  BY <1>1, MemoryIs
<1>3. UNCHANGED <<entries, stored, manifest, quarantined, tampered>>
  BY DEF FlushStep
<1>4. mem' \in {MemAt(f, k), state} /\ state' \in {MemAt(f, k), state}
  BY DEF FlushStep, Complete
<1>5. StateGood(mem', Len(entries)) /\ StateGood(state', Len(entries))
  BY <1>2, <1>4 DEF BType
<1>6. outbox' \in Seq(BoxJobs)
  BY BoxGrows
<1>7. cut' \in Seq(1..Len(entries))
  <2>1. f \in Seq(1..Len(entries)) /\ << >> \in Seq(1..Len(entries))
    BY <1>1 DEF Rest
  <2>2. cut' = f \/ cut' = << >>
    BY DEF FlushStep, Complete
  <2> QED
    BY <2>1, <2>2
<1>8. failures' \in 0..MaxBackupFaults
  BY EntryIs DEF FlushStep, Complete, BType
<1>9. moved' \in BOOLEAN
  BY DEF FlushStep, BType
<1>10. thrown' \in BOOLEAN
  BY DEF FlushStep, Complete, BType
<1> QED
  BY <1>3, <1>5, <1>6, <1>7, <1>8, <1>9, <1>10 DEF BType

LEMMA AppendTypes ==
    ASSUME BType, NEW kind \in Backup!Kinds, NEW parent \in 0..Len(entries),
           Backup!AppendEntry(kind, parent)
    PROVE  /\ BType' /\ Len(entries') = Len(entries) + 1
           /\ \A e \in 1..Len(entries) : entries'[e] = entries[e]
           /\ UNCHANGED <<mem, state, outbox, stored, manifest, quarantined, cut, moved,
                          thrown, tampered>>
<1> DEFINE N == Len(entries)
           R == [kind : Backup!Kinds, parent : 0..MaxEntries]
           x == [kind |-> kind, parent |-> parent]
<1>1. entries' = Append(entries, x) /\ N < MaxEntries
  BY DEF Backup!AppendEntry
<1>2. UNCHANGED <<mem, state, outbox, stored, manifest, quarantined, failures, cut, moved,
                  thrown, tampered>>
  BY DEF Backup!AppendEntry, Backup!remote, Backup!ghosts
<1>3. N \in Nat /\ MaxEntries \in Nat
  BY EntryIs
<1>4. x \in R /\ x.parent = parent
  BY <1>1, <1>3
<1> HIDE DEF x, R
<1>5. entries \in Seq(R)
  BY DEF BType, R
<1>6. entries' \in Seq(R) /\ Len(entries') = N + 1 /\ entries'[N + 1] = x
  BY <1>1, <1>4, <1>5
<1>7. \A e \in 1..N : entries'[e] = entries[e]
  BY <1>1, <1>5
<1>8. Tree(entries')
  <2> SUFFICES ASSUME NEW e \in 1..(N + 1) PROVE entries'[e].parent \in 0..(e - 1)
    BY <1>6 DEF Tree
  <2>1. CASE e = N + 1
    BY <1>3, <1>4, <1>6, <2>1
  <2>2. CASE e # N + 1
    <3>1. e \in 1..N
      BY <1>3, <2>2
    <3> QED
      BY <1>7, <3>1 DEF BType, Tree
  <2> QED
    BY <2>1, <2>2
<1>9. Len(entries') <= MaxEntries
  BY <1>1, <1>3, <1>6
<1>10. 1..N \subseteq 1..(N + 1)
  BY <1>3
<1>11. StateGood(mem, N + 1) /\ StateGood(state, N + 1)
  BY <1>10 DEF BType, StateGood
<1>12. cut \in Seq(1..(N + 1))
  <2>1. cut \in Seq(1..N)
    BY DEF BType
  <2> DEFINE R1 == 1..N
             R2 == 1..(N + 1)
  <2>2. cut \in Seq(R1) /\ R1 \subseteq R2
    BY <1>10, <2>1
  <2> HIDE DEF R1, R2
  <2>3. cut \in Seq(R2)
    BY <2>2, SeqWider
  <2> QED
    BY <2>3 DEF R2
<1>13. BType'
  BY <1>2, <1>6, <1>8, <1>9, <1>11, <1>12 DEF BType, R
<1> QED
  BY <1>2, <1>6, <1>7, <1>13

LEMMA EmptyIs == \A n : StateGood(Backup!EmptyState, n) /\ Backup!EmptyState = StateOf(<< >>, 0, << >>)
<1> DEFINE o == << >>
           s == Backup!EmptyState
<1>1. s = StateOf(o, 0, o)
  BY DEF Backup!EmptyState, StateOf
<1>2. o \in Seq(Entry) /\ o \in Seq(Chunks(Entry)) /\ Elems(o) = {} /\ Distinct(o)
  BY DEF Elems, Distinct
<1> HIDE DEF o
<1>3. StateOf(o, 0, o) \in States /\ StateOf(o, 0, o).covered = o
  <2>1. o \in Seq(Entry) /\ o \in Seq(Chunks(Entry)) /\ 0 \in Nat
    BY <1>2
  <2>2. StateOf(o, 0, o) \in States
    BY <2>1, StateOfIs
  <2>3. StateOf(o, 0, o).covered = o
    BY <2>1, StateOfIs
  <2> QED
    BY <2>2, <2>3
<1> HIDE DEF s
<1> QED
  BY <1>1, <1>2, <1>3 DEF StateGood, s, o

LEMMA RestartTypes ==
    ASSUME BType, Backup!Restart
    PROVE  /\ BType'
           /\ UNCHANGED <<entries, outbox, stored, manifest, quarantined, cut, thrown, tampered>>
           /\ \/ mem' = state /\ mem # state /\ UNCHANGED <<state, moved>>
              \/ mem' = Backup!EmptyState /\ state' = Backup!EmptyState /\ moved' = TRUE
<1>1. UNCHANGED <<entries, outbox, stored, manifest, quarantined, cut, thrown, tampered>>
  BY DEF Backup!Restart, Backup!remote
<1>2. \/ mem' = state /\ mem # state /\ UNCHANGED <<state, moved>>
      \/ mem' = Backup!EmptyState /\ state' = Backup!EmptyState /\ moved' = TRUE
  BY DEF Backup!Restart
<1>3. StateGood(mem', Len(entries)) /\ StateGood(state', Len(entries))
  <2>1. StateGood(Backup!EmptyState, Len(entries))
    BY EmptyIs
  <2> QED
    BY <1>2, <2>1 DEF BType
<1>4. failures' \in 0..MaxBackupFaults
  BY EntryIs DEF Backup!Restart, Backup!Fault, BType
<1>5. moved' \in BOOLEAN
  BY <1>2 DEF BType
<1> QED
  BY <1>1, <1>2, <1>3, <1>4, <1>5 DEF BType

\* A chunk that is stored.
PutAt(kept, q, c) == [x \in DOMAIN kept \cup {q} |-> IF x = q THEN c ELSE kept[x]]

LEMMA PutAtIs ==
    ASSUME NEW kept, NEW q, NEW c
    PROVE  /\ DOMAIN PutAt(kept, q, c) = DOMAIN kept \cup {q}
           /\ PutAt(kept, q, c)[q] = c
           /\ \A x \in DOMAIN kept : x # q => PutAt(kept, q, c)[x] = kept[x]
           /\ \A S : kept \in [DOMAIN kept -> S] /\ c \in S =>
                        PutAt(kept, q, c) \in [DOMAIN kept \cup {q} -> S]
BY DEF PutAt

\* What the delivery of the oldest job does.
Taken(job) ==
    \/ /\ job.type = "manifest" /\ manifest' = {job.body}
       /\ UNCHANGED <<stored, quarantined>>
    \/ /\ job.type = "chunk" /\ job.seq \notin DOMAIN stored
       /\ stored' = PutAt(stored, job.seq, job.content)
       /\ UNCHANGED <<manifest, quarantined>>
    \/ /\ job.type = "chunk" /\ job.seq \in DOMAIN stored /\ stored[job.seq] = job.content
       /\ UNCHANGED <<stored, manifest, quarantined>>
    \/ /\ job.type = "chunk" /\ job.seq \in DOMAIN stored /\ stored[job.seq] # job.content
       /\ quarantined' = quarantined \cup {job}
       /\ UNCHANGED <<stored, manifest>>

LEMMA DeliverIs ==
    ASSUME BType, Backup!Deliver
    PROVE  /\ outbox # << >> /\ Taken(outbox[1]) /\ outbox[1] \in BoxJobs
           /\ outbox' = outbox \/ outbox' = Tail(outbox)
           /\ UNCHANGED <<entries, mem, state, cut, moved, thrown, tampered>>
           /\ failures' \in 0..MaxBackupFaults
<1>1. outbox # << >> /\ Backup!Store(Head(outbox))
  BY DEF Backup!Deliver
<1>2. Head(outbox) = outbox[1] /\ outbox[1] \in BoxJobs
  BY <1>1 DEF BType
<1> DEFINE job == outbox[1]
<1>3. Backup!Store(job)
  BY <1>1, <1>2
<1> HIDE DEF job
<1>4. Taken(job)
  <2>1. CASE job.type = "manifest" /\ manifest' = {job.body} /\ UNCHANGED <<stored, quarantined>>
    BY <2>1 DEF Taken
  <2>2. CASE /\ job.type = "chunk" /\ job.seq \notin DOMAIN stored
             /\ stored' = PutAt(stored, job.seq, job.content)
             /\ UNCHANGED <<manifest, quarantined>>
    BY <2>2 DEF Taken
  <2>3. CASE /\ job.type = "chunk" /\ job.seq \in DOMAIN stored
             /\ quarantined' = quarantined
                   \cup (IF stored[job.seq] = job.content THEN {} ELSE {job})
             /\ UNCHANGED <<stored, manifest>>
    BY <2>3 DEF Taken
  <2> QED
    BY <1>3, <2>1, <2>2, <2>3 DEF Backup!Store, PutAt
<1>5. outbox' = outbox \/ outbox' = Tail(outbox)
  BY DEF Backup!Deliver
<1>6. UNCHANGED <<entries, mem, state, cut, moved, thrown, tampered>>
  BY DEF Backup!Deliver, Backup!ghosts
<1>7. failures' \in 0..MaxBackupFaults
  BY EntryIs DEF Backup!Deliver, Backup!Fault, BType
<1> QED
  BY <1>1, <1>2, <1>4, <1>5, <1>6, <1>7 DEF job

LEMMA BoxJobIs ==
    ASSUME NEW job \in BoxJobs
    PROVE  /\ job.type = "chunk" => job \in ChunkJobs /\ job.seq \in Nat /\ job.content \in Seq(Entry)
           /\ job.type = "manifest" => job.body \in Bodies
           /\ job.type \in {"chunk", "manifest"}
BY DEF BoxJobs, ChunkJobs, ManifestJobs

LEMMA DeliverTypes ==
    ASSUME BType, Backup!Deliver
    PROVE  BType'
<1>1. /\ outbox # << >> /\ Taken(outbox[1]) /\ outbox[1] \in BoxJobs
      /\ outbox' = outbox \/ outbox' = Tail(outbox)
      /\ UNCHANGED <<entries, mem, state, cut, moved, thrown, tampered>>
      /\ failures' \in 0..MaxBackupFaults
  BY DeliverIs
<1> DEFINE job == outbox[1]
<1>2. job \in BoxJobs /\ Taken(job)
  BY <1>1
<1> HIDE DEF job
<1>3. /\ job.type = "chunk" => job \in ChunkJobs /\ job.seq \in Nat /\ job.content \in Seq(Entry)
      /\ job.type = "manifest" => job.body \in Bodies
  BY <1>2, BoxJobIs
<1>4. outbox' \in Seq(BoxJobs)
  <2>1. outbox \in Seq(BoxJobs) /\ outbox # << >>
    BY <1>1 DEF BType
  <2>2. Tail(outbox) \in Seq(BoxJobs)
    BY <2>1, TailOf
  <2> QED
    BY <1>1, <2>1, <2>2
<1>5. manifest' = {} \/ \E b \in Bodies : manifest' = {b}
  BY <1>2, <1>3 DEF Taken, BType
<1>6. quarantined' \subseteq ChunkJobs
  BY <1>2, <1>3 DEF Taken, BType
<1>7. stored' \in [DOMAIN stored' -> Seq(Entry)] /\ DOMAIN stored' \subseteq Nat
  <2>1. CASE UNCHANGED stored
    BY <2>1 DEF BType
  <2>2. CASE job.type = "chunk" /\ stored' = PutAt(stored, job.seq, job.content)
    <3>1. DOMAIN stored' = DOMAIN stored \cup {job.seq}
      BY <2>2 DEF PutAt
    <3>2. stored' \in [DOMAIN stored \cup {job.seq} -> Seq(Entry)]
      BY <1>3, <2>2, PutAtIs DEF BType
    <3> QED
      BY <1>3, <2>2, <3>1, <3>2 DEF BType
  <2> QED
    BY <1>2, <2>1, <2>2 DEF Taken
<1> QED
  BY <1>1, <1>4, <1>5, <1>6, <1>7 DEF BType

LEMMA TamperTypes ==
    ASSUME BType, NEW q, Backup!Tamper(q)
    PROVE  /\ BType' /\ tampered' = TRUE
           /\ UNCHANGED <<entries, mem, state, outbox, manifest, quarantined, cut, moved, thrown>>
<1>1. /\ q \in DOMAIN stored /\ tampered' = TRUE
      /\ UNCHANGED <<entries, mem, state, outbox, manifest, quarantined, cut, moved, thrown>>
  BY DEF Backup!Tamper
<1>2. failures' \in 0..MaxBackupFaults
  BY EntryIs DEF Backup!Tamper, Backup!Fault, BType
<1>3. stored' \in [DOMAIN stored' -> Seq(Entry)] /\ DOMAIN stored' \subseteq Nat
  <2>1. CASE stored' = [p \in DOMAIN stored \ {q} |-> stored[p]]
    BY <2>1 DEF BType
  <2>2. CASE \E p \in DOMAIN stored : stored' = [stored EXCEPT ![q] = stored[p]]
    BY <1>1, <2>2 DEF BType
  <2> QED
    BY <2>1, <2>2 DEF Backup!Tamper
<1> QED
  BY <1>1, <1>2, <1>3 DEF BType

-----------------------------------------------------------------------------
(***************************************************************************)
(* Nothing that counts as covered is lost.                                 *)
(***************************************************************************)

LEMMA FlushSomewhere ==
    ASSUME BType, Somewhere, NEW f, NEW k, FlushStep(f, k)
    PROVE  Somewhere'
<1> DEFINE d == DraftsNow(f)
           a == AfterFlush(f)
           m == MemAt(f, k)
           c == CoverOf(entries, f)
           L == Len(outbox)
<1>1. /\ Len(outbox') = L + k /\ k \in Nat /\ L \in Nat /\ Len(d) \in Nat
      /\ \A i \in 1..L : outbox'[i] = outbox[i]
      /\ \A j \in 1..k : j <= Len(d) => outbox'[L + j] = ChunkJobOf(d[j])
  BY BoxGrows
<1>2. Rest(f) /\ UNCHANGED <<entries, stored, quarantined, tampered>>
  BY DEF FlushStep
<1>3. mem' \in {m, state} /\ state' \in {m, state}
  BY DEF FlushStep, Complete
<1>4. ASSUME NEW e, Safe(e) PROVE Safe(e)'
  <2>1. \A i \in 1..L : i \in 1..Len(outbox')
    BY <1>1
  <2> QED
    BY <1>1, <1>2, <1>4, <2>1 DEF Safe
<1>5. /\ k >= Len(d) => m = a
      /\ k < Len(d) => m.covered = mem.covered
  BY <1>1, <1>2, MemoryIs
<1>6. ASSUME k >= Len(d), NEW e \in Elems(c), entries[e].kind \in {"text", "big"} PROVE Safe(e)'
  <2>1. f \in Seq(Entry) /\ d \in Seq(Chunks(Entry)) /\ mem.nextSeq \in Nat
    BY <1>2, RestTyped DEF States
  <2>f. f \in Seq(Entry)
    BY <2>1
  <2>2. Elems(c) = {x \in Elems(f) : entries[x].kind # "held"}
    BY <2>f, CoverIs
  <2>3. e \in TextsOf(entries, f)
    BY <1>6, <2>2 DEF TextsOf
  <2>4. PICK i \in 1..Len(DrawnOf(entries, f)) : e \in Elems(DrawnOf(entries, f)[i])
    BY <2>f, <2>3, DrawnIs
  <2>5. Len(d) = Len(DrawnOf(entries, f)) /\ d[i].content = DrawnOf(entries, f)[i]
    BY <2>f, <2>1, DraftsAre DEF DraftsNow
  <2> HIDE DEF d, c
  <2>6. i \in 1..Len(d) /\ d[i] \in Chunks(Entry) /\ e \in Elems(d[i].content)
    BY <2>1, <2>4, <2>5
  <2>7. outbox'[L + i] = ChunkJobOf(d[i]) /\ L + i \in 1..Len(outbox')
    <3>1. Len(d) \in Nat /\ i \in 1..k /\ i <= Len(d)
      BY <1>1, <1>6, <2>6
    <3>2. outbox'[L + i] = ChunkJobOf(d[i])
      BY <1>1, <3>1
    <3>3. L + i \in 1..(L + k)
      BY <1>1, <3>1
    <3> QED
      BY <1>1, <3>2, <3>3
  <2>8. ChunkJobOf(d[i]).type = "chunk" /\ ChunkJobOf(d[i]).content = d[i].content
    BY <2>6, ChunkJobIs
  <2>9. outbox'[L + i].type = "chunk" /\ e \in Elems(outbox'[L + i].content)
    BY <2>6, <2>7, <2>8
  <2> QED
    BY <2>7, <2>9 DEF Safe
<1>7. a.covered = Cat(mem.covered, c) /\ mem.covered \in Seq(Entry) /\ c \in Seq(Entry)
  BY <1>2, RestTyped DEF States
<1>8. Elems(a.covered) = Elems(mem.covered) \cup Elems(c)
  <2>1. mem.covered \in Seq(Entry) /\ c \in Seq(Entry)
    BY <1>7
  <2>2. Elems(Cat(mem.covered, c)) = Elems(mem.covered) \cup Elems(c)
    BY <2>1, CatElems
  <2> QED
    BY <1>7, <2>2
<1> HIDE DEF m, a, d, c
<1>9. ASSUME ~ tampered, NEW e \in Elems(mem'.covered) \cup Elems(state'.covered),
             entries[e].kind \in {"text", "big"}
      PROVE  Safe(e)'
  <2>1. e \in Elems(mem.covered) \cup Elems(state.covered) \/ (k >= Len(d) /\ e \in Elems(c))
    BY <1>1, <1>3, <1>5, <1>8, <1>9
  <2> QED
    BY <1>4, <1>6, <1>9, <2>1 DEF Somewhere
<1> QED
  BY <1>2, <1>9 DEF Somewhere

LEMMA AppendSomewhere ==
    ASSUME BType, Somewhere, Len(entries') = Len(entries) + 1,
           \A e \in 1..Len(entries) : entries'[e] = entries[e],
           UNCHANGED <<mem, state, outbox, stored, quarantined, tampered>>
    PROVE  Somewhere'
<1>1. \A e \in Elems(mem.covered) \cup Elems(state.covered) : e \in 1..Len(entries)
  BY DEF BType, StateGood
<1>2. ASSUME NEW e PROVE Safe(e)' <=> Safe(e)
  BY DEF Safe
<1> QED
  BY <1>1, <1>2 DEF Somewhere

LEMMA RestartSomewhere ==
    ASSUME BType, Somewhere, Backup!Restart
    PROVE  Somewhere'
<1>1. /\ UNCHANGED <<entries, outbox, stored, quarantined, tampered>>
      /\ \/ mem' = state /\ UNCHANGED state
         \/ mem' = Backup!EmptyState /\ state' = Backup!EmptyState
  BY RestartTypes
<1>2. Elems(Backup!EmptyState.covered) = {}
  BY DEF Backup!EmptyState, Elems
<1>3. ASSUME NEW e PROVE Safe(e)' <=> Safe(e)
  BY <1>1 DEF Safe
<1> QED
  BY <1>1, <1>2, <1>3 DEF Somewhere

\* The members of the tail are the members but the first.
LEMMA TailIs ==
    ASSUME NEW R, NEW s \in Seq(R), s # << >>
    PROVE  /\ Len(s) \in Nat /\ Tail(s) \in Seq(R) /\ Len(Tail(s)) = Len(s) - 1
           /\ \A i \in 1..Len(Tail(s)) : Tail(s)[i] = s[i + 1] /\ i + 1 \in 1..Len(s)
           /\ \A i \in 1..Len(s) : i # 1 => i - 1 \in 1..Len(Tail(s)) /\ Tail(s)[i - 1] = s[i]
<1>1. Tail(s) \in Seq(R) /\ Len(Tail(s)) = Len(s) - 1 /\ Len(s) \in Nat
  OBVIOUS
<1>2. \A i \in 1..Len(Tail(s)) : Tail(s)[i] = s[i + 1]
  OBVIOUS
<1>3. ASSUME NEW i \in 1..Len(s), i # 1
      PROVE  i - 1 \in 1..Len(Tail(s)) /\ Tail(s)[i - 1] = s[i]
  BY <1>1, <1>2, <1>3
<1>4. \A i \in 1..Len(Tail(s)) : i + 1 \in 1..Len(s)
  BY <1>1
<1> QED
  BY <1>1, <1>2, <1>3, <1>4

LEMMA DeliverSomewhere ==
    ASSUME BType, Somewhere, Backup!Deliver
    PROVE  Somewhere'
<1> DEFINE job == outbox[1]
<1>1. /\ outbox # << >> /\ Taken(job)
      /\ outbox' = outbox \/ outbox' = Tail(outbox)
      /\ UNCHANGED <<entries, mem, state, tampered>>
  BY DeliverIs
<1>2. outbox \in Seq(BoxJobs)
  BY DEF BType
<1>3. \A i \in 1..Len(outbox) : i = 1 \/ \E k \in 1..Len(outbox') : outbox'[k] = outbox[i]
  <2>1. CASE outbox' = outbox
    BY <2>1
  <2>2. CASE outbox' = Tail(outbox)
    BY <1>1, <1>2, <2>2, TailIs
  <2> QED
    BY <1>1, <2>1, <2>2
<1> HIDE DEF job
<1>4. \A q \in DOMAIN stored : q \in DOMAIN stored' /\ stored'[q] = stored[q]
  <2>1. CASE job.seq \notin DOMAIN stored /\ stored' = PutAt(stored, job.seq, job.content)
    BY <2>1 DEF PutAt
  <2>2. CASE UNCHANGED stored
    BY <2>2
  <2> QED
    BY <1>1, <2>1, <2>2 DEF Taken
<1>5. quarantined \subseteq quarantined'
  BY <1>1 DEF Taken
<1>6. job.type = "chunk" => \/ \E q \in DOMAIN stored' : stored'[q] = job.content
                            \/ job \in quarantined'
  <2>1. CASE job.seq \notin DOMAIN stored /\ stored' = PutAt(stored, job.seq, job.content)
    <3>1. job.seq \in DOMAIN stored' /\ stored'[job.seq] = job.content
      BY <2>1 DEF PutAt
    <3> QED
      BY <3>1
  <2>2. CASE job.seq \in DOMAIN stored /\ stored[job.seq] = job.content
    BY <1>4, <2>2
  <2>3. CASE job \in quarantined'
    BY <2>3
  <2> QED
    BY <1>1, <2>1, <2>2, <2>3 DEF Taken
<1>7. ASSUME NEW e, Safe(e) PROVE Safe(e)'
  <2>1. CASE \E i \in 1..Len(outbox) : outbox[i].type = "chunk" /\ e \in Elems(outbox[i].content)
    <3>1. PICK i \in 1..Len(outbox) : outbox[i].type = "chunk" /\ e \in Elems(outbox[i].content)
      BY <2>1
    <3>2. CASE i = 1
      <4>1. job.type = "chunk" /\ e \in Elems(job.content)
        BY <3>1, <3>2 DEF job
      <4> QED
        BY <1>6, <4>1 DEF Safe
    <3>3. CASE i # 1
      BY <1>3, <3>1, <3>3 DEF Safe
    <3> QED
      BY <3>2, <3>3
  <2>2. CASE \E q \in DOMAIN stored : e \in Elems(stored[q])
    BY <1>4, <2>2 DEF Safe
  <2>3. CASE \E j \in quarantined : e \in Elems(j.content)
    BY <1>5, <2>3 DEF Safe
  <2> QED
    BY <1>7, <2>1, <2>2, <2>3 DEF Safe
<1> QED
  BY <1>1, <1>7 DEF Somewhere

\* What Backup says of it.
LEMMA SomewhereIs == BType /\ Somewhere => Backup!CoveredIsSomewhere
<1> SUFFICES ASSUME BType, Somewhere PROVE Backup!CoveredIsSomewhere
  OBVIOUS
<1>1. Backup!ToSet(mem.covered) = Elems(mem.covered) /\ Backup!ToSet(state.covered) = Elems(state.covered)
  <2>1. mem.covered \in Seq(Entry) /\ state.covered \in Seq(Entry)
    BY DEF BType, StateGood, States
  <2> QED
    BY <2>1, ToSetIs
<1>2. outbox \in Seq(BoxJobs) /\ stored \in [DOMAIN stored -> Seq(Entry)] /\ quarantined \subseteq ChunkJobs
  BY DEF BType
<1>3. ASSUME NEW e, NEW i \in 1..Len(outbox), outbox[i].type = "chunk", e \in Elems(outbox[i].content)
      PROVE  e \in Backup!InQueue
  <2>1. outbox[i] \in Backup!ToSet(outbox)
    <3>1. Backup!ToSet(outbox) = Elems(outbox)
      BY <1>2, ToSetIs
    <3> QED
      BY <3>1 DEF Elems
  <2>2. outbox[i] \in BoxJobs
    BY <1>2
  <2>3. outbox[i].content \in Seq(Entry)
    BY <1>3, <2>2, BoxJobIs
  <2>4. e \in Backup!ToSet(outbox[i].content)
    BY <1>3, <2>3, ToSetIs
  <2> QED
    BY <1>3, <2>1, <2>4 DEF Backup!InQueue
<1>4. ASSUME NEW e, NEW q \in DOMAIN stored, e \in Elems(stored[q]) PROVE e \in Backup!InStore
  <2>1. stored[q] \in Seq(Entry)
    BY <1>2
  <2>2. e \in Backup!ToSet(stored[q])
    BY <1>4, <2>1, ToSetIs
  <2> QED
    BY <2>2 DEF Backup!InStore
<1>5. ASSUME NEW e, NEW j \in quarantined, e \in Elems(j.content) PROVE e \in Backup!Refused
  <2>1. j.content \in Seq(Entry)
    BY <1>2 DEF ChunkJobs
  <2>2. e \in Backup!ToSet(j.content)
    BY <1>5, <2>1, ToSetIs
  <2> QED
    BY <2>2 DEF Backup!Refused
<1>6. \A e : Safe(e) => e \in Backup!InQueue \cup Backup!InStore \cup Backup!Refused
  BY <1>3, <1>4, <1>5 DEF Safe
<1> QED
  BY <1>1, <1>6 DEF Backup!CoveredIsSomewhere, Somewhere, Backup!IsText

-----------------------------------------------------------------------------
(***************************************************************************)
(* What a manifest declares.                                               *)
(***************************************************************************)

Clash(cs) == \E i, j \in 1..Len(cs) : i # j /\ cs[i].seq = cs[j].seq
Filled(cs) == \A i \in 1..Len(cs) : cs[i].content # << >>
Covers1(cs, c) == \A i \in 1..Len(cs) : Elems(cs[i].content) \subseteq Elems(c)

\* Chunks below the cursor are of covered entries; those that a flush that threw
\* has left behind begin at the cursor, where the next chunk meets them.
Sorted(s) ==
    /\ Filled(s.chunks)
    /\ \/ Clash(s.chunks)
       \/ /\ \A i \in 1..Len(s.chunks) :
               s.chunks[i].seq < s.nextSeq => Elems(s.chunks[i].content) \subseteq Elems(s.covered)
          /\ (\E i \in 1..Len(s.chunks) : s.chunks[i].seq >= s.nextSeq) =>
                \E i \in 1..Len(s.chunks) : s.chunks[i].seq = s.nextSeq
Declares(b) ==
    /\ Filled(b.chunks) /\ Distinct(b.covered)
    /\ Clash(b.chunks) \/ Covers1(b.chunks, b.covered)
Declared ==
    /\ Sorted(mem) /\ Sorted(state)
    /\ \A b \in manifest : Declares(b)
    /\ \A i \in 1..Len(outbox) : outbox[i].type = "manifest" => Declares(outbox[i].body)

JoinOf(cs, p, w) ==
    /\ w \in Seq(Chunks(Entry)) /\ Len(cs) \in Nat /\ Len(p) \in Nat
    /\ Len(w) = Len(cs) + Len(p)
    /\ \A i \in 1..Len(cs) : w[i] = cs[i] /\ i \in 1..Len(w)
    /\ \A j \in 1..Len(p) : w[Len(cs) + j] = p[j] /\ Len(cs) + j \in 1..Len(w)
    /\ \A i \in 1..Len(w) : \/ i \in 1..Len(cs) /\ w[i] = cs[i]
                            \/ \E j \in 1..Len(p) : i = Len(cs) + j /\ w[i] = p[j]
    /\ Clash(cs) => Clash(w)
    /\ Filled(cs) /\ Filled(p) => Filled(w)
    /\ (\E i \in 1..Len(cs), j \in 1..Len(p) : cs[i].seq = p[j].seq) => Clash(w)

LEMMA ChunksJoin ==
    ASSUME NEW cs \in Seq(Chunks(Entry)), NEW p \in Seq(Chunks(Entry))
    PROVE  JoinOf(cs, p, Cat(cs, p))
<1> DEFINE w == Cat(cs, p)
<1>1. w \in Seq(Chunks(Entry)) /\ Len(w) = Len(cs) + Len(p)
  BY CatIs
<1>2. \A i \in 1..Len(cs) : w[i] = cs[i]
  BY CatIs
<1>3. \A j \in 1..Len(p) : w[Len(cs) + j] = p[j]
  BY CatIs
<1>4. Len(cs) \in Nat /\ Len(p) \in Nat
  OBVIOUS
<1> HIDE DEF w
<1>5. \A i \in 1..Len(cs) : i \in 1..Len(w)
  BY <1>1, <1>4
<1>6. \A j \in 1..Len(p) : Len(cs) + j \in 1..Len(w)
  BY <1>1, <1>4
<1>7. ASSUME NEW i \in 1..Len(w)
      PROVE  \/ i \in 1..Len(cs) /\ w[i] = cs[i]
             \/ \E j \in 1..Len(p) : i = Len(cs) + j /\ w[i] = p[j]
  <2>1. CASE i <= Len(cs)
    BY <1>1, <1>2, <1>4, <2>1
  <2>2. CASE i > Len(cs)
    <3>1. i - Len(cs) \in 1..Len(p) /\ i = Len(cs) + (i - Len(cs))
      BY <1>1, <1>4, <2>2
    <3> QED
      BY <1>3, <3>1
  <2> QED
    BY <1>1, <1>4, <2>1, <2>2
<1>8. Clash(cs) => Clash(w)
  BY <1>2, <1>5 DEF Clash
<1>9. Filled(cs) /\ Filled(p) => Filled(w)
  BY <1>7 DEF Filled
<1>10. ASSUME NEW i \in 1..Len(cs), NEW j \in 1..Len(p), cs[i].seq = p[j].seq PROVE Clash(w)
  <2>1. w[i] = cs[i] /\ w[Len(cs) + j] = p[j] /\ i # Len(cs) + j
    BY <1>2, <1>3, <1>4
  <2> QED
    BY <1>5, <1>6, <1>10, <2>1 DEF Clash
<1> QED
  BY <1>1, <1>2, <1>3, <1>4, <1>5, <1>6, <1>7, <1>8, <1>9, <1>10 DEF JoinOf, w

\* A flush that stops on the way records the first of its chunks.
LEMMA RecordedSorted ==
    ASSUME NEW s \in States, Sorted(s), NEW p \in Seq(Chunks(Entry)), Filled(p),
           \A j \in 1..Len(p) : p[j].seq = s.nextSeq + j - 1,
           NEW t, t.covered = s.covered, t.nextSeq = s.nextSeq, t.chunks = Cat(s.chunks, p)
    PROVE  Sorted(t)
<1> DEFINE cs == s.chunks
           w == t.chunks
           n == s.nextSeq
<1>1. cs \in Seq(Chunks(Entry)) /\ n \in Nat
  BY DEF States
<1>2. w = Cat(cs, p) /\ p \in Seq(Chunks(Entry)) /\ cs \in Seq(Chunks(Entry))
  BY <1>1
<1>3. /\ Filled(cs)
      /\ \/ Clash(cs)
         \/ /\ \A i \in 1..Len(cs) :
                 cs[i].seq < n => Elems(cs[i].content) \subseteq Elems(s.covered)
            /\ (\E i \in 1..Len(cs) : cs[i].seq >= n) => \E i \in 1..Len(cs) : cs[i].seq = n
  BY DEF Sorted
<1>4. \A j \in 1..Len(p) : p[j].seq = n + j - 1
  OBVIOUS
<1> HIDE DEF cs, w, n
<1>5. /\ Len(cs) \in Nat /\ Len(p) \in Nat
      /\ \A i \in 1..Len(cs) : w[i] = cs[i] /\ i \in 1..Len(w)
      /\ \A j \in 1..Len(p) : w[Len(cs) + j] = p[j] /\ Len(cs) + j \in 1..Len(w)
      /\ \A i \in 1..Len(w) : \/ i \in 1..Len(cs) /\ w[i] = cs[i]
                              \/ \E j \in 1..Len(p) : i = Len(cs) + j /\ w[i] = p[j]
      /\ Clash(cs) => Clash(w)
      /\ Filled(cs) /\ Filled(p) => Filled(w)
      /\ (\E i \in 1..Len(cs), j \in 1..Len(p) : cs[i].seq = p[j].seq) => Clash(w)
  <2>1. JoinOf(cs, p, w)
    BY <1>2, ChunksJoin
  <2> QED
    BY <2>1 DEF JoinOf
<1>6. Filled(w)
  BY <1>3, <1>5
<1>7. ASSUME ~ Clash(w)
      PROVE  /\ \A i \in 1..Len(w) :
                  w[i].seq < n => Elems(w[i].content) \subseteq Elems(s.covered)
             /\ (\E i \in 1..Len(w) : w[i].seq >= n) => \E i \in 1..Len(w) : w[i].seq = n
  <2>1. /\ \A i \in 1..Len(cs) :
                 cs[i].seq < n => Elems(cs[i].content) \subseteq Elems(s.covered)
        /\ (\E i \in 1..Len(cs) : cs[i].seq >= n) => \E i \in 1..Len(cs) : cs[i].seq = n
    BY <1>3, <1>5, <1>7
  <2>2. ASSUME NEW i \in 1..Len(w), w[i].seq < n
        PROVE  Elems(w[i].content) \subseteq Elems(s.covered)
    <3>1. \A j \in 1..Len(p) : ~ (p[j].seq < n)
      <4> SUFFICES ASSUME NEW j \in 1..Len(p) PROVE ~ (p[j].seq < n)
        OBVIOUS
      <4>1. p[j].seq = n + j - 1 /\ j \in Nat /\ j >= 1
        BY <1>4, <1>5
      <4> QED
        BY <1>1, <4>1
    <3> QED
      BY <1>5, <2>1, <2>2, <3>1
  <2>3. ASSUME NEW i \in 1..Len(w), w[i].seq >= n PROVE \E x \in 1..Len(w) : w[x].seq = n
    <3>1. CASE i \in 1..Len(cs) /\ w[i] = cs[i]
      <4>1. PICK x \in 1..Len(cs) : cs[x].seq = n
        BY <2>1, <2>3, <3>1
      <4> QED
        BY <1>5, <4>1
    <3>2. CASE \E j \in 1..Len(p) : i = Len(cs) + j /\ w[i] = p[j]
      <4>1. 1 \in 1..Len(p)
        BY <1>5, <3>2
      <4>2. p[1].seq = n
        BY <1>1, <1>4, <4>1
      <4> QED
        BY <1>5, <4>1, <4>2
    <3> QED
      BY <1>5, <3>1, <3>2
  <2> QED
    BY <2>2, <2>3
<1> QED
  BY <1>6, <1>7 DEF Sorted, w, n

\* A flush that queued all of them advances the cursor.
LEMMA AdvancedSorted ==
    ASSUME NEW s \in States, Sorted(s), NEW p \in Seq(Chunks(Entry)), Filled(p),
           \A j \in 1..Len(p) : p[j].seq = s.nextSeq + j - 1,
           NEW c \in Seq(Entry), Covers1(p, c),
           NEW t \in States, t.covered = Cat(s.covered, c), t.nextSeq = s.nextSeq + Len(p),
           t.chunks = Cat(s.chunks, p)
    PROVE  Sorted(t) /\ (p # << >> => Clash(t.chunks) \/ Covers1(t.chunks, t.covered))
<1> DEFINE cs == s.chunks
           w == t.chunks
           n == s.nextSeq
           m == t.nextSeq
<1>1. cs \in Seq(Chunks(Entry)) /\ n \in Nat /\ m \in Nat /\ s.covered \in Seq(Entry)
  BY DEF States
<1>2. w = Cat(cs, p) /\ p \in Seq(Chunks(Entry)) /\ cs \in Seq(Chunks(Entry))
  BY <1>1
<1>3. /\ Filled(cs)
      /\ \/ Clash(cs)
         \/ /\ \A i \in 1..Len(cs) :
                 cs[i].seq < n => Elems(cs[i].content) \subseteq Elems(s.covered)
            /\ (\E i \in 1..Len(cs) : cs[i].seq >= n) => \E i \in 1..Len(cs) : cs[i].seq = n
  BY DEF Sorted
<1>4. \A j \in 1..Len(p) : p[j].seq = n + j - 1
  OBVIOUS
<1>m. m = n + Len(p)
  OBVIOUS
<1>c. Elems(t.covered) = Elems(s.covered) \cup Elems(c)
  <2>1. s.covered \in Seq(Entry)
    BY <1>1
  <2>2. Elems(Cat(s.covered, c)) = Elems(s.covered) \cup Elems(c)
    BY <2>1, CatElems
  <2> QED
    BY <2>2
<1> HIDE DEF cs, w, n, m
<1>5. /\ Len(cs) \in Nat /\ Len(p) \in Nat
      /\ \A i \in 1..Len(cs) : w[i] = cs[i] /\ i \in 1..Len(w)
      /\ \A j \in 1..Len(p) : w[Len(cs) + j] = p[j] /\ Len(cs) + j \in 1..Len(w)
      /\ \A i \in 1..Len(w) : \/ i \in 1..Len(cs) /\ w[i] = cs[i]
                              \/ \E j \in 1..Len(p) : i = Len(cs) + j /\ w[i] = p[j]
      /\ Clash(cs) => Clash(w)
      /\ Filled(cs) /\ Filled(p) => Filled(w)
      /\ (\E i \in 1..Len(cs), j \in 1..Len(p) : cs[i].seq = p[j].seq) => Clash(w)
  <2>1. JoinOf(cs, p, w)
    BY <1>2, ChunksJoin
  <2> QED
    BY <2>1 DEF JoinOf
<1>6. Filled(w)
  BY <1>3, <1>5
<1>7. CASE p = << >>
  <2>1. m = n /\ Len(p) = 0
    BY <1>1, <1>7, <1>m
  <2>2. \A i \in 1..Len(w) : i \in 1..Len(cs) /\ w[i] = cs[i]
    BY <1>5, <2>1
  <2>3. ASSUME ~ Clash(w)
        PROVE  /\ \A i \in 1..Len(w) :
                    w[i].seq < m => Elems(w[i].content) \subseteq Elems(t.covered)
               /\ (\E i \in 1..Len(w) : w[i].seq >= m) => \E i \in 1..Len(w) : w[i].seq = m
    BY <1>3, <1>5, <1>c, <2>1, <2>2, <2>3
  <2>4. Sorted(t)
    BY <1>6, <2>3 DEF Sorted, w, m
  <2> QED
    BY <1>7, <2>4
<1>8. CASE p # << >>
  <2>1. 1 \in 1..Len(p) /\ p[1].seq = n
    <3>1. 1 \in 1..Len(p)
      BY <1>5, <1>8
    <3> QED
      BY <1>1, <1>4, <3>1
  <2>2. ASSUME ~ Clash(w), NEW i \in 1..Len(w)
        PROVE  w[i].seq < m /\ Elems(w[i].content) \subseteq Elems(t.covered)
    <3>1. ~ Clash(cs) /\ ~ \E x \in 1..Len(cs) : cs[x].seq = n
      BY <1>5, <2>1, <2>2
    <3>2. CASE i \in 1..Len(cs) /\ w[i] = cs[i]
      <4>1. ~ (cs[i].seq >= n) /\ cs[i].seq \in Nat
        <5>1. cs[i] \in Chunks(Entry)
          BY <1>1, <3>2
        <5> QED
          BY <1>3, <3>1, <3>2, <5>1 DEF Chunks
      <4>2. cs[i].seq < n
        BY <1>1, <4>1
      <4>3. Elems(cs[i].content) \subseteq Elems(s.covered)
        BY <1>3, <3>1, <3>2, <4>2
      <4>4. cs[i].seq < m
        BY <1>1, <1>5, <1>m, <4>1, <4>2
      <4> QED
        BY <1>c, <3>2, <4>3, <4>4
    <3>3. CASE \E j \in 1..Len(p) : i = Len(cs) + j /\ w[i] = p[j]
      <4>1. PICK j \in 1..Len(p) : w[i] = p[j]
        BY <3>3
      <4>2. p[j].seq = n + j - 1
        BY <1>4
      <4>3. p[j].seq < m
        BY <1>1, <1>5, <1>m, <4>2
      <4>4. Elems(p[j].content) \subseteq Elems(c)
        BY DEF Covers1
      <4> QED
        BY <1>c, <4>1, <4>3, <4>4
    <3> QED
      BY <1>5, <3>2, <3>3
  <2>3. Clash(w) \/ Covers1(w, t.covered)
    BY <2>2 DEF Covers1
  <2>4. ~ Clash(w) => \A i \in 1..Len(w) : ~ (w[i].seq >= m)
    <3> SUFFICES ASSUME ~ Clash(w), NEW i \in 1..Len(w) PROVE ~ (w[i].seq >= m)
      OBVIOUS
    <3>1. w[i] \in Chunks(Entry)
      <4>1. w \in Seq(Chunks(Entry))
        BY <1>2, CatIs
      <4> QED
        BY <4>1
    <3>2. w[i].seq \in Nat /\ w[i].seq < m
      BY <2>2, <3>1 DEF Chunks
    <3> QED
      BY <1>1, <3>2
  <2>5. Sorted(t)
    BY <1>6, <2>2, <2>4 DEF Sorted, w, m
  <2> QED
    BY <2>3, <2>5 DEF w
<1> QED
  BY <1>7, <1>8

\* What a flush draws.
LEMMA DraftsNowAre ==
    ASSUME BType, NEW f, Rest(f)
    PROVE  /\ DraftsNow(f) \in Seq(Chunks(Entry)) /\ Filled(DraftsNow(f))
           /\ \A j \in 1..Len(DraftsNow(f)) :
                 /\ DraftsNow(f)[j].seq = mem.nextSeq + j - 1
                 /\ DraftsNow(f)[j].content = DrawnOf(entries, f)[j]
           /\ Len(DraftsNow(f)) = Len(DrawnOf(entries, f))
           /\ CoverOf(entries, f) \in Seq(Entry)
           /\ Covers1(DraftsNow(f), CoverOf(entries, f))
<1> DEFINE d == DraftsNow(f)
           g == DrawnOf(entries, f)
           c == CoverOf(entries, f)
<1>1. f \in Seq(Entry) /\ mem \in States /\ d \in Seq(Chunks(Entry)) /\ c \in Seq(Entry)
  BY RestTyped
<1>2. mem.nextSeq \in Nat
  BY <1>1 DEF States
<1>f. f \in Seq(Entry)
  BY <1>1
<1>3. Len(d) = Len(g)
  BY <1>f, <1>2, DraftsAre DEF DraftsNow
<1>4. \A j \in 1..Len(g) : d[j].seq = mem.nextSeq + j - 1 /\ d[j].content = g[j]
  BY <1>f, <1>2, DraftsAre DEF DraftsNow
<1>5. NoneEmpty(g)
  BY <1>f, DrawnIs
<1>6. \A i \in 1..Len(g) : Elems(g[i]) \subseteq TextsOf(entries, f)
  BY <1>f, DrawnIs
<1>7. TextsOf(entries, f) \subseteq Elems(c)
  BY <1>f, CoverIs
<1> HIDE DEF d, g, c
<1>8. Filled(d)
  BY <1>3, <1>4, <1>5 DEF Filled, NoneEmpty
<1>9. Covers1(d, c)
  BY <1>3, <1>4, <1>6, <1>7 DEF Covers1
<1> QED
  BY <1>1, <1>3, <1>4, <1>8, <1>9 DEF d, g, c

LEMMA FlushDeclared ==
    ASSUME BType, Declared, NEW f, NEW k, FlushStep(f, k)
    PROVE  Declared'
<1> DEFINE d == DraftsNow(f)
           a == AfterFlush(f)
           m == MemAt(f, k)
           c == CoverOf(entries, f)
           p == SubSeq(d, 1, k)
           L == Len(outbox)
<1>1. /\ Len(outbox') = L + k /\ k \in Nat /\ L \in Nat /\ Len(d) \in Nat
      /\ \A i \in 1..L : outbox'[i] = outbox[i]
      /\ \A j \in 1..k : j <= Len(d) => outbox'[L + j] = ChunkJobOf(d[j])
      /\ \/ k <= Len(d)
         \/ k = Len(d) + 1 /\ d # << >> /\ outbox'[L + k] = ManifestJobOf(a)
  BY BoxGrows
<1>2. Rest(f) /\ manifest' = manifest
  BY DEF FlushStep
<1>3. mem' \in {m, state} /\ state' \in {m, state}
  BY DEF FlushStep, Complete
<1>4. /\ k >= Len(d) => m = a
      /\ k < Len(d) => m.covered = mem.covered /\ m.nextSeq = mem.nextSeq /\ m.chunks = Cat(mem.chunks, p)
  BY <1>1, <1>2, MemoryIs
<1>5. /\ d \in Seq(Chunks(Entry)) /\ Filled(d)
      /\ \A j \in 1..Len(d) : d[j].seq = mem.nextSeq + j - 1
      /\ c \in Seq(Entry) /\ Covers1(d, c)
  BY <1>2, DraftsNowAre
<1>6. /\ mem \in States /\ a \in States /\ a.covered = Cat(mem.covered, c)
      /\ a.nextSeq = mem.nextSeq + Len(d) /\ a.chunks = Cat(mem.chunks, d)
  BY <1>2, RestTyped
<1>7. Sorted(mem) /\ Sorted(state)
  BY DEF Declared
<1> HIDE DEF d, a, m, c
<1>d. d \in Seq(Chunks(Entry)) /\ c \in Seq(Entry) /\ mem \in States /\ a \in States
  BY <1>5, <1>6
<1>8. Sorted(a) /\ (d # << >> => Clash(a.chunks) \/ Covers1(a.chunks, a.covered))
  BY <1>d, <1>5, <1>6, <1>7, AdvancedSorted
<1>9. k < Len(d) => Sorted(m)
  <2> SUFFICES ASSUME k < Len(d) PROVE Sorted(m)
    OBVIOUS
  <2>1. k \in 0..Len(d)
    BY <1>1
  <2>2. p \in Seq(Chunks(Entry)) /\ Len(p) = k /\ \A i \in 1..k : p[i] = d[i]
    BY <1>d, <2>1, PrefixIs
  <2> HIDE DEF p
  <2>3. \A i \in 1..k : i \in 1..Len(d)
    BY <2>1
  <2>4. Filled(p) /\ \A j \in 1..Len(p) : p[j].seq = mem.nextSeq + j - 1
    BY <1>5, <2>2, <2>3 DEF Filled
  <2>5. m.covered = mem.covered /\ m.nextSeq = mem.nextSeq /\ m.chunks = Cat(mem.chunks, p)
    BY <1>4
  <2>6. p \in Seq(Chunks(Entry))
    BY <2>2
  <2> QED
    BY <1>d, <1>7, <2>4, <2>5, <2>6, RecordedSorted
<1>10. Sorted(m)
  BY <1>1, <1>4, <1>8, <1>9
<1>11. Sorted(mem') /\ Sorted(state')
  BY <1>3, <1>7, <1>10
<1>12. d # << >> => Declares(BodyOf(a))
  <2>1. BodyOf(a).chunks = a.chunks /\ BodyOf(a).covered = a.covered
    BY DEF BodyOf
  <2>2. Distinct(a.covered)
    BY <1>2, MemoryIs, BoxGrows DEF StateGood, a
  <2> QED
    BY <1>8, <2>1, <2>2 DEF Declares, Sorted
<1>13. ASSUME NEW i \in 1..Len(outbox'), outbox'[i].type = "manifest"
       PROVE  Declares(outbox'[i].body)
  <2>1. CASE i \in 1..L
    BY <1>1, <1>13, <2>1 DEF Declared
  <2>2. CASE i \notin 1..L
    <3> DEFINE j == i - L
    <3>1. j \in 1..k /\ i = L + j
      BY <1>1, <2>2
    <3> HIDE DEF j
    <3>2. CASE j <= Len(d)
      <4>1. outbox'[i] = ChunkJobOf(d[j])
        BY <1>1, <3>1, <3>2
      <4>2. ChunkJobOf(d[j]).type = "chunk"
        BY DEF ChunkJobOf
      <4> QED
        BY <1>13, <4>1, <4>2
    <3>3. CASE j > Len(d)
      <4>1. j = k /\ d # << >> /\ outbox'[i] = ManifestJobOf(a)
        BY <1>1, <3>1, <3>3
      <4>2. ManifestJobOf(a).body = BodyOf(a)
        BY DEF ManifestJobOf
      <4> QED
        BY <1>12, <4>1, <4>2
    <3> QED
      BY <1>1, <3>1, <3>2, <3>3
  <2> QED
    BY <2>1, <2>2
<1> QED
  BY <1>2, <1>11, <1>13 DEF Declared

LEMMA RestartDeclared ==
    ASSUME BType, Declared, Backup!Restart
    PROVE  Declared'
<1>1. /\ UNCHANGED <<outbox, manifest>>
      /\ \/ mem' = state /\ UNCHANGED state
         \/ mem' = Backup!EmptyState /\ state' = Backup!EmptyState
  BY RestartTypes
<1>2. Sorted(Backup!EmptyState)
  <2> DEFINE s == Backup!EmptyState
  <2>1. s.chunks = << >>
    BY DEF Backup!EmptyState
  <2> HIDE DEF s
  <2>2. \A i \in 1..Len(s.chunks) : FALSE
    BY <2>1
  <2>3. Sorted(s)
    BY <2>2 DEF Sorted, Filled
  <2> QED
    BY <2>3 DEF s
<1> QED
  BY <1>1, <1>2 DEF Declared

LEMMA DeliverDeclared ==
    ASSUME BType, Declared, Backup!Deliver
    PROVE  Declared'
<1>1. /\ outbox # << >> /\ Taken(outbox[1])
      /\ outbox' = outbox \/ outbox' = Tail(outbox)
      /\ UNCHANGED <<mem, state>>
  BY DeliverIs
<1>2. outbox \in Seq(BoxJobs)
  BY DEF BType
<1>3. \A i \in 1..Len(outbox') : \E k \in 1..Len(outbox) : outbox'[i] = outbox[k]
  <2>1. CASE outbox' = outbox
    BY <2>1
  <2>2. CASE outbox' = Tail(outbox)
    BY <1>1, <1>2, <2>2, TailIs
  <2> QED
    BY <1>1, <2>1, <2>2
<1>4. 1 \in 1..Len(outbox)
  BY <1>1, <1>2
<1>5. \A b \in manifest' : Declares(b)
  BY <1>1, <1>4 DEF Taken, Declared
<1> QED
  BY <1>1, <1>3, <1>5 DEF Declared

LEMMA OtherDeclared ==
    ASSUME Declared, UNCHANGED <<mem, state, manifest, outbox>>
    PROVE  Declared'
BY DEF Declared

-----------------------------------------------------------------------------
(***************************************************************************)
(* What verification accepts.                                              *)
(***************************************************************************)

\* Two sequences without repetitions, of one length, the first within the other.
LEMMA SameElems ==
    ASSUME NEW R, NEW s \in Seq(R), NEW t \in Seq(R), Distinct(s), Distinct(t),
           Len(s) = Len(t), Elems(s) \subseteq Elems(t)
    PROVE  Elems(s) = Elems(t)
<1>1. Cardinality(Elems(s)) = Cardinality(Elems(t))
  BY DistinctCount
<1>2. IsFiniteSet(Elems(t))
  <2>1. t \in [1..Len(t) -> Elems(t)] /\ Len(t) \in Nat
    <3>1. t \in [1..Len(t) -> R] /\ Len(t) \in Nat
      OBVIOUS
    <3>2. \A i \in 1..Len(t) : t[i] \in Elems(t)
      BY DEF Elems
    <3> QED
      BY <3>1, <3>2
  <2>2. t \in Surjection(1..Len(t), Elems(t))
    BY <2>1 DEF Surjection, Elems
  <2>3. IsFiniteSet(1..Len(t))
    BY <2>1, FS_Interval
  <2> QED
    BY <2>2, <2>3, FS_Surjection
<1> QED
  BY <1>1, <1>2, FS_Subset

\* The contents of chunks, in their order.
Contents(cs) == [i \in 1..Len(cs) |-> cs[i].content]
\* Every chunk is stored as it is declared.
Kept(cs) == \A i \in 1..Len(cs) : cs[i].seq \in DOMAIN stored /\ stored[cs[i].seq] = cs[i].content

LEMMA ContentsAre ==
    ASSUME NEW cs \in Seq(Chunks(Entry))
    PROVE  /\ Contents(cs) \in Seq(Seq(Entry)) /\ Len(Contents(cs)) = Len(cs)
           /\ \A i \in 1..Len(cs) : Contents(cs)[i] = cs[i].content
           /\ Filled(cs) => NoneEmpty(Contents(cs))
<1>1. \A i \in 1..Len(cs) : cs[i].content \in Seq(Entry)
  <2>1. \A i \in 1..Len(cs) : cs[i] \in Chunks(Entry)
    OBVIOUS
  <2> QED
    BY <2>1 DEF Chunks
<1>2. Contents(cs) \in Seq(Seq(Entry)) /\ Len(Contents(cs)) = Len(cs)
  BY <1>1 DEF Contents
<1>3. \A i \in 1..Len(cs) : Contents(cs)[i] = cs[i].content
  BY DEF Contents
<1> QED
  BY <1>2, <1>3 DEF Filled, NoneEmpty

\* The chunks that verification finds, when it misses none.
LEMMA FoundIs ==
    ASSUME NEW m, m.chunks \in Seq(Chunks(Entry))
    PROVE  /\ ~ Backup!MissingChunk(m) /\ ~ Backup!ChecksumMismatch(m) => Kept(m.chunks)
           /\ Kept(m.chunks) => /\ ~ Backup!MissingChunk(m) /\ ~ Backup!ChecksumMismatch(m)
                                /\ Backup!Delivered(m) = Backup!FlattenSeq(Contents(m.chunks))
<1> DEFINE cs == m.chunks
           S == {c \in Backup!ToSet(cs) : c.seq \in DOMAIN stored}
<1>1. cs \in Seq(Chunks(Entry))
  OBVIOUS
<1>2. Backup!ToSet(cs) = Elems(cs)
  BY <1>1, ToSetIs
<1>3. Backup!Found(m) = Within(cs, S)
  BY BackupWithin DEF Backup!Found
<1>4. \A c : c \in S <=> c \in Elems(cs) /\ c.seq \in DOMAIN stored
  BY <1>2
<1>5. cs = m.chunks
  OBVIOUS
<1> HIDE DEF cs, S
<1>6. Elems(cs) \subseteq S => Within(cs, S) = cs
  BY <1>1, WithinWhole
<1>7. Len(Within(cs, S)) = Len(cs) => Elems(cs) \subseteq S
  BY <1>1, WithinWhole
<1>8. ASSUME ~ Backup!MissingChunk(m), ~ Backup!ChecksumMismatch(m) PROVE Kept(cs)
  <2>1. Elems(cs) \subseteq S /\ Backup!Found(m) = cs
    BY <1>3, <1>5, <1>6, <1>7, <1>8 DEF Backup!MissingChunk
  <2>2. \A c \in Elems(cs) : c.seq \in DOMAIN stored
    BY <1>4, <2>1
  <2>3. \A c \in Elems(cs) : stored[c.seq] = c.content
    BY <1>2, <1>8, <2>1 DEF Backup!ChecksumMismatch
  <2>4. \A i \in 1..Len(cs) : cs[i] \in Elems(cs)
    BY DEF Elems
  <2> QED
    BY <2>2, <2>3, <2>4 DEF Kept
<1>9. ASSUME Kept(cs)
      PROVE  /\ ~ Backup!MissingChunk(m) /\ ~ Backup!ChecksumMismatch(m)
             /\ Backup!Delivered(m) = Backup!FlattenSeq(Contents(cs))
  <2>1. \A c \in Elems(cs) : c.seq \in DOMAIN stored /\ stored[c.seq] = c.content
    BY <1>9 DEF Kept, Elems
  <2>2. Backup!Found(m) = cs
    BY <1>3, <1>4, <1>6, <2>1
  <2>3. ~ Backup!MissingChunk(m)
    BY <1>5, <2>2 DEF Backup!MissingChunk
  <2>4. ~ Backup!ChecksumMismatch(m)
    BY <1>2, <2>1, <2>2 DEF Backup!ChecksumMismatch
  <2>5. [i \in 1..Len(cs) |-> stored[cs[i].seq]] = Contents(cs)
    BY <1>9 DEF Kept, Contents
  <2>6. Backup!Delivered(m) = Backup!FlattenSeq([i \in 1..Len(cs) |-> stored[cs[i].seq]])
    BY <2>2 DEF Backup!Delivered
  <2> QED
    BY <2>3, <2>4, <2>5, <2>6
<1> QED
  BY <1>5, <1>8, <1>9

LEMMA InjectiveIs ==
    ASSUME NEW R, NEW s \in Seq(R)
    PROVE  Backup!IsInjective(s) <=> Distinct(s)
BY DEF Backup!IsInjective, Distinct

LEMMA VerifiedIs ==
    ASSUME NEW m \in Bodies, Declares(m), Backup!Verifies(m)
    PROVE  Kept(m.chunks) /\ Elems(Backup!Delivered(m)) = Elems(m.covered)
           /\ Backup!Delivered(m) \in Seq(Entry)
<1> DEFINE cs == m.chunks
           parts == Contents(cs)
           all == Backup!Delivered(m)
<1>1. cs \in Seq(Chunks(Entry)) /\ m.covered \in Seq(Entry)
  BY DEF Bodies
<1>2. Kept(cs) /\ all = Backup!FlattenSeq(parts)
  BY <1>1, FoundIs DEF Backup!Verifies
<1>3. /\ parts \in Seq(Seq(Entry)) /\ Len(parts) = Len(cs)
      /\ \A i \in 1..Len(cs) : parts[i] = cs[i].content
  BY <1>1, ContentsAre
<1>p. parts \in Seq(Seq(Entry))
  BY <1>3
<1>f. Filled(cs) /\ Distinct(m.covered) /\ (Clash(cs) \/ Covers1(cs, m.covered))
  BY DEF Declares
<1> HIDE DEF cs, parts
<1>4. all \in Seq(Entry)
  BY <1>2, <1>p, FlattenIs
<1>5. Distinct(all) /\ Len(all) = Len(m.covered)
  BY <1>4, InjectiveIs DEF Backup!Verifies, Backup!DuplicateCoverage, Backup!EntryCountMismatch
<1>6. \A i, j \in 1..Len(parts) : i # j /\ Elems(parts[i]) \cap Elems(parts[j]) # {}
                => ~ Distinct(Backup!FlattenSeq(parts))
  BY <1>p, FlattenIs
<1>7. \A e : e \in Elems(all) => \E i \in 1..Len(parts) : e \in Elems(parts[i])
  BY <1>2, <1>p, FlattenIs
<1>8. ~ Clash(cs)
  <2> SUFFICES ASSUME NEW i \in 1..Len(cs), NEW j \in 1..Len(cs), i # j, cs[i].seq = cs[j].seq
               PROVE  FALSE
    BY DEF Clash
  <2>1. parts[i] = parts[j]
    BY <1>2, <1>3 DEF Kept
  <2>2. parts[i] # << >> /\ parts[i] \in Seq(Entry)
    <3>1. parts[i] # << >>
      BY <1>3, <1>f DEF Filled
    <3>2. i \in 1..Len(parts)
      BY <1>3
    <3>3. parts[i] \in Seq(Entry)
      BY <1>p, <3>2
    <3> QED
      BY <3>1, <3>3
  <2>3. parts[i][1] \in Elems(parts[i])
    BY <2>2 DEF Elems
  <2> QED
    BY <1>2, <1>3, <1>5, <1>6, <2>1, <2>3
<1>9. Elems(all) \subseteq Elems(m.covered)
  BY <1>3, <1>7, <1>8, <1>f DEF Covers1
<1>10. Elems(all) = Elems(m.covered)
  <2>1. m.covered \in Seq(Entry) /\ Distinct(m.covered)
    BY <1>1, <1>f
  <2> HIDE DEF all
  <2> QED
    BY <1>4, <1>5, <1>9, <2>1, SameElems
<1> QED
  BY <1>2, <1>4, <1>10 DEF cs

\* What Backup says of it.
LEMMA DeclaredIs == BType /\ Declared => Backup!VerifiedMeansComplete
<1> SUFFICES ASSUME BType, Declared, NEW m \in manifest, Backup!Verifies(m)
             PROVE  /\ Backup!ToSet(Backup!Delivered(m)) = Backup!ToSet(m.covered)
                    /\ \A c \in Backup!ToSet(m.chunks) :
                          c.seq \in DOMAIN stored /\ stored[c.seq] = c.content
  BY DEF Backup!VerifiedMeansComplete
<1>1. m \in Bodies /\ Declares(m)
  BY DEF BType, Declared
<1>2. /\ Kept(m.chunks) /\ Elems(Backup!Delivered(m)) = Elems(m.covered)
      /\ Backup!Delivered(m) \in Seq(Entry)
  BY <1>1, VerifiedIs
<1>3. m.chunks \in Seq(Chunks(Entry)) /\ m.covered \in Seq(Entry)
  BY <1>1 DEF Bodies
<1>4. /\ Backup!ToSet(m.chunks) = Elems(m.chunks) /\ Backup!ToSet(m.covered) = Elems(m.covered)
      /\ Backup!ToSet(Backup!Delivered(m)) = Elems(Backup!Delivered(m))
  BY <1>2, <1>3, ToSetIs
<1> QED
  BY <1>2, <1>4 DEF Kept, Elems

-----------------------------------------------------------------------------
(***************************************************************************)
(* A flush cut short is drawn again as it was.                             *)
(***************************************************************************)

\* The chunk q with content c is queued or stored.
Placed(box, kept, q, c) ==
    \/ \E i \in 1..Len(box) : box[i].type = "chunk" /\ box[i].seq = q /\ box[i].content = c
    \/ q \in DOMAIN kept /\ kept[q] = c
\* It is one of those drawn from n on.
Ahead(q, c, n, g) == \E i \in 1..Len(g) : q = n + i - 1 /\ c = g[i]
Agree(box, kept) ==
    \A q, c1, c2 : Placed(box, kept, q, c1) /\ Placed(box, kept, q, c2) => c1 = c2
Bound(box, kept, n, g) ==
    \A q, c : Placed(box, kept, q, c) => q \in Nat /\ (q < n \/ Ahead(q, c, n, g))
\* A state that is another's, or the other's after a flush of f.
Advances(s, t, E, f) ==
    \/ s.covered = t.covered /\ s.nextSeq = t.nextSeq
    \/ /\ s.covered = Cat(t.covered, CoverOf(E, f))
       /\ s.nextSeq = t.nextSeq + Len(DrawnOf(E, f))
\* Without another flush in between, or a stranger, all that is placed from the
\* cursor of the file on is what the flush cut short would draw again.
Replayed ==
    ~ moved /\ ~ tampered =>
        /\ quarantined = {}
        /\ Agree(outbox, stored)
        /\ Bound(outbox, stored, state.nextSeq, DrawnOf(entries, cut))
        /\ Advances(mem, state, entries, cut)

LEMMA AheadOnce ==
    ASSUME NEW n \in Nat, NEW R, NEW g \in Seq(R), NEW q, NEW c1, NEW c2,
           Ahead(q, c1, n, g), Ahead(q, c2, n, g)
    PROVE  c1 = c2 /\ q \in Nat /\ ~ (q < n) /\ q < n + Len(g)
<1>1. PICK i \in 1..Len(g) : q = n + i - 1 /\ c1 = g[i]
  BY DEF Ahead
<1>2. PICK j \in 1..Len(g) : q = n + j - 1 /\ c2 = g[j]
  BY DEF Ahead
<1>3. Len(g) \in Nat
  OBVIOUS
<1>4. i = j /\ q \in Nat /\ ~ (q < n) /\ q < n + Len(g)
  BY <1>1, <1>2, <1>3
<1> QED
  BY <1>1, <1>2, <1>4

\* The flush starts where the file stands.
LEMMA FlushStarts ==
    ASSUME BType, NEW f, Rest(f), Advances(mem, state, entries, cut), cut = << >> \/ f = cut
    PROVE  mem.covered = state.covered /\ mem.nextSeq = state.nextSeq
<1> DEFINE g == DrawnOf(entries, cut)
           c == CoverOf(entries, cut)
<1>1. state.covered \in Seq(Entry) /\ state.nextSeq \in Nat
  BY DEF BType, StateGood, States
<1>2. ASSUME g = << >>, c = << >>, mem.covered = Cat(state.covered, c),
             mem.nextSeq = state.nextSeq + Len(g)
      PROVE  mem.covered = state.covered /\ mem.nextSeq = state.nextSeq
  <2>1. Cat(state.covered, << >>) = state.covered
    BY <1>1, JoinedNothing
  <2> QED
    BY <1>1, <1>2, <2>1
<1>3. CASE cut = << >>
  <2>1. g = << >> /\ c = << >>
    BY <1>3, DrawnNothing
  <2> QED
    BY <1>2, <2>1 DEF Advances
<1>4. CASE f = cut
  <2> SUFFICES ASSUME mem.covered = Cat(state.covered, c), mem.nextSeq = state.nextSeq + Len(g)
               PROVE  mem.covered = state.covered /\ mem.nextSeq = state.nextSeq
    BY DEF Advances
  <2>1. f \in Seq(Entry) /\ c \in Seq(Entry)
    BY <1>4, RestTyped
  <2>2. Elems(mem.covered) = Elems(state.covered) \cup Elems(c)
    <3>1. Elems(Cat(state.covered, c)) = Elems(state.covered) \cup Elems(c)
      BY <1>1, <2>1, CatElems
    <3> QED
      BY <3>1
  <2>3. Elems(c) \subseteq Elems(f) /\ TextsOf(entries, f) \subseteq Elems(c)
    <3>1. f \in Seq(Entry)
      BY <2>1
    <3>2. Elems(CoverOf(entries, f)) = {e \in Elems(f) : entries[e].kind # "held"}
      BY <3>1, CoverIs
    <3>3. TextsOf(entries, f) \subseteq Elems(CoverOf(entries, f))
      BY <3>1, CoverIs
    <3> QED
      BY <1>4, <3>2, <3>3
  <2>4. Elems(f) \cap Elems(mem.covered) = {}
    BY DEF Rest
  <2>5. Elems(c) = {} /\ TextsOf(entries, f) = {}
    BY <2>2, <2>3, <2>4
  <2>6. g = << >>
    <3>1. f \in Seq(Entry)
      BY <2>1
    <3>2. TextsOf(entries, f) = {} => DrawnOf(entries, f) = << >>
      BY <3>1, DrawnIs
    <3> QED
      BY <1>4, <2>5, <3>2
  <2>7. c = << >>
    <3> HIDE DEF c
    <3>1. c # << >> => 1 \in 1..Len(c)
      BY <2>1
    <3> QED
      BY <2>1, <2>5, <3>1 DEF Elems
  <2> QED
    BY <1>2, <2>6, <2>7
<1> QED
  BY <1>3, <1>4

\* What is placed after a flush: what was, and the first of its drafts.
LEMMA FlushPlaces ==
    ASSUME BType, NEW f, NEW k, FlushStep(f, k), NEW q, NEW c, Placed(outbox', stored', q, c)
    PROVE  Placed(outbox, stored, q, c) \/ Ahead(q, c, mem.nextSeq, DrawnOf(entries, f))
<1> DEFINE d == DraftsNow(f)
           g == DrawnOf(entries, f)
           L == Len(outbox)
<1>1. /\ Len(outbox') = L + k /\ k \in Nat /\ L \in Nat /\ Len(d) \in Nat
      /\ \A i \in 1..L : outbox'[i] = outbox[i]
      /\ \A j \in 1..k : j <= Len(d) => outbox'[L + j] = ChunkJobOf(d[j])
      /\ \/ k <= Len(d)
         \/ k = Len(d) + 1 /\ d # << >> /\ outbox'[L + k] = ManifestJobOf(AfterFlush(f))
  BY BoxGrows
<1>2. Rest(f) /\ stored' = stored
  BY DEF FlushStep
<1>3. /\ \A j \in 1..Len(d) : d[j].seq = mem.nextSeq + j - 1 /\ d[j].content = g[j]
      /\ Len(d) = Len(g)
  BY <1>2, DraftsNowAre
<1>4. \A j : ChunkJobOf(d[j]).seq = d[j].seq /\ ChunkJobOf(d[j]).content = d[j].content
  BY DEF ChunkJobOf
<1>5. ManifestJobOf(AfterFlush(f)).type # "chunk"
  BY DEF ManifestJobOf
<1> HIDE DEF d, g
<1>6. CASE q \in DOMAIN stored' /\ stored'[q] = c
  BY <1>2, <1>6 DEF Placed
<1>7. CASE \E i \in 1..Len(outbox') : outbox'[i].type = "chunk" /\ outbox'[i].seq = q /\ outbox'[i].content = c
  <2>1. PICK i \in 1..Len(outbox') : outbox'[i].type = "chunk" /\ outbox'[i].seq = q /\ outbox'[i].content = c
    BY <1>7
  <2>2. CASE i \in 1..L
    BY <1>1, <2>1, <2>2 DEF Placed
  <2>3. CASE i \notin 1..L
    <3> DEFINE j == i - L
    <3>1. j \in 1..k /\ i = L + j
      BY <1>1, <2>3
    <3> HIDE DEF j
    <3>2. j <= Len(d)
      <4> SUFFICES ASSUME ~ (j <= Len(d)) PROVE FALSE
        OBVIOUS
      <4>1. j = k /\ outbox'[i] = ManifestJobOf(AfterFlush(f))
        BY <1>1, <3>1
      <4> QED
        BY <1>5, <2>1, <4>1
    <3>3. outbox'[i] = ChunkJobOf(d[j]) /\ j \in 1..Len(d)
      BY <1>1, <3>1, <3>2
    <3>4. q = mem.nextSeq + j - 1 /\ c = g[j] /\ j \in 1..Len(g)
      BY <1>3, <1>4, <2>1, <3>3
    <3> QED
      BY <3>4 DEF Ahead, g
  <2> QED
    BY <2>2, <2>3
<1> QED
  BY <1>6, <1>7 DEF Placed

LEMMA FlushReplayed ==
    ASSUME BType, Replayed, NEW f, NEW k, FlushStep(f, k)
    PROVE  Replayed'
<1> SUFFICES ASSUME ~ moved', ~ tampered'
             PROVE  /\ quarantined' = {} /\ Agree(outbox', stored')
                    /\ Bound(outbox', stored', state'.nextSeq, DrawnOf(entries', cut'))
                    /\ Advances(mem', state', entries', cut')
  BY DEF Replayed
<1> DEFINE n == state.nextSeq
           g == DrawnOf(entries, f)
           c == CoverOf(entries, f)
<1>1. /\ ~ moved /\ ~ tampered /\ (cut = << >> \/ f = cut)
      /\ Rest(f) /\ entries' = entries /\ quarantined' = quarantined
  BY DEF FlushStep
<1>2. /\ quarantined = {} /\ Agree(outbox, stored)
      /\ Bound(outbox, stored, n, DrawnOf(entries, cut))
      /\ Advances(mem, state, entries, cut)
  BY <1>1 DEF Replayed
<1>3. mem.covered = state.covered /\ mem.nextSeq = n
  BY <1>1, <1>2, FlushStarts
<1>4. f \in Seq(Entry) /\ n \in Nat /\ state.covered \in Seq(Entry)
  <2>1. n \in Nat /\ state.covered \in Seq(Entry)
    BY DEF BType, StateGood, States
  <2> QED
    BY <1>1, <2>1, RestTyped
<1>5. g \in Seq(Seq(Entry))
  <2>1. f \in Seq(Entry)
    BY <1>4
  <2> QED
    BY <2>1, DrawnIs
<1>6. ASSUME NEW q, NEW x, Placed(outbox, stored, q, x)
      PROVE  q \in Nat /\ (q < n \/ Ahead(q, x, n, g))
  <2>1. q \in Nat /\ (q < n \/ Ahead(q, x, n, DrawnOf(entries, cut)))
    BY <1>2, <1>6 DEF Bound
  <2>2. cut = << >> => ~ Ahead(q, x, n, DrawnOf(entries, cut))
    BY DrawnNothing DEF Ahead
  <2> QED
    BY <1>1, <2>1, <2>2
<1>7. ASSUME NEW q, NEW x, Placed(outbox', stored', q, x)
      PROVE  Placed(outbox, stored, q, x) \/ Ahead(q, x, n, g)
  BY <1>3, <1>7, FlushPlaces
<1>8. Len(DraftsNow(f)) = Len(g)
  BY <1>1, DraftsNowAre
<1>9. /\ AfterFlush(f).covered = Cat(state.covered, c)
      /\ AfterFlush(f).nextSeq = n + Len(g)
  <2>1. AfterFlush(f).covered = Cat(mem.covered, c)
    BY <1>1, RestTyped
  <2>2. AfterFlush(f).nextSeq = mem.nextSeq + Len(DraftsNow(f))
    BY <1>1, RestTyped
  <2> QED
    BY <1>3, <1>8, <2>1, <2>2
<1>10. /\ k \in Nat /\ Len(DraftsNow(f)) \in Nat
       /\ Complete => k >= Len(DraftsNow(f))
  BY BoxGrows
<1>11. /\ k >= Len(DraftsNow(f)) => MemAt(f, k) = AfterFlush(f)
       /\ k < Len(DraftsNow(f)) => MemAt(f, k).covered = mem.covered /\ MemAt(f, k).nextSeq = mem.nextSeq
  BY <1>1, <1>10, MemoryIs
<1>12. \/ mem' = MemAt(f, k) /\ Complete
       \/ mem' \in {MemAt(f, k), state} /\ state' = state /\ cut' = f
  BY DEF FlushStep
<1> HIDE DEF n, g, c
<1>13. Agree(outbox', stored')
  <2> SUFFICES ASSUME NEW q, NEW c1, NEW c2, Placed(outbox', stored', q, c1), Placed(outbox', stored', q, c2)
               PROVE  c1 = c2
    BY DEF Agree
  <2>1. Placed(outbox, stored, q, c1) \/ Ahead(q, c1, n, g)
    BY <1>7
  <2>2. Placed(outbox, stored, q, c2) \/ Ahead(q, c2, n, g)
    BY <1>7
  <2>3. CASE Placed(outbox, stored, q, c1) /\ Placed(outbox, stored, q, c2)
    BY <1>2, <2>3 DEF Agree
  <2>4. CASE Ahead(q, c1, n, g)
    <3>1. ~ (q < n)
      BY <1>4, <1>5, <2>4, AheadOnce
    <3>2. Ahead(q, c2, n, g)
      BY <1>6, <2>2, <3>1
    <3> QED
      BY <1>4, <1>5, <2>4, <3>2, AheadOnce
  <2>5. CASE Ahead(q, c2, n, g)
    <3>1. ~ (q < n)
      BY <1>4, <1>5, <2>5, AheadOnce
    <3>2. Ahead(q, c1, n, g)
      BY <1>6, <2>1, <3>1
    <3> QED
      BY <1>4, <1>5, <2>5, <3>2, AheadOnce
  <2> QED
    BY <2>1, <2>2, <2>3, <2>4, <2>5
<1>14. ASSUME NEW q, NEW x, Placed(outbox', stored', q, x)
       PROVE  q \in Nat /\ (q < n \/ Ahead(q, x, n, g))
  <2>1. CASE Placed(outbox, stored, q, x)
    BY <1>6, <2>1
  <2>2. CASE Ahead(q, x, n, g)
    BY <1>4, <1>5, <2>2, AheadOnce
  <2> QED
    BY <1>7, <1>14, <2>1, <2>2
<1>15. CASE mem' = MemAt(f, k) /\ Complete
  <2>1. mem' = AfterFlush(f) /\ state' = AfterFlush(f)
    BY <1>10, <1>11, <1>15 DEF Complete
  <2>2. Bound(outbox', stored', state'.nextSeq, DrawnOf(entries', cut'))
    <3> SUFFICES ASSUME NEW q, NEW x, Placed(outbox', stored', q, x)
                 PROVE  q \in Nat /\ q < n + Len(g)
      BY <1>9, <2>1 DEF Bound
    <3>1. q \in Nat /\ (q < n \/ Ahead(q, x, n, g))
      BY <1>14
    <3>2. Len(g) \in Nat
      BY <1>5
    <3>3. CASE Ahead(q, x, n, g)
      BY <1>4, <1>5, <3>1, <3>3, AheadOnce
    <3> QED
      BY <1>4, <3>1, <3>2, <3>3
  <2>3. Advances(mem', state', entries', cut')
    BY <2>1 DEF Advances
  <2> QED
    BY <1>1, <1>2, <1>13, <2>2, <2>3
<1>16. CASE mem' \in {MemAt(f, k), state} /\ state' = state /\ cut' = f
  <2>1. DrawnOf(entries', cut') = g /\ state'.nextSeq = n
    BY <1>1, <1>16 DEF g, n
  <2>2. Bound(outbox', stored', state'.nextSeq, DrawnOf(entries', cut'))
    BY <1>14, <2>1 DEF Bound
  <2>3. Advances(mem', state', entries', cut')
    <3>1. CASE mem' = state
      BY <1>16, <3>1 DEF Advances
    <3>2. CASE mem' = MemAt(f, k) /\ k < Len(DraftsNow(f))
      BY <1>3, <1>11, <1>16, <3>2, <2>1 DEF Advances
    <3>3. CASE mem' = MemAt(f, k) /\ k >= Len(DraftsNow(f))
      <4>1. mem'.covered = Cat(state.covered, c) /\ mem'.nextSeq = n + Len(g)
        BY <1>9, <1>11, <3>3
      <4> QED
        BY <1>1, <1>16, <2>1, <4>1 DEF Advances, c, n
    <3> QED
      BY <1>10, <1>16, <3>1, <3>2, <3>3
  <2> QED
    BY <1>1, <1>2, <1>13, <2>2, <2>3
<1> QED
  BY <1>12, <1>15, <1>16

\* Delivery places nothing new.
LEMMA DeliverPlaces ==
    ASSUME BType, Backup!Deliver, NEW q, NEW c, Placed(outbox', stored', q, c)
    PROVE  Placed(outbox, stored, q, c)
<1>1. /\ outbox # << >> /\ Taken(outbox[1])
      /\ outbox' = outbox \/ outbox' = Tail(outbox)
  BY DeliverIs
<1>2. outbox \in Seq(BoxJobs)
  BY DEF BType
<1>3. \A i \in 1..Len(outbox') : \E k \in 1..Len(outbox) : outbox'[i] = outbox[k]
  <2>1. CASE outbox' = outbox
    BY <2>1
  <2>2. CASE outbox' = Tail(outbox)
    BY <1>1, <1>2, <2>2, TailIs
  <2> QED
    BY <1>1, <2>1, <2>2
<1>4. 1 \in 1..Len(outbox)
  BY <1>1, <1>2
<1>5. CASE \E i \in 1..Len(outbox') : outbox'[i].type = "chunk" /\ outbox'[i].seq = q /\ outbox'[i].content = c
  BY <1>3, <1>5 DEF Placed
<1>6. CASE q \in DOMAIN stored' /\ stored'[q] = c
  <2>1. CASE stored' = stored
    BY <1>6, <2>1 DEF Placed
  <2>2. CASE /\ outbox[1].type = "chunk"
             /\ stored' = PutAt(stored, outbox[1].seq, outbox[1].content)
    <3> DEFINE s == outbox[1].seq
               x == outbox[1].content
    <3>1. /\ DOMAIN PutAt(stored, s, x) = DOMAIN stored \cup {s}
          /\ PutAt(stored, s, x)[s] = x
          /\ \A y \in DOMAIN stored : y # s => PutAt(stored, s, x)[y] = stored[y]
      BY DEF PutAt
    <3>2. CASE q = s
      BY <1>4, <1>6, <2>2, <3>1, <3>2 DEF Placed
    <3>3. CASE q # s
      BY <1>6, <2>2, <3>1, <3>3 DEF Placed
    <3> QED
      BY <3>2, <3>3
  <2> QED
    BY <1>1, <2>1, <2>2 DEF Taken
<1> QED
  BY <1>5, <1>6 DEF Placed

LEMMA DeliverReplayed ==
    ASSUME BType, Replayed, Backup!Deliver
    PROVE  Replayed'
<1> SUFFICES ASSUME ~ moved', ~ tampered'
             PROVE  /\ quarantined' = {} /\ Agree(outbox', stored')
                    /\ Bound(outbox', stored', state'.nextSeq, DrawnOf(entries', cut'))
                    /\ Advances(mem', state', entries', cut')
  BY DEF Replayed
<1>1. /\ outbox # << >> /\ Taken(outbox[1])
      /\ UNCHANGED <<entries, mem, state, cut, moved, thrown, tampered>>
  BY DeliverIs
<1>2. /\ quarantined = {} /\ Agree(outbox, stored)
      /\ Bound(outbox, stored, state.nextSeq, DrawnOf(entries, cut))
      /\ Advances(mem, state, entries, cut)
  BY <1>1 DEF Replayed
<1>3. \A q, c : Placed(outbox', stored', q, c) => Placed(outbox, stored, q, c)
  BY DeliverPlaces
<1>4. Agree(outbox', stored')
  BY <1>2, <1>3 DEF Agree
<1>5. Bound(outbox', stored', state.nextSeq, DrawnOf(entries, cut))
  BY <1>2, <1>3 DEF Bound
<1>6. quarantined' = {}
  <2>1. outbox \in Seq(BoxJobs)
    BY DEF BType
  <2>2. 1 \in 1..Len(outbox)
    BY <1>1, <2>1
  <2> DEFINE s == outbox[1].seq
             x == outbox[1].content
  <2>3. ~ (outbox[1].type = "chunk" /\ s \in DOMAIN stored /\ stored[s] # x)
    <3> SUFFICES ASSUME outbox[1].type = "chunk", s \in DOMAIN stored, stored[s] # x PROVE FALSE
      OBVIOUS
    <3>1. Placed(outbox, stored, s, x)
      BY <2>2 DEF Placed
    <3>2. Placed(outbox, stored, s, stored[s])
      BY DEF Placed
    <3> QED
      BY <1>2, <3>1, <3>2 DEF Agree
  <2> QED
    BY <1>1, <1>2, <2>3 DEF Taken
<1> QED
  BY <1>1, <1>2, <1>4, <1>5, <1>6

LEMMA RestartReplayed ==
    ASSUME BType, Replayed, Backup!Restart
    PROVE  Replayed'
<1>1. /\ UNCHANGED <<entries, outbox, stored, manifest, quarantined, cut, thrown, tampered>>
      /\ \/ mem' = state /\ mem # state /\ UNCHANGED <<state, moved>>
         \/ mem' = Backup!EmptyState /\ state' = Backup!EmptyState /\ moved' = TRUE
  BY RestartTypes
<1> SUFFICES ASSUME ~ moved', ~ tampered'
             PROVE  /\ quarantined' = {} /\ Agree(outbox', stored')
                    /\ Bound(outbox', stored', state'.nextSeq, DrawnOf(entries', cut'))
                    /\ Advances(mem', state', entries', cut')
  BY DEF Replayed
<1>2. mem' = state /\ state' = state /\ ~ moved /\ ~ tampered
  BY <1>1
<1> QED
  BY <1>1, <1>2 DEF Replayed, Advances

LEMMA AppendReplayed ==
    ASSUME BType, Replayed, Len(entries') = Len(entries) + 1,
           \A e \in 1..Len(entries) : entries'[e] = entries[e],
           UNCHANGED <<mem, state, outbox, stored, quarantined, cut, moved, tampered>>
    PROVE  Replayed'
<1>1. cut \in Seq(1..Len(entries))
  BY DEF BType
<1>2. \A e \in 1..Len(entries) : entries'[e].kind = entries[e].kind
  OBVIOUS
<1>3. DrawnOf(entries', cut) = DrawnOf(entries, cut) /\ CoverOf(entries', cut) = CoverOf(entries, cut)
  <2> DEFINE R == 1..Len(entries)
             E1 == entries'
             E2 == entries
  <2>1. cut \in Seq(R) /\ \A e \in R : E1[e].kind = E2[e].kind
    BY <1>1, <1>2
  <2> HIDE DEF R, E1, E2
  <2>2. DrawnOf(E1, cut) = DrawnOf(E2, cut)
    BY <2>1, DrawnSame
  <2>3. CoverOf(E1, cut) = CoverOf(E2, cut)
    BY <2>1, DrawnSame
  <2> QED
    BY <2>2, <2>3 DEF E1, E2
<1>4. /\ Advances(mem, state, entries, cut) => Advances(mem', state', entries', cut')
      /\ DrawnOf(entries', cut') = DrawnOf(entries, cut)
  BY <1>3 DEF Advances
<1> QED
  BY <1>4 DEF Replayed

LEMMA TamperReplayed == ASSUME tampered' = TRUE PROVE Replayed'
BY DEF Replayed

\* What Backup says of it.
LEMMA ReplayedIs == Replayed => Backup!ReplayNeverConflicts
BY DEF Replayed, Backup!ReplayNeverConflicts

-----------------------------------------------------------------------------
(***************************************************************************)
(* A session of text, with no flush that threw or changed its mind.        *)
(***************************************************************************)

AllText(E) == \A e \in 1..Len(E) : E[e].kind \in {"text", "big"}
\* The newest manifest of the box, or the one delivered, is b.
LastIs(box, man, b) ==
    /\ \A i \in 1..Len(box) :
          box[i].type = "manifest" /\ (\A j \in 1..Len(box) : j > i => box[j].type # "manifest")
             => box[i].body = b
    /\ (\A i \in 1..Len(box) : box[i].type # "manifest") => \A m \in man : m = b
\* The chunks of a state are numbered from 0, placed, and hold what it covers.
Numbered(cs, n) == n = Len(cs) /\ \A i \in 1..Len(cs) : cs[i].seq = i - 1
AllPlaced(box, kept, cs) == \A i \in 1..Len(cs) : Placed(box, kept, i - 1, cs[i].content)
Holds(cs, c) == Backup!FlattenSeq(Contents(cs)) = c
Faithful ==
    ~ moved /\ ~ thrown /\ ~ tampered /\ AllText(entries) =>
        /\ mem = state
        /\ Numbered(mem.chunks, mem.nextSeq)
        /\ AllPlaced(outbox, stored, mem.chunks)
        /\ Holds(mem.chunks, mem.covered)
        /\ Linked(entries, mem.covered, {})
        /\ cut = << >> => LastIs(outbox, manifest, BodyOf(mem))

\* What a flush of a session of text draws, and what it covers, is its entries.
LEMMA TextDraws ==
    ASSUME BType, AllText(entries), NEW f, Rest(f)
    PROVE  /\ CoverOf(entries, f) = f /\ DraftsNow(f) # << >>
           /\ Holds(DraftsNow(f), f)
<1> DEFINE g == DrawnOf(entries, f)
           d == DraftsNow(f)
<1>1. f \in Seq(1..Len(entries)) /\ f # << >>
  BY DEF Rest
<1>2. f \in Seq(Entry)
  BY RestTyped
<1>3. Elems(f) \subseteq TextsOf(entries, f)
  <2>1. Elems(f) \subseteq 1..Len(entries)
    BY <1>1, ElemsIn
  <2> QED
    BY <2>1 DEF TextsOf, AllText
<1>4. CoverOf(entries, f) = f
  BY <1>2, <1>3, CoverIs
<1>5. Backup!FlattenSeq(g) = f
  BY <1>2, <1>3, DrawnIs
<1>6. g \in Seq(Seq(Entry))
  BY <1>2, DrawnIs
<1>7. d \in Seq(Chunks(Entry)) /\ Len(d) = Len(g) /\ \A j \in 1..Len(d) : d[j].content = g[j]
  BY DraftsNowAre
<1>d. d \in Seq(Chunks(Entry))
  BY <1>7
<1> HIDE DEF g, d
<1>8. Contents(d) = g
  <2>1. /\ Contents(d) \in Seq(Seq(Entry)) /\ Len(Contents(d)) = Len(d)
        /\ \A i \in 1..Len(d) : Contents(d)[i] = d[i].content
    BY <1>d, ContentsAre
  <2>2. Contents(d) \in Seq(Seq(Entry)) /\ Len(Contents(d)) = Len(g)
    BY <1>7, <2>1
  <2>3. \A i \in 1..Len(Contents(d)) : Contents(d)[i] = g[i]
    BY <1>7, <2>1
  <2> QED
    BY <1>6, <2>2, <2>3, SameSeq
<1>9. g # << >>
  BY <1>1, <1>5, FlattenNothing
<1>10. d # << >>
  BY <1>6, <1>7, <1>9
<1> QED
  BY <1>4, <1>5, <1>8, <1>10 DEF Holds, d

\* Chunks after chunks.
LEMMA HoldsJoined ==
    ASSUME NEW cs \in Seq(Chunks(Entry)), NEW ds \in Seq(Chunks(Entry)), NEW c, NEW d,
           Holds(cs, c), Holds(ds, d)
    PROVE  Holds(Cat(cs, ds), Cat(c, d))
<1> DEFINE w == Cat(cs, ds)
           s == Contents(cs)
           t == Contents(ds)
           u == Contents(w)
           v == Cat(s, t)
<1>1. s \in Seq(Seq(Entry)) /\ Len(s) = Len(cs) /\ \A i \in 1..Len(cs) : s[i] = cs[i].content
  BY ContentsAre
<1>2. t \in Seq(Seq(Entry)) /\ Len(t) = Len(ds) /\ \A i \in 1..Len(ds) : t[i] = ds[i].content
  BY ContentsAre
<1>3. JoinOf(cs, ds, w)
  BY ChunksJoin
<1>4. /\ w \in Seq(Chunks(Entry)) /\ Len(cs) \in Nat /\ Len(ds) \in Nat
      /\ Len(w) = Len(cs) + Len(ds)
      /\ \A i \in 1..Len(w) : \/ i \in 1..Len(cs) /\ w[i] = cs[i]
                              \/ \E j \in 1..Len(ds) : i = Len(cs) + j /\ w[i] = ds[j]
  BY <1>3 DEF JoinOf
<1>w. w \in Seq(Chunks(Entry))
  BY <1>4
<1> HIDE DEF w
<1>5. u \in Seq(Seq(Entry)) /\ Len(u) = Len(w) /\ \A i \in 1..Len(w) : u[i] = w[i].content
  BY <1>w, ContentsAre
<1>st. s \in Seq(Seq(Entry)) /\ t \in Seq(Seq(Entry))
  BY <1>1, <1>2
<1> HIDE DEF s, t, u
<1>6. /\ v \in Seq(Seq(Entry)) /\ Len(v) = Len(s) + Len(t)
  BY <1>st, CatIs
<1>7. \A i \in 1..Len(s) : v[i] = s[i]
  BY <1>st, CatIs
<1>8. \A i \in 1..Len(t) : v[Len(s) + i] = t[i]
  BY <1>st, CatIs
<1> HIDE DEF v
<1>9. u = v
  <2>1. ASSUME NEW i \in 1..Len(u) PROVE u[i] = v[i]
    <3>1. i \in 1..Len(w) /\ u[i] = w[i].content
      BY <1>5
    <3>2. CASE i \in 1..Len(cs) /\ w[i] = cs[i]
      BY <1>1, <1>7, <3>1, <3>2
    <3>3. CASE \E j \in 1..Len(ds) : i = Len(cs) + j /\ w[i] = ds[j]
      <4>1. PICK j \in 1..Len(ds) : i = Len(cs) + j /\ w[i] = ds[j]
        BY <3>3
      <4>2. v[Len(s) + j] = t[j] /\ t[j] = ds[j].content
        BY <1>2, <1>8
      <4> QED
        BY <1>1, <3>1, <4>1, <4>2
    <3> QED
      BY <1>4, <3>1, <3>2, <3>3
  <2>2. u \in Seq(Seq(Entry)) /\ v \in Seq(Seq(Entry)) /\ Len(u) = Len(v)
    BY <1>1, <1>2, <1>4, <1>5, <1>6
  <2> QED
    BY <2>1, <2>2, SameSeq
<1>10. Backup!FlattenSeq(u) = Cat(Backup!FlattenSeq(s), Backup!FlattenSeq(t))
  <2>1. u = Cat(s, t)
    BY <1>9 DEF v
  <2> QED
    BY <1>st, <2>1, FlattenJoined
<1> QED
  BY <1>10 DEF Holds, s, t, u, w

LEMMA CatPlaces ==
    ASSUME NEW R, NEW s \in Seq(R), NEW f \in Seq(R), NEW w, w = Cat(s, f)
    PROVE  /\ Len(w) = Len(s) + Len(f) /\ Len(s) \in Nat /\ Len(f) \in Nat
           /\ \A i \in 1..Len(s) : w[i] = s[i]
           /\ \A i \in 1..Len(f) : w[Len(s) + i] = f[i]
<1>1. w = s \o f
  BY DEF Cat
<1>2. Len(w) = Len(s) + Len(f) /\ Len(s) \in Nat /\ Len(f) \in Nat
  BY <1>1
<1>3. ASSUME NEW i \in 1..Len(s) PROVE w[i] = s[i]
  BY <1>1, <1>2
<1>4. ASSUME NEW i \in 1..Len(f) PROVE w[Len(s) + i] = f[i]
  BY <1>1, <1>2
<1> QED
  BY <1>2, <1>3, <1>4

\* Parents in what was covered, or in what is added before.
LEMMA LinkedJoined ==
    ASSUME NEW R, NEW E, NEW s \in Seq(R), NEW f \in Seq(R),
           Linked(E, s, {}), Linked(E, f, Elems(s)), NEW w, w = Cat(s, f)
    PROVE  Linked(E, w, {})
<1>1. /\ Len(w) = Len(s) + Len(f) /\ Len(s) \in Nat /\ Len(f) \in Nat
      /\ \A i \in 1..Len(s) : w[i] = s[i]
      /\ \A i \in 1..Len(f) : w[Len(s) + i] = f[i]
  BY CatPlaces
<1>2. \A i \in 1..Len(s) : w[i] = s[i]
  BY <1>1
<1>3. \A i \in 1..Len(f) : w[Len(s) + i] = f[i]
  BY <1>1
<1>4. ASSUME NEW i \in 1..Len(w), E[w[i]].parent # 0
      PROVE  \E j \in 1..(i - 1) : w[j] = E[w[i]].parent
  <2>1. CASE i \in 1..Len(s)
    <3>1. PICK j \in 1..(i - 1) : s[j] = E[s[i]].parent
      BY <1>2, <1>4, <2>1 DEF Linked
    <3>2. j \in 1..Len(s)
      BY <1>1, <2>1
    <3> QED
      BY <1>2, <2>1, <3>1, <3>2
  <2>2. CASE i \notin 1..Len(s)
    <3> DEFINE x == i - Len(s)
    <3>1. x \in 1..Len(f) /\ i = Len(s) + x
      BY <1>1, <2>2
    <3> HIDE DEF x
    <3>2. w[i] = f[x]
      BY <1>3, <3>1
    <3>3. \/ E[f[x]].parent \in Elems(s)
          \/ \E j \in 1..(x - 1) : f[j] = E[f[x]].parent
      BY <1>4, <3>1, <3>2 DEF Linked
    <3>4. CASE E[f[x]].parent \in Elems(s)
      <4>1. PICK j \in 1..Len(s) : s[j] = E[f[x]].parent
        BY <3>4 DEF Elems
      <4>2. j \in 1..(i - 1)
        BY <1>1, <3>1
      <4> QED
        BY <1>2, <3>2, <4>1, <4>2
    <3>5. CASE \E j \in 1..(x - 1) : f[j] = E[f[x]].parent
      <4>1. PICK j \in 1..(x - 1) : f[j] = E[f[x]].parent
        BY <3>5
      <4>2. j \in 1..Len(f) /\ Len(s) + j \in 1..(i - 1)
        BY <1>1, <3>1
      <4> QED
        BY <1>3, <3>2, <4>1, <4>2
    <3> QED
      BY <3>3, <3>4, <3>5
  <2> QED
    BY <2>1, <2>2
<1> QED
  BY <1>4 DEF Linked

\* What was placed stays so when a flush queues more.
LEMMA FlushKeepsPlaced ==
    ASSUME BType, NEW f, NEW k, FlushStep(f, k), NEW q, NEW c, Placed(outbox, stored, q, c)
    PROVE  Placed(outbox', stored', q, c)
<1>1. /\ Len(outbox') = Len(outbox) + k /\ k \in Nat /\ Len(outbox) \in Nat
      /\ \A i \in 1..Len(outbox) : outbox'[i] = outbox[i]
  BY BoxGrows
<1>2. \A i \in 1..Len(outbox) : i \in 1..Len(outbox')
  BY <1>1
<1>3. stored' = stored
  BY DEF FlushStep
<1> QED
  BY <1>1, <1>2, <1>3 DEF Placed

LEMMA FlushFaithful ==
    ASSUME BType, Faithful, NEW f, NEW k, FlushStep(f, k)
    PROVE  Faithful'
<1> SUFFICES ASSUME ~ moved', ~ thrown', ~ tampered', AllText(entries')
             PROVE  /\ mem' = state'
                    /\ Numbered(mem'.chunks, mem'.nextSeq)
                    /\ AllPlaced(outbox', stored', mem'.chunks)
                    /\ Holds(mem'.chunks, mem'.covered)
                    /\ Linked(entries', mem'.covered, {})
                    /\ cut' = << >> => LastIs(outbox', manifest', BodyOf(mem'))
  BY DEF Faithful
<1> DEFINE d == DraftsNow(f)
           a == AfterFlush(f)
           cs == mem.chunks
           L == Len(outbox)
<1>1. /\ Rest(f) /\ entries' = entries /\ ~ moved /\ ~ tampered
      /\ \/ mem' = MemAt(f, k) /\ Complete
         \/ mem' = state /\ state' = state /\ cut' = f /\ thrown' = thrown
  BY DEF FlushStep
<1>2. ~ thrown
  BY <1>1 DEF Complete
<1>3. /\ mem = state /\ Numbered(cs, mem.nextSeq) /\ AllPlaced(outbox, stored, cs)
      /\ Holds(cs, mem.covered) /\ Linked(entries, mem.covered, {})
  BY <1>1, <1>2 DEF Faithful
<1>4. AllPlaced(outbox', stored', cs)
  BY <1>3, FlushKeepsPlaced DEF AllPlaced
<1>5. CASE mem' = state /\ state' = state /\ cut' = f /\ thrown' = thrown
  <2>1. f # << >>
    BY <1>1 DEF Rest
  <2>2. mem' = mem /\ state' = mem
    BY <1>3, <1>5
  <2> QED
    BY <1>1, <1>3, <1>4, <1>5, <2>1, <2>2
<1>6. CASE mem' = MemAt(f, k) /\ Complete
  <2>1. CoverOf(entries, f) = f /\ d # << >> /\ Holds(d, f)
    BY <1>1, TextDraws
  <2>2. /\ Len(outbox') = L + k /\ k \in Nat /\ L \in Nat /\ Len(d) \in Nat
        /\ \A j \in 1..k : j <= Len(d) => outbox'[L + j] = ChunkJobOf(d[j])
        /\ \/ k <= Len(d)
           \/ k = Len(d) + 1 /\ d # << >> /\ outbox'[L + k] = ManifestJobOf(a)
        /\ Complete => (d # << >> => k = Len(d) + 1)
    BY BoxGrows
  <2>3. k = Len(d) + 1 /\ outbox'[L + k] = ManifestJobOf(a)
    BY <1>6, <2>1, <2>2
  <2>4. mem' = a /\ state' = a /\ cut' = << >>
    <3>1. MemAt(f, k) = a
      BY <1>1, <2>2, <2>3, MemoryIs
    <3> QED
      BY <1>6, <3>1 DEF Complete
  <2>5. /\ a.covered = Cat(mem.covered, f) /\ a.nextSeq = mem.nextSeq + Len(d)
        /\ a.chunks = Cat(cs, d)
    BY <1>1, <2>1, RestTyped
  <2>6. /\ d \in Seq(Chunks(Entry)) /\ \A j \in 1..Len(d) : d[j].seq = mem.nextSeq + j - 1
    BY <1>1, DraftsNowAre
  <2>7. cs \in Seq(Chunks(Entry)) /\ mem.covered \in Seq(Entry) /\ f \in Seq(Entry) /\ mem.nextSeq \in Nat
    <3>1. cs \in Seq(Chunks(Entry)) /\ mem.covered \in Seq(Entry) /\ mem.nextSeq \in Nat
      BY DEF BType, StateGood, States
    <3> QED
      BY <1>1, <3>1, RestTyped
  <2>d. d \in Seq(Chunks(Entry)) /\ cs \in Seq(Chunks(Entry))
    BY <2>6, <2>7
  <2>j. \A j : ChunkJobOf(d[j]).type = "chunk" /\ ChunkJobOf(d[j]).seq = d[j].seq
               /\ ChunkJobOf(d[j]).content = d[j].content
    BY DEF ChunkJobOf
  <2>m. ManifestJobOf(a).type = "manifest" /\ ManifestJobOf(a).body = BodyOf(a)
    BY DEF ManifestJobOf
  <2> HIDE DEF d, a, cs
  <2>8. JoinOf(cs, d, a.chunks)
    BY <2>5, <2>d, ChunksJoin
  <2>9. /\ Len(cs) \in Nat /\ Len(a.chunks) = Len(cs) + Len(d)
        /\ \A i \in 1..Len(a.chunks) : \/ i \in 1..Len(cs) /\ a.chunks[i] = cs[i]
                                       \/ \E j \in 1..Len(d) : i = Len(cs) + j /\ a.chunks[i] = d[j]
    BY <2>8 DEF JoinOf
  <2>10. mem.nextSeq = Len(cs) /\ \A i \in 1..Len(cs) : cs[i].seq = i - 1
    BY <1>3 DEF Numbered
  <2>11. \A j \in 1..Len(d) : d[j].seq = Len(cs) + j - 1
    BY <2>6, <2>10
  <2>12. Numbered(a.chunks, a.nextSeq)
    <3>1. a.nextSeq = Len(a.chunks)
      BY <2>5, <2>9, <2>10
    <3>2. ASSUME NEW i \in 1..Len(a.chunks) PROVE a.chunks[i].seq = i - 1
      <4>1. CASE i \in 1..Len(cs) /\ a.chunks[i] = cs[i]
        BY <2>10, <4>1
      <4>2. CASE \E j \in 1..Len(d) : i = Len(cs) + j /\ a.chunks[i] = d[j]
        BY <2>11, <4>2
      <4> QED
        BY <2>9, <4>1, <4>2
    <3> QED
      BY <3>1, <3>2 DEF Numbered
  <2>13. AllPlaced(outbox', stored', a.chunks)
    <3> SUFFICES ASSUME NEW i \in 1..Len(a.chunks)
                 PROVE  Placed(outbox', stored', i - 1, a.chunks[i].content)
      BY DEF AllPlaced
    <3>1. CASE i \in 1..Len(cs) /\ a.chunks[i] = cs[i]
      BY <1>4, <3>1 DEF AllPlaced
    <3>2. CASE \E j \in 1..Len(d) : i = Len(cs) + j /\ a.chunks[i] = d[j]
      <4>1. PICK j \in 1..Len(d) : i = Len(cs) + j /\ a.chunks[i] = d[j]
        BY <3>2
      <4>2. j \in 1..k /\ L + j \in 1..Len(outbox')
        BY <2>2, <2>3
      <4>3. outbox'[L + j] = ChunkJobOf(d[j]) /\ d[j].seq = i - 1
        BY <2>2, <2>11, <4>1, <4>2
      <4> QED
        BY <2>j, <4>1, <4>2, <4>3 DEF Placed
    <3> QED
      BY <2>9, <3>1, <3>2
  <2>14. Holds(a.chunks, a.covered)
    <3>1. Holds(Cat(cs, d), Cat(mem.covered, f))
      BY <1>3, <2>1, <2>d, HoldsJoined
    <3> QED
      BY <2>5, <3>1
  <2>15. Linked(entries, a.covered, {})
    <3>1. mem.covered \in Seq(Entry) /\ f \in Seq(Entry)
      BY <2>7
    <3>2. Linked(entries, f, Elems(mem.covered))
      BY <1>1 DEF Rest
    <3> QED
      BY <1>3, <2>5, <3>1, <3>2, LinkedJoined
  <2>16. LastIs(outbox', manifest', BodyOf(a))
    <3>1. L + k \in 1..Len(outbox') /\ outbox'[L + k].type = "manifest"
      BY <2>2, <2>3, <2>m
    <3>2. ASSUME NEW i \in 1..Len(outbox'), \A j \in 1..Len(outbox') : j > i => outbox'[j].type # "manifest"
          PROVE  outbox'[i].body = BodyOf(a)
      <4>1. i = L + k
        <5>1. ~ (L + k > i)
          BY <3>1, <3>2
        <5>2. L + k \in Nat /\ i \in Nat /\ i <= L + k
          BY <2>2
        <5> QED
          BY <5>1, <5>2
      <4> QED
        BY <2>3, <2>m, <4>1
    <3> QED
      BY <3>1, <3>2 DEF LastIs
  <2> QED
    BY <1>1, <2>4, <2>12, <2>13, <2>14, <2>15, <2>16
<1> QED
  BY <1>1, <1>5, <1>6

LEMMA DeliverKeepsPlaced ==
    ASSUME BType, Agree(outbox, stored), Backup!Deliver, NEW q, NEW c, Placed(outbox, stored, q, c)
    PROVE  Placed(outbox', stored', q, c)
<1>1. /\ outbox # << >> /\ Taken(outbox[1])
      /\ outbox' = outbox \/ outbox' = Tail(outbox)
  BY DeliverIs
<1>2. outbox \in Seq(BoxJobs)
  BY DEF BType
<1> DEFINE s == outbox[1].seq
           x == outbox[1].content
<1>3. /\ DOMAIN PutAt(stored, s, x) = DOMAIN stored \cup {s}
      /\ PutAt(stored, s, x)[s] = x
      /\ \A y \in DOMAIN stored : y # s => PutAt(stored, s, x)[y] = stored[y]
  BY DEF PutAt
<1>4. \A y \in DOMAIN stored : y \in DOMAIN stored' /\ stored'[y] = stored[y]
  BY <1>1, <1>3 DEF Taken
<1>5. 1 \in 1..Len(outbox)
  BY <1>1, <1>2
<1>6. outbox[1].type = "chunk" => s \in DOMAIN stored' /\ stored'[s] = x
  <2> SUFFICES ASSUME outbox[1].type = "chunk" PROVE s \in DOMAIN stored' /\ stored'[s] = x
    OBVIOUS
  <2>1. CASE s \notin DOMAIN stored
    BY <1>1, <1>3, <2>1 DEF Taken
  <2>2. CASE s \in DOMAIN stored
    <3>1. Placed(outbox, stored, s, x)
      BY <1>5 DEF Placed
    <3>2. Placed(outbox, stored, s, stored[s])
      BY <2>2 DEF Placed
    <3>3. stored[s] = x
      BY <3>1, <3>2 DEF Agree
    <3> QED
      BY <1>4, <2>2, <3>3
  <2> QED
    BY <2>1, <2>2
<1>7. CASE q \in DOMAIN stored /\ stored[q] = c
  BY <1>4, <1>7 DEF Placed
<1>8. CASE \E i \in 1..Len(outbox) : outbox[i].type = "chunk" /\ outbox[i].seq = q /\ outbox[i].content = c
  <2>1. PICK i \in 1..Len(outbox) : outbox[i].type = "chunk" /\ outbox[i].seq = q /\ outbox[i].content = c
    BY <1>8
  <2>2. CASE i = 1
    BY <1>6, <2>1, <2>2 DEF Placed
  <2>3. CASE outbox' = outbox
    BY <2>1, <2>3 DEF Placed
  <2>4. CASE i # 1 /\ outbox' = Tail(outbox)
    <3>1. i - 1 \in 1..Len(Tail(outbox)) /\ Tail(outbox)[i - 1] = outbox[i]
      BY <1>1, <1>2, <2>4, TailIs
    <3> QED
      BY <2>1, <2>4, <3>1 DEF Placed
  <2> QED
    BY <1>1, <2>2, <2>3, <2>4
<1> QED
  BY <1>7, <1>8 DEF Placed

LEMMA DeliverFaithful ==
    ASSUME BType, Replayed, Faithful, Backup!Deliver
    PROVE  Faithful'
<1>1. /\ outbox # << >> /\ Taken(outbox[1])
      /\ outbox' = outbox \/ outbox' = Tail(outbox)
      /\ UNCHANGED <<entries, mem, state, cut, moved, thrown, tampered>>
  BY DeliverIs
<1> SUFFICES ASSUME ~ moved, ~ thrown, ~ tampered, AllText(entries)
             PROVE  /\ AllPlaced(outbox', stored', mem.chunks)
                    /\ cut = << >> => LastIs(outbox', manifest', BodyOf(mem))
  BY <1>1 DEF Faithful
<1>2. /\ AllPlaced(outbox, stored, mem.chunks)
      /\ cut = << >> => LastIs(outbox, manifest, BodyOf(mem))
      /\ Agree(outbox, stored)
  BY DEF Faithful, Replayed
<1>3. AllPlaced(outbox', stored', mem.chunks)
  BY <1>2, DeliverKeepsPlaced DEF AllPlaced
<1>4. ASSUME NEW b, LastIs(outbox, manifest, b) PROVE LastIs(outbox', manifest', b)
  <2>1. outbox \in Seq(BoxJobs)
    BY DEF BType
  <2>2. 1 \in 1..Len(outbox) /\ Len(outbox) \in Nat
    BY <1>1, <2>1
  <2>3. CASE outbox' = outbox
    <3>1. CASE outbox[1].type = "manifest"
      BY <1>4, <2>2, <2>3, <3>1 DEF LastIs
    <3>2. CASE outbox[1].type # "manifest"
      <4>1. manifest' = manifest
        BY <1>1, <3>2 DEF Taken
      <4> QED
        BY <1>4, <2>3, <4>1
    <3> QED
      BY <3>1, <3>2
  <2>4. CASE outbox' = Tail(outbox)
    <3>1. /\ Len(Tail(outbox)) = Len(outbox) - 1
          /\ \A i \in 1..Len(Tail(outbox)) : Tail(outbox)[i] = outbox[i + 1] /\ i + 1 \in 1..Len(outbox)
          /\ \A i \in 1..Len(outbox) : i # 1 => i - 1 \in 1..Len(Tail(outbox)) /\ Tail(outbox)[i - 1] = outbox[i]
      BY <1>1, <2>1, TailIs
    <3>2. ASSUME NEW i \in 1..Len(outbox'), outbox'[i].type = "manifest",
                 \A j \in 1..Len(outbox') : j > i => outbox'[j].type # "manifest"
          PROVE  outbox'[i].body = b
      <4>1. i + 1 \in 1..Len(outbox) /\ outbox'[i] = outbox[i + 1]
        BY <2>4, <3>1
      <4>2. ASSUME NEW j \in 1..Len(outbox), j > i + 1 PROVE outbox[j].type # "manifest"
        <5>1. j # 1 /\ j - 1 > i
          BY <2>2, <4>1, <4>2
        <5>2. j - 1 \in 1..Len(outbox') /\ outbox'[j - 1] = outbox[j]
          BY <2>4, <3>1, <5>1
        <5> QED
          BY <3>2, <5>1, <5>2
      <4> QED
        BY <1>4, <3>2, <4>1, <4>2 DEF LastIs
    <3>3. ASSUME \A i \in 1..Len(outbox') : outbox'[i].type # "manifest"
          PROVE  \A m \in manifest' : m = b
      <4>1. \A i \in 1..Len(outbox) : i # 1 => outbox[i].type # "manifest"
        BY <2>4, <3>1, <3>3
      <4>2. CASE outbox[1].type = "manifest"
        <5>1. \A j \in 1..Len(outbox) : j > 1 => outbox[j].type # "manifest"
          BY <4>1
        <5>2. outbox[1].body = b
          BY <1>4, <2>2, <4>2, <5>1 DEF LastIs
        <5>3. manifest' = {outbox[1].body}
          BY <1>1, <4>2 DEF Taken
        <5> QED
          BY <5>2, <5>3
      <4>3. CASE outbox[1].type # "manifest"
        <5>1. manifest' = manifest
          BY <1>1, <4>3 DEF Taken
        <5>2. \A i \in 1..Len(outbox) : outbox[i].type # "manifest"
          BY <4>1, <4>3
        <5> QED
          BY <1>4, <5>1, <5>2 DEF LastIs
      <4> QED
        BY <4>2, <4>3
    <3> QED
      BY <3>2, <3>3 DEF LastIs
  <2> QED
    BY <1>1, <2>3, <2>4
<1> QED
  BY <1>2, <1>3, <1>4

LEMMA RestartFaithful ==
    ASSUME BType, Faithful, Backup!Restart
    PROVE  Faithful'
<1>1. /\ UNCHANGED <<entries, outbox, stored, manifest, quarantined, cut, thrown, tampered>>
      /\ \/ mem' = state /\ mem # state /\ UNCHANGED <<state, moved>>
         \/ mem' = Backup!EmptyState /\ state' = Backup!EmptyState /\ moved' = TRUE
  BY RestartTypes
<1> QED
  BY <1>1 DEF Faithful

LEMMA AppendFaithful ==
    ASSUME BType, Faithful, Len(entries') = Len(entries) + 1,
           \A e \in 1..Len(entries) : entries'[e] = entries[e],
           UNCHANGED <<mem, state, outbox, stored, manifest, quarantined, cut, moved, thrown, tampered>>
    PROVE  Faithful'
<1>1. Len(entries) \in Nat /\ mem.covered \in Seq(Entry) /\ Elems(mem.covered) \subseteq 1..Len(entries)
  BY EntryIs DEF BType, StateGood, States
<1>2. AllText(entries') => AllText(entries)
  <2> SUFFICES ASSUME AllText(entries'), NEW e \in 1..Len(entries)
               PROVE  entries[e].kind \in {"text", "big"}
    BY DEF AllText
  <2>1. e \in 1..Len(entries')
    BY <1>1
  <2>2. entries'[e].kind \in {"text", "big"}
    BY <2>1 DEF AllText
  <2> QED
    BY <2>2
<1>3. \A i \in 1..Len(mem.covered) : entries'[mem.covered[i]] = entries[mem.covered[i]]
  BY <1>1 DEF Elems
<1>4. Linked(entries, mem.covered, {}) => Linked(entries', mem.covered, {})
  BY <1>3 DEF Linked
<1> QED
  BY <1>2, <1>4 DEF Faithful

LEMMA TamperFaithful == ASSUME tampered' = TRUE PROVE Faithful'
BY DEF Faithful

\* What Backup says of it: once everything is delivered, the manifest verifies.
LEMMA FaithfulIs == BType /\ Replayed /\ Faithful => Backup!QuietVerifies
<1> SUFFICES ASSUME BType, Replayed, Faithful, outbox = << >>, cut = << >>, ~ moved, ~ thrown,
                    ~ tampered, \A e \in 1..Len(entries) : Backup!IsText(e), NEW m \in manifest
             PROVE  Backup!Verifies(m)
  BY DEF Backup!QuietVerifies
<1>1. AllText(entries)
  BY DEF AllText, Backup!IsText
<1>2. /\ mem = state /\ Numbered(mem.chunks, mem.nextSeq)
      /\ AllPlaced(outbox, stored, mem.chunks) /\ Holds(mem.chunks, mem.covered)
      /\ Linked(entries, mem.covered, {}) /\ LastIs(outbox, manifest, BodyOf(mem))
  BY <1>1 DEF Faithful
<1>3. Bound(outbox, stored, state.nextSeq, DrawnOf(entries, cut))
  BY DEF Replayed
<1>4. m.chunks = mem.chunks /\ m.covered = mem.covered
  <2>1. \A i \in 1..Len(outbox) : FALSE
    OBVIOUS
  <2>2. m = BodyOf(mem)
    BY <1>2, <2>1 DEF LastIs
  <2> QED
    BY <2>2 DEF BodyOf
<1> DEFINE cs == m.chunks
           c == m.covered
<1>5. cs \in Seq(Chunks(Entry)) /\ c \in Seq(Entry) /\ Distinct(c)
  BY <1>4 DEF BType, StateGood, States
<1>6. \A q, x : Placed(outbox, stored, q, x) => q \in DOMAIN stored /\ stored[q] = x
  BY DEF Placed
<1>7. \A i \in 1..Len(cs) : cs[i].seq = i - 1
  BY <1>2, <1>4 DEF Numbered
<1>8. Kept(cs)
  BY <1>2, <1>4, <1>6, <1>7 DEF AllPlaced, Kept
<1>9. /\ ~ Backup!MissingChunk(m) /\ ~ Backup!ChecksumMismatch(m)
      /\ Backup!Delivered(m) = c
  <2>1. Backup!FlattenSeq(Contents(cs)) = c
    BY <1>2, <1>4 DEF Holds
  <2> QED
    BY <1>5, <1>8, <2>1, FoundIs
<1>10. ~ Backup!UnexpectedChunk(m)
  <2> SUFFICES ASSUME NEW x \in Backup!ToSet(cs), x.seq + 1 \in DOMAIN stored,
                      \A y \in Backup!ToSet(cs) : y.seq <= x.seq
               PROVE  FALSE
    BY DEF Backup!UnexpectedChunk
  <2>1. Backup!ToSet(cs) = Elems(cs)
    BY <1>5, ToSetIs
  <2>2. PICK i \in 1..Len(cs) : x = cs[i]
    BY <2>1 DEF Elems
  <2>3. x.seq = i - 1 /\ Len(cs) \in Nat
    BY <1>5, <1>7, <2>2
  <2>4. Placed(outbox, stored, i, stored[i]) /\ i \in DOMAIN stored
    BY <2>3 DEF Placed
  <2>5. ~ Ahead(i, stored[i], state.nextSeq, DrawnOf(entries, cut))
    <3>1. Len(DrawnOf(entries, cut)) = 0
      BY DrawnNothing
    <3> QED
      BY <3>1 DEF Ahead
  <2>6. i < state.nextSeq
    BY <1>3, <2>4, <2>5 DEF Bound
  <2>7. state.nextSeq = Len(cs)
    BY <1>2, <1>4 DEF Numbered
  <2>8. i + 1 \in 1..Len(cs)
    BY <2>3, <2>6, <2>7
  <2>9. cs[i + 1].seq = i /\ cs[i + 1] \in Backup!ToSet(cs)
    BY <1>7, <2>1, <2>8 DEF Elems
  <2>10. i <= i - 1
    BY <2>3, <2>9
  <2> QED
    BY <2>10
<1>11. ~ Backup!DuplicateCoverage(m) /\ ~ Backup!EntryCountMismatch(m) /\ ~ Backup!RangeMismatch(m)
  <2>1. Backup!IsInjective(c)
    BY <1>5, InjectiveIs
  <2> QED
    BY <1>9, <2>1 DEF Backup!DuplicateCoverage, Backup!EntryCountMismatch, Backup!RangeMismatch
<1>12. ~ Backup!UnlinkedParent(m)
  <2> SUFFICES ASSUME NEW i \in 1..Len(c), entries[c[i]].parent # 0
               PROVE  entries[c[i]].parent \in {c[j] : j \in 1..(i - 1)}
    BY <1>9 DEF Backup!UnlinkedParent
  <2> QED
    BY <1>2, <1>4 DEF Linked
<1> QED
  BY <1>9, <1>10, <1>11, <1>12 DEF Backup!Verifies

-----------------------------------------------------------------------------
(***************************************************************************)
(* The invariant of the backup.                                            *)
(***************************************************************************)

BackupInv == BType /\ Somewhere /\ Declared /\ Replayed /\ Faithful

LEMMA TypesAre == BType => Backup!TypeOK
<1> SUFFICES ASSUME BType PROVE Backup!TypeOK
  OBVIOUS
<1>1. States = Backup!States
  BY DEF States, Chunks, Entry, Backup!States, Backup!Content
<1>2. /\ mem \in Backup!States /\ Backup!IsInjective(mem.covered)
      /\ state \in Backup!States /\ Backup!IsInjective(state.covered)
  <2>1. mem \in States /\ Distinct(mem.covered) /\ state \in States /\ Distinct(state.covered)
    BY DEF BType, StateGood
  <2>2. mem.covered \in Seq(Entry) /\ state.covered \in Seq(Entry)
    BY <2>1 DEF States
  <2> QED
    BY <1>1, <2>1, <2>2, InjectiveIs
<1>3. \A i \in 1..Len(outbox) : outbox[i].type \in {"chunk", "manifest"}
  <2> SUFFICES ASSUME NEW i \in 1..Len(outbox) PROVE outbox[i].type \in {"chunk", "manifest"}
    OBVIOUS
  <2>1. outbox[i] \in BoxJobs
    BY DEF BType
  <2> QED
    BY <2>1, BoxJobIs
<1>4. \A q \in DOMAIN stored : q \in Nat /\ stored[q] \in Backup!Content
  BY DEF BType, Entry, Backup!Content
<1>5. Backup!Cardinality(manifest) <= 1
  <2>1. Backup!Cardinality(manifest) = Cardinality(manifest)
    BY DEF Backup!Cardinality, Cardinality
  <2>2. CASE manifest = {}
    BY <2>1, <2>2, FS_EmptySet
  <2>3. CASE \E b \in Bodies : manifest = {b}
    BY <2>1, <2>3, FS_Singleton
  <2> QED
    BY <2>2, <2>3 DEF BType
<1>6. cut \in Backup!Content
  <2>1. cut \in Seq(1..Len(entries)) /\ 1..Len(entries) \subseteq Entry
    BY EntryIs DEF BType
  <2>2. cut \in Seq(Entry)
    BY <2>1, SeqWider
  <2> QED
    BY <2>2 DEF Entry, Backup!Content
<1>7. {moved, thrown, tampered} \subseteq BOOLEAN
  BY DEF BType
<1>8. failures \in 0..MaxBackupFaults /\ entries \in Seq([kind : Backup!Kinds, parent : 0..MaxEntries])
  BY DEF BType
<1> QED
  BY <1>2, <1>3, <1>4, <1>5, <1>6, <1>7, <1>8 DEF Backup!TypeOK

LEMMA BackupStarts == Backup!Init => BackupInv
<1> SUFFICES ASSUME Backup!Init PROVE BackupInv
  OBVIOUS
<1>1. /\ entries = << >> /\ mem = Backup!EmptyState /\ state = Backup!EmptyState
      /\ outbox = << >> /\ stored = << >> /\ manifest = {} /\ quarantined = {}
      /\ failures = 0 /\ cut = << >> /\ moved = FALSE /\ thrown = FALSE /\ tampered = FALSE
  BY DEF Backup!Init
<1>2. MaxEntries \in Nat /\ MaxBackupFaults \in Nat
  BY BackupAssumption DEF Backup!BoundsAssumption
<1>3. /\ mem = StateOf(<< >>, 0, << >>) /\ state = mem
      /\ StateGood(mem, Len(entries)) /\ StateGood(state, Len(entries))
  BY <1>1, EmptyIs
<1>4. mem.covered = << >> /\ mem.nextSeq = 0 /\ mem.chunks = << >>
  BY <1>3 DEF StateOf
<1>5. DOMAIN stored = {} /\ Len(entries) = 0 /\ Len(outbox) = 0
  BY <1>1
<1>6. BType
  <2>1. Tree(entries)
    BY <1>5 DEF Tree
  <2>2. stored \in [DOMAIN stored -> Seq(Entry)] /\ DOMAIN stored \subseteq Nat
    BY <1>1, <1>5
  <2>3. /\ entries \in Seq([kind : Backup!Kinds, parent : 0..MaxEntries])
        /\ Len(entries) <= MaxEntries /\ outbox \in Seq(BoxJobs) /\ cut \in Seq(1..Len(entries))
        /\ failures \in 0..MaxBackupFaults
    BY <1>1, <1>2, <1>5
  <2>4. quarantined \subseteq ChunkJobs /\ moved \in BOOLEAN /\ thrown \in BOOLEAN /\ tampered \in BOOLEAN
    BY <1>1
  <2> QED
    BY <1>1, <1>3, <2>1, <2>2, <2>3, <2>4 DEF BType
<1>7. Somewhere
  <2>1. Elems(mem.covered) \cup Elems(state.covered) = {}
    BY <1>3, <1>4 DEF Elems
  <2> QED
    BY <2>1 DEF Somewhere
<1>8. Declared
  <2>1. \A i \in 1..Len(mem.chunks) : FALSE
    BY <1>4
  <2>2. Sorted(mem) /\ Sorted(state)
    BY <1>3, <2>1 DEF Sorted, Filled
  <2> QED
    BY <1>1, <1>5, <2>2 DEF Declared
<1>9. \A q, c : ~ Placed(outbox, stored, q, c)
  BY <1>5 DEF Placed
<1>10. Replayed
  <2>1. Agree(outbox, stored) /\ Bound(outbox, stored, state.nextSeq, DrawnOf(entries, cut))
    BY <1>9 DEF Agree, Bound
  <2>2. Advances(mem, state, entries, cut)
    BY <1>3 DEF Advances
  <2> QED
    BY <1>1, <2>1, <2>2 DEF Replayed
<1>11. Faithful
  <2>1. Numbered(mem.chunks, mem.nextSeq) /\ AllPlaced(outbox, stored, mem.chunks)
    BY <1>4 DEF Numbered, AllPlaced
  <2>2. Contents(mem.chunks) = << >>
    BY <1>4 DEF Contents
  <2>3. Holds(mem.chunks, mem.covered)
    BY <1>4, <2>2, FlattenNothing DEF Holds
  <2>4. Linked(entries, mem.covered, {})
    BY <1>4 DEF Linked
  <2>5. LastIs(outbox, manifest, BodyOf(mem))
    BY <1>1, <1>5 DEF LastIs
  <2> QED
    BY <1>3, <2>1, <2>3, <2>4, <2>5 DEF Faithful
<1> QED
  BY <1>6, <1>7, <1>8, <1>10, <1>11 DEF BackupInv

LEMMA BackupStep ==
    ASSUME BackupInv, Backup!Next
    PROVE  BackupInv'
<1>1. BType /\ Somewhere /\ Declared /\ Replayed /\ Faithful
  BY DEF BackupInv
<1>2. ASSUME NEW kind \in Backup!Kinds, NEW parent \in 0..Len(entries), Backup!AppendEntry(kind, parent)
      PROVE  BackupInv'
  <2>1. /\ BType' /\ Len(entries') = Len(entries) + 1
        /\ \A e \in 1..Len(entries) : entries'[e] = entries[e]
        /\ UNCHANGED <<mem, state, outbox, stored, manifest, quarantined, cut, moved,
                       thrown, tampered>>
    BY <1>1, <1>2, AppendTypes
  <2>2. Somewhere'
    BY <1>1, <2>1, AppendSomewhere
  <2>3. Declared'
    BY <1>1, <2>1, OtherDeclared
  <2>4. Replayed'
    BY <1>1, <2>1, AppendReplayed
  <2>5. Faithful'
    BY <1>1, <2>1, AppendFaithful
  <2> QED
    BY <2>1, <2>2, <2>3, <2>4, <2>5 DEF BackupInv
<1>3. ASSUME NEW view \in Backup!Deliveries,
             Backup!Capture(view) \/ Backup!CaptureThrows(view) \/ Backup!CaptureDies(view)
      PROVE  BackupInv'
  <2>1. PICK f, k : FlushStep(f, k)
    BY <1>1, <1>3, CaptureIs
  <2>2. BType'
    BY <1>1, <2>1, FlushTypes
  <2>3. Somewhere'
    BY <1>1, <2>1, FlushSomewhere
  <2>4. Declared'
    BY <1>1, <2>1, FlushDeclared
  <2>5. Replayed'
    BY <1>1, <2>1, FlushReplayed
  <2>6. Faithful'
    BY <1>1, <2>1, FlushFaithful
  <2> QED
    BY <2>2, <2>3, <2>4, <2>5, <2>6 DEF BackupInv
<1>4. ASSUME Backup!Restart PROVE BackupInv'
  <2>1. BType'
    BY <1>1, <1>4, RestartTypes
  <2>2. Somewhere'
    BY <1>1, <1>4, RestartSomewhere
  <2>3. Declared'
    BY <1>1, <1>4, RestartDeclared
  <2>4. Replayed'
    BY <1>1, <1>4, RestartReplayed
  <2>5. Faithful'
    BY <1>1, <1>4, RestartFaithful
  <2> QED
    BY <2>1, <2>2, <2>3, <2>4, <2>5 DEF BackupInv
<1>5. ASSUME Backup!Deliver PROVE BackupInv'
  <2>1. BType'
    BY <1>1, <1>5, DeliverTypes
  <2>2. Somewhere'
    BY <1>1, <1>5, DeliverSomewhere
  <2>3. Declared'
    BY <1>1, <1>5, DeliverDeclared
  <2>4. Replayed'
    BY <1>1, <1>5, DeliverReplayed
  <2>5. Faithful'
    BY <1>1, <1>5, DeliverFaithful
  <2> QED
    BY <2>1, <2>2, <2>3, <2>4, <2>5 DEF BackupInv
<1>6. ASSUME NEW q, Backup!Tamper(q) PROVE BackupInv'
  <2>1. /\ BType' /\ tampered' = TRUE
        /\ UNCHANGED <<entries, mem, state, outbox, manifest, quarantined, cut, moved, thrown>>
    BY <1>1, <1>6, TamperTypes
  <2>2. Somewhere'
    BY <2>1 DEF Somewhere
  <2>3. Declared'
    BY <1>1, <2>1, OtherDeclared
  <2>4. Replayed' /\ Faithful'
    BY <2>1, TamperReplayed, TamperFaithful
  <2> QED
    BY <2>1, <2>2, <2>3, <2>4 DEF BackupInv
<1> QED
  BY <1>2, <1>3, <1>4, <1>5, <1>6 DEF Backup!Next

LEMMA BackupAlways == MCSpec => []BackupInv
<1>1. MCInit => BackupInv
  BY BackupStarts DEF MCInit
<1>2. BackupInv /\ [MCNext]_<<part, vars, captureVars, exportVars>> => BackupInv'
  <2> SUFFICES ASSUME BackupInv, [MCNext]_<<part, vars, captureVars, exportVars>> PROVE BackupInv'
    OBVIOUS
  <2>1. CASE Backup!Next
    BY <2>1, BackupStep
  <2>2. CASE UNCHANGED captureVars
    <3>1. UNCHANGED <<entries, mem, state, outbox, stored, manifest, quarantined,
                      failures, cut, moved, thrown, tampered>>
      BY <2>2 DEF captureVars
    <3>2. BType'
      BY <3>1 DEF BackupInv, BType
    <3>3. Somewhere'
      BY <3>1 DEF BackupInv, Somewhere, Safe
    <3>4. Declared'
      BY <3>1 DEF BackupInv, Declared
    <3>5. Replayed'
      BY <3>1 DEF BackupInv, Replayed
    <3>6. Faithful'
      BY <3>1 DEF BackupInv, Faithful
    <3> QED
      BY <3>2, <3>3, <3>4, <3>5, <3>6 DEF BackupInv
  <2> QED
    BY <2>1, <2>2 DEF MCNext
<1> QED
  BY <1>1, <1>2, PTL DEF MCSpec

-----------------------------------------------------------------------------
(***************************************************************************)
(* The export: the paths of a copy, one after the other.                   *)
(***************************************************************************)

\* The paths of the copy, without the way they are computed.
LEMMA CopyPaths ==
    /\ Copy!Files \cap Copy!Directories = {}
    /\ Copy!Paths = Copy!Files \cup Copy!Directories
    /\ "destination" \in Copy!Directories /\ "chunks" \in Copy!Directories
    /\ \A d \in Copy!Directories : d = "destination" \/ d = "chunks"
    /\ Copy!Inside("chunks") \subseteq Copy!Files
    /\ "destination" \notin Copy!Inside("destination")
    /\ \A d : Copy!Inside(d) = {p \in Copy!Paths \ {"destination"} :
                                    Copy!Parent(p) = d /\ owner[p] # "none"}
<1> DEFINE C == <<"000000", "000001">>
<1>1. Len(C) = 2 /\ C[1] = "000000" /\ C[2] = "000001"
  OBVIOUS
<1>2. Copy!ChunkPaths = {"000000", "000001"}
  BY <1>1 DEF Copy!ChunkPaths
<1>3. Copy!Files = {"manifest", "summary", "000000", "000001"}
  BY <1>2 DEF Copy!Files
<1>4. Copy!Directories = {"destination", "chunks"}
  BY DEF Copy!Directories
<1> QED
  BY <1>2, <1>3, <1>4 DEF Copy!Paths, Copy!Inside, Copy!Parent

LEMMA JoinedThree ==
    ASSUME NEW R, NEW s \in Seq(R), NEW t \in Seq(R), NEW u \in Seq(R),
           NEW v, v = s \o t, NEW w, w = v \o u
    PROVE  /\ w \in Seq(R) /\ Len(w) = Len(s) + Len(t) + Len(u)
           /\ \A i \in 1..Len(s) : w[i] = s[i]
           /\ \A i \in 1..Len(t) : w[Len(s) + i] = t[i]
           /\ \A i \in 1..Len(u) : w[Len(s) + Len(t) + i] = u[i]
<1>1. /\ v \in Seq(R) /\ Len(v) = Len(s) + Len(t)
      /\ \A i \in 1..Len(s) : v[i] = s[i]
      /\ \A i \in 1..Len(t) : v[Len(s) + i] = t[i]
  BY Joined
<1>2. /\ w \in Seq(R) /\ Len(w) = Len(v) + Len(u)
      /\ \A i \in 1..Len(v) : w[i] = v[i]
      /\ \A i \in 1..Len(u) : w[Len(v) + i] = u[i]
  BY <1>1, Joined
<1>3. Len(s) \in Nat /\ Len(t) \in Nat /\ Len(u) \in Nat
  OBVIOUS
<1>4. \A i \in 1..Len(s) : i \in 1..Len(v)
  BY <1>1, <1>3
<1>5. \A i \in 1..Len(t) : Len(s) + i \in 1..Len(v)
  BY <1>1, <1>3
<1> QED
  BY <1>1, <1>2, <1>3, <1>4, <1>5

\* The order in which they are created leaves none of them out.
LEMMA OrderIsWhole ==
    /\ Copy!Order \in Seq(Copy!Paths) /\ Copy!Order # << >>
    /\ \A p \in Copy!Paths : \E i \in 1..Len(Copy!Order) : Copy!Order[i] = p
<1> DEFINE C == <<"000000", "000001">>
<1>1. Len(C) = 2 /\ C[1] = "000000" /\ C[2] = "000001"
  OBVIOUS
<1>2. Copy!ChunkPaths = {"000000", "000001"}
  BY <1>1 DEF Copy!ChunkPaths
<1>3. Copy!Paths = {"manifest", "summary", "000000", "000001", "destination", "chunks"}
  BY <1>2 DEF Copy!Paths, Copy!Files, Copy!Directories
<1> DEFINE A == <<"destination", "manifest", "chunks">>
           B == <<"summary">>
<1>4. /\ A \in Seq(Copy!Paths) /\ Len(A) = 3
      /\ A[1] = "destination" /\ A[2] = "manifest" /\ A[3] = "chunks"
  BY <1>3
<1>5. B \in Seq(Copy!Paths) /\ Len(B) = 1 /\ B[1] = "summary"
  BY <1>3
<1>6. C \in Seq(Copy!Paths)
  BY <1>3
<1>7. \A v, w : v = A \o C /\ w = v \o B =>
        /\ w \in Seq(Copy!Paths) /\ Len(w) = Len(A) + Len(C) + Len(B)
        /\ \A i \in 1..Len(A) : w[i] = A[i]
        /\ \A i \in 1..Len(C) : w[Len(A) + i] = C[i]
        /\ \A i \in 1..Len(B) : w[Len(A) + Len(C) + i] = B[i]
  BY <1>4, <1>5, <1>6, JoinedThree
<1>8. Copy!Order = (A \o C) \o B
  BY DEF Copy!Order
<1> DEFINE O == Copy!Order
<1> HIDE DEF A, B, C
<1>9. /\ O \in Seq(Copy!Paths) /\ Len(O) = Len(A) + Len(C) + Len(B)
      /\ \A i \in 1..Len(A) : O[i] = A[i]
      /\ \A i \in 1..Len(C) : O[Len(A) + i] = C[i]
      /\ \A i \in 1..Len(B) : O[Len(A) + Len(C) + i] = B[i]
  BY <1>7, <1>8
<1> HIDE DEF O
<1>10. /\ O \in Seq(Copy!Paths) /\ Len(O) = 6
       /\ O[1] = "destination" /\ O[2] = "manifest" /\ O[3] = "chunks"
       /\ O[4] = "000000" /\ O[5] = "000001" /\ O[6] = "summary"
  BY <1>1, <1>4, <1>5, <1>9
<1>11. ASSUME NEW p \in Copy!Paths PROVE \E i \in 1..Len(O) : O[i] = p
  <2>1. \E i \in 1..6 : O[i] = p
    BY <1>3, <1>10
  <2> QED
    BY <1>10, <2>1
<1>12. O # << >>
  BY <1>10
<1> QED
  BY <1>10, <1>11, <1>12 DEF O

\* What is still to be created, and what the ledger knows of what was: all that
\* the cleanup and the report of success rely on.
CopyInv ==
    /\ Copy!TypeOK
    /\ todo \in Seq(Copy!Paths)
    /\ outcome = "running" =>
         \A p \in Copy!Paths : owner[p] = "ours" \/ \E i \in 1..Len(todo) : todo[i] = p
    /\ outcome \in {"running", "cleaning"} =>
         \A p \in Copy!Files : owner[p] = "ours" => p \in ledger
    /\ Copy!FailureLeavesNothing
    /\ Copy!DoneIsOurs

LEMMA CopyStarts == Copy!Init => CopyInv
<1> SUFFICES ASSUME Copy!Init PROVE CopyInv
  OBVIOUS
<1>1. MaxPlants \in Nat
  BY BackupAssumption DEF Copy!BoundsAssumption
<1>2. /\ owner \in [Copy!Paths -> {"none", "ours", "theirs"}] /\ todo = Copy!Order
      /\ ledger = {} /\ outcome = "running" /\ plants = 0
      /\ \A p \in Copy!Paths : owner[p] = "none"
  BY DEF Copy!Init
<1>3. Copy!TypeOK
  BY <1>1, <1>2 DEF Copy!TypeOK
<1> QED
  BY <1>2, <1>3, OrderIsWhole, CopyPaths DEF CopyInv, Copy!FailureLeavesNothing, Copy!DoneIsOurs

\* One step of the copy, of its failure or of somebody else.
LEMMA CopyCreates ==
    ASSUME CopyInv, Copy!Create
    PROVE  CopyInv' /\ Copy!KeepsForeign
<1> DEFINE h == Head(todo)
           rest == Tail(todo)
<1>1. /\ todo \in Seq(Copy!Paths) /\ todo # << >> /\ outcome = "running"
      /\ owner \in [Copy!Paths -> {"none", "ours", "theirs"}]
      /\ owner[h] = "none" /\ owner' = [owner EXCEPT ![h] = "ours"]
      /\ ledger' = ledger \cup ({h} \cap Copy!Files) /\ plants' = plants
      /\ \/ todo' = rest /\ outcome' = (IF rest = << >> THEN "done" ELSE "running")
         \/ h \in Copy!Files /\ todo' = << >> /\ outcome' = "cleaning"
  BY DEF CopyInv, Copy!TypeOK, Copy!Create
<1>2. /\ h \in Copy!Paths /\ rest \in Seq(Copy!Paths)
      /\ \A p : (\E i \in 1..Len(todo) : todo[i] = p)
                   => p = h \/ \E i \in 1..Len(rest) : rest[i] = p
  BY <1>1, TailOf
<1> HIDE DEF h, rest
<1>3. /\ owner' \in [Copy!Paths -> {"none", "ours", "theirs"}]
      /\ owner'[h] = "ours" /\ \A p \in Copy!Paths : p # h => owner'[p] = owner[p]
  BY <1>1, <1>2
<1>4. Copy!TypeOK'
  <2>1. ledger' \subseteq {p \in Copy!Files : owner'[p] = "ours"}
    BY <1>1, <1>3, CopyPaths DEF CopyInv, Copy!TypeOK
  <2>2. outcome' \in {"running", "cleaning", "refused", "failed", "done"} /\ plants' \in 0..MaxPlants
    BY <1>1 DEF CopyInv, Copy!TypeOK
  <2> QED
    BY <1>3, <2>1, <2>2 DEF Copy!TypeOK
<1>5. todo' \in Seq(Copy!Paths)
  <2>1. << >> \in Seq(Copy!Paths)
    OBVIOUS
  <2> QED
    BY <1>1, <1>2, <2>1
<1>6. \A p \in Copy!Paths : owner'[p] = "ours" \/ \E i \in 1..Len(rest) : rest[i] = p
  BY <1>1, <1>2, <1>3 DEF CopyInv
<1>7. outcome' = "running" => todo' = rest
  BY <1>1
<1>8. Copy!DoneIsOurs'
  <2>1. rest = << >> => \A p \in Copy!Paths : owner'[p] = "ours"
    BY <1>6
  <2> QED
    BY <1>1, <2>1 DEF Copy!DoneIsOurs
<1>9. \A p \in Copy!Files : owner'[p] = "ours" => p \in ledger'
  BY <1>1, <1>3, CopyPaths DEF CopyInv
<1>10. Copy!FailureLeavesNothing'
  BY <1>1 DEF Copy!FailureLeavesNothing
<1>11. Copy!KeepsForeign
  BY <1>1, <1>3, CopyPaths DEF Copy!KeepsForeign
<1> QED
  BY <1>4, <1>5, <1>6, <1>7, <1>8, <1>9, <1>10, <1>11 DEF CopyInv

LEMMA CopyStops ==
    ASSUME CopyInv, Copy!Refuse \/ Copy!Fail
    PROVE  CopyInv' /\ Copy!KeepsForeign
<1>1. /\ owner' = owner /\ ledger' = ledger /\ plants' = plants /\ todo' = << >>
      /\ outcome = "running" /\ outcome' \in {"refused", "cleaning"}
  BY DEF Copy!Refuse, Copy!Fail
<1>2. << >> \in Seq(Copy!Paths)
  OBVIOUS
<1>3. CopyInv'
  BY <1>1, <1>2 DEF CopyInv, Copy!TypeOK, Copy!FailureLeavesNothing, Copy!DoneIsOurs
<1> QED
  BY <1>1, <1>3 DEF Copy!KeepsForeign

\* The cleanup leaves what others put in the way, and a directory of ours only
\* where they did.
LEMMA CopyCleansUp ==
    ASSUME CopyInv, Copy!Cleanup
    PROVE  CopyInv' /\ Copy!KeepsForeign
<1> DEFINE empty == Copy!EmptiedBy(ledger)
           gone == ledger \cup empty
<1>1. /\ outcome = "cleaning" /\ outcome' = "failed" /\ ledger' = {}
      /\ todo' = todo /\ plants' = plants
      /\ owner' = [p \in Copy!Paths |-> IF p \in gone THEN "none" ELSE owner[p]]
  BY DEF Copy!Cleanup, Copy!RemoveAll
<1>2. /\ empty \subseteq Copy!Directories
      /\ "chunks" \notin empty => owner["chunks"] = "none" \/ ~ Copy!Inside("chunks") \subseteq ledger
      /\ "destination" \notin empty => ~ Copy!Inside("destination") \subseteq gone
  BY CopyPaths DEF Copy!EmptiedBy
<1> HIDE DEF empty
<1>3. /\ owner \in [Copy!Paths -> {"none", "ours", "theirs"}]
      /\ ledger \subseteq {p \in Copy!Files : owner[p] = "ours"} /\ plants \in 0..MaxPlants
      /\ \A p \in Copy!Files : owner[p] = "ours" => p \in ledger
      /\ todo \in Seq(Copy!Paths)
  BY <1>1 DEF CopyInv, Copy!TypeOK
<1>4. /\ owner' \in [Copy!Paths -> {"none", "ours", "theirs"}]
      /\ \A p \in Copy!Paths : owner'[p] = IF p \in gone THEN "none" ELSE owner[p]
  BY <1>1, <1>3
<1>5. \A p \in Copy!Files : p \in Copy!Paths /\ (p \in gone <=> p \in ledger)
  BY <1>2, CopyPaths
<1>6. \A p \in Copy!Files : owner'[p] # "ours"
  BY <1>3, <1>4, <1>5
<1>7. \A d, p : p \in Copy!Inside(d)' <=>
                  /\ p \in Copy!Paths \ {"destination"} /\ Copy!Parent(p) = d
                  /\ owner'[p] # "none"
  BY DEF Copy!Inside
<1>8. ASSUME owner'["chunks"] = "ours" PROVE Copy!Inside("chunks")' # {}
  <2>1. "chunks" \notin gone /\ owner["chunks"] = "ours"
    BY <1>4, <1>8, CopyPaths
  <2>2. PICK p \in Copy!Inside("chunks") : p \notin ledger
    BY <1>2, <2>1
  <2>3. p \in Copy!Files /\ p \notin gone /\ Copy!Parent(p) = "chunks"
        /\ p \in Copy!Paths \ {"destination"} /\ owner[p] # "none"
    BY <1>5, <2>2, CopyPaths
  <2> QED
    BY <1>4, <1>7, <2>3
<1>9. ASSUME owner'["destination"] = "ours" PROVE Copy!Inside("destination")' # {}
  <2>1. "destination" \notin gone
    BY <1>4, <1>9, CopyPaths
  <2>2. PICK p \in Copy!Inside("destination") : p \notin gone
    BY <1>2, <2>1
  <2>3. /\ p \in Copy!Paths \ {"destination"} /\ Copy!Parent(p) = "destination"
        /\ owner[p] # "none"
    BY <2>2, CopyPaths
  <2> QED
    BY <1>4, <1>7, <2>2, <2>3
<1>10. Copy!FailureLeavesNothing'
  <2>1. \A d \in Copy!Directories : owner'[d] = "ours" => Copy!Inside(d)' # {}
    BY <1>8, <1>9, CopyPaths
  <2> QED
    BY <1>6, <2>1 DEF Copy!FailureLeavesNothing
<1>11. Copy!TypeOK' /\ Copy!DoneIsOurs'
  BY <1>1, <1>3, <1>4 DEF Copy!TypeOK, Copy!DoneIsOurs
<1>12. Copy!KeepsForeign
  BY <1>3, <1>4, <1>5 DEF Copy!KeepsForeign
<1> QED
  BY <1>1, <1>3, <1>10, <1>11, <1>12 DEF CopyInv

LEMMA CopyMeets ==
    ASSUME CopyInv, NEW q \in Copy!Paths, Copy!Plant(q)
    PROVE  CopyInv' /\ Copy!KeepsForeign
<1>1. /\ plants < MaxPlants /\ plants' = plants + 1 /\ owner[q] = "none"
      /\ owner' = [owner EXCEPT ![q] = "theirs"]
      /\ todo' = todo /\ ledger' = ledger /\ outcome' = outcome
  BY DEF Copy!Plant
<1>2. /\ owner \in [Copy!Paths -> {"none", "ours", "theirs"}]
      /\ ledger \subseteq {p \in Copy!Files : owner[p] = "ours"} /\ plants \in 0..MaxPlants
      /\ outcome \in {"running", "cleaning", "refused", "failed", "done"}
  BY DEF CopyInv, Copy!TypeOK
<1>3. /\ owner' \in [Copy!Paths -> {"none", "ours", "theirs"}]
      /\ owner'[q] = "theirs" /\ \A p \in Copy!Paths : p # q => owner'[p] = owner[p]
  BY <1>1, <1>2
<1>4. Copy!TypeOK'
  <2>1. plants' \in 0..MaxPlants
    BY <1>1, <1>2, BackupAssumption DEF Copy!BoundsAssumption
  <2>2. ledger' \subseteq {p \in Copy!Files : owner'[p] = "ours"}
    BY <1>1, <1>2, <1>3, CopyPaths
  <2> QED
    BY <1>1, <1>2, <1>3, <2>1, <2>2 DEF Copy!TypeOK
<1>5. \A d, p : p \in Copy!Inside(d) => p \in Copy!Inside(d)'
  <2>1. \A d, p : p \in Copy!Inside(d)' <=>
                  /\ p \in Copy!Paths \ {"destination"} /\ Copy!Parent(p) = d
                  /\ owner'[p] # "none"
    BY DEF Copy!Inside
  <2> QED
    BY <1>3, <2>1, CopyPaths
<1>6. Copy!FailureLeavesNothing'
  <2>1. ASSUME outcome = "failed", NEW d \in Copy!Directories, owner'[d] = "ours"
        PROVE  Copy!Inside(d)' # {}
    <3>1. owner[d] = "ours"
      BY <1>3, <2>1, CopyPaths
    <3>2. Copy!Inside(d) # {}
      BY <2>1, <3>1 DEF CopyInv, Copy!FailureLeavesNothing
    <3> QED
      BY <1>5, <3>2
  <2>2. outcome = "failed" => \A p \in Copy!Files : owner'[p] # "ours"
    BY <1>3, CopyPaths DEF CopyInv, Copy!FailureLeavesNothing
  <2> QED
    BY <1>1, <2>1, <2>2 DEF Copy!FailureLeavesNothing
<1>7. Copy!DoneIsOurs' /\ Copy!KeepsForeign
  BY <1>1, <1>3, CopyPaths DEF CopyInv, Copy!DoneIsOurs, Copy!KeepsForeign
<1>8. /\ todo' \in Seq(Copy!Paths)
      /\ outcome' = "running" =>
           \A p \in Copy!Paths : owner'[p] = "ours" \/ \E i \in 1..Len(todo') : todo'[i] = p
      /\ outcome' \in {"running", "cleaning"} =>
           \A p \in Copy!Files : owner'[p] = "ours" => p \in ledger'
  BY <1>1, <1>3, CopyPaths DEF CopyInv
<1> QED
  BY <1>4, <1>6, <1>7, <1>8 DEF CopyInv

\* The steps of the other two parts do not touch the copy.
LEMMA CopyStep ==
    ASSUME CopyInv, [MCNext]_<<part, vars, captureVars, exportVars>>
    PROVE  CopyInv' /\ Copy!KeepsForeign
<1>1. ASSUME UNCHANGED exportVars PROVE CopyInv' /\ Copy!KeepsForeign
  <2>1. Copy!Inside("chunks")' = Copy!Inside("chunks")
        /\ Copy!Inside("destination")' = Copy!Inside("destination")
    BY <1>1 DEF exportVars, Copy!Inside
  <2> QED
    BY <1>1, <2>1, CopyPaths DEF exportVars, CopyInv, Copy!TypeOK, Copy!FailureLeavesNothing,
        Copy!DoneIsOurs, Copy!KeepsForeign
<1>2. ASSUME Copy!Next PROVE CopyInv' /\ Copy!KeepsForeign
  BY <1>2, CopyCreates, CopyStops, CopyCleansUp, CopyMeets DEF Copy!Next
<1> QED
  BY <1>1, <1>2 DEF MCNext

-----------------------------------------------------------------------------
(***************************************************************************)
(* The chunks that are stored.                                             *)
(***************************************************************************)

\* A chunk is written where there was none; only Tamper changes one.
LEMMA StoredStays ==
    ASSUME [MCNext]_<<part, vars, captureVars, exportVars>>
    PROVE  Backup!KeepsStored
<1>1. ASSUME UNCHANGED stored PROVE Backup!KeepsStored
  BY <1>1 DEF Backup!KeepsStored
<1>2. ASSUME NEW view, Backup!Capture(view) \/ Backup!CaptureThrows(view) \/ Backup!CaptureDies(view)
      PROVE  UNCHANGED stored
  BY <1>2 DEF Backup!Capture, Backup!CaptureThrows, Backup!CaptureDies, Backup!remote
<1>3. ASSUME Backup!Deliver PROVE Backup!KeepsStored
  <2>1. Backup!Store(Head(outbox))
    BY <1>3 DEF Backup!Deliver
  <2> DEFINE job == Head(outbox)
  <2> HIDE DEF job
  <2>2. \/ UNCHANGED stored
        \/ /\ job.seq \notin DOMAIN stored
           /\ stored' = [q \in DOMAIN stored \cup {job.seq} |->
                            IF q = job.seq THEN job.content ELSE stored[q]]
    BY <2>1 DEF Backup!Store, job
  <2> QED
    BY <1>1, <2>2 DEF Backup!KeepsStored
<1>4. ASSUME NEW q, Backup!Tamper(q) PROVE Backup!KeepsStored
  BY <1>4 DEF Backup!Tamper, Backup!KeepsStored
<1>5. ASSUME Backup!Next PROVE Backup!KeepsStored
  BY <1>1, <1>2, <1>3, <1>4, <1>5
     DEF Backup!Next, Backup!AppendEntry, Backup!Restart, Backup!remote
<1> QED
  BY <1>1, <1>5 DEF MCNext, captureVars

-----------------------------------------------------------------------------
(* What the parts show together.                                           *)

LEMMA CopyAlways ==
    MCSpec => [](CopyInv) /\ [][Backup!KeepsStored /\ Copy!KeepsForeign]_<<captureVars, exportVars>>
<1>1. MCInit => CopyInv
  BY CopyStarts DEF MCInit
<1>2. CopyInv /\ [MCNext]_<<part, vars, captureVars, exportVars>>
        => CopyInv' /\ [Backup!KeepsStored /\ Copy!KeepsForeign]_<<captureVars, exportVars>>
  BY CopyStep, StoredStays
<1> QED
  BY <1>1, <1>2, PTL DEF MCSpec

\* The export of a backup is all or nothing (verify.ts:540-653): one that failed
\* leaves no file of its own, nor a directory of its own that is empty, and one
\* that is reported done consists of paths this call created and no other.
THEOREM ExportIsAllOrNothing == MCSpec => []Copy!ExportSafety
<1>1. CopyInv => Copy!ExportSafety
  BY DEF CopyInv, Copy!ExportSafety
<1> QED
  BY <1>1, CopyAlways, PTL

\* Neither a stored chunk nor a file of others in the export's way is ever
\* written over or removed (capture.ts:259-304, verify.ts:507-532).
THEOREM BackupSparesOthers == MCSpec => BackupKeepsOthers
BY CopyAlways, PTL DEF BackupKeepsOthers

\* From entry to verified backup, and from there to an exported copy: what the
\* cursor counts as covered is in a queued chunk, stored, or refused, a replay of
\* a flush cut short is never refused, what verification accepts is whole, and a
\* quiet session of text verifies (capture.ts:8-21, 665-669, chunker.ts:65-69,
\* verify.ts:350-483); a failed copy leaves nothing behind (verify.ts:606-624).
THEOREM BackupIsSafe == MCSpec => []BackupSafety
<1>1. BackupInv => Backup!BackupSafety
  BY TypesAre, SomewhereIs, ReplayedIs, DeclaredIs, FaithfulIs DEF BackupInv, Backup!BackupSafety
<1> QED
  BY <1>1, BackupAlways, ExportIsAllOrNothing, PTL DEF BackupSafety

=============================================================================
