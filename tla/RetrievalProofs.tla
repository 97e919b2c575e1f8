----------------------------- MODULE RetrievalProofs -----------------------------
(***************************************************************************)
(* Proofs about Chunking and Retrieval, for every document, every number   *)
(* of results, and whatever the searches, the reranker and the answer are. *)
(* First what the recursive definitions compute, then the chunkers, the    *)
(* order of what is retrieved, the context, and the citations.             *)
(***************************************************************************)
EXTENDS Retrieval, WellFoundedInduction, FiniteSetTheorems, TLAPS

-----------------------------------------------------------------------------
(* Induction and recursion over an index *)

(* A set of numbers that is not empty has a least one, *)
LEMMA Least ==
  ASSUME NEW T, T \subseteq Nat, T # {}
  PROVE  \E n \in T : \A k \in T : n <= k
<1>1. PICK n \in T : \A k \in T : <<k, n>> \notin OpToRel(<, Nat)
  BY WFMin, NatLessThanWellFounded, Zenon
<1>2. \A k \in T : ~(k < n)
  BY <1>1, Zenon DEF OpToRel
<1>3. QED
  BY <1>2

(* and a bounded one a greatest. *)
LEMMA Greatest ==
  ASSUME NEW T, T \subseteq Nat, T # {}, NEW m \in Nat, \A n \in T : n <= m
  PROVE  \E n \in T : \A k \in T : k <= n
<1> DEFINE rests == {m - n : n \in T}
<1>1. rests \subseteq Nat /\ rests # {}
  <2>1. \A n \in T : m - n \in Nat
    OBVIOUS
  <2>2. QED
    BY <2>1
<1> HIDE DEF rests
<1>2. PICK r \in rests : \A k \in rests : r <= k
  BY <1>1, Least
<1> USE DEF rests
<1>3. PICK n \in T : r = m - n
  BY <1>2
<1>4. ASSUME NEW k \in T PROVE k <= n
  <2>1. m - k \in rests
    OBVIOUS
  <2>2. m - n <= m - k /\ n \in Nat /\ k \in Nat
    BY <1>2, <1>3, <2>1
  <2>3. QED
    BY <2>2
<1>5. QED
  BY <1>4

(* A set with 0 and with the successor of each of its numbers below N has   *)
(* all numbers to N: otherwise there is a least that it has not.            *)
LEMMA Induct ==
  ASSUME NEW N \in Nat, NEW T, 0 \in T, \A i \in 1..N : i - 1 \in T => i \in T
  PROVE  0..N \subseteq T
<1> DEFINE missing == {i \in 0..N : i \notin T}
<1>1. SUFFICES ASSUME missing # {} PROVE FALSE
  BY <1>1
<1>2. PICK n \in missing : \A k \in missing : n <= k
  <2>1. missing \subseteq Nat
    OBVIOUS
  <2> HIDE DEF missing
  <2>2. QED
    BY <1>1, <2>1, Least
<1>3. n \in 1..N /\ n - 1 \in 0..N /\ n - 1 \notin missing
  BY <1>2
<1>4. QED
  BY <1>2, <1>3

(* The states that a step for each index goes through, from b *)
Iterates(f, N, S, b, Step) ==
  f \in [0..N -> S] /\ f[0] = b /\ \A i \in 1..N : f[i] = Step[i][f[i - 1]]

(* There are such states. *)
LEMMA Recursion ==
  ASSUME NEW N \in Nat, NEW S, NEW b \in S, NEW Step \in [1..N -> [S -> S]]
  PROVE  \E f : Iterates(f, N, S, b, Step)
<1> DEFINE T == {n \in 0..N : \E f : Iterates(f, n, S, b, Step)}
<1>1. 0 \in T
  <2> DEFINE f == [i \in 0..0 |-> b]
  <2>1. Iterates(f, 0, S, b, Step) /\ 0 \in 0..N
    BY DEF Iterates
  <2> HIDE DEF f
  <2>2. QED
    BY <2>1
<1>2. ASSUME NEW n \in 1..N, n - 1 \in T PROVE n \in T
  <2>1. PICK f : Iterates(f, n - 1, S, b, Step)
    BY <1>2
  <2>2. f \in [0..(n - 1) -> S]
    BY <2>1 DEF Iterates
  <2>3. f[n - 1] \in S /\ Step[n][f[n - 1]] \in S
    BY <2>2
  <2> DEFINE g == [i \in 0..n |-> IF i = n THEN Step[n][f[n - 1]] ELSE f[i]]
  <2>4. g \in [0..n -> S]
    BY <2>2, <2>3
  <2>5. g[0] = b
    BY <2>1 DEF Iterates
  <2>6. ASSUME NEW i \in 1..n PROVE g[i] = Step[i][g[i - 1]]
    <3>1. i - 1 \in 0..n /\ i - 1 # n /\ g[i - 1] = f[i - 1]
      OBVIOUS
    <3>2. CASE i = n
      BY <3>1, <3>2
    <3>3. CASE i # n
      <4>1. i \in 1..(n - 1)
        BY <3>3
      <4>2. QED
        BY <2>1, <3>1, <3>3, <4>1 DEF Iterates
    <3>4. QED
      BY <3>2, <3>3
  <2> HIDE DEF g
  <2>7. Iterates(g, n, S, b, Step) /\ n \in 0..N
    BY <2>4, <2>5, <2>6 DEF Iterates
  <2>8. QED
    BY <2>7
<1>3. 0..N \subseteq T
  BY <1>1, <1>2, Induct
<1>4. QED
  BY <1>3

(* A function on the first numbers is a sequence. *)
LEMMA SequenceOf ==
  ASSUME NEW S, NEW n \in Nat, NEW s \in [1..n -> S]
  PROVE  s \in Seq(S) /\ Len(s) = n
OBVIOUS

-----------------------------------------------------------------------------
(* Sums *)

(* The partial sums of a sequence of integers *)
PartialSums(s, u) ==
  /\ u \in [0..Len(s) -> Int] /\ u[0] = 0
  /\ \A i \in 1..Len(s) : u[i] = u[i - 1] + s[i]

(* The sum is the last of them. *)
LEMMA Sums ==
  ASSUME NEW s \in Seq(Int)
  PROVE  \E u : PartialSums(s, u) /\ Sum(s) = u[Len(s)]
<1> DEFINE N == Len(s)
           Step == [i \in 1..N |-> [x \in Int |-> x + s[i]]]
           body(f) == [i \in 0..N |-> IF i = 0 THEN 0 ELSE f[i - 1] + s[i]]
           u == CHOOSE f : f = body(f)
<1>1. N \in Nat /\ \A i \in 1..N : s[i] \in Int
  OBVIOUS
<1>2. Step \in [1..N -> [Int -> Int]]
  BY <1>1
<1>3. PICK g : Iterates(g, N, Int, 0, Step)
  <2>1. 0 \in Int
    OBVIOUS
  <2> HIDE DEF Step, N
  <2>2. QED
    BY <1>1, <1>2, <2>1, Recursion, Zenon
<1>4. g = body(g)
  <2> HIDE DEF N, Step
  <2>1. g \in [0..N -> Int] /\ g[0] = 0 /\ \A i \in 1..N : g[i] = Step[i][g[i - 1]]
    BY <1>3 DEF Iterates
  <2>2. \A i \in 1..N : g[i - 1] \in Int
    BY <1>1, <2>1
  <2>3. \A i \in 1..N : g[i] = g[i - 1] + s[i]
    BY <2>1, <2>2 DEF Step
  <2>4. QED
    BY <2>1, <2>3
<1>5. u = body(u)
  BY <1>4
<1>6. Sum(s) = u[N]
  BY DEF Sum
<1> HIDE DEF u
<1>7. u[0] = 0 /\ \A i \in 1..N : u[i] = u[i - 1] + s[i]
  BY <1>1, <1>5
<1>8. 0..N \subseteq {i \in 0..N : u[i] \in Int}
  <2> DEFINE T == {i \in 0..N : u[i] \in Int}
  <2>1. 0 \in T
    BY <1>1, <1>7
  <2>2. \A i \in 1..N : i - 1 \in T => i \in T
    BY <1>1, <1>7
  <2> HIDE DEF T
  <2>3. 0..N \subseteq T
    BY <1>1, <2>1, <2>2, Induct
  <2>4. QED
    BY <2>3 DEF T
<1>9. u \in [0..N -> Int]
  <2>1. DOMAIN u = 0..N /\ u = [i \in DOMAIN u |-> u[i]]
    BY <1>5
  <2>2. QED
    BY <1>8, <2>1
<1>10. QED
  BY <1>6, <1>7, <1>9 DEF PartialSums

(* Smaller numbers have smaller sums. *)
LEMMA SumsCompare ==
  ASSUME NEW s \in Seq(Int), NEW t \in Seq(Int), NEW u, NEW v,
         PartialSums(s, u), PartialSums(t, v),
         NEW n \in Nat, n <= Len(s), n <= Len(t), \A i \in 1..n : s[i] <= t[i]
  PROVE  \A i \in 0..n : u[i] <= v[i]
<1> DEFINE T == {i \in 0..n : u[i] <= v[i]}
<1>1. u \in [0..Len(s) -> Int] /\ v \in [0..Len(t) -> Int] /\ Len(s) \in Nat /\ Len(t) \in Nat
  BY DEF PartialSums
<1>2. 0 \in T
  BY DEF PartialSums
<1>3. ASSUME NEW i \in 1..n, i - 1 \in T PROVE i \in T
  <2>1. i \in 1..Len(s) /\ i \in 1..Len(t) /\ i - 1 \in 0..Len(s) /\ i - 1 \in 0..Len(t)
    BY <1>1
  <2>2. s[i] \in Int /\ t[i] \in Int /\ u[i - 1] \in Int /\ v[i - 1] \in Int
    <3>1. s[i] \in Int /\ t[i] \in Int
      BY <2>1
    <3>2. u[i - 1] \in Int /\ v[i - 1] \in Int
      BY <2>1, <1>1
    <3>3. QED
      BY <3>1, <3>2
  <2>3. u[i] = u[i - 1] + s[i] /\ v[i] = v[i - 1] + t[i]
    BY <2>1 DEF PartialSums
  <2>4. QED
    BY <1>3, <2>2, <2>3
<1>4. 0..n \subseteq T
  BY <1>2, <1>3, Induct
<1>5. QED
  BY <1>4

(* Sum adds integers to an integer, *)
LEMMA SumType ==
  ASSUME NEW s \in Seq(Int)
  PROVE  Sum(s) \in Int
<1>1. PICK u : PartialSums(s, u) /\ Sum(s) = u[Len(s)]
  BY Sums
<1>2. QED
  BY <1>1 DEF PartialSums

(* nothing to 0, *)
LEMMA SumEmpty == Sum(<<>>) = 0
<1>1. <<>> \in Seq(Int) /\ Len(<<>>) = 0
  OBVIOUS
<1>2. PICK u : PartialSums(<<>>, u) /\ Sum(<<>>) = u[Len(<<>>)]
  BY <1>1, Sums
<1>3. QED
  BY <1>1, <1>2 DEF PartialSums

(* and one more by adding it to the sum of the others. *)
LEMMA SumAppend ==
  ASSUME NEW s \in Seq(Int), NEW x \in Int
  PROVE  Sum(Append(s, x)) = Sum(s) + x
<1> DEFINE t == Append(s, x)
           n == Len(s)
<1>1. /\ t \in Seq(Int) /\ Len(t) = n + 1 /\ n \in Nat
      /\ \A i \in 1..n : t[i] = s[i] /\ s[i] \in Int
      /\ t[n + 1] = x
  OBVIOUS
<1>2. PICK u : PartialSums(s, u) /\ Sum(s) = u[n]
  BY Sums
<1> HIDE DEF t
<1>3. PICK v : PartialSums(t, v) /\ Sum(t) = v[Len(t)]
  BY <1>1, Sums
<1> HIDE DEF n
<1>4. \A i \in 0..n : u[i] <= v[i]
  <2>1. n <= Len(s) /\ n <= Len(t) /\ \A i \in 1..n : s[i] <= t[i]
    BY <1>1 DEF n
  <2>2. QED
    BY <1>1, <1>2, <1>3, <2>1, SumsCompare
<1>5. \A i \in 0..n : v[i] <= u[i]
  <2>1. n <= Len(s) /\ n <= Len(t) /\ \A i \in 1..n : t[i] <= s[i]
    BY <1>1 DEF n
  <2>2. QED
    BY <1>1, <1>2, <1>3, <2>1, SumsCompare
<1>6. u[n] \in Int /\ v[n] \in Int /\ v[n + 1] = v[n] + x
  <2>1. u \in [0..n -> Int] /\ n \in 0..n
    BY <1>1, <1>2 DEF PartialSums, n
  <2>2. v \in [0..(n + 1) -> Int] /\ n \in 0..(n + 1) /\ n + 1 \in 1..Len(t)
    BY <1>1, <1>3 DEF PartialSums
  <2>3. v[n + 1] = v[(n + 1) - 1] + t[n + 1] /\ (n + 1) - 1 = n
    BY <1>1, <1>3, <2>2 DEF PartialSums
  <2>4. QED
    BY <1>1, <2>1, <2>2, <2>3
<1>7. u[n] = v[n]
  BY <1>1, <1>4, <1>5, <1>6
<1>8. QED
  BY <1>1, <1>2, <1>3, <1>6, <1>7 DEF t

(* What has nothing after m sums to no more than the first m. *)
LEMMA SumFirst ==
  ASSUME NEW s \in Seq(Int), NEW t \in Seq(Int), NEW m \in Nat,
         m <= Len(s), Len(t) = Len(s),
         \A i \in 1..m : t[i] <= s[i], \A i \in (m + 1)..Len(s) : t[i] <= 0
  PROVE  Sum(t) <= Sum(SubSeq(s, 1, m))
<1> DEFINE p == SubSeq(s, 1, m)
           n == Len(s)
<1>1. p \in Seq(Int) /\ Len(p) = m /\ (\A i \in 1..m : p[i] = s[i]) /\ n \in Nat
  OBVIOUS
<1> HIDE DEF p
<1>2. PICK v : PartialSums(p, v) /\ Sum(p) = v[Len(p)]
  BY <1>1, Sums
<1>3. PICK u : PartialSums(t, u) /\ Sum(t) = u[Len(t)]
  BY Sums
<1>4. \A i \in 0..m : u[i] <= v[i]
  <2>1. m <= Len(t) /\ m <= Len(p) /\ \A i \in 1..m : t[i] <= p[i]
    BY <1>1
  <2>2. p \in Seq(Int) /\ PartialSums(p, v) /\ PartialSums(t, u)
    BY <1>1, <1>2, <1>3
  <2>3. QED
    BY ONLY t \in Seq(Int), m \in Nat, <2>1, <2>2, SumsCompare
<1> DEFINE T == {i \in 0..n : i < m \/ u[i] <= u[m]}
<1>5. u \in [0..n -> Int] /\ v[m] \in Int /\ u[m] \in Int
  <2>1. u \in [0..n -> Int] /\ v \in [0..m -> Int]
    BY <1>1, <1>2, <1>3 DEF PartialSums
  <2>2. m \in 0..n /\ m \in 0..m
    BY <1>1
  <2>3. QED
    BY <2>1, <2>2
<1>6. 0 \in T
  BY <1>5
<1>7. ASSUME NEW i \in 1..n, i - 1 \in T PROVE i \in T
  <2>1. u[i] = u[i - 1] + t[i] /\ u[i - 1] \in Int /\ t[i] \in Int
    <3>1. i \in 1..Len(t) /\ i - 1 \in 0..n
      BY <1>1
    <3>2. t[i] \in Int
      BY ONLY t \in Seq(Int), <3>1
    <3>3. u[i] = u[i - 1] + t[i]
      BY <1>3, <3>1 DEF PartialSums
    <3>4. QED
      BY <1>5, <3>1, <3>2, <3>3
  <2>2. CASE i <= m
    BY <2>2, <1>5
  <2>3. CASE i > m
    <3>1. t[i] <= 0 /\ (i - 1 >= m)
      BY <2>3
    <3>2. u[i - 1] <= u[m]
      BY <1>7, <3>1
    <3>3. QED
      BY <2>1, <3>1, <3>2, <1>5
  <2>4. QED
    BY <2>2, <2>3
<1>8. n \in T
  <2> HIDE DEF T
  <2>1. 0..n \subseteq T
    BY <1>1, <1>6, <1>7, Induct
  <2>2. QED
    BY <1>1, <2>1
<1>9. u[n] <= u[m] /\ u[m] <= v[m] /\ u[n] \in Int
  BY <1>1, <1>4, <1>5, <1>8
<1>10. QED
  BY <1>1, <1>2, <1>3, <1>5, <1>9 DEF p

-----------------------------------------------------------------------------
(* The text of a document and of its chunks *)

(* The sizes of the sentences of a text, the parts that chunks can hold of  *)
(* it, and the texts made of them                                           *)
SizesType == Seq(Nat \ {0})
PartsOf(sizes) == (1..Len(sizes)) \X Nat
Texts(sizes) == Seq(PartsOf(sizes))

(* A part is a pair, *)
LEMMA PartType ==
  ASSUME NEW sizes \in SizesType, NEW part \in PartsOf(sizes)
  PROVE  /\ part[1] \in 1..Len(sizes) /\ part[2] \in Nat /\ part = <<part[1], part[2]>>
         /\ sizes[part[1]] \in Nat \ {0}
BY DEF PartsOf, SizesType

(* with a size: that of the sentence if it is a whole one. *)
LEMMA PartSizeType ==
  ASSUME NEW sizes \in SizesType, NEW part \in PartsOf(sizes)
  PROVE  /\ PartSize(sizes, part) \in Int
         /\ part[2] = 0 => PartSize(sizes, part) = sizes[part[1]]
<1>1. part[1] \in 1..Len(sizes) /\ part[2] \in Nat /\ sizes[part[1]] \in Nat /\ PieceWords \in Nat
  BY PartType, ChunkingAssumption
<1> DEFINE rest == sizes[part[1]] - (part[2] - 1) * PieceWords
<1>2. rest \in Int
  BY <1>1
<1>3. PartSize(sizes, part) \in {sizes[part[1]], rest, PieceWords}
  BY DEF PartSize
<1>4. part[2] = 0 => PartSize(sizes, part) = sizes[part[1]]
  BY DEF PartSize
<1> HIDE DEF rest
<1>5. QED
  BY <1>1, <1>2, <1>3, <1>4

(* The sizes of the parts of a text *)
PartSizes(sizes, text) == [i \in DOMAIN text |-> PartSize(sizes, text[i])]

(* They are integers, and the size of the text is their sum. *)
LEMMA PartSizesType ==
  ASSUME NEW sizes \in SizesType, NEW text \in Texts(sizes)
  PROVE  /\ PartSizes(sizes, text) \in Seq(Int)
         /\ Len(PartSizes(sizes, text)) = Len(text)
         /\ \A i \in 1..Len(text) : PartSizes(sizes, text)[i] = PartSize(sizes, text[i])
         /\ SizeOf(sizes, text) = Sum(PartSizes(sizes, text))
         /\ SizeOf(sizes, text) \in Int
<1>1. \A i \in 1..Len(text) : PartSize(sizes, text[i]) \in Int
  BY PartSizeType DEF Texts
<1>2. text \in Seq(PartsOf(sizes)) /\ Len(text) \in Nat /\ DOMAIN text = 1..Len(text)
  BY DEF Texts
<1>3. PartSizes(sizes, text) \in [1..Len(text) -> Int]
  BY <1>1, <1>2 DEF PartSizes
<1>4. PartSizes(sizes, text) \in Seq(Int) /\ Len(PartSizes(sizes, text)) = Len(text)
  BY <1>2, <1>3
<1>5. \A i \in 1..Len(text) : PartSizes(sizes, text)[i] = PartSize(sizes, text[i])
  BY <1>2 DEF PartSizes
<1>6. SizeOf(sizes, text) = Sum(PartSizes(sizes, text))
  BY DEF SizeOf, PartSizes
<1>7. QED
  BY <1>4, <1>5, <1>6, SumType

(* The empty text has no size, *)
LEMMA SizeOfEmpty ==
  ASSUME NEW sizes \in SizesType
  PROVE  SizeOf(sizes, <<>>) = 0
<1>1. [i \in DOMAIN <<>> |-> PartSize(sizes, <<>>[i])] = <<>>
  OBVIOUS
<1>2. QED
  BY <1>1, SumEmpty DEF SizeOf

(* and a part adds its own to that of the text it is appended to. *)
LEMMA SizeOfAppend ==
  ASSUME NEW sizes \in SizesType, NEW text \in Texts(sizes), NEW part \in PartsOf(sizes)
  PROVE  /\ text \o <<part>> \in Texts(sizes)
         /\ SizeOf(sizes, text \o <<part>>) = SizeOf(sizes, text) + PartSize(sizes, part)
<1> DEFINE longer == text \o <<part>>
<1>1. /\ longer \in Texts(sizes) /\ Len(longer) = Len(text) + 1 /\ Len(text) \in Nat
      /\ \A i \in 1..Len(text) : longer[i] = text[i]
      /\ longer[Len(text) + 1] = part
  BY DEF Texts
<1>2. PartSize(sizes, part) \in Int
  BY PartSizeType
<1> HIDE DEF longer
<1> DEFINE s == PartSizes(sizes, text)
           t == PartSizes(sizes, longer)
<1>3. /\ s \in Seq(Int) /\ Len(s) = Len(text) /\ SizeOf(sizes, text) = Sum(s)
      /\ \A i \in 1..Len(text) : s[i] = PartSize(sizes, text[i])
  BY PartSizesType
<1>4. /\ t \in Seq(Int) /\ Len(t) = Len(longer) /\ SizeOf(sizes, longer) = Sum(t)
      /\ \A i \in 1..Len(longer) : t[i] = PartSize(sizes, longer[i])
  BY <1>1, PartSizesType
<1> HIDE DEF s, t
<1>5. t = Append(s, PartSize(sizes, part))
  <2> DEFINE x == PartSize(sizes, part)
             r == Append(s, x)
  <2>1. /\ r \in Seq(Int) /\ Len(r) = Len(s) + 1
        /\ \A i \in 1..Len(s) : r[i] = s[i]
        /\ r[Len(s) + 1] = x
    BY <1>2, <1>3
  <2>2. \A i \in 1..Len(t) : t[i] = r[i]
    <3> HIDE DEF r
    <3>1. ASSUME NEW i \in 1..Len(t) PROVE t[i] = r[i]
      <4>1. i \in 1..Len(longer) /\ t[i] = PartSize(sizes, longer[i])
        BY <1>4
      <4>2. CASE i = Len(text) + 1
        BY <1>1, <1>3, <2>1, <4>1, <4>2
      <4>3. CASE i # Len(text) + 1
        <5>1. i \in 1..Len(text)
          BY <1>1, <4>1, <4>3
        <5>2. QED
          BY <1>1, <1>3, <2>1, <4>1, <5>1
      <4>4. QED
        BY <4>2, <4>3
    <3>2. QED
      BY <3>1
  <2> HIDE DEF r
  <2>3. t = r
    BY <1>1, <1>3, <1>4, <2>1, <2>2
  <2>4. QED
    BY <2>3 DEF r
<1>6. QED
  BY <1>1, <1>2, <1>3, <1>4, <1>5, SumAppend DEF longer

-----------------------------------------------------------------------------
(* Runs of sentences; long is the set of the sentences that are cut *)

(* The last sentence of a text, what it holds, and its last n parts *)
End(t) == t[Len(t)][1]
Holds(t, part) == \E a \in 1..Len(t) : t[a] = part
Ending(t, n) == SubSeq(t, Len(t) - n + 1, Len(t))

(* Whole sentences one after the other, but for those that are cut *)
Run(sizes, long, t) ==
  /\ t \in Texts(sizes) /\ t # <<>>
  /\ \A a \in 1..Len(t) : t[a][2] = 0 /\ t[a][1] \notin long
  /\ \A a, b \in 1..Len(t) : a < b => t[a][1] < t[b][1]
  /\ \A j \in t[1][1]..End(t) : j \notin long => Holds(t, <<j, 0>>)

(* A text and the sentence i *)
Longer(t, i) == t \o << <<i, 0>> >>

(* A run to the last sentence before i *)
RunBefore(sizes, long, t, i) ==
  /\ Run(sizes, long, t) /\ End(t) < i
  /\ \A j \in 1..i : End(t) < j /\ j < i => j \in long

(* What follows the sentence e in u is more than u but for an overlap. *)
Shares(sizes, e, u) ==
  \E m \in 0..Len(u) : /\ SizeOf(sizes, SubSeq(u, 1, m)) <= OverlapTokens
                       /\ \A a \in (m + 1)..Len(u) : e < u[a][1]

(* A run u goes further than an earlier one, t. *)
After(sizes, t, u) ==
  End(t) < End(u) /\ t[1][1] <= u[1][1] /\ Shares(sizes, End(t), u)

(* A run is a text of whole sentences of the document, with a last one. *)
LEMMA RunBasics ==
  ASSUME NEW sizes \in SizesType, NEW long, NEW t, Run(sizes, long, t)
  PROVE  /\ Len(t) \in Nat \ {0} /\ t \in Seq(PartsOf(sizes))
         /\ \A a \in 1..Len(t) : t[a] \in PartsOf(sizes) /\ t[a][1] \in 1..Len(sizes)
                                 /\ t[a] = <<t[a][1], 0>>
         /\ End(t) \in 1..Len(sizes) /\ t[1][1] \in 1..Len(sizes) /\ t[1][1] <= End(t)
         /\ \A a \in 1..Len(t) : t[1][1] <= t[a][1] /\ t[a][1] <= End(t)
<1>1. t \in Seq(PartsOf(sizes)) /\ t # <<>>
  BY DEF Run, Texts
<1>2. Len(t) \in Nat \ {0} /\ 1 \in 1..Len(t) /\ Len(t) \in 1..Len(t)
  BY <1>1
<1>3. \A a \in 1..Len(t) : t[a] \in PartsOf(sizes)
  BY <1>1
<1>4. \A a \in 1..Len(t) : t[a][1] \in 1..Len(sizes) /\ t[a] = <<t[a][1], t[a][2]>>
  BY <1>3, PartType
<1>5. \A a \in 1..Len(t) : t[a] = <<t[a][1], 0>>
  BY <1>4 DEF Run
<1>6. \A a \in 1..Len(t) : t[1][1] <= t[a][1] /\ t[a][1] <= End(t)
  <2>1. ASSUME NEW a \in 1..Len(t) PROVE t[1][1] <= t[a][1] /\ t[a][1] <= End(t)
    <3>1. a = 1 \/ t[1][1] < t[a][1]
      BY <1>2 DEF Run
    <3>2. a = Len(t) \/ t[a][1] < t[Len(t)][1]
      BY <1>2 DEF Run
    <3>3. t[a][1] \in Int /\ t[1][1] \in Int /\ t[Len(t)][1] \in Int
      BY <1>2, <1>4
    <3>4. QED
      BY <3>1, <3>2, <3>3 DEF End
  <2>2. QED
    BY <2>1
<1>7. QED
  BY <1>1, <1>2, <1>3, <1>4, <1>5, <1>6 DEF End

(* The end of a run is one. *)
LEMMA RunLast ==
  ASSUME NEW sizes \in SizesType, NEW long, NEW t, Run(sizes, long, t), NEW n \in 1..Len(t)
  PROVE  /\ Run(sizes, long, Ending(t, n)) /\ Len(Ending(t, n)) = n
         /\ End(Ending(t, n)) = End(t) /\ t[1][1] <= Ending(t, n)[1][1]
<1> DEFINE u == Ending(t, n)
           d == Len(t) - n
<1>1. /\ Len(t) \in Nat \ {0} /\ t \in Seq(PartsOf(sizes))
      /\ \A a \in 1..Len(t) : t[a] \in PartsOf(sizes) /\ t[a][1] \in 1..Len(sizes)
      /\ \A a \in 1..Len(t) : t[1][1] <= t[a][1] /\ t[a][1] <= End(t)
  BY RunBasics
<1>2. d \in 0..(Len(t) - 1) /\ d + n = Len(t)
  BY <1>1
<1>3. u \in Seq(PartsOf(sizes)) /\ Len(u) = n /\ \A a \in 1..n : u[a] = t[d + a]
  BY <1>1, <1>2 DEF Ending
<1>4. \A a \in 1..n : d + a \in 1..Len(t)
  BY <1>1, <1>2
<1> HIDE DEF u, d
<1>5. u \in Texts(sizes) /\ u # <<>>
  BY <1>3 DEF Texts
<1>6. End(u) = End(t)
  <2>1. u[n] = t[d + n] /\ d + n = Len(t) /\ Len(u) = n
    BY <1>2, <1>3
  <2>2. QED
    BY <2>1 DEF End
<1>7. \A a \in 1..n : u[a][2] = 0 /\ u[a][1] \notin long
  BY <1>3, <1>4 DEF Run
<1>8. \A a, b \in 1..n : a < b => u[a][1] < u[b][1]
  <2>1. ASSUME NEW a \in 1..n, NEW b \in 1..n, a < b PROVE u[a][1] < u[b][1]
    <3>1. d + a \in 1..Len(t) /\ d + b \in 1..Len(t) /\ d + a < d + b
      BY <1>2, <1>4, <2>1
    <3>2. QED
      BY <1>3, <3>1 DEF Run
  <2>2. QED
    BY <2>1
<1>9. t[1][1] <= u[1][1] /\ u[1][1] \in Int
  BY <1>1, <1>3, <1>4
<1>10. ASSUME NEW j \in u[1][1]..End(u), j \notin long PROVE Holds(u, <<j, 0>>)
  <2>1. j \in t[1][1]..End(t)
    BY <1>1, <1>6, <1>9
  <2>2. PICK a \in 1..Len(t) : t[a] = <<j, 0>>
    BY <2>1, <1>10 DEF Run, Holds
  <2>3. a > d
    <3>1. SUFFICES ASSUME a <= d PROVE FALSE
      BY <1>1, <1>2, <3>1
    <3>2. d + 1 \in 1..Len(t) /\ a < d + 1
      BY <1>1, <1>2, <3>1
    <3>3. t[a][1] < t[d + 1][1] /\ u[1] = t[d + 1] /\ t[a][1] = j
      BY <1>3, <2>2, <3>2 DEF Run
    <3>4. QED
      BY <1>9, <3>3
  <2>4. a - d \in 1..n /\ u[a - d] = t[a]
    BY <1>1, <1>2, <1>3, <2>3
  <2>5. QED
    BY <1>3, <2>2, <2>4 DEF Holds
<1>11. QED
  BY <1>3, <1>5, <1>6, <1>7, <1>8, <1>9, <1>10 DEF Run, u

(* One sentence more, if those between are cut, *)
LEMMA RunAppend ==
  ASSUME NEW sizes \in SizesType, NEW long, NEW t,
         NEW i \in 1..Len(sizes), i \notin long, t = <<>> \/ RunBefore(sizes, long, t, i)
  PROVE  /\ Run(sizes, long, Longer(t, i))
         /\ End(Longer(t, i)) = i
         /\ SubSeq(Longer(t, i), 1, Len(t)) = t
         /\ t # <<>> => Longer(t, i)[1] = t[1]
         /\ \A a \in 1..Len(t) : Longer(t, i)[a] = t[a]
         /\ Len(Longer(t, i)) = Len(t) + 1 /\ Len(t) \in Nat
         /\ Longer(t, i)[Len(t) + 1] = <<i, 0>>
<1> DEFINE u == Longer(t, i)
           n == Len(t)
<1>1. t \in Texts(sizes) /\ n \in Nat
  <2>1. <<>> \in Seq(PartsOf(sizes))
    OBVIOUS
  <2>2. t \in Seq(PartsOf(sizes))
    BY <2>1 DEF RunBefore, Run, Texts
  <2>3. QED
    BY <2>2 DEF Texts
<1>2. <<i, 0>> \in PartsOf(sizes)
  BY DEF PartsOf
<1>3. /\ u \in Texts(sizes) /\ Len(u) = n + 1
      /\ (\A a \in 1..n : u[a] = t[a]) /\ u[n + 1] = <<i, 0>>
      /\ SubSeq(u, 1, n) = t
  BY <1>1, <1>2 DEF Texts, Longer
<1>4. t # <<>> => n \in Nat \ {0} /\ u[1] = t[1]
  BY <1>1, <1>3 DEF Texts
<1> HIDE DEF u, n
<1>5. End(u) = i /\ u # <<>>
  BY <1>1, <1>3 DEF End
<1>6. \A a \in 1..n : /\ Run(sizes, long, t) /\ t # <<>> /\ t[a][1] < i /\ t[a][1] \in Nat
                      /\ t[a][2] = 0 /\ t[a][1] \notin long
  <2>1. ASSUME NEW a \in 1..n
        PROVE  /\ Run(sizes, long, t) /\ t # <<>> /\ t[a][1] < i /\ t[a][1] \in Nat
               /\ t[a][2] = 0 /\ t[a][1] \notin long
    <3>1. t # <<>>
      BY DEF n
    <3>2. Run(sizes, long, t) /\ End(t) < i
      BY <3>1 DEF RunBefore
    <3>3. t[a][1] \in 1..Len(sizes) /\ t[a][1] <= End(t) /\ End(t) \in Nat
      BY <3>2, RunBasics DEF n
    <3>4. t[a][2] = 0 /\ t[a][1] \notin long
      BY <3>2 DEF Run, n
    <3>5. QED
      BY <3>1, <3>2, <3>3, <3>4
  <2>2. QED
    BY <2>1
<1>7. \A a \in 1..(n + 1) : a = n + 1 \/ a \in 1..n
  BY <1>1
<1>8. \A a \in 1..(n + 1) : u[a][2] = 0 /\ u[a][1] \notin long
  BY <1>3, <1>6, <1>7
<1>9. \A a, b \in 1..(n + 1) : a < b => u[a][1] < u[b][1]
  <2>1. ASSUME NEW a \in 1..(n + 1), NEW b \in 1..(n + 1), a < b PROVE u[a][1] < u[b][1]
    <3>1. a \in 1..n /\ u[a] = t[a]
      BY <1>1, <1>3, <2>1
    <3>2. CASE b = n + 1
      BY <1>3, <1>6, <3>1, <3>2
    <3>3. CASE b # n + 1
      <4>1. b \in 1..n /\ u[b] = t[b]
        BY <1>3, <1>7, <3>3
      <4>2. QED
        BY <1>6, <2>1, <3>1, <4>1 DEF Run, n
    <3>4. QED
      BY <3>2, <3>3
  <2>2. QED
    BY <2>1
<1>10. ASSUME NEW j \in u[1][1]..End(u), j \notin long PROVE Holds(u, <<j, 0>>)
  <2>1. CASE j = i
    BY <1>1, <1>3, <2>1 DEF Holds
  <2>2. CASE j # i
    <3>1. j <= i
      BY <1>5
    <3>2. t # <<>>
      <4>1. SUFFICES ASSUME t = <<>> PROVE FALSE
        BY <4>1
      <4>2. n = 0
        BY <4>1 DEF n
      <4>3. u[1] = <<i, 0>>
        BY <1>3, <4>2
      <4>4. QED
        BY <1>5, <2>2, <4>3
    <3>3. Run(sizes, long, t) /\ u[1] = t[1] /\ t[1][1] \in 1..Len(sizes) /\ End(t) \in 1..Len(sizes)
      BY <1>4, <3>2, RunBasics DEF RunBefore
    <3>4. j \in 1..i /\ j < i /\ t[1][1] <= j
      BY <1>5, <2>2, <3>3
    <3>5. j <= End(t)
      BY <1>10, <3>2, <3>3, <3>4 DEF RunBefore
    <3>6. Holds(t, <<j, 0>>)
      BY <1>10, <3>3, <3>4, <3>5 DEF Run
    <3>7. QED
      BY <1>1, <1>3, <3>6 DEF Holds, n
  <2>3. QED
    BY <2>1, <2>2
<1>11. Run(sizes, long, u)
  BY <1>3, <1>5, <1>8, <1>9, <1>10 DEF Run
<1>12. QED
  BY <1>1, <1>3, <1>4, <1>5, <1>11 DEF u, n

(* and it comes after whatever ended before, if it begins with no more than *)
(* an overlap, and no earlier.                                              *)
LEMMA AfterAppend ==
  ASSUME NEW sizes \in SizesType, NEW long, NEW t, NEW v,
         NEW i \in 1..Len(sizes), i \notin long, t = <<>> \/ RunBefore(sizes, long, t, i),
         Run(sizes, long, v), End(v) < i,
         t # <<>> => v[1][1] <= t[1][1],
         SizeOf(sizes, t) <= OverlapTokens
  PROVE  After(sizes, v, Longer(t, i))
<1> DEFINE u == Longer(t, i)
           n == Len(t)
<1>1. /\ Run(sizes, long, u) /\ End(u) = i /\ SubSeq(u, 1, n) = t
      /\ (t # <<>> => u[1] = t[1]) /\ Len(u) = n + 1 /\ n \in Nat /\ u[n + 1] = <<i, 0>>
  <2>1. t = <<>> \/ RunBefore(sizes, long, t, i)
    OBVIOUS
  <2>2. Run(sizes, long, u) /\ End(u) = i /\ SubSeq(u, 1, n) = t
    BY ONLY <2>1, RunAppend, sizes \in SizesType, i \in 1..Len(sizes), i \notin long
  <2>3. QED
    BY <2>2, RunAppend
<1>2. v[1][1] <= End(v) /\ v[1][1] \in Nat /\ End(v) \in Nat
  BY RunBasics
<1> HIDE DEF u
<1>3. v[1][1] <= u[1][1]
  <2>1. CASE t # <<>>
    BY <1>1, <2>1
  <2>2. CASE t = <<>>
    <3>1. n = 0
      BY <2>2
    <3>2. u[1][1] = i
      BY <1>1, <3>1
    <3>3. QED
      BY <1>2, <3>2
  <2>3. QED
    BY <2>1, <2>2
<1> HIDE DEF n
<1>4. Shares(sizes, End(v), u)
  <2>1. n \in 0..Len(u)
    BY <1>1
  <2>2. SizeOf(sizes, SubSeq(u, 1, n)) <= OverlapTokens
    BY <1>1, Zenon
  <2>3. \A a \in (n + 1)..Len(u) : End(v) < u[a][1]
    BY <1>1, <1>2
  <2>4. QED
    BY <2>1, <2>2, <2>3, Zenon DEF Shares
<1>5. QED
  BY <1>1, <1>3, <1>4 DEF After, u

(* A run that comes after another still does with one sentence more. *)
LEMMA AfterLonger ==
  ASSUME NEW sizes \in SizesType, NEW long, NEW t, NEW v,
         NEW i \in 1..Len(sizes), i \notin long,
         RunBefore(sizes, long, t, i),
         Run(sizes, long, v), After(sizes, v, t)
  PROVE  After(sizes, v, Longer(t, i))
<1> DEFINE u == Longer(t, i)
           n == Len(t)
<1>1. /\ Run(sizes, long, u) /\ End(u) = i /\ Len(u) = n + 1 /\ n \in Nat
      /\ u[n + 1] = <<i, 0>> /\ u[1] = t[1]
      /\ \A a \in 1..n : u[a] = t[a]
  <2>1. t # <<>>
    BY DEF RunBefore, Run
  <2>2. QED
    BY <2>1, RunAppend
<1>2. End(v) \in Nat /\ End(t) \in Nat /\ End(v) < i
  <2>1. End(v) \in Nat /\ End(t) \in Nat
    BY RunBasics DEF RunBefore
  <2>2. QED
    BY <2>1 DEF After, RunBefore
<1>3. PICK m \in 0..n : /\ SizeOf(sizes, SubSeq(t, 1, m)) <= OverlapTokens
                        /\ \A a \in (m + 1)..n : End(v) < t[a][1]
  BY DEF After, Shares
<1>4. SubSeq(u, 1, m) = SubSeq(t, 1, m)
  <2>1. t \in Seq(PartsOf(sizes)) /\ <<i, 0>> \in PartsOf(sizes)
    BY RunBasics DEF PartsOf, RunBefore
  <2>2. QED
    BY <1>1, <2>1 DEF Longer
<1> HIDE DEF u, n
<1>5. \A a \in (m + 1)..(n + 1) : End(v) < u[a][1]
  <2>1. ASSUME NEW a \in (m + 1)..(n + 1) PROVE End(v) < u[a][1]
    <3>1. CASE a = n + 1
      BY <1>1, <1>2, <3>1
    <3>2. CASE a # n + 1
      <4>1. a \in (m + 1)..n /\ a \in 1..n
        BY <1>1, <3>2
      <4>2. QED
        BY <1>1, <1>3, <4>1
    <3>3. QED
      BY <3>1, <3>2
  <2>2. QED
    BY <2>1
<1>6. Shares(sizes, End(v), u)
  <2>1. m \in 0..Len(u)
    BY <1>1, <1>3
  <2>2. SizeOf(sizes, SubSeq(u, 1, m)) <= OverlapTokens
    BY <1>3, <1>4, Zenon
  <2>3. \A a \in (m + 1)..Len(u) : End(v) < u[a][1]
    BY <1>1, <1>5
  <2>4. QED
    BY <2>1, <2>2, <2>3, Zenon DEF Shares
<1>7. QED
  BY <1>1, <1>2, <1>6 DEF After, u

-----------------------------------------------------------------------------
(* The chunks of a text, sentence by sentence *)

(* The chunks of a text; the pieces of a sentence; the chunks that begin    *)
(* with a whole sentence, those of a piece, and what is in some chunk       *)
ChunksOf(sizes) == [text : Texts(sizes), parent : Nat]
PieceCount(sizes, j) == (sizes[j] + PieceWords - 1) \div PieceWords
Joins(t) == t # <<>> /\ t[1][2] = 0
Piece(sizes, long, t) ==
  \E j \in long : \E k \in 1..PieceCount(sizes, j) : t = << <<j, k>> >>
InChunks(done, part) == \E c \in 1..Len(done) : Holds(done[c].text, part)

(* The chunks are runs, each after those before it, and pieces. *)
DoneOK(sizes, long, done) ==
  /\ done \in Seq(ChunksOf(sizes))
  /\ \A c \in 1..Len(done) :
       done[c].parent = 0 /\ (Run(sizes, long, done[c].text) \/ Piece(sizes, long, done[c].text))
  /\ \A b, c \in 1..Len(done) :
       b < c /\ Joins(done[b].text) /\ Joins(done[c].text) => After(sizes, done[b].text, done[c].text)

(* What is pending at the sentence i is a run after all chunks. *)
PendingOK(sizes, long, i, state) ==
  /\ state.pending = <<>> \/ RunBefore(sizes, long, state.pending, i)
  /\ \A b \in 1..Len(state.done) : Joins(state.done[b].text) =>
       state.pending # <<>> /\ After(sizes, state.done[b].text, state.pending)

(* The sentences before i are in the chunks or pending. *)
CoveredBefore(sizes, long, i, state) ==
  \A j \in 1..(i - 1) :
    /\ j \in long => \A k \in 1..PieceCount(sizes, j) : InChunks(state.done, <<j, k>>)
    /\ j \notin long => InChunks(state.done, <<j, 0>>) \/ Holds(state.pending, <<j, 0>>)

(* What holds when the loop comes to the sentence i *)
Scanned(sizes, long, i, state) ==
  /\ state \in [done : Seq(ChunksOf(sizes)), pending : Texts(sizes)]
  /\ DoneOK(sizes, long, state.done)
  /\ PendingOK(sizes, long, i, state)
  /\ CoveredBefore(sizes, long, i, state)

(* A sentence has a number of pieces. *)
LEMMA PieceCountType ==
  ASSUME NEW sizes \in SizesType, NEW j \in 1..Len(sizes)
  PROVE  PieceCount(sizes, j) \in Nat
<1>1. sizes[j] \in Nat \ {0} /\ PieceWords \in Nat \ {0}
  BY ChunkingAssumption DEF SizesType
<1>2. sizes[j] + PieceWords - 1 \in Nat
  BY <1>1
<1>3. QED
  BY <1>1, <1>2 DEF PieceCount

(* A run begins with a whole sentence and a piece does not. *)
LEMMA Kinds ==
  ASSUME NEW sizes \in SizesType, NEW long \in SUBSET (1..Len(sizes)), NEW t
  PROVE  /\ Run(sizes, long, t) => Joins(t)
         /\ Piece(sizes, long, t) => ~Joins(t) /\ t \in Texts(sizes)
<1>1. ASSUME Run(sizes, long, t) PROVE Joins(t)
  <2>1. Len(t) \in Nat \ {0}
    BY <1>1, RunBasics
  <2>2. QED
    BY <1>1, <2>1 DEF Joins, Run
<1>2. ASSUME Piece(sizes, long, t) PROVE ~Joins(t) /\ t \in Texts(sizes)
  <2>1. PICK j \in long : \E k \in 1..PieceCount(sizes, j) : t = << <<j, k>> >>
    BY <1>2 DEF Piece
  <2> PICK k \in 1..PieceCount(sizes, j) : t = << <<j, k>> >>
    BY <2>1
  <2>2. t[1] = <<j, k>> /\ k # 0 /\ k \in Nat
    BY PieceCountType
  <2>3. <<j, k>> \in PartsOf(sizes)
    BY <2>2 DEF PartsOf
  <2>4. t \in Texts(sizes)
    BY <2>3 DEF Texts
  <2>5. QED
    BY <2>2, <2>4 DEF Joins
<1>3. QED
  BY <1>1, <1>2

(* A run more, after all others *)
LEMMA DoneAppend ==
  ASSUME NEW sizes \in SizesType, NEW long \in SUBSET (1..Len(sizes)), NEW done, NEW t,
         DoneOK(sizes, long, done), Run(sizes, long, t),
         \A b \in 1..Len(done) : Joins(done[b].text) => After(sizes, done[b].text, t)
  PROVE  DoneOK(sizes, long, Append(done, Chunk(t, 0)))
<1> DEFINE more == Append(done, Chunk(t, 0))
           n == Len(done)
<1>1. done \in Seq(ChunksOf(sizes)) /\ n \in Nat
  BY DEF DoneOK
<1>2. Chunk(t, 0) \in ChunksOf(sizes) /\ Chunk(t, 0).text = t /\ Chunk(t, 0).parent = 0
  BY DEF Chunk, ChunksOf, Run
<1>3. /\ more \in Seq(ChunksOf(sizes)) /\ Len(more) = n + 1
      /\ (\A b \in 1..n : more[b] = done[b]) /\ more[n + 1] = Chunk(t, 0)
  BY <1>1, <1>2
<1> HIDE DEF more, n
<1>4. \A c \in 1..(n + 1) : c = n + 1 \/ (c \in 1..n /\ more[c] = done[c])
  BY <1>1, <1>3
<1>5. \A c \in 1..(n + 1) :
        more[c].parent = 0 /\ (Run(sizes, long, more[c].text) \/ Piece(sizes, long, more[c].text))
  BY <1>2, <1>3, <1>4 DEF DoneOK, n
<1>6. ASSUME NEW b \in 1..(n + 1), NEW c \in 1..(n + 1), b < c,
             Joins(more[b].text), Joins(more[c].text)
      PROVE  After(sizes, more[b].text, more[c].text)
  <2>1. b \in 1..n /\ more[b] = done[b]
    BY <1>1, <1>4, <1>6
  <2>2. CASE c = n + 1
    BY <1>2, <1>3, <1>6, <2>1, <2>2 DEF n
  <2>3. CASE c # n + 1
    <3>1. c \in 1..n /\ more[c] = done[c]
      BY <1>4, <2>3
    <3>2. QED
      BY <1>6, <2>1, <3>1 DEF DoneOK, n
  <2>4. QED
    BY <2>2, <2>3
<1>7. DoneOK(sizes, long, more)
  BY <1>3, <1>5, <1>6 DEF DoneOK
<1>8. QED
  BY <1>7 DEF more

(* The runs in more were there. *)
OldRuns(more, done) ==
  \A c \in 1..Len(more) : Joins(more[c].text) =>
    c \in 1..Len(done) /\ more[c].text = done[c].text

(* More pieces *)
LEMMA DonePieces ==
  ASSUME NEW sizes \in SizesType, NEW long \in SUBSET (1..Len(sizes)), NEW done,
         DoneOK(sizes, long, done), NEW i \in long
  PROVE  /\ DoneOK(sizes, long, done \o Pieces(sizes, i))
         /\ OldRuns(done \o Pieces(sizes, i), done)
         /\ \A part : InChunks(done, part) => InChunks(done \o Pieces(sizes, i), part)
         /\ \A k \in 1..PieceCount(sizes, i) : InChunks(done \o Pieces(sizes, i), <<i, k>>)
<1> DEFINE p == Pieces(sizes, i)
           more == done \o p
           n == Len(done)
           m == PieceCount(sizes, i)
<1>1. done \in Seq(ChunksOf(sizes)) /\ n \in Nat /\ m \in Nat
  BY PieceCountType DEF DoneOK
<1>2. p = [k \in 1..m |-> Chunk(<< <<i, k>> >>, 0)]
  BY DEF Pieces, PieceCount
<1> HIDE DEF p, m
<1>3. \A k \in 1..m : /\ Piece(sizes, long, << <<i, k>> >>) /\ << <<i, k>> >> \in Texts(sizes)
                      /\ ~Joins(<< <<i, k>> >>)
  BY Kinds DEF Piece, m
<1>4. \A k \in 1..m : p[k] \in ChunksOf(sizes) /\ p[k].text = << <<i, k>> >> /\ p[k].parent = 0
  BY <1>2, <1>3 DEF Chunk, ChunksOf
<1>5. p \in Seq(ChunksOf(sizes)) /\ Len(p) = m
  <2>1. p \in [1..m -> ChunksOf(sizes)]
    BY <1>2, <1>4
  <2>2. QED
    BY <1>1, <2>1
<1>6. /\ more \in Seq(ChunksOf(sizes)) /\ Len(more) = n + m
      /\ \A c \in 1..n : more[c] = done[c]
      /\ \A k \in 1..m : more[n + k] = p[k]
  BY <1>1, <1>5
<1> HIDE DEF more, n
<1>7. ASSUME NEW c \in 1..(n + m)
      PROVE  (c \in 1..n /\ more[c] = done[c]) \/ \E k \in 1..m : more[c] = p[k]
  <2>1. CASE c <= n
    BY <1>6, <2>1, <1>1
  <2>2. CASE c > n
    <3>1. c - n \in 1..m /\ n + (c - n) = c
      BY <1>1, <2>2
    <3>2. QED
      BY <1>6, <3>1
  <2>3. QED
    BY <1>1, <2>1, <2>2
<1>8. \A c \in 1..(n + m) : Joins(more[c].text) => c \in 1..n /\ more[c] = done[c]
  BY <1>3, <1>4, <1>7
<1>9. DoneOK(sizes, long, more)
  <2>1. \A c \in 1..(n + m) :
          more[c].parent = 0 /\ (Run(sizes, long, more[c].text) \/ Piece(sizes, long, more[c].text))
    BY <1>3, <1>4, <1>7 DEF DoneOK, n
  <2>2. \A b, c \in 1..(n + m) : b < c /\ Joins(more[b].text) /\ Joins(more[c].text) =>
          After(sizes, more[b].text, more[c].text)
    BY <1>8 DEF DoneOK, n
  <2>3. QED
    BY <1>6, <2>1, <2>2 DEF DoneOK
<1>10. \A part : InChunks(done, part) => InChunks(more, part)
  <2>1. \A c \in 1..n : c \in 1..(n + m)
    BY <1>1
  <2>2. QED
    BY <1>6, <2>1 DEF InChunks, n
<1>11. ASSUME NEW k \in 1..m PROVE InChunks(more, <<i, k>>)
  <2>1. n + k \in 1..Len(more) /\ more[n + k].text = << <<i, k>> >>
    BY <1>1, <1>4, <1>6
  <2>2. Holds(<< <<i, k>> >>, <<i, k>>)
    BY DEF Holds
  <2>3. QED
    BY <2>1, <2>2 DEF InChunks
<1>12. QED
  BY <1>6, <1>8, <1>9, <1>10, <1>11 DEF OldRuns, more, n, m, p

(* Before the first sentence there is nothing. *)
LEMMA ScanNothing ==
  ASSUME NEW sizes \in SizesType, NEW long
  PROVE  Scanned(sizes, long, 1, NoChunks)
<1>1. /\ NoChunks.done = <<>> /\ NoChunks.pending = <<>>
      /\ NoChunks \in [done : Seq(ChunksOf(sizes)), pending : Texts(sizes)]
  BY DEF NoChunks, Texts
<1>2. Len(<<>>) = 0 /\ <<>> \in Seq(ChunksOf(sizes))
  OBVIOUS
<1>3. DoneOK(sizes, long, <<>>)
  BY <1>2 DEF DoneOK
<1>4. PendingOK(sizes, long, 1, NoChunks) /\ CoveredBefore(sizes, long, 1, NoChunks)
  BY <1>1, <1>2 DEF PendingOK, CoveredBefore
<1>5. QED
  BY <1>1, <1>3, <1>4 DEF Scanned

(* A sentence that is not cut is added to what is pending, *)
LEMMA ScanLonger ==
  ASSUME NEW sizes \in SizesType, NEW long \in SUBSET (1..Len(sizes)), NEW state,
         NEW i \in 1..Len(sizes), i \notin long, Scanned(sizes, long, i, state)
  PROVE  Scanned(sizes, long, i + 1,
                 [done |-> state.done, pending |-> Longer(state.pending, i)])
<1> DEFINE t == state.pending
           u == Longer(t, i)
           new == [done |-> state.done, pending |-> u]
<1>1. /\ t \in Texts(sizes) /\ state.done \in Seq(ChunksOf(sizes))
      /\ DoneOK(sizes, long, state.done) /\ (t = <<>> \/ RunBefore(sizes, long, t, i))
  BY DEF Scanned, PendingOK
<1>2. /\ Run(sizes, long, u) /\ End(u) = i
      /\ \A a \in 1..Len(t) : u[a] = t[a]
      /\ Len(u) = Len(t) + 1 /\ Len(t) \in Nat /\ u[Len(t) + 1] = <<i, 0>>
  <2> HIDE DEF t
  <2>1. Run(sizes, long, u) /\ End(u) = i
    BY <1>1, RunAppend
  <2>2. <<i, 0>> \in PartsOf(sizes)
    BY DEF PartsOf
  <2>3. /\ Len(u) = Len(t) + 1 /\ Len(t) \in Nat /\ u[Len(t) + 1] = <<i, 0>>
        /\ \A a \in 1..Len(t) : u[a] = t[a]
    BY <1>1, <2>2 DEF Texts, Longer
  <2>4. QED
    BY <2>1, <2>3
<1>3. new.done = state.done /\ new.pending = u
  OBVIOUS
<1>4. new \in [done : Seq(ChunksOf(sizes)), pending : Texts(sizes)]
  BY <1>1, <1>2 DEF Run
<1> HIDE DEF new, u
<1>5. u # <<>> /\ RunBefore(sizes, long, u, i + 1)
  BY <1>2 DEF RunBefore, Run
<1>6. ASSUME NEW b \in 1..Len(state.done), Joins(state.done[b].text)
      PROVE  After(sizes, state.done[b].text, u)
  <2>1. t # <<>> /\ After(sizes, state.done[b].text, t)
    BY <1>6 DEF Scanned, PendingOK
  <2>2. Run(sizes, long, state.done[b].text)
    BY <1>1, <1>6, Kinds DEF DoneOK
  <2>3. RunBefore(sizes, long, t, i)
    BY <1>1, <2>1
  <2>4. QED
    BY <2>1, <2>2, <2>3, AfterLonger DEF u
<1>7. PendingOK(sizes, long, i + 1, new)
  BY <1>3, <1>5, <1>6 DEF PendingOK
<1>8. \A part : Holds(t, part) => Holds(u, part)
  BY <1>2 DEF Holds
<1>9. Holds(u, <<i, 0>>)
  <2>1. Len(u) \in 1..Len(u) /\ u[Len(u)] = <<i, 0>>
    BY <1>2
  <2>2. QED
    BY <2>1, Zenon DEF Holds
<1>10. CoveredBefore(sizes, long, i + 1, new)
  <2>1. ASSUME NEW j \in 1..((i + 1) - 1)
        PROVE  /\ j \in long => \A k \in 1..PieceCount(sizes, j) : InChunks(new.done, <<j, k>>)
               /\ j \notin long => InChunks(new.done, <<j, 0>>) \/ Holds(new.pending, <<j, 0>>)
    <3>1. CASE j = i
      BY <1>3, <1>9, <3>1
    <3>2. CASE j # i
      <4>1. j \in 1..(i - 1)
        BY <3>2
      <4>2. QED
        BY <1>3, <1>8, <4>1 DEF Scanned, CoveredBefore
    <3>3. QED
      BY <3>1, <3>2
  <2>2. QED
    BY <2>1 DEF CoveredBefore
<1>11. QED
  <2>1. Scanned(sizes, long, i + 1, new)
    BY <1>1, <1>3, <1>4, <1>7, <1>10 DEF Scanned
  <2>2. QED
    BY <2>1 DEF new, u

(* or begins what is pending next, after an overlap of n sentences; *)
LEMMA ScanNext ==
  ASSUME NEW sizes \in SizesType, NEW long \in SUBSET (1..Len(sizes)), NEW state,
         NEW i \in 1..Len(sizes), i \notin long, Scanned(sizes, long, i, state),
         state.pending # <<>>, NEW t, SizeOf(sizes, t) <= OverlapTokens,
         t = <<>> \/ \E n \in 1..Len(state.pending) : t = Ending(state.pending, n)
  PROVE  Scanned(sizes, long, i + 1,
                 [done |-> Append(state.done, Chunk(state.pending, 0)),
                  pending |-> Longer(t, i)])
<1> DEFINE p == state.pending
           u == Longer(t, i)
           more == Append(state.done, Chunk(p, 0))
           new == [done |-> more, pending |-> u]
<1>1. DoneOK(sizes, long, state.done) /\ RunBefore(sizes, long, p, i) /\ Run(sizes, long, p)
  BY DEF Scanned, PendingOK, RunBefore
<1>2. /\ DoneOK(sizes, long, more) /\ Len(more) = Len(state.done) + 1 /\ Len(state.done) \in Nat
      /\ \A b \in 1..Len(state.done) : more[b] = state.done[b]
      /\ more[Len(state.done) + 1].text = p
  <2>1. \A b \in 1..Len(state.done) : Joins(state.done[b].text) => After(sizes, state.done[b].text, p)
    BY DEF Scanned, PendingOK
  <2>2. DoneOK(sizes, long, more)
    BY <1>1, <2>1, DoneAppend
  <2>3. state.done \in Seq(ChunksOf(sizes)) /\ Chunk(p, 0) \in ChunksOf(sizes) /\ Chunk(p, 0).text = p
    BY <1>1 DEF DoneOK, Run, Chunk, ChunksOf
  <2>4. QED
    BY <2>2, <2>3
<1>3. t = <<>> \/ (RunBefore(sizes, long, t, i) /\ p[1][1] <= t[1][1])
  <2>1. ASSUME NEW n \in 1..Len(p), t = Ending(p, n)
        PROVE  RunBefore(sizes, long, t, i) /\ p[1][1] <= t[1][1]
    <3>1. Run(sizes, long, t) /\ End(t) = End(p) /\ p[1][1] <= t[1][1]
      BY <1>1, <2>1, RunLast
    <3>2. QED
      BY <1>1, <3>1 DEF RunBefore
  <2>2. QED
    BY <2>1
<1>4. /\ Run(sizes, long, u) /\ End(u) = i
      /\ Len(u) = Len(t) + 1 /\ Len(t) \in Nat /\ u[Len(t) + 1] = <<i, 0>>
  <2>1. t = <<>> \/ RunBefore(sizes, long, t, i)
    BY <1>3
  <2>2. QED
    BY ONLY <2>1, RunAppend, sizes \in SizesType, i \in 1..Len(sizes), i \notin long
<1> HIDE DEF more, u
<1>5. new.done = more /\ new.pending = u
  OBVIOUS
<1>6. new \in [done : Seq(ChunksOf(sizes)), pending : Texts(sizes)]
  BY <1>2, <1>4 DEF Run, DoneOK
<1> HIDE DEF new
<1>7. u # <<>> /\ RunBefore(sizes, long, u, i + 1)
  BY <1>4 DEF RunBefore, Run
<1>8. After(sizes, p, u)
  <2>1. End(p) < i
    BY <1>1 DEF RunBefore
  <2>2. QED
    BY <1>1, <1>3, <2>1, AfterAppend DEF u
<1>9. ASSUME NEW b \in 1..Len(state.done), Joins(state.done[b].text)
      PROVE  After(sizes, state.done[b].text, u)
  <2> DEFINE v == state.done[b].text
  <2>1. After(sizes, v, p)
    BY <1>9 DEF Scanned, PendingOK
  <2>2. Run(sizes, long, v)
    BY <1>1, <1>9, Kinds DEF DoneOK
  <2>3. End(v) \in Nat /\ End(p) \in Nat /\ v[1][1] \in Nat /\ p[1][1] \in Nat
    BY <1>1, <2>2, RunBasics
  <2>4. End(v) < i /\ v[1][1] <= p[1][1]
    BY <1>1, <2>1, <2>3 DEF After, RunBefore
  <2>5. t # <<>> => v[1][1] <= t[1][1]
    <3>1. CASE t # <<>>
      <4>1. t[1][1] \in Nat /\ p[1][1] <= t[1][1]
        BY <1>3, <3>1, RunBasics DEF RunBefore
      <4> HIDE DEF v
      <4>2. v[1][1] \in Nat /\ p[1][1] \in Nat /\ v[1][1] <= p[1][1]
        BY <2>3, <2>4
      <4> DEFINE x == v[1][1]
                 y == p[1][1]
                 z == t[1][1]
      <4>3. x \in Nat /\ y \in Nat /\ z \in Nat /\ x <= y /\ y <= z
        BY ONLY <4>1, <4>2
      <4> HIDE DEF x, y, z
      <4>4. x <= z
        BY ONLY <4>3
      <4>5. QED
        BY <4>4 DEF x, z
    <3>2. QED
      BY <3>1
  <2>6. t = <<>> \/ RunBefore(sizes, long, t, i)
    BY <1>3
  <2> HIDE DEF v
  <2>7. After(sizes, v, u)
    BY <2>2, <2>4, <2>5, <2>6, AfterAppend DEF u
  <2>8. QED
    BY <2>7 DEF v
<1>10. PendingOK(sizes, long, i + 1, new)
  <2>1. ASSUME NEW b \in 1..Len(more), Joins(more[b].text) PROVE After(sizes, more[b].text, u)
    <3>1. CASE b = Len(state.done) + 1
      BY <1>2, <1>8, <3>1
    <3>2. CASE b # Len(state.done) + 1
      <4>1. b \in 1..Len(state.done)
        BY <1>2, <3>2
      <4>2. QED
        BY <1>2, <1>9, <2>1, <4>1
    <3>3. QED
      BY <3>1, <3>2
  <2>2. QED
    BY <1>5, <1>7, <2>1 DEF PendingOK
<1>11. Holds(u, <<i, 0>>)
  <2>1. Len(u) \in 1..Len(u) /\ u[Len(u)] = <<i, 0>>
    BY <1>4
  <2>2. QED
    BY <2>1, Zenon DEF Holds
<1>12. \A part : InChunks(state.done, part) \/ Holds(p, part) => InChunks(more, part)
  <2>1. Len(state.done) + 1 \in 1..Len(more) /\ \A c \in 1..Len(state.done) : c \in 1..Len(more)
    BY <1>2
  <2>2. QED
    BY <1>2, <2>1 DEF InChunks
<1>13. CoveredBefore(sizes, long, i + 1, new)
  <2>1. ASSUME NEW j \in 1..((i + 1) - 1)
        PROVE  /\ j \in long => \A k \in 1..PieceCount(sizes, j) : InChunks(new.done, <<j, k>>)
               /\ j \notin long => InChunks(new.done, <<j, 0>>) \/ Holds(new.pending, <<j, 0>>)
    <3>1. CASE j = i
      BY <1>5, <1>11, <3>1
    <3>2. CASE j # i
      <4>1. j \in 1..(i - 1)
        BY <3>2
      <4>2. QED
        BY <1>5, <1>12, <4>1 DEF Scanned, CoveredBefore
    <3>3. QED
      BY <3>1, <3>2
  <2>2. QED
    BY <2>1 DEF CoveredBefore
<1>14. QED
  BY <1>2, <1>5, <1>6, <1>10, <1>13 DEF Scanned, new, more, u

(* one that is cut becomes pieces. *)
LEMMA ScanPieces ==
  ASSUME NEW sizes \in SizesType, NEW long \in SUBSET (1..Len(sizes)), NEW state,
         NEW i \in long, Scanned(sizes, long, i, state)
  PROVE  Scanned(sizes, long, i + 1,
                 [done |-> state.done \o Pieces(sizes, i), pending |-> state.pending])
<1> DEFINE p == state.pending
           more == state.done \o Pieces(sizes, i)
           new == [done |-> more, pending |-> p]
<1>1. DoneOK(sizes, long, state.done) /\ (p = <<>> \/ RunBefore(sizes, long, p, i)) /\ p \in Texts(sizes)
  BY DEF Scanned, PendingOK
<1>2. /\ DoneOK(sizes, long, more)
      /\ OldRuns(more, state.done)
      /\ \A part : InChunks(state.done, part) => InChunks(more, part)
      /\ \A k \in 1..PieceCount(sizes, i) : InChunks(more, <<i, k>>)
  BY <1>1, DonePieces
<1>3. i \in 1..Len(sizes)
  OBVIOUS
<1> HIDE DEF more
<1>4. new.done = more /\ new.pending = p
  OBVIOUS
<1>5. new \in [done : Seq(ChunksOf(sizes)), pending : Texts(sizes)]
  BY <1>1, <1>2 DEF DoneOK
<1> HIDE DEF new
<1>6. p = <<>> \/ RunBefore(sizes, long, p, i + 1)
  <2>1. ASSUME RunBefore(sizes, long, p, i) PROVE RunBefore(sizes, long, p, i + 1)
    <3>1. Run(sizes, long, p) /\ End(p) < i /\ End(p) \in Nat
      BY <2>1, RunBasics DEF RunBefore
    <3>2. \A j \in 1..(i + 1) : End(p) < j /\ j < i + 1 => j = i \/ (j \in 1..i /\ j < i)
      BY <1>3
    <3>3. \A j \in 1..(i + 1) : End(p) < j /\ j < i + 1 => j \in long
      BY <2>1, <3>2 DEF RunBefore
    <3>4. QED
      BY <1>3, <3>1, <3>3 DEF RunBefore
  <2>2. QED
    BY <1>1, <2>1
<1>7. PendingOK(sizes, long, i + 1, new)
  BY <1>2, <1>4, <1>6 DEF PendingOK, Scanned, OldRuns
<1>8. CoveredBefore(sizes, long, i + 1, new)
  <2>1. ASSUME NEW j \in 1..((i + 1) - 1)
        PROVE  /\ j \in long => \A k \in 1..PieceCount(sizes, j) : InChunks(new.done, <<j, k>>)
               /\ j \notin long => InChunks(new.done, <<j, 0>>) \/ Holds(new.pending, <<j, 0>>)
    <3>1. CASE j = i
      BY <1>2, <1>4, <3>1
    <3>2. CASE j # i
      <4>1. j \in 1..(i - 1)
        BY <1>3, <3>2
      <4>2. QED
        BY <1>2, <1>4, <4>1 DEF Scanned, CoveredBefore
    <3>3. QED
      BY <3>1, <3>2
  <2>2. QED
    BY <2>1 DEF CoveredBefore
<1>9. QED
  BY <1>2, <1>4, <1>5, <1>7, <1>8 DEF Scanned, new, more

(* The states of the chunking of fixed size *)
LEMMA FixedStates ==
  ASSUME NEW sizes \in SizesType
  PROVE  \E st : /\ st[0] = NoChunks
                 /\ \A i \in 1..Len(sizes) : st[i] = Take(sizes, st[i - 1], i)
                 /\ FixedSize(sizes) = Flush(st[Len(sizes)])
<1> DEFINE N == Len(sizes)
           body(f, n) == [i \in 0..n |-> IF i = 0 THEN NoChunks ELSE Take(sizes, f[i - 1], i)]
           T == {n \in 0..N : \E f : f = body(f, n)}
           st == CHOOSE f : f = body(f, N)
<1>1. N \in Nat
  BY DEF SizesType
<1>2. 0 \in T
  <2> DEFINE f == [i \in 0..0 |-> NoChunks]
  <2>1. f = body(f, 0) /\ 0 \in 0..N
    BY <1>1
  <2> HIDE DEF f, body
  <2>2. QED
    BY <2>1
<1>3. ASSUME NEW n \in 1..N, n - 1 \in T PROVE n \in T
  <2>1. PICK f : f = body(f, n - 1)
    BY <1>3
  <2> DEFINE g == [i \in 0..n |-> IF i = n THEN Take(sizes, f[n - 1], n) ELSE f[i]]
  <2>2. f[0] = NoChunks /\ \A i \in 1..(n - 1) : f[i] = Take(sizes, f[i - 1], i)
    BY <2>1
  <2>3. g[0] = NoChunks
    BY <2>2
  <2>4. ASSUME NEW i \in 1..n PROVE g[i] = Take(sizes, g[i - 1], i)
    <3>1. i - 1 \in 0..n /\ g[i - 1] = f[i - 1]
      OBVIOUS
    <3>2. CASE i = n
      BY <3>1, <3>2
    <3>3. CASE i # n
      BY <2>2, <3>1, <3>3
    <3>4. QED
      BY <3>2, <3>3
  <2>5. g = [i \in 0..n |-> g[i]]
    OBVIOUS
  <2> HIDE DEF g
  <2>6. g = body(g, n) /\ n \in 0..N
    BY <1>1, <2>3, <2>4, <2>5
  <2> HIDE DEF body
  <2>7. QED
    BY <2>6
<1>4. st = body(st, N)
  <2> HIDE DEF T, body
  <2>1. 0..N \subseteq T
    BY <1>1, <1>2, <1>3, Induct
  <2>2. N \in T
    BY <1>1, <2>1
  <2>3. QED
    BY <2>2 DEF T
<1>5. FixedSize(sizes) = Flush(st[N])
  BY DEF FixedSize
<1> HIDE DEF st
<1>6. st[0] = NoChunks /\ \A i \in 1..N : st[i] = Take(sizes, st[i - 1], i)
  BY <1>1, <1>4
<1>7. QED
  BY <1>5, <1>6

(* and of the semantic chunking *)
LEMMA SemanticStates ==
  ASSUME NEW sizes \in SizesType, NEW similar
  PROVE  \E st : /\ st[0] = NoChunks
                 /\ \A i \in 1..Len(sizes) : st[i] = TakeSimilar(sizes, similar, st[i - 1], i)
                 /\ Semantic(sizes, similar) = Flush(st[Len(sizes)])
<1> DEFINE N == Len(sizes)
           body(f, n) == [i \in 0..n |-> IF i = 0 THEN NoChunks
                                         ELSE TakeSimilar(sizes, similar, f[i - 1], i)]
           T == {n \in 0..N : \E f : f = body(f, n)}
           st == CHOOSE f : f = body(f, N)
<1>1. N \in Nat
  BY DEF SizesType
<1>2. 0 \in T
  <2> DEFINE f == [i \in 0..0 |-> NoChunks]
  <2>1. f = body(f, 0) /\ 0 \in 0..N
    BY <1>1
  <2> HIDE DEF f, body
  <2>2. QED
    BY <2>1
<1>3. ASSUME NEW n \in 1..N, n - 1 \in T PROVE n \in T
  <2>1. PICK f : f = body(f, n - 1)
    BY <1>3
  <2> DEFINE g == [i \in 0..n |-> IF i = n THEN TakeSimilar(sizes, similar, f[n - 1], n) ELSE f[i]]
  <2>2. /\ f[0] = NoChunks
        /\ \A i \in 1..(n - 1) : f[i] = TakeSimilar(sizes, similar, f[i - 1], i)
    BY <2>1
  <2>3. g[0] = NoChunks
    BY <2>2
  <2>4. ASSUME NEW i \in 1..n PROVE g[i] = TakeSimilar(sizes, similar, g[i - 1], i)
    <3>1. i - 1 \in 0..n /\ g[i - 1] = f[i - 1]
      OBVIOUS
    <3>2. CASE i = n
      BY <3>1, <3>2
    <3>3. CASE i # n
      BY <2>2, <3>1, <3>3
    <3>4. QED
      BY <3>2, <3>3
  <2>5. g = [i \in 0..n |-> g[i]]
    OBVIOUS
  <2> HIDE DEF g
  <2>6. \A i \in 0..n : g[i] = IF i = 0 THEN NoChunks ELSE TakeSimilar(sizes, similar, g[i - 1], i)
    BY <2>3, <2>4
  <2>7. g = body(g, n)
    BY <2>5, <2>6, Zenon
  <2>8. n \in 0..N
    BY <1>1
  <2> HIDE DEF body
  <2>9. QED
    BY <2>7, <2>8
<1>4. st = body(st, N)
  <2> HIDE DEF T, body
  <2>1. 0..N \subseteq T
    BY <1>1, <1>2, <1>3, Induct
  <2>2. N \in T
    BY <1>1, <2>1
  <2>3. QED
    BY <2>2 DEF T
<1>5. Semantic(sizes, similar) = Flush(st[N])
  BY DEF Semantic
<1> HIDE DEF st
<1>6. st[0] = NoChunks /\ \A i \in 1..N : st[i] = TakeSimilar(sizes, similar, st[i - 1], i)
  BY <1>1, <1>4
<1>7. QED
  BY <1>5, <1>6

(* One more sentence adds its size to that of the text. *)
LEMMA SizeOfLonger ==
  ASSUME NEW sizes \in SizesType, NEW t \in Texts(sizes), NEW i \in 1..Len(sizes)
  PROVE  /\ Longer(t, i) \in Texts(sizes)
         /\ SizeOf(sizes, Longer(t, i)) = SizeOf(sizes, t) + sizes[i]
         /\ SizeOf(sizes, t) \in Int /\ sizes[i] \in Nat \ {0}
<1>1. <<i, 0>> \in PartsOf(sizes) /\ <<i, 0>>[2] = 0 /\ <<i, 0>>[1] = i
  BY DEF PartsOf
<1>2. PartSize(sizes, <<i, 0>>) = sizes[i]
  BY <1>1, PartSizeType
<1>3. sizes[i] \in Nat \ {0}
  BY DEF SizesType
<1>4. QED
  BY <1>1, <1>2, <1>3, SizeOfAppend, PartSizesType DEF Longer

(* The overlap is the end of the text, and no more than allowed. *)
LEMMA OverlapOK ==
  ASSUME NEW sizes \in SizesType, NEW text \in Texts(sizes)
  PROVE  /\ SizeOf(sizes, Overlap(sizes, text)) <= OverlapTokens
         /\ \/ Overlap(sizes, text) = <<>>
            \/ \E n \in 1..Len(text) : Overlap(sizes, text) = Ending(text, n)
         /\ Overlap(sizes, text) \in Texts(sizes)
<1> DEFINE N == Len(text)
           fits == {n \in 0..N : SizeOf(sizes, Ending(text, n)) <= OverlapTokens}
           most == CHOOSE n \in fits : \A m \in fits : m <= n
<1>1. text \in Seq(PartsOf(sizes)) /\ N \in Nat
  BY DEF Texts
<1>2. Ending(text, 0) = <<>>
  BY <1>1 DEF Ending
<1>3. 0 \in fits
  BY <1>1, <1>2, SizeOfEmpty, ChunkingAssumption
<1>4. \E n \in fits : \A m \in fits : m <= n
  <2>1. fits \subseteq Nat /\ fits # {} /\ \A n \in fits : n <= N
    BY <1>1, <1>3
  <2> HIDE DEF fits, N
  <2>2. QED
    BY <1>1, <2>1, Greatest
<1>5. most \in fits
  BY <1>4
<1>6. Overlap(sizes, text) = Ending(text, most)
  BY DEF Overlap, Ending
<1> HIDE DEF most
<1>7. SizeOf(sizes, Ending(text, most)) <= OverlapTokens /\ most \in 0..N
  BY <1>5
<1>8. Ending(text, most) \in Texts(sizes)
  BY <1>1, <1>7 DEF Ending, Texts
<1>9. QED
  BY <1>2, <1>6, <1>7, <1>8

(* What the chunks of a text are: sound, and with all its sentences *)
Chunked(sizes, long, cs) ==
  /\ DoneOK(sizes, long, cs)
  /\ \A j \in 1..Len(sizes) :
       /\ j \in long => \A k \in 1..PieceCount(sizes, j) : InChunks(cs, <<j, k>>)
       /\ j \notin long => InChunks(cs, <<j, 0>>)

(* Small(t): no run that is done or pending is larger than the strategy allows. *)
FixedSmall(sizes, t) == SizeOf(sizes, t) <= MaxTokens + OverlapTokens
SimilarSmall(sizes, t) == SizeOf(sizes, t) <= MaxTokens \/ Len(t) = 1

(* When the last sentence is scanned, flushing what is pending makes the    *)
(* chunks of the whole text.                                                *)
LEMMA FlushChunked ==
  ASSUME NEW sizes \in SizesType, NEW long \in SUBSET (1..Len(sizes)), NEW state,
         Scanned(sizes, long, Len(sizes) + 1, state)
  PROVE  Chunked(sizes, long, Flush(state))
<1> DEFINE N == Len(sizes)
           p == state.pending
           done == state.done
<1>1. /\ DoneOK(sizes, long, done) /\ (p = <<>> \/ Run(sizes, long, p))
      /\ \A b \in 1..Len(done) : Joins(done[b].text) => p # <<>> /\ After(sizes, done[b].text, p)
      /\ N \in Nat
  BY DEF Scanned, PendingOK, RunBefore, SizesType
<1>2. \A j \in 1..N :
        /\ j \in long => \A k \in 1..PieceCount(sizes, j) : InChunks(done, <<j, k>>)
        /\ j \notin long => InChunks(done, <<j, 0>>) \/ Holds(p, <<j, 0>>)
  <2>1. \A j \in 1..N : j \in 1..((N + 1) - 1)
    BY <1>1
  <2>2. QED
    BY <2>1 DEF Scanned, CoveredBefore
<1>3. CASE p = <<>>
  <2>1. \A part : ~Holds(p, part)
    BY <1>3 DEF Holds
  <2>2. Flush(state) = done
    BY <1>3 DEF Flush
  <2>3. QED
    BY <1>1, <1>2, <2>1, <2>2 DEF Chunked
<1>4. CASE p # <<>>
  <2> DEFINE more == Append(done, Chunk(p, 0))
  <2>1. Flush(state) = more
    BY <1>4 DEF Flush
  <2>2. DoneOK(sizes, long, more)
    BY <1>1, <1>4, DoneAppend
  <2>3. done \in Seq(ChunksOf(sizes)) /\ Chunk(p, 0) \in ChunksOf(sizes) /\ Chunk(p, 0).text = p
    BY <1>1, <1>4 DEF DoneOK, Run, Chunk, ChunksOf
  <2>4. /\ Len(more) = Len(done) + 1 /\ Len(done) \in Nat
        /\ (\A b \in 1..Len(done) : more[b] = done[b]) /\ more[Len(done) + 1].text = p
    BY <2>3
  <2> HIDE DEF more
  <2>5. \A part : InChunks(done, part) \/ Holds(p, part) => InChunks(more, part)
    <3>1. Len(done) + 1 \in 1..Len(more) /\ \A c \in 1..Len(done) : c \in 1..Len(more)
      BY <2>4
    <3>2. QED
      BY <2>4, <3>1 DEF InChunks
  <2>6. QED
    BY <1>2, <2>1, <2>2, <2>5 DEF Chunked
<1>5. QED
  BY <1>3, <1>4

(* A sentence more, in chunk_fixed_size *)
LEMMA TakeScanned ==
  ASSUME NEW sizes \in SizesType, NEW state, NEW i \in 1..Len(sizes),
         NEW long, long = {j \in 1..Len(sizes) : sizes[j] > MaxTokens},
         Scanned(sizes, long, i, state), FixedSmall(sizes, state.pending),
         \A c \in 1..Len(state.done) :
           Joins(state.done[c].text) => FixedSmall(sizes, state.done[c].text)
  PROVE  /\ Scanned(sizes, long, i + 1, Take(sizes, state, i))
         /\ FixedSmall(sizes, Take(sizes, state, i).pending)
         /\ \A c \in 1..Len(Take(sizes, state, i).done) :
              LET text == Take(sizes, state, i).done[c].text
              IN Joins(text) => FixedSmall(sizes, text)
<1> DEFINE p == state.pending
           done == state.done
<1>1. /\ state = [done |-> done, pending |-> p]
      /\ DoneOK(sizes, long, done) /\ p \in Texts(sizes) /\ done \in Seq(ChunksOf(sizes))
      /\ p # <<>> => Run(sizes, long, p)
      /\ \A b \in 1..Len(done) : Joins(done[b].text) => p # <<>>
  BY DEF Scanned, PendingOK, RunBefore
<1>2. long \in SUBSET (1..Len(sizes))
  OBVIOUS
<1>3. MaxTokens \in Nat /\ OverlapTokens \in Nat
  BY ChunkingAssumption
<1>4. /\ Longer(p, i) \in Texts(sizes) /\ SizeOf(sizes, Longer(p, i)) = SizeOf(sizes, p) + sizes[i]
      /\ SizeOf(sizes, p) \in Int /\ sizes[i] \in Nat \ {0}
  BY <1>1, SizeOfLonger
<1>5. CASE sizes[i] > MaxTokens
  <2> DEFINE more == done \o Pieces(sizes, i)
  <2>1. i \in long
    BY <1>5
  <2>2. Take(sizes, state, i) = [done |-> more, pending |-> p]
    BY <1>1, <1>5 DEF Take
  <2>3. Scanned(sizes, long, i + 1, [done |-> more, pending |-> p])
    BY <1>2, <2>1, ScanPieces
  <2>4. OldRuns(more, done)
    BY <1>1, <1>2, <2>1, DonePieces
  <2> HIDE DEF more
  <2>5. QED
    BY <2>2, <2>3, <2>4 DEF OldRuns
<1>6. CASE sizes[i] <= MaxTokens /\ SizeOf(sizes, Longer(p, i)) <= MaxTokens
  <2>1. i \notin long
    BY <1>4, <1>6, <1>3
  <2>2. Take(sizes, state, i) = [done |-> done, pending |-> Longer(p, i)]
    <3>1. ~(sizes[i] > MaxTokens)
      BY <1>3, <1>4, <1>6
    <3>2. SizeOf(sizes, p \o << <<i, 0>> >>) <= MaxTokens
      BY <1>6 DEF Longer
    <3>3. Take(sizes, state, i) = [state EXCEPT !.pending = @ \o << <<i, 0>> >>]
      BY <3>1, <3>2 DEF Take
    <3>4. QED
      BY <1>1, <3>3 DEF Longer
  <2>3. Scanned(sizes, long, i + 1, [done |-> done, pending |-> Longer(p, i)])
    BY <1>2, <2>1, ScanLonger
  <2>4. FixedSmall(sizes, Longer(p, i))
    BY <1>3, <1>4, <1>6 DEF FixedSmall
  <2>5. QED
    BY <2>2, <2>3, <2>4
<1>7. CASE sizes[i] <= MaxTokens /\ ~(SizeOf(sizes, Longer(p, i)) <= MaxTokens)
  <2> DEFINE t == Overlap(sizes, p)
             more == Append(done, Chunk(p, 0))
  <2>1. i \notin long
    BY <1>4, <1>7, <1>3
  <2>2. Take(sizes, state, i) = [done |-> more, pending |-> Longer(t, i)]
    BY <1>1, <1>3, <1>4, <1>7 DEF Take, Longer
  <2>3. p # <<>>
    <3>1. SUFFICES ASSUME p = <<>> PROVE FALSE
      BY <3>1
    <3>2. SizeOf(sizes, p) = 0
      BY <3>1, SizeOfEmpty
    <3>3. QED
      BY <1>3, <1>4, <1>7, <3>2
  <2>4. /\ SizeOf(sizes, t) <= OverlapTokens /\ t \in Texts(sizes)
        /\ t = <<>> \/ \E n \in 1..Len(p) : t = Ending(p, n)
    BY <1>1, OverlapOK
  <2> HIDE DEF t
  <2>5. Scanned(sizes, long, i + 1, [done |-> more, pending |-> Longer(t, i)])
    BY <1>2, <2>1, <2>3, <2>4, ScanNext
  <2>6. FixedSmall(sizes, Longer(t, i))
    <3>1. SizeOf(sizes, Longer(t, i)) = SizeOf(sizes, t) + sizes[i] /\ SizeOf(sizes, t) \in Int
      BY <2>4, SizeOfLonger
    <3>2. QED
      BY <1>3, <1>4, <1>7, <2>4, <3>1 DEF FixedSmall
  <2>7. \A c \in 1..Len(more) : more[c].text = p \/ (c \in 1..Len(done) /\ more[c] = done[c])
    <3>1. Chunk(p, 0) \in ChunksOf(sizes) /\ Chunk(p, 0).text = p
      BY <1>1 DEF Chunk, ChunksOf
    <3>2. QED
      BY <1>1, <3>1
  <2> HIDE DEF more
  <2>8. QED
    BY <2>2, <2>5, <2>6, <2>7
<1>8. QED
  BY <1>3, <1>4, <1>5, <1>6, <1>7

(* The chunks of fixed size of a text *)
LEMMA FixedChunked ==
  ASSUME NEW sizes \in SizesType,
         NEW long, long = {j \in 1..Len(sizes) : sizes[j] > MaxTokens}
  PROVE  /\ Chunked(sizes, long, FixedSize(sizes))
         /\ \A c \in 1..Len(FixedSize(sizes)) : Joins(FixedSize(sizes)[c].text) =>
              FixedSmall(sizes, FixedSize(sizes)[c].text)
<1> DEFINE N == Len(sizes)
           Good(i, state) ==
             /\ Scanned(sizes, long, i, state) /\ FixedSmall(sizes, state.pending)
             /\ \A c \in 1..Len(state.done) :
                  Joins(state.done[c].text) => FixedSmall(sizes, state.done[c].text)
<1>1. PICK st : /\ st[0] = NoChunks
                /\ \A i \in 1..N : st[i] = Take(sizes, st[i - 1], i)
                /\ FixedSize(sizes) = Flush(st[N])
  BY FixedStates
<1>2. N \in Nat /\ long \in SUBSET (1..N) /\ MaxTokens \in Nat /\ OverlapTokens \in Nat
  BY ChunkingAssumption DEF SizesType
<1> DEFINE T == {i \in 0..N : Good(i + 1, st[i])}
<1>3. 0 \in T
  <2>1. Scanned(sizes, long, 1, NoChunks) /\ NoChunks.pending = <<>> /\ NoChunks.done = <<>>
    BY ScanNothing DEF NoChunks
  <2>2. FixedSmall(sizes, <<>>)
    BY <1>2, SizeOfEmpty DEF FixedSmall
  <2>3. Good(1, NoChunks) /\ 0 + 1 = 1 /\ 0 \in 0..N
    BY <1>2, <2>1, <2>2
  <2> HIDE DEF Good
  <2>4. QED
    BY <1>1, <2>3
<1>4. ASSUME NEW i \in 1..N, i - 1 \in T PROVE i \in T
  <2>1. Good(i, st[i - 1])
    <3> HIDE DEF Good
    <3>1. (i - 1) + 1 = i
      OBVIOUS
    <3>2. QED
      BY <1>4, <3>1
  <2>2. Good(i + 1, Take(sizes, st[i - 1], i))
    BY <2>1, TakeScanned
  <2> HIDE DEF Good
  <2>3. QED
    BY <1>1, <1>2, <2>2
<1>5. Good(N + 1, st[N])
  <2> HIDE DEF Good, T
  <2>1. 0..N \subseteq T
    BY <1>2, <1>3, <1>4, Induct
  <2>2. N \in T
    BY <1>2, <2>1
  <2>3. QED
    BY <2>2 DEF T
<1>6. Chunked(sizes, long, Flush(st[N]))
  BY <1>2, <1>5, FlushChunked
<1>7. \A c \in 1..Len(Flush(st[N])) : Joins(Flush(st[N])[c].text) =>
        FixedSmall(sizes, Flush(st[N])[c].text)
  <2> DEFINE p == st[N].pending
             done == st[N].done
             more == Append(done, Chunk(p, 0))
  <2>1. done \in Seq(ChunksOf(sizes)) /\ p \in Texts(sizes)
    BY <1>5 DEF Scanned
  <2>2. Chunk(p, 0) \in ChunksOf(sizes) /\ Chunk(p, 0).text = p
    BY <2>1 DEF Chunk, ChunksOf
  <2>3. \A c \in 1..Len(more) : more[c].text = p \/ (c \in 1..Len(done) /\ more[c] = done[c])
    BY <2>1, <2>2
  <2>4. Flush(st[N]) = done \/ Flush(st[N]) = more
    BY DEF Flush
  <2> HIDE DEF more
  <2>5. QED
    BY <1>5, <2>3, <2>4
<1>8. QED
  BY <1>1, <1>6, <1>7

(* A sentence more, in chunk_semantic *)
LEMMA TakeSimilarScanned ==
  ASSUME NEW sizes \in SizesType, NEW state, NEW i \in 1..Len(sizes), NEW similar,
         Scanned(sizes, {}, i, state),
         state.pending = <<>> \/ SimilarSmall(sizes, state.pending),
         \A c \in 1..Len(state.done) : SimilarSmall(sizes, state.done[c].text)
  PROVE  /\ Scanned(sizes, {}, i + 1, TakeSimilar(sizes, similar, state, i))
         /\ SimilarSmall(sizes, TakeSimilar(sizes, similar, state, i).pending)
         /\ \A c \in 1..Len(TakeSimilar(sizes, similar, state, i).done) :
              SimilarSmall(sizes, TakeSimilar(sizes, similar, state, i).done[c].text)
<1> DEFINE p == state.pending
           done == state.done
<1>1. /\ state = [done |-> done, pending |-> p]
      /\ DoneOK(sizes, {}, done) /\ p \in Texts(sizes) /\ done \in Seq(ChunksOf(sizes))
  BY DEF Scanned
<1>2. {} \in SUBSET (1..Len(sizes)) /\ i \notin {}
  OBVIOUS
<1>3. MaxTokens \in Nat /\ OverlapTokens \in Nat
  BY ChunkingAssumption
<1>4. CASE p # <<>> /\ (~similar[i] \/ SizeOf(sizes, Longer(p, i)) > MaxTokens)
  <2> DEFINE more == Append(done, Chunk(p, 0))
  <2>1. Longer(<<>>, i) = << <<i, 0>> >>
    BY DEF Longer
  <2>2. TakeSimilar(sizes, similar, state, i) = [done |-> more, pending |-> Longer(<<>>, i)]
    BY <1>1, <1>4, <2>1 DEF TakeSimilar, Longer
  <2>3. SizeOf(sizes, <<>>) <= OverlapTokens
    BY <1>3, SizeOfEmpty
  <2>4. Scanned(sizes, {}, i + 1, [done |-> more, pending |-> Longer(<<>>, i)])
    BY <1>2, <1>4, <2>3, ScanNext
  <2>5. SimilarSmall(sizes, Longer(<<>>, i))
    BY <2>1 DEF SimilarSmall
  <2>6. \A c \in 1..Len(more) : more[c].text = p \/ (c \in 1..Len(done) /\ more[c] = done[c])
    <3>1. Chunk(p, 0) \in ChunksOf(sizes) /\ Chunk(p, 0).text = p
      BY <1>1 DEF Chunk, ChunksOf
    <3>2. QED
      BY <1>1, <3>1
  <2> HIDE DEF more
  <2>7. QED
    BY <1>4, <2>2, <2>4, <2>5, <2>6
<1>5. CASE ~(p # <<>> /\ (~similar[i] \/ SizeOf(sizes, Longer(p, i)) > MaxTokens))
  <2>1. TakeSimilar(sizes, similar, state, i) = [done |-> done, pending |-> Longer(p, i)]
    <3>1. TakeSimilar(sizes, similar, state, i) = [state EXCEPT !.pending = @ \o << <<i, 0>> >>]
      BY <1>5 DEF TakeSimilar, Longer
    <3>2. QED
      BY <1>1, <3>1 DEF Longer
  <2>2. Scanned(sizes, {}, i + 1, [done |-> done, pending |-> Longer(p, i)])
    BY <1>2, ScanLonger
  <2>3. SimilarSmall(sizes, Longer(p, i))
    <3>1. CASE p = <<>>
      BY <3>1 DEF SimilarSmall, Longer
    <3>2. CASE p # <<>>
      <4>1. SizeOf(sizes, Longer(p, i)) \in Int
        <5>1. /\ SizeOf(sizes, Longer(p, i)) = SizeOf(sizes, p) + sizes[i]
              /\ SizeOf(sizes, p) \in Int /\ sizes[i] \in Nat \ {0}
          BY <1>1, SizeOfLonger
        <5>2. QED
          BY <5>1
      <4>2. QED
        BY <1>3, <1>5, <3>2, <4>1 DEF SimilarSmall
    <3>3. QED
      BY <3>1, <3>2
  <2>4. QED
    BY <2>1, <2>2, <2>3
<1>6. QED
  BY <1>4, <1>5

(* The chunks of a text that are cut where it changes *)
LEMMA SemanticChunked ==
  ASSUME NEW sizes \in SizesType, NEW similar
  PROVE  /\ Chunked(sizes, {}, Semantic(sizes, similar))
         /\ \A c \in 1..Len(Semantic(sizes, similar)) :
              SimilarSmall(sizes, Semantic(sizes, similar)[c].text)
<1> DEFINE N == Len(sizes)
           Good(i, state) ==
             /\ Scanned(sizes, {}, i, state)
             /\ state.pending = <<>> \/ SimilarSmall(sizes, state.pending)
             /\ \A c \in 1..Len(state.done) : SimilarSmall(sizes, state.done[c].text)
<1>1. PICK st : /\ st[0] = NoChunks
                /\ \A i \in 1..N : st[i] = TakeSimilar(sizes, similar, st[i - 1], i)
                /\ Semantic(sizes, similar) = Flush(st[N])
  BY SemanticStates
<1>2. N \in Nat /\ {} \in SUBSET (1..N)
  BY DEF SizesType
<1> DEFINE T == {i \in 0..N : Good(i + 1, st[i])}
<1>3. 0 \in T
  <2>1. Scanned(sizes, {}, 1, NoChunks) /\ NoChunks.pending = <<>> /\ NoChunks.done = <<>>
    BY ScanNothing DEF NoChunks
  <2>2. Good(1, NoChunks) /\ 0 + 1 = 1 /\ 0 \in 0..N
    BY <1>2, <2>1
  <2> HIDE DEF Good
  <2>3. QED
    BY <1>1, <2>2
<1>4. ASSUME NEW i \in 1..N, i - 1 \in T PROVE i \in T
  <2>1. Good(i, st[i - 1])
    <3> HIDE DEF Good
    <3>1. (i - 1) + 1 = i
      OBVIOUS
    <3>2. QED
      BY <1>4, <3>1
  <2>2. Good(i + 1, TakeSimilar(sizes, similar, st[i - 1], i))
    BY <2>1, TakeSimilarScanned
  <2> HIDE DEF Good
  <2>3. QED
    BY <1>1, <1>2, <2>2
<1>5. Good(N + 1, st[N])
  <2> HIDE DEF Good, T
  <2>1. 0..N \subseteq T
    BY <1>2, <1>3, <1>4, Induct
  <2>2. N \in T
    BY <1>2, <2>1
  <2>3. QED
    BY <2>2 DEF T
<1>6. Chunked(sizes, {}, Flush(st[N]))
  BY <1>2, <1>5, FlushChunked
<1>7. \A c \in 1..Len(Flush(st[N])) : SimilarSmall(sizes, Flush(st[N])[c].text)
  <2> DEFINE p == st[N].pending
             done == st[N].done
             more == Append(done, Chunk(p, 0))
  <2>1. done \in Seq(ChunksOf(sizes)) /\ p \in Texts(sizes)
    BY <1>5 DEF Scanned
  <2>2. Chunk(p, 0) \in ChunksOf(sizes) /\ Chunk(p, 0).text = p
    BY <2>1 DEF Chunk, ChunksOf
  <2>3. \A c \in 1..Len(more) : more[c].text = p \/ (c \in 1..Len(done) /\ more[c] = done[c])
    BY <2>1, <2>2
  <2>4. Flush(st[N]) = done \/ (Flush(st[N]) = more /\ p # <<>>)
    BY DEF Flush
  <2> HIDE DEF more
  <2>5. QED
    BY <1>5, <2>3, <2>4
<1>8. QED
  BY <1>1, <1>6, <1>7

-----------------------------------------------------------------------------
(* What TextCovered says, of any chunks *)

(* The chunks are runs, each after those before it, pieces, and empty pages, *)
(* and have all sentences.                                                   *)
Covered(sizes, long, cs) ==
  /\ cs \in Seq(ChunksOf(sizes))
  /\ \A c \in 1..Len(cs) :
       cs[c].text = <<>> \/ Run(sizes, long, cs[c].text) \/ Piece(sizes, long, cs[c].text)
  /\ \A b, c \in 1..Len(cs) :
       b < c /\ Joins(cs[b].text) /\ Joins(cs[c].text) => After(sizes, cs[b].text, cs[c].text)
  /\ \A j \in 1..Len(sizes) :
       /\ j \in long => \A k \in 1..PieceCount(sizes, j) : InChunks(cs, <<j, k>>)
       /\ j \notin long => InChunks(cs, <<j, 0>>)

(* A sentence has no more pieces than words. *)
LEMMA PieceCountBound ==
  ASSUME NEW sizes \in SizesType, NEW j \in 1..Len(sizes)
  PROVE  PieceCount(sizes, j) \in 0..sizes[j]
<1> DEFINE s == sizes[j]
           w == PieceWords
           q == (s + w - 1) \div w
<1>1. s \in Nat \ {0} /\ w \in Nat \ {0}
  BY ChunkingAssumption DEF SizesType
<1> HIDE DEF s, w
<1>2. s + w - 1 \in Nat /\ q \in Nat
  BY <1>1
<1>3. q * w <= s + w - 1
  BY <1>1, <1>2
<1> HIDE DEF q
<1>4. q <= s
  <2>1. SUFFICES ASSUME q >= s + 1 PROVE FALSE
    BY <1>1, <1>2, <2>1
  <2>2. q * w >= (s + 1) * w
    BY <1>1, <1>2, <2>1
  <2>3. (s + 1) * w = s * w + w /\ s * w >= s
    BY <1>1
  <2>4. q * w \in Int /\ s * w \in Int /\ (s + 1) * w \in Int
    BY <1>1, <1>2
  <2>5. QED
    BY <1>1, <1>3, <2>2, <2>3, <2>4
<1>5. QED
  BY <1>1, <1>2, <1>4 DEF PieceCount, q, s, w

(* Holds is membership in the range. *)
LEMMA HoldsRange ==
  ASSUME NEW sizes \in SizesType, NEW t \in Texts(sizes), NEW part
  PROVE  part \in Range(t) <=> Holds(t, part)
BY DEF Texts, Range, Holds

(* What a chunk that is covered holds *)
LEMMA ChunkKinds ==
  ASSUME NEW sizes \in SizesType, NEW long \in SUBSET (1..Len(sizes)), NEW cs,
         Covered(sizes, long, cs), NEW c \in 1..Len(cs)
  PROVE  /\ cs[c].text \in Texts(sizes)
         /\ Joins(cs[c].text) => Run(sizes, long, cs[c].text)
<1>1. cs[c] \in ChunksOf(sizes)
  BY DEF Covered
<1>2. cs[c].text = <<>> \/ Run(sizes, long, cs[c].text) \/ Piece(sizes, long, cs[c].text)
  BY DEF Covered
<1>3. QED
  BY <1>1, <1>2, Kinds DEF ChunksOf, Joins

(* The parts of a sentence that the chunks have *)
LEMMA PartsInChunks ==
  ASSUME NEW sizes \in SizesType, NEW long \in SUBSET (1..Len(sizes)), NEW cs,
         Covered(sizes, long, cs), NEW j \in 1..Len(sizes), NEW k
  PROVE  InChunks(cs, <<j, k>>) <=> IF j \in long THEN k \in 1..PieceCount(sizes, j) ELSE k = 0
<1>1. ASSUME InChunks(cs, <<j, k>>)
      PROVE  IF j \in long THEN k \in 1..PieceCount(sizes, j) ELSE k = 0
  <2>1. PICK c \in 1..Len(cs) : Holds(cs[c].text, <<j, k>>)
    BY <1>1 DEF InChunks
  <2> DEFINE t == cs[c].text
  <2>2. PICK a \in 1..Len(t) : t[a] = <<j, k>>
    BY <2>1 DEF Holds
  <2>3. t = <<>> \/ Run(sizes, long, t) \/ Piece(sizes, long, t)
    BY DEF Covered
  <2> HIDE DEF t
  <2>4. CASE Run(sizes, long, t)
    <3>1. t[a][2] = 0 /\ t[a][1] \notin long
      BY <2>4 DEF Run
    <3>2. QED
      BY <2>2, <3>1
  <2>5. CASE Piece(sizes, long, t)
    <3>1. PICK i \in long : \E l \in 1..PieceCount(sizes, i) : t = << <<i, l>> >>
      BY <2>5 DEF Piece
    <3>2. PICK l \in 1..PieceCount(sizes, i) : t = << <<i, l>> >>
      BY <3>1
    <3>3. a = 1 /\ i = j /\ l = k
      BY <2>2, <3>2
    <3>4. QED
      BY <3>2, <3>3
  <2>6. CASE t = <<>>
    BY <2>2, <2>6
  <2>7. QED
    BY <2>3, <2>4, <2>5, <2>6
<1>2. ASSUME IF j \in long THEN k \in 1..PieceCount(sizes, j) ELSE k = 0
      PROVE  InChunks(cs, <<j, k>>)
  BY <1>2 DEF Covered
<1>3. QED
  BY <1>1, <1>2

(* What two runs share *)
Shared(sizes, v, u) ==
  [k \in DOMAIN u |-> IF u[k] \in Range(v) THEN PartSize(sizes, u[k]) ELSE 0]

(* It is no more than the overlap if one run is after the other. *)
LEMMA SharedSmall ==
  ASSUME NEW sizes \in SizesType, NEW long, NEW v, NEW u,
         Run(sizes, long, v), Run(sizes, long, u), After(sizes, v, u)
  PROVE  Sum(Shared(sizes, v, u)) <= OverlapTokens
<1> DEFINE s == PartSizes(sizes, u)
           t == Shared(sizes, v, u)
           n == Len(u)
<1>1. /\ u \in Texts(sizes) /\ v \in Texts(sizes) /\ n \in Nat /\ DOMAIN u = 1..n
      /\ u \in Seq(PartsOf(sizes))
  BY DEF Run, Texts
<1>2. PICK m \in 0..n : /\ SizeOf(sizes, SubSeq(u, 1, m)) <= OverlapTokens
                        /\ \A a \in (m + 1)..n : End(v) < u[a][1]
  BY DEF After, Shares
<1>3. /\ s \in Seq(Int) /\ Len(s) = n
      /\ \A i \in 1..n : s[i] = PartSize(sizes, u[i])
  BY <1>1, PartSizesType
<1>4. \A i \in 1..n : s[i] \in Nat
  <2>1. ASSUME NEW i \in 1..n PROVE s[i] \in Nat
    <3>1. u[i] \in PartsOf(sizes) /\ u[i][2] = 0
      BY RunBasics DEF Run
    <3>2. PartSize(sizes, u[i]) = sizes[u[i][1]] /\ sizes[u[i][1]] \in Nat
      BY <3>1, PartSizeType, PartType
    <3>3. QED
      BY <1>3, <3>2
  <2>2. QED
    BY <2>1
<1>5. \A i \in 1..n : t[i] = IF u[i] \in Range(v) THEN s[i] ELSE 0
  BY <1>1, <1>3 DEF Shared
<1>6. t \in Seq(Int) /\ Len(t) = n
  <2>1. t \in [1..n -> Int]
    BY <1>1, <1>3, <1>4, <1>5 DEF Shared
  <2>2. QED
    BY <1>1, <2>1
<1>7. \A i \in 1..m : t[i] <= s[i]
  BY <1>1, <1>2, <1>4, <1>5
<1>8. \A i \in (m + 1)..n : t[i] <= 0
  <2>1. ASSUME NEW i \in (m + 1)..n, u[i] \in Range(v) PROVE FALSE
    <3>1. PICK a \in 1..Len(v) : v[a] = u[i]
      BY <1>1, <2>1, HoldsRange DEF Holds
    <3>2. v[a][1] <= End(v) /\ v[a][1] \in Int /\ End(v) \in Int
      BY RunBasics
    <3>3. End(v) < v[a][1]
      BY <1>2, <3>1
    <3>4. QED
      BY <3>2, <3>3
  <2>2. \A i \in (m + 1)..n : i \in 1..n
    BY <1>1, <1>2
  <2>3. QED
    BY <1>5, <2>1, <2>2
<1> HIDE DEF t
<1>9. SubSeq(s, 1, m) = PartSizes(sizes, SubSeq(u, 1, m))
  <2> DEFINE w == SubSeq(u, 1, m)
             p == SubSeq(s, 1, m)
  <2>1. w \in Texts(sizes) /\ Len(w) = m /\ \A i \in 1..m : w[i] = u[i]
    BY <1>1, <1>2 DEF Texts
  <2> HIDE DEF s
  <2>2. p \in Seq(Int) /\ Len(p) = m /\ \A i \in 1..m : p[i] = s[i]
    BY <1>2, <1>3
  <2> HIDE DEF w, p
  <2>3. /\ PartSizes(sizes, w) \in Seq(Int) /\ Len(PartSizes(sizes, w)) = m
        /\ \A i \in 1..m : PartSizes(sizes, w)[i] = PartSize(sizes, w[i])
    BY <2>1, PartSizesType
  <2>4. \A i \in 1..m : p[i] = PartSizes(sizes, w)[i]
    BY <1>1, <1>2, <1>3, <2>1, <2>2, <2>3
  <2> DEFINE x == PartSizes(sizes, w)
  <2>5. x \in Seq(Int) /\ Len(x) = m /\ \A i \in 1..m : p[i] = x[i]
    BY <2>3, <2>4
  <2> HIDE DEF x
  <2>6. p = x
    BY ONLY <2>2, <2>5
  <2>7. QED
    BY <2>6 DEF x, w, p
<1>10. Sum(SubSeq(s, 1, m)) <= OverlapTokens
  BY <1>2, <1>9 DEF SizeOf, PartSizes
<1>11. Sum(t) <= Sum(SubSeq(s, 1, m))
  <2> HIDE DEF s
  <2>1. m <= Len(s) /\ m \in Nat /\ Len(t) = Len(s)
    BY <1>2, <1>3, <1>6
  <2>2. QED
    BY <1>3, <1>6, <1>7, <1>8, <2>1, SumFirst
<1>12. Sum(t) \in Int /\ Sum(SubSeq(s, 1, m)) \in Int
  <2> HIDE DEF s
  <2>1. SubSeq(s, 1, m) \in Seq(Int)
    BY <1>2, <1>3
  <2>2. QED
    BY <1>6, <2>1, SumType
<1>13. QED
  BY <1>10, <1>11, <1>12, ChunkingAssumption DEF t

(* The sentences that are cut *)
Cut(sizes, how) == {j \in 1..Len(sizes) : how = "fixed" /\ sizes[j] > MaxTokens}

(* No run is larger than its strategy allows, *)
Small(sizes, how, t) ==
  \/ SizeOf(sizes, t) <= MaxTokens + (IF how = "fixed" THEN OverlapTokens ELSE 0)
  \/ how = "semantic" /\ Len(t) = 1
  \/ how = "hierarchical"

(* and a parent is a section before. *)
ParentsOK(pages, cs) ==
  \A c \in 1..Len(cs) : cs[c].parent # 0 =>
    cs[c].parent < c /\ pages[cs[c].parent].level \in {"h1", "h2"}

(* What the chunks of a document are *)
ChunksOK(d, how, cs) ==
  /\ Covered(Sizes(d), Cut(Sizes(d), how), cs)
  /\ \A c \in 1..Len(cs) : Joins(cs[c].text) => Small(Sizes(d), how, cs[c].text)
  /\ ParentsOK(d.pages, cs)

(* Such chunks are what TextCovered asks for. *)
LEMMA ChunksCovered ==
  ASSUME ChunksOK(document, strategy, chunks), Sizes(document) \in SizesType
  PROVE  TextCovered
<1> DEFINE sizes == Sizes(document)
           cut == Cut(sizes, strategy)
           N == Len(sizes)
           M == Len(chunks)
           text(c) == chunks[c].text
           long(i) == strategy = "fixed" /\ sizes[i] > MaxTokens
           shared(b, c) == Sum([k \in DOMAIN chunks[c].text |->
                                  IF chunks[c].text[k] \in Range(chunks[b].text)
                                    THEN PartSize(sizes, chunks[c].text[k]) ELSE 0])
<1>1. /\ sizes \in SizesType /\ N \in Nat /\ DOMAIN sizes = 1..N
      /\ cut \in SUBSET (1..N) /\ \A i \in 1..N : i \in cut <=> long(i)
  BY DEF SizesType, Cut
<1>2. Covered(sizes, cut, chunks) /\ chunks \in Seq(ChunksOf(sizes)) /\ DOMAIN chunks = 1..M
  BY DEF ChunksOK, Covered
<1> HIDE DEF sizes, cut
<1>3. \A c \in 1..M : text(c) \in Texts(sizes)
  BY <1>1, <1>2, ChunkKinds
<1>4. Joined \subseteq 1..M /\ \A c \in Joined : Joins(text(c))
  BY <1>2 DEF Joined, Joins
<1>5. \A c \in Joined : Run(sizes, cut, text(c))
  <2>1. ASSUME NEW c \in Joined PROVE Run(sizes, cut, text(c))
    <3>1. c \in 1..M /\ Joins(text(c))
      BY <1>4
    <3>2. QED
      BY <1>1, <1>2, <3>1, ChunkKinds
  <2>2. QED
    BY <2>1
<1>6. \A b, c \in Joined : b < c => After(sizes, text(b), text(c))
  BY <1>2, <1>4 DEF Covered
<1>7. ASSUME NEW i \in DOMAIN sizes
      PROVE  Parts(i) = IF long(i) THEN 1..((sizes[i] + PieceWords - 1) \div PieceWords) ELSE {0}
  <2>1. i \in 1..N
    BY <1>1, <1>7
  <2>2. Parts(i) = {k \in 0..sizes[i] : InChunks(chunks, <<i, k>>)}
    <3>1. \A k, c : c \in 1..M => (<<i, k>> \in Range(text(c)) <=> Holds(text(c), <<i, k>>))
      BY <1>1, <1>3, HoldsRange
    <3>2. \A k : (\E c \in DOMAIN chunks : <<i, k>> \in Range(text(c))) <=> InChunks(chunks, <<i, k>>)
      BY <1>2, <3>1 DEF InChunks
    <3>3. QED
      BY <3>2 DEF Parts, sizes
  <2>3. \A k : InChunks(chunks, <<i, k>>) <=>
                 IF long(i) THEN k \in 1..PieceCount(sizes, i) ELSE k = 0
    <3> HIDE DEF long
    <3>1. ASSUME NEW k
          PROVE  InChunks(chunks, <<i, k>>) <=>
                   IF long(i) THEN k \in 1..PieceCount(sizes, i) ELSE k = 0
      <4>1. InChunks(chunks, <<i, k>>) <=>
              IF i \in cut THEN k \in 1..PieceCount(sizes, i) ELSE k = 0
        BY <1>1, <1>2, <2>1, PartsInChunks
      <4>2. QED
        BY <1>1, <2>1, <4>1
    <3>2. QED
      BY <3>1
  <2>4. PieceCount(sizes, i) \in 0..sizes[i] /\ sizes[i] \in Nat
    BY <1>1, <2>1, PieceCountBound DEF SizesType
  <2>5. Parts(i) = IF long(i) THEN 1..PieceCount(sizes, i) ELSE {0}
    <3> HIDE DEF long
    <3> DEFINE q == PieceCount(sizes, i)
               s == sizes[i]
    <3>0. q \in 0..s /\ s \in Nat
      BY <2>4
    <3> HIDE DEF q, s
    <3>1. Parts(i) = {k \in 0..s : IF long(i) THEN k \in 1..q ELSE k = 0}
      BY <2>2, <2>3 DEF q, s
    <3>2. CASE long(i)
      <4>1. Parts(i) = {k \in 0..s : k \in 1..q}
        BY <3>1, <3>2
      <4>2. {k \in 0..s : k \in 1..q} = 1..q
        BY <3>0
      <4>3. QED
        BY <3>2, <4>1, <4>2 DEF q
    <3>3. CASE ~long(i)
      <4>1. Parts(i) = {k \in 0..s : k = 0}
        BY <3>1, <3>3
      <4>2. {k \in 0..s : k = 0} = {0}
        BY <3>0
      <4>3. QED
        BY <3>3, <4>1, <4>2
    <3>4. QED
      BY <3>2, <3>3
  <2>6. QED
    BY <2>5 DEF PieceCount
<1>8. \A b, c \in Joined : b < c => Ends(b) < Ends(c) /\ chunks[b].text[1][1] <= chunks[c].text[1][1]
  BY <1>6 DEF After, Ends, End
<1>9. \A c \in Joined : \A i \in chunks[c].text[1][1]..Ends(c) :
        <<i, 0>> \in Range(chunks[c].text) \/ long(i)
  <2>1. ASSUME NEW c \in Joined, NEW i \in text(c)[1][1]..End(text(c)), i \notin cut
        PROVE  <<i, 0>> \in Range(text(c))
    <3>1. Holds(text(c), <<i, 0>>)
      BY <1>5, <2>1 DEF Run
    <3>2. QED
      BY <1>1, <1>3, <1>4, <3>1, HoldsRange
  <2>2. ASSUME NEW c \in Joined, NEW i \in text(c)[1][1]..End(text(c)), i \in cut PROVE long(i)
    BY <1>1, <2>2
  <2>3. QED
    BY <2>1, <2>2 DEF Ends, End
<1>10. \A b, c \in Joined : b < c => shared(b, c) <= OverlapTokens
  <2>1. ASSUME NEW b \in Joined, NEW c \in Joined, b < c PROVE shared(b, c) <= OverlapTokens
    <3>1. Run(sizes, cut, text(b)) /\ Run(sizes, cut, text(c)) /\ After(sizes, text(b), text(c))
      BY <1>5, <1>6, <2>1
    <3>2. Sum(Shared(sizes, text(b), text(c))) <= OverlapTokens
      BY <1>1, <3>1, SharedSmall
    <3>3. QED
      BY <3>2 DEF Shared
  <2>2. QED
    BY <2>1
<1>11. \A c \in Joined : Small(sizes, strategy, chunks[c].text)
  BY <1>4 DEF ChunksOK, sizes
<1>12. \A c \in DOMAIN chunks : chunks[c].parent # 0 =>
         chunks[c].parent < c /\ document.pages[chunks[c].parent].level \in {"h1", "h2"}
  BY <1>2 DEF ChunksOK, ParentsOK
<1>13. QED
  BY <1>7, <1>8, <1>9, <1>10, <1>11, <1>12 DEF TextCovered, Small, sizes

-----------------------------------------------------------------------------
(* Texts of pages *)

(* The concatenations of more and more of some texts *)
Concats(texts, S, v) ==
  /\ v \in [0..Len(texts) -> Seq(S)] /\ v[0] = <<>>
  /\ \A i \in 1..Len(texts) : v[i] = v[i - 1] \o texts[i]

(* A concatenation is a sequence over the same set. *)
LEMMA ConcatType ==
  ASSUME NEW S, NEW s \in Seq(S), NEW t \in Seq(S)
  PROVE  s \o t \in Seq(S) /\ <<>> \o t = t /\ <<>> \in Seq(S)
OBVIOUS

(* FlattenSeq is the last of them. *)
LEMMA Flattened ==
  ASSUME NEW S, NEW texts \in Seq(Seq(S))
  PROVE  \E v : Concats(texts, S, v) /\ FlattenSeq(texts) = v[Len(texts)]
<1> DEFINE N == Len(texts)
           Step == [i \in 1..N |-> [x \in Seq(S) |-> x \o texts[i]]]
           body(f) == [i \in 1..N |-> IF i = 1 THEN texts[i] ELSE f[i - 1] \o texts[i]]
           u == CHOOSE f : f = body(f)
           v == [i \in 0..N |-> IF i = 0 THEN <<>> ELSE u[i]]
<1>1. N \in Nat /\ (\A i \in 1..N : texts[i] \in Seq(S)) /\ <<>> \in Seq(S)
  OBVIOUS
<1>2. Step \in [1..N -> [Seq(S) -> Seq(S)]]
  BY <1>1
<1>3. PICK g : Iterates(g, N, Seq(S), <<>>, Step)
  <2> DEFINE Q == Seq(S)
  <2>1. <<>> \in Q /\ Step \in [1..N -> [Q -> Q]]
    BY <1>1, <1>2
  <2> HIDE DEF Step, N, Q
  <2>2. \E g : Iterates(g, N, Q, <<>>, Step)
    BY <1>1, <2>1, Recursion, Zenon
  <2>3. QED
    BY <2>2 DEF Q
<1>4. \E f : f = body(f)
  <2> DEFINE h == [i \in 1..N |-> g[i]]
  <2> HIDE DEF N, Step
  <2>1. g \in [0..N -> Seq(S)] /\ g[0] = <<>> /\ \A i \in 1..N : g[i] = Step[i][g[i - 1]]
    BY <1>3 DEF Iterates
  <2>2. \A i \in 1..N : i - 1 \in 0..N /\ g[i - 1] \in Seq(S)
    BY <1>1, <2>1
  <2>3. \A i \in 1..N : g[i] = g[i - 1] \o texts[i]
    BY <2>1, <2>2 DEF Step
  <2>4. ASSUME NEW i \in 1..N PROVE h[i] = IF i = 1 THEN texts[i] ELSE h[i - 1] \o texts[i]
    <3>1. h[i] = g[i - 1] \o texts[i]
      BY <2>3
    <3>2. CASE i = 1
      <4>1. <<>> \o texts[i] = texts[i]
        BY <1>1, ConcatType
      <4>2. g[i - 1] = <<>>
        BY <2>1, <3>2
      <4>3. QED
        BY <3>1, <3>2, <4>1, <4>2, Zenon
    <3>3. CASE i # 1
      <4>1. i - 1 \in 1..N /\ h[i - 1] = g[i - 1]
        BY <1>1, <3>3
      <4>2. QED
        BY <3>1, <3>3, <4>1
    <3>4. QED
      BY <3>2, <3>3
  <2>5. h = [i \in 1..N |-> h[i]]
    OBVIOUS
  <2> HIDE DEF h
  <2>6. h = body(h)
    BY <2>4, <2>5, Zenon
  <2>7. QED
    BY <2>6
<1>5. u = body(u)
  BY <1>4
<1> HIDE DEF u
<1>6. v[0] = <<>> /\ \A i \in 1..N : v[i] = u[i]
  BY <1>1
<1>7. ASSUME NEW i \in 1..N, v[i - 1] \in Seq(S) PROVE v[i] = v[i - 1] \o texts[i]
  <2>1. CASE i = 1
    <3>1. u[i] = texts[i]
      BY <1>5, <2>1
    <3>2. v[i] = u[i] /\ v[i - 1] = <<>>
      BY <2>1, <1>6
    <3>3. <<>> \o texts[i] = texts[i]
      BY <1>1, ConcatType
    <3>4. QED
      BY <3>1, <3>2, <3>3, Zenon
  <2>2. CASE i # 1
    <3>1. u[i] = u[i - 1] \o texts[i]
      BY <1>5, <2>2
    <3>2. i - 1 \in 1..N
      BY <1>1, <2>2
    <3>3. v[i] = u[i] /\ v[i - 1] = u[i - 1]
      BY <1>6, <3>2
    <3>4. QED
      BY <3>1, <3>3
  <2>3. QED
    BY <2>1, <2>2
<1>8. v = [i \in 0..N |-> v[i]]
  OBVIOUS
<1>9. FlattenSeq(texts) = v[N]
  <2>1. CASE N = 0
    <3>1. texts = <<>>
      BY <2>1
    <3>2. QED
      BY <1>6, <2>1, <3>1 DEF FlattenSeq
  <2>2. CASE N # 0
    <3>1. FlattenSeq(texts) = u[N]
      BY <2>2 DEF FlattenSeq, u
    <3>2. N \in 1..N
      BY <1>1, <2>2
    <3>3. QED
      BY <1>6, <3>1, <3>2
  <2>3. QED
    BY <2>1, <2>2
<1> HIDE DEF v
<1>10. \A i \in 0..N : v[i] \in Seq(S)
  <2> DEFINE T == {i \in 0..N : v[i] \in Seq(S)}
  <2>1. 0 \in T
    <3>1. v[0] \in Seq(S)
      BY <1>1, <1>6, Zenon
    <3>2. QED
      BY <1>1, <3>1
  <2>2. ASSUME NEW i \in 1..N, i - 1 \in T PROVE i \in T
    <3>1. v[i] = v[i - 1] \o texts[i] /\ v[i - 1] \in Seq(S) /\ texts[i] \in Seq(S)
      BY <1>1, <1>7, <2>2
    <3>2. v[i] \in Seq(S)
      <4>1. v[i - 1] \o texts[i] \in Seq(S)
        BY <3>1, ConcatType, Zenon
      <4>2. QED
        BY <3>1, <4>1, Zenon
    <3>3. QED
      BY <1>1, <3>2
  <2> HIDE DEF T
  <2>3. 0..N \subseteq T
    BY <1>1, <2>1, <2>2, Induct
  <2>4. QED
    BY <2>3 DEF T
<1>11. v \in [0..N -> Seq(S)]
  BY <1>8, <1>10
<1>12. \A i \in 1..N : v[i - 1] \in Seq(S)
  <2>1. \A i \in 1..N : i - 1 \in 0..N
    BY <1>1
  <2>2. QED
    BY <1>10, <2>1
<1>13. Concats(texts, S, v)
  BY <1>6, <1>7, <1>11, <1>12 DEF Concats
<1>14. QED
  BY <1>9, <1>13

(* The sizes of the sentences of each page *)
SizesOfPages(pages) == [i \in DOMAIN pages |-> pages[i].sizes]

(* They are sequences of positive numbers, one for each page. *)
LEMMA PageSizes ==
  ASSUME NEW pages \in Seq(Pages)
  PROVE  /\ SizesOfPages(pages) \in Seq(Seq(Nat \ {0}))
         /\ Len(SizesOfPages(pages)) = Len(pages)
         /\ \A i \in 1..Len(pages) : /\ SizesOfPages(pages)[i] = pages[i].sizes
                                     /\ pages[i].sizes \in Seq(Nat \ {0})
<1> DEFINE n == Len(pages)
<1>1. n \in Nat /\ DOMAIN pages = 1..n /\ \A i \in 1..n : pages[i] \in Pages
  OBVIOUS
<1>2. \A i \in 1..n : pages[i].sizes \in Seq(Nat \ {0})
  BY <1>1 DEF Pages
<1>3. SizesOfPages(pages) \in [1..n -> Seq(Nat \ {0})]
  BY <1>1, <1>2 DEF SizesOfPages
<1>4. QED
  <2> DEFINE S == Seq(Nat \ {0})
             f == SizesOfPages(pages)
  <2>1. f \in [1..n -> S] /\ \A i \in 1..n : f[i] = pages[i].sizes
    BY <1>1, <1>3 DEF SizesOfPages
  <2> HIDE DEF S, f
  <2>2. f \in Seq(S) /\ Len(f) = n
    BY <1>1, <2>1
  <2>3. QED
    BY <1>2, <2>1, <2>2 DEF S, f

(* Where the pages end in the text *)
PageEnds(pages, e) ==
  /\ e \in [0..Len(pages) -> Nat] /\ e[0] = 0
  /\ \A i \in 1..Len(pages) : e[i] = e[i - 1] + Len(pages[i].sizes)

(* The text is that of the pages, one after the other. *)
LEMMA TextOfPages ==
  ASSUME NEW pages \in Seq(Pages)
  PROVE  /\ FlattenSeq(SizesOfPages(pages)) \in SizesType
         /\ \E e : PageEnds(pages, e) /\ e[Len(pages)] = Len(FlattenSeq(SizesOfPages(pages)))
<1> DEFINE texts == SizesOfPages(pages)
           S == Nat \ {0}
           n == Len(pages)
<1>1. texts \in Seq(Seq(S)) /\ Len(texts) = n /\ n \in Nat
  BY PageSizes
<1>2. \A i \in 1..n : texts[i] = pages[i].sizes /\ pages[i].sizes \in Seq(S)
  BY PageSizes
<1> HIDE DEF texts, S, n
<1>3. PICK v : Concats(texts, S, v) /\ FlattenSeq(texts) = v[Len(texts)]
  BY <1>1, Flattened
<1>4. /\ v \in [0..n -> Seq(S)] /\ v[0] = <<>>
      /\ \A i \in 1..n : v[i] = v[i - 1] \o texts[i]
  BY <1>1, <1>3 DEF Concats
<1>5. v[n] \in Seq(S) /\ FlattenSeq(texts) = v[n]
  BY <1>1, <1>3, <1>4
<1> DEFINE e == [i \in 0..n |-> Len(v[i])]
<1>6. e \in [0..n -> Nat] /\ e[0] = 0 /\ e[n] = Len(v[n])
  <2>1. \A i \in 0..n : Len(v[i]) \in Nat
    BY <1>4
  <2>2. Len(v[0]) = 0
    BY <1>4
  <2>3. 0 \in 0..n /\ n \in 0..n
    BY <1>1
  <2>4. QED
    BY <2>1, <2>2, <2>3
<1>7. ASSUME NEW i \in 1..n PROVE e[i] = e[i - 1] + Len(pages[i].sizes)
  <2>1. i \in 0..n /\ i - 1 \in 0..n
    BY <1>1
  <2>2. v[i - 1] \in Seq(S) /\ texts[i] \in Seq(S)
    BY <1>2, <1>4, <2>1
  <2>3. Len(v[i - 1] \o texts[i]) = Len(v[i - 1]) + Len(texts[i])
    BY <2>2
  <2>4. v[i] = v[i - 1] \o texts[i] /\ texts[i] = pages[i].sizes
    BY <1>2, <1>4
  <2>5. Len(v[i]) = Len(v[i - 1]) + Len(pages[i].sizes)
    BY <2>3, <2>4, Zenon
  <2>6. QED
    BY <2>1, <2>5
<1> HIDE DEF e
<1>8. PageEnds(pages, e)
  BY <1>6, <1>7 DEF PageEnds, n
<1>9. QED
  BY <1>5, <1>6, <1>8 DEF SizesType, n, texts, S

(* The sizes of a document are sizes; where there is none there are none. *)
LEMMA SizesOfDocument ==
  ASSUME NEW d \in Documents \cup {Nothing}
  PROVE  Sizes(d) \in SizesType /\ (d = Nothing => Sizes(d) = <<>>)
<1>1. CASE d \in Documents
  <2>1. d.pages \in Seq(Pages) /\ d # Nothing
    BY <1>1, ChunkingAssumption DEF Nothing, Sources
  <2>2. Sizes(d) = FlattenSeq(SizesOfPages(d.pages))
    BY DEF Sizes, SizesOfPages
  <2>3. QED
    BY <2>1, <2>2, TextOfPages
<1>2. CASE d = Nothing
  <2>1. d.pages = <<>>
    BY <1>2 DEF Nothing
  <2>2. [i \in DOMAIN d.pages |-> d.pages[i].sizes] = <<>>
    BY <2>1
  <2>3. Sizes(d) = <<>>
    BY <2>2 DEF Sizes, FlattenSeq
  <2>4. QED
    BY <2>3 DEF SizesType
<1>3. QED
  BY <1>1, <1>2

(* A page begins where those before it end. *)
LEMMA PageStarts ==
  ASSUME NEW pages \in Seq(Pages), NEW e, PageEnds(pages, e), NEW i \in 1..Len(pages)
  PROVE  Sum([j \in 1..(i - 1) |-> Len(pages[j].sizes)]) = e[i - 1]
<1> DEFINE n == Len(pages)
           ls(k) == [j \in 1..k |-> Len(pages[j].sizes)]
           T == {k \in 0..n : Sum(ls(k)) = e[k]}
<1>1. /\ n \in Nat /\ \A k \in 1..n : Len(pages[k].sizes) \in Nat
      /\ e \in [0..n -> Nat] /\ e[0] = 0
      /\ \A k \in 1..n : e[k] = e[k - 1] + Len(pages[k].sizes)
  <2>1. \A k \in 1..n : pages[k].sizes \in Seq(Nat \ {0})
    BY PageSizes
  <2>2. QED
    BY <2>1 DEF PageEnds
<1>2. 0 \in T
  <2>1. ls(0) = <<>>
    OBVIOUS
  <2>2. QED
    BY <1>1, <2>1, SumEmpty
<1>3. ASSUME NEW k \in 1..n, k - 1 \in T PROVE k \in T
  <2> DEFINE s == ls(k - 1)
             x == Len(pages[k].sizes)
             t == ls(k)
  <2>1. x \in Nat
    BY <1>1
  <2>2. s \in Seq(Int) /\ Len(s) = k - 1 /\ \A j \in 1..(k - 1) : s[j] = Len(pages[j].sizes)
    <3>1. \A j \in 1..(k - 1) : Len(pages[j].sizes) \in Int
      BY <1>1
    <3>2. s \in [1..(k - 1) -> Int] /\ k - 1 \in Nat
      BY <3>1
    <3>3. QED
      BY <3>2
  <2>3. t \in Seq(Int) /\ Len(t) = k /\ \A j \in 1..k : t[j] = Len(pages[j].sizes)
    <3>1. \A j \in 1..k : Len(pages[j].sizes) \in Int
      BY <1>1
    <3>2. t \in [1..k -> Int]
      BY <3>1
    <3>3. QED
      BY <3>2
  <2>4. Sum(s) = e[k - 1]
    BY <1>3
  <2> HIDE DEF s, t
  <2>5. t = Append(s, x)
    <3> DEFINE r == Append(s, x)
    <3> HIDE DEF x
    <3>1. /\ r \in Seq(Int) /\ Len(r) = k
          /\ (\A j \in 1..(k - 1) : r[j] = s[j]) /\ r[k] = x
      BY <2>1, <2>2
    <3> HIDE DEF r
    <3>2. ASSUME NEW j \in 1..k PROVE t[j] = r[j]
      <4>1. t[j] = Len(pages[j].sizes)
        BY <2>3
      <4>2. CASE j = k
        BY <3>1, <4>1, <4>2 DEF x
      <4>3. CASE j # k
        <5>1. j \in 1..(k - 1)
          BY <4>3
        <5>2. QED
          BY <2>2, <3>1, <4>1, <5>1
      <4>4. QED
        BY <4>2, <4>3
    <3>3. t = r
      BY <2>3, <3>1, <3>2
    <3>4. QED
      BY <3>3 DEF r
  <2>6. Sum(t) = Sum(s) + x
    <3> HIDE DEF x
    <3>1. x \in Int
      BY <2>1
    <3>2. QED
      BY <2>2, <2>5, <3>1, SumAppend
  <2>7. QED
    BY <1>1, <2>4, <2>6 DEF t
<1>4. i - 1 \in T
  <2> HIDE DEF T
  <2>1. 0..n \subseteq T
    BY <1>1, <1>2, <1>3, Induct
  <2>2. QED
    BY <1>1, <2>1
<1>5. QED
  BY <1>4

(* Later pages end later. *)
LEMMA PageEndsOrder ==
  ASSUME NEW pages \in Seq(Pages), NEW e, PageEnds(pages, e)
  PROVE  \A b \in 0..Len(pages) : \A c \in b..Len(pages) : e[b] <= e[c]
<1> DEFINE n == Len(pages)
<1>1. /\ n \in Nat /\ \A k \in 1..n : Len(pages[k].sizes) \in Nat
      /\ e \in [0..n -> Nat]
      /\ \A k \in 1..n : e[k] = e[k - 1] + Len(pages[k].sizes)
  <2>1. \A k \in 1..n : pages[k].sizes \in Seq(Nat \ {0})
    BY PageSizes
  <2>2. QED
    BY <2>1 DEF PageEnds
<1>2. ASSUME NEW b \in 0..n, NEW c \in b..n PROVE e[b] <= e[c]
  <2> DEFINE T == {k \in 0..n : k < b \/ e[b] <= e[k]}
  <2>0. e[b] \in Nat
    BY <1>1
  <2>1. 0 \in T
    BY <1>1, <2>0
  <2>2. ASSUME NEW k \in 1..n, k - 1 \in T PROVE k \in T
    <3>1. k - 1 \in 0..n /\ k \in 0..n
      BY <1>1
    <3>2. e[k - 1] \in Nat /\ e[k] = e[k - 1] + Len(pages[k].sizes) /\ Len(pages[k].sizes) \in Nat
      BY <1>1, <3>1
    <3>3. CASE k <= b
      BY <2>0, <3>1, <3>3
    <3>4. CASE k > b
      <4>1. e[b] <= e[k - 1]
        BY <2>2, <3>4
      <4>2. QED
        BY <2>0, <3>1, <3>2, <4>1
    <3>5. QED
      BY <3>3, <3>4
  <2> HIDE DEF T
  <2>3. 0..n \subseteq T
    BY <1>1, <2>1, <2>2, Induct
  <2>4. c \in 0..n /\ c >= b /\ ~(c < b)
    BY ONLY n \in Nat, b \in 0..n, c \in b..n
  <2>5. c \in T
    BY <2>3, <2>4
  <2>6. QED
    BY <2>4, <2>5 DEF T
<1>3. QED
  BY <1>2

(* The sentences of a page are a run. *)
LEMMA WholeRun ==
  ASSUME NEW sizes \in SizesType, NEW from \in Nat \ {0}, NEW to \in from..Len(sizes)
  PROVE  /\ Run(sizes, {}, Whole(from, to))
         /\ Whole(from, to)[1][1] = from /\ End(Whole(from, to)) = to
         /\ \A j \in from..to : Holds(Whole(from, to), <<j, 0>>)
         /\ \A a \in 1..Len(Whole(from, to)) : Whole(from, to)[a][1] >= from
<1> DEFINE t == Whole(from, to)
           n == to - from + 1
<1>1. n \in Nat \ {0} /\ Len(sizes) \in Nat
  BY DEF SizesType
<1>2. \A a \in 1..n : <<from + a - 1, 0>> \in PartsOf(sizes)
  BY <1>1 DEF PartsOf
<1>3. t \in Seq(PartsOf(sizes)) /\ Len(t) = n /\ \A a \in 1..n : t[a] = <<from + a - 1, 0>>
  <2>1. t = [a \in 1..n |-> <<from + a - 1, 0>>]
    BY DEF Whole
  <2>2. t \in [1..n -> PartsOf(sizes)] /\ \A a \in 1..n : t[a] = <<from + a - 1, 0>>
    BY <1>2, <2>1
  <2> DEFINE S == PartsOf(sizes)
  <2> HIDE DEF t, n, S
  <2>3. t \in Seq(S) /\ Len(t) = n
    BY <1>1, <2>2 DEF S
  <2>4. QED
    BY <2>2, <2>3 DEF S
<1> HIDE DEF t
<1>4. \A a \in 1..n : t[a][1] = from + a - 1 /\ t[a][2] = 0
  BY <1>3
<1>5. t # <<>> /\ t[1][1] = from /\ End(t) = to
  <2>1. 1 \in 1..n /\ n \in 1..n /\ t # <<>>
    BY <1>1, <1>3
  <2>2. t[1][1] = from + 1 - 1 /\ t[n][1] = from + n - 1
    BY <1>4, <2>1
  <2>3. End(t) = t[n][1]
    BY <1>3 DEF End
  <2>4. QED
    BY <2>1, <2>2, <2>3
<1>6. \A j \in from..to : Holds(t, <<j, 0>>)
  <2>1. ASSUME NEW j \in from..to PROVE Holds(t, <<j, 0>>)
    <3>1. j - from + 1 \in 1..n /\ from + (j - from + 1) - 1 = j
      OBVIOUS
    <3>2. QED
      BY <1>3, <3>1 DEF Holds
  <2>2. QED
    BY <2>1
<1>7. \A a \in 1..n : t[a][1] >= from
  BY <1>4
<1>8. \A a, b \in 1..n : a < b => t[a][1] < t[b][1]
  BY <1>4
<1>9. Run(sizes, {}, t)
  BY <1>3, <1>4, <1>5, <1>6, <1>8 DEF Run, Texts
<1>10. QED
  BY <1>3, <1>5, <1>6, <1>7, <1>9 DEF t

(* The pages of a text are its chunks, *)
LEMMA HierarchicalCovered ==
  ASSUME NEW pages \in Seq(Pages),
         NEW sizes, sizes = FlattenSeq(SizesOfPages(pages))
  PROVE  Covered(sizes, {}, Hierarchical(pages))
<1> DEFINE n == Len(pages)
           cs == Hierarchical(pages)
           text(c) == cs[c].text
<1>1. sizes \in SizesType
  BY TextOfPages
<1>2. PICK e : PageEnds(pages, e) /\ e[n] = Len(sizes)
  BY TextOfPages
<1>3. /\ n \in Nat /\ DOMAIN pages = 1..n /\ \A k \in 1..n : Len(pages[k].sizes) \in Nat
      /\ e \in [0..n -> Nat] /\ e[0] = 0
      /\ \A k \in 1..n : e[k] = e[k - 1] + Len(pages[k].sizes) /\ e[k - 1] \in Nat
      /\ \A b \in 0..n : \A c \in b..n : e[b] <= e[c]
  <2>1. \A k \in 1..n : pages[k].sizes \in Seq(Nat \ {0})
    BY PageSizes
  <2>2. \A b \in 0..n : \A c \in b..n : e[b] <= e[c]
    BY <1>2, PageEndsOrder
  <2>3. e \in [0..n -> Nat] /\ e[0] = 0 /\ \A k \in 1..n : e[k] = e[k - 1] + Len(pages[k].sizes)
    BY <1>2 DEF PageEnds
  <2>4. \A k \in 1..n : e[k - 1] \in Nat
    <3>1. \A k \in 1..n : k - 1 \in 0..n
      OBVIOUS
    <3>2. QED
      BY <2>3, <3>1
  <2>5. QED
    BY <2>1, <2>2, <2>3, <2>4
<1>4. DOMAIN cs = 1..n
  BY <1>3 DEF Hierarchical
<1>5. ASSUME NEW c \in 1..n
      PROVE  text(c) = Whole(e[c - 1] + 1, e[c])
  <2>1. Sum([j \in 1..(c - 1) |-> Len(pages[j].sizes)]) = e[c - 1]
    BY <1>2, PageStarts
  <2>2. text(c) = Whole(e[c - 1] + 1, e[c - 1] + 1 + Len(pages[c].sizes) - 1)
    BY <1>3, <2>1 DEF Hierarchical, Chunk
  <2>3. e[c - 1] + 1 + Len(pages[c].sizes) - 1 = e[c]
    BY <1>3
  <2>4. QED
    BY <2>2, <2>3
<1>6. \A c \in 1..n : cs[c] = [text |-> text(c), parent |-> cs[c].parent] /\ cs[c].parent \in Nat
  <2>1. ASSUME NEW c \in 1..n
        PROVE  cs[c] = [text |-> text(c), parent |-> cs[c].parent] /\ cs[c].parent \in Nat
    <3> DEFINE sections == {j \in 1..(c - 1) : pages[j].level \in {"h1", "h2"}}
    <3>1. cs[c].parent = IF pages[c].level \in {"h1", "h2"} \/ sections = {} THEN 0
                         ELSE CHOOSE j \in sections : \A l \in sections : l <= j
      BY <1>3 DEF Hierarchical, Chunk
    <3>2. cs[c] = [text |-> text(c), parent |-> cs[c].parent]
      BY <1>3 DEF Hierarchical, Chunk
    <3>3. sections # {} => \E j \in sections : \A l \in sections : l <= j
      <4>1. sections \subseteq Nat /\ \A j \in sections : j <= n
        BY <1>3
      <4> HIDE DEF sections
      <4>2. QED
        BY <1>3, <4>1, Greatest
    <3>4. sections \subseteq Nat
      OBVIOUS
    <3> HIDE DEF sections, cs
    <3>5. cs[c].parent \in Nat
      <4>1. CASE cs[c].parent = 0
        BY <4>1
      <4>2. CASE cs[c].parent # 0
        <5>1. sections # {}
          BY <3>1, <4>2
        <5>2. cs[c].parent \in sections
          BY <3>1, <3>3, <4>2, <5>1
        <5>3. QED
          BY <3>4, <5>2
      <4>3. QED
        BY <4>1, <4>2
    <3>6. QED
      BY <3>2, <3>5
  <2>2. QED
    BY <2>1
<1>7. ASSUME NEW c \in 1..n
      PROVE  \/ text(c) = <<>> /\ e[c] = e[c - 1]
             \/ /\ Run(sizes, {}, text(c)) /\ text(c)[1][1] = e[c - 1] + 1 /\ End(text(c)) = e[c]
                /\ \A j \in (e[c - 1] + 1)..e[c] : Holds(text(c), <<j, 0>>)
                /\ \A a \in 1..Len(text(c)) : text(c)[a][1] >= e[c - 1] + 1
                /\ e[c - 1] < e[c]
  <2>1. e[c] \in Nat /\ e[c - 1] \in Nat /\ e[c - 1] <= e[c] /\ e[c] <= Len(sizes)
    <3>1. c \in 0..n /\ n \in c..n
      BY <1>3
    <3>2. e[c] \in Nat /\ e[c] <= e[n]
      BY <1>3, <3>1
    <3>3. e[c] <= Len(sizes)
      BY <1>2, <3>2
    <3>4. /\ e[c] = e[c - 1] + Len(pages[c].sizes) /\ e[c - 1] \in Nat
          /\ Len(pages[c].sizes) \in Nat
      BY <1>3
    <3>5. QED
      BY ONLY <3>2, <3>3, <3>4
  <2>2. CASE e[c] = e[c - 1]
    <3>1. Whole(e[c - 1] + 1, e[c]) = <<>>
      BY <2>1, <2>2 DEF Whole
    <3>2. QED
      BY <1>5, <2>2, <3>1
  <2>3. CASE e[c] # e[c - 1]
    <3>1. e[c - 1] + 1 \in Nat \ {0} /\ e[c] \in (e[c - 1] + 1)..Len(sizes) /\ e[c - 1] < e[c]
      BY <1>1, <2>1, <2>3 DEF SizesType
    <3> DEFINE from == e[c - 1] + 1
               to == e[c]
    <3>2. text(c) = Whole(from, to)
      BY <1>5
    <3>3. from \in Nat \ {0} /\ to \in from..Len(sizes)
      BY <3>1
    <3> HIDE DEF from, to, text
    <3>4. /\ Run(sizes, {}, Whole(from, to))
          /\ Whole(from, to)[1][1] = from /\ End(Whole(from, to)) = to
          /\ \A j \in from..to : Holds(Whole(from, to), <<j, 0>>)
          /\ \A a \in 1..Len(Whole(from, to)) : Whole(from, to)[a][1] >= from
      BY <1>1, <3>3, WholeRun
    <3>5. QED
      BY <3>1, <3>2, <3>4 DEF from, to
  <2>4. QED
    BY <2>2, <2>3
<1>8. cs \in Seq(ChunksOf(sizes)) /\ Len(cs) = n
  <2>1. \A c \in 1..n : text(c) \in Texts(sizes)
    <3>1. <<>> \in Texts(sizes)
      BY DEF Texts
    <3>2. QED
      BY <1>7, <3>1 DEF Run
  <2>2. \A c \in 1..n : cs[c] \in ChunksOf(sizes)
    <3>1. ASSUME NEW c \in 1..n PROVE cs[c] \in ChunksOf(sizes)
      <4> DEFINE t == text(c)
                 p == cs[c].parent
      <4>1. cs[c] = [text |-> t, parent |-> p] /\ p \in Nat /\ t \in Texts(sizes)
        BY <1>6, <2>1
      <4> HIDE DEF cs, t, p
      <4>2. QED
        BY <4>1 DEF ChunksOf
    <3>2. QED
      BY <3>1
  <2>3. cs = [c \in 1..n |-> cs[c]]
    BY <1>4 DEF Hierarchical
  <2>4. cs \in [1..n -> ChunksOf(sizes)]
    BY <2>2, <2>3
  <2> HIDE DEF cs
  <2>5. QED
    BY <1>3, <2>4
<1> HIDE DEF text
<1>9. ASSUME NEW b \in 1..n, NEW c \in 1..n, b < c, Joins(text(b)), Joins(text(c))
      PROVE  After(sizes, text(b), text(c))
  <2>1. /\ Run(sizes, {}, text(b)) /\ text(b)[1][1] = e[b - 1] + 1 /\ End(text(b)) = e[b]
        /\ Run(sizes, {}, text(c)) /\ text(c)[1][1] = e[c - 1] + 1 /\ End(text(c)) = e[c]
        /\ \A a \in 1..Len(text(c)) : text(c)[a][1] >= e[c - 1] + 1
        /\ e[b - 1] < e[b] /\ e[c - 1] < e[c]
    BY <1>7, <1>9 DEF Joins
  <2>2. e[b] <= e[c - 1] /\ e[b] \in Nat /\ e[c - 1] \in Nat /\ e[b - 1] \in Nat /\ e[c] \in Nat
    <3>1. b \in 0..n /\ c - 1 \in b..n /\ c \in 0..n
      BY <1>3, <1>9
    <3>2. QED
      BY <1>3, <3>1
  <2>3. Shares(sizes, End(text(b)), text(c))
    <3> DEFINE u == text(c)
    <3>1. u \in Seq(PartsOf(sizes)) /\ Len(u) \in Nat
      BY <1>1, <2>1, RunBasics
    <3>2. SubSeq(u, 1, 0) = <<>>
      BY <3>1
    <3>3. SizeOf(sizes, SubSeq(u, 1, 0)) <= OverlapTokens
      <4>1. SizeOf(sizes, <<>>) = 0
        BY <1>1, SizeOfEmpty
      <4>2. SizeOf(sizes, SubSeq(u, 1, 0)) = 0
        BY <3>2, <4>1, Zenon
      <4>3. QED
        BY <4>2, ChunkingAssumption
    <3>4. \A a \in 1..Len(u) : u[a][1] \in Nat /\ e[c - 1] + 1 <= u[a][1]
      <4>1. \A a \in 1..Len(u) : u[a][1] \in 1..Len(sizes)
        BY <1>1, <2>1, RunBasics
      <4>2. \A a \in 1..Len(u) : u[a][1] >= e[c - 1] + 1
        BY <2>1
      <4> HIDE DEF u
      <4>3. QED
        BY <2>2, <4>1, <4>2
    <3> HIDE DEF u
    <3>5. \A a \in (0 + 1)..Len(u) : e[b] < u[a][1]
      BY ONLY <2>2, <3>1, <3>4
    <3>6. 0 \in 0..Len(u)
      BY <3>1
    <3>7. Shares(sizes, e[b], u)
      BY <3>3, <3>5, <3>6, Zenon DEF Shares
    <3>8. QED
      BY <2>1, <3>7 DEF u
  <2>4. End(text(b)) < End(text(c)) /\ text(b)[1][1] <= text(c)[1][1]
    <3>1. e[b] < e[c] /\ e[b - 1] + 1 <= e[c - 1] + 1
      BY ONLY <2>1, <2>2
    <3>2. QED
      BY <2>1, <3>1
  <2>5. QED
    BY <2>3, <2>4 DEF After
<1>10. ASSUME NEW j \in 1..Len(sizes) PROVE InChunks(cs, <<j, 0>>)
  <2> DEFINE T == {k \in 1..n : j <= e[k]}
  <2>1. T \subseteq Nat /\ T # {}
    <3>1. n # 0
      <4>1. SUFFICES ASSUME n = 0 PROVE FALSE
        BY <4>1
      <4>2. Len(sizes) = 0
        BY <1>2, <1>3, <4>1
      <4>3. QED
        BY <4>2
    <3>2. n \in 1..n /\ j <= e[n]
      BY <1>2, <1>3, <3>1
    <3>3. QED
      BY <3>2
  <2> HIDE DEF T
  <2>2. PICK k \in T : \A l \in T : k <= l
    BY <2>1, Least
  <2> USE DEF T
  <2>3. k \in 1..n /\ j <= e[k]
    OBVIOUS
  <2>4. e[k - 1] < j
    <3>1. CASE k = 1
      BY <1>3, <3>1
    <3>2. CASE k # 1
      <4>1. k - 1 \in 1..n /\ k - 1 \notin T
        BY <2>2, <2>3, <3>2
      <4>2. e[k - 1] \in Nat
        BY <1>3, <2>3
      <4>3. QED
        BY <4>1, <4>2
    <3>3. QED
      BY <3>1, <3>2
  <2>5. e[k - 1] \in Nat /\ e[k] \in Nat
    BY <1>3, <2>3
  <2>6. j \in (e[k - 1] + 1)..e[k] /\ e[k] # e[k - 1]
    BY <2>3, <2>4, <2>5
  <2>7. Holds(text(k), <<j, 0>>)
    BY <1>7, <2>3, <2>6
  <2>8. QED
    BY <1>8, <2>3, <2>7 DEF InChunks, text
<1>11. QED
  <2>1. \A c \in 1..n : cs[c].text = <<>> \/ Run(sizes, {}, cs[c].text)
    BY <1>7 DEF text
  <2>2. \A b, c \in 1..n :
          b < c /\ Joins(cs[b].text) /\ Joins(cs[c].text) => After(sizes, cs[b].text, cs[c].text)
    BY <1>9 DEF text
  <2> HIDE DEF cs
  <2>3. Covered(sizes, {}, cs)
    BY <1>8, <1>10, <2>1, <2>2 DEF Covered
  <2>4. QED
    BY <2>3 DEF cs

(* each under a section before it. *)
LEMMA HierarchicalParents ==
  ASSUME NEW pages \in Seq(Pages)
  PROVE  ParentsOK(pages, Hierarchical(pages))
<1> DEFINE n == Len(pages)
           cs == Hierarchical(pages)
<1>1. n \in Nat /\ DOMAIN pages = 1..n /\ DOMAIN cs = 1..n
  BY DEF Hierarchical
<1>2. ASSUME NEW c \in 1..n, cs[c].parent # 0
      PROVE  cs[c].parent < c /\ pages[cs[c].parent].level \in {"h1", "h2"}
  <2> DEFINE sections == {j \in 1..(c - 1) : pages[j].level \in {"h1", "h2"}}
             last == CHOOSE j \in sections : \A l \in sections : l <= j
  <2>1. cs[c].parent = IF pages[c].level \in {"h1", "h2"} \/ sections = {} THEN 0 ELSE last
    BY <1>1 DEF Hierarchical, Chunk
  <2>2. sections # {} /\ cs[c].parent = last
    BY <1>2, <2>1
  <2>3. \E j \in sections : \A l \in sections : l <= j
    <3>1. sections \subseteq Nat /\ \A j \in sections : j <= n
      BY <1>1
    <3> HIDE DEF sections
    <3>2. QED
      BY <1>1, <2>2, <3>1, Greatest
  <2>4. last \in sections
    BY <2>3
  <2> HIDE DEF last
  <2>5. last < c /\ pages[last].level \in {"h1", "h2"}
    BY <2>4
  <2>6. QED
    BY <2>2, <2>5
<1>3. Len(cs) = n
  BY <1>1 DEF Hierarchical
<1>4. QED
  BY <1>2, <1>3 DEF ParentsOK

-----------------------------------------------------------------------------
(* Chunking keeps TextCovered *)

(* A document has the chunks that its strategy gives. *)
LEMMA FixedOK ==
  ASSUME NEW d \in Documents
  PROVE  ChunksOK(d, "fixed", FixedSize(Sizes(d)))
<1> DEFINE sizes == Sizes(d)
           cut == Cut(sizes, "fixed")
           cs == FixedSize(sizes)
<1>1. sizes \in SizesType
  BY SizesOfDocument
<1>2. cut = {j \in 1..Len(sizes) : sizes[j] > MaxTokens}
  BY DEF Cut
<1> HIDE DEF sizes, cut
<1>3. Chunked(sizes, cut, cs) /\ \A c \in 1..Len(cs) : Joins(cs[c].text) => FixedSmall(sizes, cs[c].text)
  BY <1>1, <1>2, FixedChunked
<1> HIDE DEF cs
<1>4. Covered(sizes, cut, cs)
  BY <1>3 DEF Covered, Chunked, DoneOK
<1>5. \A c \in 1..Len(cs) : Joins(cs[c].text) => Small(sizes, "fixed", cs[c].text)
  BY <1>3 DEF Small, FixedSmall
<1>6. ParentsOK(d.pages, cs)
  BY <1>3 DEF ParentsOK, Chunked, DoneOK
<1>7. QED
  BY <1>4, <1>5, <1>6 DEF ChunksOK, sizes, cut, cs

(* So it has when the semantic chunker groups similar sentences, *)
LEMMA SemanticOK ==
  ASSUME NEW d \in Documents, NEW similar
  PROVE  ChunksOK(d, "semantic", Semantic(Sizes(d), similar))
<1> DEFINE sizes == Sizes(d)
           cs == Semantic(sizes, similar)
<1>1. sizes \in SizesType
  BY SizesOfDocument
<1>2. Cut(sizes, "semantic") = {}
  BY DEF Cut
<1> HIDE DEF sizes
<1>3. Chunked(sizes, {}, cs) /\ \A c \in 1..Len(cs) : SimilarSmall(sizes, cs[c].text)
  BY <1>1, SemanticChunked
<1> HIDE DEF cs
<1>4. Covered(sizes, {}, cs)
  BY <1>3 DEF Covered, Chunked, DoneOK
<1>5. \A c \in 1..Len(cs) : Joins(cs[c].text) => Small(sizes, "semantic", cs[c].text)
  <2>1. ASSUME NEW c \in 1..Len(cs) PROVE Small(sizes, "semantic", cs[c].text)
    <3>1. CASE SizeOf(sizes, cs[c].text) <= MaxTokens
      BY <3>1, ChunkingAssumption DEF Small
    <3>2. CASE Len(cs[c].text) = 1
      BY <3>2 DEF Small
    <3>3. QED
      BY <1>3, <3>1, <3>2 DEF SimilarSmall
  <2>2. QED
    BY <2>1
<1>6. ParentsOK(d.pages, cs)
  BY <1>3 DEF ParentsOK, Chunked, DoneOK
<1>7. QED
  BY <1>2, <1>4, <1>5, <1>6 DEF ChunksOK, sizes, cs

(* and when the hierarchical one takes pages with their sentences. *)
LEMMA HierarchicalOK ==
  ASSUME NEW d \in Documents
  PROVE  ChunksOK(d, "hierarchical", Hierarchical(d.pages))
<1>1. d.pages \in Seq(Pages)
  BY ChunkingAssumption
<1>2. Sizes(d) = FlattenSeq(SizesOfPages(d.pages))
  BY DEF Sizes, SizesOfPages
<1>3. Cut(Sizes(d), "hierarchical") = {}
  BY DEF Cut
<1>4. Covered(Sizes(d), {}, Hierarchical(d.pages)) /\ ParentsOK(d.pages, Hierarchical(d.pages))
  BY <1>1, <1>2, HierarchicalCovered, HierarchicalParents
<1>5. QED
  BY <1>3, <1>4 DEF ChunksOK, Small

(* The inductive invariant: the chunks are those of a document, or there is *)
(* no document and there are none.                                          *)
ChunkInv ==
  /\ document \in Documents \cup {Nothing}
  /\ ChunksOK(document, strategy, chunks)
  /\ document = Nothing => chunks = <<>>

(* At first there is no document and no chunk. *)
LEMMA ChunkInitInv ==
  ASSUME ChunkInit
  PROVE  ChunkInv
<1> DEFINE sizes == Sizes(document)
<1>1. sizes = <<>> /\ chunks = <<>> /\ Len(<<>>) = 0 /\ document = Nothing
  BY SizesOfDocument DEF ChunkInit
<1>2. <<>> \in Seq(ChunksOf(sizes))
  OBVIOUS
<1> HIDE DEF sizes
<1>3. Covered(sizes, Cut(sizes, strategy), <<>>)
  BY <1>1, <1>2 DEF Covered
<1>4. ParentsOK(document.pages, <<>>)
  BY <1>1 DEF ParentsOK
<1>5. QED
  BY <1>1, <1>3, <1>4 DEF ChunkInv, ChunksOK, sizes

(* Chunking a document makes its chunks, whatever the strategy chosen. *)
LEMMA ChunkNextInv ==
  ASSUME ChunkNext
  PROVE  ChunkInv'
<1>1. PICK d \in Documents : ChunkDocument(d)
  BY DEF ChunkNext
<1>2. d # Nothing
  BY ChunkingAssumption DEF Nothing, Sources
<1>3. document' = d
  BY <1>1 DEF ChunkDocument
<1>4. StrategyFor(d) \in {"fixed", "semantic", "hierarchical"}
  BY DEF StrategyFor
<1>5. ChunksOK(d, strategy', chunks')
  <2>1. CASE strategy' = StrategyFor(d) /\ strategy' # "semantic"
             /\ chunks' = IF strategy' = "fixed" THEN FixedSize(Sizes(d)) ELSE Hierarchical(d.pages)
    BY <1>4, <2>1, FixedOK, HierarchicalOK
  <2>2. CASE strategy' = "semantic"
             /\ \E similar \in [DOMAIN Sizes(d) -> BOOLEAN] : chunks' = Semantic(Sizes(d), similar)
    BY <2>2, SemanticOK
  <2>3. CASE strategy' = "fixed" /\ chunks' = FixedSize(Sizes(d))
    BY <2>3, FixedOK
  <2>4. QED
    BY <1>1, <2>1, <2>2, <2>3 DEF ChunkDocument
<1>6. QED
  BY <1>2, <1>3, <1>5 DEF ChunkInv

(* The invariant is what TextCovered asks for. *)
LEMMA ChunkInvCovered ==
  ASSUME ChunkInv
  PROVE  TextCovered
BY ChunksCovered, SizesOfDocument DEF ChunkInv

(* No text of a document is lost or repeated in its chunks (TextCovered),   *)
(* however long its sentences and many its pages (chunker.py).              *)
THEOREM TextIsCovered == Spec => []TextCovered
<1>1. Init => ChunkInv
  BY ChunkInitInv DEF Init
<1>2. ChunkInv /\ [Next]_vars => ChunkInv'
  <2> SUFFICES ASSUME ChunkInv, [Next]_vars PROVE ChunkInv'
    OBVIOUS
  <2>1. CASE ChunkNext
    BY <2>1, ChunkNextInv
  <2>2. CASE UNCHANGED chunkVars
    BY <2>2 DEF ChunkInv, chunkVars
  <2>3. ChunkNext \/ UNCHANGED chunkVars
    BY DEF Next, Search, Fuse, Rerank, Assemble, Cite, vars
  <2>4. QED
    BY <2>1, <2>2, <2>3
<1>3. ChunkInv => TextCovered
  BY ChunkInvCovered
<1>4. QED
  BY <1>1, <1>2, <1>3, PTL DEF Spec

-----------------------------------------------------------------------------
(* Sorting: after[c] has those that come after c *)

(* after is a strict total order on S. *)
StrictOrder(S, after) ==
  /\ after \in [S -> SUBSET S]
  /\ \A c \in S : c \notin after[c]
  /\ \A c, d \in S : c # d => d \in after[c] \/ c \in after[d]
  /\ \A c, d, e \in S : d \in after[c] /\ e \in after[d] => e \in after[c]

(* The elements of s come in the order of after. *)
SortedBy(s, after) == \A i, j \in 1..Len(s) : i < j => s[j] \in after[s[i]]

(* A sequence of all members of a set, each once *)
LEMMA SequenceOfSet ==
  ASSUME NEW S, IsFiniteSet(S), NEW s \in SetToSeqs(S)
  PROVE  /\ s \in Seq(S) /\ Len(s) = Cardinality(S) /\ Len(s) \in Nat /\ DOMAIN s = 1..Len(s)
         /\ Range(s) = S
         /\ \A i, j \in 1..Len(s) : s[i] = s[j] => i = j
<1> DEFINE n == Cardinality(S)
<1>1. n \in Nat
  BY FS_CardinalityType
<1>2. s \in [1..n -> S] /\ \A i, j \in 1..n : i # j => s[i] # s[j]
  BY DEF SetToSeqs
<1>3. s \in Seq(S) /\ Len(s) = n
  <2> HIDE DEF n
  <2>1. QED
    BY <1>1, <1>2
<1>4. IsFiniteSet(1..n) /\ Cardinality(1..n) = n
  <2> HIDE DEF n
  <2>1. 1 \in Int /\ n \in Int
    BY <1>1
  <2>2. /\ IsFiniteSet(1..n)
        /\ Cardinality(1..n) = IF 1 > n THEN 0 ELSE n - 1 + 1
    BY <2>1, FS_Interval
  <2>3. QED
    BY <1>1, <2>2
<1>5. s \in Injection(1..n, S)
  BY <1>2 DEF Injection, IsInjective
<1>6. s \in Surjection(1..n, S)
  BY <1>4, <1>5, FS_Injection
<1>7. Range(s) = S
  BY <1>2, <1>6 DEF Surjection, Range
<1>8. QED
  BY <1>1, <1>2, <1>3, <1>7

(* There is a sorted one. *)
LEMMA SortExists ==
  ASSUME NEW S, IsFiniteSet(S), NEW after, StrictOrder(S, after)
  PROVE  \E s \in SetToSeqs(S) : SortedBy(s, after)
<1> DEFINE n == Cardinality(S)
           before(c) == {d \in S : c \in after[d]}
           rank == [c \in S |-> Cardinality(before(c)) + 1]
<1>1. n \in Nat
  BY FS_CardinalityType
<1>2. \A c \in S : IsFiniteSet(before(c)) /\ Cardinality(before(c)) \in Nat
  <2>1. \A c \in S : IsFiniteSet(before(c))
    BY FS_Subset
  <2>2. QED
    BY <2>1, FS_CardinalityType
<1>3. ASSUME NEW c \in S, NEW d \in S, d \in after[c]
      PROVE  Cardinality(before(c)) < Cardinality(before(d))
  <2>1. before(c) \subseteq before(d) /\ c \in before(d) /\ c \notin before(c)
    BY <1>3 DEF StrictOrder
  <2> DEFINE A == before(c)
             B == before(d)
  <2>2. A \in SUBSET B /\ A # B
    BY <2>1
  <2>3. IsFiniteSet(B) /\ Cardinality(B) \in Nat /\ Cardinality(A) \in Nat
    BY <1>2
  <2> HIDE DEF A, B
  <2>4. Cardinality(A) <= Cardinality(B) /\ Cardinality(A) # Cardinality(B)
    BY <2>2, <2>3, FS_Subset
  <2>5. Cardinality(A) < Cardinality(B)
    BY <2>3, <2>4
  <2>6. QED
    BY <2>5 DEF A, B
<1>4. \A c \in S : Cardinality(before(c)) < n
  <2>1. ASSUME NEW c \in S PROVE Cardinality(before(c)) < n
    <3> DEFINE A == before(c)
    <3>1. A \in SUBSET S /\ A # S
      BY DEF StrictOrder
    <3>2. Cardinality(A) \in Nat
      BY <1>2
    <3> HIDE DEF A
    <3>3. Cardinality(A) <= n /\ Cardinality(A) # n
      BY <3>1, FS_Subset
    <3>4. Cardinality(A) < n
      BY <1>1, <3>2, <3>3
    <3>5. QED
      BY <3>4 DEF A
  <2>2. QED
    BY <2>1
<1> HIDE DEF before, n
<1>5. rank \in [S -> 1..n]
  <2>1. \A c \in S : Cardinality(before(c)) + 1 \in 1..n
    BY <1>1, <1>2, <1>4
  <2>2. QED
    BY <2>1
<1>6. \A c, d \in S : d \in after[c] => rank[c] < rank[d]
  <2>1. ASSUME NEW c \in S, NEW d \in S, d \in after[c] PROVE rank[c] < rank[d]
    <3> DEFINE a == Cardinality(before(c))
               b == Cardinality(before(d))
    <3>1. rank[c] = a + 1 /\ rank[d] = b + 1
      OBVIOUS
    <3>2. a < b /\ a \in Nat /\ b \in Nat
      BY <1>2, <1>3, <2>1
    <3> HIDE DEF a, b, rank
    <3>3. QED
      BY <3>1, <3>2
  <2>2. QED
    BY <2>1
<1> HIDE DEF rank, n
<1>7. rank \in Injection(S, 1..n)
  <2>1. \A c, d \in S : rank[c] = rank[d] => c = d
    <3>1. ASSUME NEW c \in S, NEW d \in S, rank[c] = rank[d], c # d PROVE FALSE
      <4>1. rank[c] < rank[d] \/ rank[d] < rank[c]
        BY <1>6, <3>1 DEF StrictOrder
      <4>2. rank[c] \in Int /\ rank[d] \in Int
        BY <1>5
      <4>3. QED
        BY <3>1, <4>1, <4>2
    <3>2. QED
      BY <3>1
  <2>2. DOMAIN rank = S
    BY <1>5
  <2>3. QED
    BY <1>5, <2>1, <2>2 DEF Injection, IsInjective
<1>8. rank \in Surjection(S, 1..n)
  <2>1. IsFiniteSet(1..n) /\ Cardinality(1..n) = IF 1 > n THEN 0 ELSE n - 1 + 1
    <3>1. 1 \in Int /\ n \in Int
      BY <1>1
    <3>2. QED
      BY <3>1, FS_Interval
  <2>2. Cardinality(S) = Cardinality(1..n)
    BY <1>1, <2>1 DEF n
  <2>3. QED
    BY <1>7, <2>1, <2>2, FS_Injection
<1>9. \A i \in 1..n : \E c \in S : rank[c] = i
  BY <1>8 DEF Surjection
<1> DEFINE s == [i \in 1..n |-> CHOOSE c \in S : rank[c] = i]
<1>10. s \in [1..n -> S] /\ \A i \in 1..n : rank[s[i]] = i
  BY <1>9
<1> HIDE DEF s
<1>11. s \in SetToSeqs(S)
  BY <1>10 DEF SetToSeqs, n
<1>12. Len(s) = n
  BY <1>1, <1>10
<1>13. ASSUME NEW i \in 1..n, NEW j \in 1..n, i < j PROVE s[j] \in after[s[i]]
  <2>1. s[i] \in S /\ s[j] \in S /\ rank[s[i]] = i /\ rank[s[j]] = j
    BY <1>10
  <2>2. s[i] # s[j]
    BY <1>13, <2>1
  <2>3. s[i] \notin after[s[j]]
    <3>1. SUFFICES ASSUME s[i] \in after[s[j]] PROVE FALSE
      OBVIOUS
    <3>2. j < i
      BY <1>6, <2>1, <3>1
    <3>3. QED
      BY <1>13, <3>2
  <2>4. QED
    BY <2>1, <2>2, <2>3 DEF StrictOrder
<1>14. QED
  BY <1>11, <1>12, <1>13 DEF SortedBy

-----------------------------------------------------------------------------
(* Positions *)

(* Position is where an element is first. *)
LEMMA PositionOf ==
  ASSUME NEW S, NEW s \in Seq(S), NEW c \in Range(s)
  PROVE  /\ Position(s, c) \in 1..Len(s) /\ s[Position(s, c)] = c
         /\ \A j \in 1..Len(s) : s[j] = c => Position(s, c) <= j
<1> DEFINE T == {i \in 1..Len(s) : s[i] = c}
<1>1. DOMAIN s = 1..Len(s) /\ Len(s) \in Nat
  OBVIOUS
<1>2. T \subseteq Nat /\ T # {}
  BY <1>1 DEF Range
<1>3. \E i \in T : \A j \in T : i <= j
  <2> HIDE DEF T
  <2>1. QED
    BY <1>2, Least
<1>4. \E i \in DOMAIN s : s[i] = c /\ \A j \in DOMAIN s : s[j] = c => i <= j
  BY <1>1, <1>3
<1>5. Position(s, c) \in DOMAIN s /\ s[Position(s, c)] = c
      /\ \A j \in DOMAIN s : s[j] = c => Position(s, c) <= j
  BY <1>4 DEF Position
<1>6. QED
  BY <1>1, <1>5

(* The position in a sequence without repetition *)
LEMMA PositionOnce ==
  ASSUME NEW S, NEW s \in Seq(S), \A i, j \in 1..Len(s) : s[i] = s[j] => i = j,
         NEW i \in 1..Len(s)
  PROVE  s[i] \in Range(s) /\ Position(s, s[i]) = i
<1>1. s[i] \in Range(s)
  BY DEF Range
<1>2. Position(s, s[i]) \in 1..Len(s) /\ s[Position(s, s[i])] = s[i]
  BY <1>1, PositionOf
<1>3. QED
  BY <1>1, <1>2

-----------------------------------------------------------------------------
(* The fusion *)

(* The common denominator is a product. *)
LEMMA Products ==
  \E p : /\ p \in [0..K -> Nat \ {0}] /\ p[0] = 1
         /\ \A r \in 1..K : p[r] = p[r - 1] * (RankConstant + r)
         /\ Denominator = p[K]
<1> DEFINE S == Nat \ {0}
           Step == [r \in 1..K |-> [x \in S |-> x * (RankConstant + r)]]
           body(f) == [r \in 0..K |-> IF r = 0 THEN 1 ELSE f[r - 1] * (RankConstant + r)]
           p == CHOOSE f : f = body(f)
<1>1. K \in Nat \ {0} /\ RankConstant \in Nat
  BY RetrievalAssumption
<1>2. \A x \in S : \A r \in 1..K : x * (RankConstant + r) \in S
  BY <1>1
<1>3. Step \in [1..K -> [S -> S]]
  BY <1>2
<1>4. PICK g : Iterates(g, K, S, 1, Step)
  <2>1. 1 \in S /\ K \in Nat
    BY <1>1
  <2> HIDE DEF Step, S
  <2>2. QED
    BY <1>3, <2>1, Recursion, Zenon
<1>5. g = body(g)
  <2> HIDE DEF Step, S
  <2>1. g \in [0..K -> S] /\ g[0] = 1 /\ \A r \in 1..K : g[r] = Step[r][g[r - 1]]
    BY <1>4 DEF Iterates
  <2>2. \A r \in 1..K : g[r - 1] \in S
    BY <1>1, <2>1
  <2>3. \A r \in 1..K : g[r] = g[r - 1] * (RankConstant + r)
    BY <2>1, <2>2 DEF Step
  <2>4. \A r \in 0..K : g[r] = IF r = 0 THEN 1 ELSE g[r - 1] * (RankConstant + r)
    BY <1>1, <2>1, <2>3
  <2>5. g = [r \in 0..K |-> g[r]]
    BY <2>1
  <2>6. QED
    BY <2>4, <2>5, Zenon
<1>6. p = body(p)
  BY <1>5
<1>7. Denominator = p[K]
  BY DEF Denominator
<1> HIDE DEF p
<1>8. p[0] = 1 /\ \A r \in 1..K : p[r] = p[r - 1] * (RankConstant + r)
  BY <1>1, <1>6
<1>9. \A r \in 0..K : p[r] \in S
  <2> DEFINE T == {r \in 0..K : p[r] \in S}
  <2>1. 0 \in T
    BY <1>1, <1>8
  <2>2. ASSUME NEW r \in 1..K, r - 1 \in T PROVE r \in T
    <3>1. p[r - 1] \in S /\ p[r] = p[r - 1] * (RankConstant + r) /\ r \in 0..K
      BY <1>8, <2>2
    <3> HIDE DEF S
    <3>2. p[r] \in S
      BY <1>2, <3>1
    <3>3. QED
      BY <3>1, <3>2
  <2> HIDE DEF T, S
  <2>3. 0..K \subseteq T
    BY <1>1, <2>1, <2>2, Induct
  <2>4. QED
    BY <2>3 DEF T
<1>10. p \in [0..K -> S]
  <2>1. DOMAIN p = 0..K /\ p = [r \in DOMAIN p |-> p[r]]
    BY <1>6
  <2>2. QED
    BY <1>9, <2>1
<1>11. QED
  BY <1>7, <1>8, <1>10

(* Each of its factors divides it. *)
LEMMA Divides ==
  ASSUME NEW r \in 1..K
  PROVE  \E q \in Nat \ {0} : Denominator = (RankConstant + r) * q
<1>1. K \in Nat \ {0} /\ RankConstant \in Nat
  BY RetrievalAssumption
<1>2. PICK p : /\ p \in [0..K -> Nat \ {0}] /\ p[0] = 1
               /\ \A n \in 1..K : p[n] = p[n - 1] * (RankConstant + n)
               /\ Denominator = p[K]
  BY Products
<1> DEFINE T == {n \in 0..K : n < r \/ \E q \in Nat \ {0} : p[n] = (RankConstant + r) * q}
<1>3. 0 \in T
  BY <1>1
<1>4. ASSUME NEW n \in 1..K, n - 1 \in T PROVE n \in T
  <2>1. p[n] = p[n - 1] * (RankConstant + n) /\ p[n - 1] \in Nat \ {0} /\ n \in 0..K
    BY <1>1, <1>2
  <2>2. CASE n < r
    BY <2>1, <2>2
  <2>3. CASE n = r
    <3>1. p[n] = (RankConstant + r) * p[n - 1]
      BY <1>1, <2>1, <2>3
    <3>2. QED
      BY <2>1, <3>1
  <2>4. CASE n > r
    <3>1. PICK q \in Nat \ {0} : p[n - 1] = (RankConstant + r) * q
      BY <1>4, <2>4
    <3>2. q * (RankConstant + n) \in Nat \ {0}
      BY <1>1
    <3>3. p[n] = (RankConstant + r) * (q * (RankConstant + n))
      BY <1>1, <2>1, <3>1
    <3>4. QED
      BY <2>1, <3>2, <3>3
  <2>5. QED
    BY <1>1, <2>2, <2>3, <2>4
<1>5. K \in T
  <2> HIDE DEF T
  <2>1. 0..K \subseteq T
    BY <1>1, <1>3, <1>4, Induct
  <2>2. QED
    BY <1>1, <2>1
<1>6. QED
  BY <1>2, <1>5

(* What a rank counts: less and less, and nothing after the last *)
Weight(r) == IF r <= K THEN Denominator \div (RankConstant + r) ELSE 0

(* The common denominator is a multiple of what each rank divides it by. *)
LEMMA WeightType ==
  ASSUME NEW r \in 1..(K + 1)
  PROVE  /\ Weight(r) \in Nat
         /\ r <= K => Weight(r) > 0 /\ Denominator = (RankConstant + r) * Weight(r)
<1>1. K \in Nat \ {0} /\ RankConstant \in Nat
  BY RetrievalAssumption
<1>2. CASE r <= K
  <2>1. PICK q \in Nat \ {0} : Denominator = (RankConstant + r) * q
    BY <1>1, <1>2, Divides
  <2> DEFINE m == RankConstant + r
  <2>2. m \in Nat \ {0}
    BY <1>1
  <2> HIDE DEF m
  <2>3. (m * q) \div m = q
    BY <2>2
  <2>4. Weight(r) = q
    BY <1>2, <2>1, <2>3 DEF Weight, m
  <2>5. QED
    BY <2>1, <2>4
<1>3. CASE ~(r <= K)
  BY <1>3 DEF Weight
<1>4. QED
  BY <1>2, <1>3

(* A better rank counts more. *)
LEMMA WeightOrder ==
  ASSUME NEW r \in 1..(K + 1), NEW t \in 1..(K + 1)
  PROVE  /\ Weight(r) \in Nat /\ Weight(t) \in Nat
         /\ r <= t => Weight(r) >= Weight(t)
         /\ r < t => Weight(r) > Weight(t)
<1>1. K \in Nat \ {0} /\ RankConstant \in Nat
  BY RetrievalAssumption
<1>2. Weight(r) \in Nat /\ Weight(t) \in Nat
  BY WeightType
<1>3. ASSUME r < t PROVE Weight(r) > Weight(t)
  <2>1. r <= K /\ Weight(r) > 0 /\ Denominator = (RankConstant + r) * Weight(r)
    BY <1>1, <1>3, WeightType
  <2>2. CASE t <= K
    <3>1. Denominator = (RankConstant + t) * Weight(t) /\ Weight(t) > 0
      BY <2>2, WeightType
    <3> DEFINE a == RankConstant + r
               b == RankConstant + t
               x == Weight(r)
               y == Weight(t)
    <3>2. a \in Nat /\ b \in Nat /\ a < b /\ x \in Nat /\ y \in Nat /\ y > 0 /\ a * x = b * y
      BY <1>1, <1>2, <1>3, <2>1, <3>1
    <3> HIDE DEF a, b, x, y
    <3>3. x > y
      <4>1. SUFFICES ASSUME x <= y PROVE FALSE
        BY <3>2, <4>1
      <4>2. a * x <= a * y
        BY <3>2, <4>1
      <4>3. b * y >= a * y + y
        BY <3>2
      <4>4. a * x \in Int /\ a * y \in Int /\ b * y \in Int
        BY <3>2
      <4>5. QED
        BY <3>2, <4>2, <4>3, <4>4
    <3>4. QED
      BY <3>3 DEF x, y
  <2>3. CASE ~(t <= K)
    BY <2>1, <2>3 DEF Weight
  <2>4. QED
    BY <2>2, <2>3
<1>4. QED
  BY <1>2, <1>3

(* What the searches give *)
FoundOK == chunks \in Seq(ChunksOf(Sizes(document))) /\ found \in [1..3 -> Rankings]

(* Each of them is a sequence of at most K chunks. *)
LEMMA RankingType ==
  ASSUME FoundOK, NEW l \in 1..3
  PROVE  /\ found[l] \in Seq(DOMAIN chunks) /\ Len(found[l]) <= K /\ Len(found[l]) \in Nat
         /\ DOMAIN chunks = 1..Len(chunks) /\ IsFiniteSet(DOMAIN chunks)
<1> DEFINE D == DOMAIN chunks
<1>1. D = 1..Len(chunks) /\ Len(chunks) \in Nat
  BY DEF FoundOK
<1>2. IsFiniteSet(D)
  <2>1. 1 \in Int /\ Len(chunks) \in Int
    BY <1>1
  <2>2. IsFiniteSet(1..Len(chunks))
    BY <2>1, FS_Interval
  <2>3. QED
    BY <1>1, <2>2
<1> HIDE DEF D
<1>3. found[l] \in SetToAllKPermutations(D) /\ Len(found[l]) <= K
  BY DEF FoundOK, Rankings, D
<1>4. PICK S \in SUBSET D : found[l] \in SetToSeqs(S)
  BY <1>3 DEF SetToAllKPermutations
<1>5. IsFiniteSet(S)
  BY <1>2, FS_Subset
<1>6. found[l] \in Seq(S) /\ Len(found[l]) \in Nat
  BY <1>4, <1>5, SequenceOfSet
<1>7. found[l] \in Seq(D)
  <2> DEFINE s == found[l]
  <2> HIDE DEF s
  <2>1. s \in Seq(S) => s \in Seq(D)
    OBVIOUS
  <2>2. QED
    BY <1>6, <2>1 DEF s
<1>8. QED
  BY <1>1, <1>2, <1>3, <1>6, <1>7 DEF D

(* What a search counts for a chunk is the weight of its rank in it. *)
LEMMA RankWeight ==
  ASSUME FoundOK, NEW l \in 1..3, NEW c
  PROVE  Rank(l, c) \in 1..(K + 1) /\ Reciprocal(found[l], c) = Weight(Rank(l, c))
<1>1. K \in Nat \ {0}
  BY RetrievalAssumption
<1>2. found[l] \in Seq(DOMAIN chunks) /\ Len(found[l]) <= K /\ Len(found[l]) \in Nat
  BY RankingType
<1>3. CASE c \in Range(found[l])
  <2>1. Position(found[l], c) \in 1..Len(found[l])
    BY <1>2, <1>3, PositionOf
  <2>2. Position(found[l], c) <= K
    BY <1>1, <1>2, <2>1
  <2>3. QED
    BY <1>1, <1>3, <2>1, <2>2 DEF Rank, Reciprocal, Weight
<1>4. CASE c \notin Range(found[l])
  <2>1. ~(K + 1 <= K)
    BY <1>1
  <2>2. QED
    BY <1>1, <1>4, <2>1 DEF Rank, Reciprocal, Weight
<1>5. QED
  BY <1>3, <1>4

(* A sum of three terms *)
LEMMA SumOfThree ==
  ASSUME NEW s \in Seq(Int), Len(s) = 3
  PROVE  Sum(s) = s[1] + s[2] + s[3]
<1>1. PICK u : PartialSums(s, u) /\ Sum(s) = u[Len(s)]
  BY Sums
<1> DEFINE n == Len(s)
<1>2. 1 \in 1..n /\ 2 \in 1..n /\ 3 \in 1..n
  OBVIOUS
<1>3. s[1] \in Int /\ s[2] \in Int /\ s[3] \in Int
  <2>1. \A i \in 1..n : s[i] \in Int
    BY ONLY s \in Seq(Int)
  <2> HIDE DEF n
  <2>2. QED
    BY <1>2, <2>1
<1>4. u[0] = 0 /\ \A i \in 1..n : u[i] = u[i - 1] + s[i]
  BY <1>1 DEF PartialSums
<1> HIDE DEF n
<1>5. u[1] = u[1 - 1] + s[1] /\ u[2] = u[2 - 1] + s[2] /\ u[3] = u[3 - 1] + s[3]
  BY <1>2, <1>4
<1>6. 1 - 1 = 0 /\ 2 - 1 = 1 /\ 3 - 1 = 2
  OBVIOUS
<1>7. Sum(s) = u[3]
  BY <1>1
<1>8. QED
  BY <1>3, <1>4, <1>5, <1>6, <1>7

(* The fusion of a chunk is the sum of the weights of its three ranks. *)
LEMMA FusionOf ==
  ASSUME FoundOK, NEW c
  PROVE  /\ Fusion(c) = Weight(Rank(1, c)) + Weight(Rank(2, c)) + Weight(Rank(3, c))
         /\ Fusion(c) \in Nat
<1> DEFINE s == [l \in 1..3 |-> Reciprocal(found[l], c)]
<1>1. \A l \in 1..3 : Reciprocal(found[l], c) = Weight(Rank(l, c)) /\ Weight(Rank(l, c)) \in Nat
  BY RankWeight, WeightType
<1>2. s \in [1..3 -> Int] /\ \A l \in 1..3 : s[l] = Weight(Rank(l, c))
  BY <1>1
<1>3. Fusion(c) = Sum(s)
  BY DEF Fusion
<1> HIDE DEF s
<1>4. s \in Seq(Int) /\ Len(s) = 3
  <2>1. 3 \in Nat
    OBVIOUS
  <2>2. QED
    BY <1>2, <2>1, SequenceOf, Zenon
<1>5. Sum(s) = s[1] + s[2] + s[3]
  BY <1>4, SumOfThree
<1>6. /\ s[1] = Weight(Rank(1, c)) /\ s[2] = Weight(Rank(2, c)) /\ s[3] = Weight(Rank(3, c))
      /\ s[1] \in Nat /\ s[2] \in Nat /\ s[3] \in Nat
  BY <1>1, <1>2
<1>7. QED
  BY <1>3, <1>5, <1>6

(* Better ranks, whichever searches they are from, are a higher score. *)
LEMMA AgreedFusion ==
  ASSUME FoundOK, NEW c, NEW d, Agreed(c, d)
  PROVE  Fusion(c) > Fusion(d)
<1>1. PICK p \in Reorderings : /\ \A l \in 1..3 : Rank(l, c) <= Rank(p[l], d)
                               /\ \E l \in 1..3 : Rank(l, c) < Rank(p[l], d)
  BY DEF Agreed
<1>2. p \in [1..3 -> 1..3] /\ \A l \in 1..3 : \E m \in 1..3 : p[m] = l
  BY DEF Reorderings, Bijection, Injection, Surjection
<1> DEFINE w(l) == Weight(Rank(l, c))
           v(l) == Weight(Rank(l, d))
<1>3. \A l \in 1..3 : w(l) >= v(p[l]) /\ w(l) \in Nat /\ v(l) \in Nat
  <2>1. ASSUME NEW l \in 1..3
        PROVE  w(l) >= v(p[l]) /\ w(l) \in Nat /\ v(l) \in Nat
    <3>1. p[l] \in 1..3
      BY <1>2
    <3>2. /\ Rank(l, c) \in 1..(K + 1) /\ Rank(p[l], d) \in 1..(K + 1) /\ Rank(l, d) \in 1..(K + 1)
      BY <3>1, RankWeight
    <3>3. Rank(l, c) <= Rank(p[l], d)
      BY <1>1
    <3>4. QED
      BY <3>2, <3>3, WeightOrder
  <2>2. QED
    BY <2>1
<1>4. \E l \in 1..3 : w(l) > v(p[l])
  <2>1. PICK l \in 1..3 : Rank(l, c) < Rank(p[l], d)
    BY <1>1
  <2>2. p[l] \in 1..3
    BY <1>2
  <2>3. Rank(l, c) \in 1..(K + 1) /\ Rank(p[l], d) \in 1..(K + 1)
    BY <2>2, RankWeight
  <2>4. QED
    BY <2>1, <2>3, WeightOrder
<1>5. Fusion(c) = w(1) + w(2) + w(3) /\ Fusion(d) = v(1) + v(2) + v(3)
  BY FusionOf
<1> HIDE DEF w, v
<1>6. p[1] \in 1..3 /\ p[2] \in 1..3 /\ p[3] \in 1..3 /\ p[1] # p[2] /\ p[1] # p[3] /\ p[2] # p[3]
  <2>1. p[1] \in 1..3 /\ p[2] \in 1..3 /\ p[3] \in 1..3
    BY <1>2
  <2>2. \A m \in 1..3 : m = 1 \/ m = 2 \/ m = 3
    OBVIOUS
  <2>3. \A l \in 1..3 : p[1] = l \/ p[2] = l \/ p[3] = l
    BY <1>2, <2>2
  <2>4. QED
    BY <2>1, <2>3
<1>7. v(p[1]) + v(p[2]) + v(p[3]) = v(1) + v(2) + v(3)
  <2>1. \/ p[1] = 1 /\ p[2] = 2 /\ p[3] = 3
        \/ p[1] = 1 /\ p[2] = 3 /\ p[3] = 2
        \/ p[1] = 2 /\ p[2] = 1 /\ p[3] = 3
        \/ p[1] = 2 /\ p[2] = 3 /\ p[3] = 1
        \/ p[1] = 3 /\ p[2] = 1 /\ p[3] = 2
        \/ p[1] = 3 /\ p[2] = 2 /\ p[3] = 1
    BY <1>6
  <2>2. v(1) \in Nat /\ v(2) \in Nat /\ v(3) \in Nat
    BY <1>3
  <2>3. QED
    BY <2>1, <2>2
<1>8. /\ w(1) >= v(p[1]) /\ w(2) >= v(p[2]) /\ w(3) >= v(p[3])
      /\ w(1) > v(p[1]) \/ w(2) > v(p[2]) \/ w(3) > v(p[3])
  <2>1. \A l \in 1..3 : l = 1 \/ l = 2 \/ l = 3
    OBVIOUS
  <2>2. QED
    BY <1>3, <1>4, <2>1
<1>9. /\ w(1) \in Nat /\ w(2) \in Nat /\ w(3) \in Nat
      /\ v(p[1]) \in Nat /\ v(p[2]) \in Nat /\ v(p[3]) \in Nat
  BY <1>3, <1>6
<1>10. QED
  BY <1>5, <1>7, <1>8, <1>9

(* What the searches have seen *)
LEMMA SeenType ==
  ASSUME FoundOK
  PROVE  /\ FlattenSeq(found) \in Seq(DOMAIN chunks)
         /\ Range(FlattenSeq(found)) \subseteq DOMAIN chunks
         /\ IsFiniteSet(Range(FlattenSeq(found)))
<1> DEFINE D == DOMAIN chunks
           seen == FlattenSeq(found)
<1>1. found \in Seq(Seq(D))
  <2>1. \A l \in 1..3 : found[l] \in Seq(D)
    BY RankingType
  <2>2. found \in [1..3 -> Seq(D)]
    BY <2>1 DEF FoundOK
  <2>3. 3 \in Nat
    OBVIOUS
  <2>4. QED
    BY <2>2, <2>3, SequenceOf, Zenon
<1>2. IsFiniteSet(D)
  <2>1. 1 \in 1..3
    OBVIOUS
  <2>2. QED
    BY <2>1, RankingType
<1> HIDE DEF D
<1>3. PICK v : Concats(found, D, v) /\ seen = v[Len(found)]
  BY <1>1, Flattened
<1>4. Len(found) \in Nat
  BY <1>1
<1> HIDE DEF seen
<1>5. seen \in Seq(D)
  BY <1>3, <1>4 DEF Concats
<1>6. Range(seen) \subseteq D
  BY <1>5 DEF Range
<1>7. IsFiniteSet(Range(seen))
  BY <1>2, <1>6, FS_Subset
<1>8. QED
  BY <1>5, <1>6, <1>7 DEF D, seen

(* The fusion of the searches: no chunk twice, and better ranks before *)
FusedOK(s) ==
  /\ s \in Seq(DOMAIN chunks) /\ \A i, j \in 1..Len(s) : s[i] = s[j] => i = j
  /\ \A c, d \in Range(s) : Agreed(c, d) => Before(s, c, d)

(* Sorting what was found by its fusion gives such a sequence. *)
LEMMA FuseSorts ==
  ASSUME FoundOK
  PROVE  FusedOK(Sorted(Range(FlattenSeq(found)), Ahead))
<1> DEFINE seen == FlattenSeq(found)
           S == Range(seen)
           after == [c \in S |-> {d \in S : Ahead(c, d)}]
           s == Sorted(S, Ahead)
<1>1. seen \in Seq(DOMAIN chunks) /\ S \subseteq DOMAIN chunks /\ IsFiniteSet(S)
  BY SeenType
<1>2. \A c \in S : Fusion(c) \in Nat
  BY FusionOf
<1> DEFINE at(c) == Position(seen, c)
<1>3. \A c \in S : at(c) \in Nat /\ seen[at(c)] = c
  <2> HIDE DEF seen
  <2>1. QED
    BY <1>1, PositionOf
<1>4. \A c, d : Ahead(c, d) <=> (Fusion(c) > Fusion(d) \/ (Fusion(c) = Fusion(d) /\ at(c) < at(d)))
  BY DEF Ahead
<1> HIDE DEF seen, S, at
<1>5. StrictOrder(S, after)
  <2>1. after \in [S -> SUBSET S]
    OBVIOUS
  <2>2. \A c, d \in S : d \in after[c] <=> Ahead(c, d)
    OBVIOUS
  <2> HIDE DEF after
  <2>3. \A c \in S : ~Ahead(c, c)
    BY <1>2, <1>3, <1>4
  <2>4. \A c, d \in S : c # d => Ahead(c, d) \/ Ahead(d, c)
    <3>1. \A c, d \in S : c # d => at(c) # at(d)
      BY <1>3
    <3>2. QED
      BY <1>2, <1>3, <1>4, <3>1
  <2>5. \A c, d, e \in S : Ahead(c, d) /\ Ahead(d, e) => Ahead(c, e)
    BY <1>2, <1>3, <1>4
  <2>6. QED
    BY <2>1, <2>2, <2>3, <2>4, <2>5 DEF StrictOrder
<1>6. PICK t \in SetToSeqs(S) : SortedBy(t, after)
  <2> HIDE DEF after
  <2>1. QED
    BY <1>1, <1>5, SortExists
<1>7. \A i, j \in DOMAIN t : i < j => Ahead(t[i], t[j])
  <2>1. t \in Seq(S) /\ DOMAIN t = 1..Len(t)
    BY <1>1, SequenceOfSet
  <2>2. \A i \in DOMAIN t : t[i] \in S
    BY <2>1
  <2>3. QED
    BY <1>6, <2>1, <2>2 DEF SortedBy
<1>8. s \in SetToSeqs(S) /\ \A i, j \in DOMAIN s : i < j => Ahead(s[i], s[j])
  BY <1>7 DEF Sorted
<1> HIDE DEF s
<1>9. /\ s \in Seq(S) /\ DOMAIN s = 1..Len(s) /\ Len(s) \in Nat
      /\ \A i, j \in 1..Len(s) : s[i] = s[j] => i = j
  BY <1>1, <1>8, SequenceOfSet
<1>10. s \in Seq(DOMAIN chunks)
  <2> DEFINE D == DOMAIN chunks
  <2>1. S \subseteq D
    BY <1>1
  <2> HIDE DEF D
  <2>2. s \in Seq(D)
    BY <1>9, <2>1
  <2>3. QED
    BY <2>2 DEF D
<1>11. ASSUME NEW c \in Range(s), NEW d \in Range(s), Agreed(c, d) PROVE Before(s, c, d)
  <2>1. /\ Position(s, c) \in 1..Len(s) /\ s[Position(s, c)] = c
        /\ Position(s, d) \in 1..Len(s) /\ s[Position(s, d)] = d
    BY <1>9, PositionOf
  <2>2. Fusion(c) > Fusion(d)
    BY <1>11, AgreedFusion
  <2>3. c \in S /\ d \in S
    BY <1>9, <2>1
  <2>4. Fusion(c) \in Nat /\ Fusion(d) \in Nat
    BY <1>2, <2>3
  <2>5. ~(Position(s, d) < Position(s, c))
    <3>1. SUFFICES ASSUME Position(s, d) < Position(s, c) PROVE FALSE
      OBVIOUS
    <3>2. Ahead(d, c)
      BY <1>8, <1>9, <2>1, <3>1
    <3>3. QED
      BY <1>4, <2>2, <2>4, <3>2
  <2>6. Position(s, d) # Position(s, c)
    BY <2>1, <2>2, <2>4
  <2>7. QED
    BY <1>9, <2>1, <2>5, <2>6 DEF Before
<1>12. QED
  BY <1>9, <1>10, <1>11 DEF FusedOK, s, S, seen

-----------------------------------------------------------------------------
(* The reranking *)

(* First takes what s begins with, n elements or all. *)
LEMMA FirstOf ==
  ASSUME NEW S, NEW s \in Seq(S), NEW n \in Nat
  PROVE  /\ First(n, s) \in Seq(S) /\ Len(First(n, s)) \in Nat
         /\ Len(First(n, s)) <= n /\ Len(First(n, s)) <= Len(s)
         /\ Len(First(n, s)) = n \/ Len(First(n, s)) = Len(s)
         /\ \A i \in 1..Len(First(n, s)) : First(n, s)[i] = s[i] /\ i \in 1..Len(s)
<1> DEFINE m == IF n < Len(s) THEN n ELSE Len(s)
<1>1. m \in 0..Len(s) /\ Len(s) \in Nat /\ m <= n /\ (m = n \/ m = Len(s))
  OBVIOUS
<1> HIDE DEF m
<1>2. SubSeq(s, 1, m) \in Seq(S) /\ Len(SubSeq(s, 1, m)) = m /\ \A i \in 1..m : SubSeq(s, 1, m)[i] = s[i]
  BY <1>1
<1>3. First(n, s) = SubSeq(s, 1, m)
  BY DEF First, m
<1>4. QED
  BY <1>1, <1>2, <1>3

(* What the reranker makes of the first results of the fusion *)
Reranked(relevance) ==
  LET above(c, d) == Above(relevance, c, d)
  IN First(K, Sorted(DOMAIN relevance, above))

(* No chunk twice, and of two that the searches and the reranker order alike *)
(* the worse never without the better                                        *)
RerankedOK(relevance, s) ==
  /\ s \in Seq(DOMAIN chunks) /\ \A i, j \in 1..Len(s) : s[i] = s[j] => i = j
  /\ \A c, d \in Range(fused) :
       Agreed(c, d) /\ d \in Range(s) /\ relevance[c] >= relevance[d] => Before(s, c, d)

(* The reranking gives such a sequence, though only a part of it is kept. *)
LEMMA RerankSorts ==
  ASSUME FoundOK, FusedOK(fused),
         NEW relevance \in [Range(First(TopFused, fused)) -> Relevances]
  PROVE  RerankedOK(relevance, Reranked(relevance))
<1> DEFINE D == DOMAIN chunks
           top == First(TopFused, fused)
           S == Range(top)
           at(c) == Position(fused, c)
           above(c, d) == Above(relevance, c, d)
           after == [c \in S |-> {d \in S : above(c, d)}]
           s == Sorted(S, above)
           r == First(K, s)
<1>1. /\ K \in Nat /\ TopFused \in Nat /\ Relevances \subseteq Nat
      /\ IsFiniteSet(D)
  <2>1. 1 \in 1..3
    OBVIOUS
  <2>2. QED
    BY <2>1, RetrievalAssumption, RankingType
<1>2. fused \in Seq(D) /\ \A i, j \in 1..Len(fused) : fused[i] = fused[j] => i = j
  BY DEF FusedOK
<1> HIDE DEF D
<1>3. /\ top \in Seq(D) /\ Len(top) \in Nat /\ DOMAIN top = 1..Len(top) /\ Len(top) <= TopFused
      /\ Len(top) = TopFused \/ Len(top) = Len(fused)
      /\ \A i \in 1..Len(top) : top[i] = fused[i] /\ i \in 1..Len(fused)
  <2>1. /\ top \in Seq(D) /\ Len(top) \in Nat /\ Len(top) <= TopFused
        /\ Len(top) = TopFused \/ Len(top) = Len(fused)
        /\ \A i \in 1..Len(top) : top[i] = fused[i] /\ i \in 1..Len(fused)
    BY <1>1, <1>2, FirstOf
  <2> HIDE DEF top
  <2>2. QED
    BY <2>1
<1> HIDE DEF top
<1>4. S \subseteq D /\ IsFiniteSet(S) /\ S \subseteq Range(fused)
  <2>1. S \subseteq D
    BY <1>3 DEF Range
  <2>2. S \subseteq Range(fused)
    BY <1>2, <1>3 DEF Range
  <2> HIDE DEF S
  <2>3. QED
    BY <1>1, <2>1, <2>2, FS_Subset
<1>5. \A c \in Range(fused) : at(c) \in 1..Len(fused) /\ at(c) \in Nat /\ fused[at(c)] = c
  <2>1. \A c \in Range(fused) : at(c) \in 1..Len(fused) /\ fused[at(c)] = c
    BY <1>2, PositionOf
  <2> HIDE DEF at
  <2>2. QED
    BY <2>1
<1>6. \A c, d : above(c, d) <=>
        (relevance[c] > relevance[d] \/ (relevance[c] = relevance[d] /\ at(c) < at(d)))
  BY DEF Above
<1>7. relevance \in [S -> Nat] /\ DOMAIN relevance = S
  BY <1>1 DEF top
<1> HIDE DEF S, at, above
<1>8. StrictOrder(S, after)
  <2>1. after \in [S -> SUBSET S]
    OBVIOUS
  <2>2. \A c, d \in S : d \in after[c] <=> above(c, d)
    OBVIOUS
  <2> HIDE DEF after
  <2>3. \A c \in S : relevance[c] \in Nat /\ at(c) \in Nat /\ fused[at(c)] = c
    BY <1>4, <1>5, <1>7
  <2>4. \A c \in S : ~above(c, c)
    BY <1>6, <2>3
  <2>5. \A c, d \in S : c # d => above(c, d) \/ above(d, c)
    <3>1. \A c, d \in S : c # d => at(c) # at(d)
      BY <2>3
    <3>2. QED
      BY <1>6, <2>3, <3>1
  <2>6. \A c, d, e \in S : above(c, d) /\ above(d, e) => above(c, e)
    BY <1>6, <2>3
  <2>7. QED
    BY <2>1, <2>2, <2>4, <2>5, <2>6 DEF StrictOrder
<1>9. PICK t \in SetToSeqs(S) : SortedBy(t, after)
  <2> HIDE DEF after
  <2>1. QED
    BY <1>4, <1>8, SortExists
<1>10. \A i, j \in DOMAIN t : i < j => above(t[i], t[j])
  <2>1. t \in Seq(S) /\ DOMAIN t = 1..Len(t)
    BY <1>4, SequenceOfSet
  <2>2. \A i \in DOMAIN t : t[i] \in S
    BY <2>1
  <2>3. QED
    BY <1>9, <2>1, <2>2 DEF SortedBy
<1>11. s \in SetToSeqs(S) /\ \A i, j \in DOMAIN s : i < j => above(s[i], s[j])
  BY <1>10 DEF Sorted
<1> HIDE DEF s
<1>12. /\ s \in Seq(S) /\ DOMAIN s = 1..Len(s) /\ Len(s) \in Nat /\ Range(s) = S
       /\ \A i, j \in 1..Len(s) : s[i] = s[j] => i = j
  BY <1>4, <1>11, SequenceOfSet
<1>13. /\ r \in Seq(S) /\ Len(r) \in Nat /\ DOMAIN r = 1..Len(r)
       /\ Len(r) = K \/ Len(r) = Len(s)
       /\ Len(r) <= K /\ Len(r) <= Len(s)
       /\ \A i \in 1..Len(r) : r[i] = s[i] /\ i \in 1..Len(s)
  <2>1. /\ r \in Seq(S) /\ Len(r) \in Nat
        /\ Len(r) = K \/ Len(r) = Len(s)
        /\ Len(r) <= K /\ Len(r) <= Len(s)
        /\ \A i \in 1..Len(r) : r[i] = s[i] /\ i \in 1..Len(s)
    BY <1>1, <1>12, FirstOf
  <2> HIDE DEF r
  <2>2. QED
    BY <2>1
<1>14. Reranked(relevance) = r
  BY <1>7 DEF Reranked, r, s, above
<1> HIDE DEF r
<1>15. r \in Seq(D) /\ \A i, j \in 1..Len(r) : r[i] = r[j] => i = j
  <2>1. r \in Seq(D)
    BY <1>4, <1>13
  <2>2. \A i \in 1..Len(r) : r[i] = s[i] /\ i \in 1..Len(s)
    BY <1>13
  <2>3. \A i, j \in 1..Len(s) : s[i] = s[j] => i = j
    BY <1>12
  <2>4. QED
    BY ONLY <2>1, <2>2, <2>3
<1>16. ASSUME NEW c \in Range(fused), NEW d \in Range(fused), Agreed(c, d), d \in Range(r),
              relevance[c] >= relevance[d]
       PROVE  Before(r, c, d)
  <2>1. Before(fused, c, d)
    BY <1>16 DEF FusedOK
  <2>2. at(c) < at(d)
    BY <1>16, <2>1 DEF Before, at
  <2>3. PICK j \in 1..Len(r) : r[j] = d
    BY <1>13, <1>16 DEF Range
  <2>4. d \in S /\ s[j] = d /\ j \in 1..Len(s)
    <3>1. r[j] = s[j] /\ j \in 1..Len(s)
      BY <1>13
    <3>2. s[j] \in S
      BY <1>12, <3>1
    <3>3. QED
      BY <2>3, <3>1, <3>2
  <2>5. at(d) \in 1..Len(top)
    <3>1. PICK i \in 1..Len(top) : top[i] = d
      BY <1>3, <2>4 DEF S, Range
    <3>2. fused[i] = d /\ i \in 1..Len(fused) /\ fused[at(d)] = d /\ at(d) \in 1..Len(fused)
      BY <1>3, <1>5, <1>16, <3>1
    <3>3. i = at(d)
      BY <1>2, <3>2
    <3>4. QED
      BY <3>3
  <2>6. c \in S
    <3>1. at(c) \in 1..Len(top) /\ fused[at(c)] = c
      BY <1>3, <1>5, <1>16, <2>2, <2>5
    <3>2. top[at(c)] = c
      BY <1>3, <3>1
    <3>3. QED
      BY <1>3, <3>1, <3>2 DEF S, Range
  <2>7. above(c, d) /\ ~above(d, c) /\ c # d
    <3>1. relevance[c] \in Nat /\ relevance[d] \in Nat /\ at(c) \in Nat /\ at(d) \in Nat
      BY <1>5, <1>7, <1>16, <2>4, <2>6
    <3>2. QED
      BY <1>6, <1>16, <2>2, <3>1
  <2>8. PICK i \in 1..Len(s) : s[i] = c
    BY <1>12, <2>6 DEF Range
  <2>9. i < j
    <3>1. i # j
      BY <2>4, <2>7, <2>8
    <3>2. ~(j < i)
      BY <1>11, <1>12, <2>4, <2>7, <2>8
    <3>3. QED
      BY <1>12, <2>4, <3>1, <3>2
  <2>10. i \in 1..Len(r) /\ r[i] = c
    <3>1. i \in 1..Len(r)
      BY <1>13, <2>3, <2>9
    <3>2. QED
      BY <1>13, <2>8, <3>1
  <2>11. c \in Range(r) /\ Position(r, c) = i /\ Position(r, d) = j
    <3>1. r[i] \in Range(r) /\ Position(r, r[i]) = i
      BY <1>13, <1>15, <2>10, PositionOnce
    <3>2. Position(r, r[j]) = j
      BY <1>13, <1>15, <2>3, PositionOnce
    <3>3. QED
      BY <2>3, <2>10, <3>1, <3>2
  <2>12. QED
    BY <2>9, <2>11 DEF Before
<1>17. RerankedOK(relevance, r)
  BY <1>15, <1>16 DEF RerankedOK, D
<1>18. QED
  BY <1>14, <1>17

-----------------------------------------------------------------------------
(* The context *)

(* The context before the first source, and the blocks after the last *)
NoSources == [blocks |-> <<>>, tokens |-> 0, full |-> FALSE]
Assembled ==
  LET state[n \in 0..Len(ranked)] ==
        IF n = 0 THEN [blocks |-> <<>>, tokens |-> 0, full |-> FALSE]
        ELSE AddSource(state[n - 1], n)
  IN state[Len(ranked)].blocks

(* The states of assemble_context *)
LEMMA AssembleStates ==
  ASSUME Len(ranked) \in Nat
  PROVE  \E st : /\ st[0] = NoSources
                 /\ \A n \in 1..Len(ranked) : st[n] = AddSource(st[n - 1], n)
                 /\ Assembled = st[Len(ranked)].blocks
<1> DEFINE N == Len(ranked)
           body(f, n) == [i \in 0..n |-> IF i = 0 THEN NoSources ELSE AddSource(f[i - 1], i)]
           T == {n \in 0..N : \E f : f = body(f, n)}
           st == CHOOSE f : f = body(f, N)
<1>1. N \in Nat
  OBVIOUS
<1>2. 0 \in T
  <2> DEFINE f == [i \in 0..0 |-> NoSources]
  <2>1. f = body(f, 0) /\ 0 \in 0..N
    BY <1>1
  <2> HIDE DEF f, body
  <2>2. QED
    BY <2>1
<1>3. ASSUME NEW n \in 1..N, n - 1 \in T PROVE n \in T
  <2>1. PICK f : f = body(f, n - 1)
    BY <1>3
  <2> DEFINE g == [i \in 0..n |-> IF i = n THEN AddSource(f[n - 1], n) ELSE f[i]]
  <2>2. f[0] = NoSources /\ \A i \in 1..(n - 1) : f[i] = AddSource(f[i - 1], i)
    BY <2>1
  <2>3. g[0] = NoSources
    BY <2>2
  <2>4. ASSUME NEW i \in 1..n PROVE g[i] = AddSource(g[i - 1], i)
    <3>1. i - 1 \in 0..n /\ g[i - 1] = f[i - 1]
      OBVIOUS
    <3>2. CASE i = n
      BY <3>1, <3>2
    <3>3. CASE i # n
      BY <2>2, <3>1, <3>3
    <3>4. QED
      BY <3>2, <3>3
  <2>5. g = [i \in 0..n |-> g[i]]
    OBVIOUS
  <2> HIDE DEF g
  <2>6. \A i \in 0..n : g[i] = IF i = 0 THEN NoSources ELSE AddSource(g[i - 1], i)
    BY <2>3, <2>4
  <2>7. g = body(g, n)
    BY <2>5, <2>6, Zenon
  <2>8. n \in 0..N
    BY <1>1
  <2> HIDE DEF body
  <2>9. QED
    BY <2>7, <2>8
<1>4. st = body(st, N)
  <2> HIDE DEF T, body
  <2>1. 0..N \subseteq T
    BY <1>1, <1>2, <1>3, Induct
  <2>2. N \in T
    BY <1>1, <2>1
  <2>3. QED
    BY <2>2 DEF T
<1>5. Assembled = st[N].blocks
  BY DEF Assembled, NoSources
<1> HIDE DEF st
<1>6. st[0] = NoSources /\ \A n \in 1..N : st[n] = AddSource(st[n - 1], n)
  BY <1>1, <1>4
<1>7. QED
  BY <1>5, <1>6

(* Blocks of the first n chunks retrieved: in their order, whole but for the *)
(* last, and within the budget                                               *)
Blocks == [source : Nat, chunk : DOMAIN chunks, parts : Nat]
BlockTokens(bs) == [b \in DOMAIN bs |-> Tokens(bs[b].chunk, bs[b].parts)]
WholeBlock(bs, b) == bs[b].parts = Len(chunks[ranked[b]].text)
BlocksOK(bs, n) ==
  /\ bs \in Seq(Blocks) /\ Len(bs) <= n
  /\ \A b \in 1..Len(bs) : /\ bs[b].source = b /\ bs[b].chunk = ranked[b]
                           /\ b < Len(bs) => WholeBlock(bs, b)
  /\ Sum(BlockTokens(bs)) <= TokenBudget

(* As long as the context is not full they are all whole. *)
Filled(state, n) ==
  /\ state.full \in BOOLEAN
  /\ BlocksOK(state.blocks, n)
  /\ ~state.full => /\ Len(state.blocks) = n
                    /\ \A b \in 1..n : WholeBlock(state.blocks, b)
                    /\ state.tokens = Sum(BlockTokens(state.blocks))

(* What is retrieved *)
RankedType ==
  /\ chunks \in Seq(ChunksOf(Sizes(document))) /\ Sizes(document) \in SizesType
  /\ ranked \in Seq(DOMAIN chunks)

(* The size of a block is an integer, *)
LEMMA TokensType ==
  ASSUME RankedType, NEW c \in DOMAIN chunks, NEW parts \in Nat
  PROVE  Tokens(c, parts) \in Int /\ Len(chunks[c].text) \in Nat
<1> DEFINE sizes == Sizes(document)
           t == chunks[c].text
<1>1. t \in Seq(PartsOf(sizes)) /\ sizes \in SizesType
  <2>1. chunks \in Seq(ChunksOf(sizes)) /\ sizes \in SizesType
    BY DEF RankedType
  <2> HIDE DEF sizes
  <2>2. chunks[c] \in ChunksOf(sizes)
    BY <2>1
  <2>3. QED
    BY <2>1, <2>2 DEF ChunksOf, Texts
<1> HIDE DEF sizes, t
<1>2. First(parts, t) \in Seq(PartsOf(sizes)) /\ Len(t) \in Nat
  BY <1>1, FirstOf
<1>3. SizeOf(sizes, First(parts, t)) \in Int
  BY <1>1, <1>2, PartSizesType DEF Texts
<1>4. HeaderTokens \in Nat
  BY RetrievalAssumption
<1>5. QED
  BY <1>2, <1>3, <1>4 DEF Tokens, sizes, t

(* and so is the sum of those of all blocks. *)
LEMMA BlockTokensType ==
  ASSUME RankedType, NEW bs \in Seq(Blocks)
  PROVE  /\ BlockTokens(bs) \in Seq(Int) /\ Len(BlockTokens(bs)) = Len(bs)
         /\ \A b \in 1..Len(bs) : BlockTokens(bs)[b] = Tokens(bs[b].chunk, bs[b].parts)
         /\ Sum(BlockTokens(bs)) \in Int
<1>1. Len(bs) \in Nat /\ DOMAIN bs = 1..Len(bs) /\ \A b \in 1..Len(bs) : bs[b] \in Blocks
  OBVIOUS
<1>2. \A b \in 1..Len(bs) : Tokens(bs[b].chunk, bs[b].parts) \in Int
  BY <1>1, TokensType DEF Blocks
<1>3. BlockTokens(bs) \in [1..Len(bs) -> Int]
  BY <1>1, <1>2 DEF BlockTokens
<1>4. BlockTokens(bs) \in Seq(Int) /\ Len(BlockTokens(bs)) = Len(bs)
  BY <1>1, <1>3, SequenceOf
<1>5. QED
  BY <1>1, <1>4, SumType DEF BlockTokens

(* A block more *)
LEMMA BlockAppend ==
  ASSUME RankedType, NEW n \in 1..Len(ranked), NEW bs, BlocksOK(bs, n - 1),
         Len(bs) = n - 1, \A b \in 1..(n - 1) : WholeBlock(bs, b),
         NEW parts \in Nat,
         Sum(BlockTokens(bs)) + Tokens(ranked[n], parts) <= TokenBudget
  PROVE  /\ BlocksOK(Append(bs, Block(n, ranked[n], parts)), n)
         /\ Len(Append(bs, Block(n, ranked[n], parts))) = n
         /\ parts = Len(chunks[ranked[n]].text) =>
              \A b \in 1..n : WholeBlock(Append(bs, Block(n, ranked[n], parts)), b)
         /\ Sum(BlockTokens(Append(bs, Block(n, ranked[n], parts)))) =
              Sum(BlockTokens(bs)) + Tokens(ranked[n], parts)
<1> DEFINE c == ranked[n]
           k == Block(n, c, parts)
           more == Append(bs, k)
<1>1. bs \in Seq(Blocks) /\ c \in DOMAIN chunks /\ n - 1 \in Nat /\ n \in Nat
  BY DEF BlocksOK, RankedType
<1>2. k \in Blocks /\ k.source = n /\ k.chunk = c /\ k.parts = parts
  BY <1>1 DEF Block, Blocks
<1> HIDE DEF k, c
<1>3. /\ more \in Seq(Blocks) /\ Len(more) = n /\ more[n] = k
      /\ \A b \in 1..(n - 1) : more[b] = bs[b]
  BY <1>1, <1>2
<1> HIDE DEF more
<1>4. Sum(BlockTokens(more)) = Sum(BlockTokens(bs)) + Tokens(c, parts)
  <2> DEFINE s == BlockTokens(bs)
             t == BlockTokens(more)
             x == Tokens(c, parts)
  <2>1. /\ s \in Seq(Int) /\ Len(s) = n - 1
        /\ \A b \in 1..(n - 1) : s[b] = Tokens(bs[b].chunk, bs[b].parts)
    BY <1>1, BlockTokensType
  <2>2. /\ t \in Seq(Int) /\ Len(t) = n
        /\ \A b \in 1..n : t[b] = Tokens(more[b].chunk, more[b].parts)
    BY <1>3, BlockTokensType
  <2>3. x \in Int
    BY <1>1, TokensType
  <2> HIDE DEF s, t
  <2>4. t[n] = x
    BY <1>1, <1>2, <1>3, <2>2
  <2>5. \A b \in 1..(n - 1) : t[b] = s[b]
    <3>1. ASSUME NEW b \in 1..(n - 1) PROVE t[b] = s[b]
      <4>1. b \in 1..n /\ more[b] = bs[b]
        BY <1>1, <1>3
      <4>2. t[b] = Tokens(more[b].chunk, more[b].parts) /\ s[b] = Tokens(bs[b].chunk, bs[b].parts)
        BY <2>1, <2>2, <4>1
      <4>3. QED
        BY <4>1, <4>2
    <3>2. QED
      BY <3>1
  <2> HIDE DEF x
  <2> DEFINE r == Append(s, x)
  <2>6. /\ r \in Seq(Int) /\ Len(r) = n /\ r[n] = x
        /\ \A b \in 1..(n - 1) : r[b] = s[b]
    BY <1>1, <2>1, <2>3
  <2> HIDE DEF r
  <2>7. t = r
    <3>1. \A b \in 1..n : b = n \/ b \in 1..(n - 1)
      BY <1>1
    <3>2. \A b \in 1..n : t[b] = r[b]
      BY <2>4, <2>5, <2>6, <3>1
    <3>3. QED
      BY <2>2, <2>6, <3>2
  <2>8. Sum(r) = Sum(s) + x
    BY <2>1, <2>3, SumAppend DEF r
  <2>9. QED
    BY <2>7, <2>8 DEF s, t, x
<1>5. Sum(BlockTokens(more)) <= TokenBudget
  BY <1>4 DEF c
<1>6. \A b \in 1..n : b = n \/ b \in 1..(n - 1)
  BY <1>1
<1>7. \A b \in 1..(n - 1) : WholeBlock(more, b) /\ more[b].source = b /\ more[b].chunk = ranked[b]
  BY <1>3 DEF BlocksOK, WholeBlock
<1>8. more[n].source = n /\ more[n].chunk = ranked[n] /\ more[n].parts = parts
  BY <1>2, <1>3 DEF c
<1>9. parts = Len(chunks[ranked[n]].text) => \A b \in 1..n : WholeBlock(more, b)
  BY <1>6, <1>7, <1>8 DEF WholeBlock
<1>10. BlocksOK(more, n)
  <2>1. \A b \in 1..n : /\ more[b].source = b /\ more[b].chunk = ranked[b]
                        /\ b < n => WholeBlock(more, b)
    BY <1>6, <1>7, <1>8
  <2>2. QED
    BY <1>1, <1>3, <1>5, <2>1 DEF BlocksOK
<1>11. QED
  BY <1>3, <1>4, <1>9, <1>10 DEF more, k, c

(* Of the sentences of a chunk as many are taken as fit: there is a number  *)
(* after which the next does not, or all fit.                               *)
LEMMA MostFit ==
  ASSUME NEW whole \in Nat, NEW fits \in SUBSET Nat
  PROVE  \E m \in 0..whole : (\A p \in 1..m : p \in fits) /\ (m < whole => m + 1 \notin fits)
<1> DEFINE good == {m \in 0..whole : \A p \in 1..m : p \in fits}
<1>1. good \subseteq Nat /\ 0 \in good /\ \A m \in good : m <= whole
  OBVIOUS
<1>2. \E m \in good : \A k \in good : k <= m
  <2> HIDE DEF good
  <2>1. good # {}
    BY <1>1
  <2>2. QED
    BY <1>1, <2>1, Greatest
<1>3. PICK m \in good : \A k \in good : k <= m
  BY <1>2
<1>4. m < whole => m + 1 \notin fits
  <2>1. SUFFICES ASSUME m < whole, m + 1 \in fits PROVE FALSE
    OBVIOUS
  <2>2. \A p \in 1..(m + 1) : p = m + 1 \/ p \in 1..m
    OBVIOUS
  <2>3. m + 1 \in good
    BY <2>1, <2>2
  <2>4. QED
    BY <1>3, <2>3
<1>5. QED
  BY <1>3, <1>4

(* A chunk more *)
LEMMA AddSourceFilled ==
  ASSUME RankedType, NEW n \in 1..Len(ranked), NEW state, Filled(state, n - 1)
  PROVE  Filled(AddSource(state, n), n)
<1> DEFINE c == ranked[n]
           whole == Len(chunks[c].text)
           bs == state.blocks
           fits(parts) == state.tokens + Tokens(c, parts) <= TokenBudget
           most == CHOOSE m \in 0..whole : /\ \A p \in 1..m : fits(p)
                                           /\ m < whole => ~fits(m + 1)
           new == AddSource(state, n)
<1>1. c \in DOMAIN chunks /\ n \in Nat /\ n - 1 \in Nat
  BY DEF RankedType
<1>2. whole \in Nat
  BY <1>1, TokensType
<1>3. new = IF state.full THEN state
            ELSE [blocks |-> IF fits(whole) \/ most > 0
                               THEN Append(bs, Block(n, c, IF fits(whole) THEN whole ELSE most))
                               ELSE bs,
                  tokens |-> state.tokens + Tokens(c, whole),
                  full |-> ~fits(whole)]
  BY DEF AddSource
<1>4. most \in 0..whole /\ \A p \in 1..most : fits(p)
  <2> DEFINE F == {p \in Nat : fits(p)}
  <2> HIDE DEF fits
  <2>1. PICK m \in 0..whole : (\A p \in 1..m : p \in F) /\ (m < whole => m + 1 \notin F)
    <3> HIDE DEF whole
    <3>1. F \in SUBSET Nat
      OBVIOUS
    <3> HIDE DEF F
    <3>2. QED
      BY <1>2, <3>1, MostFit, Zenon
  <2>2. m \in 0..whole /\ (\A p \in 1..m : fits(p)) /\ (m < whole => ~fits(m + 1))
    <3> HIDE DEF whole
    <3>1. m \in Nat /\ m + 1 \in Nat
      BY <1>2
    <3>2. \A p \in 1..m : fits(p)
      BY <2>1
    <3>3. QED
      BY <2>1, <3>1, <3>2
  <2>3. QED
    BY <2>2, Zenon
<1> HIDE DEF most, new, whole
<1>5. \A bs1 : BlocksOK(bs1, n - 1) => BlocksOK(bs1, n)
  <2>1. ASSUME NEW bs1, BlocksOK(bs1, n - 1) PROVE BlocksOK(bs1, n)
    <3>1. bs1 \in Seq(Blocks) /\ Len(bs1) \in Nat
      BY <2>1 DEF BlocksOK
    <3>2. Len(bs1) <= n
      BY <1>1, <2>1, <3>1 DEF BlocksOK
    <3>3. QED
      BY <2>1, <3>2 DEF BlocksOK
  <2>2. QED
    BY <2>1
<1>6. CASE state.full
  <2>1. new = state
    BY <1>3, <1>6
  <2>2. QED
    BY <1>5, <1>6, <2>1 DEF Filled, new
<1>7. CASE ~state.full
  <2>1. /\ BlocksOK(bs, n - 1) /\ Len(bs) = n - 1 /\ (\A b \in 1..(n - 1) : WholeBlock(bs, b))
        /\ state.tokens = Sum(BlockTokens(bs))
    BY <1>7 DEF Filled
  <2> HIDE DEF bs
  <2>2. \A parts : fits(parts) => Sum(BlockTokens(bs)) + Tokens(ranked[n], parts) <= TokenBudget
    BY <2>1
  <2>3. CASE fits(whole)
    <3> DEFINE more == Append(bs, Block(n, c, whole))
    <3>1. new = [blocks |-> more, tokens |-> state.tokens + Tokens(c, whole), full |-> FALSE]
      BY <1>3, <1>7, <2>3
    <3>2. Sum(BlockTokens(bs)) + Tokens(ranked[n], whole) <= TokenBudget
      BY <2>2, <2>3
    <3>3. /\ BlocksOK(more, n) /\ Len(more) = n
          /\ whole = Len(chunks[ranked[n]].text) => \A b \in 1..n : WholeBlock(more, b)
          /\ Sum(BlockTokens(more)) = Sum(BlockTokens(bs)) + Tokens(ranked[n], whole)
      BY <1>2, <2>1, <3>2, BlockAppend
    <3>4. \A b \in 1..n : WholeBlock(more, b)
      BY <3>3 DEF whole
    <3> HIDE DEF more
    <3>5. new.full = FALSE /\ new.blocks = more /\ new.tokens = Sum(BlockTokens(more))
      BY <2>1, <3>1, <3>3
    <3>6. QED
      BY <3>3, <3>4, <3>5 DEF Filled, new
  <2>4. CASE ~fits(whole) /\ most > 0
    <3> DEFINE more == Append(bs, Block(n, c, most))
    <3>1. new = [blocks |-> more, tokens |-> state.tokens + Tokens(c, whole), full |-> TRUE]
      BY <1>3, <1>7, <2>4
    <3>2. most \in Nat /\ most \in 1..most
      BY <1>2, <1>4, <2>4
    <3>3. Sum(BlockTokens(bs)) + Tokens(ranked[n], most) <= TokenBudget
      BY <1>4, <2>2, <3>2
    <3>4. BlocksOK(more, n)
      BY <2>1, <3>2, <3>3, BlockAppend
    <3> HIDE DEF more
    <3>5. QED
      BY <3>1, <3>4 DEF Filled, new
  <2>5. CASE ~fits(whole) /\ ~(most > 0)
    <3>1. new = [blocks |-> bs, tokens |-> state.tokens + Tokens(c, whole), full |-> TRUE]
      BY <1>3, <1>7, <2>5
    <3>2. BlocksOK(bs, n)
      BY <1>5, <2>1
    <3>3. QED
      BY <3>1, <3>2 DEF Filled, new
  <2>6. QED
    BY <2>3, <2>4, <2>5
<1>8. state.full \in BOOLEAN
  BY DEF Filled
<1>9. QED
  BY <1>6, <1>7, <1>8

(* The context is such blocks. *)
LEMMA AssembledOK ==
  ASSUME RankedType
  PROVE  BlocksOK(Assembled, Len(ranked))
<1> DEFINE N == Len(ranked)
<1>1. N \in Nat
  BY DEF RankedType
<1>2. PICK st : /\ st[0] = NoSources
                /\ \A n \in 1..N : st[n] = AddSource(st[n - 1], n)
                /\ Assembled = st[N].blocks
  BY <1>1, AssembleStates
<1> DEFINE T == {n \in 0..N : Filled(st[n], n)}
<1>3. 0 \in T
  <2>1. NoSources.blocks = <<>> /\ NoSources.tokens = 0 /\ NoSources.full = FALSE
    BY DEF NoSources
  <2>2. <<>> \in Seq(Blocks) /\ Len(<<>>) = 0
    OBVIOUS
  <2>3. BlockTokens(<<>>) = <<>>
    BY DEF BlockTokens
  <2>4. Sum(BlockTokens(<<>>)) = 0 /\ 0 <= TokenBudget
    BY <2>3, SumEmpty, RetrievalAssumption
  <2>5. BlocksOK(<<>>, 0)
    BY <2>2, <2>4 DEF BlocksOK
  <2>6. Filled(NoSources, 0)
    <3>1. BlocksOK(NoSources.blocks, 0)
      BY <2>1, <2>5, Zenon
    <3>2. NoSources.tokens = Sum(BlockTokens(NoSources.blocks))
      BY <2>1, <2>4, Zenon
    <3>3. Len(NoSources.blocks) = 0
      BY <2>1, <2>2, Zenon
    <3>4. \A b \in 1..0 : WholeBlock(NoSources.blocks, b)
      OBVIOUS
    <3>5. NoSources.full \in BOOLEAN
      BY <2>1
    <3>6. QED
      BY <3>1, <3>2, <3>3, <3>4, <3>5 DEF Filled
  <2>7. QED
    BY <1>1, <1>2, <2>6
<1>4. ASSUME NEW n \in 1..N, n - 1 \in T PROVE n \in T
  <2>1. Filled(st[n - 1], n - 1)
    BY <1>4
  <2>2. Filled(AddSource(st[n - 1], n), n)
    BY <2>1, AddSourceFilled
  <2>3. n \in 0..N
    BY <1>1
  <2>4. QED
    BY <1>2, <2>2, <2>3
<1>5. N \in T
  <2> HIDE DEF T
  <2>1. 0..N \subseteq T
    BY <1>1, <1>3, <1>4, Induct
  <2>2. QED
    BY <1>1, <2>1
<1>6. QED
  BY <1>2, <1>5 DEF Filled

-----------------------------------------------------------------------------
(* The inductive invariant of the query *)

(* Where a query can be *)
Stages == {"idle", "fuse", "rerank", "assemble", "cite", "answered"}

(* What is not yet there is empty, *)
Unfilled ==
  /\ stage \in {"idle", "fuse", "rerank"} => ranked = <<>>
  /\ stage \in {"idle", "fuse", "rerank", "assemble"} => context = <<>>
  /\ stage # "answered" => citations = <<>>

(* a document has been chunked and the searches have given chunks of it, *)
Retrieved ==
  stage # "idle" => document \in Documents /\ FoundOK

(* which the fusion and the reranking have in order; *)
Ordered ==
  /\ stage \in {"rerank", "assemble"} => FusedOK(fused)
  /\ stage = "assemble" => RerankedOK(score, ranked)

(* the context shows the first of them, *)
Shown ==
  context # <<>> => BlocksOK(context, Len(ranked))

(* and the citations are of those that were retrieved. *)
Cited ==
  \A i \in DOMAIN citations : \E n : citations[i] = Resolve(n)

(* The inductive invariant: the chunks are right, and all of the above *)
QueryInv ==
  /\ ChunkInv /\ stage \in Stages
  /\ ranked \in Seq(DOMAIN chunks)
  /\ Unfilled /\ Retrieved /\ Ordered /\ Shown /\ Cited

(* Chunks and sizes have the types that the lemmas above ask for. *)
LEMMA ChunkTypes ==
  ASSUME ChunkInv
  PROVE  Sizes(document) \in SizesType /\ chunks \in Seq(ChunksOf(Sizes(document)))
BY SizesOfDocument DEF ChunkInv, ChunksOK, Covered

(* It holds before there is a query. *)
LEMMA QueryInitInv ==
  ASSUME Init
  PROVE  QueryInv
<1>1. ChunkInv
  BY ChunkInitInv DEF Init
<1>2. <<>> \in Seq(DOMAIN chunks) /\ DOMAIN <<>> = {}
  OBVIOUS
<1>3. QED
  BY <1>1, <1>2 DEF Init, QueryInv, Stages, Unfilled, Retrieved, Ordered, Shown, Cited

(* Each stage keeps it. *)
LEMMA ChunkingInv ==
  ASSUME QueryInv, ChunkNext, UNCHANGED queryVars
  PROVE  QueryInv'
<1>1. ChunkInv'
  BY ChunkNextInv
<1>2. document = Nothing /\ Nothing \notin Documents
  BY ChunkingAssumption DEF ChunkNext, Nothing, Sources
<1>3. stage = "idle"
  BY <1>2 DEF QueryInv, Retrieved
<1>4. ranked = <<>> /\ context = <<>> /\ citations = <<>>
  BY <1>3 DEF QueryInv, Unfilled
<1>5. <<>> \in Seq((DOMAIN chunks)') /\ DOMAIN <<>> = {}
  OBVIOUS
<1>6. stage' = "idle" /\ ranked' = <<>> /\ context' = <<>> /\ citations' = <<>>
  BY <1>3, <1>4 DEF queryVars
<1>7. QED
  BY <1>1, <1>5, <1>6 DEF QueryInv, Stages, Unfilled, Retrieved, Ordered, Shown, Cited

(* The searches find chunks of the document. *)
LEMMA SearchInv ==
  ASSUME QueryInv, Search
  PROVE  QueryInv'
<1>1. /\ stage = "idle" /\ stage' = "fuse" /\ document \in Documents
      /\ found' \in [1..3 -> Rankings]
      /\ document' = document /\ strategy' = strategy /\ chunks' = chunks
      /\ fused' = fused /\ score' = score /\ ranked' = ranked
      /\ context' = context /\ citations' = citations
  BY RetrievalAssumption DEF Search, Follows, chunkVars
<1>2. ChunkInv' /\ chunks \in Seq(ChunksOf(Sizes(document)))
  BY <1>1, ChunkTypes DEF QueryInv, ChunkInv
<1>3. FoundOK'
  <2>1. Rankings' = Rankings
    BY <1>1 DEF Rankings
  <2>2. QED
    BY <1>1, <1>2, <2>1 DEF FoundOK
<1>4. ranked = <<>> /\ context = <<>> /\ citations = <<>>
  BY <1>1 DEF QueryInv, Unfilled
<1>5. <<>> \in Seq(DOMAIN chunks) /\ DOMAIN <<>> = {}
  OBVIOUS
<1>6. QED
  BY <1>1, <1>2, <1>3, <1>4, <1>5
  DEF QueryInv, Stages, Unfilled, Retrieved, Ordered, Shown, Cited

(* The fusion puts what they found in order. *)
LEMMA FuseInv ==
  ASSUME QueryInv, Fuse
  PROVE  QueryInv'
<1>1. /\ stage = "fuse" /\ stage' = "rerank"
      /\ fused' = Sorted(Range(FlattenSeq(found)), Ahead)
      /\ document' = document /\ strategy' = strategy /\ chunks' = chunks
      /\ found' = found /\ score' = score /\ ranked' = ranked
      /\ context' = context /\ citations' = citations
  BY DEF Fuse, Follows, chunkVars
<1>2. ChunkInv' /\ document \in Documents /\ FoundOK
  BY <1>1 DEF QueryInv, ChunkInv, Retrieved
<1>3. FoundOK'
  BY <1>1, <1>2 DEF FoundOK, Rankings
<1>4. FusedOK(fused')
  BY <1>1, <1>2, FuseSorts
<1>5. FusedOK(fused)'
  BY <1>1, <1>4 DEF FusedOK, Agreed, Rank
<1>6. ranked = <<>> /\ context = <<>> /\ citations = <<>>
  BY <1>1 DEF QueryInv, Unfilled
<1>7. <<>> \in Seq(DOMAIN chunks) /\ DOMAIN <<>> = {}
  OBVIOUS
<1>8. QED
  BY <1>1, <1>2, <1>3, <1>5, <1>6, <1>7
  DEF QueryInv, Stages, Unfilled, Retrieved, Ordered, Shown, Cited

(* The reranking reorders it and cuts it off. *)
LEMMA RerankInv ==
  ASSUME QueryInv, Rerank
  PROVE  QueryInv'
<1>1. /\ stage = "rerank" /\ stage' = "assemble"
      /\ document' = document /\ strategy' = strategy /\ chunks' = chunks
      /\ found' = found /\ fused' = fused /\ context' = context /\ citations' = citations
  BY DEF Rerank, Follows, chunkVars
<1>2. PICK relevance \in [Range(First(TopFused, fused)) -> Relevances] :
        score' = relevance /\ ranked' = Reranked(relevance)
  BY DEF Rerank, Reranked
<1>3. ChunkInv' /\ document \in Documents /\ FoundOK /\ FusedOK(fused)
  BY <1>1 DEF QueryInv, ChunkInv, Retrieved, Ordered
<1>4. FoundOK'
  BY <1>1, <1>3 DEF FoundOK, Rankings
<1>5. RerankedOK(relevance, ranked')
  BY <1>2, <1>3, RerankSorts
<1>6. FusedOK(fused)' /\ RerankedOK(score, ranked)'
  <2>1. FusedOK(fused)'
    BY <1>1, <1>3 DEF FusedOK, Agreed, Rank
  <2>2. RerankedOK(score, ranked)'
    BY <1>1, <1>2, <1>5 DEF RerankedOK, Agreed, Rank
  <2>3. QED
    BY <2>1, <2>2
<1>7. ranked' \in Seq(DOMAIN chunks)
  BY <1>5 DEF RerankedOK
<1>8. context = <<>> /\ citations = <<>> /\ DOMAIN <<>> = {}
  BY <1>1 DEF QueryInv, Unfilled
<1>9. QED
  BY <1>1, <1>3, <1>4, <1>6, <1>7, <1>8
  DEF QueryInv, Stages, Unfilled, Retrieved, Ordered, Shown, Cited

(* The context is made of the first chunks that were retrieved. *)
LEMMA AssembleInv ==
  ASSUME QueryInv, Assemble
  PROVE  QueryInv'
<1>1. /\ stage = "assemble" /\ stage' = "cite"
      /\ document' = document /\ strategy' = strategy /\ chunks' = chunks
      /\ found' = found /\ fused' = fused /\ score' = score /\ ranked' = ranked
      /\ citations' = citations
  BY DEF Assemble, Follows, chunkVars
<1>2. context' = Assembled
  BY DEF Assemble, Assembled
<1>3. ChunkInv /\ ChunkInv' /\ document \in Documents /\ FoundOK /\ ranked \in Seq(DOMAIN chunks)
  BY <1>1 DEF QueryInv, ChunkInv, Retrieved
<1>4. FoundOK'
  BY <1>1, <1>3 DEF FoundOK, Rankings
<1>5. RankedType
  BY <1>3, ChunkTypes DEF RankedType
<1>6. BlocksOK(context', Len(ranked))
  BY <1>2, <1>5, AssembledOK
<1>7. BlocksOK(context, Len(ranked))'
  BY <1>1, <1>6 DEF BlocksOK, Blocks, WholeBlock, BlockTokens, Tokens
<1>8. citations = <<>> /\ DOMAIN <<>> = {}
  BY <1>1 DEF QueryInv, Unfilled
<1>9. QED
  BY <1>1, <1>3, <1>4, <1>7, <1>8
  DEF QueryInv, Stages, Unfilled, Retrieved, Ordered, Shown, Cited

(* What the answer cites is resolved against them. *)
LEMMA CiteInv ==
  ASSUME QueryInv, Cite
  PROVE  QueryInv'
<1>1. /\ stage = "cite" /\ stage' = "answered"
      /\ document' = document /\ strategy' = strategy /\ chunks' = chunks
      /\ found' = found /\ fused' = fused /\ score' = score /\ ranked' = ranked
      /\ context' = context
  BY DEF Cite, Follows, chunkVars
<1>2. ChunkInv' /\ document \in Documents /\ FoundOK /\ ranked \in Seq(DOMAIN chunks) /\ Shown
  BY <1>1 DEF QueryInv, ChunkInv, Retrieved
<1>3. FoundOK'
  BY <1>1, <1>2 DEF FoundOK, Rankings
<1>4. Shown'
  BY <1>1, <1>2 DEF Shown, BlocksOK, Blocks, WholeBlock, BlockTokens, Tokens
<1>5. \A i \in DOMAIN citations' : \E n : citations'[i] = Resolve(n)
  BY DEF Cite
<1>6. Cited'
  BY <1>1, <1>5 DEF Cited, Resolve
<1>7. QED
  BY <1>1, <1>2, <1>3, <1>4, <1>6
  DEF QueryInv, Stages, Unfilled, Retrieved, Ordered

(* So every step keeps it. *)
LEMMA QueryNextInv ==
  ASSUME QueryInv, [Next]_vars
  PROVE  QueryInv'
<1>1. CASE ChunkNext /\ UNCHANGED queryVars
  BY <1>1, ChunkingInv
<1>2. CASE Search
  BY <1>2, SearchInv
<1>3. CASE Fuse
  BY <1>3, FuseInv
<1>4. CASE Rerank
  BY <1>4, RerankInv
<1>5. CASE Assemble
  BY <1>5, AssembleInv
<1>6. CASE Cite
  BY <1>6, CiteInv
<1>7. CASE UNCHANGED vars
  <2>1. /\ document' = document /\ strategy' = strategy /\ chunks' = chunks
        /\ stage' = stage /\ found' = found /\ fused' = fused /\ score' = score
        /\ ranked' = ranked /\ context' = context /\ citations' = citations
    BY <1>7 DEF vars, chunkVars, queryVars
  <2>2. ChunkInv' /\ Unfilled' /\ stage' \in Stages /\ ranked' \in Seq((DOMAIN chunks)')
    BY <2>1 DEF QueryInv, ChunkInv, Unfilled
  <2>3. Retrieved'
    BY <2>1 DEF QueryInv, Retrieved, FoundOK, Rankings
  <2>4. Ordered'
    <3>1. FusedOK(fused) => FusedOK(fused)'
      BY <2>1 DEF FusedOK, Agreed, Rank
    <3>2. RerankedOK(score, ranked) => RerankedOK(score, ranked)'
      BY <2>1 DEF RerankedOK, Agreed, Rank
    <3>3. QED
      BY <2>1, <3>1, <3>2 DEF QueryInv, Ordered
  <2>5. Shown'
    BY <2>1 DEF QueryInv, Shown, BlocksOK, Blocks, WholeBlock, BlockTokens, Tokens
  <2>6. Cited'
    BY <2>1 DEF QueryInv, Cited, Resolve
  <2>7. QED
    BY <2>2, <2>3, <2>4, <2>5, <2>6 DEF QueryInv
<1>8. QED
  BY <1>1, <1>2, <1>3, <1>4, <1>5, <1>6, <1>7 DEF Next

(* It is what SourcesResolve asks for. *)
LEMMA QueryInvResolves ==
  ASSUME QueryInv
  PROVE  SourcesResolve
<1>1. ChunkInv /\ ranked \in Seq(DOMAIN chunks) /\ chunks \in Seq(ChunksOf(Sizes(document)))
      /\ Sizes(document) \in SizesType
  BY ChunkTypes DEF QueryInv
<1>2. RankedByAgreement
  <2> SUFFICES ASSUME stage \in {"rerank", "assemble"} PROVE RankedByAgreement
    BY DEF RankedByAgreement
  <2>1. FusedOK(fused)
    BY DEF QueryInv, Ordered
  <2>2. DOMAIN fused = 1..Len(fused) /\ DOMAIN ranked = 1..Len(ranked)
    <3>1. fused \in Seq(DOMAIN chunks)
      BY <2>1 DEF FusedOK
    <3>2. QED
      BY <1>1, <3>1
  <2>3. IsInjective(fused)
    BY <2>1, <2>2 DEF FusedOK, IsInjective
  <2>4. CASE stage = "rerank"
    <3>1. ranked = <<>>
      BY <2>4 DEF QueryInv, Unfilled
    <3>2. IsInjective(ranked) /\ Range(ranked) = {}
      BY <3>1 DEF IsInjective, Range
    <3>3. QED
      BY <2>1, <2>3, <3>2 DEF RankedByAgreement, FusedOK
  <2>5. CASE stage = "assemble"
    <3>1. RerankedOK(score, ranked)
      BY <2>5 DEF QueryInv, Ordered
    <3>2. IsInjective(ranked)
      BY <2>2, <3>1 DEF RerankedOK, IsInjective
    <3>3. QED
      BY <2>1, <2>3, <3>1, <3>2 DEF RankedByAgreement, FusedOK, RerankedOK
  <2>6. QED
    BY <2>4, <2>5
<1>3. BlocksOK(context, Len(ranked))
  <2>1. CASE context = <<>>
    <3>1. <<>> \in Seq(Blocks) /\ Len(<<>>) = 0 /\ Len(ranked) \in Nat
      BY <1>1
    <3>2. BlockTokens(<<>>) = <<>>
      BY DEF BlockTokens
    <3>3. Sum(BlockTokens(<<>>)) = 0 /\ 0 <= TokenBudget
      BY <3>2, SumEmpty, RetrievalAssumption
    <3>4. BlocksOK(<<>>, Len(ranked))
      BY <3>1, <3>3 DEF BlocksOK
    <3>5. QED
      BY <2>1, <3>4
  <2>2. CASE context # <<>>
    BY <2>2 DEF QueryInv, Shown
  <2>3. QED
    BY <2>1, <2>2
<1>4. /\ context \in Seq(Blocks) /\ DOMAIN context = 1..Len(context)
      /\ Len(context) \in Nat /\ Len(context) <= Len(ranked)
  <2>1. context \in Seq(Blocks) /\ Len(context) <= Len(ranked)
    BY <1>3 DEF BlocksOK
  <2>2. QED
    BY <2>1
<1>5. \A b \in DOMAIN context :
        /\ context[b].source = b /\ context[b].chunk = ranked[b]
        /\ b < Len(context) => context[b].parts = Len(chunks[ranked[b]].text)
  BY <1>3, <1>4 DEF BlocksOK, WholeBlock
<1>6. Sum([b \in DOMAIN context |-> Tokens(context[b].chunk, context[b].parts)]) <= TokenBudget
  BY <1>3 DEF BlocksOK, BlockTokens
<1>7. ASSUME NEW i \in DOMAIN citations
      PROVE  /\ citations[i][2] = 0 <=> citations[i][1] \notin 1..Len(ranked)
             /\ \A b \in DOMAIN context : context[b].source = citations[i][1] =>
                  context[b].chunk = citations[i][2]
  <2>1. PICK n : citations[i] = Resolve(n)
    BY DEF QueryInv, Cited
  <2>2. citations[i][1] = n /\ citations[i][2] = IF n \in 1..Len(ranked) THEN ranked[n] ELSE 0
    BY <2>1 DEF Resolve
  <2>3. \A k \in 1..Len(ranked) : ranked[k] # 0
    <3>1. DOMAIN chunks = 1..Len(chunks)
      BY <1>1
    <3>2. QED
      BY <1>1, <3>1
  <2>4. \A b \in DOMAIN context : b \in 1..Len(ranked)
    BY <1>1, <1>4
  <2>5. QED
    BY <1>5, <2>2, <2>3, <2>4
<1>8. QED
  BY <1>2, <1>5, <1>6, <1>7 DEF SourcesResolve

(* Chunks and query never leave the inductive invariant. *)
THEOREM Invariance == Spec => []QueryInv
<1>1. Init => QueryInv
  BY QueryInitInv
<1>2. QueryInv /\ [Next]_vars => QueryInv'
  BY QueryNextInv
<1>3. QED
  BY <1>1, <1>2, PTL DEF Spec

(* What the searches agree on comes first, the context keeps its budget,    *)
(* and its numbers lead to its chunks (SourcesResolve), for any results of  *)
(* the searches (retriever.py, fusion.py, reranker.py, context_assembler.py *)
(* and citations.py).                                                       *)
THEOREM SourcesAreResolved == Spec => []SourcesResolve
<1>1. QueryInv => SourcesResolve
  BY QueryInvResolves
<1>2. QED
  BY <1>1, Invariance, PTL
=================================================================================
