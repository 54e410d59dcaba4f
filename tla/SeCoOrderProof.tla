--------------------------- MODULE SeCoOrderProof ---------------------------
(***************************************************************************)
(* Proofs about SeCo: a client of the root receives each sender's messages *)
(* in order, a member of a group holds the history of its node, and        *)
(* neighbouring nodes agree on the histories.                              *)
(***************************************************************************)
EXTENDS SeCoGoneProof

----------------------------------------------------------------------------
(* Sequences of which some elements are left out *)

\* t has the elements of s but some of D, in the order of s.
Spares(t, s, D) ==
  \E at \in [1..Len(t) -> 1..Len(s)] :
    /\ \A i, j \in 1..Len(t) : i < j => at[i] < at[j]
    /\ \A i \in 1..Len(t) : t[i] = s[at[i]]
    /\ \A k \in 1..Len(s) : s[k] \in D \/ \E i \in 1..Len(t) : at[i] = k

\* Lemmas: a sequence with nothing left out ...
LEMMA SparesSelf ==
  ASSUME NEW S, NEW s \in Seq(S), NEW D
  PROVE  Spares(s, s, D)
<1> DEFINE at == [i \in 1..Len(s) |-> i]
<1>1. /\ at \in [1..Len(s) -> 1..Len(s)]
      /\ \A i \in 1..Len(s) : at[i] = i
  OBVIOUS
<1> HIDE DEF at
<1>2. \A i, j \in 1..Len(s) : i < j => at[i] < at[j]
  BY <1>1
<1> QED BY <1>1, <1>2, Zenon DEF Spares

\* ... or all of D.
LEMMA SparesPurged ==
  ASSUME NEW S, NEW s \in Seq(S), NEW D
  PROVE  Purged(s, D) \in Seq(S) /\ Spares(Purged(s, D), s, D)
<1>1. PICK t : t = Purged(s, D)
  OBVIOUS
<1>2. t \in Seq(S) /\ Sifts(t, s, D)
  BY <1>1, PurgedSifts
<1>3. PICK at \in [1..Len(t) -> 1..Len(s)] :
        /\ \A i, j \in 1..Len(t) : i < j => at[i] < at[j]
        /\ \A i \in 1..Len(t) : t[i] = s[at[i]]
        /\ \A k \in 1..Len(s) : s[k] \notin D <=> \E i \in 1..Len(t) : at[i] = k
  BY <1>2 DEF Sifts
<1>4. \A k \in 1..Len(s) : s[k] \in D \/ \E i \in 1..Len(t) : at[i] = k
  BY <1>3
<1>5. Spares(t, s, D)
  BY <1>3, <1>4, Zenon DEF Spares
<1> QED BY <1>1, <1>2, <1>5

\* Lemma: what is left out of two sequences.
LEMMA SparesBoth ==
  ASSUME NEW S, NEW s \in Seq(S), NEW t \in Seq(S), NEW u \in Seq(S),
         NEW v \in Seq(S), NEW D, Spares(t, s, D), Spares(v, u, D)
  PROVE  Spares(t \o v, s \o u, D)
<1>1. PICK f \in [1..Len(t) -> 1..Len(s)] :
        /\ \A i, j \in 1..Len(t) : i < j => f[i] < f[j]
        /\ \A i \in 1..Len(t) : t[i] = s[f[i]]
        /\ \A k \in 1..Len(s) : s[k] \in D \/ \E i \in 1..Len(t) : f[i] = k
  BY DEF Spares
<1>2. PICK g \in [1..Len(v) -> 1..Len(u)] :
        /\ \A i, j \in 1..Len(v) : i < j => g[i] < g[j]
        /\ \A i \in 1..Len(v) : v[i] = u[g[i]]
        /\ \A k \in 1..Len(u) : u[k] \in D \/ \E i \in 1..Len(v) : g[i] = k
  BY DEF Spares
<1>3. PICK a \in Nat, b \in Nat, c \in Nat, d \in Nat :
        a = Len(t) /\ b = Len(s) /\ c = Len(v) /\ d = Len(u)
  OBVIOUS
<1>4. PICK tv, su : tv = t \o v /\ su = s \o u
  OBVIOUS
<1>5. /\ Len(tv) = a + c /\ Len(su) = b + d
      /\ \A i \in 1..a : tv[i] = t[i]
      /\ \A i \in 1..c : tv[a + i] = v[i]
      /\ \A i \in 1..b : su[i] = s[i]
      /\ \A i \in 1..d : su[b + i] = u[i]
  BY <1>3, <1>4
<1> DEFINE at == [i \in 1..(a + c) |-> IF i <= a THEN f[i] ELSE b + g[i - a]]
<1>6. /\ \A i \in 1..a : i \in 1..(a + c) /\ at[i] = f[i]
      /\ \A i \in 1..c : a + i \in 1..(a + c) /\ at[a + i] = b + g[i]
  <2>1. \A i \in 1..a : i \in 1..(a + c) /\ at[i] = f[i]
    BY <1>3
  <2>2. ASSUME NEW i \in 1..c
        PROVE  a + i \in 1..(a + c) /\ at[a + i] = b + g[i]
    <3>1. a + i \in 1..(a + c) /\ ~(a + i <= a) /\ (a + i) - a = i
      BY <1>3
    <3> QED BY <3>1
  <2> QED BY <2>1, <2>2
<1>7. at = [i \in 1..(a + c) |-> at[i]]
  OBVIOUS
<1> HIDE DEF at
<1>8. /\ \A i \in 1..a : f[i] \in 1..b
      /\ \A i \in 1..c : g[i] \in 1..d
  BY <1>1, <1>2, <1>3
<1>9. \A i \in 1..(a + c) : i \in 1..a \/ \E j \in 1..c : i = a + j
  <2> SUFFICES ASSUME NEW i \in 1..(a + c), i \notin 1..a
               PROVE  \E j \in 1..c : i = a + j
    OBVIOUS
  <2>1. i - a \in 1..c /\ i = a + (i - a)
    BY <1>3
  <2> QED BY <2>1
<1>10. at \in [1..(a + c) -> 1..(b + d)]
  <2>1. \A i \in 1..a : at[i] \in 1..(b + d)
    BY <1>3, <1>6, <1>8
  <2>2. \A i \in 1..c : at[a + i] \in 1..(b + d)
    BY <1>3, <1>6, <1>8
  <2>3. \A i \in 1..(a + c) : at[i] \in 1..(b + d)
    BY <1>9, <2>1, <2>2
  <2> QED BY <1>7, <2>3
<1>11. \A i, j \in 1..(a + c) : i < j => at[i] < at[j]
  <2> SUFFICES ASSUME NEW i \in 1..(a + c), NEW j \in 1..(a + c), i < j
               PROVE  at[i] < at[j]
    OBVIOUS
  <2>1. CASE i \in 1..a /\ j \in 1..a
    <3>1. f[i] < f[j]
      BY <1>1, <1>3, <2>1
    <3> QED BY <1>6, <2>1, <3>1
  <2>2. ASSUME i \in 1..a, NEW y \in 1..c, j = a + y
        PROVE  at[i] < at[j]
    BY <1>3, <1>6, <1>8, <2>2
  <2>3. ASSUME NEW x \in 1..c, i = a + x, NEW y \in 1..c, j = a + y
        PROVE  at[i] < at[j]
    <3>1. x < y
      BY <1>3, <2>3
    <3>2. g[x] < g[y] /\ g[x] \in Nat /\ g[y] \in Nat
      BY <1>2, <1>3, <1>8, <3>1
    <3> QED BY <1>3, <1>6, <2>3, <3>2
  <2>4. ASSUME NEW x \in 1..c, i = a + x
        PROVE  j \notin 1..a
    BY <1>3, <2>4
  <2> QED BY <1>9, <2>1, <2>2, <2>3, <2>4
<1>12. \A i \in 1..(a + c) : tv[i] = su[at[i]]
  <2>1. \A i \in 1..a : tv[i] = su[at[i]]
    BY <1>1, <1>3, <1>5, <1>6, <1>8
  <2>2. ASSUME NEW i \in 1..c
        PROVE  tv[a + i] = su[at[a + i]]
    <3>1. v[i] = u[g[i]] /\ g[i] \in 1..d
      BY <1>2, <1>3, <1>8
    <3> QED BY <1>5, <1>6, <3>1
  <2> QED BY <1>9, <2>1, <2>2
<1>13. \A k \in 1..(b + d) : su[k] \in D \/ \E i \in 1..(a + c) : at[i] = k
  <2> SUFFICES ASSUME NEW k \in 1..(b + d), su[k] \notin D
               PROVE  \E i \in 1..(a + c) : at[i] = k
    OBVIOUS
  <2>1. CASE k \in 1..b
    <3>1. PICK i \in 1..a : f[i] = k
      BY <1>1, <1>3, <1>5, <2>1
    <3> QED BY <1>6, <3>1
  <2>2. CASE k \notin 1..b
    <3>1. k - b \in 1..d /\ k = b + (k - b)
      BY <1>3, <2>2
    <3>2. PICK y \in 1..d : k = b + y
      BY <3>1
    <3>3. u[y] \notin D
      BY <1>5, <3>2
    <3>4. PICK i \in 1..c : g[i] = y
      BY <1>2, <1>3, <3>3
    <3> QED BY <1>6, <3>2, <3>4
  <2> QED BY <2>1, <2>2
<1>14. Len(tv) = a + c /\ Len(su) = b + d
  BY <1>5
<1>15. /\ at \in [1..Len(tv) -> 1..Len(su)]
       /\ \A i, j \in 1..Len(tv) : i < j => at[i] < at[j]
       /\ \A i \in 1..Len(tv) : tv[i] = su[at[i]]
       /\ \A k \in 1..Len(su) : su[k] \in D \/ \E i \in 1..Len(tv) : at[i] = k
  BY <1>10, <1>11, <1>12, <1>13, <1>14
<1>16. Spares(tv, su, D)
  BY <1>15, Zenon DEF Spares
<1> QED BY <1>4, <1>16

\* Lemma: PPSender.run skips what is deprecated and nothing else ...
LEMMA SparesSkipped ==
  ASSUME NEW S, NEW s \in Seq(S), NEW k \in 0..Len(s), NEW D
  PROVE  Spares(Skipped(s, k, D), s, D)
<1>1. PICK a, b : a = SubSeq(s, 1, k) /\ b = SubSeq(s, k + 1, Len(s))
  OBVIOUS
<1>2. a \in Seq(S) /\ b \in Seq(S) /\ s = a \o b
  <2>1. CASE Len(s) = 0
    <3>1. s = <<>> /\ k = 0
      BY <2>1
    <3>2. a = <<>> /\ b = <<>>
      BY <1>1, <2>1, <3>1, SubSeqEmpty
    <3> QED BY <3>1, <3>2
  <2>2. CASE Len(s) # 0
    <3>1. /\ 1 \in 1..(Len(s) + 1) /\ k \in (1 - 1)..Len(s)
          /\ Len(s) \in k..Len(s)
      BY <2>2
    <3>2. a \o b = SubSeq(s, 1, Len(s))
      BY <1>1, <3>1, ConcatAdjacentSubSeq
    <3>3. a \in Seq(S) /\ b \in Seq(S)
      BY <1>1
    <3> QED BY <3>2, <3>3, SubSeqFull
  <2> QED BY <2>1, <2>2
<1>3. Skipped(s, k, D) = a \o Purged(b, D)
  BY <1>1 DEF Skipped
<1>4. PICK d : d = Purged(b, D)
  OBVIOUS
<1>5. d \in Seq(S) /\ Spares(d, b, D) /\ Spares(a, a, D)
  BY <1>2, <1>4, SparesPurged, SparesSelf
<1>6. Spares(a \o d, a \o b, D)
  BY <1>2, <1>5, SparesBoth
<1> QED BY <1>2, <1>3, <1>4, <1>6

\* ... on the links of the node that has marked it.
LEMMA SparesDeprecated ==
  ASSUME NEW q \in Queues, NEW n, NEW D, NEW r \in Deprecations(q, n, D),
         NEW l \in Links
  PROVE  Spares(r[l], q[l], D) /\ (l[1] # n => r[l] = q[l])
<1>1. PICK s : s = q[l]
  OBVIOUS
<1>2. s \in Seq(Cargoes)
  BY <1>1 DEF Queues, Cargoes
<1>3. PICK touched : touched = {x \in Links : /\ x[1] = n
                                              /\ ToSet(q[x]) \cap D # {}}
  OBVIOUS
<1>4. PICK k \in [touched -> UNION {0..Len(q[x]) : x \in touched}] :
        /\ \A x \in touched : k[x] <= Len(q[x])
        /\ r = [x \in Links |-> IF x \in touched THEN Skipped(q[x], k[x], D)
                                                 ELSE q[x]]
  BY <1>3 DEF Deprecations
<1>5. CASE l \in touched
  <2>1. k[l] \in UNION {0..Len(q[x]) : x \in touched} /\ k[l] <= Len(s)
    BY <1>1, <1>4, <1>5
  <2>2. PICK x \in touched : k[l] \in 0..Len(q[x])
    BY <2>1
  <2>3. k[l] \in Nat /\ Len(s) \in Nat
    BY <1>2, <2>2
  <2>4. k[l] \in 0..Len(s)
    BY <2>1, <2>3
  <2>5. PICK j \in 0..Len(s) : j = k[l]
    BY <2>4
  <2>6. r[l] = Skipped(s, j, D) /\ l[1] = n
    BY <1>1, <1>3, <1>4, <1>5, <2>5
  <2> QED BY <1>1, <1>2, <2>6, SparesSkipped
<1>6. CASE l \notin touched
  <2>1. r[l] = q[l]
    BY <1>4, <1>6
  <2> QED BY <1>1, <1>2, <2>1, SparesSelf
<1> QED BY <1>5, <1>6

----------------------------------------------------------------------------
(* The order of what getMsgs and getAllMsgs give *)

\* Every two elements of f are in the relation R in their order.
Strung(f, R) == \A i, j \in 1..Len(f) : i < j => <<f[i], f[j]>> \in R

\* Lemma: two such sequences, one after the other.
LEMMA StrungBoth ==
  ASSUME NEW S, NEW s \in Seq(S), NEW t \in Seq(S), NEW R, Strung(s, R),
         Strung(t, R),
         \A i \in 1..Len(s), j \in 1..Len(t) : <<s[i], t[j]>> \in R
  PROVE  Strung(s \o t, R)
<1>0. PICK a \in Nat, b \in Nat : a = Len(s) /\ b = Len(t)
  OBVIOUS
<1>1. PICK st : a = Len(s) /\ b = Len(t) /\ st = s \o t
  BY <1>0
<1>2. /\ Len(st) = a + b
      /\ \A i \in 1..a : st[i] = s[i]
      /\ \A i \in 1..b : st[a + i] = t[i]
  BY <1>1
<1>3. \A i \in 1..(a + b) : i \in 1..a \/ \E u \in 1..b : i = a + u
  <2> SUFFICES ASSUME NEW i \in 1..(a + b), i \notin 1..a
               PROVE  \E u \in 1..b : i = a + u
    OBVIOUS
  <2>1. i - a \in 1..b /\ i = a + (i - a)
    BY <1>1
  <2> QED BY <2>1
<1>4. /\ \A i, j \in 1..a : i < j => <<s[i], s[j]>> \in R
      /\ \A i, j \in 1..b : i < j => <<t[i], t[j]>> \in R
      /\ \A i \in 1..a, j \in 1..b : <<s[i], t[j]>> \in R
  BY <1>1 DEF Strung
<1>5. ASSUME NEW i \in 1..(a + b), NEW j \in 1..(a + b), i < j
      PROVE  <<st[i], st[j]>> \in R
  <2>1. CASE i \in 1..a /\ j \in 1..a
    BY <1>2, <1>4, <1>5, <2>1
  <2>2. ASSUME i \in 1..a, NEW y \in 1..b, j = a + y
        PROVE  <<st[i], st[j]>> \in R
    BY <1>2, <1>4, <2>2
  <2>3. ASSUME NEW x \in 1..b, i = a + x, NEW y \in 1..b, j = a + y
        PROVE  <<st[i], st[j]>> \in R
    <3>1. x < y
      BY <1>1, <1>5, <2>3
    <3> QED BY <1>2, <1>4, <2>3, <3>1
  <2>4. ASSUME NEW x \in 1..b, i = a + x
        PROVE  j \notin 1..a
    BY <1>1, <1>5, <2>4
  <2> QED BY <1>3, <2>1, <2>2, <2>3, <2>4
<1> QED BY <1>1, <1>2, <1>5 DEF Strung

\* Every element of the first m sequences is in f, and all those of f are
\* from these.
Gathers(f, seqs, m) ==
  /\ \A i \in 1..Len(f) : \E a \in 1..m :
       \E u \in 1..Len(seqs[a]) : f[i] = seqs[a][u]
  /\ \A a \in 1..m : \A u \in 1..Len(seqs[a]) :
       \E i \in 1..Len(f) : f[i] = seqs[a][u]

\* Lemma: one sequence more.
LEMMA GathersMore ==
  ASSUME NEW S, NEW seqs \in Seq(Seq(S)), NEW m \in 1..Len(seqs),
         NEW f \in Seq(S), Gathers(f, seqs, m - 1)
  PROVE  Gathers(f \o seqs[m], seqs, m)
<1>0. PICK t \in Seq(S) : t = seqs[m]
  OBVIOUS
<1>a. PICK a \in Nat, b \in Nat : a = Len(f) /\ b = Len(t)
  OBVIOUS
<1>1. PICK ft : t = seqs[m] /\ a = Len(f) /\ b = Len(t) /\ ft = f \o t
  BY <1>0, <1>a
<1>2. /\ Len(ft) = a + b
      /\ \A i \in 1..a : i \in 1..(a + b) /\ ft[i] = f[i]
      /\ \A i \in 1..b : a + i \in 1..(a + b) /\ ft[a + i] = t[i]
  <2>0. f \in Seq(S) /\ t \in Seq(S) /\ a = Len(f) /\ b = Len(t) /\ ft = f \o t
    BY <1>0, <1>1
  <2>1. /\ Len(ft) = a + b
        /\ \A i \in 1..a : ft[i] = f[i]
        /\ \A i \in 1..b : ft[a + i] = t[i]
    <3> HIDE <1>0, <1>a, <1>1
    <3> QED BY <2>0
  <2>2. /\ \A i \in 1..a : i \in 1..(a + b)
        /\ \A i \in 1..b : a + i \in 1..(a + b)
    OBVIOUS
  <2> QED BY <2>1, <2>2
<1>3. \A i \in 1..(a + b) : i \in 1..a \/ \E u \in 1..b : i = a + u
  <2> SUFFICES ASSUME NEW i \in 1..(a + b), i \notin 1..a
               PROVE  \E u \in 1..b : i = a + u
    OBVIOUS
  <2>1. i - a \in 1..b /\ i = a + (i - a)
    BY <1>1
  <2> QED BY <2>1
<1>4. m \in 1..m /\ \A x \in 1..m : x = m \/ x \in 1..(m - 1)
  OBVIOUS
<1>5. \A x \in 1..(m - 1) : x \in 1..m
  OBVIOUS
<1>6. ASSUME NEW i \in 1..Len(ft)
      PROVE  \E x \in 1..m : \E u \in 1..Len(seqs[x]) : ft[i] = seqs[x][u]
  <2>1. CASE i \in 1..a
    <3>1. PICK x \in 1..(m - 1) : \E u \in 1..Len(seqs[x]) : f[i] = seqs[x][u]
      BY <1>1, <2>1 DEF Gathers
    <3> QED BY <1>2, <1>5, <2>1, <3>1
  <2>2. ASSUME NEW u \in 1..b, i = a + u
        PROVE  \E x \in 1..m : \E v \in 1..Len(seqs[x]) : ft[i] = seqs[x][v]
    BY <1>1, <1>2, <1>4, <2>2
  <2> QED BY <1>2, <1>3, <2>1, <2>2
<1>7. ASSUME NEW x \in 1..m, NEW u \in 1..Len(seqs[x])
      PROVE  \E i \in 1..Len(ft) : ft[i] = seqs[x][u]
  <2>1. CASE x = m
    <3>1. u \in 1..b /\ seqs[x][u] = t[u]
      BY <1>1, <2>1
    <3> QED BY <1>2, <3>1
  <2>2. CASE x \in 1..(m - 1)
    <3>1. PICK i \in 1..a : f[i] = seqs[x][u]
      BY <1>1, <2>2 DEF Gathers
    <3> QED BY <1>2, <3>1
  <2> QED BY <1>4, <2>1, <2>2
<1> QED BY <1>1, <1>6, <1>7 DEF Gathers

\* Lemma: FlattenSeq of sequences that are in order, one after the other, has
\* all their elements in that order.
LEMMA FlattenStrung ==
  ASSUME NEW S, NEW seqs \in Seq(Seq(S)), NEW R,
         \A a \in 1..Len(seqs) : Strung(seqs[a], R),
         \A a, b \in 1..Len(seqs) : a < b =>
           \A u \in 1..Len(seqs[a]), v \in 1..Len(seqs[b]) :
             <<seqs[a][u], seqs[b][v]>> \in R
  PROVE  /\ FlattenSeq(seqs) \in Seq(S)
         /\ Strung(FlattenSeq(seqs), R)
         /\ Gathers(FlattenSeq(seqs), seqs, Len(seqs))
<1>1. FlattenSeq(seqs) \in Seq(S)
  BY FlattenHolds
<1>2. CASE Len(seqs) = 0
  <2>1. FlattenSeq(seqs) = seqs
    BY <1>2 DEF FlattenSeq
  <2>2. seqs = <<>>
    BY <1>2
  <2>3. FlattenSeq(seqs) = <<>> /\ Len(<<>>) = 0 /\ 1..Len(<<>>) = {}
    BY <2>1, <2>2
  <2>4. 1..Len(seqs) = {}
    BY <1>2
  <2> QED BY <1>1, <2>3, <2>4 DEF Strung, Gathers
<1>3. CASE Len(seqs) # 0
  <2>1. PICK h : /\ h \in [1..Len(seqs) -> Seq(S)]
                 /\ Joins(seqs, h) /\ FlattenSeq(seqs) = h[Len(seqs)]
    BY <1>3, FlattenIs
  <2>2. \A m \in 1..Len(seqs) :
          h[m] = IF m = 1 THEN seqs[m] ELSE h[m - 1] \o seqs[m]
    BY <2>1 DEF Joins
  <2> DEFINE Good(m) == Gathers(h[m], seqs, m) /\ Strung(h[m], R)
             Missing == {m \in 1..Len(seqs) : ~Good(m)}
  <2>3. Missing = {}
    <3> SUFFICES ASSUME Missing # {} PROVE FALSE
      OBVIOUS
    <3>1. Missing \in SUBSET Nat
      OBVIOUS
    <3>2. PICK m \in Missing : \A k \in Missing : m <= k
      BY <3>1, Least
    <3>3. m \in 1..Len(seqs) /\ m \in Nat /\ ~Good(m)
      BY <3>2
    <3>4. PICK f \in Seq(S) : /\ h[m] = f \o seqs[m] /\ Strung(f, R)
                              /\ Gathers(f, seqs, m - 1)
      <4>1. CASE m = 1
        <5>1. h[m] = seqs[m] /\ seqs[m] \in Seq(S)
          BY <2>2, <3>3, <4>1
        <5>2. h[m] = <<>> \o seqs[m]
          BY <5>1
        <5>3. <<>> \in Seq(S) /\ Len(<<>>) = 0 /\ 1..Len(<<>>) = {}
              /\ 1..(m - 1) = {}
          BY <4>1
        <5>4. Strung(<<>>, R) /\ Gathers(<<>>, seqs, m - 1)
          BY <5>3 DEF Strung, Gathers
        <5> QED BY <5>2, <5>3, <5>4
      <4>2. CASE m # 1
        <5>1. m - 1 \in 1..Len(seqs) /\ m - 1 \notin Missing
          <6> HIDE DEF Missing
          <6>1. m - 1 \in 1..Len(seqs)
            BY <3>3, <4>2
          <6>2. ~(m <= m - 1)
            BY <3>3
          <6> QED BY <3>2, <6>1, <6>2
        <5>2. Good(m - 1)
          BY <5>1
        <5>3. h[m - 1] \in Seq(S) /\ h[m] = h[m - 1] \o seqs[m]
          BY <2>1, <2>2, <3>3, <4>2, <5>1
        <5> QED BY <5>2, <5>3
      <4> QED BY <4>1, <4>2
    <3>5. Gathers(f \o seqs[m], seqs, m)
      BY <3>3, <3>4, GathersMore
    <3>6. seqs[m] \in Seq(S) /\ Strung(seqs[m], R)
      BY <3>3
    <3>7. ASSUME NEW i \in 1..Len(f), NEW v \in 1..Len(seqs[m])
          PROVE  <<f[i], seqs[m][v]>> \in R
      <4>1. PICK a \in 1..(m - 1) : \E u \in 1..Len(seqs[a]) : f[i] = seqs[a][u]
        BY <3>4 DEF Gathers
      <4>2. a \in 1..Len(seqs) /\ a < m
        BY <3>3
      <4> QED BY <3>3, <4>1, <4>2
    <3>8. Strung(f \o seqs[m], R)
      BY <3>4, <3>6, <3>7, StrungBoth
    <3> QED BY <3>3, <3>4, <3>5, <3>8
  <2>4. Len(seqs) \in 1..Len(seqs)
    BY <1>3
  <2>5. Good(Len(seqs))
    BY <2>3, <2>4
  <2> QED BY <1>1, <2>1, <2>5
<1> QED BY <1>2, <1>3

\* Lemma: the order that SetToSeq gives to a finite set has no element twice.
LEMMA OrderOnce ==
  ASSUME NEW S, IsFiniteSet(S)
  PROVE  \A i, j \in 1..Len(SetToSeq(S)) : SetToSeq(S)[i] = SetToSeq(S)[j] => i = j
<1> DEFINE n == Cardinality(S)
<1>1. n \in Nat /\ ExistsBijection(1..n, S)
  BY FS_CardinalityType
<1>2. PICK b \in Bijection(1..n, S) : TRUE
  BY <1>1 DEF ExistsBijection
<1>3. b \in [1..n -> S] /\ IsInjective(b)
  BY <1>2 DEF Bijection, Injection, IsInjective
<1>4. SetToSeq(S) \in [1..n -> S] /\ IsInjective(SetToSeq(S))
  BY <1>3 DEF SetToSeq
<1> DEFINE f == SetToSeq(S)
<1> HIDE DEF f, n
<1>5. f \in [1..n -> S] /\ IsInjective(f)
  BY <1>4 DEF f, n
<1>6. Len(f) = n /\ DOMAIN f = 1..n
  BY <1>1, <1>5
<1>7. \A i, j \in 1..Len(f) : f[i] = f[j] => i = j
  BY <1>5, <1>6 DEF IsInjective
<1> QED BY <1>7 DEF f

\* Of two messages of one sender to one group, the first was sent first.
SentBefore(p, q) ==
  (p.cmd \in MsgCommands /\ q.cmd \in MsgCommands
     /\ p.client = q.client /\ p.group = q.group) => p.n < q.n

Ordered(s) == \A i, j \in 1..Len(s) : i < j => SentBefore(s[i], s[j])

\* The pairs of packets of which this is true.
InOrder(S) == {pq \in S \X S : SentBefore(pq[1], pq[2])}

\* Lemma: Ordered is Strung.
LEMMA OrderedIs ==
  ASSUME NEW S, NEW s \in Seq(S)
  PROVE  Ordered(s) <=> Strung(s, InOrder(S))
<1>1. \A i \in 1..Len(s) : s[i] \in S
  OBVIOUS
<1>2. \A x, y \in S : <<x, y>> \in InOrder(S) <=> SentBefore(x, y)
  BY DEF InOrder
<1> QED BY <1>1, <1>2, Zenon DEF Ordered, Strung

\* The histories of node n that are given out keep their order.
HistoryOrdered(n) ==
  \A g \in AllGroups, s \in Clients : Ordered(history[n][g][s])

\* Lemma: what getMsgs gives is in order, and it is all that is kept.
LEMMA GetMsgsOrdered ==
  ASSUME TypeInv, NEW n \in Nodes, HistoryOrdered(n), NEW g \in AllGroups
  PROVE  /\ Ordered(getMsgs(n, g))
         /\ \A c \in Clients : \A p \in Kept(n, g, c) :
              \E i \in 1..Len(getMsgs(n, g)) : getMsgs(n, g)[i] = p
<1> DEFINE order == SetToSeq(Clients)
           seqs == [i \in 1..Len(order) |-> history[n][g][order[i]]]
           R == InOrder(Msgs)
<1>1. /\ order \in Seq(Clients)
      /\ \A x \in Clients : \E i \in 1..Len(order) : order[i] = x
      /\ \A i, j \in 1..Len(order) : order[i] = order[j] => i = j
  BY TreeAssumption, OrderOf, OrderOnce
<1>2. getMsgs(n, g) = FlattenSeq(seqs)
  BY DEF getMsgs
<1> HIDE DEF order
<1>3. \A i \in 1..Len(order) : order[i] \in Clients
  BY <1>1
<1>4. history[n][g] \in [Clients -> Seq(Msgs)]
  BY TypeInvIs
<1>5. /\ seqs \in Seq(Seq(Msgs)) /\ Len(seqs) = Len(order)
      /\ \A i \in 1..Len(order) : seqs[i] = history[n][g][order[i]]
  <2>1. PICK h \in [Clients -> Seq(Msgs)] : h = history[n][g]
    BY <1>4
  <2>2. /\ Len(order) \in Nat
        /\ \A i \in 1..Len(order) : h[order[i]] \in Seq(Msgs)
    <3>1. Len(order) \in Nat
      BY <1>1
    <3>2. \A x \in Clients : h[x] \in Seq(Msgs)
      OBVIOUS
    <3> QED BY <1>3, <3>1, <3>2, Zenon
  <2>3. seqs = [i \in 1..Len(order) |-> h[order[i]]]
    BY <2>1
  <2> QED BY <2>1, <2>2, <2>3
<1> HIDE DEF seqs, R
<1>6. ASSUME NEW a \in 1..Len(seqs), NEW u \in 1..Len(seqs[a])
      PROVE  /\ seqs[a][u] \in Kept(n, g, order[a]) /\ seqs[a][u].client = order[a]
             /\ seqs[a][u] \in Msgs
  <2>1. seqs[a] \in Seq(Msgs) /\ order[a] \in Clients
        /\ seqs[a] = history[n][g][order[a]]
    BY <1>3, <1>5
  <2>2. seqs[a][u] \in Kept(n, g, order[a]) /\ seqs[a][u] \in Msgs
    BY <2>1 DEF Kept, ToSet
  <2> QED BY <2>1, <2>2, TypeInvIs DEF Kept
<1>7. ASSUME NEW a \in 1..Len(seqs)
      PROVE  Strung(seqs[a], R)
  <2>1. seqs[a] \in Seq(Msgs) /\ order[a] \in Clients
        /\ seqs[a] = history[n][g][order[a]]
    BY <1>3, <1>5
  <2>2. Ordered(seqs[a])
    BY <2>1 DEF HistoryOrdered
  <2> QED BY <2>1, <2>2, OrderedIs DEF R
<1>8. ASSUME NEW a \in 1..Len(seqs), NEW b \in 1..Len(seqs), a < b,
             NEW u \in 1..Len(seqs[a]), NEW v \in 1..Len(seqs[b])
      PROVE  <<seqs[a][u], seqs[b][v]>> \in R
  <2>1. order[a] # order[b]
    BY <1>1, <1>5, <1>8
  <2>2. seqs[a][u].client # seqs[b][v].client
    BY <1>6, <2>1
  <2> QED BY <1>6, <2>2 DEF R, InOrder, SentBefore
<1>9. /\ FlattenSeq(seqs) \in Seq(Msgs) /\ Strung(FlattenSeq(seqs), R)
      /\ Gathers(FlattenSeq(seqs), seqs, Len(seqs))
  BY <1>5, <1>7, <1>8, FlattenStrung
<1>10. ASSUME NEW c \in Clients, NEW p \in Kept(n, g, c)
       PROVE  \E i \in 1..Len(FlattenSeq(seqs)) : FlattenSeq(seqs)[i] = p
  <2>1. PICK a \in 1..Len(order) : order[a] = c
    BY <1>1
  <2>2. seqs[a] = history[n][g][c] /\ a \in 1..Len(seqs) /\ seqs[a] \in Seq(Msgs)
    BY <1>5, <2>1
  <2>3. PICK u \in 1..Len(seqs[a]) : p = seqs[a][u]
    BY <2>2 DEF Kept, ToSet
  <2> QED BY <1>9, <2>2, <2>3 DEF Gathers
<1>11. Ordered(FlattenSeq(seqs))
  BY <1>9, OrderedIs DEF R
<1> QED BY <1>2, <1>10, <1>11

\* Lemma: and so is what getAllMsgs gives.
LEMMA GetAllMsgsOrdered ==
  ASSUME TypeInv, NEW n \in Nodes, HistoryOrdered(n)
  PROVE  /\ Ordered(getAllMsgs(n))
         /\ \A g \in AllGroups, c \in Clients : \A p \in Kept(n, g, c) :
              \E i \in 1..Len(getAllMsgs(n)) : getAllMsgs(n)[i] = p
<1> DEFINE order == SetToSeq(AllGroups)
           seqs == [i \in 1..Len(order) |-> getMsgs(n, order[i])]
           R == InOrder(Msgs)
<1>0. IsFiniteSet(AllGroups)
  BY TreeAssumption, FS_AddElement DEF AllGroups
<1>1. /\ order \in Seq(AllGroups)
      /\ \A x \in AllGroups : \E i \in 1..Len(order) : order[i] = x
      /\ \A i, j \in 1..Len(order) : order[i] = order[j] => i = j
  BY <1>0, OrderOf, OrderOnce
<1>2. getAllMsgs(n) = FlattenSeq(seqs)
  BY DEF getAllMsgs
<1> HIDE DEF order
<1>3. \A i \in 1..Len(order) : order[i] \in AllGroups
  BY <1>1
<1>4. \A g \in AllGroups :
        /\ getMsgs(n, g) \in Seq(Msgs)
        /\ \A i \in 1..Len(getMsgs(n, g)) :
             \E c \in Clients : getMsgs(n, g)[i] \in Kept(n, g, c)
        /\ Ordered(getMsgs(n, g))
        /\ \A c \in Clients : \A p \in Kept(n, g, c) :
             \E i \in 1..Len(getMsgs(n, g)) : getMsgs(n, g)[i] = p
  BY HistoriesAre, GetMsgsOrdered
<1>5. /\ seqs \in Seq(Seq(Msgs)) /\ Len(seqs) = Len(order)
      /\ \A i \in 1..Len(order) : seqs[i] = getMsgs(n, order[i])
  <2>1. PICK h \in [AllGroups -> Seq(Msgs)] : \A g \in AllGroups : h[g] = getMsgs(n, g)
    <3>1. [g \in AllGroups |-> getMsgs(n, g)] \in [AllGroups -> Seq(Msgs)]
      BY <1>4
    <3> QED BY <3>1
  <2>2. /\ Len(order) \in Nat
        /\ \A i \in 1..Len(order) : h[order[i]] \in Seq(Msgs)
    <3>1. Len(order) \in Nat
      BY <1>1
    <3>2. \A x \in AllGroups : h[x] \in Seq(Msgs)
      OBVIOUS
    <3> QED BY <1>3, <3>1, <3>2, Zenon
  <2>3. seqs = [i \in 1..Len(order) |-> h[order[i]]]
    BY <1>3, <2>1
  <2> QED BY <2>2, <2>3, <2>1, <1>3
<1> HIDE DEF seqs, R
<1>6. ASSUME NEW a \in 1..Len(seqs), NEW u \in 1..Len(seqs[a])
      PROVE  seqs[a][u] \in Msgs /\ seqs[a][u].group = order[a]
  <2>1. /\ order[a] \in AllGroups /\ seqs[a] = getMsgs(n, order[a])
        /\ seqs[a] \in Seq(Msgs)
    BY <1>3, <1>5
  <2>2. PICK c \in Clients : seqs[a][u] \in Kept(n, order[a], c)
    BY <1>4, <2>1
  <2>3. seqs[a][u].group = order[a]
    BY <2>1, <2>2, TypeInvIs DEF Kept
  <2> QED BY <2>1, <2>3
<1>7. ASSUME NEW a \in 1..Len(seqs)
      PROVE  Strung(seqs[a], R)
  <2>1. order[a] \in AllGroups /\ seqs[a] = getMsgs(n, order[a])
    BY <1>3, <1>5
  <2> QED BY <1>4, <2>1, OrderedIs DEF R
<1>8. ASSUME NEW a \in 1..Len(seqs), NEW b \in 1..Len(seqs), a < b,
             NEW u \in 1..Len(seqs[a]), NEW v \in 1..Len(seqs[b])
      PROVE  <<seqs[a][u], seqs[b][v]>> \in R
  <2>1. order[a] # order[b]
    BY <1>1, <1>5, <1>8
  <2>2. seqs[a][u].group # seqs[b][v].group
    BY <1>6, <2>1
  <2> QED BY <1>6, <2>2 DEF R, InOrder, SentBefore
<1>9. /\ FlattenSeq(seqs) \in Seq(Msgs) /\ Strung(FlattenSeq(seqs), R)
      /\ Gathers(FlattenSeq(seqs), seqs, Len(seqs))
  BY <1>5, <1>7, <1>8, FlattenStrung
<1>10. ASSUME NEW g \in AllGroups, NEW c \in Clients, NEW p \in Kept(n, g, c)
       PROVE  \E i \in 1..Len(FlattenSeq(seqs)) : FlattenSeq(seqs)[i] = p
  <2>1. PICK a \in 1..Len(order) : order[a] = g
    BY <1>1
  <2>2. seqs[a] = getMsgs(n, g) /\ a \in 1..Len(seqs)
    BY <1>5, <2>1
  <2>3. PICK u \in 1..Len(seqs[a]) : p = seqs[a][u]
    BY <1>4, <2>2
  <2> QED BY <1>9, <2>2, <2>3 DEF Gathers
<1>11. Ordered(FlattenSeq(seqs))
  BY <1>9, OrderedIs DEF R
<1> QED BY <1>2, <1>10, <1>11

----------------------------------------------------------------------------
(* How far the messages of a sender to a group have come *)

Of(p, s, g) == p.cmd \in MsgCommands /\ p.client = s /\ p.group = g

\* The number of the last of them that has passed node x, or that client x, the
\* sender, has sent.
Level(mark, s, x) == IF x \in Nodes THEN mark[x] ELSE sends[s]

\* What a node has in its history it has passed on, and what is on its way to
\* it are messages that have passed the node before and not the node itself ...
KeptUpTo(s, g, mark) ==
  \A n \in Nodes : \A p \in Kept(n, g, s) : 1 <= p.n /\ p.n <= mark[n]
UnderWay(s, g, mark) ==
  \A l \in Links : l[2] \in Nodes =>
    \A i \in 1..Len(queue[l]) : Of(queue[l][i], s, g) =>
      /\ mark[l[2]] < queue[l][i].n
      /\ queue[l][i].n <= Level(mark, s, l[1])

\* ... away from the sender the marks get lower ...
Falling(s, mark) ==
  \A l \in Links : l[2] \in Nodes /\ Away(l, s) => mark[l[2]] <= Level(mark, s, l[1])

\* ... where a node has not said hello nothing has passed ...
NotPassed(s, mark) ==
  \A m \in Children : m \notin secoPPSet[Parent[m]] /\ m \notin Chain[s] => mark[m] = 0

\* ... and what the clients of the root have got has passed the root.
PassedRoot(s, g, mark) ==
  \A c \in Clients : Parent[c] = Root =>
    /\ \A i \in 1..Len(queue[Down(c)]) :
         Of(queue[Down(c)][i], s, g) => queue[Down(c)][i].n <= mark[Root]
    /\ \A i \in 1..Len(got[c]) : Of(got[c][i], s, g) => got[c][i].n <= mark[Root]

Marking(s, g, mark) ==
  /\ mark \in [Nodes -> Nat]
  /\ KeptUpTo(s, g, mark) /\ UnderWay(s, g, mark) /\ Falling(s, mark)
  /\ NotPassed(s, mark) /\ PassedRoot(s, g, mark)

Passing == \A s \in Clients, g \in AllGroups : \E mark : Marking(s, g, mark)

\* The links into nodes and the histories are in order.
InLine == \A l \in Links : l[2] \in Nodes => Ordered(queue[l])
KeptInOrder == \A n \in Nodes : HistoryOrdered(n)

\* A node that has not said hello has no message to read.
Unsent ==
  \A m \in Children : m \notin secoPPSet[Parent[m]] =>
    \A i \in 1..Len(queue[Down(m)]) : queue[Down(m)][i].cmd \notin MsgCommands

\* Lemma: the initial state.
LEMMA PassingInit ==
  ASSUME Init
  PROVE  Passing /\ InLine /\ KeptInOrder /\ Unsent
<1>1. /\ \A l \in Links : queue[l] = <<>>
      /\ \A n \in Nodes, g \in AllGroups, s \in Clients : history[n][g][s] = <<>>
      /\ \A c \in Clients : got[c] = <<>>
      /\ \A s \in Clients : sends[s] = 0
  BY DEF Init
<1>2. Len(<<>>) = 0 /\ 1..Len(<<>>) = {} /\ ToSet(<<>>) = {}
  BY DEF ToSet
<1>3. \A c \in Clients : Down(c) \in Links
  BY ClientEnds, LinksDiffer
<1>4. ASSUME NEW s \in Clients, NEW g \in AllGroups
      PROVE  \E mark : Marking(s, g, mark)
  <2> DEFINE mark == [n \in Nodes |-> 0]
  <2>1. mark \in [Nodes -> Nat] /\ \A n \in Nodes : mark[n] = 0
    OBVIOUS
  <2> HIDE DEF mark
  <2>2. KeptUpTo(s, g, mark)
    BY <1>1, <1>2, Zenon DEF KeptUpTo, Kept
  <2>3. UnderWay(s, g, mark)
    BY <1>1, <1>2, Zenon DEF UnderWay
  <2>4. \A x : Level(mark, s, x) = 0
    BY <1>1, <2>1 DEF Level
  <2>5. Falling(s, mark)
    BY <2>1, <2>4 DEF Falling
  <2>6. NotPassed(s, mark)
    BY <2>1, ChildEnds DEF NotPassed
  <2>7. PassedRoot(s, g, mark)
    BY <1>1, <1>2, <1>3, Zenon DEF PassedRoot
  <2> QED BY <2>1, <2>2, <2>3, <2>5, <2>6, <2>7 DEF Marking
<1>5. InLine /\ KeptInOrder
  BY <1>1, <1>2, Zenon DEF InLine, KeptInOrder, HistoryOrdered, Ordered
<1>6. Unsent
  BY <1>1, <1>2, ChildEnds, LinksDiffer DEF Unsent
<1> QED BY <1>4, <1>5, <1>6 DEF Passing

\* Lemma: a client alone changes what it has sent.
LEMMA SendsStep ==
  ASSUME [Next]_vars
  PROVE  Sending \/ UNCHANGED sends
<1>1. CASE UNCHANGED vars
  BY <1>1 DEF vars, counters
<1>a. \A n, k, p, t : Route(n, k, p, t) => UNCHANGED sends
  BY DEF Route, counters
<1>b. \A n, q, cs, t : Bury(n, q, cs, t) => UNCHANGED sends
  BY DEF Bury, counters
<1>c. \A m : Ended(m) => UNCHANGED sends
  BY DEF Ended, counters
<1>2. ASSUME NEW c \in Clients, ClientLink(c)
      PROVE  UNCHANGED sends
  <2>1. RootJoin(c) \/ KnownJoin(c) \/ JoinStep(c) => UNCHANGED sends
    BY Zenon DEF RootJoin, KnownJoin, JoinStep, JoinReply, JoinHistory, JoinSend,
       counters
  <2>2. DownReply(c) \/ DownForward(c) \/ leaveGroup(c) \/ IgnoreMessage(c)
          => UNCHANGED sends
    BY Zenon DEF DownReply, DownForward, leaveGroup, IgnoreMessage, counters
  <2>3. routeToGroup(c) \/ ClientGone(c) => UNCHANGED sends
    BY <1>a, <1>b, Zenon DEF routeToGroup, ClientGone
  <2> QED BY <1>2, <2>1, <2>2, <2>3, Zenon DEF ClientLink
<1>3. ASSUME NEW m \in Children, ChildLink(m)
      PROVE  UNCHANGED sends
  <2>1. synchronizeNewSeCo(m) \/ DownReply(m) \/ DownForward(m) => UNCHANGED sends
    BY Zenon DEF synchronizeNewSeCo, DownReply, DownForward, counters
  <2>2. routeToGroup(m) \/ DownGone(m) \/ NodeGone(m) => UNCHANGED sends
    BY <1>a, <1>b, Zenon DEF routeToGroup, DownGone, NodeGone
  <2> QED BY <1>3, <2>1, <2>2, Zenon DEF ChildLink
<1>4. ASSUME NEW m \in Children, UpLink(m)
      PROVE  UNCHANGED sends
  <2>1. RouteToGroup(m) \/ UpGone(m) \/ UpNoRoute(m) => UNCHANGED sends
    BY <1>a, <1>b, <1>c, Zenon DEF RouteToGroup, UpGone, UpNoRoute
  <2>2. UpLookup(m) \/ UpReply(m) \/ UpForward(m) => UNCHANGED sends
    BY Zenon DEF UpLookup, UpReply, UpForward, counters
  <2> QED BY <1>4, <2>1, <2>2, Zenon DEF UpLink
<1>5. ASSUME NEW c \in Clients,
             Connect(c) \/ Request(c) \/ ClientReceive(c) \/ Disconnect(c)
      PROVE  UNCHANGED sends
  BY <1>5 DEF Connect, Request, ClientReceive, Disconnect, counters
<1>6. ASSUME NEW m \in Children, NodeStart(m) \/ NodeFail(m)
      PROVE  UNCHANGED sends
  BY <1>6 DEF NodeStart, NodeFail, Ended, counters
<1> QED BY <1>1, <1>2, <1>3, <1>4, <1>5, <1>6 DEF Next, Sending

\* Lemma: the messages of the queues have numbers.
LEMMA NumbersAre ==
  ASSUME TypeInv, NEW l \in Links, NEW i \in 1..Len(queue[l]),
         queue[l][i].cmd \in MsgCommands
  PROVE  queue[l][i] \in Msgs /\ queue[l][i].n \in Nat
<1>1. queue[l] \in Seq(Packets \cup Hellos)
  BY TypeInvIs DEF Queues
<1>2. queue[l][i] \in Packets \cup Hellos
  BY <1>1
<1>3. queue[l][i] \notin Hellos
  BY PacketKinds DEF MsgCommands
<1> QED BY <1>2, <1>3, PacketKinds

\* Lemma: a step that routes no message keeps the marks, if what is sent has
\* passed the nodes that send it.
LEMMA MarkingStays ==
  ASSUME TypeInv, NEW s \in Clients, NEW g \in AllGroups,
         NEW mark, Marking(s, g, mark),
         sends[s] \in Nat, sends'[s] \in Nat, sends[s] <= sends'[s],
         NEW links, NEW pkts \in Seq(Cargoes), Flows(links, pkts),
         \A n \in Nodes : Kept(n, g, s)' \subseteq Kept(n, g, s),
         \A n \in Nodes : secoPPSet[n] \subseteq secoPPSet'[n],
         \A l \in Links, u \in 1..Len(pkts) : l \in links /\ Of(pkts[u], s, g) =>
           /\ l[2] \in Nodes => /\ mark[l[2]] < pkts[u].n
                                /\ pkts[u].n <= Level(mark, s, l[1])'
           /\ \A c \in Clients : l = Down(c) /\ Parent[c] = Root =>
                pkts[u].n <= mark[Root],
         \A c \in Clients : \A i \in 1..Len(got'[c]) :
           \/ \E j \in 1..Len(got[c]) : got'[c][i] = got[c][j]
           \/ \E j \in 1..Len(queue[Down(c)]) : got'[c][i] = queue[Down(c)][j]
  PROVE  Marking(s, g, mark)'
<1>0. /\ mark \in [Nodes -> Nat]
      /\ KeptUpTo(s, g, mark) /\ UnderWay(s, g, mark) /\ Falling(s, mark)
      /\ NotPassed(s, mark) /\ PassedRoot(s, g, mark)
  BY DEF Marking
<1>1. \A x : /\ Level(mark, s, x) = IF x \in Nodes THEN mark[x] ELSE sends[s]
             /\ Level(mark, s, x)' = IF x \in Nodes THEN mark[x] ELSE sends'[s]
  BY DEF Level
<1>2. \A x : /\ Level(mark, s, x) \in Nat /\ Level(mark, s, x)' \in Nat
             /\ Level(mark, s, x) <= Level(mark, s, x)'
  <2> SUFFICES ASSUME NEW x
               PROVE  /\ Level(mark, s, x) \in Nat /\ Level(mark, s, x)' \in Nat
                      /\ Level(mark, s, x) <= Level(mark, s, x)'
    OBVIOUS
  <2>1. CASE x \in Nodes
    <3>1. mark[x] \in Nat /\ Level(mark, s, x) = mark[x] /\ Level(mark, s, x)' = mark[x]
      BY <1>0, <1>1, <2>1
    <3> QED BY <3>1
  <2>2. CASE x \notin Nodes
    <3>1. Level(mark, s, x) = sends[s] /\ Level(mark, s, x)' = sends'[s]
      BY <1>1, <2>2
    <3> QED BY <3>1
  <2> QED BY <2>1, <2>2
<1>3. KeptUpTo(s, g, mark)'
  BY <1>0 DEF KeptUpTo
<1>4. ASSUME NEW l \in Links, l[2] \in Nodes, NEW i \in 1..Len(queue'[l]),
             Of(queue'[l][i], s, g)
      PROVE  /\ mark[l[2]] < queue'[l][i].n
             /\ queue'[l][i].n <= Level(mark, s, l[1])'
  <2>1. ASSUME NEW k \in 1..Len(queue[l]), queue'[l][i] = queue[l][k]
        PROVE  /\ mark[l[2]] < queue'[l][i].n
               /\ queue'[l][i].n <= Level(mark, s, l[1])'
    <3>1. /\ mark[l[2]] < queue[l][k].n
          /\ queue[l][k].n <= Level(mark, s, l[1])
      BY <1>0, <1>4, <2>1 DEF UnderWay
    <3>2. queue[l][k].n \in Nat
      BY <1>4, <2>1, NumbersAre DEF Of
    <3>3. queue[l][k].n <= Level(mark, s, l[1])'
      BY <1>2, <3>1, <3>2
    <3> QED BY <2>1, <3>1, <3>3
  <2>2. ASSUME l \in links, NEW u \in 1..Len(pkts), queue'[l][i] = pkts[u]
        PROVE  /\ mark[l[2]] < queue'[l][i].n
               /\ queue'[l][i].n <= Level(mark, s, l[1])'
    BY <1>4, <2>2
  <2> QED BY <2>1, <2>2, FlowHolds
<1>5. UnderWay(s, g, mark)'
  BY <1>4 DEF UnderWay, Of
<1>6. Falling(s, mark)'
  <2> SUFFICES ASSUME NEW l \in Links, l[2] \in Nodes, Away(l, s)
               PROVE  mark[l[2]] <= Level(mark, s, l[1])'
    BY DEF Falling, Away
  <2>1. mark[l[2]] <= Level(mark, s, l[1]) /\ mark[l[2]] \in Nat
    BY <1>0 DEF Falling
  <2>2. /\ Level(mark, s, l[1]) \in Nat /\ Level(mark, s, l[1])' \in Nat
        /\ Level(mark, s, l[1]) <= Level(mark, s, l[1])'
    BY <1>2
  <2> QED BY <2>1, <2>2
<1>7. NotPassed(s, mark)'
  <2>1. \A m \in Children : m \notin secoPPSet'[Parent[m]] => m \notin secoPPSet[Parent[m]]
    BY ChildEnds
  <2> QED BY <1>0, <2>1 DEF NotPassed
<1>8. PassedRoot(s, g, mark)'
  <2>1. ASSUME NEW c \in Clients, Parent[c] = Root, NEW i \in 1..Len(queue'[Down(c)]),
               Of(queue'[Down(c)][i], s, g)
        PROVE  queue'[Down(c)][i].n <= mark[Root]
    <3>1. Down(c) \in Links
      BY ClientEnds, LinksDiffer
    <3>2. ASSUME NEW k \in 1..Len(queue[Down(c)]), queue'[Down(c)][i] = queue[Down(c)][k]
          PROVE  queue'[Down(c)][i].n <= mark[Root]
      BY <1>0, <2>1, <3>2 DEF PassedRoot
    <3>3. ASSUME Down(c) \in links, NEW u \in 1..Len(pkts),
                 queue'[Down(c)][i] = pkts[u]
          PROVE  queue'[Down(c)][i].n <= mark[Root]
      BY <2>1, <3>1, <3>3
    <3> QED BY <3>1, <3>2, <3>3, FlowHolds
  <2>2. ASSUME NEW c \in Clients, Parent[c] = Root, NEW i \in 1..Len(got'[c]),
               Of(got'[c][i], s, g)
        PROVE  got'[c][i].n <= mark[Root]
    BY <1>0, <2>2 DEF PassedRoot
  <2> QED BY <2>1, <2>2 DEF PassedRoot, Of
<1> QED BY <1>0, <1>3, <1>5, <1>6, <1>7, <1>8 DEF Marking

----------------------------------------------------------------------------
(* A message is routed *)

\* Node n reads p in link k and sends it to targets: to its own members, and to
\* all neighbours away from the sender.
RoutesFrom(n, k, p, targets) ==
  /\ k[2] = n /\ status[n] = "up"
  /\ 1 \in 1..Len(queue[k]) /\ queue[k] # <<>> /\ p = queue[k][1]
  /\ Route(n, k, p, targets)
  /\ Away(k, p.client)
  /\ \A l \in targets : l[1] = n /\ Away(l, p.client)
  /\ \A m \in Children : Down(m) \in targets => m \in secoPPSet[n]
  /\ \A c \in members[n][p.group] \cap local[n] : Down(c) \in targets
  /\ \A y \in secoPPSet[n] : Away(Down(y), p.client) => Down(y) \in targets
  /\ n # Root /\ Away(Up(n), p.client) => Up(n) \in targets

\* Lemma: every message that is routed is so.
LEMMA RoutingIs ==
  ASSUME TypeInv, Placed, Outward, Routing
  PROVE  \E n \in Nodes, k \in Links, p \in Msgs : \E targets :
           RoutesFrom(n, k, p, targets)
<1>1. ASSUME NEW x \in Ends, routeToGroup(x)
      PROVE  \E n \in Nodes, k \in Links, p \in Msgs : \E targets :
               RoutesFrom(n, k, p, targets)
  <2>1. PICK p \in Msgs :
          /\ p = queue[Up(x)][1] /\ 1 \in 1..Len(queue[Up(x)])
          /\ Route(Parent[x], Up(x), p, DownTargets(Parent[x], x, p.group))
    BY <1>1, DownRouteTypes
  <2>2. PICK n \in Nodes : n = Parent[x]
    BY TreeAssumption
  <2>3. PICK k \in Links : k = Up(x)
    BY LinksDiffer
  <2>4. PICK targets : targets = DownTargets(n, x, p.group)
    OBVIOUS
  <2>5. k[2] = n /\ status[n] = "up" /\ queue[k] # <<>>
    BY <1>1, <2>2, <2>3, ReadsIs, LinkEnds DEF routeToGroup
  <2>6. p = queue[k][1] /\ 1 \in 1..Len(queue[k]) /\ Route(n, k, p, targets)
    BY <2>1, <2>2, <2>3, <2>4
  <2>7. p.client \in Clients /\ Bound(p)
    BY PacketKinds DEF Bound
  <2>8. x \in Chain[p.client] /\ Away(k, p.client)
    BY <2>1, <2>3, <2>7, ReadUpAway, UpAway
  <2>9. \A l \in targets : l[1] = n /\ Away(l, p.client)
    BY <2>2, <2>4, <2>7, <2>8, DownTargetsAway
  <2>10. \A m \in Children : Down(m) \in targets => m \in secoPPSet[n]
    BY <2>4, TargetsGreeted
  <2>11. \A c \in members[n][p.group] \cap local[n] : Down(c) \in targets
    BY <2>4 DEF DownTargets
  <2>12. /\ n # Root => Up(n) \in targets
         /\ \A y \in secoPPSet[n] : y \notin Chain[p.client] => Down(y) \in targets
    BY <2>4, <2>8, TargetsCover
  <2>13. \A y \in secoPPSet[n] : Away(Down(y), p.client) => y \notin Chain[p.client]
    BY TypeInvIs, ChildEnds DEF Away
  <2> QED BY <2>5, <2>6, <2>8, <2>9, <2>10, <2>11, <2>12, <2>13 DEF RoutesFrom
<1>2. ASSUME NEW m \in Children, RouteToGroup(m)
      PROVE  \E n \in Nodes, k \in Links, p \in Msgs : \E targets :
               RoutesFrom(n, k, p, targets)
  <2>1. PICK p \in Msgs :
          /\ p = queue[Down(m)][1] /\ 1 \in 1..Len(queue[Down(m)])
          /\ Route(m, Down(m), p, UpTargets(m, p.group))
    BY <1>2, UpRouteTypes
  <2>2. m \in Nodes /\ m \in Ends /\ m # Root
    BY ChildEnds
  <2>3. PICK k \in Links : k = Down(m)
    BY <2>2, LinksDiffer
  <2>4. PICK targets : targets = UpTargets(m, p.group)
    OBVIOUS
  <2>5. k[2] = m /\ status[m] = "up" /\ queue[k] # <<>>
    BY <1>2, <2>3, HearsIs, LinkEnds DEF RouteToGroup
  <2>6. p = queue[k][1] /\ 1 \in 1..Len(queue[k]) /\ Route(m, k, p, targets)
    BY <2>1, <2>3, <2>4
  <2>7. p.client \in Clients /\ Bound(p)
    BY PacketKinds DEF Bound
  <2>8. m \notin Chain[p.client] /\ Away(k, p.client)
    BY <2>1, <2>2, <2>3, <2>7, ReadDownAway, DownChildAway
  <2>9. \A l \in targets : l[1] = m /\ Away(l, p.client)
    BY <2>4, <2>7, <2>8, UpTargetsAway
  <2>10. \A y \in Children : Down(y) \in targets => y \in secoPPSet[m]
    BY <2>2, <2>4, TargetsGreeted
  <2>11. \A c \in members[m][p.group] \cap local[m] : Down(c) \in targets
    BY <2>4 DEF UpTargets
  <2>12. \A y \in secoPPSet[m] : Down(y) \in targets
    BY <2>4 DEF UpTargets
  <2>13. ~Away(Up(m), p.client)
    BY <2>2, <2>8 DEF Away
  <2> QED BY <2>2, <2>5, <2>6, <2>8, <2>9, <2>10, <2>11, <2>12, <2>13
         DEF RoutesFrom
<1> QED BY <1>1, <1>2 DEF Routing

\* What the history of the node loses by a SYNC_MSG.
Cleans(n, p) == IF p.cmd = "SYNC_MSG" THEN Kept(n, p.group, p.client) ELSE {}

\* Lemma: what the step does.
LEMMA RoutesDo ==
  ASSUME TypeInv, NEW n \in Nodes, NEW k \in Links, NEW p \in Msgs, NEW targets,
         RoutesFrom(n, k, p, targets)
  PROVE  /\ TypeInv'
         /\ UNCHANGED <<status, exited, conn, lookup, secoPPSet, myClients, local,
                        routes, known, members, got, sends>>
         /\ join' = JoinWithout(n, Cleans(n, p))
         /\ \A x \in Nodes, g \in AllGroups, s \in Clients : history'[x][g][s] =
              IF p.cmd # "NO_HISTORY_MSG" /\ x = n /\ g = p.group /\ s = p.client
              THEN IF p.cmd = "SYNC_MSG" THEN <<p>>
                   ELSE Append(history[x][g][s], p)
              ELSE history[x][g][s]
         /\ \E q \in Queues :
              /\ \A l \in Links : q[l] = IF l = k THEN Tail(queue[k]) ELSE queue[l]
              /\ FlowsFrom(q, targets, <<p>>)
              /\ \E r \in Queues : \A l \in Links :
                   /\ Spares(r[l], q[l], Cleans(n, p))
                   /\ l[1] # n => r[l] = q[l]
                   /\ queue'[l] = IF l \in targets /\ Open(l) THEN r[l] \o <<p>>
                                  ELSE r[l]
<1>1. Route(n, k, p, targets) /\ queue[k] # <<>>
  BY DEF RoutesFrom
<1>2. TypeInv'
  BY <1>1, RouteTypes
<1>3. p.group \in AllGroups /\ p.client \in Clients /\ <<p>> \in Seq(Packets)
  BY PacketKinds DEF AllGroups
<1>4. UNCHANGED <<status, exited, conn, lookup, secoPPSet, myClients, local,
                  routes, known, members, got, sends>>
  BY <1>1 DEF Route, counters
<1>5. join' = JoinWithout(n, Cleans(n, p))
  BY <1>1 DEF Route, Cleans
<1>6. PICK r \in Deprecations(Taken(k), n, Cleans(n, p)) :
        queue' = Sent(r, targets, <<p>>)
  BY <1>1 DEF Route, Cleans
<1>7. PICK q : q = Taken(k)
  OBVIOUS
<1>8. q \in Queues /\ \A l \in Links : q[l] = IF l = k THEN Tail(queue[k]) ELSE queue[l]
  BY <1>1, <1>7, TypeInvIs, TakenIs
<1>9. r \in Deprecations(q, n, Cleans(n, p))
  BY <1>6, <1>7
<1>10. r \in Queues
  BY <1>8, <1>9, DeprecationsThin
<1>11. \A l \in Links : Spares(r[l], q[l], Cleans(n, p)) /\ (l[1] # n => r[l] = q[l])
  BY <1>8, <1>9, SparesDeprecated
<1>12. \A l \in Links : queue'[l] = IF l \in targets /\ Open(l) THEN r[l] \o <<p>>
                                    ELSE r[l]
  BY <1>3, <1>6, <1>10, SentIs
<1>13. FlowsFrom(q, targets, <<p>>)
  <2>1. \A l \in Links : Thins(q[l], queue[l])
    BY <1>1, <1>7, TypeInvIs, TakenThins
  <2> QED BY <1>3, <1>6, <1>8, <1>9, <2>1, TypeInvIs, FlowsDeprecated
<1>14. ASSUME NEW x \in Nodes, NEW g \in AllGroups, NEW s \in Clients
       PROVE  history'[x][g][s] =
              IF p.cmd # "NO_HISTORY_MSG" /\ x = n /\ g = p.group /\ s = p.client
              THEN IF p.cmd = "SYNC_MSG" THEN <<p>>
                   ELSE Append(history[x][g][s], p)
              ELSE history[x][g][s]
  <2>0. PICK old : old = history[n][p.group][p.client]
    OBVIOUS
  <2>a. PICK k2 : k2 = IF p.cmd = "SYNC_MSG" THEN <<p>> ELSE Append(old, p)
    OBVIOUS
  <2>1. CASE p.cmd = "NO_HISTORY_MSG"
    <3>1. history' = history
      BY <1>1, <2>1 DEF Route
    <3> QED BY <2>1, <3>1
  <2>2. CASE p.cmd # "NO_HISTORY_MSG"
    <3>1. history' = [history EXCEPT ![n][p.group][p.client] = k2]
      BY <1>1, <2>0, <2>2, <2>a DEF Route
    <3>2. history \in [Nodes -> [AllGroups -> [Clients -> Seq(Msgs)]]]
      BY TypeInvIs
    <3>3. history'[x] = IF x = n
            THEN [history[n] EXCEPT ![p.group][p.client] = k2] ELSE history[x]
      BY <3>1, <3>2
    <3>4. history[n] \in [AllGroups -> [Clients -> Seq(Msgs)]]
      BY <3>2
    <3>5. [history[n] EXCEPT ![p.group][p.client] = k2][g] = IF g = p.group
            THEN [history[n][g] EXCEPT ![p.client] = k2] ELSE history[n][g]
      BY <1>3, <3>4
    <3>6. history[n][g] \in [Clients -> Seq(Msgs)]
      BY <3>4
    <3>7. [history[n][g] EXCEPT ![p.client] = k2][s] =
            IF s = p.client THEN k2 ELSE history[n][g][s]
      BY <1>3, <3>6
    <3>8. history'[x][g][s] = IF x = n /\ g = p.group /\ s = p.client THEN k2
                              ELSE history[x][g][s]
      BY <3>3, <3>5, <3>7, Zenon
    <3> QED BY <2>0, <2>2, <2>a, <3>8
  <2> QED BY <2>1, <2>2
<1> QED BY <1>2, <1>4, <1>5, <1>8, <1>10, <1>11, <1>12, <1>13, <1>14

\* Lemma: what is left to be read, and what was there.
LEMMA RoutesPlaces ==
  ASSUME TypeInv, NEW n \in Nodes, NEW k \in Links, NEW p \in Msgs, NEW targets,
         RoutesFrom(n, k, p, targets), NEW l \in Links, NEW i \in 1..Len(queue'[l])
  PROVE  \/ /\ l = k
            /\ \E j \in 2..Len(queue[l]) : queue'[l][i] = queue[l][j]
         \/ /\ l # k
            /\ \E j \in 1..Len(queue[l]) : queue'[l][i] = queue[l][j]
         \/ l \in targets /\ queue'[l][i] = p
<1>0. <<p>> \in Seq(Cargoes) /\ Len(<<p>>) = 1 /\ <<p>>[1] = p
  BY CargoSeqs
<1>2. PICK pkts \in Seq(Cargoes) : pkts = <<p>> /\ Len(pkts) = 1 /\ pkts[1] = p
  BY <1>0
<1>1. PICK q \in Queues :
        /\ \A h \in Links : q[h] = IF h = k THEN Tail(queue[k]) ELSE queue[h]
        /\ FlowsFrom(q, targets, pkts)
  BY <1>2, RoutesDo
<1>3. PICK at \in [1..Len(queue'[l]) -> Nat] :
        /\ \A a, j \in 1..Len(queue'[l]) : a < j => at[a] < at[j]
        /\ \A j \in 1..Len(queue'[l]) :
             \/ at[j] \in 1..Len(q[l]) /\ queue'[l][j] = q[l][at[j]]
             \/ /\ l \in targets /\ Open(l)
                /\ \E u \in 1..Len(pkts) :
                     at[j] = Len(q[l]) + u /\ queue'[l][j] = pkts[u]
  BY <1>1, FlowPlaces
<1>4. CASE l \in targets /\ \E u \in 1..Len(pkts) : queue'[l][i] = pkts[u]
  BY <1>2, <1>4
<1>5. ASSUME at[i] \in 1..Len(q[l]), queue'[l][i] = q[l][at[i]], l # k
      PROVE  \E j \in 1..Len(queue[l]) : queue'[l][i] = queue[l][j]
  BY <1>1, <1>5
<1>6. ASSUME at[i] \in 1..Len(q[l]), queue'[l][i] = q[l][at[i]], l = k
      PROVE  \E j \in 2..Len(queue[l]) : queue'[l][i] = queue[l][j]
  <2>1. queue[k] \in Seq(Cargoes) /\ queue[k] # <<>> /\ q[k] = Tail(queue[k])
    BY <1>1, TypeInvIs DEF Queues, Cargoes, RoutesFrom
  <2>2. PICK s \in Seq(Cargoes) : s = queue[k]
    BY <2>1
  <2>3. PICK j \in 1..Len(Tail(s)) : j = at[i]
    BY <1>6, <2>1, <2>2
  <2>4. Tail(s)[j] = s[j + 1] /\ j + 1 \in 2..Len(s)
    BY <2>1, <2>2
  <2>5. queue'[l][i] = s[j + 1]
    BY <1>6, <2>1, <2>2, <2>3, <2>4
  <2> QED BY <1>6, <2>2, <2>4, <2>5
<1> QED BY <1>3, <1>4, <1>5, <1>6

\* Lemma: the link of a message that is routed leads away from a node of a
\* lower mark, from which others come over other links.
LEMMA RoutesMark ==
  ASSUME TypeInv, TypeInv', Outward, InLine, Unsent, NEW s \in Clients,
         NEW g \in AllGroups, NEW mark, Marking(s, g, mark),
         NEW n \in Nodes, NEW k \in Links, NEW p \in Msgs, NEW targets,
         RoutesFrom(n, k, p, targets), Of(p, s, g)
  PROVE  /\ p.n \in Nat /\ mark[n] < p.n /\ p.n <= Level(mark, s, k[1])
         /\ k[1] # n
         /\ \A l \in Links : l[2] = n /\ Away(l, s) => l = k
         /\ n \in Children => n \in secoPPSet[Parent[n]] \/ n \in Chain[s]
<1>1. /\ k[2] = n /\ 1 \in 1..Len(queue[k]) /\ p = queue[k][1]
      /\ Away(k, s)
  BY DEF RoutesFrom, Of
<1>2. p.n \in Nat
  BY PacketKinds
<1>3. mark[n] < p.n /\ p.n <= Level(mark, s, k[1])
  BY <1>1 DEF Marking, UnderWay
<1>4. k[1] # n
  <2>1. mark[n] \in Nat
    BY DEF Marking
  <2>2. Level(mark, s, n) = mark[n]
    BY DEF Level
  <2> QED BY <1>2, <1>3, <2>1, <2>2
<1>5. \A l \in Links : l[2] = n /\ Away(l, s) => l = k
  BY <1>1, OneLinkAway
<1>6. ASSUME n \in Children, n \notin Chain[s]
      PROVE  n \in secoPPSet[Parent[n]]
  <2>1. Down(n) \in Links /\ Down(n)[2] = n /\ Away(Down(n), s)
    BY <1>6, ChildEnds, LinksDiffer, LinkEnds, DownChildAway
  <2>2. k = Down(n)
    BY <1>5, <2>1
  <2>3. queue[k][1].cmd \in MsgCommands
    BY <1>1 DEF Of
  <2> QED BY <1>1, <1>6, <2>2, <2>3 DEF Unsent
<1> QED BY <1>2, <1>3, <1>4, <1>5, <1>6

\* Lemma: the node that routes a message has its number as its mark then.
LEMMA MarkingRoutesOne ==
  ASSUME TypeInv, TypeInv', Outward, InLine, Unsent, NEW s \in Clients,
         NEW g \in AllGroups, NEW mark, Marking(s, g, mark),
         NEW n \in Nodes, NEW k \in Links, NEW p \in Msgs, NEW targets,
         RoutesFrom(n, k, p, targets), Of(p, s, g),
         NEW m2, m2 = [mark EXCEPT ![n] = p.n]
  PROVE  Marking(s, g, m2)'
<1>0. /\ mark \in [Nodes -> Nat]
      /\ KeptUpTo(s, g, mark) /\ UnderWay(s, g, mark) /\ Falling(s, mark)
      /\ NotPassed(s, mark) /\ PassedRoot(s, g, mark)
  BY DEF Marking
<1>1. /\ k[2] = n /\ 1 \in 1..Len(queue[k]) /\ p = queue[k][1]
      /\ \A l \in targets : l[1] = n /\ Away(l, s)
      /\ \A m \in Children : Down(m) \in targets => m \in secoPPSet[n]
  BY DEF RoutesFrom, Of
<1>2. /\ p.n \in Nat /\ mark[n] < p.n /\ p.n <= Level(mark, s, k[1])
      /\ k[1] # n
      /\ \A l \in Links : l[2] = n /\ Away(l, s) => l = k
      /\ n \in Children => n \in secoPPSet[Parent[n]] \/ n \in Chain[s]
  BY RoutesMark
<1>3. /\ m2 \in [Nodes -> Nat]
      /\ \A x \in Nodes : m2[x] = IF x = n THEN p.n ELSE mark[x]
      /\ \A x \in Nodes : mark[x] \in Nat /\ m2[x] \in Nat /\ mark[x] <= m2[x]
  BY <1>0, <1>2
<1>4. sends' = sends /\ sends[s] \in Nat /\ got' = got /\ secoPPSet' = secoPPSet
  BY RoutesDo, TypeInvIs
<1>5. \A x : /\ Level(mark, s, x) = IF x \in Nodes THEN mark[x] ELSE sends[s]
             /\ Level(m2, s, x)' = IF x \in Nodes THEN m2[x] ELSE sends[s]
             /\ Level(mark, s, x) \in Nat /\ Level(m2, s, x)' \in Nat
             /\ Level(mark, s, x) <= Level(m2, s, x)'
  BY <1>3, <1>4 DEF Level
<1>a. ASSUME NEW a \in Nat, NEW x, a <= Level(mark, s, x)
      PROVE  a <= Level(m2, s, x)'
  <2>1. PICK b \in Nat, c \in Nat : b = Level(mark, s, x) /\ c = Level(m2, s, x)'
    BY <1>5
  <2>2. a <= b /\ b <= c
    BY <1>5, <1>a, <2>1
  <2>3. a <= c
    BY <2>2
  <2> QED BY <2>1, <2>3
<1>6. KeptUpTo(s, g, m2)'
  <2> SUFFICES ASSUME NEW x \in Nodes, NEW e \in Kept(x, g, s)'
               PROVE  1 <= e.n /\ e.n <= m2[x]
    BY DEF KeptUpTo
  <2>1. e.n \in Nat
    <3>1. history'[x][g][s] \in Seq(Msgs)
      BY DEF TypeInv, TypeOK
    <3>2. e \in ToSet(history'[x][g][s])
      BY DEF Kept
    <3>3. e \in Msgs
      BY <3>1, <3>2 DEF ToSet
    <3> QED BY <3>3, PacketKinds
  <2>2. ASSUME e \in Kept(x, g, s)
        PROVE  1 <= e.n /\ e.n <= m2[x]
    <3>1. 1 <= e.n /\ e.n <= mark[x]
      BY <1>0, <2>2 DEF KeptUpTo
    <3> QED BY <1>3, <2>1, <3>1
  <2>3. ASSUME x = n, e = p
        PROVE  1 <= e.n /\ e.n <= m2[x]
    BY <1>2, <1>3, <2>3
  <2>4. e \in Kept(x, g, s) \/ (x = n /\ e = p)
    <3>1. history[x][g][s] \in Seq(Msgs)
      BY TypeInvIs
    <3>a. history'[x][g][s] =
              IF p.cmd # "NO_HISTORY_MSG" /\ x = n /\ g = p.group /\ s = p.client
              THEN IF p.cmd = "SYNC_MSG" THEN <<p>>
                   ELSE Append(history[x][g][s], p)
              ELSE history[x][g][s]
      BY RoutesDo
    <3>2. \/ history'[x][g][s] = history[x][g][s]
          \/ x = n /\ history'[x][g][s] = <<p>>
          \/ x = n /\ history'[x][g][s] = Append(history[x][g][s], p)
      BY <3>a, Zenon
    <3>5. e \in ToSet(history'[x][g][s])
      BY DEF Kept
    <3>3. ToSet(<<p>>) = {p}
      BY DEF ToSet
    <3>4. ToSet(Append(history[x][g][s], p)) = ToSet(history[x][g][s]) \cup {p}
      BY <3>1, AppendHolds
    <3>6. CASE history'[x][g][s] = history[x][g][s]
      BY <3>5, <3>6 DEF Kept
    <3>7. CASE x = n /\ history'[x][g][s] = <<p>>
      BY <3>3, <3>5, <3>7
    <3>8. CASE x = n /\ history'[x][g][s] = Append(history[x][g][s], p)
      BY <3>4, <3>5, <3>8 DEF Kept
    <3> QED BY <3>2, <3>6, <3>7, <3>8
  <2> QED BY <2>2, <2>3, <2>4
<1>7. ASSUME NEW l \in Links, l[2] \in Nodes, NEW i \in 1..Len(queue'[l]),
             Of(queue'[l][i], s, g)
      PROVE  /\ m2[l[2]] < queue'[l][i].n
             /\ queue'[l][i].n <= Level(m2, s, l[1])'
  <2>1. ASSUME NEW j \in 1..Len(queue[l]), queue'[l][i] = queue[l][j]
        PROVE  /\ queue[l][j].n \in Nat /\ mark[l[2]] < queue[l][j].n
               /\ queue[l][j].n <= Level(m2, s, l[1])'
               /\ Away(l, s)
    <3>1. /\ mark[l[2]] < queue[l][j].n
          /\ queue[l][j].n <= Level(mark, s, l[1])
      BY <1>0, <1>7, <2>1 DEF UnderWay
    <3>2. queue[l][j].n \in Nat
      BY <1>7, <2>1, NumbersAre DEF Of
    <3>3. queue[l][j].n <= Level(m2, s, l[1])'
      BY <1>a, <3>1, <3>2
    <3>4. Away(l, s)
      BY <1>7, <2>1 DEF Of, Outward, Bound
    <3> QED BY <3>1, <3>2, <3>3, <3>4
  <2>2. CASE l = k /\ \E j \in 2..Len(queue[l]) : queue'[l][i] = queue[l][j]
    <3>1. PICK j \in 2..Len(queue[l]) : queue'[l][i] = queue[l][j]
      BY <2>2
    <3>2. j \in 1..Len(queue[l]) /\ 1 < j
      OBVIOUS
    <3>3. SentBefore(queue[k][1], queue[k][j])
      BY <1>1, <1>7, <2>2, <3>2 DEF InLine, Ordered
    <3>4. p.n < queue[l][j].n
      BY <1>1, <1>7, <2>2, <3>1, <3>3 DEF SentBefore, Of
    <3> QED BY <1>1, <1>3, <2>1, <2>2, <3>1, <3>2, <3>4
  <2>3. CASE l # k /\ \E j \in 1..Len(queue[l]) : queue'[l][i] = queue[l][j]
    <3>1. PICK j \in 1..Len(queue[l]) : queue'[l][i] = queue[l][j]
      BY <2>3
    <3>2. l[2] # n
      BY <1>2, <2>1, <2>3, <3>1
    <3>3. m2[l[2]] = mark[l[2]]
      BY <1>3, <1>7, <3>2
    <3> QED BY <2>1, <3>1, <3>3
  <2>4. CASE l \in targets /\ queue'[l][i] = p
    <3>1. l[1] = n /\ Away(l, s)
      BY <1>1, <2>4
    <3>2. l[2] # n
      BY <1>2, <3>1
    <3>3. m2[l[2]] = mark[l[2]] /\ Level(mark, s, n) = mark[n]
          /\ Level(m2, s, n)' = p.n
      BY <1>3, <1>5, <1>7, <3>2
    <3>4. mark[l[2]] <= mark[n]
      BY <1>0, <1>7, <3>1, <3>3 DEF Falling
    <3>5. mark[l[2]] \in Nat /\ mark[n] \in Nat
      BY <1>3, <1>7
    <3>6. mark[l[2]] < p.n
      BY <1>2, <3>4, <3>5
    <3> QED BY <1>2, <2>4, <3>1, <3>3, <3>6
  <2> QED BY <2>2, <2>3, <2>4, RoutesPlaces
<1>8. UnderWay(s, g, m2)'
  BY <1>7 DEF UnderWay, Of
<1>9. Falling(s, m2)'
  <2> SUFFICES ASSUME NEW l \in Links, l[2] \in Nodes, Away(l, s)
               PROVE  m2[l[2]] <= Level(m2, s, l[1])'
    BY DEF Falling, Away
  <2>1. CASE l[2] = n
    <3>1. l = k /\ m2[l[2]] = p.n
      BY <1>2, <1>3, <2>1
    <3>2. p.n <= Level(mark, s, l[1])
      BY <1>2, <3>1
    <3> QED BY <1>2, <1>a, <3>1, <3>2
  <2>2. CASE l[2] # n
    <3>1. m2[l[2]] = mark[l[2]] /\ mark[l[2]] \in Nat
      BY <1>3, <2>2
    <3>2. mark[l[2]] <= Level(mark, s, l[1])
      BY <1>0 DEF Falling
    <3> QED BY <1>a, <3>1, <3>2
  <2> QED BY <2>1, <2>2
<1>10. NotPassed(s, m2)'
  BY <1>0, <1>2, <1>3, <1>4, ChildEnds DEF NotPassed
<1>11. PassedRoot(s, g, m2)'
  <2>0. Root \in Nodes
    BY DEF Nodes
  <2>1. ASSUME NEW c \in Clients, Parent[c] = Root, NEW i \in 1..Len(queue'[Down(c)]),
               Of(queue'[Down(c)][i], s, g)
        PROVE  queue'[Down(c)][i].n <= m2[Root]
    <3>1. Down(c) \in Links /\ Down(c)[1] = Root
      BY <2>1, ClientEnds, LinksDiffer, LinkEnds
    <3>2. ASSUME NEW j \in 1..Len(queue[Down(c)]), queue'[Down(c)][i] = queue[Down(c)][j]
          PROVE  queue'[Down(c)][i].n <= m2[Root]
      <4>1. queue[Down(c)][j].n <= mark[Root]
        BY <1>0, <2>1, <3>2 DEF PassedRoot
      <4>2. queue[Down(c)][j].n \in Nat
        BY <2>1, <3>1, <3>2, NumbersAre DEF Of
      <4> QED BY <1>3, <2>0, <3>2, <4>1, <4>2
    <3>3. ASSUME Down(c) \in targets, queue'[Down(c)][i] = p
          PROVE  queue'[Down(c)][i].n <= m2[Root]
      <4>1. n = Root
        BY <1>1, <3>1, <3>3
      <4> QED BY <1>2, <1>3, <2>0, <3>3, <4>1
    <3>4. \A j \in 2..Len(queue[Down(c)]) : j \in 1..Len(queue[Down(c)])
      OBVIOUS
    <3> QED BY <3>1, <3>2, <3>3, <3>4, RoutesPlaces
  <2>2. ASSUME NEW c \in Clients, Parent[c] = Root, NEW i \in 1..Len(got[c]),
               Of(got[c][i], s, g)
        PROVE  got[c][i].n <= m2[Root]
    <3>1. got[c][i].n <= mark[Root]
      BY <1>0, <2>2 DEF PassedRoot
    <3>2. got[c][i].n \in Nat
      <4>1. got[c][i] \in Packets
        BY TypeInvIs
      <4> QED BY <2>2, <4>1, PacketKinds DEF Of
    <3> QED BY <1>3, <2>0, <3>1, <3>2
  <2> QED BY <1>4, <2>1, <2>2 DEF PassedRoot, Of
<1> QED BY <1>3, <1>6, <1>8, <1>9, <1>10, <1>11 DEF Marking

----------------------------------------------------------------------------
(* The order in the links and the histories *)

\* Lemma: what is thinner is in order.
LEMMA OrderedThins ==
  ASSUME NEW s, NEW t, Ordered(s), Thins(t, s)
  PROVE  Ordered(t)
<1>1. PICK at \in [1..Len(t) -> 1..Len(s)] :
        /\ \A i, j \in 1..Len(t) : i < j => at[i] < at[j]
        /\ \A i \in 1..Len(t) : t[i] = s[at[i]]
  BY DEF Thins
<1>2. ASSUME NEW i \in 1..Len(t), NEW j \in 1..Len(t), i < j
      PROVE  SentBefore(t[i], t[j])
  <2>1. /\ at[i] \in 1..Len(s) /\ at[j] \in 1..Len(s) /\ at[i] < at[j]
        /\ t[i] = s[at[i]] /\ t[j] = s[at[j]]
    BY <1>1, <1>2
  <2> QED BY <2>1, Zenon DEF Ordered
<1> QED BY <1>2 DEF Ordered

\* Lemma: two sequences in order.
LEMMA OrderedBoth ==
  ASSUME NEW S, NEW s \in Seq(S), NEW t \in Seq(S), Ordered(s), Ordered(t),
         \A i \in 1..Len(s), j \in 1..Len(t) : SentBefore(s[i], t[j])
  PROVE  s \o t \in Seq(S) /\ Ordered(s \o t)
<1>1. PICK R : R = InOrder(S)
  OBVIOUS
<1>2. Strung(s, R) /\ Strung(t, R)
  BY <1>1, OrderedIs
<1>3. \A i \in 1..Len(s), j \in 1..Len(t) : <<s[i], t[j]>> \in R
  <2>1. \A i \in 1..Len(s) : s[i] \in S
    OBVIOUS
  <2>2. \A i \in 1..Len(t) : t[i] \in S
    OBVIOUS
  <2>3. \A x, y \in S : <<x, y>> \in R <=> SentBefore(x, y)
    BY <1>1 DEF InOrder
  <2> QED BY <2>1, <2>2, <2>3, Zenon
<1>4. Strung(s \o t, R)
  BY <1>2, <1>3, StrungBoth
<1>a. s \o t \in Seq(S)
  OBVIOUS
<1>5. PICK st \in Seq(S) : st = s \o t
  BY <1>a
<1>6. Ordered(st)
  BY <1>1, <1>4, <1>5, OrderedIs
<1> QED BY <1>5, <1>6

\* Lemma: a single packet, and one that comes after all others.
LEMMA OrderedAfter ==
  ASSUME NEW S, NEW s \in Seq(S), NEW p \in S, Ordered(s),
         \A i \in 1..Len(s) : SentBefore(s[i], p)
  PROVE  Ordered(<<p>>) /\ Ordered(s \o <<p>>) /\ Ordered(Append(s, p))
<1>0. <<p>> \in Seq(S) /\ Len(<<p>>) = 1 /\ <<p>>[1] = p
  OBVIOUS
<1>1. PICK t \in Seq(S) : t = <<p>> /\ Len(t) = 1 /\ t[1] = p
  BY <1>0
<1>2. Ordered(t)
  BY <1>1 DEF Ordered
<1>3. \A i \in 1..Len(s), j \in 1..Len(t) : SentBefore(s[i], t[j])
  BY <1>1
<1>4. Ordered(s \o t)
  BY <1>2, <1>3, OrderedBoth
<1>5. Append(s, p) = s \o <<p>>
  OBVIOUS
<1> QED BY <1>1, <1>2, <1>4, <1>5

\* Lemma: the links into nodes stay in order when what is sent is in order and
\* comes after what is there.
LEMMA InLineFlows ==
  ASSUME TypeInv, InLine, NEW links, NEW pkts \in Seq(Cargoes), Flows(links, pkts),
         \A l \in Links : l \in links /\ l[2] \in Nodes =>
           /\ Ordered(pkts)
           /\ \A i \in 1..Len(queue[l]), u \in 1..Len(pkts) :
                SentBefore(queue[l][i], pkts[u])
  PROVE  InLine'
<1> SUFFICES ASSUME NEW l \in Links, l[2] \in Nodes
             PROVE  Ordered(queue'[l])
  BY DEF InLine, Ordered
<1>1. queue[l] \in Seq(Cargoes) /\ Ordered(queue[l])
  BY TypeInvIs DEF Queues, Cargoes, InLine
<1>2. CASE Thins(queue'[l], queue[l])
  BY <1>1, <1>2, OrderedThins
<1>3. CASE l \in links /\ Thins(queue'[l], queue[l] \o pkts)
  <2>1. Ordered(queue[l] \o pkts)
    BY <1>1, <1>3, OrderedBoth
  <2> QED BY <1>3, <2>1, OrderedThins
<1> QED BY <1>2, <1>3 DEF Flows

\* Lemma: no messages are sent to a node that has not said hello.
LEMMA UnsentFlows ==
  ASSUME TypeInv, Unsent, NEW links, NEW pkts \in Seq(Cargoes), Flows(links, pkts),
         \A n \in Nodes : secoPPSet[n] \subseteq secoPPSet'[n],
         \A m \in Children, u \in 1..Len(pkts) :
           Down(m) \in links /\ pkts[u].cmd \in MsgCommands =>
             m \in secoPPSet'[Parent[m]]
  PROVE  Unsent'
<1> SUFFICES ASSUME NEW m \in Children, m \notin secoPPSet'[Parent[m]],
                    NEW i \in 1..Len(queue'[Down(m)])
             PROVE  queue'[Down(m)][i].cmd \notin MsgCommands
  BY DEF Unsent
<1>1. Down(m) \in Links /\ m \notin secoPPSet[Parent[m]]
  BY ChildEnds, LinksDiffer
<1>2. ASSUME NEW k \in 1..Len(queue[Down(m)]), queue'[Down(m)][i] = queue[Down(m)][k]
      PROVE  queue'[Down(m)][i].cmd \notin MsgCommands
  BY <1>1, <1>2 DEF Unsent
<1>3. ASSUME Down(m) \in links, NEW u \in 1..Len(pkts), queue'[Down(m)][i] = pkts[u]
      PROVE  queue'[Down(m)][i].cmd \notin MsgCommands
  BY <1>3
<1> QED BY <1>1, <1>2, <1>3, FlowHolds

OrderInv == Passing /\ InLine /\ KeptInOrder /\ Unsent

\* Lemma: the steps that send no message into a node keep all this.
LEMMA OrderCalm ==
  ASSUME TypeInv, OrderInv, UNCHANGED sends,
         NEW links, NEW pkts \in Seq(Cargoes), Flows(links, pkts),
         \A n \in Nodes, g \in AllGroups, s \in Clients :
           history'[n][g][s] = history[n][g][s] \/ history'[n][g][s] = <<>>,
         \A n \in Nodes : secoPPSet[n] \subseteq secoPPSet'[n],
         \A l \in Links, u \in 1..Len(pkts) :
           l \in links /\ pkts[u].cmd \in MsgCommands =>
             \E c \in Clients, g \in AllGroups, s \in Clients :
               l = Down(c) /\ pkts[u] \in Kept(Parent[c], g, s),
         \A c \in Clients : \A i \in 1..Len(got'[c]) :
           \/ \E j \in 1..Len(got[c]) : got'[c][i] = got[c][j]
           \/ \E j \in 1..Len(queue[Down(c)]) : got'[c][i] = queue[Down(c)][j]
  PROVE  OrderInv'
<1>0. Passing /\ InLine /\ KeptInOrder /\ Unsent
  BY DEF OrderInv
<1>1. \A c \in Clients : Down(c)[2] \notin Nodes
  BY ClientEnds, LinkEnds
<1>a. \A c \in Clients, d \in Clients : Down(c) = Down(d) => c = d
  BY ClientEnds, LinksDiffer
<1>2. ASSUME NEW s \in Clients, NEW g \in AllGroups
      PROVE  \E mark : Marking(s, g, mark)'
  <2>1. PICK mark : Marking(s, g, mark)
    BY <1>0 DEF Passing
  <2>2. sends[s] \in Nat /\ sends'[s] \in Nat /\ sends[s] <= sends'[s]
    BY TypeInvIs
  <2>3. \A n \in Nodes : Kept(n, g, s)' \subseteq Kept(n, g, s)
    <3>1. ToSet(<<>>) = {}
      BY DEF ToSet
    <3> QED BY <3>1 DEF Kept
  <2>4. ASSUME NEW l \in Links, NEW u \in 1..Len(pkts), l \in links, Of(pkts[u], s, g)
        PROVE  /\ l[2] \notin Nodes
               /\ \A c \in Clients : l = Down(c) /\ Parent[c] = Root =>
                    pkts[u].n <= mark[Root]
    <3>1. PICK c \in Clients, h \in AllGroups, t \in Clients :
             l = Down(c) /\ pkts[u] \in Kept(Parent[c], h, t)
      BY <2>4 DEF Of
    <3>2. t = s /\ h = g
      <4>1. pkts[u].client = t /\ pkts[u].group = h
        BY <3>1, TypeInvIs, ClientEnds DEF Kept
      <4> QED BY <2>4, <4>1 DEF Of
    <3>3. pkts[u].n <= mark[Parent[c]]
      BY <2>1, <3>1, <3>2, ClientEnds DEF Marking, KeptUpTo
    <3>4. \A d \in Clients : l = Down(d) => d = c
      BY <1>a, <3>1
    <3> QED BY <1>1, <3>1, <3>3, <3>4
  <2>5. Marking(s, g, mark)'
    BY <2>1, <2>2, <2>3, <2>4, MarkingStays
  <2> QED BY <2>5
<1>3. Passing'
  BY <1>2 DEF Passing
<1>4. ASSUME NEW l \in Links, l \in links, l[2] \in Nodes, NEW u \in 1..Len(pkts)
      PROVE  pkts[u].cmd \notin MsgCommands
  BY <1>1, <1>4
<1>5. InLine'
  BY <1>0, <1>4, InLineFlows DEF SentBefore, Ordered
<1>6. KeptInOrder'
  <2>1. Ordered(<<>>)
    BY DEF Ordered
  <2> QED BY <1>0, <2>1 DEF KeptInOrder, HistoryOrdered, Ordered
<1>7. \A m \in Children, u \in 1..Len(pkts) :
         Down(m) \in links => pkts[u].cmd \notin MsgCommands
  BY <1>4, ChildEnds, LinksDiffer, LinkEnds
<1>8. Unsent'
  BY <1>0, <1>7, UnsentFlows
<1> QED BY <1>3, <1>5, <1>6, <1>8 DEF OrderInv

\* Lemma: a node routes a message.
LEMMA OrderRoutes ==
  ASSUME TypeInv, TypeInv', Outward, OrderInv,
         NEW n \in Nodes, NEW k \in Links, NEW p \in Msgs, NEW targets,
         RoutesFrom(n, k, p, targets)
  PROVE  OrderInv'
<1>0. Passing /\ InLine /\ KeptInOrder /\ Unsent
  BY DEF OrderInv
<1>1. /\ Route(n, k, p, targets) /\ queue[k] # <<>>
      /\ \A l \in targets : l[1] = n /\ Away(l, p.client)
      /\ \A m \in Children : Down(m) \in targets => m \in secoPPSet[n]
  BY DEF RoutesFrom
<1>2. p.client \in Clients /\ p.group \in AllGroups /\ p.cmd \in MsgCommands
      /\ p.n \in Nat
  BY PacketKinds DEF AllGroups
<1>3. PICK pkts \in Seq(Cargoes) : pkts = <<p>>
  BY CargoSeqs
<1>4. Len(pkts) = 1 /\ pkts[1] = p /\ Flows(targets, pkts)
  BY <1>1, <1>3, RouteTypes
<1>5. sends' = sends /\ got' = got /\ secoPPSet' = secoPPSet
  BY RoutesDo
<1>6. \A x \in Nodes, g \in AllGroups, s \in Clients : history'[x][g][s] =
        IF p.cmd # "NO_HISTORY_MSG" /\ x = n /\ g = p.group /\ s = p.client
        THEN IF p.cmd = "SYNC_MSG" THEN <<p>> ELSE Append(history[x][g][s], p)
        ELSE history[x][g][s]
  BY RoutesDo
<1>7. ASSUME NEW s \in Clients, NEW g \in AllGroups
      PROVE  \E mark : Marking(s, g, mark)'
  <2>1. PICK mark : Marking(s, g, mark)
    BY <1>0 DEF Passing
  <2>2. CASE Of(p, s, g)
    <3>1. PICK m2 : m2 = [mark EXCEPT ![n] = p.n]
      OBVIOUS
    <3>2. Marking(s, g, m2)'
      BY <1>0, <2>1, <2>2, <3>1, MarkingRoutesOne
    <3> QED BY <3>2
  <2>3. CASE ~Of(p, s, g)
    <3>1. sends[s] \in Nat /\ sends'[s] \in Nat /\ sends[s] <= sends'[s]
      BY <1>5, TypeInvIs
    <3>2. \A x \in Nodes : Kept(x, g, s)' \subseteq Kept(x, g, s)
      <4>1. \A x \in Nodes : history'[x][g][s] = history[x][g][s]
        BY <1>2, <1>6, <2>3 DEF Of
      <4> QED BY <4>1 DEF Kept
    <3>3. \A u \in 1..Len(pkts) : ~Of(pkts[u], s, g)
      BY <1>4, <2>3
    <3>4. \A x \in Nodes : secoPPSet[x] \subseteq secoPPSet'[x]
      BY <1>5
    <3>5. \A c \in Clients : \A i \in 1..Len(got'[c]) :
            \E j \in 1..Len(got[c]) : got'[c][i] = got[c][j]
      BY <1>5
    <3>6. Marking(s, g, mark)'
      BY <1>4, <2>1, <3>1, <3>2, <3>3, <3>4, <3>5, MarkingStays
    <3> QED BY <3>6
  <2> QED BY <2>2, <2>3
<1>8. PICK mark : Marking(p.client, p.group, mark)
  BY <1>0, <1>2 DEF Passing
<1>9. mark[n] < p.n /\ mark[n] \in Nat
  <2>1. Of(p, p.client, p.group)
    BY <1>2 DEF Of
  <2> QED BY <1>0, <1>2, <1>8, <2>1, RoutesMark DEF Marking
<1>10. InLine'
  <2>1. ASSUME NEW l \in Links, l \in targets, l[2] \in Nodes,
               NEW i \in 1..Len(queue[l])
        PROVE  SentBefore(queue[l][i], p)
    <3>1. CASE Of(queue[l][i], p.client, p.group)
      <4>1. queue[l][i].n <= Level(mark, p.client, l[1])
        BY <1>8, <2>1, <3>1 DEF Marking, UnderWay
      <4>2. Level(mark, p.client, l[1]) = mark[n]
        BY <1>1, <2>1 DEF Level
      <4>3. queue[l][i].n \in Nat
        BY <3>1, NumbersAre DEF Of
      <4>4. queue[l][i].n < p.n
        BY <1>2, <1>9, <4>1, <4>2, <4>3
      <4> QED BY <4>4 DEF SentBefore
    <3>2. CASE ~Of(queue[l][i], p.client, p.group)
      BY <3>2 DEF SentBefore, Of
    <3> QED BY <3>1, <3>2
  <2>2. Ordered(pkts)
    BY <1>4 DEF Ordered
  <2>3. \A l \in Links : l \in targets /\ l[2] \in Nodes =>
          \A i \in 1..Len(queue[l]), u \in 1..Len(pkts) :
            SentBefore(queue[l][i], pkts[u])
    BY <1>4, <2>1
  <2> QED BY <1>0, <1>4, <2>2, <2>3, InLineFlows
<1>11. KeptInOrder'
  <2> SUFFICES ASSUME NEW x \in Nodes, NEW g \in AllGroups, NEW s \in Clients
               PROVE  Ordered(history'[x][g][s])
    BY DEF KeptInOrder, HistoryOrdered, Ordered
  <2>1. Ordered(history[x][g][s]) /\ history[x][g][s] \in Seq(Msgs)
    BY <1>0, TypeInvIs DEF KeptInOrder, HistoryOrdered
  <2>2. CASE history'[x][g][s] = history[x][g][s]
    BY <2>1, <2>2
  <2>3. ASSUME x = n, g = p.group, s = p.client
        PROVE  Ordered(<<p>>) /\ Ordered(Append(history[x][g][s], p))
    <3>1. ASSUME NEW i \in 1..Len(history[x][g][s])
          PROVE  SentBefore(history[x][g][s][i], p)
      <4>1. history[x][g][s][i] \in Kept(x, g, s) /\ history[x][g][s][i] \in Msgs
        BY <2>1 DEF Kept, ToSet
      <4>2. history[x][g][s][i].n <= mark[n]
        BY <1>8, <2>3, <4>1 DEF Marking, KeptUpTo
      <4>3. history[x][g][s][i].n \in Nat
        BY <4>1, PacketKinds
      <4>4. history[x][g][s][i].n < p.n
        BY <1>2, <1>9, <4>2, <4>3
      <4> QED BY <4>4 DEF SentBefore
    <3> QED BY <2>1, <3>1, OrderedAfter
  <2>4. \/ history'[x][g][s] = history[x][g][s]
        \/ /\ x = n /\ g = p.group /\ s = p.client
           /\ history'[x][g][s] \in {<<p>>, Append(history[x][g][s], p)}
    BY <1>6
  <2> QED BY <2>2, <2>3, <2>4
<1>12. Unsent'
  <2>1. \A m \in Children : Down(m) \in targets => m \in secoPPSet'[Parent[m]]
    BY <1>1, <1>5, LinkEnds
  <2>2. \A x \in Nodes : secoPPSet[x] \subseteq secoPPSet'[x]
    BY <1>5
  <2> QED BY <1>0, <1>4, <2>1, <2>2, UnsentFlows
<1>13. Passing'
  BY <1>7 DEF Passing
<1> QED BY <1>10, <1>11, <1>12, <1>13 DEF OrderInv

\* Lemma: a client sends a message.
LEMMA OrderSends ==
  ASSUME TypeInv, Outward, OrderInv, Sending
  PROVE  OrderInv'
<1>0. Passing /\ InLine /\ KeptInOrder /\ Unsent
  BY DEF OrderInv
<1>1. PICK c \in Clients, cmd \in Kinds, h \in Groups : Send(c, cmd, h)
  BY DEF Sending
<1>2. PICK p : p = Packet(cmd, c, h, sends[c] + 1)
  OBVIOUS
<1>3. /\ p \in Msgs /\ p.client = c /\ p.group = h /\ p.n = sends[c] + 1
      /\ sends[c] \in Nat /\ h \in AllGroups
  BY <1>2, TypeInvIs, TreeAssumption DEF Packet, Msgs, AllGroups
<1>4. /\ queue' = Sent(queue, {Up(c)}, <<p>>)
      /\ sends' = [sends EXCEPT ![c] = @ + 1]
      /\ UNCHANGED <<secoPPSet, history, got>>
  BY <1>1, <1>2 DEF Send, tables
<1>5. PICK pkts \in Seq(Cargoes) : pkts = <<p>>
  BY <1>3, CargoSeqs
<1>6. Len(pkts) = 1 /\ pkts[1] = p /\ Flows({Up(c)}, pkts)
  <2>1. <<p>> \in Seq(Packets)
    BY <1>3, PacketKinds
  <2> QED BY <1>4, <1>5, <2>1, TypeInvIs, FlowsSent
<1>7. /\ Up(c) \in Links /\ Up(c)[1] = c /\ Up(c)[2] = Parent[c]
      /\ c \notin Nodes /\ c \in Chain[c] /\ Away(Up(c), c) /\ Parent[c] \in Nodes
      /\ \A m \in Ends : Down(m) # Up(c)
  BY ClientEnds, LinksDiffer, LinkEnds, ChainRises, UpAway
<1>8. \A s \in Clients : sends[s] \in Nat /\ sends'[s] \in Nat /\ sends[s] <= sends'[s]
  BY <1>4, TypeInvIs
<1>9. sends'[c] = p.n
  BY <1>3, <1>4, TypeInvIs
<1>10. ASSUME NEW s \in Clients, NEW g \in AllGroups
       PROVE  \E mark : Marking(s, g, mark)'
  <2>1. PICK mark : Marking(s, g, mark)
    BY <1>0 DEF Passing
  <2>2. \A x \in Nodes : Kept(x, g, s)' \subseteq Kept(x, g, s)
    BY <1>4 DEF Kept
  <2>3. ASSUME Of(p, s, g)
        PROVE  mark[Parent[c]] < p.n /\ p.n <= Level(mark, s, c)'
    <3>1. s = c
      BY <1>3, <2>3 DEF Of
    <3>2. Level(mark, s, c) = sends[c] /\ Level(mark, s, c)' = sends'[c]
      BY <1>7, <3>1 DEF Level
    <3>3. mark[Parent[c]] <= sends[c] /\ mark[Parent[c]] \in Nat
      BY <1>7, <2>1, <3>1, <3>2 DEF Marking, Falling
    <3> QED BY <1>3, <1>9, <3>2, <3>3
  <2>4. \A l \in Links, u \in 1..Len(pkts) : l \in {Up(c)} /\ Of(pkts[u], s, g) =>
          /\ l[2] \in Nodes => /\ mark[l[2]] < pkts[u].n
                               /\ pkts[u].n <= Level(mark, s, l[1])'
          /\ \A d \in Clients : l = Down(d) /\ Parent[d] = Root =>
               pkts[u].n <= mark[Root]
    BY <1>6, <1>7, <2>3, ClientEnds
  <2>5. \A x \in Nodes : secoPPSet[x] \subseteq secoPPSet'[x]
    BY <1>4
  <2>6. \A d \in Clients : \A i \in 1..Len(got'[d]) :
          \E j \in 1..Len(got[d]) : got'[d][i] = got[d][j]
    BY <1>4
  <2>7. Marking(s, g, mark)'
    BY <1>6, <1>8, <2>1, <2>2, <2>4, <2>5, <2>6, MarkingStays
  <2> QED BY <2>7
<1>11. ASSUME NEW i \in 1..Len(queue[Up(c)])
       PROVE  SentBefore(queue[Up(c)][i], p)
  <2>1. CASE Of(queue[Up(c)][i], c, h)
    <3>1. PICK mark : Marking(c, h, mark)
      BY <1>0, <1>3 DEF Passing
    <3>2. Level(mark, c, c) = sends[c]
      BY <1>7 DEF Level
    <3>3. queue[Up(c)][i].n <= sends[c]
      BY <1>7, <2>1, <3>1, <3>2 DEF Marking, UnderWay
    <3>4. queue[Up(c)][i].n \in Nat
      BY <1>7, <2>1, NumbersAre DEF Of
    <3>5. PICK a \in Nat, b \in Nat : a = queue[Up(c)][i].n /\ b = sends[c]
      BY <1>3, <3>4
    <3>6. a < b + 1
      BY <3>3, <3>5
    <3>7. queue[Up(c)][i].n < p.n
      BY <1>3, <3>5, <3>6, Zenon
    <3> QED BY <3>7 DEF SentBefore
  <2>2. CASE ~Of(queue[Up(c)][i], c, h)
    BY <1>3, <2>2 DEF SentBefore, Of
  <2> QED BY <2>1, <2>2
<1>12. InLine'
  <2>1. Ordered(pkts)
    BY <1>6 DEF Ordered
  <2>2. \A l \in Links : l \in {Up(c)} =>
          \A i \in 1..Len(queue[l]), u \in 1..Len(pkts) :
            SentBefore(queue[l][i], pkts[u])
    BY <1>6, <1>11
  <2> QED BY <1>0, <1>6, <2>1, <2>2, InLineFlows
<1>13. KeptInOrder'
  BY <1>0, <1>4 DEF KeptInOrder, HistoryOrdered, Ordered
<1>14. Unsent'
  <2>1. \A m \in Children : Down(m) \notin {Up(c)}
    BY <1>7, ChildEnds
  <2>2. \A x \in Nodes : secoPPSet[x] \subseteq secoPPSet'[x]
    BY <1>4
  <2> QED BY <1>0, <1>6, <2>1, <2>2, UnsentFlows
<1>15. Passing'
  BY <1>10 DEF Passing
<1> QED BY <1>12, <1>13, <1>14, <1>15 DEF OrderInv

\* Lemma: what a new node is sent.
LEMMA SynchronizeIs ==
  ASSUME TypeInv, Placed, HelloFirst, Outward, KeptInOrder, NEW m \in Children,
         synchronizeNewSeCo(m)
  PROVE  /\ m \notin secoPPSet[Parent[m]]
         /\ secoPPSet' = [secoPPSet EXCEPT ![Parent[m]] = @ \cup {m}]
         /\ UNCHANGED <<status, conn, join, lookup, members, history, got, sends>>
         /\ status[Parent[m]] = "up"
         /\ \E pkts \in Seq(Cargoes) :
              /\ Flows({Down(m)}, pkts) /\ Ordered(pkts)
              /\ queue' = Sent(Taken(Up(m)), {Down(m)}, pkts)
              /\ pkts \in Seq(Msgs)
              /\ \A g \in AllGroups, s \in Clients : \A p \in Kept(Parent[m], g, s) :
                   \E u \in 1..Len(pkts) : pkts[u] = p
              /\ \A u \in 1..Len(pkts) :
                   \E g \in AllGroups, s \in Clients :
                     pkts[u] \in Kept(Parent[m], g, s) /\ m \notin Chain[s]
<1>1. PICK n \in Nodes : n = Parent[m]
  BY ChildEnds
<1>2. /\ m \in Ends /\ m \notin Clients /\ queue[Up(m)] # <<>>
      /\ status[n] = "up" /\ Head(queue[Up(m)]).cmd = "HELLO_SECO"
      /\ Up(m) \in Links
  BY <1>1, ChildEnds, ReadsIs DEF synchronizeNewSeCo
<1>3. /\ secoPPSet' = [secoPPSet EXCEPT ![Parent[m]] = @ \cup {m}]
      /\ UNCHANGED <<status, conn, join, lookup, members, history, got, sends>>
  BY DEF synchronizeNewSeCo, counters
<1>4. m \notin secoPPSet[n]
  <2>1. Head(queue[Up(m)]) = queue[Up(m)][1] /\ 1 \in 1..Len(queue[Up(m)])
    BY <1>2, TypeInvIs, HeadIs
  <2> QED BY <1>1, <1>2, <2>1 DEF HelloFirst
<1>5. PICK pkts : pkts = getAllMsgs(n)
  OBVIOUS
<1>6. /\ pkts \in Seq(Msgs) /\ pkts \in Seq(Cargoes)
      /\ \A i \in 1..Len(pkts) : \E g \in AllGroups, s \in Clients :
           pkts[i] \in Kept(n, g, s)
  BY <1>5, HistoriesAre, CargoSeqs
<1>7. /\ Ordered(pkts)
      /\ \A g \in AllGroups, s \in Clients : \A p \in Kept(n, g, s) :
           \E u \in 1..Len(pkts) : pkts[u] = p
  <2>1. HistoryOrdered(n)
    BY DEF KeptInOrder
  <2> QED BY <1>5, <2>1, GetAllMsgsOrdered
<1>8. Flows({Down(m)}, pkts)
  BY <1>1, <1>5, SynchronizeTypes
<1>9. queue' = Sent(Taken(Up(m)), {Down(m)}, pkts)
  BY <1>1, <1>5 DEF synchronizeNewSeCo
<1>10. ASSUME NEW g \in AllGroups, NEW s \in Clients, NEW p \in Kept(n, g, s)
       PROVE  m \notin Chain[s]
  <2>1. conn[s] # "off"
    BY <1>10, KeptIs
  <2> QED BY <1>1, <1>2, <1>4, <2>1 DEF Placed
<1>11. ASSUME NEW u \in 1..Len(pkts)
       PROVE  \E g \in AllGroups, s \in Clients :
                pkts[u] \in Kept(n, g, s) /\ m \notin Chain[s]
  BY <1>6, <1>10
<1> QED BY <1>1, <1>2, <1>3, <1>4, <1>6, <1>7, <1>8, <1>9, <1>11

\* Lemma: a new node is sent the histories of its parent.
LEMMA OrderSynchronizes ==
  ASSUME TypeInv, Placed, HelloFirst, Outward, OrderInv, NEW m \in Children,
         synchronizeNewSeCo(m)
  PROVE  OrderInv'
<1>0. Passing /\ InLine /\ KeptInOrder /\ Unsent
  BY DEF OrderInv
<1>1. PICK pkts \in Seq(Cargoes) :
        /\ m \notin secoPPSet[Parent[m]]
        /\ secoPPSet' = [secoPPSet EXCEPT ![Parent[m]] = @ \cup {m}]
        /\ UNCHANGED <<history, got, sends>>
        /\ Flows({Down(m)}, pkts) /\ Ordered(pkts)
        /\ \A u \in 1..Len(pkts) :
             \E g \in AllGroups, s \in Clients :
               pkts[u] \in Kept(Parent[m], g, s) /\ m \notin Chain[s]
  BY <1>0, SynchronizeIs
<1>2. /\ m \in Ends /\ m \in Nodes /\ m \notin Clients /\ Parent[m] \in Nodes
      /\ Down(m) \in Links /\ Down(m)[1] = Parent[m] /\ Down(m)[2] = m
      /\ \A c \in Clients : Down(c) # Down(m)
      /\ \A x \in Children : Down(x) = Down(m) => x = m
  BY ChildEnds, ClientEnds, LinksDiffer, LinkEnds
<1>3. /\ \A n \in Nodes : secoPPSet[n] \subseteq secoPPSet'[n]
      /\ m \in secoPPSet'[Parent[m]]
  BY <1>1, <1>2, TypeInvIs
<1>4. ASSUME NEW s \in Clients, NEW g \in AllGroups
      PROVE  \E mark : Marking(s, g, mark)'
  <2>1. PICK mark : Marking(s, g, mark)
    BY <1>0 DEF Passing
  <2>2. sends[s] \in Nat /\ sends'[s] \in Nat /\ sends[s] <= sends'[s]
    BY <1>1, TypeInvIs
  <2>3. \A n \in Nodes : Kept(n, g, s)' \subseteq Kept(n, g, s)
    BY <1>1 DEF Kept
  <2>4. ASSUME NEW u \in 1..Len(pkts), Of(pkts[u], s, g)
        PROVE  mark[m] < pkts[u].n /\ pkts[u].n <= Level(mark, s, Parent[m])'
    <3>1. PICK h \in AllGroups, t \in Clients :
            pkts[u] \in Kept(Parent[m], h, t) /\ m \notin Chain[t]
      BY <1>1
    <3>2. t = s /\ h = g
      <4>0. pkts[u] \in ToSet(history[Parent[m]][h][t]) /\ Parent[m] \in Nodes
        BY <1>2, <3>1 DEF Kept
      <4>1. pkts[u].client = t /\ pkts[u].group = h
        BY <4>0, TypeInvIs
      <4> QED BY <2>4, <4>1 DEF Of
    <3>3. 1 <= pkts[u].n /\ pkts[u].n <= mark[Parent[m]]
      BY <1>2, <2>1, <3>1, <3>2 DEF Marking, KeptUpTo
    <3>4. mark[m] = 0
      BY <1>1, <2>1, <3>1, <3>2 DEF Marking, NotPassed
    <3>5. pkts[u].n \in Nat
      <4>1. pkts[u].cmd \in MsgCommands /\ pkts[u] \in Cargoes
        BY <2>4 DEF Of
      <4> QED BY <4>1, PacketKinds DEF Cargoes, MsgCommands
    <3>6. Level(mark, s, Parent[m])' = mark[Parent[m]]
      BY <1>2 DEF Level
    <3> QED BY <3>3, <3>4, <3>5, <3>6
  <2>5. \A l \in Links, u \in 1..Len(pkts) : l \in {Down(m)} /\ Of(pkts[u], s, g) =>
          /\ l[2] \in Nodes => /\ mark[l[2]] < pkts[u].n
                               /\ pkts[u].n <= Level(mark, s, l[1])'
          /\ \A d \in Clients : l = Down(d) /\ Parent[d] = Root =>
               pkts[u].n <= mark[Root]
    BY <1>2, <2>4
  <2>6. \A d \in Clients : \A i \in 1..Len(got'[d]) :
          \E j \in 1..Len(got[d]) : got'[d][i] = got[d][j]
    BY <1>1
  <2>7. Marking(s, g, mark)'
    BY <1>1, <1>3, <2>1, <2>2, <2>3, <2>5, <2>6, MarkingStays
  <2> QED BY <2>7
<1>5. InLine'
  <2>1. \A i \in 1..Len(queue[Down(m)]), u \in 1..Len(pkts) :
          SentBefore(queue[Down(m)][i], pkts[u])
    <3>1. \A i \in 1..Len(queue[Down(m)]) : queue[Down(m)][i].cmd \notin MsgCommands
      BY <1>0, <1>1 DEF Unsent
    <3> QED BY <3>1 DEF SentBefore
  <2>2. \A l \in Links : l \in {Down(m)} =>
          \A i \in 1..Len(queue[l]), u \in 1..Len(pkts) :
            SentBefore(queue[l][i], pkts[u])
    BY <2>1
  <2> QED BY <1>0, <1>1, <2>2, InLineFlows
<1>6. KeptInOrder'
  BY <1>0, <1>1 DEF KeptInOrder, HistoryOrdered, Ordered
<1>7. Unsent'
  <2>1. \A x \in Children : Down(x) \in {Down(m)} => x \in secoPPSet'[Parent[x]]
    BY <1>2, <1>3
  <2> QED BY <1>0, <1>1, <1>3, <2>1, UnsentFlows
<1> QED BY <1>4, <1>5, <1>6, <1>7 DEF OrderInv, Passing

\* Lemma: a client receives a packet.
LEMMA ReceiveIs ==
  ASSUME TypeInv, NEW c \in Clients, ClientReceive(c)
  PROVE  /\ UNCHANGED <<status, conn, join, lookup, tables, sends>>
         /\ queue[Down(c)] # <<>> /\ conn[c] = "on"
         /\ Flows({}, <<>>)
         /\ \A l \in Links : queue'[l] = IF l = Down(c) THEN Tail(queue[l])
                                         ELSE queue[l]
         /\ \A d \in Clients : got'[d] = IF d = c
              THEN Append(got[d], queue[Down(c)][1]) ELSE got[d]
<1>1. PICK p : p = Head(queue[Down(c)])
  OBVIOUS
<1>2. Down(c) \in Links
  BY ClientEnds, LinksDiffer
<1>3. /\ queue[Down(c)] \in Seq(Packets \cup Hellos) /\ queue[Down(c)] # <<>>
      /\ queue \in Queues /\ got \in [Clients -> Seq(Packets)]
  BY <1>2, TypeInvIs DEF ClientReceive, Queues
<1>4. /\ queue' = Taken(Down(c)) /\ got' = [got EXCEPT ![c] = Append(@, p)]
      /\ UNCHANGED <<status, conn, join, lookup, tables, sends>> /\ conn[c] = "on"
  BY <1>1 DEF ClientReceive, tables, counters
<1>5. \A l \in Links : queue'[l] = IF l = Down(c) THEN Tail(queue[l]) ELSE queue[l]
  BY <1>2, <1>3, <1>4, TakenIs
<1>6. \A d \in Clients : got'[d] = IF d = c THEN Append(got[d], p) ELSE got[d]
  BY <1>3, <1>4
<1>7. p = queue[Down(c)][1]
  BY <1>1, <1>3
<1>8. Flows({}, <<>>)
  BY <1>2, <1>3, <1>4, TakenThins, FlowsThinned
<1> QED BY <1>3, <1>4, <1>5, <1>6, <1>7, <1>8

\* Lemma: every step keeps the order.
LEMMA OrderStep ==
  ASSUME EndInv, OrderInv, TypeInv', [Next]_vars
  PROVE  OrderInv'
<1>0. /\ TypeInv /\ Placed /\ HelloFirst /\ Outward /\ RestKept /\ LookupOK
      /\ Burial \/ Calm \/ Sending \/ Routing
  BY StepCases DEF EndInv
<1>1. CASE Sending
  BY <1>0, <1>1, OrderSends
<1>2. CASE Routing
  <2>1. PICK n \in Nodes, k \in Links, p \in Msgs : \E targets :
          RoutesFrom(n, k, p, targets)
    BY <1>0, <1>2, RoutingIs
  <2>2. PICK targets : RoutesFrom(n, k, p, targets)
    BY <2>1
  <2> QED BY <1>0, <2>2, OrderRoutes
<1>3. CASE ~Sending
  <2>0. UNCHANGED sends
    BY <1>3, SendsStep
  <2>a. ASSUME UNCHANGED same
        PROVE  /\ \A n \in Nodes, g \in AllGroups, s \in Clients :
                    history'[n][g][s] = history[n][g][s]
               /\ \A n \in Nodes : secoPPSet[n] \subseteq secoPPSet'[n]
               /\ \A c \in Clients : \A i \in 1..Len(got'[c]) :
                    \E j \in 1..Len(got[c]) : got'[c][i] = got[c][j]
    BY <2>a DEF same
  <2>1. CASE Burial
    <3>1. Buries
      BY <1>0, <2>1, DownGoneKind, UpGoneKind, NodeGoneKind, ClientGoneKind
         DEF Burial
    <3>a. PICK n \in Nodes, cs \in SUBSET Clients : \E links :
          \E news \in Obituaries(cs) :
            /\ Flows(links, news)
            /\ \A x \in Nodes, g \in AllGroups, s \in Clients : history'[x][g][s] =
                 IF x = n /\ s \in cs THEN <<>> ELSE history[x][g][s]
      BY <3>1 DEF Buries
    <3>b. PICK links : \E news \in Obituaries(cs) :
            /\ Flows(links, news)
            /\ \A x \in Nodes, g \in AllGroups, s \in Clients : history'[x][g][s] =
                 IF x = n /\ s \in cs THEN <<>> ELSE history[x][g][s]
      BY <3>a
    <3>2. PICK news \in Obituaries(cs) :
            /\ Flows(links, news)
            /\ \A x \in Nodes, g \in AllGroups, s \in Clients : history'[x][g][s] =
                 IF x = n /\ s \in cs THEN <<>> ELSE history[x][g][s]
      BY <3>b
    <3>3. news \in Seq(Cargoes) /\
          \A u \in 1..Len(news) : news[u].cmd \notin MsgCommands
      BY <3>2, CargoSeqs DEF Obituaries, MsgCommands
    <3>4. UNCHANGED <<secoPPSet, got>>
      BY <3>1 DEF Buries
    <3>5. /\ \A x \in Nodes : secoPPSet[x] \subseteq secoPPSet'[x]
          /\ \A c \in Clients : \A i \in 1..Len(got'[c]) :
               \E j \in 1..Len(got[c]) : got'[c][i] = got[c][j]
      BY <3>4
    <3>6. \A x \in Nodes, g \in AllGroups, s \in Clients :
            history'[x][g][s] = history[x][g][s] \/ history'[x][g][s] = <<>>
      BY <3>2
    <3> QED BY <1>0, <2>0, <3>2, <3>3, <3>5, <3>6, OrderCalm
  <2>2. CASE Quietly
    <3>a. PICK links : \E pkts \in Seq(Packets) :
            Flows(links, pkts) /\ \A u \in 1..Len(pkts) : pkts[u].cmd \in Asks
      BY <2>2 DEF Quietly
    <3>1. PICK pkts \in Seq(Packets) :
            Flows(links, pkts) /\ \A u \in 1..Len(pkts) : pkts[u].cmd \in Asks
      BY <3>a
    <3>2. pkts \in Seq(Cargoes) /\
          \A u \in 1..Len(pkts) : pkts[u].cmd \notin MsgCommands
      BY <3>1, CargoSeqs DEF Asks, MsgCommands
    <3>3. UNCHANGED same
      BY <2>2 DEF Quietly
    <3> QED BY <1>0, <2>0, <2>a, <3>1, <3>2, <3>3, OrderCalm
  <2>3. CASE SendsHistory
    <3>1. PICK c \in Clients, pkts \in Seq(Packets) :
            /\ Flows({Down(c)}, pkts)
            /\ \A u \in 1..Len(pkts) :
                 \/ pkts[u].cmd \in Asks
                 \/ \E g \in AllGroups :
                      /\ pkts[u] \in Kept(Parent[c], g, pkts[u].client)
                      /\ pkts[u].client \in Clients
      BY <2>3 DEF SendsHistory
    <3>2. pkts \in Seq(Cargoes)
      BY CargoSeqs
    <3>3. ASSUME NEW l \in Links, NEW u \in 1..Len(pkts),
                 l \in {Down(c)}, pkts[u].cmd \in MsgCommands
          PROVE  \E d \in Clients, g \in AllGroups, s \in Clients :
                   l = Down(d) /\ pkts[u] \in Kept(Parent[d], g, s)
      <4>1. pkts[u].cmd \notin Asks
        BY <3>3 DEF Asks, MsgCommands
      <4> QED BY <3>1, <3>3, <4>1
    <3>4. UNCHANGED same
      BY <2>3 DEF SendsHistory
    <3> QED BY <1>0, <2>0, <2>a, <3>1, <3>2, <3>3, <3>4, OrderCalm
  <2>4. CASE Synchronizes
    BY <1>0, <2>4, OrderSynchronizes DEF Synchronizes
  <2>5. CASE Starts
    <3>1. PICK m \in Children : NodeStart(m)
      BY <2>5 DEF Starts
    <3>2. PICK hello \in Hellos : Flows({Up(m)}, <<hello>>)
      BY <1>0, <3>1, NodeStartFlows
    <3>3. PICK pkts : pkts = <<hello>>
      OBVIOUS
    <3>4. pkts \in Seq(Cargoes) /\
          \A u \in 1..Len(pkts) : pkts[u].cmd \notin MsgCommands
      BY <3>3 DEF Cargoes, Hellos, MsgCommands
    <3>5. Flows({Up(m)}, pkts)
      BY <3>2, <3>3
    <3>6. UNCHANGED same
      BY <1>0, <3>1, NodeStartFlows
    <3> QED BY <1>0, <2>0, <2>a, <3>4, <3>5, <3>6, OrderCalm
  <2>6. CASE Receives
    <3>1. PICK c \in Clients : ClientReceive(c)
      BY <2>6 DEF Receives
    <3>2. PICK pkts : pkts = <<>>
      OBVIOUS
    <3>3. pkts \in Seq(Cargoes) /\ 1..Len(pkts) = {} /\ Flows({}, pkts)
      BY <1>0, <3>1, <3>2, ReceiveIs
    <3>4. /\ queue[Down(c)] # <<>>
          /\ \A d \in Clients : got'[d] = IF d = c
               THEN Append(got[d], queue[Down(c)][1]) ELSE got[d]
      BY <1>0, <3>1, ReceiveIs
    <3>5. history' = history /\ secoPPSet' = secoPPSet
      BY <1>0, <3>1, ReceiveIs DEF tables
    <3>6. /\ \A n \in Nodes, g \in AllGroups, s \in Clients :
               history'[n][g][s] = history[n][g][s]
          /\ \A n \in Nodes : secoPPSet[n] \subseteq secoPPSet'[n]
      BY <3>5
    <3>7. ASSUME NEW d \in Clients, NEW i \in 1..Len(got'[d])
          PROVE  \/ \E j \in 1..Len(got[d]) : got'[d][i] = got[d][j]
                 \/ \E j \in 1..Len(queue[Down(d)]) : got'[d][i] = queue[Down(d)][j]
      <4>1. CASE d # c
        BY <3>4, <3>7, <4>1
      <4>2. CASE d = c
        <5>1. PICK a \in Seq(Packets) : a = got[c]
          BY <1>0, TypeInvIs
        <5>2. got'[d] = Append(a, queue[Down(c)][1])
          BY <3>4, <4>2, <5>1
        <5>3. \/ i \in 1..Len(a) /\ got'[d][i] = a[i]
              \/ got'[d][i] = queue[Down(c)][1]
          BY <3>7, <5>2
        <5>4. 1 \in 1..Len(queue[Down(c)])
          <6>1. Down(c) \in Links
            BY ClientEnds, LinksDiffer
          <6> QED BY <1>0, <3>4, <6>1, TypeInvIs, HeadIs
        <5> QED BY <4>2, <5>1, <5>3, <5>4
      <4> QED BY <4>1, <4>2
    <3>8. \A u \in 1..Len(pkts) : pkts[u].cmd \notin MsgCommands
      BY <3>3
    <3>9. pkts \in Seq(Cargoes) /\ Flows({}, pkts)
      BY <3>3
    <3> QED BY <1>0, <2>0, <3>6, <3>7, <3>8, <3>9, OrderCalm
  <2>7. Burial \/ Quietly \/ SendsHistory \/ Synchronizes \/ Receives \/ Starts
          \/ Routing
    BY <1>0, <1>3, Zenon DEF Calm
  <2> QED BY <1>2, <2>1, <2>2, <2>3, <2>4, <2>5, <2>6, <2>7, Zenon
<1> QED BY <1>1, <1>3

----------------------------------------------------------------------------
(* What a step does to a client *)

\* Client c gets pkts, and of the packets that it has not received it loses
\* none but some of D.
Gets(c, D, pkts) ==
  \E r \in Seq(Packets) :
    /\ Spares(r, Stream(c), D)
    /\ Stream(c)' = IF conn[c] = "on" THEN r \o pkts ELSE r

\* It does not connect, and becomes a member of no group ...
Remains(c) ==
  /\ conn'[c] = "on" => conn[c] = "on"
  /\ \A g \in AllGroups :
       c \in members'[Parent[c]][g] => c \in members[Parent[c]][g]

\* ... and the history of its node stays, and so does the join it is in.
Unmoved(c) ==
  /\ \A g \in AllGroups, s \in Clients :
       history'[Parent[c]][g][s] = history[Parent[c]][g][s]
  /\ join'[c] = join[c]

\* It gets no messages and no answer to a join ...
Waits(c) ==
  /\ Remains(c) /\ Unmoved(c)
  /\ \E pkts \in Seq(Packets) :
       /\ Gets(c, {}, pkts)
       /\ \A u \in 1..Len(pkts) : pkts[u].cmd \notin MsgCommands \cup {"JOIN_GROUP"}

\* ... or an answer to a join at once, with the history of the group ...
Admitted(c) ==
  /\ conn'[c] = "on" => conn[c] = "on"
  /\ Unmoved(c)
  /\ \E g \in AllGroups, p \in Notes :
       /\ p.cmd = "JOIN_GROUP" /\ p.group = g
       /\ \A h \in AllGroups : c \in members'[Parent[c]][h] =>
            h = g \/ c \in members[Parent[c]][h]
       /\ Gets(c, {}, <<p>> \o getMsgs(Parent[c], g))

\* ... or its connection ends ...
Cut(c) ==
  /\ conn'[c] # "on" /\ Stream(c)' = got[c]
  /\ join'[c] \in {join[c], Idle}

\* ... or its node routes a message ...
Relayed(c) ==
  \E n \in Nodes, k \in Links, p \in Msgs : \E targets :
    n = Parent[c] /\ RoutesFrom(n, k, p, targets)

\* ... or buries somebody.
Buried(c) ==
  /\ Remains(c)
  /\ \E cs \in SUBSET Clients, news \in Seq(Packets) :
       /\ \A g \in AllGroups, s \in Clients : history'[Parent[c]][g][s] =
            IF s \in cs THEN <<>> ELSE history[Parent[c]][g][s]
       /\ join' = JoinWithout(Parent[c], KeptFrom(Parent[c], cs))
       /\ Gets(c, KeptFrom(Parent[c], cs), news)
       /\ \A u \in 1..Len(news) : news[u].cmd = "CLIENT_DISCONNECTED"

ClientStep(c) ==
  \/ Waits(c) \/ Admitted(c) \/ Cut(c) \/ Relayed(c) \/ Buried(c)
  \/ Connect(c) \/ KnownJoin(c) \/ JoinStep(c)

\* Lemma: what a client has received and what is on its way to it.
LEMMA StreamIs ==
  ASSUME TypeInv, NEW c \in Clients
  PROVE  /\ got[c] \in Seq(Packets) /\ queue[Down(c)] \in Seq(Packets)
         /\ Stream(c) = got[c] \o queue[Down(c)] /\ Stream(c) \in Seq(Packets)
         /\ Down(c) \in Links /\ Down(c)[1] = Parent[c] /\ Down(c)[2] = c
         /\ Open(Down(c)) <=> conn[c] = "on"
<1>1. /\ Down(c) \in Links /\ Down(c)[1] = Parent[c] /\ Down(c)[2] = c
      /\ \A m \in Children : Down(c) # Up(m)
  BY ClientEnds, ChildEnds, LinksDiffer, LinkEnds
<1>2. Cargo(Down(c)) = Packets
  BY <1>1 DEF Cargo
<1>3. got[c] \in Seq(Packets) /\ queue[Down(c)] \in Seq(Packets)
  BY <1>1, <1>2, TypeInvIs DEF Queues
<1>4. Stream(c) = got[c] \o queue[Down(c)] /\ Stream(c) \in Seq(Packets)
  BY <1>3 DEF Stream
<1>5. Open(Down(c)) <=> conn[c] = "on"
  BY <1>1 DEF Open
<1> QED BY <1>1, <1>3, <1>4, <1>5

\* Lemma: sequences may be joined in any order.
LEMMA ConcatTwice ==
  ASSUME NEW S, NEW s \in Seq(S), NEW t \in Seq(S), NEW u \in Seq(S)
  PROVE  s \o (t \o u) = (s \o t) \o u
BY ConcatAssociative

\* Lemmas: a client is sent pkts after others were marked deprecated ...
LEMMA GetsIf ==
  ASSUME TypeInv, NEW c \in Clients, got'[c] = got[c], NEW D,
         NEW r \in Seq(Packets), Spares(r, queue[Down(c)], D),
         NEW pkts \in Seq(Packets),
         queue'[Down(c)] = IF conn[c] = "on" THEN r \o pkts ELSE r
  PROVE  Gets(c, D, pkts)
<1>1. PICK a \in Seq(Packets), b \in Seq(Packets) :
        a = got[c] /\ b = queue[Down(c)] /\ Stream(c) = a \o b
  BY StreamIs
<1>2. Spares(a, a, D)
  BY SparesSelf
<1>3. Spares(a \o r, a \o b, D)
  BY <1>1, <1>2, SparesBoth
<1>4. a \o r \in Seq(Packets)
  OBVIOUS
<1>5. Stream(c)' = a \o queue'[Down(c)]
  BY <1>1 DEF Stream
<1>6. Stream(c)' = IF conn[c] = "on" THEN (a \o r) \o pkts ELSE a \o r
  <2>1. a \o (r \o pkts) = (a \o r) \o pkts
    BY ConcatTwice
  <2> QED BY <1>5, <2>1
<1> QED BY <1>1, <1>3, <1>4, <1>6 DEF Gets

\* ... nothing is sent to it ...
LEMMA GetsNone ==
  ASSUME TypeInv, NEW c \in Clients, got'[c] = got[c],
         queue'[Down(c)] = queue[Down(c)]
  PROVE  Gets(c, {}, <<>>)
<1>1. PICK b \in Seq(Packets) : b = queue[Down(c)]
  BY StreamIs
<1>2. Spares(b, b, {})
  BY SparesSelf
<1>3. b \o <<>> = b
  OBVIOUS
<1>4. <<>> \in Seq(Packets)
  OBVIOUS
<1>5. PICK e \in Seq(Packets) : e = <<>>
  BY <1>4
<1>6. queue'[Down(c)] = IF conn[c] = "on" THEN b \o e ELSE b
  BY <1>1, <1>3, <1>5
<1>7. Gets(c, {}, e)
  BY <1>1, <1>2, <1>6, GetsIf
<1> QED BY <1>5, <1>7

\* ... some is sent.
LEMMA GetsSent ==
  ASSUME TypeInv, NEW c \in Clients, got'[c] = got[c], NEW q \in Queues,
         q[Down(c)] = queue[Down(c)], NEW links, NEW pkts \in Seq(Packets),
         queue' = Sent(q, links, pkts)
  PROVE  IF Down(c) \in links THEN Gets(c, {}, pkts) ELSE Gets(c, {}, <<>>)
<1>0. Down(c) \in Links /\ (Open(Down(c)) <=> conn[c] = "on")
  BY StreamIs
<1>a. \A l \in Links : queue'[l] = IF l \in links /\ Open(l) THEN q[l] \o pkts
                                   ELSE q[l]
  BY SentIs
<1>1. queue'[Down(c)] = IF Down(c) \in links /\ conn[c] = "on"
                        THEN q[Down(c)] \o pkts ELSE q[Down(c)]
  BY <1>0, <1>a
<1>2. CASE Down(c) \in links
  <2>1. PICK b \in Seq(Packets) : b = queue[Down(c)]
    BY StreamIs
  <2>2. Spares(b, b, {})
    BY SparesSelf
  <2>3. queue'[Down(c)] = IF conn[c] = "on" THEN b \o pkts ELSE b
    BY <1>1, <1>2, <2>1
  <2>4. Gets(c, {}, pkts)
    BY <2>1, <2>2, <2>3, GetsIf
  <2> QED BY <1>2, <2>4
<1>3. CASE Down(c) \notin links
  <2>1. queue'[Down(c)] = queue[Down(c)]
    BY <1>1, <1>3
  <2>2. Gets(c, {}, <<>>)
    BY <2>1, GetsNone
  <2> QED BY <1>3, <2>2
<1> QED BY <1>2, <1>3

\* Lemma: nothing is sent to a client that is not connected.
LEMMA GetsOff ==
  ASSUME NEW c \in Clients, conn[c] # "on", NEW D, NEW pkts, NEW none,
         Gets(c, D, pkts)
  PROVE  Gets(c, D, none)
BY DEF Gets

\* Lemma: a client receives what was on its way.
LEMMA GetsReceived ==
  ASSUME TypeInv, NEW c \in Clients, NEW d \in Clients, ClientReceive(d)
  PROVE  Gets(c, {}, <<>>)
<1>0. /\ got[c] \in Seq(Packets) /\ queue[Down(c)] \in Seq(Packets)
      /\ Stream(c) = got[c] \o queue[Down(c)]
  BY StreamIs
<1>1. PICK a \in Seq(Packets), b \in Seq(Packets) :
        a = got[c] /\ b = queue[Down(c)] /\ Stream(c) = a \o b
  BY <1>0
<1>2. /\ \A l \in Links : queue'[l] = IF l = Down(d) THEN Tail(queue[l])
                                      ELSE queue[l]
      /\ \A x \in Clients : got'[x] = IF x = d
           THEN Append(got[x], queue[Down(d)][1]) ELSE got[x]
      /\ queue[Down(d)] # <<>>
  BY ReceiveIs
<1>3. Down(c) \in Links /\ (Down(c) = Down(d) => c = d)
  BY ClientEnds, LinksDiffer
<1>4. Stream(c)' = Stream(c)
  <2>1. CASE c = d
    <3>1. b # <<>> /\ queue'[Down(c)] = Tail(b) /\ got'[c] = Append(a, b[1])
      BY <1>1, <1>2, <1>3, <2>1
    <3>2. Append(a, b[1]) \o Tail(b) = a \o b
      <4>1. /\ Append(a, b[1]) = a \o <<b[1]>> /\ b = <<b[1]>> \o Tail(b)
            /\ <<b[1]>> \in Seq(Packets) /\ Tail(b) \in Seq(Packets)
        BY <3>1
      <4>2. PICK x, t : x = <<b[1]>> /\ t = Tail(b)
        OBVIOUS
      <4>3. (a \o x) \o t = a \o (x \o t)
        BY <4>1, <4>2, ConcatAssociative
      <4> QED BY <4>1, <4>2, <4>3
    <3>3. Stream(c)' = Append(a, b[1]) \o Tail(b)
      BY <3>1 DEF Stream
    <3> QED BY <1>1, <3>2, <3>3
  <2>2. CASE c # d
    BY <1>2, <1>3, <2>2 DEF Stream
  <2> QED BY <2>1, <2>2
<1>5. PICK s \in Seq(Packets) : s = Stream(c)
  BY StreamIs
<1>6. Spares(s, s, {})
  BY SparesSelf
<1>7. s \o <<>> = s
  OBVIOUS
<1> QED BY <1>4, <1>5, <1>6, <1>7 DEF Gets

\* Lemma: what is not sent over a link.
LEMMA SentElse ==
  ASSUME NEW q, NEW links, NEW pkts, NEW l \in Links, l \notin links
  PROVE  Sent(q, links, pkts)[l] = q[l]
BY DEF Sent

\* Lemma: another link is taken from.
LEMMA TakenElse ==
  ASSUME TypeInv, NEW k \in Links, NEW l \in Links, l # k
  PROVE  Taken(k)[l] = queue[l]
BY TypeInvIs DEF Taken, Queues

\* Lemma: the links that are not a client's.
LEMMA OtherLinks ==
  ASSUME NEW c \in Clients
  PROVE  /\ Down(c) \in Links
         /\ \A x \in Ends : Up(x) # Down(c) /\ Up(x) \in Links
         /\ \A x \in Ends : x # c => Down(x) # Down(c)
BY ClientEnds, LinksDiffer

\* Lemma: it waits when nothing of the kind happens to it ...
LEMMA WaitsIf ==
  ASSUME TypeInv, NEW c \in Clients, Remains(c), Unmoved(c), Gets(c, {}, <<>>)
  PROVE  Waits(c)
<1>0. <<>> \in Seq(Packets) /\ Len(<<>>) = 0
  OBVIOUS
<1>1. PICK e \in Seq(Packets) : e = <<>> /\ Len(e) = 0
  BY <1>0
<1>2. \A u \in 1..Len(e) : e[u].cmd \notin MsgCommands \cup {"JOIN_GROUP"}
  BY <1>1
<1> QED BY <1>1, <1>2 DEF Waits

\* ... and when it is sent one packet of another kind.
LEMMA WaitsFor ==
  ASSUME TypeInv, NEW c \in Clients, Remains(c), Unmoved(c),
         NEW p \in Packets, p.cmd \notin MsgCommands \cup {"JOIN_GROUP"},
         NEW pkts, pkts = <<p>>, Gets(c, {}, pkts)
  PROVE  Waits(c)
<1>1. pkts \in Seq(Packets) /\ \A u \in 1..Len(pkts) : pkts[u] = p
  OBVIOUS
<1> QED BY <1>1 DEF Waits

\* Lemma: others become members or leave.
LEMMA RemainsIf ==
  ASSUME TypeInv, NEW c \in Clients, conn' = conn,
         NEW x \in Nodes, NEW g \in AllGroups, NEW S \in SUBSET Clients,
         x = Parent[c] /\ c \in S => c \in members[x][g],
         members' = [members EXCEPT ![x][g] = S]
  PROVE  Remains(c)
<1>1. members \in [Nodes -> [AllGroups -> SUBSET Clients]] /\ Parent[c] \in Nodes
  BY TypeInvIs, ClientEnds
<1>2. members'[Parent[c]] = IF Parent[c] = x
        THEN [members[x] EXCEPT ![g] = S] ELSE members[Parent[c]]
  BY <1>1
<1>3. members[x] \in [AllGroups -> SUBSET Clients]
  BY <1>1
<1>4. \A h \in AllGroups : [members[x] EXCEPT ![g] = S][h] =
        IF h = g THEN S ELSE members[x][h]
  BY <1>3
<1>5. \A h \in AllGroups : c \in members'[Parent[c]][h] => c \in members[Parent[c]][h]
  BY <1>2, <1>4
<1> QED BY <1>5 DEF Remains

\* Lemma: the steps of the clients.
LEMMA ClientStepsOwn ==
  ASSUME TypeInv, NEW c \in Clients, NEW d \in Clients,
         \/ Connect(d) \/ Request(d) \/ ClientReceive(d) \/ Disconnect(d)
         \/ \E cmd \in Kinds, g \in Groups : Send(d, cmd, g)
  PROVE  ClientStep(c)
<1>0. /\ Down(c) \in Links /\ Up(d) # Down(c) /\ d \in Ends
      /\ (d # c => Down(d) # Down(c))
  BY OtherLinks, ClientEnds
<1>1. ASSUME UNCHANGED <<join, tables>>, conn'[c] = "on" => conn[c] = "on"
      PROVE  Remains(c) /\ Unmoved(c)
  BY <1>1 DEF Remains, Unmoved, tables
<1>2. ASSUME UNCHANGED <<join, tables, got>>, queue'[Down(c)] = queue[Down(c)],
             conn'[c] = "on" => conn[c] = "on"
      PROVE  Waits(c)
  BY <1>1, <1>2, WaitsIf, GetsNone
<1>3. CASE Request(d)
  <2>1. PICK p : queue' = Sent(queue, {Up(d)}, p)
    BY <1>3 DEF Request
  <2>2. queue'[Down(c)] = queue[Down(c)]
    BY <1>0, <2>1, SentElse
  <2>3. UNCHANGED <<join, tables, got, conn>>
    BY <1>3 DEF Request
  <2> QED BY <1>2, <2>2, <2>3 DEF ClientStep
<1>4. CASE \E cmd \in Kinds, g \in Groups : Send(d, cmd, g)
  <2>1. PICK p : queue' = Sent(queue, {Up(d)}, p)
    BY <1>4 DEF Send
  <2>2. queue'[Down(c)] = queue[Down(c)]
    BY <1>0, <2>1, SentElse
  <2>3. UNCHANGED <<join, tables, got, conn>>
    BY <1>4 DEF Send
  <2> QED BY <1>2, <2>2, <2>3 DEF ClientStep
<1>5. CASE ClientReceive(d)
  <2>1. UNCHANGED <<join, tables, conn>>
    BY <1>5 DEF ClientReceive
  <2>2. Gets(c, {}, <<>>)
    BY <1>5, GetsReceived
  <2> QED BY <1>1, <2>1, <2>2, WaitsIf DEF ClientStep
<1>6. CASE Disconnect(d)
  <2>1. /\ UNCHANGED <<join, tables, got>>
        /\ conn' = [conn EXCEPT ![d] = "closed"]
        /\ queue' = [queue EXCEPT ![Down(d)] = <<>>]
    BY <1>6 DEF Disconnect
  <2>2. /\ conn \in [Clients -> {"off", "on", "closed", "gone"}]
        /\ queue \in Queues
    BY TypeInvIs
  <2>3. CASE d = c
    <3>1. conn'[c] = "closed"
      BY <2>1, <2>2, <2>3
    <3>2. queue'[Down(c)] = <<>>
      BY <1>0, <2>1, <2>2, <2>3, EmptiedIs
    <3>3. PICK a \in Seq(Packets) : a = got[c]
      BY StreamIs
    <3>4. a \o <<>> = a
      OBVIOUS
    <3>5. Stream(c)' = got[c]
      BY <2>1, <3>2, <3>3, <3>4 DEF Stream
    <3>6. Cut(c)
      BY <2>1, <3>1, <3>5 DEF Cut
    <3> QED BY <3>6 DEF ClientStep
  <2>4. CASE d # c
    <3>1. conn'[c] = conn[c]
      BY <2>1, <2>2, <2>4
    <3>2. queue'[Down(c)] = queue[Down(c)]
      <4>1. Down(d) \in Links
        BY OtherLinks
      <4> QED BY <1>0, <2>1, <2>2, <2>4, <4>1, EmptiedIs
    <3> QED BY <1>2, <2>1, <3>1, <3>2 DEF ClientStep
  <2> QED BY <2>3, <2>4
<1>7. CASE Connect(d)
  <2>1. CASE d = c
    BY <1>7, <2>1 DEF ClientStep
  <2>2. CASE d # c
    <3>1. conn'[c] = conn[c] /\ UNCHANGED <<queue, members, history>>
      BY <1>7, <2>2, ConnectIs
    <3>2. UNCHANGED <<join, got>>
      BY <1>7 DEF Connect
    <3>3. Remains(c) /\ Unmoved(c)
      BY <3>1, <3>2 DEF Remains, Unmoved
    <3>4. Gets(c, {}, <<>>)
      BY <3>1, <3>2, GetsNone
    <3> QED BY <3>3, <3>4, WaitsIf DEF ClientStep
  <2> QED BY <2>1, <2>2
<1> QED BY <1>3, <1>4, <1>5, <1>6, <1>7

\* Lemma: a packet is taken from another link than the client's, and others are
\* sent.
LEMMA TakenSent ==
  ASSUME TypeInv, NEW c \in Clients, NEW k \in Links, k # Down(c), queue[k] # <<>>,
         got' = got, NEW links, NEW pkts \in Seq(Packets),
         queue' = Sent(Taken(k), links, pkts)
  PROVE  IF Down(c) \in links THEN Gets(c, {}, pkts) ELSE Gets(c, {}, <<>>)
<1>1. PICK q \in Queues : q = Taken(k)
  BY TypeInvIs, TakenIs
<1>2. q[Down(c)] = queue[Down(c)]
  BY <1>1, OtherLinks, TakenElse
<1> QED BY <1>1, <1>2, GetsSent

\* Lemma: a packet is taken, and the client gets nothing.
LEMMA TakenOnly ==
  ASSUME TypeInv, NEW c \in Clients, NEW k \in Links, k # Down(c), got' = got,
         \/ queue' = Taken(k)
         \/ \E links, pkts : Down(c) \notin links /\ queue' = Sent(Taken(k), links, pkts)
  PROVE  Gets(c, {}, <<>>)
<1>1. queue'[Down(c)] = queue[Down(c)]
  BY OtherLinks, TakenElse, SentElse
<1> QED BY <1>1, GetsNone

\* Lemma: the thread of a client, but for messages and ends.
LEMMA ClientStepsLink ==
  ASSUME TypeInv, NEW c \in Clients, NEW d \in Clients, ClientLink(d),
         ~routeToGroup(d), ~ClientGone(d)
  PROVE  ClientStep(c)
<1>0. /\ Up(d) \in Links /\ Up(d) # Down(c) /\ d \in Ends /\ Parent[d] \in Nodes
      /\ Down(c) \in Links /\ (d # c => Down(d) # Down(c))
  BY OtherLinks, ClientEnds
<1>1. ASSUME UNCHANGED <<join, history, conn, members>>
      PROVE  Remains(c) /\ Unmoved(c)
  BY <1>1 DEF Remains, Unmoved
<1>2. ASSUME UNCHANGED <<join, history, conn, members>>, Gets(c, {}, <<>>)
      PROVE  ClientStep(c)
  BY <1>1, <1>2, WaitsIf DEF ClientStep
<1>3. PICK p : p = Head(queue[Up(d)])
  OBVIOUS
<1>4. ASSUME NEW cmds, Reads(d, cmds), "HELLO_SECO" \notin cmds
      PROVE  /\ queue[Up(d)] # <<>> /\ p \in Packets /\ <<p>> \in Seq(Packets)
             /\ p.cmd \in cmds
  BY <1>0, <1>3, <1>4, ReadsIs
<1>5. ASSUME NEW cmds, Reads(d, cmds), cmds \subseteq Asks
      PROVE  p \in Notes /\ p.group \in AllGroups
  <2>1. "HELLO_SECO" \notin Asks /\ "CLIENT_DISCONNECTED" \notin Asks
    BY DEF Asks
  <2>2. p \in Packets /\ p.cmd \in Asks
    BY <1>4, <1>5, <2>1
  <2>3. p.cmd \notin MsgCommands
    BY <2>2 DEF Asks, MsgCommands
  <2> QED BY <2>2, <2>3, PacketKinds
<1>6. CASE RootJoin(d)
  <2>1. /\ Parent[d] = Root /\ Reads(d, {"JOIN_GROUP"})
        /\ members' = [members EXCEPT ![Root][p.group] = @ \cup {d}]
        /\ queue' = Sent(Taken(Up(d)), {Down(d)}, <<p>> \o getMsgs(Root, p.group))
        /\ UNCHANGED <<join, history, conn, got>>
    BY <1>3, <1>6 DEF RootJoin
  <2>2. p \in Notes /\ p.group \in AllGroups /\ p.cmd = "JOIN_GROUP"
        /\ queue[Up(d)] # <<>> /\ <<p>> \in Seq(Packets)
    BY <1>4, <1>5, <2>1 DEF Asks
  <2>3. PICK g \in AllGroups : g = p.group
    BY <2>2
  <2>4. PICK msgs : msgs = getMsgs(Root, g)
    OBVIOUS
  <2>5. msgs \in Seq(Packets)
    BY <1>0, <2>1, <2>4, HistoriesAre, MsgsArePackets
  <2>6. <<p>> \o msgs \in Seq(Packets)
    BY <2>2, <2>5
  <2>7. PICK pkts \in Seq(Packets) : pkts = <<p>> \o msgs
    BY <2>6
  <2>8. queue' = Sent(Taken(Up(d)), {Down(d)}, pkts)
    BY <2>1, <2>3, <2>4, <2>7
  <2>9. Unmoved(c)
    BY <2>1 DEF Unmoved
  <2>10. CASE d = c
    <3>1. Gets(c, {}, pkts)
      BY <1>0, <2>1, <2>2, <2>8, <2>10, TakenSent
    <3>2. members \in [Nodes -> [AllGroups -> SUBSET Clients]] /\ Root \in Nodes
      BY TypeInvIs DEF Nodes
    <3>3. members[Root] \in [AllGroups -> SUBSET Clients]
      BY <3>2
    <3>4. \A h \in AllGroups : h # g => members'[Root][h] = members[Root][h]
      BY <2>1, <2>3, <3>2, <3>3
    <3>5. Admitted(c)
      BY <2>1, <2>2, <2>3, <2>4, <2>7, <2>9, <2>10, <3>1, <3>4 DEF Admitted
    <3> QED BY <3>5 DEF ClientStep
  <2>11. CASE d # c
    <3>1. Gets(c, {}, <<>>)
      BY <1>0, <2>1, <2>8, <2>11, TakenOnly
    <3>a. PICK x \in Nodes : x = Root
      BY DEF Nodes
    <3>b. members[x][g] \in SUBSET Clients
      BY TypeInvIs
    <3>2. PICK S \in SUBSET Clients : S = members[x][g] \cup {d}
      BY <3>b
    <3>3. members' = [members EXCEPT ![x][g] = S]
      BY <2>1, <2>3, <3>2, <3>a
    <3>5. conn' = conn /\ (x = Parent[c] /\ c \in S => c \in members[x][g])
      BY <2>1, <2>11, <3>2
    <3>4. Remains(c)
      BY <3>3, <3>5, RemainsIf
    <3> QED BY <2>9, <3>1, <3>4, WaitsIf DEF ClientStep
  <2> QED BY <2>10, <2>11
<1>7. CASE KnownJoin(d)
  <2>1. CASE d = c
    BY <1>7, <2>1 DEF ClientStep
  <2>2. CASE d # c
    <3>1. /\ Reads(d, {"JOIN_GROUP"}) /\ UNCHANGED <<history, conn, got>>
          /\ members' = [members EXCEPT ![Parent[d]][p.group] = @ \cup {d}]
          /\ join' = [join EXCEPT ![d] = [pc |-> "reply", group |-> p.group,
                                          rest |-> <<>>]]
          /\ queue' = Taken(Up(d))
      BY <1>3, <1>7 DEF KnownJoin
    <3>2. PICK g \in AllGroups : g = p.group
      BY <1>5, <3>1 DEF Asks
    <3>3. PICK x \in Nodes : x = Parent[d]
      BY <1>0
    <3>a. members[x][g] \in SUBSET Clients
      BY TypeInvIs
    <3>4. PICK S \in SUBSET Clients : S = members[x][g] \cup {d}
      BY <3>a
    <3>5. members' = [members EXCEPT ![x][g] = S]
      BY <3>1, <3>2, <3>3, <3>4
    <3>6. Remains(c)
      BY <2>2, <3>1, <3>4, <3>5, RemainsIf
    <3>7. join'[c] = join[c]
      BY <2>2, <3>1, TypeInvIs
    <3>8. Unmoved(c)
      BY <3>1, <3>7 DEF Unmoved
    <3>9. Gets(c, {}, <<>>)
      BY <1>0, <3>1, TakenOnly
    <3> QED BY <3>6, <3>8, <3>9, WaitsIf DEF ClientStep
  <2> QED BY <2>1, <2>2
<1>8. CASE JoinStep(d)
  <2>1. CASE d = c
    BY <1>8, <2>1 DEF ClientStep
  <2>2. CASE d # c
    <3>1. UNCHANGED <<conn, tables, got>>
      BY <1>8 DEF JoinStep, JoinReply, JoinHistory, JoinSend
    <3>2. join'[c] = join[c]
      <4>1. join \in [Clients -> JoinStates]
        BY TypeInvIs
      <4>2. \E j : join' = [join EXCEPT ![d] = j]
        BY <1>8 DEF JoinStep, JoinReply, JoinHistory, JoinSend
      <4> QED BY <2>2, <4>1, <4>2
    <3>3. queue'[Down(c)] = queue[Down(c)]
      <4>1. \/ queue' = queue \/ \E pkts : queue' = Sent(queue, {Down(d)}, pkts)
        BY <1>8 DEF JoinStep, JoinReply, JoinHistory, JoinSend
      <4> QED BY <1>0, <2>2, <4>1, SentElse
    <3>4. Gets(c, {}, <<>>)
      BY <3>1, <3>3, GetsNone
    <3>5. Remains(c) /\ Unmoved(c)
      BY <3>1, <3>2 DEF Remains, Unmoved, tables
    <3> QED BY <3>4, <3>5, WaitsIf DEF ClientStep
  <2> QED BY <2>1, <2>2
<1>9. CASE leaveGroup(d)
  <2>1. /\ Reads(d, {"LEAVE_GROUP"}) /\ UNCHANGED <<history, conn, got, join>>
        /\ \/ members' = members
           \/ members' = [members EXCEPT ![Parent[d]][p.group] = @ \ {d}]
        /\ queue' = Taken(Up(d))
    BY <1>3, <1>9 DEF leaveGroup
  <2>2. Gets(c, {}, <<>>)
    BY <1>0, <2>1, TakenOnly
  <2>3. PICK g \in AllGroups : g = p.group
    BY <1>5, <2>1 DEF Asks
  <2>4. PICK x \in Nodes : x = Parent[d]
    BY <1>0
  <2>5. Unmoved(c)
    BY <2>1 DEF Unmoved
  <2>6. Remains(c)
    <3>1. CASE members' = members
      BY <2>1, <3>1 DEF Remains
    <3>2. CASE members' = [members EXCEPT ![Parent[d]][p.group] = @ \ {d}]
      <4>a. members[x][g] \in SUBSET Clients
        BY TypeInvIs
      <4>1. PICK S \in SUBSET Clients : S = members[x][g] \ {d}
        BY <4>a
      <4>2. members' = [members EXCEPT ![x][g] = S]
        BY <2>3, <2>4, <3>2, <4>1
      <4> QED BY <2>1, <4>1, <4>2, RemainsIf
    <3> QED BY <2>1, <3>1, <3>2
  <2> QED BY <2>2, <2>5, <2>6, WaitsIf DEF ClientStep
<1>10. CASE IgnoreMessage(d)
  <2>1. UNCHANGED <<join, history, conn, members, got>> /\ queue' = Taken(Up(d))
    BY <1>10 DEF IgnoreMessage, tables
  <2>2. Gets(c, {}, <<>>)
    BY <1>0, <2>1, TakenOnly
  <2> QED BY <1>2, <2>1, <2>2
<1>11. CASE DownReply(d)
  <2>1. /\ UNCHANGED <<join, history, conn, members, got>>
        /\ Reads(d, {"GET_GROUP_ID"})
        /\ queue' = Sent(Taken(Up(d)), {Down(d)}, <<p>>)
    BY <1>3, <1>11 DEF DownReply
  <2>2. /\ p \in Packets /\ p.cmd = "GET_GROUP_ID" /\ queue[Up(d)] # <<>>
        /\ <<p>> \in Seq(Packets)
    BY <1>4, <2>1
  <2>3. PICK pkts \in Seq(Packets) : pkts = <<p>>
    BY <2>2
  <2>4. queue' = Sent(Taken(Up(d)), {Down(d)}, pkts)
    BY <2>1, <2>3
  <2>5. Gets(c, {}, pkts) \/ Gets(c, {}, <<>>)
    BY <1>0, <2>1, <2>2, <2>4, TakenSent
  <2>6. p.cmd \notin MsgCommands \cup {"JOIN_GROUP"}
    BY <2>2 DEF MsgCommands
  <2> QED BY <1>1, <1>2, <2>1, <2>2, <2>3, <2>5, <2>6, WaitsFor DEF ClientStep
<1>12. CASE DownForward(d)
  <2>1. /\ UNCHANGED <<join, history, conn, members, got>>
        /\ Parent[d] # Root
        /\ queue' = Sent(Taken(Up(d)), {Up(Parent[d])}, <<p>>)
    BY <1>3, <1>12 DEF DownForward, tables
  <2>2. Parent[d] \in Ends
    BY <1>0, <2>1 DEF Nodes, Ends
  <2>3. Down(c) \notin {Up(Parent[d])}
    BY <2>2, OtherLinks
  <2>4. Gets(c, {}, <<>>)
    BY <1>0, <2>1, <2>3, TakenOnly
  <2> QED BY <1>2, <2>1, <2>4
<1> QED BY <1>6, <1>7, <1>8, <1>9, <1>10, <1>11, <1>12 DEF ClientLink

\* A client that is connected is one of its node's.
OnIsLocal == \A c \in Clients : conn[c] = "on" => c \in local[Parent[c]]

\* Lemma: a node ends.
LEMMA ClientStepsEnded ==
  ASSUME TypeInv, NEW c \in Clients, NEW m \in Children, Ended(m)
  PROVE  ClientStep(c)
<1>1. /\ Down(c) \in Links /\ Down(c)[1] = Parent[c] /\ Down(c)[2] = c
      /\ m # c /\ \A x \in Ends : Up(x) # Down(c)
  BY ClientEnds, ChildEnds, OtherLinks, LinkEnds
<1>2. /\ conn'[c] = IF Parent[c] = m /\ conn[c] # "off" THEN "gone" ELSE conn[c]
      /\ join'[c] = IF Parent[c] = m THEN Idle ELSE join[c]
      /\ UNCHANGED <<tables, got>>
  BY DEF Ended
<1>3. queue'[Down(c)] = IF Parent[c] = m THEN <<>> ELSE queue[Down(c)]
  <2>1. Down(c) # Up(m)
    BY <1>1, ChildEnds
  <2>2. queue'[Down(c)] = IF m \in {Down(c)[1], Down(c)[2]} /\ Down(c) # Up(m)
                          THEN <<>> ELSE queue[Down(c)]
    BY <1>1 DEF Ended
  <2> QED BY <1>1, <2>1, <2>2
<1>4. CASE Parent[c] = m
  <2>1. PICK a \in Seq(Packets) : a = got[c]
    BY StreamIs
  <2>2. a \o <<>> = a
    OBVIOUS
  <2>3. Stream(c)' = got[c]
    BY <1>2, <1>3, <1>4, <2>1, <2>2 DEF Stream
  <2>4. conn'[c] # "on"
    BY <1>2, <1>4
  <2> QED BY <1>2, <1>4, <2>3, <2>4 DEF ClientStep, Cut
<1>5. CASE Parent[c] # m
  <2>1. Remains(c) /\ Unmoved(c)
    BY <1>2, <1>5 DEF Remains, Unmoved, tables
  <2>2. Gets(c, {}, <<>>)
    BY <1>2, <1>3, <1>5, GetsNone
  <2> QED BY <2>1, <2>2, WaitsIf DEF ClientStep
<1> QED BY <1>4, <1>5

\* Lemma: the thread of a child node, but for messages and ends.
LEMMA ClientStepsChild ==
  ASSUME TypeInv, NEW c \in Clients, NEW m \in Children,
         synchronizeNewSeCo(m) \/ DownReply(m) \/ DownForward(m) \/ NodeStart(m)
  PROVE  ClientStep(c)
<1>0. /\ Up(m) \in Links /\ Up(m) # Down(c) /\ m \in Ends /\ Parent[m] \in Nodes
      /\ Down(c) \in Links /\ Down(m) # Down(c)
  BY OtherLinks, ClientEnds, ChildEnds
<1>1. ASSUME UNCHANGED <<join, history, conn, members>>, Gets(c, {}, <<>>)
      PROVE  ClientStep(c)
  <2>1. Remains(c) /\ Unmoved(c)
    BY <1>1 DEF Remains, Unmoved
  <2> QED BY <1>1, <2>1, WaitsIf DEF ClientStep
<1>2. CASE synchronizeNewSeCo(m) \/ DownReply(m)
  <2>1. /\ UNCHANGED <<join, history, conn, members, got>>
        /\ \E pkts : queue' = Sent(Taken(Up(m)), {Down(m)}, pkts)
    BY <1>2 DEF synchronizeNewSeCo, DownReply
  <2>2. Gets(c, {}, <<>>)
    BY <1>0, <2>1, TakenOnly
  <2> QED BY <1>1, <2>1, <2>2
<1>3. CASE DownForward(m)
  <2>1. /\ UNCHANGED <<join, history, conn, members, got>>
        /\ Parent[m] # Root
        /\ \E pkts : queue' = Sent(Taken(Up(m)), {Up(Parent[m])}, pkts)
    BY <1>3 DEF DownForward, tables
  <2>2. Down(c) \notin {Up(Parent[m])}
    <3>1. Parent[m] \in Ends
      BY <1>0, <2>1 DEF Nodes, Ends
    <3> QED BY <3>1, OtherLinks
  <2>3. Gets(c, {}, <<>>)
    BY <1>0, <2>1, <2>2, TakenOnly
  <2> QED BY <1>1, <2>1, <2>3
<1>4. CASE NodeStart(m)
  <2>1. /\ UNCHANGED <<join, history, conn, members, got>>
        /\ \E pkts : queue' = [queue EXCEPT ![Up(m)] = pkts]
    BY <1>4 DEF NodeStart, tables
  <2>2. queue'[Down(c)] = queue[Down(c)]
    BY <1>0, <2>1, TypeInvIs DEF Queues
  <2>3. Gets(c, {}, <<>>)
    BY <2>1, <2>2, GetsNone
  <2> QED BY <1>1, <2>1, <2>3
<1> QED BY <1>2, <1>3, <1>4

\* Lemma: UpDataLink has looked up the client itself, if it is of the node.
LEMMA LookedUp ==
  ASSUME TypeInv, Placed, LookupOK, NEW m \in Children, status[m] = "up",
         queue[Down(m)] # <<>>, lookup[m] \notin {"idle", "null"},
         NEW p \in Packets, p = Head(queue[Down(m)])
  PROVE  /\ lookup[m] \in Ends /\ Parent[lookup[m]] = m
         /\ <<m, lookup[m]>> = Down(lookup[m])
         /\ lookup[m] \in Clients => lookup[m] = p.client
         /\ p.client \in local[m] => lookup[m] = p.client
<1>1. lookup[m] \in Chain[p.client] /\ Parent[lookup[m]] = m
  BY DEF LookupOK
<1>2. p.client \in Clients /\ p.client \in Ends
  BY PacketKinds, ClientEnds DEF Packets
<1>3. lookup[m] \in Ends /\ <<m, lookup[m]>> = Down(lookup[m])
  BY <1>1, <1>2, ChainRises DEF Down
<1>4. ASSUME lookup[m] \in Clients
      PROVE  lookup[m] = p.client
  BY <1>1, <1>2, <1>4, ChainNodes, ClientEnds
<1>5. ASSUME p.client \in local[m]
      PROVE  lookup[m] = p.client
  <2>1. Parent[p.client] = m
    BY <1>5, ChildEnds DEF Placed
  <2>2. p.client \in Chain[p.client]
    BY <1>2, ChainRises
  <2> QED BY <1>1, <1>2, <2>1, <2>2, ChainInjective
<1> QED BY <1>1, <1>3, <1>4, <1>5

\* Lemma: the thread that serves the parent, but for messages and ends.
LEMMA ClientStepsUp ==
  ASSUME TypeInv, Placed, LookupOK, OnIsLocal, NEW c \in Clients, NEW m \in Children,
         UpLookup(m) \/ UpReply(m) \/ UpForward(m)
  PROVE  ClientStep(c)
<1>0. /\ Down(m) \in Links /\ Down(m) # Down(c) /\ m \in Ends /\ m \in Nodes
      /\ Down(c) \in Links /\ m # Root
  BY OtherLinks, ClientEnds, ChildEnds, LinksDiffer
<1>1. ASSUME UNCHANGED <<join, history, conn, members>>, Gets(c, {}, <<>>)
      PROVE  ClientStep(c)
  <2>1. Remains(c) /\ Unmoved(c)
    BY <1>1 DEF Remains, Unmoved
  <2> QED BY <1>1, <2>1, WaitsIf DEF ClientStep
<1>2. CASE UpLookup(m)
  <2>1. UNCHANGED <<join, history, conn, members, got, queue>>
    BY <1>2 DEF UpLookup, tables
  <2>2. Gets(c, {}, <<>>)
    BY <2>1, GetsNone
  <2> QED BY <1>1, <2>1, <2>2
<1>3. PICK p : p = Head(queue[Down(m)])
  OBVIOUS
<1>4. ASSUME UpReply(m) \/ UpForward(m)
      PROVE  /\ p \in Notes /\ p \in Packets /\ <<p>> \in Seq(Packets)
             /\ p.group \in AllGroups /\ p.client \in Clients
             /\ p.cmd \in {"JOIN_GROUP", "GET_GROUP_ID"} /\ status[m] = "up"
             /\ queue[Down(m)] # <<>> /\ lookup[m] \notin {"idle", "null"}
  <2>1. Hears(m, {"JOIN_GROUP", "GET_GROUP_ID"}) /\ lookup[m] \notin {"idle", "null"}
    BY <1>4 DEF UpReply, UpForward
  <2>2. /\ p \in Packets /\ <<p>> \in Seq(Packets)
        /\ p.cmd \in {"JOIN_GROUP", "GET_GROUP_ID"} /\ status[m] = "up"
        /\ queue[Down(m)] # <<>>
    BY <1>3, <2>1, HearsIs
  <2>3. p.cmd \notin MsgCommands
    BY <2>2 DEF MsgCommands
  <2> QED BY <2>1, <2>2, <2>3, PacketKinds
<1>5. PICK l : l = <<m, lookup[m]>>
  OBVIOUS
<1>6. ASSUME UpReply(m) \/ UpForward(m)
      PROVE  /\ l = Down(c) => c = p.client /\ Parent[c] = m
             /\ p.client \in local[m] => l = Down(p.client)
  <2>1. /\ lookup[m] \in Ends /\ Parent[lookup[m]] = m /\ l = Down(lookup[m])
        /\ lookup[m] \in Clients => lookup[m] = p.client
        /\ p.client \in local[m] => lookup[m] = p.client
    BY <1>3, <1>4, <1>5, <1>6, LookedUp
  <2>2. l = Down(c) => lookup[m] = c
    BY <2>1, OtherLinks
  <2> QED BY <2>1, <2>2
<1>7. CASE UpForward(m)
  <2>1. /\ UNCHANGED <<join, history, conn, members, got>>
        /\ queue' = Sent(Taken(Down(m)), {l}, <<p>>) /\ p.client \notin local[m]
    BY <1>3, <1>5, <1>7 DEF UpForward, tables
  <2>2. PICK pkts \in Seq(Packets) : pkts = <<p>>
    BY <1>4, <1>7
  <2>3. queue' = Sent(Taken(Down(m)), {l}, pkts)
    BY <2>1, <2>2
  <2>4. IF Down(c) \in {l} THEN Gets(c, {}, pkts) ELSE Gets(c, {}, <<>>)
    BY <1>0, <1>4, <1>7, <2>1, <2>3, TakenSent
  <2>5. Down(c) \in {l} => conn[c] # "on"
    BY <1>6, <1>7, <2>1 DEF OnIsLocal
  <2>6. Gets(c, {}, <<>>)
    BY <2>4, <2>5, GetsOff
  <2> QED BY <1>1, <2>1, <2>6
<1>8. CASE UpReply(m)
  <2>1. PICK msgs : msgs = getMsgs(m, p.group)
    OBVIOUS
  <2>2. msgs \in Seq(Packets)
    BY <1>0, <1>4, <1>8, <2>1, HistoriesAre, MsgsArePackets
  <2>3. /\ UNCHANGED <<join, history, conn, got>> /\ p.client \in local[m]
        /\ members' = IF p.cmd = "JOIN_GROUP"
             THEN [members EXCEPT ![m][p.group] = @ \cup {p.client}] ELSE members
        /\ queue' = Sent(Taken(Down(m)), {l},
             <<p>> \o IF p.cmd = "JOIN_GROUP" THEN msgs ELSE <<>>)
    BY <1>3, <1>5, <1>8, <2>1 DEF UpReply
  <2>4. l = Down(p.client)
    BY <1>6, <1>8, <2>3
  <2>5. c # p.client => Down(c) \notin {l}
    BY <1>4, <1>8, <2>4, ClientEnds, OtherLinks
  <2>6. Unmoved(c)
    BY <2>3 DEF Unmoved
  <2>7. PICK g \in AllGroups : g = p.group
    BY <1>4, <1>8
  <2>8. CASE c # p.client
    <3>1. Gets(c, {}, <<>>)
      BY <1>0, <2>3, <2>5, <2>8, TakenOnly
    <3>2. Remains(c)
      <4>1. CASE members' = members
        BY <2>3, <4>1 DEF Remains
      <4>2. CASE p.cmd = "JOIN_GROUP"
        <5>1. members[m][g] \in SUBSET Clients
          BY <1>0, TypeInvIs
        <5>2. PICK S \in SUBSET Clients : S = members[m][g] \cup {p.client}
          BY <1>4, <1>8, <5>1
        <5>3. members' = [members EXCEPT ![m][g] = S]
          BY <2>3, <2>7, <4>2, <5>2
        <5>4. conn' = conn /\ (m = Parent[c] /\ c \in S => c \in members[m][g])
          BY <2>3, <2>8, <5>2
        <5> QED BY <1>0, <5>3, <5>4, RemainsIf
      <4> QED BY <2>3, <4>1, <4>2
    <3> QED BY <2>6, <3>1, <3>2, WaitsIf DEF ClientStep
  <2>9. CASE c = p.client /\ p.cmd = "GET_GROUP_ID"
    <3>1. <<p>> \o <<>> = <<p>>
      OBVIOUS
    <3>2. PICK pkts \in Seq(Packets) : pkts = <<p>>
      BY <1>4, <1>8
    <3>3. queue' = Sent(Taken(Down(m)), {l}, pkts) /\ members' = members
      BY <2>3, <2>9, <3>1, <3>2
    <3>4. Gets(c, {}, pkts)
      BY <1>0, <1>4, <1>8, <2>3, <2>4, <2>9, <3>3, TakenSent
    <3>5. Remains(c)
      BY <2>3, <3>3 DEF Remains
    <3>6. p.cmd \notin MsgCommands \cup {"JOIN_GROUP"}
      BY <2>9 DEF MsgCommands
    <3> QED BY <1>4, <1>8, <2>6, <3>2, <3>4, <3>5, <3>6, WaitsFor DEF ClientStep
  <2>10. CASE c = p.client /\ p.cmd = "JOIN_GROUP"
    <3>1. <<p>> \o msgs \in Seq(Packets)
      BY <1>4, <1>8, <2>2
    <3>2. PICK pkts \in Seq(Packets) : pkts = <<p>> \o msgs
      BY <3>1
    <3>3. queue' = Sent(Taken(Down(m)), {l}, pkts)
      BY <2>3, <2>10, <3>2
    <3>4. Gets(c, {}, pkts)
      BY <1>0, <1>4, <1>8, <2>3, <2>4, <2>10, <3>3, TakenSent
    <3>5. Parent[c] = m
      BY <1>6, <1>8, <2>4, <2>10
    <3>6. \A h \in AllGroups : h # g => members'[m][h] = members[m][h]
      <4>1. members \in [Nodes -> [AllGroups -> SUBSET Clients]]
        BY TypeInvIs
      <4>2. members[m] \in [AllGroups -> SUBSET Clients]
        BY <1>0, <4>1
      <4> QED BY <1>0, <2>3, <2>7, <2>10, <4>1, <4>2
    <3>7. Gets(c, {}, <<p>> \o getMsgs(Parent[c], g))
      BY <2>1, <2>7, <3>2, <3>4, <3>5
    <3>8. /\ p \in Notes /\ p.cmd = "JOIN_GROUP" /\ p.group = g
          /\ \A h \in AllGroups : c \in members'[Parent[c]][h] =>
               h = g \/ c \in members[Parent[c]][h]
      BY <1>4, <1>8, <2>7, <2>10, <3>5, <3>6
    <3>9. conn' = conn
      BY <2>3
    <3>10. Admitted(c)
      BY <2>6, <3>7, <3>8, <3>9, Zenon DEF Admitted
    <3> QED BY <3>10 DEF ClientStep
  <2> QED BY <1>4, <1>8, <2>8, <2>9, <2>10
<1> QED BY <1>2, <1>7, <1>8

\* Lemma: a message is routed.
LEMMA ClientStepsRoutes ==
  ASSUME TypeInv, Placed, Outward, Routing, NEW c \in Clients
  PROVE  ClientStep(c)
<1>1. PICK n \in Nodes, k \in Links, p \in Msgs : \E targets :
        RoutesFrom(n, k, p, targets)
  BY RoutingIs
<1>2. PICK targets : RoutesFrom(n, k, p, targets)
  BY <1>1
<1>3. CASE n = Parent[c]
  BY <1>2, <1>3 DEF Relayed, ClientStep
<1>4. CASE n # Parent[c]
  <2>1. /\ UNCHANGED <<status, exited, conn, lookup, secoPPSet, myClients, local,
                       routes, known, members, got, sends>>
        /\ join' = JoinWithout(n, Cleans(n, p))
        /\ \A x \in Nodes, g \in AllGroups, s \in Clients : history'[x][g][s] =
              IF p.cmd # "NO_HISTORY_MSG" /\ x = n /\ g = p.group /\ s = p.client
              THEN IF p.cmd = "SYNC_MSG" THEN <<p>>
                   ELSE Append(history[x][g][s], p)
              ELSE history[x][g][s]
        /\ \E q \in Queues :
              /\ \A l \in Links : q[l] = IF l = k THEN Tail(queue[k]) ELSE queue[l]
              /\ FlowsFrom(q, targets, <<p>>)
              /\ \E r \in Queues : \A l \in Links :
                   /\ Spares(r[l], q[l], Cleans(n, p))
                   /\ l[1] # n => r[l] = q[l]
                   /\ queue'[l] = IF l \in targets /\ Open(l) THEN r[l] \o <<p>>
                                  ELSE r[l]
    BY <1>2, RoutesDo
  <2>2. Parent[c] \in Nodes /\ c \notin Nodes
    BY ClientEnds
  <2>3. Down(c) \in Links /\ Down(c)[1] = Parent[c] /\ Down(c)[2] = c
    BY StreamIs
  <2>4. k[2] = n /\ \A l \in targets : l[1] = n
    BY <1>2 DEF RoutesFrom
  <2>5. Down(c) # k /\ Down(c) \notin targets
    BY <1>4, <2>2, <2>3, <2>4
  <2>6. queue'[Down(c)] = queue[Down(c)]
    BY <1>4, <2>1, <2>3, <2>5
  <2>7. join'[c] = join[c]
    BY <1>4, <2>1 DEF JoinWithout
  <2>8. Unmoved(c)
    BY <1>4, <2>1, <2>2, <2>7 DEF Unmoved
  <2>9. Remains(c)
    BY <2>1 DEF Remains
  <2>10. Gets(c, {}, <<>>)
    <3>1. got'[c] = got[c]
      BY <2>1
    <3> QED BY <3>1, <2>6, GetsNone
  <2> QED BY <2>8, <2>9, <2>10, WaitsIf DEF ClientStep
<1> QED BY <1>3, <1>4

\* A burial: node n buries the clients in cs.
BuriesAt(n, q, cs, targets) ==
  /\ Bury(n, q, cs, targets)
  /\ \A d \in Clients : /\ q[Down(d)] = queue[Down(d)]
                        /\ conn'[d] = "on" => conn[d] = "on"
                        /\ conn'[d] = "on" /\ Parent[d] = n => d \notin cs
  /\ status' \in [Nodes -> {"off", "up", "down", "gone"}]

\* Lemma: an upward link is taken from or emptied.
LEMMA ClientQueuesSame ==
  ASSUME TypeInv, NEW x \in Ends, NEW d \in Clients,
         NEW q, \/ queue[Up(x)] # <<>> /\ q = Taken(Up(x))
                \/ q = [queue EXCEPT ![Up(x)] = <<>>]
  PROVE  q[Down(d)] = queue[Down(d)]
<1>1. Up(x) # Down(d) /\ Up(x) \in Links /\ Down(d) \in Links
  BY OtherLinks
<1>2. queue \in Queues
  BY TypeInvIs
<1>3. CASE queue[Up(x)] # <<>> /\ q = Taken(Up(x))
  BY <1>1, <1>3, TakenElse
<1>4. CASE q = [queue EXCEPT ![Up(x)] = <<>>]
  BY <1>1, <1>2, <1>4, EmptiedIs
<1> QED BY <1>3, <1>4

\* Lemma: a node that a client has connected through is not beside it.
LEMMA NotThrough ==
  ASSUME NEW m \in Children, NEW d \in Clients, m \in Chain[d]
  PROVE  Parent[d] # Parent[m]
<1>1. d \in Ends /\ d \notin Children /\ d \in Chain[d]
  BY ClientEnds, ChainRises
<1> QED BY <1>1, ChainInjective

\* Lemma: every burial is one at some node.
LEMMA BurialAt ==
  ASSUME TypeInv, TypeInv', Placed, Outward, Burial
  PROVE  \E n \in Nodes, q \in Queues, cs \in SUBSET Clients : \E targets :
           BuriesAt(n, q, cs, targets)
<1>0. status' \in [Nodes -> {"off", "up", "down", "gone"}]
  BY TypeInv' DEF TypeInv, TypeOK
<1>1. ASSUME NEW m \in Children, DownGone(m)
      PROVE  \E n \in Nodes, q \in Queues, cs \in SUBSET Clients : \E targets :
           BuriesAt(n, q, cs, targets)
  <2>1. PICK p \in Notes, q \in Queues :
              LET cs == {p.client}
                  n == Parent[m]
                  targets == DownTargets(n, m, DISCONNECTIONS) IN
              /\ p = queue[Up(m)][1] /\ 1 \in 1..Len(queue[Up(m)])
              /\ p.cmd = "CLIENT_DISCONNECTED"
              /\ q = Taken(Up(m)) /\ Bury(n, q, cs, targets)
              /\ \E news \in Obituaries(cs) :
                   Flows(targets, news) /\ FlowsFrom(q, targets, news)
    BY <1>1, DownGoneTypes
  <2>2. m \in Ends /\ Parent[m] \in Nodes
    BY ChildEnds
  <2>3. p.client \in Clients
    BY PacketKinds
  <2>4. m \in Chain[p.client]
    BY <2>1, <2>2, ReadUpAway DEF Bound
  <2>5. UNCHANGED conn /\ queue[Up(m)] # <<>>
    BY <1>1 DEF DownGone, Reads
  <2>6. \A d \in Clients : q[Down(d)] = queue[Down(d)]
    BY <2>1, <2>2, <2>5, ClientQueuesSame
  <2>7. \A d \in Clients : Parent[d] = Parent[m] => d \notin {p.client}
    BY <2>3, <2>4, NotThrough
  <2>8. BuriesAt(Parent[m], q, {p.client}, DownTargets(Parent[m], m, DISCONNECTIONS))
    BY <1>0, <2>1, <2>5, <2>6, <2>7 DEF BuriesAt
  <2>9. {p.client} \in SUBSET Clients
    BY <2>3
  <2> QED BY <2>2, <2>8, <2>9
<1>2. ASSUME NEW m \in Children, UpGone(m)
      PROVE  \E n \in Nodes, q \in Queues, cs \in SUBSET Clients : \E targets :
           BuriesAt(n, q, cs, targets)
  <2>1. PICK p \in Notes, q \in Queues :
              LET cs == {p.client}
                  targets == UpTargets(m, DISCONNECTIONS) IN
              /\ p = queue[Down(m)][1] /\ 1 \in 1..Len(queue[Down(m)])
              /\ p.cmd = "CLIENT_DISCONNECTED"
              /\ q = Taken(Down(m)) /\ Bury(m, q, cs, targets)
              /\ \E news \in Obituaries(cs) :
                   Flows(targets, news) /\ FlowsFrom(q, targets, news)
    BY <1>2, UpGoneTypes
  <2>2. m \in Ends /\ m \in Nodes /\ m # Root /\ m \notin Clients
    BY ChildEnds
  <2>3. p.client \in Clients
    BY PacketKinds
  <2>4. m \notin Chain[p.client]
    BY <2>1, ReadDownAway DEF Bound
  <2>5. UNCHANGED conn
    BY <1>2 DEF UpGone
  <2>6. \A d \in Clients : q[Down(d)] = queue[Down(d)]
    <3> TAKE d \in Clients
    <3>1. Down(m) # Down(d) /\ Down(m) \in Links /\ Down(d) \in Links
      BY <2>2, OtherLinks, LinksDiffer
    <3> QED BY <2>1, <3>1, TakenElse
  <2>7. \A d \in Clients : Parent[d] = m => m \in Chain[d]
    <3> TAKE d \in Clients
    <3>1. d \in Ends
      BY ClientEnds
    <3> QED BY <2>2, <3>1, ChainRises
  <2>8. \A d \in Clients : Parent[d] = m => d \notin {p.client}
    BY <2>4, <2>7
  <2>9. BuriesAt(m, q, {p.client}, UpTargets(m, DISCONNECTIONS))
    BY <1>0, <2>1, <2>5, <2>6, <2>8 DEF BuriesAt
  <2>10. {p.client} \in SUBSET Clients
    BY <2>3
  <2> QED BY <2>2, <2>9, <2>10
<1>3. ASSUME NEW c \in Clients, ClientGone(c)
      PROVE  \E n \in Nodes, q \in Queues, cs \in SUBSET Clients : \E targets :
           BuriesAt(n, q, cs, targets)
  <2>1. PICK q \in Queues :
              LET n == Parent[c]
                  targets == DownTargets(n, c, DISCONNECTIONS) IN
              /\ q = [queue EXCEPT ![Up(c)] = <<>>] /\ Bury(n, q, {c}, targets)
              /\ \E news \in Obituaries({c}) :
                   Flows(targets, news) /\ FlowsFrom(q, targets, news)
    BY <1>3, ClientGoneTypes
  <2>2. c \in Ends /\ Parent[c] \in Nodes
    BY ClientEnds
  <2>3. conn' = [conn EXCEPT ![c] = "gone"]
    BY <1>3 DEF ClientGone
  <2>4. conn \in [Clients -> {"off", "on", "closed", "gone"}]
    BY TypeInvIs
  <2>5. \A d \in Clients : conn'[d] = IF d = c THEN "gone" ELSE conn[d]
    BY <2>3, <2>4
  <2>6. \A d \in Clients : q[Down(d)] = queue[Down(d)]
    BY <2>1, <2>2, ClientQueuesSame
  <2>7. BuriesAt(Parent[c], q, {c}, DownTargets(Parent[c], c, DISCONNECTIONS))
    BY <1>0, <2>1, <2>5, <2>6 DEF BuriesAt
  <2>8. {c} \in SUBSET Clients
    OBVIOUS
  <2> QED BY <2>2, <2>7, <2>8
<1>4. ASSUME NEW m \in Children, NodeGone(m)
      PROVE  \E n \in Nodes, q \in Queues, cs \in SUBSET Clients : \E targets :
           BuriesAt(n, q, cs, targets)
  <2>1. PICK q \in Queues, cs \in SUBSET Clients :
              LET n == Parent[m]
                  targets == DownTargets(n, m, DISCONNECTIONS) IN
              /\ cs = myClients[m]
              /\ q = [queue EXCEPT ![Up(m)] = <<>>] /\ Bury(n, q, cs, targets)
              /\ \E news \in Obituaries(cs) :
                   Flows(targets, news) /\ FlowsFrom(q, targets, news)
    BY <1>4, NodeGoneTypes
  <2>2. m \in Ends /\ Parent[m] \in Nodes
    BY ChildEnds
  <2>3. UNCHANGED conn
    BY <1>4 DEF NodeGone
  <2>4. \A d \in cs : d \in Clients /\ m \in Chain[d]
    BY <2>1 DEF Placed
  <2>5. \A d \in Clients : Parent[d] = Parent[m] => d \notin cs
    BY <2>4, NotThrough
  <2>6. \A d \in Clients : q[Down(d)] = queue[Down(d)]
    BY <2>1, <2>2, ClientQueuesSame
  <2>7. BuriesAt(Parent[m], q, cs, DownTargets(Parent[m], m, DISCONNECTIONS))
    BY <1>0, <2>1, <2>3, <2>5, <2>6 DEF BuriesAt
  <2> QED BY <2>2, <2>7
<1> QED BY <1>1, <1>2, <1>3, <1>4 DEF Burial

\* Lemma: somebody is buried.
LEMMA ClientStepsBury ==
  ASSUME TypeInv, TypeInv', Placed, Outward, Burial, NEW c \in Clients
  PROVE  ClientStep(c)
<1>1. PICK n \in Nodes, q \in Queues, cs \in SUBSET Clients : \E targets :
           BuriesAt(n, q, cs, targets)
  BY BurialAt
<1>2. PICK targets : BuriesAt(n, q, cs, targets)
  BY <1>1
<1>3. /\ CleanupTables(n, cs) /\ join' = JoinWithout(n, KeptFrom(n, cs))
      /\ UNCHANGED <<known, got>> /\ q[Down(c)] = queue[Down(c)]
      /\ conn'[c] = "on" => conn[c] = "on"
  BY <1>2 DEF BuriesAt, Bury
<1>4. Cleaned(n, cs)
  BY <1>3, CleanupClears
<1>5. Parent[c] \in Nodes
  BY ClientEnds
<1>6. Remains(c)
  <2>1. \A g \in AllGroups : members'[Parent[c]][g] =
          IF Parent[c] = n THEN members[Parent[c]][g] \ cs ELSE members[Parent[c]][g]
    BY <1>4, <1>5, Zenon DEF Cleaned
  <2>2. \A g \in AllGroups :
          c \in members'[Parent[c]][g] => c \in members[Parent[c]][g]
    BY <2>1
  <2> QED BY <1>3, <2>2 DEF Remains
<1> DEFINE order == SetToSeq(cs)
           list == [i \in 1..Len(order) |->
                      Packet("CLIENT_DISCONNECTED", order[i], DISCONNECTIONS, 0)]
<1>7. list \in Seq(Packets) /\ \A u \in 1..Len(list) : list[u].cmd = "CLIENT_DISCONNECTED"
  <2>1. IsFiniteSet(cs)
    BY FS_Subset, TreeAssumption
  <2>2. order \in Seq(cs)
    BY <2>1, OrderOf
  <2>3. Len(order) \in Nat /\ \A i \in 1..Len(order) : order[i] \in Clients
    BY <2>2
  <2>4. \A i \in 1..Len(order) : list[i] \in Notes /\ list[i].cmd = "CLIENT_DISCONNECTED"
    BY <2>3 DEF Packet, Notes, AllGroups
  <2>5. \A i \in 1..Len(order) : list[i] \in Packets
    BY <2>4 DEF Packets
  <2>6. list = [i \in 1..Len(order) |-> list[i]] /\ DOMAIN list = 1..Len(order)
    OBVIOUS
  <2>7. list \in [1..Len(order) -> Packets]
    BY <2>5
  <2> HIDE DEF list
  <2>8. list \in Seq(Packets) /\ Len(list) = Len(order)
    BY <2>3, <2>6, <2>7
  <2> QED BY <2>4, <2>8
<1> HIDE DEF list
<1>8. PICK news \in Seq(Packets) : news = list
  BY <1>7
<1>9. \E r \in Deprecations(q, n, KeptFrom(n, cs)) : queue' = Sent(r, targets, news)
  BY <1>2, <1>8 DEF BuriesAt, Bury, list, order
<1>10. PICK r \in Deprecations(q, n, KeptFrom(n, cs)) : queue' = Sent(r, targets, news)
  BY <1>9
<1>11. Down(c) \in Links /\ Down(c)[1] = Parent[c] /\ (Open(Down(c)) <=> conn[c] = "on")
       /\ queue[Down(c)] \in Seq(Packets)
  BY StreamIs
<1>12. r \in Queues /\ Spares(r[Down(c)], queue[Down(c)], KeptFrom(n, cs))
       /\ (Parent[c] # n => r[Down(c)] = queue[Down(c)])
  BY <1>3, <1>11, SparesDeprecated, DeprecationsThin
<1>13. r[Down(c)] \in Seq(Packets)
  <2>1. r[Down(c)] \in Seq(Cargo(Down(c)))
    BY <1>11, <1>12 DEF Queues
  <2>2. ~\E m \in Children : Down(c) = Up(m)
    BY OtherLinks, ChildEnds
  <2> QED BY <2>1, <2>2 DEF Cargo
<1>14. queue'[Down(c)] = IF Down(c) \in targets /\ Open(Down(c))
                         THEN r[Down(c)] \o news ELSE r[Down(c)]
  BY <1>10, <1>11, <1>12, SentIs
<1>15. got'[c] = got[c]
  BY <1>3
<1>16. CASE n = Parent[c]
  <2>1. \E pkts \in Seq(Packets) : Gets(c, KeptFrom(n, cs), pkts) /\ (pkts = news \/ pkts = <<>>)
    <3>1. CASE Down(c) \in targets
      <4>1. queue'[Down(c)] = IF conn[c] = "on" THEN r[Down(c)] \o news ELSE r[Down(c)]
        BY <1>11, <1>14, <3>1
      <4>2. Gets(c, KeptFrom(n, cs), news)
        BY <1>12, <1>13, <1>15, <4>1, GetsIf
      <4> QED BY <4>2
    <3>2. CASE Down(c) \notin targets
      <4>1. <<>> \in Seq(Packets) /\ r[Down(c)] \o <<>> = r[Down(c)]
        BY <1>13
      <4>2. PICK none \in Seq(Packets) : none = <<>> /\ r[Down(c)] \o none = r[Down(c)]
        BY <4>1
      <4>3. queue'[Down(c)] = r[Down(c)]
        BY <1>14, <3>2
      <4>4. queue'[Down(c)] = IF conn[c] = "on" THEN r[Down(c)] \o none ELSE r[Down(c)]
        BY <4>2, <4>3, Zenon
      <4>5. Gets(c, KeptFrom(n, cs), none)
        BY <1>12, <1>13, <1>15, <4>4, GetsIf
      <4> QED BY <4>2, <4>5
    <3> QED BY <3>1, <3>2
  <2>2. PICK pkts \in Seq(Packets) : Gets(c, KeptFrom(n, cs), pkts) /\ (pkts = news \/ pkts = <<>>)
    BY <2>1
  <2>3. \A u \in 1..Len(pkts) : pkts[u].cmd = "CLIENT_DISCONNECTED"
    BY <1>7, <1>8, <2>2
  <2>4. \A g \in AllGroups, s \in Clients : history'[n][g][s] =
            IF s \in cs THEN <<>> ELSE history[n][g][s]
    BY <1>4 DEF Cleaned
  <2>5. /\ \A g \in AllGroups, s \in Clients : history'[Parent[c]][g][s] =
            IF s \in cs THEN <<>> ELSE history[Parent[c]][g][s]
        /\ join' = JoinWithout(Parent[c], KeptFrom(Parent[c], cs))
        /\ Gets(c, KeptFrom(Parent[c], cs), pkts)
    BY <1>3, <1>16, <2>2, <2>4
  <2>6. Buried(c)
    BY <1>6, <2>3, <2>5, Zenon DEF Buried
  <2> QED BY <2>6 DEF ClientStep
<1>17. CASE n # Parent[c]
  <2>1. Unmoved(c)
    <3>1. \A g \in AllGroups, s \in Clients :
            history'[Parent[c]][g][s] = history[Parent[c]][g][s]
      <4>1. \A g \in AllGroups, s \in Clients : history'[Parent[c]][g][s] =
              IF Parent[c] = n /\ s \in cs THEN <<>> ELSE history[Parent[c]][g][s]
        BY <1>4, <1>5, Zenon DEF Cleaned
      <4> QED BY <1>17, <4>1
    <3>2. join'[c] = join[c]
      BY <1>3, <1>17 DEF JoinWithout
    <3> QED BY <3>1, <3>2 DEF Unmoved
  <2>2. IF Down(c) \in targets THEN Gets(c, {}, news) ELSE Gets(c, {}, <<>>)
    BY <1>10, <1>12, <1>15, <1>17, GetsSent
  <2>3. CASE Down(c) \in targets
    <3>1. \A u \in 1..Len(news) : news[u].cmd \notin MsgCommands \cup {"JOIN_GROUP"}
      BY <1>7, <1>8 DEF MsgCommands
    <3>2. Gets(c, {}, news)
      BY <2>2, <2>3, Zenon
    <3> QED BY <1>6, <2>1, <3>1, <3>2 DEF Waits, ClientStep
  <2>4. CASE Down(c) \notin targets
    <3>1. Gets(c, {}, <<>>)
      BY <2>2, <2>4, Zenon
    <3> QED BY <1>6, <2>1, <3>1, WaitsIf DEF ClientStep
  <2> QED BY <2>3, <2>4
<1> QED BY <1>16, <1>17

\* Lemma: what every step does to a client.
LEMMA ClientSteps ==
  ASSUME EndInv, OnIsLocal, TypeInv', [Next]_vars, NEW c \in Clients
  PROVE  ClientStep(c)
<1>0. TypeInv /\ Placed /\ Outward /\ LookupOK
  BY DEF EndInv
<1>1. CASE Burial
  BY <1>0, <1>1, ClientStepsBury
<1>2. CASE Routing
  BY <1>0, <1>2, ClientStepsRoutes
<1>3. CASE UNCHANGED vars
  <2>1. Unmoved(c) /\ Remains(c)
    BY <1>3 DEF vars, tables, Unmoved, Remains
  <2>2. got'[c] = got[c] /\ queue'[Down(c)] = queue[Down(c)]
    BY <1>3 DEF vars
  <2>3. Gets(c, {}, <<>>)
    BY <1>0, <2>2, GetsNone
  <2> QED BY <1>0, <2>1, <2>3, WaitsIf DEF ClientStep
<1>4. ASSUME NEW d \in Clients,
             \/ Connect(d) \/ Request(d) \/ ClientReceive(d) \/ Disconnect(d)
             \/ \E cmd \in Kinds, g \in Groups : Send(d, cmd, g)
      PROVE  ClientStep(c)
  BY <1>0, <1>4, ClientStepsOwn
<1>5. ASSUME NEW d \in Clients, ClientLink(d), ~Burial, ~Routing
      PROVE  ClientStep(c)
  <2>1. d \in Ends
    BY ClientEnds
  <2>2. ~routeToGroup(d) /\ ~ClientGone(d)
    BY <1>5, <2>1 DEF Burial, Routing
  <2> QED BY <1>0, <1>5, <2>2, ClientStepsLink
<1>6. ASSUME NEW m \in Children, NodeStart(m) \/ NodeFail(m) \/ ChildLink(m) \/ UpLink(m),
             ~Burial, ~Routing
      PROVE  ClientStep(c)
  <2>1. m \in Ends
    BY ChildEnds
  <2>2. ~routeToGroup(m) /\ ~DownGone(m) /\ ~NodeGone(m) /\ ~RouteToGroup(m) /\ ~UpGone(m)
    BY <1>6, <2>1 DEF Burial, Routing
  <2>3. \/ Ended(m)
        \/ synchronizeNewSeCo(m) \/ DownReply(m) \/ DownForward(m) \/ NodeStart(m)
        \/ UpLookup(m) \/ UpReply(m) \/ UpForward(m)
    BY <1>6, <2>2, Zenon DEF NodeFail, ChildLink, UpLink, UpNoRoute
  <2> QED BY <1>0, <2>3, ClientStepsEnded, ClientStepsChild, ClientStepsUp
<1>7. CASE Next /\ ~Burial /\ ~Routing
  BY <1>4, <1>5, <1>6, <1>7, Zenon DEF Next
<1> QED BY <1>1, <1>2, <1>3, <1>7 DEF vars

\* Lemma: every client that is connected is in the tables of its node.
LEMMA OnIsLocalInit ==
  ASSUME Init
  PROVE  OnIsLocal
BY DEF Init, OnIsLocal

\* Lemma: and stays there.
LEMMA OnIsLocalStep ==
  ASSUME EndInv, OnIsLocal, Quit, TypeInv', [Next]_vars
  PROVE  OnIsLocal'
<1>0. TypeInv /\ Placed /\ Outward
  BY DEF EndInv
<1>1. SUFFICES ASSUME NEW c \in Clients, conn'[c] = "on"
               PROVE  c \in local'[Parent[c]]
  BY DEF OnIsLocal
<1>2. Parent[c] \in Nodes
  BY ClientEnds
<1>3. CASE Burial
  <2>1. PICK n \in Nodes, q \in Queues, cs \in SUBSET Clients : \E targets :
             BuriesAt(n, q, cs, targets)
    BY <1>0, <1>3, BurialAt
  <2>2. CleanupTables(n, cs) /\ conn[c] = "on" /\ (Parent[c] = n => c \notin cs)
    BY <1>1, <2>1 DEF BuriesAt, Bury
  <2>3. Cleaned(n, cs)
    BY <1>0, <2>2, CleanupClears
  <2>4. local'[Parent[c]] = IF Parent[c] = n THEN local[Parent[c]] \ cs ELSE local[Parent[c]]
    BY <1>2, <2>3, Zenon DEF Cleaned
  <2>5. c \in local[Parent[c]]
    BY <2>2 DEF OnIsLocal
  <2> QED BY <2>2, <2>4, <2>5
<1>4. CASE Plain
  BY <1>1, <1>4 DEF Plain, OnIsLocal
<1>5. ASSUME NEW d \in Clients, Connect(d) \/ Disconnect(d)
      PROVE  c \in local'[Parent[c]]
  <2>0. conn \in [Clients -> {"off", "on", "closed", "gone"}]
        /\ local \in [Nodes -> SUBSET Clients]
    BY <1>0, TypeInvIs
  <2>1. CASE Connect(d)
    <3>1. conn' = [conn EXCEPT ![d] = "on"]
          /\ local' = [local EXCEPT ![Parent[d]] = @ \cup {d}]
      BY <2>1 DEF Connect
    <3>2. c = d \/ conn[c] = "on"
      BY <1>1, <2>0, <3>1
    <3>3. c = d \/ c \in local[Parent[c]]
      BY <3>2 DEF OnIsLocal
    <3> QED BY <1>2, <2>0, <3>1, <3>3
  <2>2. CASE Disconnect(d)
    <3>1. conn' = [conn EXCEPT ![d] = "closed"] /\ local' = local
      BY <2>2 DEF Disconnect, tables
    <3>2. conn[c] = "on"
      BY <1>1, <2>0, <3>1
    <3> QED BY <3>1, <3>2 DEF OnIsLocal
  <2> QED BY <1>5, <2>1, <2>2
<1>6. ASSUME NEW m \in Children, NodeStart(m)
      PROVE  c \in local'[Parent[c]]
  <2>1. UNCHANGED <<conn, local>>
    BY <1>6 DEF NodeStart, tables
  <2> QED BY <1>1, <2>1 DEF OnIsLocal
<1>7. ASSUME NEW m \in Children, Ended(m)
      PROVE  c \in local'[Parent[c]]
  <2>1. local' = local /\ conn[c] = "on"
    BY <1>1, <1>7 DEF Ended, tables
  <2> QED BY <2>1 DEF OnIsLocal
<1> QED BY <1>0, <1>3, <1>4, <1>5, <1>6, <1>7, PlainStep

----------------------------------------------------------------------------
(* The clients of the root receive in order *)

Answers(p, g) == p.cmd = "JOIN_GROUP" /\ p.group = g

\* Of every two messages that are not in order there is an answer to a join of
\* their group between them.
Spaced(s) ==
  \A i, j \in 1..Len(s) : i < j /\ ~SentBefore(s[i], s[j]) =>
    \E k \in i..j : Answers(s[k], s[j].group)

\* Lemmas: it stays so when messages are left out ...
LEMMA SpacedSpares ==
  ASSUME NEW S, NEW r \in Seq(S), NEW s \in Seq(S), NEW D, Spares(r, s, D),
         \A p \in D : p.cmd # "JOIN_GROUP", Spaced(s)
  PROVE  Spaced(r)
<1>1. PICK at \in [1..Len(r) -> 1..Len(s)] :
        /\ \A i, j \in 1..Len(r) : i < j => at[i] < at[j]
        /\ \A i \in 1..Len(r) : r[i] = s[at[i]]
        /\ \A k \in 1..Len(s) : s[k] \in D \/ \E i \in 1..Len(r) : at[i] = k
  BY DEF Spares
<1>2. Len(r) \in Nat /\ Len(s) \in Nat
  OBVIOUS
<1>3. SUFFICES ASSUME NEW i \in 1..Len(r), NEW j \in 1..Len(r), i < j,
                      ~SentBefore(r[i], r[j])
               PROVE  \E k \in i..j : Answers(r[k], r[j].group)
  BY DEF Spaced
<1>4. at[i] \in 1..Len(s) /\ at[j] \in 1..Len(s) /\ at[i] < at[j]
      /\ r[i] = s[at[i]] /\ r[j] = s[at[j]]
  BY <1>1, <1>3
<1>5. PICK k \in at[i]..at[j] : Answers(s[k], s[at[j]].group)
  BY <1>3, <1>4 DEF Spaced
<1>6. k \in 1..Len(s) /\ at[i] <= k /\ k <= at[j]
  BY <1>2, <1>4
<1>7. s[k] \notin D
  BY <1>5 DEF Answers
<1>8. PICK e \in 1..Len(r) : at[e] = k
  BY <1>1, <1>6, <1>7
<1>9. e \in i..j
  <2>1. ~(e < i) /\ ~(j < e)
    <3>1. e < i => at[e] < at[i]
      BY <1>1
    <3>2. j < e => at[j] < at[e]
      BY <1>1
    <3> QED BY <1>2, <1>4, <1>6, <1>8, <3>1, <3>2
  <2> QED BY <2>1, <1>2
<1>10. r[e] = s[k]
  BY <1>1, <1>8
<1> QED BY <1>4, <1>5, <1>9, <1>10

\* ... or when only the first packets are taken ...
LEMMA SpacedFirst ==
  ASSUME NEW S, NEW s \in Seq(S), NEW t \in Seq(S), Spaced(s \o t)
  PROVE  Spaced(s)
<1>1. Len(s \o t) = Len(s) + Len(t) /\ Len(s) \in Nat /\ Len(t) \in Nat
      /\ \A i \in 1..Len(s) : (s \o t)[i] = s[i]
  OBVIOUS
<1>2. SUFFICES ASSUME NEW i \in 1..Len(s), NEW j \in 1..Len(s), i < j,
                      ~SentBefore(s[i], s[j])
               PROVE  \E k \in i..j : Answers(s[k], s[j].group)
  BY DEF Spaced
<1>3. i \in 1..Len(s \o t) /\ j \in 1..Len(s \o t)
  BY <1>1
<1>4. PICK k \in i..j : Answers((s \o t)[k], (s \o t)[j].group)
  BY <1>1, <1>2, <1>3 DEF Spaced
<1>5. k \in 1..Len(s)
  BY <1>1, <1>4
<1> QED BY <1>1, <1>4, <1>5

\* ... and when others come that are in order and come after an answer or after
\* those that were sent before.
LEMMA SpacedBoth ==
  ASSUME NEW S, NEW s \in Seq(S), NEW t \in Seq(S), Spaced(s), Ordered(t),
         \A i \in 1..Len(s), j \in 1..Len(t) :
           \/ SentBefore(s[i], t[j])
           \/ \E k \in 1..j : Answers(t[k], t[j].group)
  PROVE  Spaced(s \o t)
<1>1. /\ Len(s \o t) = Len(s) + Len(t) /\ Len(s) \in Nat /\ Len(t) \in Nat
      /\ \A i \in 1..Len(s) : (s \o t)[i] = s[i]
      /\ \A i \in 1..Len(t) : (s \o t)[Len(s) + i] = t[i]
  OBVIOUS
<1>2. SUFFICES ASSUME NEW i \in 1..Len(s \o t), NEW j \in 1..Len(s \o t), i < j,
                      ~SentBefore((s \o t)[i], (s \o t)[j])
               PROVE  \E k \in i..j : Answers((s \o t)[k], (s \o t)[j].group)
  BY DEF Spaced
<1>3. CASE j \in 1..Len(s)
  <2>1. i \in 1..Len(s)
    BY <1>1, <1>2, <1>3
  <2>2. (s \o t)[i] = s[i] /\ (s \o t)[j] = s[j]
    BY <1>1, <1>3, <2>1
  <2>3. PICK k \in i..j : Answers(s[k], s[j].group)
    BY <1>2, <1>3, <2>1, <2>2 DEF Spaced
  <2>4. k \in 1..Len(s)
    BY <1>1, <1>3, <2>1, <2>3
  <2> QED BY <1>1, <2>2, <2>3, <2>4
<1>4. CASE j \notin 1..Len(s)
  <2>0. j - Len(s) \in 1..Len(t) /\ j = Len(s) + (j - Len(s))
    BY <1>1, <1>4
  <2>1. PICK v \in 1..Len(t) : j = Len(s) + v
    BY <2>0
  <2>2. (s \o t)[j] = t[v]
    BY <1>1, <2>1
  <2>3. CASE i \in 1..Len(s)
    <3>1. (s \o t)[i] = s[i]
      BY <1>1, <2>3
    <3>2. PICK k \in 1..v : Answers(t[k], t[v].group)
      BY <1>2, <2>2, <2>3, <3>1
    <3>3. k \in 1..Len(t) /\ Len(s) + k \in i..j
      BY <1>1, <2>1, <2>3, <3>2
    <3>4. (s \o t)[Len(s) + k] = t[k]
      BY <1>1, <3>3
    <3> QED BY <2>2, <3>2, <3>3, <3>4
  <2>4. CASE i \notin 1..Len(s)
    <3>0. i - Len(s) \in 1..Len(t) /\ i = Len(s) + (i - Len(s))
      BY <1>1, <2>4
    <3>1. PICK u \in 1..Len(t) : i = Len(s) + u
      BY <3>0
    <3>2. (s \o t)[i] = t[u] /\ u < v
      BY <1>1, <1>2, <2>1, <3>1
    <3>3. SentBefore(t[u], t[v])
      BY <3>2 DEF Ordered
    <3> QED BY <1>2, <2>2, <3>2, <3>3
  <2> QED BY <2>3, <2>4
<1> QED BY <1>3, <1>4

\* What a client of the root gets is spaced, and the root joins it at once.
RootServes ==
  \A c \in Clients : Parent[c] = Root => Spaced(Stream(c)) /\ join[c].pc = "idle"

\* Lemma: so it is initially.
LEMMA RootServesInit ==
  ASSUME Init
  PROVE  RootServes
<1>1. SUFFICES ASSUME NEW c \in Clients
               PROVE  Spaced(Stream(c)) /\ join[c].pc = "idle"
  BY DEF RootServes
<1>2. TypeInv
  BY TypeInit
<1>3. Down(c) \in Links
  BY <1>2, StreamIs
<1>4. got[c] = <<>> /\ queue[Down(c)] = <<>> /\ join[c].pc = "idle"
  BY <1>3 DEF Init, Idle
<1>5. Len(Stream(c)) = 0
  BY <1>4 DEF Stream
<1> QED BY <1>4, <1>5 DEF Spaced

\* Lemma: a client gets packets.
LEMMA SpacedGets ==
  ASSUME TypeInv, NEW c \in Clients, Spaced(Stream(c)), NEW D,
         \A p \in D : p.cmd # "JOIN_GROUP", NEW pkts \in Seq(Packets),
         Gets(c, D, pkts), Ordered(pkts),
         \A i \in 1..Len(Stream(c)), j \in 1..Len(pkts) :
           \/ SentBefore(Stream(c)[i], pkts[j])
           \/ \E k \in 1..j : Answers(pkts[k], pkts[j].group)
  PROVE  Spaced(Stream(c))'
<1>1. PICK r \in Seq(Packets) :
        /\ Spares(r, Stream(c), D)
        /\ Stream(c)' = IF conn[c] = "on" THEN r \o pkts ELSE r
  BY DEF Gets
<1>2. Stream(c) \in Seq(Packets)
  BY StreamIs
<1>3. Spaced(r)
  BY <1>1, <1>2, SpacedSpares
<1>4. \A i \in 1..Len(r) : \E a \in 1..Len(Stream(c)) : r[i] = Stream(c)[a]
  BY <1>1 DEF Spares
<1>5. \A i \in 1..Len(r), j \in 1..Len(pkts) :
           \/ SentBefore(r[i], pkts[j])
           \/ \E k \in 1..j : Answers(pkts[k], pkts[j].group)
  BY <1>4
<1>6. Spaced(r \o pkts)
  BY <1>3, <1>5, SpacedBoth
<1>7. Stream(c)' = r \/ Stream(c)' = r \o pkts
  BY <1>1
<1> QED BY <1>3, <1>6, <1>7 DEF Spaced

\* Lemma: the packets that are no messages come after any.
LEMMA OthersSpaced ==
  ASSUME NEW pkts, \A u \in 1..Len(pkts) : pkts[u].cmd \notin MsgCommands
  PROVE  /\ Ordered(pkts)
         /\ \A p, j : j \in 1..Len(pkts) => SentBefore(p, pkts[j])
BY DEF Ordered, SentBefore

\* Lemma: a client gets an answer to a join, with the history.
LEMMA SpacedAdmitted ==
  ASSUME TypeInv, KeptInOrder, NEW c \in Clients, Spaced(Stream(c)), Admitted(c)
  PROVE  Spaced(Stream(c))'
<1>1. PICK g \in AllGroups, p \in Notes :
       /\ p.cmd = "JOIN_GROUP" /\ p.group = g
       /\ Gets(c, {}, <<p>> \o getMsgs(Parent[c], g))
  BY DEF Admitted
<1>2. Parent[c] \in Nodes
  BY ClientEnds
<1>3. PICK m \in Seq(Msgs) : m = getMsgs(Parent[c], g)
  BY <1>2, HistoriesAre
<1>4. \A i \in 1..Len(m) : m[i].cmd \in MsgCommands /\ m[i].group = g
  <2> TAKE i \in 1..Len(m)
  <2>1. PICK s \in Clients : m[i] \in Kept(Parent[c], g, s)
    BY <1>2, <1>3, HistoriesAre
  <2>2. m[i].group = g
    BY <1>2, <2>1, TypeInvIs DEF Kept
  <2> QED BY <1>3, <2>2, PacketKinds
<1>5. Ordered(m)
  <2>1. HistoryOrdered(Parent[c])
    BY <1>2 DEF KeptInOrder
  <2> QED BY <1>2, <1>3, <2>1, GetMsgsOrdered
<1>6. p \in Packets /\ m \in Seq(Packets) /\ <<p>> \in Seq(Packets)
      /\ <<p>> \o m \in Seq(Packets)
  BY <1>3, MsgsArePackets DEF Packets
<1>7. PICK pkts \in Seq(Packets) : pkts = <<p>> \o m
  BY <1>6
<1>8. /\ Len(pkts) = 1 + Len(m) /\ Len(m) \in Nat /\ pkts[1] = p
      /\ \A j \in 2..Len(pkts) : j - 1 \in 1..Len(m) /\ pkts[j] = m[j - 1]
  BY <1>6, <1>7
<1>9. Ordered(pkts)
  <2>1. SUFFICES ASSUME NEW i \in 1..Len(pkts), NEW j \in 1..Len(pkts), i < j
                 PROVE  SentBefore(pkts[i], pkts[j])
    BY DEF Ordered
  <2>2. CASE i = 1
    BY <1>1, <1>8, <2>2 DEF SentBefore, MsgCommands
  <2>3. CASE i # 1
    <3>1. /\ i - 1 \in 1..Len(m) /\ pkts[i] = m[i - 1]
          /\ j - 1 \in 1..Len(m) /\ pkts[j] = m[j - 1] /\ i - 1 < j - 1
      BY <1>8, <2>1, <2>3
    <3> QED BY <1>5, <3>1 DEF Ordered
  <2> QED BY <2>2, <2>3
<1>10. \A j \in 1..Len(pkts) : \E k \in 1..j : Answers(pkts[k], pkts[j].group)
  <2> TAKE j \in 1..Len(pkts)
  <2>1. pkts[j].group = g
    <3>1. CASE j = 1
      BY <1>1, <1>8, <3>1
    <3>2. CASE j # 1
      <4>1. j - 1 \in 1..Len(m) /\ pkts[j] = m[j - 1]
        BY <1>8, <3>2
      <4> QED BY <1>4, <4>1
    <3> QED BY <3>1, <3>2
  <2>2. Answers(pkts[1], pkts[j].group)
    BY <1>1, <1>8, <2>1 DEF Answers
  <2>3. 1 \in 1..j
    OBVIOUS
  <2> QED BY <2>2, <2>3
<1>11. Gets(c, {}, pkts)
  BY <1>1, <1>3, <1>7
<1> HIDE <1>7
<1> QED BY <1>9, <1>10, <1>11, SpacedGets

\* Lemma: a message that the root routes comes after what its clients have.
LEMMA PassedBefore ==
  ASSUME TypeInv, TypeInv', Outward, InLine, Unsent, Passing,
         NEW c \in Clients, Parent[c] = Root,
         NEW k \in Links, NEW p \in Msgs, NEW targets,
         RoutesFrom(Root, k, p, targets), NEW i \in 1..Len(Stream(c))
  PROVE  SentBefore(Stream(c)[i], p)
<1>1. p.client \in Clients /\ p.group \in AllGroups /\ p.cmd \in MsgCommands /\ p.n \in Nat
  BY PacketKinds DEF AllGroups
<1>2. Root \in Nodes
  BY DEF Nodes
<1>3. Stream(c) \in Seq(Packets)
  BY StreamIs
<1>4. PICK e \in Packets : e = Stream(c)[i]
  BY <1>3
<1>5. SUFFICES ASSUME Of(e, p.client, p.group)
               PROVE  e.n < p.n
  BY <1>1, <1>4 DEF SentBefore, Of
<1>6. PICK mark : Marking(p.client, p.group, mark)
  BY <1>1 DEF Passing
<1>7. Of(p, p.client, p.group)
  BY <1>1 DEF Of
<1>8. mark[Root] < p.n /\ mark[Root] \in Nat
  <2>1. mark[Root] \in Nat
    BY <1>2, <1>6 DEF Marking
  <2> QED BY <1>1, <1>2, <1>6, <1>7, <2>1, RoutesMark
<1>9. got[c] \in Seq(Packets) /\ queue[Down(c)] \in Seq(Packets)
      /\ Stream(c) = got[c] \o queue[Down(c)]
  BY StreamIs
<1>10. e \in Msgs /\ e.n \in Nat
  BY <1>4, <1>5, PacketKinds DEF Of
<1>11. PassedRoot(p.client, p.group, mark)
  BY <1>6 DEF Marking
<1>12. e.n <= mark[Root]
  <2>0. PICK a \in Seq(Packets), b \in Seq(Packets) :
          a = got[c] /\ b = queue[Down(c)] /\ Stream(c) = a \o b
    BY <1>9
  <2>1. i \in 1..Len(a \o b) /\ e = (a \o b)[i]
    BY <1>4, <2>0
  <2>2. \/ i \in 1..Len(got[c]) /\ e = got[c][i]
        \/ \E u \in 1..Len(queue[Down(c)]) : e = queue[Down(c)][u]
    <3>1. \/ i \in 1..Len(a) /\ (a \o b)[i] = a[i]
          \/ \E u \in 1..Len(b) : i = Len(a) + u /\ (a \o b)[i] = b[u]
      BY <2>1, ConcatPlaces
    <3> QED BY <2>0, <2>1, <3>1
  <2> QED BY <1>5, <1>11, <2>2 DEF PassedRoot
<1> QED BY <1>1, <1>8, <1>10, <1>12

\* Lemma: a client gets a message that is routed.
LEMMA RoutedGets ==
  ASSUME TypeInv, NEW c \in Clients, NEW k \in Links, NEW p \in Msgs, NEW targets,
         RoutesFrom(Parent[c], k, p, targets)
  PROVE  /\ Down(c) \in targets =>
              \E pkts \in Seq(Packets) : pkts = <<p>> /\ Gets(c, Cleans(Parent[c], p), pkts)
         /\ Down(c) \notin targets =>
              \E pkts \in Seq(Packets) : pkts = <<>> /\ Gets(c, Cleans(Parent[c], p), pkts)
<1>0. Parent[c] \in Nodes /\ c \notin Nodes
  BY ClientEnds
<1>1. /\ got'[c] = got[c]
      /\ \E q \in Queues :
              /\ \A l \in Links : q[l] = IF l = k THEN Tail(queue[k]) ELSE queue[l]
              /\ FlowsFrom(q, targets, <<p>>)
              /\ \E r \in Queues : \A l \in Links :
                   /\ Spares(r[l], q[l], Cleans(Parent[c], p))
                   /\ l[1] # Parent[c] => r[l] = q[l]
                   /\ queue'[l] = IF l \in targets /\ Open(l) THEN r[l] \o <<p>>
                                  ELSE r[l]
  BY <1>0, RoutesDo
<1>2. PICK q \in Queues :
              /\ \A l \in Links : q[l] = IF l = k THEN Tail(queue[k]) ELSE queue[l]
              /\ \E r \in Queues : \A l \in Links :
                   /\ Spares(r[l], q[l], Cleans(Parent[c], p))
                   /\ queue'[l] = IF l \in targets /\ Open(l) THEN r[l] \o <<p>>
                                  ELSE r[l]
  BY <1>1
<1>3. PICK r \in Queues : \A l \in Links :
                   /\ Spares(r[l], q[l], Cleans(Parent[c], p))
                   /\ queue'[l] = IF l \in targets /\ Open(l) THEN r[l] \o <<p>>
                                  ELSE r[l]
  BY <1>2
<1>4. Down(c) \in Links /\ Down(c)[2] = c /\ (Open(Down(c)) <=> conn[c] = "on")
  BY StreamIs
<1>5. Down(c) # k
  BY <1>0, <1>4 DEF RoutesFrom
<1>6. PICK w \in Seq(Packets) : w = r[Down(c)]
  <2>1. r[Down(c)] \in Seq(Cargo(Down(c)))
    BY <1>3, <1>4 DEF Queues
  <2>2. ~\E m \in Children : Down(c) = Up(m)
    BY OtherLinks, ChildEnds
  <2> QED BY <2>1, <2>2 DEF Cargo
<1>7. Spares(w, queue[Down(c)], Cleans(Parent[c], p))
      /\ queue'[Down(c)] = IF Down(c) \in targets /\ conn[c] = "on" THEN w \o <<p>> ELSE w
  BY <1>2, <1>3, <1>4, <1>5, <1>6
<1>8. CASE Down(c) \in targets
  <2>1. <<p>> \in Seq(Packets)
    BY PacketKinds
  <2>2. PICK pkts \in Seq(Packets) : pkts = <<p>>
    BY <2>1
  <2>3. queue'[Down(c)] = IF conn[c] = "on" THEN w \o pkts ELSE w
    BY <1>7, <1>8, <2>2
  <2>4. Gets(c, Cleans(Parent[c], p), pkts)
    BY <1>1, <1>6, <1>7, <2>3, GetsIf
  <2> QED BY <1>8, <2>2, <2>4
<1>9. CASE Down(c) \notin targets
  <2>1. <<>> \in Seq(Packets) /\ w \o <<>> = w
    BY <1>6
  <2>2. PICK pkts \in Seq(Packets) : pkts = <<>> /\ w \o pkts = w
    BY <2>1
  <2>3. queue'[Down(c)] = w
    BY <1>7, <1>9
  <2>4. queue'[Down(c)] = IF conn[c] = "on" THEN w \o pkts ELSE w
    BY <2>2, <2>3, Zenon
  <2>5. Gets(c, Cleans(Parent[c], p), pkts)
    BY <1>1, <1>6, <1>7, <2>4, GetsIf
  <2> QED BY <1>9, <2>2, <2>5
<1> QED BY <1>8, <1>9

\* Lemma: what a history loses are messages.
LEMMA LostAreMsgs ==
  ASSUME TypeInv, NEW n \in Nodes
  PROVE  /\ \A p \in Msgs : \A d \in Cleans(n, p) : d.cmd \in MsgCommands
         /\ \A cs \in SUBSET Clients : \A d \in KeptFrom(n, cs) : d.cmd \in MsgCommands
<1>1. \A g \in AllGroups, s \in Clients : \A d \in Kept(n, g, s) : d.cmd \in MsgCommands
  BY KeptAreMsgs, PacketKinds
<1>2. \A p \in Msgs : \A d \in Cleans(n, p) : d.cmd \in MsgCommands
  <2> TAKE p \in Msgs
  <2>1. p.client \in Clients /\ p.group \in AllGroups
    BY PacketKinds DEF AllGroups
  <2> QED BY <1>1, <2>1 DEF Cleans
<1>3. \A cs \in SUBSET Clients : \A d \in KeptFrom(n, cs) : d.cmd \in MsgCommands
  BY <1>1 DEF KeptFrom
<1> QED BY <1>2, <1>3

\* Lemma: the root joins at once.
LEMMA RootIdleStep ==
  ASSUME TypeInv, NEW c \in Clients, ClientStep(c), Parent[c] = Root,
         join[c].pc = "idle"
  PROVE  /\ join'[c].pc = "idle"
         /\ \/ Waits(c) \/ Admitted(c) \/ Cut(c) \/ Relayed(c) \/ Buried(c) \/ Connect(c)
<1>0. join \in [Clients -> JoinStates] /\ Parent[c] \in Nodes
  BY TypeInvIs, ClientEnds
<1>1. ~KnownJoin(c)
  BY DEF KnownJoin
<1>2. ~JoinStep(c)
  BY DEF JoinStep, JoinReply, JoinHistory, JoinSend
<1>3. CASE Waits(c) \/ Admitted(c)
  BY <1>3 DEF Waits, Admitted, Unmoved
<1>4. CASE Cut(c)
  BY <1>4 DEF Cut, Idle
<1>5. CASE Connect(c)
  BY <1>5 DEF Connect
<1>6. CASE Relayed(c) \/ Buried(c)
  <2>1. \E D : join' = JoinWithout(Parent[c], D)
    <3>1. CASE Buried(c)
      BY <3>1 DEF Buried
    <3>2. CASE Relayed(c)
      <4>1. PICK n \in Nodes, k \in Links, p \in Msgs : \E targets :
              n = Parent[c] /\ RoutesFrom(n, k, p, targets)
        BY <3>2 DEF Relayed
      <4>2. PICK targets : n = Parent[c] /\ RoutesFrom(n, k, p, targets)
        BY <4>1
      <4>3. join' = JoinWithout(n, Cleans(n, p))
        BY <4>2 DEF RoutesFrom, Route, Cleans
      <4> QED BY <4>2, <4>3
    <3> QED BY <1>6, <3>1, <3>2
  <2> QED BY <1>0, <1>6, <2>1, JoinWithoutIs
<1> QED BY <1>1, <1>2, <1>3, <1>4, <1>5, <1>6 DEF ClientStep

\* Lemma: every step keeps this.
LEMMA RootServesStep ==
  ASSUME EndInv, OrderInv, OnIsLocal, RootServes, TypeInv', [Next]_vars
  PROVE  RootServes'
<1>0. TypeInv /\ Placed /\ Outward /\ LookupOK /\ Passing /\ InLine /\ KeptInOrder /\ Unsent
  BY DEF EndInv, OrderInv
<1>1. SUFFICES ASSUME NEW c \in Clients, Parent[c] = Root
               PROVE  Spaced(Stream(c))' /\ join'[c].pc = "idle"
  BY DEF RootServes
<1>2. Spaced(Stream(c)) /\ join[c].pc = "idle"
  BY <1>1 DEF RootServes
<1>3. ClientStep(c)
  BY ClientSteps
<1>4. /\ join'[c].pc = "idle"
      /\ \/ Waits(c) \/ Admitted(c) \/ Cut(c) \/ Relayed(c) \/ Buried(c) \/ Connect(c)
  BY <1>0, <1>1, <1>2, <1>3, RootIdleStep
<1>5. Root \in Nodes /\ Parent[c] \in Nodes
  BY ClientEnds DEF Nodes
<1>6. CASE Waits(c)
  <2>1. PICK pkts \in Seq(Packets) :
       /\ Gets(c, {}, pkts)
       /\ \A u \in 1..Len(pkts) : pkts[u].cmd \notin MsgCommands \cup {"JOIN_GROUP"}
    BY <1>6 DEF Waits
  <2>2. /\ Ordered(pkts)
        /\ \A p, j : j \in 1..Len(pkts) => SentBefore(p, pkts[j])
    BY <2>1, OthersSpaced
  <2>3. Spaced(Stream(c))'
    BY <1>0, <1>2, <2>1, <2>2, SpacedGets
  <2> QED BY <1>4, <2>3
<1>7. CASE Admitted(c)
  <2>1. Spaced(Stream(c))'
    BY <1>0, <1>2, <1>7, SpacedAdmitted
  <2> QED BY <1>4, <2>1
<1>8. CASE Cut(c)
  <2>1. PICK a \in Seq(Packets), b \in Seq(Packets) :
          a = got[c] /\ b = queue[Down(c)] /\ Stream(c) = a \o b
    BY <1>0, StreamIs
  <2>2. Spaced(a)
    BY <1>2, <2>1, SpacedFirst
  <2>3. Stream(c)' = a
    BY <1>8, <2>1 DEF Cut
  <2>4. Spaced(Stream(c))'
    BY <2>2, <2>3 DEF Spaced
  <2> QED BY <1>4, <2>4
<1>9. CASE Relayed(c)
  <2>1. PICK n \in Nodes, k \in Links, p \in Msgs : \E targets :
          n = Parent[c] /\ RoutesFrom(n, k, p, targets)
    BY <1>9 DEF Relayed
  <2>2. PICK targets : RoutesFrom(Root, k, p, targets)
    BY <1>1, <2>1
  <2>3. \E pkts \in Seq(Packets) : /\ pkts = <<p>> \/ pkts = <<>>
                                   /\ Gets(c, Cleans(Root, p), pkts)
    BY <1>0, <1>1, <2>2, RoutedGets
  <2>4. PICK pkts \in Seq(Packets) : /\ pkts = <<p>> \/ pkts = <<>>
                                     /\ Gets(c, Cleans(Root, p), pkts)
    BY <2>3
  <2>5. /\ Len(pkts) <= 1 /\ \A j \in 1..Len(pkts) : pkts[j] = p
        /\ Ordered(pkts)
    <3>1. Len(<<p>>) = 1 /\ <<p>>[1] = p /\ Len(<<>>) = 0
      OBVIOUS
    <3>2. Len(pkts) <= 1 /\ \A j \in 1..Len(pkts) : pkts[j] = p
      <4>1. CASE pkts = <<p>>
        <5>1. Len(pkts) = 1 /\ pkts[1] = p
          BY <3>1, <4>1
        <5> HIDE <4>1
        <5> QED BY <5>1
      <4>2. CASE pkts = <<>>
        <5>1. Len(pkts) = 0
          BY <3>1, <4>2
        <5> QED BY <5>1
      <4> QED BY <2>4, <4>1, <4>2
    <3>3. \A i, j \in 1..Len(pkts) : ~(i < j)
      BY <3>2
    <3> QED BY <3>2, <3>3 DEF Ordered
  <2>6. \A d \in Cleans(Root, p) : d.cmd # "JOIN_GROUP"
    BY <1>0, <1>5, LostAreMsgs DEF MsgCommands
  <2>7. \A i \in 1..Len(Stream(c)) : SentBefore(Stream(c)[i], p)
    BY <1>0, <1>1, <2>2, PassedBefore
  <2>8. \A i \in 1..Len(Stream(c)), j \in 1..Len(pkts) :
           SentBefore(Stream(c)[i], pkts[j])
    BY <2>5, <2>7
  <2>9. Spaced(Stream(c))'
    BY <1>0, <1>2, <2>4, <2>5, <2>6, <2>8, SpacedGets
  <2> QED BY <1>4, <2>9
<1>10. CASE Buried(c)
  <2>1. PICK cs \in SUBSET Clients, news \in Seq(Packets) :
       /\ Gets(c, KeptFrom(Parent[c], cs), news)
       /\ \A u \in 1..Len(news) : news[u].cmd = "CLIENT_DISCONNECTED"
    BY <1>10 DEF Buried
  <2>2. /\ Ordered(news)
        /\ \A p, j : j \in 1..Len(news) => SentBefore(p, news[j])
    BY <2>1, OthersSpaced DEF MsgCommands
  <2>3. \A d \in KeptFrom(Parent[c], cs) : d.cmd # "JOIN_GROUP"
    BY <1>0, <1>5, LostAreMsgs DEF MsgCommands
  <2>4. Spaced(Stream(c))'
    BY <1>0, <1>2, <2>1, <2>2, <2>3, SpacedGets
  <2> QED BY <1>4, <2>4
<1>11. CASE Connect(c)
  <2>1. Stream(c)' = Stream(c)
    BY <1>11 DEF Connect, Stream
  <2>2. Spaced(Stream(c))'
    BY <1>2, <2>1 DEF Spaced
  <2> QED BY <1>4, <2>2
<1> QED BY <1>4, <1>6, <1>7, <1>8, <1>9, <1>10, <1>11

\* Lemma: between two messages since the last answer there is none.
LEMMA RootServesShows ==
  ASSUME TypeInv, RootServes
  PROVE  RootClientsInOrder
<1>1. SUFFICES ASSUME NEW c \in Clients, Parent[c] = Root, NEW g \in Groups,
                      NEW i \in SinceJoin(c, g), NEW j \in SinceJoin(c, g),
                      i < j, Stream(c)[i].client = Stream(c)[j].client
               PROVE  Stream(c)[i].n < Stream(c)[j].n
  BY DEF RootClientsInOrder, InSendingOrder
<1>2. Stream(c) \in Seq(Packets)
  BY StreamIs
<1>3. PICK s \in Seq(Packets) : s = Stream(c)
  BY <1>2
<1>4. /\ i \in 1..Len(s) /\ j \in 1..Len(s) /\ IsMsg(s[i], g) /\ IsMsg(s[j], g)
      /\ \A k \in i..Len(s) : ~(s[k].cmd = "JOIN_GROUP" /\ s[k].group = g)
  BY <1>1, <1>3 DEF SinceJoin
<1>5. Spaced(s)
  BY <1>1, <1>3 DEF RootServes
<1>6. SentBefore(s[i], s[j])
  <2>1. SUFFICES ASSUME ~SentBefore(s[i], s[j])
                 PROVE  FALSE
    OBVIOUS
  <2>2. PICK k \in i..j : Answers(s[k], s[j].group)
    BY <1>1, <1>4, <1>5, <2>1 DEF Spaced
  <2>3. k \in i..Len(s)
    BY <1>4
  <2> QED BY <1>4, <2>2, <2>3 DEF Answers, IsMsg
<1> QED BY <1>1, <1>3, <1>4, <1>6 DEF SentBefore, IsMsg

\* What the following theorems rest on, besides the invariant of GoneInv.
LinesInv == GoneInv /\ OrderInv /\ OnIsLocal /\ RootServes

\* Lemma: it holds initially.
LEMMA LinesInvInit ==
  ASSUME Init
  PROVE  LinesInv
BY GoneInvInit, PassingInit, OnIsLocalInit, RootServesInit DEF LinesInv, OrderInv

\* Lemma: and every step keeps it.
LEMMA LinesInvStep ==
  ASSUME LinesInv, [Next]_vars
  PROVE  LinesInv'
<1>1. GoneInv /\ OrderInv /\ OnIsLocal /\ RootServes /\ EndInv /\ Quit /\ TypeInv
  BY DEF LinesInv, GoneInv, EndInv
<1>2. GoneInv'
  BY <1>1, GoneInvStep
<1>3. TypeInv'
  BY <1>1, TypeStep
<1>4. OrderInv'
  BY <1>1, <1>3, OrderStep
<1>5. OnIsLocal'
  BY <1>1, <1>3, OnIsLocalStep
<1>6. RootServes'
  BY <1>1, <1>3, RootServesStep
<1> QED BY <1>2, <1>4, <1>5, <1>6 DEF LinesInv

\* A client of the root receives each sender's messages in the order they were
\* sent and once, since it joined: what the root routes comes after all it has
\* routed before, and the history that it sends with the answer to a join ends
\* with the last message it has routed (joinGroup, getMsgs, routeToGroup).
THEOREM RootServesInOrder == Spec => []RootClientsInOrder
<1>1. Init => LinesInv
  BY LinesInvInit
<1>2. LinesInv /\ [Next]_vars => LinesInv'
  BY LinesInvStep
<1>3. LinesInv => RootClientsInOrder
  BY RootServesShows DEF LinesInv, GoneInv, EndInv
<1> QED BY <1>1, <1>2, <1>3, PTL DEF Spec

----------------------------------------------------------------------------
(* The members of a group hold the history of their node *)

\* Message p of group g comes in s after the last answer to a join of g.
After(s, g, p) ==
  \E i \in 1..Len(s) : s[i] = p /\ \A j \in i..Len(s) : ~Answers(s[j], g)

\* Lemmas: this stays when others are left out ...
LEMMA AfterSpares ==
  ASSUME NEW S, NEW r \in Seq(S), NEW s \in Seq(S), NEW D, Spares(r, s, D),
         NEW g, NEW p, p \notin D, After(s, g, p)
  PROVE  After(r, g, p)
<1>1. PICK at \in [1..Len(r) -> 1..Len(s)] :
        /\ \A i, j \in 1..Len(r) : i < j => at[i] < at[j]
        /\ \A i \in 1..Len(r) : r[i] = s[at[i]]
        /\ \A k \in 1..Len(s) : s[k] \in D \/ \E i \in 1..Len(r) : at[i] = k
  BY DEF Spares
<1>2. Len(r) \in Nat /\ Len(s) \in Nat
  OBVIOUS
<1>3. PICK k \in 1..Len(s) : s[k] = p /\ \A j \in k..Len(s) : ~Answers(s[j], g)
  BY DEF After
<1>4. PICK i \in 1..Len(r) : at[i] = k
  BY <1>1, <1>3
<1>5. r[i] = p
  BY <1>1, <1>3, <1>4
<1>6. ASSUME NEW j \in i..Len(r)
      PROVE  ~Answers(r[j], g)
  <2>1. j \in 1..Len(r) /\ at[j] \in 1..Len(s) /\ at[i] <= at[j]
    <3>1. j \in 1..Len(r)
      BY <1>2
    <3>2. at[j] \in 1..Len(s) /\ at[i] \in 1..Len(s)
      BY <1>1, <3>1
    <3>3. i = j \/ i < j
      BY <1>2
    <3>4. i < j => at[i] < at[j]
      BY <1>1, <3>1
    <3> QED BY <3>1, <3>2, <3>3, <3>4
  <2>2. at[j] \in k..Len(s)
    BY <1>2, <1>4, <2>1
  <2>3. r[j] = s[at[j]]
    BY <1>1, <2>1
  <2> QED BY <1>3, <2>2, <2>3
<1> QED BY <1>5, <1>6 DEF After

\* ... and when others come that are no such answer ...
LEMMA AfterLonger ==
  ASSUME NEW S, NEW s \in Seq(S), NEW t \in Seq(S), NEW g, NEW p, After(s, g, p),
         \A j \in 1..Len(t) : ~Answers(t[j], g)
  PROVE  After(s \o t, g, p)
<1>1. /\ Len(s \o t) = Len(s) + Len(t) /\ Len(s) \in Nat /\ Len(t) \in Nat
      /\ \A i \in 1..Len(s) : (s \o t)[i] = s[i]
      /\ \A i \in 1..Len(t) : (s \o t)[Len(s) + i] = t[i]
  OBVIOUS
<1>2. PICK i \in 1..Len(s) : s[i] = p /\ \A j \in i..Len(s) : ~Answers(s[j], g)
  BY DEF After
<1>3. i \in 1..Len(s \o t) /\ (s \o t)[i] = p
  BY <1>1, <1>2
<1>4. ASSUME NEW j \in i..Len(s \o t)
      PROVE  ~Answers((s \o t)[j], g)
  <2>1. CASE j <= Len(s)
    <3>1. j \in i..Len(s) /\ j \in 1..Len(s)
      BY <1>1, <2>1
    <3> QED BY <1>1, <1>2, <3>1
  <2>2. CASE j > Len(s)
    <3>1. j - Len(s) \in 1..Len(t) /\ j = Len(s) + (j - Len(s))
      BY <1>1, <2>2
    <3>2. (s \o t)[j] = t[j - Len(s)]
      BY <1>1, <3>1
    <3> QED BY <3>1, <3>2
  <2> QED BY <1>1, <2>1, <2>2
<1> QED BY <1>3, <1>4 DEF After

\* ... and a message comes when it is among those.
LEMMA AfterSent ==
  ASSUME NEW S, NEW s \in Seq(S), NEW t \in Seq(S), NEW g, NEW p, After(t, g, p)
  PROVE  After(s \o t, g, p)
<1>1. Len(s \o t) = Len(s) + Len(t) /\ Len(s) \in Nat /\ Len(t) \in Nat
      /\ \A i \in 1..Len(t) : (s \o t)[Len(s) + i] = t[i]
  OBVIOUS
<1>2. PICK i \in 1..Len(t) : t[i] = p /\ \A j \in i..Len(t) : ~Answers(t[j], g)
  BY DEF After
<1>3. Len(s) + i \in 1..Len(s \o t) /\ (s \o t)[Len(s) + i] = p
  BY <1>1, <1>2
<1>4. ASSUME NEW j \in (Len(s) + i)..Len(s \o t)
      PROVE  ~Answers((s \o t)[j], g)
  <2>1. j - Len(s) \in i..Len(t) /\ j - Len(s) \in 1..Len(t)
        /\ j = Len(s) + (j - Len(s))
    BY <1>1
  <2>2. (s \o t)[j] = t[j - Len(s)]
    BY <1>1, <2>1
  <2> QED BY <1>2, <2>1, <2>2
<1> QED BY <1>3, <1>4 DEF After

\* The thread of the client has answered its join of g or is about to, and has
\* not copied the history yet ...
Answering(c, g) == Joining(c, g) /\ join[c].pc \in {"reply", "history"}
\* ... or it has p still to send.
Pending(c, g, p) == Joining(c, g) /\ p \in ToSet(join[c].rest)

HoldsAll(c, g) ==
  \A s \in Clients : \A p \in Kept(Parent[c], g, s) :
    After(Stream(c), g, p) \/ Pending(c, g, p)

Holds ==
  \A c \in Clients, g \in Groups :
    conn[c] = "on" /\ c \in members[Parent[c]][g] =>
      Answering(c, g) \/ HoldsAll(c, g)

\* Lemma: initially nobody is a member.
LEMMA HoldsInit ==
  ASSUME Init
  PROVE  Holds /\ status[Root] = "up"
BY DEF Init, Holds, Nodes

\* Lemma: a client that gets packets keeps what it has, but for what has been
\* deprecated, unless one of them is the answer to a join ...
LEMMA AfterGets ==
  ASSUME TypeInv, NEW c \in Clients, conn[c] = "on", NEW D,
         NEW pkts \in Seq(Packets), Gets(c, D, pkts), NEW g, NEW p
  PROVE  /\ After(Stream(c), g, p) /\ p \notin D
              /\ (\A u \in 1..Len(pkts) : ~Answers(pkts[u], g))
                => After(Stream(c), g, p)'
         /\ After(pkts, g, p) => After(Stream(c), g, p)'
<1>1. PICK r \in Seq(Packets) :
        /\ Spares(r, Stream(c), D)
        /\ Stream(c)' = IF conn[c] = "on" THEN r \o pkts ELSE r
  BY DEF Gets
<1>2. Stream(c) \in Seq(Packets) /\ Stream(c)' = r \o pkts
  BY <1>1, StreamIs
<1>3. CASE /\ After(Stream(c), g, p) /\ p \notin D
           /\ \A u \in 1..Len(pkts) : ~Answers(pkts[u], g)
  <2>1. After(r, g, p)
    BY <1>1, <1>2, <1>3, AfterSpares
  <2>2. After(r \o pkts, g, p)
    BY <1>3, <2>1, AfterLonger
  <2> QED BY <1>2, <1>3, <2>2 DEF After, Answers
<1>4. CASE After(pkts, g, p)
  <2>1. After(r \o pkts, g, p)
    BY <1>4, AfterSent
  <2> QED BY <1>2, <1>4, <2>1 DEF After, Answers
<1>5. After(Stream(c), g, p)' <=> After(r \o pkts, g, p)
  BY <1>2 DEF After, Answers
<1> QED BY <1>3, <1>4, <1>5

\* ... and so it goes on holding a history that stays.
LEMMA HoldsGets ==
  ASSUME TypeInv, TypeInv', NEW c \in Clients, conn[c] = "on", NEW g \in Groups,
         HoldsAll(c, g), NEW D,
         NEW pkts \in Seq(Packets), Gets(c, D, pkts),
         \A u \in 1..Len(pkts) : ~Answers(pkts[u], g),
         \A s \in Clients : \A p \in Kept(Parent[c], g, s)' :
           \/ After(pkts, g, p)
           \/ p \in Kept(Parent[c], g, s) /\ p \notin D
                /\ (Pending(c, g, p) => Pending(c, g, p)')
  PROVE  HoldsAll(c, g)'
<1>1. SUFFICES ASSUME NEW s \in Clients, NEW p \in Kept(Parent[c], g, s)'
               PROVE  After(Stream(c), g, p)' \/ Pending(c, g, p)'
  BY DEF HoldsAll
<1>2. CASE After(pkts, g, p)
  BY <1>2, AfterGets
<1>3. CASE p \in Kept(Parent[c], g, s) /\ p \notin D
                /\ (Pending(c, g, p) => Pending(c, g, p)')
  <2>1. After(Stream(c), g, p) \/ Pending(c, g, p)
    BY <1>3 DEF HoldsAll
  <2> QED BY <1>3, <2>1, AfterGets
<1> QED BY <1>1, <1>2, <1>3

\* Lemma: what is kept is of its group and sender.
LEMMA KeptOf ==
  ASSUME TypeInv, NEW n \in Nodes, NEW g \in AllGroups, NEW s \in Clients,
         NEW p \in Kept(n, g, s)
  PROVE  p \in Msgs /\ p.client = s /\ p.group = g /\ p.cmd \in MsgCommands
<1>1. p \in Msgs
  BY KeptAreMsgs
<1>2. \A e \in ToSet(history[n][g][s]) : e.client = s /\ e.group = g
  BY TypeInvIs
<1>3. p.client = s /\ p.group = g
  BY <1>2 DEF Kept
<1>4. p.cmd \in MsgCommands
  BY <1>1, PacketKinds
<1> QED BY <1>1, <1>3, <1>4

\* Lemma: a message that has just been sent.
LEMMA AfterOne ==
  ASSUME NEW p \in Msgs, NEW pkts \in Seq(Packets), pkts = <<p>>, NEW g
  PROVE  After(pkts, g, p)
<1>1. Len(pkts) = 1 /\ pkts[1] = p
  OBVIOUS
<1>2. p.cmd # "JOIN_GROUP"
  BY PacketKinds DEF MsgCommands
<1>3. \A j \in 1..Len(pkts) : ~Answers(pkts[j], g)
  BY ONLY <1>1, <1>2 DEF Answers
<1> QED BY <1>1, <1>3 DEF After

\* Lemma: a client waits.
LEMMA HoldsWaits ==
  ASSUME TypeInv, TypeInv', Holds, NEW c \in Clients, NEW g \in Groups, Waits(c),
         conn'[c] = "on", c \in members'[Parent[c]][g]
  PROVE  Answering(c, g)' \/ HoldsAll(c, g)'
<1>0. g \in AllGroups
  BY DEF AllGroups
<1>1. Remains(c) /\ Unmoved(c)
  BY DEF Waits
<1>2. conn[c] = "on" /\ c \in members[Parent[c]][g] /\ join'[c] = join[c]
  BY <1>0, <1>1 DEF Remains, Unmoved
<1>3. CASE Answering(c, g)
  BY <1>2, <1>3 DEF Answering, Joining
<1>4. CASE HoldsAll(c, g)
  <2>1. PICK pkts \in Seq(Packets) :
       /\ Gets(c, {}, pkts)
       /\ \A u \in 1..Len(pkts) : pkts[u].cmd \notin MsgCommands \cup {"JOIN_GROUP"}
    BY DEF Waits
  <2>2. \A u \in 1..Len(pkts) : ~Answers(pkts[u], g)
    BY <2>1 DEF Answers
  <2>3. \A s \in Clients : Kept(Parent[c], g, s)' = Kept(Parent[c], g, s)
    BY <1>0, <1>1 DEF Unmoved, Kept
  <2>4. \A p : Pending(c, g, p) => Pending(c, g, p)'
    BY <1>2 DEF Pending, Joining
  <2> QED BY <1>2, <1>4, <2>1, <2>2, <2>3, <2>4, HoldsGets
<1> QED BY <1>2, <1>3, <1>4 DEF Holds

\* Lemma: a client gets an answer, with a history.
LEMMA HoldsAdmitted ==
  ASSUME TypeInv, TypeInv', KeptInOrder, Holds, NEW c \in Clients, NEW g \in Groups,
         Admitted(c), conn'[c] = "on", c \in members'[Parent[c]][g]
  PROVE  Answering(c, g)' \/ HoldsAll(c, g)'
<1>0. g \in AllGroups /\ Parent[c] \in Nodes
  BY ClientEnds DEF AllGroups
<1>1. conn[c] = "on" /\ Unmoved(c) /\ join'[c] = join[c]
  BY DEF Admitted, Unmoved
<1>2. PICK h \in AllGroups, a \in Notes :
       /\ a.cmd = "JOIN_GROUP" /\ a.group = h
       /\ \A e \in AllGroups : c \in members'[Parent[c]][e] =>
            e = h \/ c \in members[Parent[c]][e]
       /\ Gets(c, {}, <<a>> \o getMsgs(Parent[c], h))
  BY DEF Admitted
<1>3. PICK m \in Seq(Msgs) : m = getMsgs(Parent[c], h)
  BY <1>0, HistoriesAre
<1>4. \A i \in 1..Len(m) : m[i].cmd \in MsgCommands
  BY <1>3, PacketKinds
<1>5. m \in Seq(Packets) /\ <<a>> \in Seq(Packets) /\ a \in Packets
  BY <1>3, MsgsArePackets DEF Packets
<1>6. PICK one \in Seq(Packets) : one = <<a>>
  BY <1>5
<1>7. one \o m \in Seq(Packets)
  BY <1>5
<1>8. PICK pkts \in Seq(Packets) : pkts = one \o m
  BY <1>7
<1>9. Gets(c, {}, pkts)
  BY <1>2, <1>3, <1>6, <1>8, Zenon
<1>10. \A s \in Clients : Kept(Parent[c], g, s)' = Kept(Parent[c], g, s)
  BY <1>0, <1>1 DEF Unmoved, Kept
<1>11. \A p : Pending(c, g, p) => Pending(c, g, p)'
  BY <1>1 DEF Pending, Joining
<1>12. CASE g = h
  <2>1. HistoryOrdered(Parent[c])
    BY <1>0 DEF KeptInOrder
  <2>2. \A s \in Clients : \A p \in Kept(Parent[c], g, s) :
          \E i \in 1..Len(m) : m[i] = p
    BY <1>3, <1>0, <1>12, <2>1, GetMsgsOrdered
  <2>3. ASSUME NEW p, NEW i \in 1..Len(m), m[i] = p
        PROVE  After(pkts, g, p)
    <3>1. \A j \in i..Len(m) : ~Answers(m[j], g)
      BY <1>4, <1>3 DEF Answers, MsgCommands
    <3>2. After(m, g, p)
      BY <2>3, <3>1 DEF After
    <3> QED BY <1>5, <1>8, <3>2, AfterSent
  <2>4. \A s \in Clients : \A p \in Kept(Parent[c], g, s)' : After(pkts, g, p)
    BY <1>10, <2>2, <2>3
  <2>5. \A p : After(pkts, g, p) => After(Stream(c), g, p)'
    BY <1>1, <1>9, AfterGets
  <2> QED BY <2>4, <2>5 DEF HoldsAll
<1>13. CASE g # h
  <2>1. c \in members[Parent[c]][g]
    BY <1>0, <1>2, <1>13
  <2>2. CASE Answering(c, g)
    BY <1>1, <2>2 DEF Answering, Joining
  <2>3. CASE HoldsAll(c, g)
    <3>1. \A u \in 1..Len(pkts) : ~Answers(pkts[u], g)
      <4> TAKE u \in 1..Len(pkts)
      <4>1. u \in 1..Len(one \o m) /\ pkts[u] = (one \o m)[u]
        BY <1>8
      <4>2. pkts[u] = a \/ \E i \in 1..Len(m) : pkts[u] = m[i]
        BY <1>5, <1>6, <4>1, ConcatPlaces
      <4> QED BY <1>2, <1>4, <1>13, <4>2 DEF Answers, MsgCommands
    <3> QED BY <1>1, <1>9, <1>10, <1>11, <2>3, <3>1, HoldsGets
  <2> QED BY <1>1, <2>1, <2>2, <2>3 DEF Holds
<1> QED BY <1>12, <1>13

\* Lemma: what JoinWithout leaves pending.
LEMMA PendingWithout ==
  ASSUME TypeInv, NEW c \in Clients, NEW D, join' = JoinWithout(Parent[c], D),
         NEW g
  PROVE  /\ Answering(c, g) => Answering(c, g)'
         /\ \A p : p \notin D /\ Pending(c, g, p) => Pending(c, g, p)'
<1>1. join \in [Clients -> JoinStates]
  BY TypeInvIs
<1>2. /\ join'[c].pc = join[c].pc /\ join'[c].group = join[c].group
      /\ join'[c].rest = Purged(join[c].rest, D)
  BY <1>1, JoinWithoutIs
<1>3. join[c].rest \in Seq(Msgs)
  BY <1>1 DEF JoinStates
<1>4. PICK s \in Seq(Msgs) : s = join[c].rest
  BY <1>3
<1>5. Sifts(Purged(s, D), s, D)
  BY PurgedSifts
<1>6. ASSUME NEW p, p \notin D, p \in ToSet(s)
      PROVE  p \in ToSet(Purged(s, D))
  <2>1. PICK k \in 1..Len(s) : s[k] = p
    BY <1>6 DEF ToSet
  <2>2. \E i \in 1..Len(Purged(s, D)) : Purged(s, D)[i] = p
    BY <1>5, <1>6, <2>1 DEF Sifts
  <2>3. Purged(s, D) \in Seq(Msgs)
    BY PurgedSifts
  <2> QED BY <2>2, <2>3 DEF ToSet
<1>7. Answering(c, g) => Answering(c, g)'
  BY <1>2 DEF Answering, Joining
<1>8. \A p : p \notin D /\ Pending(c, g, p) => Pending(c, g, p)'
  BY <1>2, <1>4, <1>6 DEF Pending, Joining
<1> QED BY <1>7, <1>8

\* Lemma: its node routes a message: to the members of the group.
LEMMA HoldsRelayed ==
  ASSUME TypeInv, TypeInv', OnIsLocal, Holds, NEW c \in Clients, NEW g \in Groups,
         Relayed(c), conn'[c] = "on", c \in members'[Parent[c]][g]
  PROVE  Answering(c, g)' \/ HoldsAll(c, g)'
<1> DEFINE n == Parent[c]
<1>0. g \in AllGroups /\ n \in Nodes
  BY ClientEnds DEF AllGroups
<1>1. PICK k \in Links, p \in Msgs : \E targets : RoutesFrom(n, k, p, targets)
  BY DEF Relayed
<1>2. PICK targets : RoutesFrom(n, k, p, targets)
  BY <1>1
<1> HIDE DEF n
<1>3. /\ UNCHANGED <<conn, members>> /\ join' = JoinWithout(n, Cleans(n, p))
      /\ \A c1 \in members[n][p.group] \cap local[n] : Down(c1) \in targets
  BY <1>2 DEF RoutesFrom, Route, Cleans
<1>4. \A h \in AllGroups, s \in Clients : history'[n][h][s] =
              IF p.cmd # "NO_HISTORY_MSG" /\ h = p.group /\ s = p.client
              THEN IF p.cmd = "SYNC_MSG" THEN <<p>>
                   ELSE Append(history[n][h][s], p)
              ELSE history[n][h][s]
  BY <1>0, <1>2, RoutesDo
<1>5. conn[c] = "on" /\ c \in members[n][g] /\ c \in local[n]
  BY <1>3 DEF n, OnIsLocal
<1>6. /\ Answering(c, g) => Answering(c, g)'
      /\ \A e : e \notin Cleans(n, p) /\ Pending(c, g, e) => Pending(c, g, e)'
  BY <1>3, PendingWithout DEF n
<1>7. CASE HoldsAll(c, g)
  <2>1. /\ Down(c) \in targets =>
              \E pkts \in Seq(Packets) : pkts = <<p>> /\ Gets(c, Cleans(n, p), pkts)
        /\ Down(c) \notin targets =>
              \E pkts \in Seq(Packets) : pkts = <<>> /\ Gets(c, Cleans(n, p), pkts)
    BY <1>2, RoutedGets DEF n
  <2>2. PICK pkts \in Seq(Packets) :
          \/ Down(c) \in targets /\ pkts = <<p>> /\ Gets(c, Cleans(n, p), pkts)
          \/ Down(c) \notin targets /\ pkts = <<>> /\ Gets(c, Cleans(n, p), pkts)
    BY <2>1, Zenon
  <2>3. p.cmd # "JOIN_GROUP" /\ p.client \in Clients /\ p.group \in AllGroups
    BY PacketKinds DEF MsgCommands, AllGroups
  <2>4. \A u \in 1..Len(pkts) : ~Answers(pkts[u], g)
    <3>1. CASE pkts = <<p>>
      BY <2>3, <3>1 DEF Answers
    <3>2. CASE pkts = <<>>
      BY <3>2
    <3> QED BY <2>2, <3>1, <3>2
  <2>5. Down(c) \in targets => \A h : After(pkts, h, p)
    BY <2>2, AfterOne
  <2>6. ASSUME NEW s \in Clients, NEW e \in Kept(n, g, s)'
        PROVE  \/ After(pkts, g, e)
               \/ e \in Kept(n, g, s) /\ e \notin Cleans(n, p)
    <3>1. CASE p.cmd # "NO_HISTORY_MSG" /\ g = p.group /\ s = p.client
      <4>1. Down(c) \in targets
        BY <1>3, <1>5, <3>1
      <4>2. CASE p.cmd = "SYNC_MSG"
        <5>1. history'[n][g][s] = <<p>>
          BY <1>0, <1>4, <3>1, <4>2
        <5>2. e = p
          BY <2>6, <5>1 DEF Kept, ToSet
        <5> QED BY <2>5, <4>1, <5>2
      <4>3. CASE p.cmd # "SYNC_MSG"
        <5>1. history'[n][g][s] = Append(history[n][g][s], p)
          BY <1>0, <1>4, <3>1, <4>3
        <5>2. history[n][g][s] \in Seq(Msgs)
          BY <1>0, TypeInvIs
        <5>3. Kept(n, g, s)' = Kept(n, g, s) \cup {p}
          BY <5>1, <5>2, AppendHolds DEF Kept
        <5>4. Cleans(n, p) = {}
          BY <4>3 DEF Cleans
        <5> QED BY <2>5, <2>6, <4>1, <5>3, <5>4
      <4> QED BY <4>2, <4>3
    <3>2. CASE ~(p.cmd # "NO_HISTORY_MSG" /\ g = p.group /\ s = p.client)
      <4>1. history'[n][g][s] = history[n][g][s]
        BY <1>0, <1>4, <3>2
      <4>2. e \in Kept(n, g, s)
        BY <2>6, <4>1 DEF Kept
      <4>3. e.client = s /\ e.group = g
        BY <1>0, <4>2, KeptOf
      <4>4. e \notin Cleans(n, p)
        <5>1. CASE p.cmd = "SYNC_MSG"
          <6>1. \A d \in Kept(n, p.group, p.client) : d.client = p.client /\ d.group = p.group
            BY <1>0, <2>3, KeptOf
          <6> QED BY <3>2, <4>3, <5>1, <6>1 DEF Cleans
        <5>2. CASE p.cmd # "SYNC_MSG"
          BY <5>2 DEF Cleans
        <5> QED BY <5>1, <5>2
      <4> QED BY <4>2, <4>4
    <3> QED BY <3>1, <3>2
  <2>7. \A s \in Clients : \A e \in Kept(Parent[c], g, s)' :
           \/ After(pkts, g, e)
           \/ e \in Kept(Parent[c], g, s) /\ e \notin Cleans(n, p)
                /\ (Pending(c, g, e) => Pending(c, g, e)')
    BY <1>6, <2>6 DEF n
  <2> QED BY <1>5, <1>7, <2>2, <2>4, <2>7, HoldsGets
<1>8. CASE Answering(c, g)
  BY <1>6, <1>8
<1> QED BY <1>5, <1>7, <1>8 DEF Holds, n

\* Lemma: its node buries somebody.
LEMMA HoldsBuried ==
  ASSUME TypeInv, TypeInv', Holds, NEW c \in Clients, NEW g \in Groups,
         Buried(c), conn'[c] = "on", c \in members'[Parent[c]][g]
  PROVE  Answering(c, g)' \/ HoldsAll(c, g)'
<1> DEFINE n == Parent[c]
<1>0. g \in AllGroups /\ n \in Nodes
  BY ClientEnds DEF AllGroups
<1>1. PICK cs \in SUBSET Clients, news \in Seq(Packets) :
       /\ \A h \in AllGroups, s \in Clients : history'[n][h][s] =
            IF s \in cs THEN <<>> ELSE history[n][h][s]
       /\ join' = JoinWithout(n, KeptFrom(n, cs))
       /\ Gets(c, KeptFrom(n, cs), news)
       /\ \A u \in 1..Len(news) : news[u].cmd = "CLIENT_DISCONNECTED"
  BY DEF Buried
<1>2. conn[c] = "on" /\ c \in members[n][g]
  BY <1>0 DEF Buried, Remains
<1>3. /\ Answering(c, g) => Answering(c, g)'
      /\ \A e : e \notin KeptFrom(n, cs) /\ Pending(c, g, e) => Pending(c, g, e)'
  BY <1>1, PendingWithout
<1>4. CASE HoldsAll(c, g)
  <2>1. \A u \in 1..Len(news) : ~Answers(news[u], g)
    BY <1>1 DEF Answers
  <2>2. ASSUME NEW s \in Clients, NEW e \in Kept(n, g, s)'
        PROVE  e \in Kept(n, g, s) /\ e \notin KeptFrom(n, cs)
    <3>1. s \notin cs
      <4>1. SUFFICES ASSUME s \in cs
                     PROVE  FALSE
        OBVIOUS
      <4>2. history'[n][g][s] = <<>>
        BY <1>0, <1>1, <4>1
      <4> QED BY <2>2, <4>2 DEF Kept, ToSet
    <3>2. history'[n][g][s] = history[n][g][s]
      BY <1>0, <1>1, <3>1
    <3>3. e \in Kept(n, g, s)
      BY <2>2, <3>2 DEF Kept
    <3>4. e.client = s
      BY <1>0, <3>3, KeptOf
    <3>5. \A d \in KeptFrom(n, cs) : d.client \in cs
      <4>1. \A h \in AllGroups, a \in cs : \A d \in Kept(n, h, a) : d.client = a
        BY <1>0, KeptOf
      <4> QED BY <4>1 DEF KeptFrom
    <3> QED BY <3>1, <3>3, <3>4, <3>5
  <2>3. \A s \in Clients : \A e \in Kept(Parent[c], g, s)' :
           \/ After(news, g, e)
           \/ e \in Kept(Parent[c], g, s) /\ e \notin KeptFrom(n, cs)
                /\ (Pending(c, g, e) => Pending(c, g, e)')
    BY <1>3, <2>2
  <2> QED BY <1>1, <1>2, <1>4, <2>1, <2>3, HoldsGets
<1>5. CASE Answering(c, g)
  BY <1>3, <1>5
<1> QED BY <1>2, <1>4, <1>5 DEF Holds

\* Lemma: the thread of the client begins a join.
LEMMA HoldsKnownJoin ==
  ASSUME TypeInv, TypeInv', Holds, NEW c \in Clients, NEW g \in Groups,
         KnownJoin(c), conn'[c] = "on", c \in members'[Parent[c]][g]
  PROVE  Answering(c, g)' \/ HoldsAll(c, g)'
<1> DEFINE n == Parent[c]
           p == Head(queue[Up(c)])
<1>0. g \in AllGroups /\ n \in Nodes /\ c \in Ends /\ Up(c) # Down(c)
      /\ Up(c) \in Links /\ Down(c) \in Links
  BY ClientEnds, OtherLinks DEF AllGroups
<1>1. /\ join' = [join EXCEPT ![c] = [pc |-> "reply", group |-> p.group, rest |-> <<>>]]
      /\ members' = [members EXCEPT ![n][p.group] = @ \cup {c}]
      /\ UNCHANGED <<conn, history, got>> /\ queue' = Taken(Up(c))
      /\ join[c].pc = "idle"
  BY DEF KnownJoin, Reads
<1>2. join \in [Clients -> JoinStates] /\ members \in [Nodes -> [AllGroups -> SUBSET Clients]]
  BY TypeInvIs
<1>3. join'[c].pc = "reply" /\ join'[c].group = p.group
  BY <1>1, <1>2
<1>4. CASE g = p.group
  BY <1>3, <1>4 DEF Answering, Joining
<1>5. CASE g # p.group
  <2>1. members'[n][g] = members[n][g]
    BY <1>0, <1>1, <1>2, <1>5
  <2>2. HoldsAll(c, g) /\ conn[c] = "on"
    BY <1>1, <2>1 DEF Holds, Answering, Joining
  <2>3. got'[c] = got[c] /\ queue'[Down(c)] = queue[Down(c)]
    BY <1>0, <1>1, TakenElse
  <2>4. Gets(c, {}, <<>>)
    BY <2>3, GetsNone
  <2>5. <<>> \in Seq(Packets) /\ Len(<<>>) = 0
    OBVIOUS
  <2>6. PICK pkts \in Seq(Packets) : pkts = <<>> /\ Len(pkts) = 0
    BY <2>5
  <2>7. Gets(c, {}, pkts)
    BY <2>4, <2>6, Zenon
  <2>8. \A u \in 1..Len(pkts) : ~Answers(pkts[u], g)
    BY <2>6
  <2>9. \A s \in Clients : Kept(Parent[c], g, s)' = Kept(Parent[c], g, s)
    BY <1>1 DEF Kept
  <2>10. \A e : ~Pending(c, g, e)
    BY <1>1 DEF Pending, Joining
  <2> QED BY <2>2, <2>7, <2>8, <2>9, <2>10, HoldsGets
<1> QED BY <1>4, <1>5

\* Lemma: it answers.
LEMMA HoldsJoinReply ==
  ASSUME TypeInv, TypeInv', Holds, NEW c \in Clients, NEW g \in Groups,
         JoinReply(c), conn'[c] = "on", c \in members'[Parent[c]][g]
  PROVE  Answering(c, g)' \/ HoldsAll(c, g)'
<1>0. g \in AllGroups /\ Parent[c] \in Nodes
  BY ClientEnds DEF AllGroups
<1>1. /\ join[c].pc = "reply" /\ join' = [join EXCEPT ![c].pc = "history"]
      /\ queue' = Sent(queue, {Down(c)}, <<Packet("JOIN_GROUP", c, join[c].group, 0)>>)
      /\ UNCHANGED <<conn, members, history, got>>
  BY DEF JoinReply, tables
<1>2. join \in [Clients -> JoinStates] /\ queue \in Queues
  BY TypeInvIs
<1>3. join'[c].pc = "history" /\ join'[c].group = join[c].group
  BY <1>1, <1>2 DEF JoinStates
<1>4. CASE g = join[c].group
  BY <1>3, <1>4 DEF Answering, Joining
<1>5. CASE g # join[c].group
  <2>1. HoldsAll(c, g) /\ conn[c] = "on"
    BY <1>1, <1>5 DEF Holds, Answering, Joining
  <2>2. Packet("JOIN_GROUP", c, join[c].group, 0) \in Notes
    BY <1>2 DEF Packet, Notes, Asks, JoinStates
  <2>3. PICK a \in Notes : a = Packet("JOIN_GROUP", c, join[c].group, 0)
    BY <2>2
  <2>4. a.group # g
    BY <1>5, <2>3 DEF Packet
  <2>5. a \in Packets /\ <<a>> \in Seq(Packets)
    BY DEF Packets
  <2>6. PICK pkts \in Seq(Packets) : pkts = <<a>>
    BY <2>5
  <2>7. queue' = Sent(queue, {Down(c)}, pkts)
    BY <1>1, <2>3, <2>6
  <2>8. \A u \in 1..Len(pkts) : ~Answers(pkts[u], g)
    BY <2>4, <2>6 DEF Answers
  <2> HIDE <2>6
  <2>9. got'[c] = got[c] /\ Down(c) \in {Down(c)} /\ queue[Down(c)] = queue[Down(c)]
    BY <1>1
  <2>10. IF Down(c) \in {Down(c)} THEN Gets(c, {}, pkts) ELSE Gets(c, {}, <<>>)
    BY <1>2, <2>7, <2>9, GetsSent
  <2>11. Gets(c, {}, pkts)
    BY <2>10
  <2>12. \A s \in Clients : Kept(Parent[c], g, s)' = Kept(Parent[c], g, s)
    BY <1>1 DEF Kept
  <2>13. \A e : ~Pending(c, g, e)
    BY <1>5 DEF Pending, Joining
  <2> QED BY <2>1, <2>8, <2>11, <2>12, <2>13, HoldsGets
<1> QED BY <1>4, <1>5

\* Lemma: it copies the history, as it is then.
LEMMA HoldsJoinHistory ==
  ASSUME TypeInv, TypeInv', KeptInOrder, Holds, NEW c \in Clients, NEW g \in Groups,
         JoinHistory(c), conn'[c] = "on", c \in members'[Parent[c]][g]
  PROVE  Answering(c, g)' \/ HoldsAll(c, g)'
<1> DEFINE h == join[c].group
<1>0. g \in AllGroups /\ Parent[c] \in Nodes
  BY ClientEnds DEF AllGroups
<1>1. /\ join[c].pc = "history"
      /\ join' = [join EXCEPT ![c].pc = "send", ![c].rest = getMsgs(Parent[c], h)]
      /\ UNCHANGED <<conn, members, history, got, queue>>
  BY DEF JoinHistory, tables
<1>2. join \in [Clients -> JoinStates]
  BY TypeInvIs
<1>3. join'[c].pc = "send" /\ join'[c].group = h /\ join'[c].rest = getMsgs(Parent[c], h)
  BY <1>1, <1>2 DEF JoinStates
<1>4. \A s \in Clients : Kept(Parent[c], g, s)' = Kept(Parent[c], g, s)
  BY <1>1 DEF Kept
<1>5. CASE g = h
  <2>1. HistoryOrdered(Parent[c])
    BY <1>0 DEF KeptInOrder
  <2>2. \A s \in Clients : \A p \in Kept(Parent[c], g, s) :
          \E i \in 1..Len(getMsgs(Parent[c], g)) : getMsgs(Parent[c], g)[i] = p
    BY <1>0, <2>1, GetMsgsOrdered
  <2>3. PICK m \in Seq(Msgs) : m = getMsgs(Parent[c], g)
    BY <1>0, HistoriesAre
  <2>4. \A s \in Clients : \A p \in Kept(Parent[c], g, s) : p \in ToSet(m)
    BY <2>2, <2>3 DEF ToSet
  <2>5. \A p : p \in ToSet(m) => Pending(c, g, p)'
    BY <1>3, <1>5, <2>3 DEF Pending, Joining
  <2> QED BY <1>4, <2>4, <2>5 DEF HoldsAll
<1>6. CASE g # h
  <2>1. HoldsAll(c, g)
    BY <1>1, <1>6 DEF Holds, Answering, Joining
  <2>2. \A e : ~Pending(c, g, e)
    BY <1>6 DEF Pending, Joining
  <2>3. Stream(c)' = Stream(c)
    BY <1>1 DEF Stream
  <2>4. \A e : After(Stream(c), g, e) => After(Stream(c), g, e)'
    BY <2>3 DEF After, Answers
  <2> QED BY <1>4, <2>1, <2>2, <2>4 DEF HoldsAll
<1> QED BY <1>5, <1>6

\* Lemma: it sends the copy, packet by packet.
LEMMA HoldsJoinSend ==
  ASSUME TypeInv, TypeInv', Holds, NEW c \in Clients, NEW g \in Groups,
         JoinSend(c), conn'[c] = "on", c \in members'[Parent[c]][g]
  PROVE  Answering(c, g)' \/ HoldsAll(c, g)'
<1> DEFINE rest == join[c].rest
<1>0. g \in AllGroups /\ Parent[c] \in Nodes
  BY ClientEnds DEF AllGroups
<1>1. /\ join[c].pc = "send"
      /\ queue' = IF rest = <<>> THEN queue ELSE Sent(queue, {Down(c)}, <<Head(rest)>>)
      /\ join' = [join EXCEPT ![c] = IF Len(rest) <= 1 THEN Idle
                                     ELSE [@ EXCEPT !.rest = Tail(rest)]]
      /\ UNCHANGED <<conn, members, history, got>>
  BY DEF JoinSend, tables
<1>2. join \in [Clients -> JoinStates] /\ queue \in Queues
  BY TypeInvIs
<1>3. HoldsAll(c, g) /\ conn[c] = "on"
  BY <1>1 DEF Holds, Answering
<1>4. PICK s \in Seq(Msgs) : s = rest
  BY <1>2 DEF JoinStates
<1>5. \A a \in Clients : Kept(Parent[c], g, a)' = Kept(Parent[c], g, a)
  BY <1>1 DEF Kept
<1>6. CASE s = <<>>
  <2>1. \A e : ~Pending(c, g, e)
    BY <1>4, <1>6 DEF Pending, ToSet
  <2>2. Stream(c)' = Stream(c)
    BY <1>1, <1>4, <1>6 DEF Stream
  <2>3. \A e : After(Stream(c), g, e) => After(Stream(c), g, e)'
    BY <2>2 DEF After, Answers
  <2> QED BY <1>3, <1>5, <2>1, <2>3 DEF HoldsAll
<1>7. CASE s # <<>>
  <2>1. PICK p \in Msgs : p = Head(s) /\ p = s[1]
    BY <1>7
  <2>2. p.cmd \in MsgCommands /\ <<p>> \in Seq(Packets)
    BY PacketKinds
  <2>3. PICK pkts \in Seq(Packets) : pkts = <<p>>
    BY <2>2
  <2>4. After(pkts, g, p)
    BY <2>3, AfterOne
  <2>5. \A u \in 1..Len(pkts) : ~Answers(pkts[u], g)
    BY <2>2, <2>3 DEF Answers, MsgCommands
  <2>6. queue' = Sent(queue, {Down(c)}, pkts)
    BY <1>1, <1>4, <1>7, <2>1, <2>3
  <2> HIDE <2>3
  <2>7. got'[c] = got[c] /\ Down(c) \in {Down(c)} /\ queue[Down(c)] = queue[Down(c)]
    BY <1>1
  <2>8. IF Down(c) \in {Down(c)} THEN Gets(c, {}, pkts) ELSE Gets(c, {}, <<>>)
    BY <1>2, <2>6, <2>7, GetsSent
  <2>9. Gets(c, {}, pkts)
    BY <2>8
  <2>10. ASSUME NEW e, Pending(c, g, e), e # p
         PROVE  Pending(c, g, e)'
    <3>1. PICK k \in 1..Len(s) : s[k] = e
      BY <1>4, <2>10 DEF Pending, ToSet
    <3>2. k \in 2..Len(s) /\ Len(s) \in Nat /\ Len(s) > 1
      BY <2>1, <2>10, <3>1
    <3>3. Tail(s) \in Seq(Msgs) /\ Len(Tail(s)) = Len(s) - 1 /\ Tail(s)[k - 1] = e
          /\ k - 1 \in 1..(Len(s) - 1)
      BY <1>7, <3>1, <3>2
    <3>4. e \in ToSet(Tail(s))
      <4>1. PICK t \in Seq(Msgs) : t = Tail(s)
        BY <3>3
      <4>2. k - 1 \in DOMAIN t /\ t[k - 1] = e
        BY <3>3, <4>1
      <4> QED BY <4>1, <4>2 DEF ToSet
    <3>5. join'[c].pc = join[c].pc /\ join'[c].group = join[c].group
          /\ join'[c].rest = Tail(s)
      BY <1>1, <1>2, <1>4, <3>2 DEF JoinStates
    <3> QED BY <2>10, <3>4, <3>5 DEF Pending, Joining
  <2>11. \A a \in Clients : \A e \in Kept(Parent[c], g, a)' :
           \/ After(pkts, g, e)
           \/ e \in Kept(Parent[c], g, a) /\ e \notin {}
                /\ (Pending(c, g, e) => Pending(c, g, e)')
    BY <1>5, <2>4, <2>10
  <2> QED BY <1>3, <2>5, <2>9, <2>11, HoldsGets
<1> QED BY <1>6, <1>7

\* Lemma: the root is up for good.
LEMMA RootUpStep ==
  ASSUME TypeInv, Placed, Quit, status[Root] = "up", [Next]_vars
  PROVE  status'[Root] = "up"
<1>0. \A m \in Children : m # Root
  BY ChildEnds
<1>1. CASE Burial
  <2>1. status' = status \/ \E m \in Children : status' = [status EXCEPT ![m] = "gone"]
    BY <1>1, Zenon DEF Burial, DownGone, UpGone, NodeGone, ClientGone
  <2>2. status \in [Nodes -> {"off", "up", "down", "gone"}]
    BY TypeInvIs
  <2>3. CASE status' = status
    BY <2>3
  <2>4. ASSUME NEW m \in Children, status' = [status EXCEPT ![m] = "gone"]
        PROVE  status'[Root] = "up"
    <3>1. m # Root /\ Root \in Nodes
      BY <1>0 DEF Nodes
    <3> QED BY <2>2, <2>4, <3>1
  <2> QED BY <2>1, <2>3, <2>4
<1>2. CASE Plain
  BY <1>2 DEF Plain
<1>3. CASE \E c \in Clients : Connect(c) \/ Disconnect(c)
  BY <1>3 DEF Connect, Disconnect
<1>4. CASE \E m \in Children : NodeStart(m) \/ Ended(m)
  <2>1. status \in [Nodes -> {"off", "up", "down", "gone"}]
    BY TypeInvIs
  <2>2. \E m \in Children : \E v : status' = [status EXCEPT ![m] = v]
    BY <1>4 DEF NodeStart, Ended
  <2> QED BY <1>0, <2>1, <2>2
<1> QED BY <1>1, <1>2, <1>3, <1>4, PlainStep

\* Lemma: every step keeps this.
LEMMA HoldsStep ==
  ASSUME EndInv, Home, OrderInv, OnIsLocal, Holds, status[Root] = "up", TypeInv',
         [Next]_vars
  PROVE  Holds'
<1>0. TypeInv /\ KeptInOrder
  BY DEF EndInv, OrderInv
<1>1. SUFFICES ASSUME NEW c \in Clients, NEW g \in Groups, conn'[c] = "on",
                      c \in members'[Parent[c]][g]
               PROVE  Answering(c, g)' \/ HoldsAll(c, g)'
  BY DEF Holds
<1>2. ClientStep(c)
  BY ClientSteps
<1>3. CASE Waits(c)
  BY <1>0, <1>1, <1>3, HoldsWaits
<1>4. CASE Admitted(c)
  BY <1>0, <1>1, <1>4, HoldsAdmitted
<1>5. CASE Cut(c)
  BY <1>1, <1>5 DEF Cut
<1>6. CASE Relayed(c)
  BY <1>0, <1>1, <1>6, HoldsRelayed
<1>7. CASE Buried(c)
  BY <1>0, <1>1, <1>7, HoldsBuried
<1>8. CASE Connect(c)
  <2>1. conn[c] = "off" /\ Attached(c) /\ members' = members
    BY <1>8 DEF Connect
  <2>2. c \in Ends /\ Parent[c] \in Nodes /\ c \in Chain[c] /\ c \notin Nodes
    BY ClientEnds, ChainRises
  <2>3. status[Parent[c]] = "up"
    <3>1. CASE Parent[c] = Root
      BY <3>1
    <3>2. CASE Parent[c] # Root
      <4>1. Parent[c] \in Chain[c]
        BY <2>2, <3>2, ChainRises
      <4> QED BY <2>1, <2>2, <4>1 DEF Attached
    <3> QED BY <3>1, <3>2
  <2>4. g \in AllGroups
    BY DEF AllGroups
  <2>5. Here(c)
    BY <1>1, <2>1, <2>2, <2>3, <2>4 DEF Home, Dead
  <2> QED BY <2>1, <2>5 DEF Here
<1>9. CASE KnownJoin(c)
  BY <1>0, <1>1, <1>9, HoldsKnownJoin
<1>10. CASE JoinStep(c)
  <2>1. CASE JoinReply(c)
    BY <1>0, <1>1, <2>1, HoldsJoinReply
  <2>2. CASE JoinHistory(c)
    BY <1>0, <1>1, <2>2, HoldsJoinHistory
  <2>3. CASE JoinSend(c)
    BY <1>0, <1>1, <2>3, HoldsJoinSend
  <2> QED BY <1>10, <2>1, <2>2, <2>3 DEF JoinStep
<1> QED BY <1>2, <1>3, <1>4, <1>5, <1>6, <1>7, <1>8, <1>9, <1>10 DEF ClientStep

\* Lemma: what the members have that are in no join.
LEMMA HoldsShows ==
  ASSUME TypeInv, Holds
  PROVE  MembersHoldHistory
<1>1. SUFFICES ASSUME NEW c \in Clients, NEW g \in Groups,
                      conn[c] = "on", c \in members[Parent[c]][g], ~Joining(c, g),
                      NEW s \in Clients, NEW p \in Kept(Parent[c], g, s)
               PROVE  p \in {Stream(c)[i] : i \in SinceJoin(c, g)}
  BY DEF MembersHoldHistory
<1>2. g \in AllGroups /\ Parent[c] \in Nodes
  BY ClientEnds DEF AllGroups
<1>3. After(Stream(c), g, p)
  BY <1>1 DEF Holds, HoldsAll, Answering, Pending
<1>4. PICK i \in 1..Len(Stream(c)) :
        Stream(c)[i] = p /\ \A j \in i..Len(Stream(c)) : ~Answers(Stream(c)[j], g)
  BY <1>3 DEF After
<1>5. IsMsg(p, g)
  BY <1>2, KeptOf DEF IsMsg
<1>6. i \in SinceJoin(c, g)
  BY <1>4, <1>5 DEF SinceJoin, Answers
<1> QED BY <1>4, <1>6

\* Lemma: every step keeps the invariant of what the members hold.
LEMMA HoldsInvStep ==
  ASSUME LinesInv, Holds, status[Root] = "up", [Next]_vars
  PROVE  Holds' /\ status'[Root] = "up"
<1>1. GoneInv /\ OrderInv /\ OnIsLocal /\ EndInv /\ Home /\ Quit /\ TypeInv /\ Placed
  BY DEF LinesInv, GoneInv, EndInv
<1>2. TypeInv'
  BY <1>1, TypeStep
<1> QED BY <1>1, <1>2, HoldsStep, RootUpStep

\* A member of a group that is connected and whose thread is in no join of it
\* holds every message of the group's history at its node, since the last answer
\* to a join: the history is copied after it has become a member, what is routed
\* in the meantime comes on its own, and what is cleaned in the meantime is taken
\* out of the copy (joinGroup, sendClientHistory, routeToGroup, cleanMsgs).
THEOREM MembersHold == Spec => []MembersHoldHistory
<1> DEFINE Inv == LinesInv /\ Holds /\ status[Root] = "up"
<1>1. Init => Inv
  BY LinesInvInit, HoldsInit
<1>2. Inv /\ [Next]_vars => Inv'
  BY LinesInvStep, HoldsInvStep
<1>3. Inv => MembersHoldHistory
  BY HoldsShows DEF LinesInv, GoneInv, EndInv
<1> QED BY <1>1, <1>2, <1>3, PTL DEF Spec

----------------------------------------------------------------------------
(* What a node will hold when it has read a link *)

\* Packet p clears what is kept of client s and group g, or is kept itself.
Resets(p, s, g) ==
  p.client = s /\ (p.cmd = "CLIENT_DISCONNECTED" \/ (p.cmd = "SYNC_MSG" /\ p.group = g))
Stays(p, s, g) == p.cmd \in {"MSG", "SYNC_MSG"} /\ p.client = s /\ p.group = g
Matters(p, s, g) == Resets(p, s, g) \/ Stays(p, s, g)

\* Packet p is among what a node that keeps K has kept once it has read q.
Holding(q, K, p, s, g) ==
  \/ p \in K /\ \A j \in 1..Len(q) : ~Resets(q[j], s, g)
  \/ \E i \in 1..Len(q) : /\ q[i] = p /\ Stays(p, s, g)
                          /\ \A j \in (i + 1)..Len(q) : ~Resets(q[j], s, g)

\* Lemmas: nothing of this changes when packets are left out that do not matter ...
LEMMA HoldingSpares ==
  ASSUME NEW S, NEW r \in Seq(S), NEW q \in Seq(S), NEW D, Spares(r, q, D),
         NEW s, NEW g, \A d \in D : ~Matters(d, s, g), NEW K, NEW p
  PROVE  Holding(r, K, p, s, g) <=> Holding(q, K, p, s, g)
<1>1. PICK at \in [1..Len(r) -> 1..Len(q)] :
        /\ \A i, j \in 1..Len(r) : i < j => at[i] < at[j]
        /\ \A i \in 1..Len(r) : r[i] = q[at[i]]
        /\ \A k \in 1..Len(q) : q[k] \in D \/ \E i \in 1..Len(r) : at[i] = k
  BY DEF Spares
<1>2. Len(r) \in Nat /\ Len(q) \in Nat
  OBVIOUS
<1>3. \A k \in 1..Len(q) : Matters(q[k], s, g) => \E i \in 1..Len(r) : at[i] = k
  BY <1>1
<1>4. (\A j \in 1..Len(r) : ~Resets(r[j], s, g)) <=> (\A j \in 1..Len(q) : ~Resets(q[j], s, g))
  <2>1. ASSUME \A j \in 1..Len(q) : ~Resets(q[j], s, g), NEW j \in 1..Len(r)
        PROVE  ~Resets(r[j], s, g)
    BY <1>1, <2>1
  <2>2. ASSUME \A j \in 1..Len(r) : ~Resets(r[j], s, g), NEW j \in 1..Len(q)
        PROVE  ~Resets(q[j], s, g)
    BY <1>1, <1>3, <2>2 DEF Matters
  <2> QED BY <2>1, <2>2
<1>5. ASSUME NEW i \in 1..Len(r)
      PROVE  (\A j \in (i + 1)..Len(r) : ~Resets(r[j], s, g))
               <=> (\A k \in (at[i] + 1)..Len(q) : ~Resets(q[k], s, g))
  <2>0. at[i] \in 1..Len(q)
    BY <1>1
  <2>1. ASSUME \A k \in (at[i] + 1)..Len(q) : ~Resets(q[k], s, g),
               NEW j \in (i + 1)..Len(r)
        PROVE  ~Resets(r[j], s, g)
    <3>1. j \in 1..Len(r) /\ i < j
      BY <1>2
    <3>2. at[i] < at[j] /\ at[j] \in 1..Len(q) /\ r[j] = q[at[j]]
      BY <1>1, <3>1
    <3>3. at[j] \in (at[i] + 1)..Len(q)
      BY <1>2, <2>0, <3>2
    <3> QED BY <2>1, <3>2, <3>3
  <2>2. ASSUME \A j \in (i + 1)..Len(r) : ~Resets(r[j], s, g),
               NEW k \in (at[i] + 1)..Len(q)
        PROVE  ~Resets(q[k], s, g)
    <3>1. SUFFICES ASSUME Resets(q[k], s, g)
                   PROVE  FALSE
      OBVIOUS
    <3>2. k \in 1..Len(q) /\ at[i] < k
      BY <1>2, <2>0
    <3>3. PICK e \in 1..Len(r) : at[e] = k
      BY <1>3, <3>1, <3>2 DEF Matters
    <3>4. ~(e < i) /\ e # i
      <4>1. e < i => at[e] < at[i]
        BY <1>1
      <4> QED BY <1>2, <2>0, <3>2, <3>3, <4>1
    <3>5. e \in (i + 1)..Len(r)
      BY <1>2, <3>4
    <3>6. r[e] = q[k]
      BY <1>1, <3>3
    <3> QED BY <2>2, <3>1, <3>5, <3>6
  <2> QED BY <2>1, <2>2
<1>6. (\E i \in 1..Len(r) : /\ r[i] = p /\ Stays(p, s, g)
                            /\ \A j \in (i + 1)..Len(r) : ~Resets(r[j], s, g))
      <=> (\E i \in 1..Len(q) : /\ q[i] = p /\ Stays(p, s, g)
                                /\ \A j \in (i + 1)..Len(q) : ~Resets(q[j], s, g))
  <2>1. ASSUME NEW i \in 1..Len(r), r[i] = p, Stays(p, s, g),
               \A j \in (i + 1)..Len(r) : ~Resets(r[j], s, g)
        PROVE  \E k \in 1..Len(q) : /\ q[k] = p /\ Stays(p, s, g)
                                    /\ \A j \in (k + 1)..Len(q) : ~Resets(q[j], s, g)
    <3>1. at[i] \in 1..Len(q) /\ q[at[i]] = p
      BY <1>1, <2>1
    <3>2. \A j \in (at[i] + 1)..Len(q) : ~Resets(q[j], s, g)
      BY <1>5, <2>1
    <3> QED BY <2>1, <3>1, <3>2
  <2>2. ASSUME NEW k \in 1..Len(q), q[k] = p, Stays(p, s, g),
               \A j \in (k + 1)..Len(q) : ~Resets(q[j], s, g)
        PROVE  \E i \in 1..Len(r) : /\ r[i] = p /\ Stays(p, s, g)
                                    /\ \A j \in (i + 1)..Len(r) : ~Resets(r[j], s, g)
    <3>1. PICK i \in 1..Len(r) : at[i] = k
      BY <1>3, <2>2 DEF Matters
    <3>2. r[i] = p
      BY <1>1, <2>2, <3>1
    <3>3. \A j \in (i + 1)..Len(r) : ~Resets(r[j], s, g)
      BY <1>5, <2>2, <3>1
    <3> QED BY <2>2, <3>2, <3>3
  <2> QED BY <2>1, <2>2
<1> QED BY <1>4, <1>6 DEF Holding

\* ... or are added.
LEMMA HoldingLonger ==
  ASSUME NEW S, NEW q \in Seq(S), NEW t \in Seq(S), NEW s, NEW g,
         \A u \in 1..Len(t) : ~Matters(t[u], s, g), NEW K, NEW p
  PROVE  Holding(q \o t, K, p, s, g) <=> Holding(q, K, p, s, g)
<1>1. DEFINE at == [i \in 1..Len(q) |-> i]
             w == q \o t
<1>2. Len(w) = Len(q) + Len(t) /\ Len(q) \in Nat /\ Len(t) \in Nat /\ w \in Seq(S)
      /\ (\A i \in 1..Len(q) : w[i] = q[i]) /\ \A u \in 1..Len(t) : w[Len(q) + u] = t[u]
  OBVIOUS
<1> DEFINE D == {t[u] : u \in 1..Len(t)}
<1> HIDE DEF w
<1>3. Spares(q, w, D)
  <2>1. at \in [1..Len(q) -> 1..Len(w)]
    BY <1>2
  <2>2. \A i, j \in 1..Len(q) : i < j => at[i] < at[j]
    OBVIOUS
  <2>3. \A i \in 1..Len(q) : q[i] = w[at[i]]
    BY <1>2
  <2>4. ASSUME NEW k \in 1..Len(w)
        PROVE  w[k] \in D \/ \E i \in 1..Len(q) : at[i] = k
    <3>1. CASE k <= Len(q)
      <4>1. k \in 1..Len(q) /\ at[k] = k
        BY <1>2, <3>1
      <4> QED BY <4>1
    <3>2. CASE k > Len(q)
      <4>1. k - Len(q) \in 1..Len(t) /\ k = Len(q) + (k - Len(q))
        BY <1>2, <3>2
      <4>2. w[k] = t[k - Len(q)]
        BY <1>2, <4>1
      <4> QED BY <4>1, <4>2
    <3> QED BY <1>2, <3>1, <3>2
  <2> HIDE DEF at, D
  <2> QED BY <2>1, <2>2, <2>3, <2>4 DEF Spares
<1>4. \A d \in D : ~Matters(d, s, g)
  OBVIOUS
<1> HIDE DEF D
<1>5. Holding(q, K, p, s, g) <=> Holding(w, K, p, s, g)
  BY <1>2, <1>3, <1>4, HoldingSpares
<1> QED BY <1>5 DEF w

\* Lemma: one packet more ...
LEMMA HoldingOne ==
  ASSUME NEW S, NEW q \in Seq(S), NEW t \in Seq(S), NEW e \in S, t = <<e>>,
         NEW s, NEW g, NEW K, NEW p
  PROVE  Holding(q \o t, K, p, s, g) <=>
           \/ p = e /\ Stays(e, s, g)
           \/ ~Resets(e, s, g) /\ Holding(q, K, p, s, g)
<1> DEFINE w == q \o t
           n == Len(q)
<1>1. /\ Len(w) = n + 1 /\ n \in Nat /\ w[n + 1] = e
      /\ \A i \in 1..n : w[i] = q[i]
  OBVIOUS
<1> HIDE DEF w, n
<1>2. /\ n + 1 \in 1..Len(w)
      /\ \A i \in 1..Len(w) : i \in 1..n \/ i = n + 1
      /\ \A i \in 1..n : i \in 1..Len(w)
  BY <1>1
<1>3. (\A j \in 1..Len(w) : ~Resets(w[j], s, g))
        <=> (\A j \in 1..n : ~Resets(q[j], s, g)) /\ ~Resets(e, s, g)
  BY <1>1, <1>2
<1>4. ASSUME NEW i \in 1..n
      PROVE  (\A j \in (i + 1)..Len(w) : ~Resets(w[j], s, g))
               <=> (\A j \in (i + 1)..n : ~Resets(q[j], s, g)) /\ ~Resets(e, s, g)
  <2>1. /\ \A j \in (i + 1)..Len(w) : j \in (i + 1)..n \/ j = n + 1
        /\ n + 1 \in (i + 1)..Len(w)
        /\ \A j \in (i + 1)..n : j \in (i + 1)..Len(w) /\ j \in 1..n
    BY <1>1
  <2> QED BY <1>1, <2>1
<1>5. \A j \in (n + 1 + 1)..Len(w) : FALSE
  BY <1>1
<1>6. (\E i \in 1..Len(w) : /\ w[i] = p /\ Stays(p, s, g)
                            /\ \A j \in (i + 1)..Len(w) : ~Resets(w[j], s, g))
      <=> \/ p = e /\ Stays(e, s, g)
          \/ ~Resets(e, s, g) /\ \E i \in 1..n : /\ q[i] = p /\ Stays(p, s, g)
                                    /\ \A j \in (i + 1)..n : ~Resets(q[j], s, g)
  <2>1. ASSUME NEW i \in 1..Len(w), w[i] = p, Stays(p, s, g),
               \A j \in (i + 1)..Len(w) : ~Resets(w[j], s, g)
        PROVE  \/ p = e /\ Stays(e, s, g)
               \/ ~Resets(e, s, g) /\ \E k \in 1..n : /\ q[k] = p /\ Stays(p, s, g)
                                    /\ \A j \in (k + 1)..n : ~Resets(q[j], s, g)
    <3>1. CASE i = n + 1
      BY <1>1, <2>1, <3>1
    <3>2. CASE i \in 1..n
      BY <1>1, <1>4, <2>1, <3>2
    <3> QED BY <1>2, <3>1, <3>2
  <2>2. ASSUME p = e, Stays(e, s, g)
        PROVE  \E i \in 1..Len(w) : /\ w[i] = p /\ Stays(p, s, g)
                            /\ \A j \in (i + 1)..Len(w) : ~Resets(w[j], s, g)
    BY <1>1, <1>2, <1>5, <2>2
  <2>3. ASSUME ~Resets(e, s, g), NEW k \in 1..n, q[k] = p, Stays(p, s, g),
               \A j \in (k + 1)..n : ~Resets(q[j], s, g)
        PROVE  \E i \in 1..Len(w) : /\ w[i] = p /\ Stays(p, s, g)
                            /\ \A j \in (i + 1)..Len(w) : ~Resets(w[j], s, g)
    BY <1>1, <1>2, <1>4, <2>3
  <2> QED BY <2>1, <2>2, <2>3
<1>7. Holding(w, K, p, s, g) <=>
        \/ p = e /\ Stays(e, s, g)
        \/ ~Resets(e, s, g) /\ Holding(q, K, p, s, g)
  BY <1>3, <1>6 DEF Holding, n
<1> QED BY <1>7 DEF w

\* ... or some of which one clears what is kept and none is kept.
LEMMA HoldingReset ==
  ASSUME NEW S, NEW q \in Seq(S), NEW t \in Seq(S), NEW s, NEW g,
         NEW u \in 1..Len(t), Resets(t[u], s, g),
         \A v \in 1..Len(t) : ~Stays(t[v], s, g), NEW K, NEW p
  PROVE  ~Holding(q \o t, K, p, s, g)
<1> DEFINE w == q \o t
           n == Len(q)
<1>1. /\ Len(w) = n + Len(t) /\ n \in Nat /\ Len(t) \in Nat
      /\ \A v \in 1..Len(t) : w[n + v] = t[v]
  OBVIOUS
<1> HIDE DEF w, n
<1>2. n + u \in 1..Len(w) /\ Resets(w[n + u], s, g)
  BY <1>1
<1>3. ASSUME NEW i \in 1..Len(w), w[i] = p, Stays(p, s, g)
      PROVE  n + u \in (i + 1)..Len(w)
  <2>1. CASE i > n
    <3>1. i - n \in 1..Len(t) /\ i = n + (i - n)
      BY <1>1, <2>1
    <3>2. w[i] = t[i - n]
      BY <1>1, <3>1
    <3> QED BY <1>3, <3>1, <3>2
  <2>2. CASE i <= n
    BY <1>1, <2>2
  <2> QED BY <1>1, <2>1, <2>2
<1>4. ~Holding(w, K, p, s, g)
  BY <1>2, <1>3 DEF Holding
<1> QED BY <1>4 DEF w

\* Lemma: a node reads the first packet: what it keeps then is as if ...
LEMMA HoldingTail ==
  ASSUME NEW S, NEW q \in Seq(S), q # <<>>, NEW s, NEW g, NEW K, NEW J, NEW p,
         p \in J <=> \/ p \in K /\ ~Resets(q[1], s, g)
                     \/ p = q[1] /\ Stays(q[1], s, g)
  PROVE  Holding(Tail(q), J, p, s, g) <=> Holding(q, K, p, s, g)
<1> DEFINE w == Tail(q)
           n == Len(w)
<1>1. /\ Len(q) = n + 1 /\ n \in Nat
      /\ \A i \in 1..n : w[i] = q[i + 1]
  OBVIOUS
<1> HIDE DEF w, n
<1>2. /\ 1 \in 1..Len(q)
      /\ \A i \in 1..n : i + 1 \in 1..Len(q)
      /\ \A i \in 1..Len(q) : i = 1 \/ (i - 1 \in 1..n /\ i = (i - 1) + 1)
  BY <1>1
<1>3. (\A j \in 1..Len(q) : ~Resets(q[j], s, g))
        <=> ~Resets(q[1], s, g) /\ \A j \in 1..n : ~Resets(w[j], s, g)
  BY <1>1, <1>2
<1>4. ASSUME NEW i \in 0..n
      PROVE  (\A j \in ((i + 1) + 1)..Len(q) : ~Resets(q[j], s, g))
               <=> \A j \in (i + 1)..n : ~Resets(w[j], s, g)
  <2>1. ASSUME \A j \in ((i + 1) + 1)..Len(q) : ~Resets(q[j], s, g),
               NEW j \in (i + 1)..n
        PROVE  ~Resets(w[j], s, g)
    <3>1. j + 1 \in ((i + 1) + 1)..Len(q) /\ j \in 1..n
      BY <1>1
    <3> QED BY <1>1, <2>1, <3>1
  <2>2. ASSUME \A j \in (i + 1)..n : ~Resets(w[j], s, g),
               NEW j \in ((i + 1) + 1)..Len(q)
        PROVE  ~Resets(q[j], s, g)
    <3>1. j - 1 \in (i + 1)..n /\ j - 1 \in 1..n /\ j = (j - 1) + 1
      BY <1>1
    <3>2. w[j - 1] = q[j]
      BY <1>1, <3>1
    <3> QED BY <2>2, <3>1, <3>2
  <2> QED BY <2>1, <2>2
<1>5. (\E i \in 1..Len(q) : /\ q[i] = p /\ Stays(p, s, g)
                            /\ \A j \in (i + 1)..Len(q) : ~Resets(q[j], s, g))
      <=> \/ /\ p = q[1] /\ Stays(q[1], s, g)
             /\ \A j \in 1..n : ~Resets(w[j], s, g)
          \/ \E i \in 1..n : /\ w[i] = p /\ Stays(p, s, g)
                             /\ \A j \in (i + 1)..n : ~Resets(w[j], s, g)
  <2>0. /\ 0 \in 0..n /\ (0 + 1) + 1 = 1 + 1 /\ 0 + 1 = 1
        /\ \A i \in 1..n : i \in 0..n
    BY <1>1
  <2>1. (\A j \in (1 + 1)..Len(q) : ~Resets(q[j], s, g))
          <=> \A j \in 1..n : ~Resets(w[j], s, g)
    BY <1>4, <2>0
  <2>2. ASSUME NEW i \in 1..Len(q), q[i] = p, Stays(p, s, g),
               \A j \in (i + 1)..Len(q) : ~Resets(q[j], s, g)
        PROVE  \/ /\ p = q[1] /\ Stays(q[1], s, g)
                  /\ \A j \in 1..n : ~Resets(w[j], s, g)
               \/ \E k \in 1..n : /\ w[k] = p /\ Stays(p, s, g)
                             /\ \A j \in (k + 1)..n : ~Resets(w[j], s, g)
    <3>1. CASE i = 1
      BY <2>1, <2>2, <3>1
    <3>2. ASSUME NEW k \in 1..n, i = k + 1
          PROVE  /\ w[k] = p /\ \A j \in (k + 1)..n : ~Resets(w[j], s, g)
      BY <1>1, <1>4, <2>0, <2>2, <3>2
    <3> QED BY <1>2, <2>2, <3>1, <3>2
  <2>3. ASSUME p = q[1], Stays(q[1], s, g), \A j \in 1..n : ~Resets(w[j], s, g)
        PROVE  \E i \in 1..Len(q) : /\ q[i] = p /\ Stays(p, s, g)
                            /\ \A j \in (i + 1)..Len(q) : ~Resets(q[j], s, g)
    BY <1>2, <2>1, <2>3
  <2>4. ASSUME NEW k \in 1..n, w[k] = p, Stays(p, s, g),
               \A j \in (k + 1)..n : ~Resets(w[j], s, g)
        PROVE  \E i \in 1..Len(q) : /\ q[i] = p /\ Stays(p, s, g)
                            /\ \A j \in (i + 1)..Len(q) : ~Resets(q[j], s, g)
    <3>1. k + 1 \in 1..Len(q) /\ q[k + 1] = p
      BY <1>1, <1>2, <2>4
    <3>2. \A j \in ((k + 1) + 1)..Len(q) : ~Resets(q[j], s, g)
      BY <1>4, <2>0, <2>4
    <3> QED BY <2>4, <3>1, <3>2
  <2> QED BY <2>2, <2>3, <2>4
<1>6. Holding(w, J, p, s, g) <=> Holding(q, K, p, s, g)
  BY <1>3, <1>5 DEF Holding, n
<1> QED BY <1>6 DEF w

\* Lemma: nothing that matters is to be read.
LEMMA HoldingNow ==
  ASSUME NEW q, NEW s, NEW g, \A i \in 1..Len(q) : ~Matters(q[i], s, g),
         NEW K, NEW p
  PROVE  Holding(q, K, p, s, g) <=> p \in K
BY DEF Holding, Matters

----------------------------------------------------------------------------
(* What a step does to the links between nodes *)

\* The link l of which q is left has got t, and of q some of D are skipped.
Moves(l, q, D, t) ==
  /\ q \in Seq(Cargoes) /\ t \in Seq(Cargoes)
  /\ \E r \in Seq(Cargoes) : Spares(r, q, D) /\ queue'[l] = r \o t

\* Lemmas: nothing that matters is skipped or sent ...
LEMMA MovesQuietly ==
  ASSUME NEW l, NEW q, NEW D, NEW t, Moves(l, q, D, t), NEW s, NEW g,
         \A d \in D : ~Matters(d, s, g),
         \A u \in 1..Len(t) : ~Matters(t[u], s, g), NEW K, NEW p
  PROVE  Holding(queue'[l], K, p, s, g) <=> Holding(q, K, p, s, g)
<1>1. q \in Seq(Cargoes) /\ t \in Seq(Cargoes)
  BY DEF Moves
<1>2. PICK r \in Seq(Cargoes) : Spares(r, q, D) /\ queue'[l] = r \o t
  BY DEF Moves
<1>3. Holding(r \o t, K, p, s, g) <=> Holding(r, K, p, s, g)
  BY <1>1, <1>2, HoldingLonger
<1>4. Holding(r, K, p, s, g) <=> Holding(q, K, p, s, g)
  BY <1>1, <1>2, HoldingSpares
<1> QED BY <1>2, <1>3, <1>4

\* ... or one packet is sent, and what is skipped does not matter then ...
LEMMA MovesOne ==
  ASSUME NEW l, NEW q, NEW D, NEW t, Moves(l, q, D, t), NEW s, NEW g,
         NEW e \in Cargoes, t = <<e>>,
         Resets(e, s, g) \/ \A d \in D : ~Matters(d, s, g), NEW K, NEW p
  PROVE  Holding(queue'[l], K, p, s, g) <=>
           \/ p = e /\ Stays(e, s, g)
           \/ ~Resets(e, s, g) /\ Holding(q, K, p, s, g)
<1>1. q \in Seq(Cargoes) /\ t \in Seq(Cargoes)
  BY DEF Moves
<1>2. PICK r \in Seq(Cargoes) : Spares(r, q, D) /\ queue'[l] = r \o t
  BY DEF Moves
<1>3. Holding(r \o t, K, p, s, g) <=>
        \/ p = e /\ Stays(e, s, g)
        \/ ~Resets(e, s, g) /\ Holding(r, K, p, s, g)
  BY <1>1, <1>2, HoldingOne
<1>4. CASE Resets(e, s, g)
  BY <1>2, <1>3, <1>4
<1>5. CASE \A d \in D : ~Matters(d, s, g)
  <2>1. Holding(r, K, p, s, g) <=> Holding(q, K, p, s, g)
    BY <1>1, <1>2, <1>5, HoldingSpares
  <2> QED BY <1>2, <1>3, <2>1
<1> QED BY <1>4, <1>5

\* ... or some are of which one clears what is kept.
LEMMA MovesReset ==
  ASSUME NEW l, NEW q, NEW D, NEW t, Moves(l, q, D, t), NEW s, NEW g,
         NEW u \in 1..Len(t), Resets(t[u], s, g),
         \A v \in 1..Len(t) : ~Stays(t[v], s, g), NEW K, NEW p
  PROVE  ~Holding(queue'[l], K, p, s, g)
<1>1. q \in Seq(Cargoes) /\ t \in Seq(Cargoes)
  BY DEF Moves
<1>2. PICK r \in Seq(Cargoes) : Spares(r, q, D) /\ queue'[l] = r \o t
  BY DEF Moves
<1>3. ~Holding(r \o t, K, p, s, g)
  BY <1>1, <1>2, HoldingReset
<1> QED BY <1>2, <1>3

\* Requests and answers pass over the link, if anything.
Passes(l) ==
  \E q \in Seq(Cargoes), t \in Seq(Cargoes) :
    /\ \/ q = queue[l]
       \/ queue[l] # <<>> /\ Head(queue[l]).cmd \in Asks /\ q = Tail(queue[l])
    /\ \A u \in 1..Len(t) : t[u].cmd \in Asks
    /\ queue'[l] = q \o t

\* Lemma: the links between a child node and its parent.
LEMMA NodeLinks ==
  ASSUME NEW m \in Children, NEW l \in {Up(m), Down(m)}
  PROVE  /\ l \in Links /\ l[1] \in Nodes /\ l[2] \in Nodes /\ l[1] # l[2]
         /\ {l[1], l[2]} = {m, Parent[m]}
         /\ Open(l) <=> status[l[2]] = "up"
         /\ \A c \in Clients : l # Up(c) /\ l # Down(c)
         /\ \A x \in Ends : l = Up(x) \/ l = Down(x) => x = m
<1>1. m \in Ends /\ m \in Nodes /\ m \notin Clients /\ Parent[m] \in Nodes
  BY ChildEnds
<1>2. Parent[m] # m
  <2>1. PICK depth \in [Nodes -> 0..Cardinality(Children)] :
          \A x \in Children : depth[Parent[x]] < depth[x]
    BY TreeAssumption
  <2>2. depth[m] \in Int
    <3>1. Cardinality(Children) \in Nat
      BY TreeAssumption, FS_CardinalityType
    <3> QED BY <1>1, <2>1, <3>1
  <2> QED BY <2>1, <2>2
<1>3. l \in Links
  BY <1>1, LinksDiffer
<1>4. /\ l[1] \in {m, Parent[m]} /\ l[2] \in {m, Parent[m]} /\ l[1] # l[2]
      /\ {l[1], l[2]} = {m, Parent[m]}
  BY <1>2, LinkEnds
<1>5. l[2] \notin Clients
  BY <1>1, <1>4, ClientEnds
<1>6. \A x \in Ends : l = Up(x) \/ l = Down(x) => x = m
  BY <1>1, LinksDiffer
<1> QED BY <1>1, <1>3, <1>4, <1>5, <1>6, ClientEnds DEF Open

\* Lemmas: nothing happens on the link ...
LEMMA PassesNothing ==
  ASSUME TypeInv, NEW l \in Links, queue'[l] = queue[l]
  PROVE  Passes(l)
<1>1. queue[l] \in Seq(Cargoes)
  BY TypeInvIs DEF Queues, Cargoes
<1>2. <<>> \in Seq(Cargoes) /\ Len(<<>>) = 0
  BY CargoSeqs
<1>3. PICK q \in Seq(Cargoes), t \in Seq(Cargoes) : q = queue[l] /\ t = <<>> /\ Len(t) = 0
  BY <1>1, <1>2
<1>4. q \o t = q
  BY <1>3
<1>5. \A u \in 1..Len(t) : t[u].cmd \in Asks
  BY <1>3
<1> QED BY <1>3, <1>4, <1>5, Zenon DEF Passes

\* ... or one request or answer is sent over a link, after another was taken.
LEMMA PassesSent ==
  ASSUME TypeInv, NEW l \in Links, NEW k \in Links, queue[k] # <<>>,
         Head(queue[k]).cmd \in Asks, NEW links, NEW e \in Packets, e.cmd \in Asks,
         queue' = Sent(Taken(k), links, <<e>>)
  PROVE  Passes(l)
<1>1. queue[l] \in Seq(Cargoes)
  BY TypeInvIs DEF Queues, Cargoes
<1>2. <<>> \in Seq(Cargoes) /\ Len(<<>>) = 0
  BY CargoSeqs
<1>3. PICK pkts \in Seq(Packets) : pkts = <<e>> /\ \A u \in 1..Len(pkts) : pkts[u] = e
  <2>1. <<e>> \in Seq(Packets) /\ \A u \in 1..Len(<<e>>) : <<e>>[u] = e
    OBVIOUS
  <2> QED BY <2>1
<1>4. Taken(k) \in Queues
  BY TypeInvIs, TakenIs
<1>5. queue'[l] = IF l \in links /\ Open(l) THEN Taken(k)[l] \o pkts ELSE Taken(k)[l]
  BY <1>3, <1>4, SentIs
<1>6. PICK q \in Seq(Cargoes) : q = Taken(k)[l]
  BY <1>4 DEF Queues, Cargoes
<1>7. \/ q = queue[l]
      \/ queue[l] # <<>> /\ Head(queue[l]).cmd \in Asks /\ q = Tail(queue[l])
  BY <1>6, TypeInvIs, TakenIs
<1>8. CASE l \in links /\ Open(l)
  <2>1. pkts \in Seq(Cargoes)
    BY CargoSeqs
  <2>2. queue'[l] = q \o pkts /\ \A u \in 1..Len(pkts) : pkts[u].cmd \in Asks
    BY <1>3, <1>5, <1>6, <1>8
  <2> QED BY <1>7, <2>1, <2>2, Zenon DEF Passes
<1>9. CASE ~(l \in links /\ Open(l))
  <2>1. PICK t \in Seq(Cargoes) : t = <<>> /\ Len(t) = 0
    BY <1>2
  <2>2. queue'[l] = q \o t /\ \A u \in 1..Len(t) : t[u].cmd \in Asks
    <3>1. q \o t = q
      BY <2>1
    <3>2. queue'[l] = q
      BY <1>5, <1>6, <1>9
    <3> QED BY <2>1, <3>1, <3>2
  <2> QED BY <1>7, <2>1, <2>2, Zenon DEF Passes
<1> QED BY <1>8, <1>9

\* Both ends of the links between m and its parent are up.
BothUp(m) == status[m] = "up" /\ status[Parent[m]] = "up"

\* Lemmas: a client, or the thread of one, that routes and buries nothing.
LEMMA CalmClient ==
  ASSUME TypeInv, NEW m \in Children, NEW l \in {Up(m), Down(m)}, NEW c \in Clients,
         \/ Connect(c) \/ Request(c) \/ ClientReceive(c) \/ Disconnect(c)
         \/ \E cmd \in Kinds, g \in Groups : Send(c, cmd, g)
         \/ ClientLink(c) /\ ~routeToGroup(c) /\ ~ClientGone(c)
  PROVE  UNCHANGED history /\ Passes(l)
<1>0. /\ l \in Links /\ l # Up(c) /\ l # Down(c)
      /\ c \in Ends /\ Up(c) \in Links /\ Down(c) \in Links
  BY NodeLinks, ClientEnds, LinksDiffer
<1>1. queue \in Queues
  BY TypeInvIs
<1>2. ASSUME queue'[l] = queue[l]
      PROVE  Passes(l)
  BY <1>0, <1>2, PassesNothing
<1>3. ASSUME \E links, pkts : l \notin links /\ queue' = Sent(queue, links, pkts)
      PROVE  queue'[l] = queue[l]
  BY <1>0, <1>3, SentElse
<1>4. ASSUME queue' = Taken(Up(c)) \/ \E links, pkts : l \notin links /\
               queue' = Sent(Taken(Up(c)), links, pkts)
      PROVE  queue'[l] = queue[l]
  <2>1. Taken(Up(c))[l] = queue[l]
    BY <1>0, TakenElse
  <2> QED BY <1>0, <1>4, <2>1, SentElse
<1>5. CASE Connect(c)
  BY <1>2, <1>5 DEF Connect
<1>6. CASE Request(c)
  <2>1. UNCHANGED history /\ \E pkts : queue' = Sent(queue, {Up(c)}, pkts)
    BY <1>6 DEF Request, tables
  <2> QED BY <1>0, <1>2, <1>3, <2>1
<1>7. CASE ClientReceive(c)
  <2>1. UNCHANGED history /\ queue' = Taken(Down(c))
    BY <1>7 DEF ClientReceive, tables
  <2> QED BY <1>0, <1>2, <2>1, TakenElse
<1>8. CASE Disconnect(c)
  <2>1. UNCHANGED history /\ queue' = [queue EXCEPT ![Down(c)] = <<>>]
    BY <1>8 DEF Disconnect, tables
  <2> QED BY <1>0, <1>1, <1>2, <2>1, EmptiedIs
<1>9. CASE \E cmd \in Kinds, g \in Groups : Send(c, cmd, g)
  <2>1. UNCHANGED history /\ \E pkts : queue' = Sent(queue, {Up(c)}, pkts)
    BY <1>9 DEF Send, tables
  <2> QED BY <1>0, <1>2, <1>3, <2>1
<1>10. CASE RootJoin(c)
  <2>1. UNCHANGED history /\ \E pkts : queue' = Sent(Taken(Up(c)), {Down(c)}, pkts)
    BY <1>10 DEF RootJoin
  <2> QED BY <1>0, <1>2, <1>4, <2>1
<1>11. CASE KnownJoin(c)
  <2>1. UNCHANGED history /\ queue' = Taken(Up(c))
    BY <1>11 DEF KnownJoin
  <2> QED BY <1>2, <1>4, <2>1
<1>12. CASE JoinReply(c)
  <2>1. UNCHANGED history /\ \E pkts : queue' = Sent(queue, {Down(c)}, pkts)
    BY <1>12 DEF JoinReply, tables
  <2> QED BY <1>0, <1>2, <1>3, <2>1
<1>13. CASE JoinHistory(c)
  BY <1>2, <1>13 DEF JoinHistory, tables
<1>14. CASE JoinSend(c)
  <2>1. UNCHANGED history /\ (queue' = queue \/ \E pkts : queue' = Sent(queue, {Down(c)}, pkts))
    BY <1>14, Zenon DEF JoinSend, tables
  <2> QED BY <1>0, <1>2, <1>3, <2>1
<1>15. CASE DownReply(c)
  <2>1. UNCHANGED history /\ \E pkts : queue' = Sent(Taken(Up(c)), {Down(c)}, pkts)
    BY <1>15 DEF DownReply
  <2> QED BY <1>0, <1>2, <1>4, <2>1
<1>16. CASE DownForward(c)
  <2>1. PICK e : e = Head(queue[Up(c)])
    OBVIOUS
  <2>2. /\ UNCHANGED history /\ queue' = Sent(Taken(Up(c)), {Up(Parent[c])}, <<e>>)
        /\ Reads(c, {"GET_GROUP_ID", "JOIN_GROUP"})
    BY <1>16, <2>1 DEF DownForward, tables
  <2>3. queue[Up(c)] # <<>> /\ e.cmd \in {"GET_GROUP_ID", "JOIN_GROUP"} /\ e \in Packets
    BY <1>0, <2>1, <2>2, ReadsIs
  <2>4. e.cmd \in Asks
    BY <2>3 DEF Asks
  <2> QED BY <1>0, <2>1, <2>2, <2>3, <2>4, PassesSent
<1>17. CASE leaveGroup(c)
  <2>1. UNCHANGED history /\ queue' = Taken(Up(c))
    BY <1>17 DEF leaveGroup
  <2> QED BY <1>2, <1>4, <2>1
<1>18. CASE IgnoreMessage(c)
  <2>1. UNCHANGED history /\ queue' = Taken(Up(c))
    BY <1>18 DEF IgnoreMessage, tables
  <2> QED BY <1>2, <1>4, <2>1
<1> QED BY <1>5, <1>6, <1>7, <1>8, <1>9, <1>10, <1>11, <1>12, <1>13, <1>14, <1>15,
           <1>16, <1>17, <1>18, Zenon DEF ClientLink, JoinStep

\* Lemma: a node, or a thread between nodes.
LEMMA CalmNode ==
  ASSUME TypeInv, Placed, LookupOK, NEW m \in Children, NEW l \in {Up(m), Down(m)},
         BothUp(m)', NEW x \in Children,
         \/ NodeStart(x) \/ NodeFail(x)
         \/ synchronizeNewSeCo(x) \/ DownReply(x) \/ DownForward(x)
         \/ UpLookup(x) \/ UpReply(x) \/ UpForward(x) \/ UpNoRoute(x)
  PROVE  \/ UNCHANGED history /\ Passes(l)
         \/ synchronizeNewSeCo(m) \/ NodeStart(m)
<1>0. /\ l \in Links /\ x \in Ends /\ Up(x) \in Links /\ Down(x) \in Links
      /\ x \in Nodes /\ Parent[x] \in Nodes
      /\ \A y \in Ends : l = Up(y) \/ l = Down(y) => y = m
      /\ \A c \in Clients : l # Down(c)
      /\ {l[1], l[2]} = {m, Parent[m]}
  BY NodeLinks, ChildEnds, LinksDiffer
<1>1. queue \in Queues
  BY TypeInvIs
<1>2. ASSUME queue'[l] = queue[l]
      PROVE  Passes(l)
  BY <1>0, <1>2, PassesNothing
<1>3. CASE NodeStart(x)
  <2>1. UNCHANGED history /\ \E pkts : queue' = [queue EXCEPT ![Up(x)] = pkts]
    BY <1>3 DEF NodeStart, tables
  <2>2. CASE x # m
    <3>1. queue'[l] = queue[l]
      BY <1>0, <1>1, <2>1, <2>2 DEF Queues
    <3> QED BY <1>2, <2>1, <3>1
  <2> QED BY <1>3, <2>2
<1>4. CASE Ended(x)
  <2>1. UNCHANGED history
    BY <1>4 DEF Ended, tables
  <2>2. status'[x] = "down"
    BY <1>0, <1>4, TypeInvIs DEF Ended
  <2>3. x \notin {l[1], l[2]}
    BY <1>0, <2>2 DEF BothUp
  <2>4. queue'[l] = queue[l]
    BY <1>0, <1>4, <2>3 DEF Ended
  <2> QED BY <1>2, <2>1, <2>4
<1>5. CASE synchronizeNewSeCo(x)
  <2>1. /\ UNCHANGED history
        /\ \E pkts : queue' = Sent(Taken(Up(x)), {Down(x)}, pkts)
    BY <1>5 DEF synchronizeNewSeCo
  <2>2. CASE x # m
    <3>1. l # Up(x) /\ l \notin {Down(x)}
      BY <1>0, <2>2
    <3>2. queue'[l] = queue[l]
      BY <1>0, <2>1, <3>1, SentElse, TakenElse
    <3> QED BY <1>2, <2>1, <3>2
  <2> QED BY <1>5, <2>2
<1>6. CASE DownReply(x) \/ DownForward(x)
  <2>1. PICK e : e = Head(queue[Up(x)])
    OBVIOUS
  <2>2. /\ UNCHANGED history
        /\ \E links : queue' = Sent(Taken(Up(x)), links, <<e>>)
        /\ Reads(x, {"GET_GROUP_ID", "JOIN_GROUP"})
    <3>1. CASE DownReply(x)
      <4>1. x \notin Clients
        BY ChildEnds
      <4>2. Reads(x, {"GET_GROUP_ID", "JOIN_GROUP"})
        BY <3>1, <4>1 DEF DownReply
      <4> QED BY <2>1, <3>1, <4>2 DEF DownReply
    <3>2. CASE DownForward(x)
      BY <2>1, <3>2 DEF DownForward, tables
    <3> QED BY <1>6, <3>1, <3>2
  <2>3. /\ queue[Up(x)] # <<>> /\ e.cmd \in {"GET_GROUP_ID", "JOIN_GROUP"}
        /\ e \in Packets
    BY <1>0, <2>1, <2>2, ReadsIs
  <2>4. e.cmd \in Asks
    BY <2>3 DEF Asks
  <2> QED BY <1>0, <2>1, <2>2, <2>3, <2>4, PassesSent
<1>7. CASE UpLookup(x)
  BY <1>2, <1>7 DEF UpLookup, tables
<1>8. CASE UpReply(x) \/ UpForward(x)
  <2>1. PICK e : e = Head(queue[Down(x)])
    OBVIOUS
  <2>2. /\ UNCHANGED history
        /\ Hears(x, {"JOIN_GROUP", "GET_GROUP_ID"}) /\ lookup[x] \notin {"idle", "null"}
    BY <1>8 DEF UpReply, UpForward, tables
  <2>3. /\ queue[Down(x)] # <<>> /\ e.cmd \in {"JOIN_GROUP", "GET_GROUP_ID"}
        /\ e \in Packets /\ status[x] = "up"
    BY <2>1, <2>2, HearsIs
  <2>4. e.cmd \in Asks
    BY <2>3 DEF Asks
  <2>5. CASE UpForward(x)
    <3>1. queue' = Sent(Taken(Down(x)), {<<x, lookup[x]>>}, <<e>>)
      BY <2>1, <2>5 DEF UpForward
    <3> QED BY <1>0, <2>1, <2>2, <2>3, <2>4, <3>1, PassesSent
  <2>6. CASE UpReply(x)
    <3>1. /\ \E pkts : queue' = Sent(Taken(Down(x)), {<<x, lookup[x]>>}, pkts)
          /\ e.client \in local[x]
      BY <2>1, <2>6 DEF UpReply
    <3>2. <<x, lookup[x]>> = Down(e.client) /\ e.client \in Clients
      <4>1. /\ <<x, lookup[x]>> = Down(lookup[x])
            /\ e.client \in local[x] => lookup[x] = e.client
        BY <2>1, <2>2, <2>3, LookedUp
      <4> QED BY <1>0, <3>1, <4>1, TypeInvIs
    <3>3. l \notin {<<x, lookup[x]>>}
      BY <1>0, <3>2
    <3>4. queue'[l] = Taken(Down(x))[l]
      BY <1>0, <3>1, <3>3, SentElse
    <3>5. CASE l # Down(x)
      BY <1>0, <1>2, <2>2, <3>4, <3>5, TakenElse
    <3>6. CASE l = Down(x)
      <4>1. queue'[l] = Tail(queue[l])
        BY <1>0, <1>1, <2>3, <3>4, <3>6, TakenIs
      <4>2. PICK w \in Seq(Cargoes) : w = queue[l] /\ w # <<>>
        BY <1>0, <1>1, <2>3, <3>6 DEF Queues, Cargoes
      <4>3. PICK q \in Seq(Cargoes), t \in Seq(Cargoes) :
              q = Tail(w) /\ t = <<>> /\ Len(t) = 0
        <5>1. Tail(w) \in Seq(Cargoes)
          BY <4>2
        <5>2. <<>> \in Seq(Cargoes) /\ Len(<<>>) = 0
          BY CargoSeqs
        <5> QED BY <5>1, <5>2
      <4>4. q \o t = q
        BY <4>3
      <4>5. \A u \in 1..Len(t) : t[u].cmd \in Asks
        BY <4>3
      <4>6. /\ q = Tail(queue[l]) /\ queue[l] # <<>> /\ Head(queue[l]).cmd \in Asks
            /\ queue'[l] = q \o t
        BY <2>1, <2>4, <3>6, <4>1, <4>2, <4>3, <4>4
      <4> QED BY <2>2, <4>5, <4>6, Zenon DEF Passes
    <3> QED BY <3>5, <3>6
  <2> QED BY <1>8, <2>5, <2>6
<1> QED BY <1>3, <1>4, <1>5, <1>6, <1>7, <1>8 DEF NodeFail, UpNoRoute

\* Lemma: a step that routes and buries nothing.
LEMMA CalmLink ==
  ASSUME TypeInv, Placed, LookupOK, [Next]_vars, ~Burial, ~Routing,
         NEW m \in Children, NEW l \in {Up(m), Down(m)}, BothUp(m)'
  PROVE  \/ UNCHANGED history /\ Passes(l)
         \/ synchronizeNewSeCo(m) \/ NodeStart(m)
<1>1. CASE UNCHANGED vars
  BY <1>1, NodeLinks, PassesNothing DEF vars, tables
<1>2. ASSUME NEW c \in Clients,
             \/ Connect(c)
             \/ Request(c)
             \/ \E cmd \in Kinds, g \in Groups : Send(c, cmd, g)
             \/ ClientReceive(c)
             \/ Disconnect(c)
             \/ ClientLink(c)
      PROVE  UNCHANGED history /\ Passes(l)
  <2>1. ~routeToGroup(c) /\ ~ClientGone(c)
    BY ClientEnds DEF Burial, Routing
  <2> QED BY <1>2, <2>1, CalmClient
<1>3. ASSUME NEW x \in Children,
             NodeStart(x) \/ NodeFail(x) \/ ChildLink(x) \/ UpLink(x)
      PROVE  \/ UNCHANGED history /\ Passes(l)
             \/ synchronizeNewSeCo(m) \/ NodeStart(m)
  <2>1. /\ ~routeToGroup(x) /\ ~RouteToGroup(x) /\ ~DownGone(x) /\ ~UpGone(x)
        /\ ~NodeGone(x)
    BY ChildEnds DEF Burial, Routing
  <2>2. \/ NodeStart(x) \/ NodeFail(x)
        \/ synchronizeNewSeCo(x) \/ DownReply(x) \/ DownForward(x)
        \/ UpLookup(x) \/ UpReply(x) \/ UpForward(x) \/ UpNoRoute(x)
    BY <1>3, <2>1, Zenon DEF ChildLink, UpLink
  <2> QED BY <2>2, CalmNode
<1> QED BY <1>1, <1>2, <1>3, Zenon DEF Next

----------------------------------------------------------------------------
(* Two neighbours follow each other *)

\* What the node that link l comes from keeps of client s and group g, the node
\* that it leads to will hold when it has read the link.
Agree(l, s, g) ==
  \A p : p \in Kept(l[1], g, s) <=> Holding(queue[l], Kept(l[2], g, s), p, s, g)

\* Lemmas: nothing that matters is sent, and perhaps one packet is read ...
LEMMA AgreeQuiet ==
  ASSUME NEW l, queue[l] \in Seq(Cargoes), NEW s, NEW g, Agree(l, s, g),
         NEW q, NEW D, NEW t, Moves(l, q, D, t),
         \A d \in D : ~Matters(d, s, g),
         \A u \in 1..Len(t) : ~Matters(t[u], s, g),
         \A p : p \in Kept(l[1], g, s)' <=> p \in Kept(l[1], g, s),
         \/ q = queue[l] /\ \A p : p \in Kept(l[2], g, s)' <=> p \in Kept(l[2], g, s)
         \/ /\ queue[l] # <<>> /\ q = Tail(queue[l])
            /\ \A p : p \in Kept(l[2], g, s)' <=>
                 \/ p \in Kept(l[2], g, s) /\ ~Resets(queue[l][1], s, g)
                 \/ p = queue[l][1] /\ Stays(queue[l][1], s, g)
  PROVE  Agree(l, s, g)'
<1> SUFFICES ASSUME NEW p
             PROVE  p \in Kept(l[1], g, s)' <=>
                      Holding(queue'[l], Kept(l[2], g, s)', p, s, g)
  BY Zenon DEF Agree, Holding
<1> DEFINE J == Kept(l[2], g, s)'
<1>1. Holding(queue'[l], J, p, s, g) <=> Holding(q, J, p, s, g)
  BY MovesQuietly, Zenon
<1>2. p \in Kept(l[1], g, s) <=> Holding(queue[l], Kept(l[2], g, s), p, s, g)
  BY Zenon DEF Agree
<1>3. Holding(q, J, p, s, g) <=> Holding(queue[l], Kept(l[2], g, s), p, s, g)
  <2>1. CASE q = queue[l] /\ \A e : e \in Kept(l[2], g, s)' <=> e \in Kept(l[2], g, s)
    BY <2>1, Zenon DEF Holding
  <2>2. CASE /\ queue[l] # <<>> /\ q = Tail(queue[l])
             /\ \A e : e \in Kept(l[2], g, s)' <=>
                  \/ e \in Kept(l[2], g, s) /\ ~Resets(queue[l][1], s, g)
                  \/ e = queue[l][1] /\ Stays(queue[l][1], s, g)
    <3>1. p \in J <=> \/ p \in Kept(l[2], g, s) /\ ~Resets(queue[l][1], s, g)
                      \/ p = queue[l][1] /\ Stays(queue[l][1], s, g)
      BY <2>2, Zenon
    <3>2. Holding(Tail(queue[l]), J, p, s, g)
            <=> Holding(queue[l], Kept(l[2], g, s), p, s, g)
      BY <2>2, <3>1, HoldingTail, Zenon
    <3> QED
      BY <2>2, <3>2, Zenon
  <2> QED
    BY <2>1, <2>2, Zenon
<1> QED
  BY <1>1, <1>2, <1>3, Zenon

\* ... or the node sends on one packet that it has read ...
LEMMA AgreeOne ==
  ASSUME NEW l, NEW s, NEW g, Agree(l, s, g),
         NEW D, NEW t, NEW e \in Cargoes, t = <<e>>, Moves(l, queue[l], D, t),
         Resets(e, s, g) \/ \A d \in D : ~Matters(d, s, g),
         \A p : p \in Kept(l[1], g, s)' <=>
           \/ p = e /\ Stays(e, s, g)
           \/ ~Resets(e, s, g) /\ p \in Kept(l[1], g, s),
         \A p : p \in Kept(l[2], g, s)' <=> p \in Kept(l[2], g, s)
  PROVE  Agree(l, s, g)'
<1> SUFFICES ASSUME NEW p
             PROVE  p \in Kept(l[1], g, s)' <=>
                      Holding(queue'[l], Kept(l[2], g, s)', p, s, g)
  BY Zenon DEF Agree, Holding
<1>1. Holding(queue'[l], Kept(l[2], g, s), p, s, g) <=>
        \/ p = e /\ Stays(e, s, g)
        \/ ~Resets(e, s, g) /\ Holding(queue[l], Kept(l[2], g, s), p, s, g)
  BY MovesOne, Zenon
<1>2. p \in Kept(l[1], g, s) <=> Holding(queue[l], Kept(l[2], g, s), p, s, g)
  BY Zenon DEF Agree
<1>3. Holding(queue'[l], Kept(l[2], g, s), p, s, g)
        <=> Holding(queue'[l], Kept(l[2], g, s)', p, s, g)
  BY Zenon DEF Holding
<1> QED
  BY <1>1, <1>2, <1>3, Zenon

\* ... or the news of an end.
LEMMA AgreeReset ==
  ASSUME NEW l, NEW s, NEW g, NEW D, NEW t, Moves(l, queue[l], D, t),
         NEW u \in 1..Len(t), Resets(t[u], s, g),
         \A v \in 1..Len(t) : ~Stays(t[v], s, g),
         \A p : p \notin Kept(l[1], g, s)'
  PROVE  Agree(l, s, g)'
<1> SUFFICES ASSUME NEW p
             PROVE  p \in Kept(l[1], g, s)' <=>
                      Holding(queue'[l], Kept(l[2], g, s)', p, s, g)
  BY Zenon DEF Agree, Holding
<1> DEFINE J == Kept(l[2], g, s)'
<1>1. ~Holding(queue'[l], J, p, s, g)
  BY MovesReset, Zenon
<1> QED
  BY <1>1, Zenon

\* Lemma: the histories after a message has been routed.
LEMMA KeptRoutes ==
  ASSUME TypeInv, NEW n \in Nodes, NEW k \in Links, NEW p \in Msgs, NEW targets,
         RoutesFrom(n, k, p, targets),
         NEW x \in Nodes, NEW g \in AllGroups, NEW s \in Clients, NEW e
  PROVE  e \in Kept(x, g, s)' <=>
           IF x = n THEN \/ e = p /\ Stays(p, s, g)
                         \/ ~Resets(p, s, g) /\ e \in Kept(x, g, s)
           ELSE e \in Kept(x, g, s)
<1>1. history'[x][g][s] =
        IF p.cmd # "NO_HISTORY_MSG" /\ x = n /\ g = p.group /\ s = p.client
        THEN IF p.cmd = "SYNC_MSG" THEN <<p>> ELSE Append(history[x][g][s], p)
        ELSE history[x][g][s]
  BY RoutesDo
<1>2. history[x][g][s] \in Seq(Msgs)
  BY TypeInvIs
<1>3. p.cmd \in MsgCommands /\ p.cmd # "CLIENT_DISCONNECTED"
  BY PacketKinds DEF MsgCommands
<1>4. CASE p.cmd # "NO_HISTORY_MSG" /\ x = n /\ g = p.group /\ s = p.client
  <2>1. Stays(p, s, g)
    BY <1>3, <1>4 DEF Stays, MsgCommands
  <2>2. CASE p.cmd = "SYNC_MSG"
    <3>1. Resets(p, s, g)
      BY <1>4, <2>2 DEF Resets
    <3>2. history'[x][g][s] = <<p>>
      BY <1>1, <1>4, <2>2, Zenon
    <3>3. PICK w : w = <<p>>
      OBVIOUS
    <3>4. ToSet(w) = {p}
      BY <3>3 DEF ToSet
    <3> QED
      BY <1>4, <2>1, <3>1, <3>2, <3>3, <3>4, Zenon DEF Kept
  <2>3. CASE p.cmd # "SYNC_MSG"
    <3>1. ~Resets(p, s, g)
      BY <1>3, <2>3 DEF Resets
    <3>2. history'[x][g][s] = Append(history[x][g][s], p)
      BY <1>1, <1>4, <2>3, Zenon
    <3>3. ToSet(Append(history[x][g][s], p)) = ToSet(history[x][g][s]) \cup {p}
      BY <1>2, AppendHolds
    <3>4. Kept(x, g, s)' = Kept(x, g, s) \cup {p}
      BY <3>2, <3>3, Zenon DEF Kept
    <3> QED
      BY <1>4, <2>1, <3>1, <3>4
  <2> QED
    BY <2>2, <2>3
<1>5. CASE ~(p.cmd # "NO_HISTORY_MSG" /\ x = n /\ g = p.group /\ s = p.client)
  <2>1. Kept(x, g, s)' = Kept(x, g, s)
    BY <1>1, <1>5, Zenon DEF Kept
  <2>2. x = n => ~Stays(p, s, g) /\ ~Resets(p, s, g)
    BY <1>3, <1>5 DEF Stays, Resets
  <2> QED
    BY <2>1, <2>2, Zenon
<1> QED
  BY <1>4, <1>5

\* Lemma: two neighbours agree after one of them or another node has routed a
\* message.
LEMMA AgreeRoutes ==
  ASSUME TypeInv, NEW n \in Nodes, NEW k \in Links, NEW p \in Msgs, NEW targets,
         RoutesFrom(n, k, p, targets),
         NEW m \in Children, NEW l \in {Up(m), Down(m)}, BothUp(m),
         m \in secoPPSet[Parent[m]],
         NEW s \in Clients, NEW g \in AllGroups, Away(l, s), Agree(l, s, g)
  PROVE  Agree(l, s, g)'
<1>1. /\ l \in Links /\ l[1] \in Nodes /\ l[2] \in Nodes /\ l[1] # l[2]
      /\ {l[1], l[2]} = {m, Parent[m]}
      /\ Open(l)
  BY NodeLinks DEF BothUp
<1>2. queue \in Queues /\ queue[l] \in Seq(Cargoes)
  BY <1>1, TypeInvIs DEF Queues, Cargoes
<1>3. PICK t \in Seq(Cargoes) : t = <<p>>
  BY CargoSeqs
<1>4. p \in Cargoes /\ p.cmd # "CLIENT_DISCONNECTED"
  BY PacketKinds DEF Cargoes, MsgCommands
<1>5. PICK q \in Queues :
        /\ \A h \in Links : q[h] = IF h = k THEN Tail(queue[k]) ELSE queue[h]
        /\ \E r \in Queues : \A h \in Links :
             /\ Spares(r[h], q[h], Cleans(n, p))
             /\ h[1] # n => r[h] = q[h]
             /\ queue'[h] = IF h \in targets /\ Open(h) THEN r[h] \o t ELSE r[h]
  BY <1>3, RoutesDo
<1>6. PICK r \in Queues : \A h \in Links :
        /\ Spares(r[h], q[h], Cleans(n, p))
        /\ h[1] # n => r[h] = q[h]
        /\ queue'[h] = IF h \in targets /\ Open(h) THEN r[h] \o t ELSE r[h]
  BY <1>5
<1>7. /\ Spares(r[l], q[l], Cleans(n, p))
      /\ l[1] # n => r[l] = q[l]
      /\ queue'[l] = IF l \in targets THEN r[l] \o t ELSE r[l]
      /\ q[l] = IF l = k THEN Tail(queue[k]) ELSE queue[l]
      /\ r[l] \in Seq(Cargoes) /\ q[l] \in Seq(Cargoes)
  BY <1>1, <1>5, <1>6 DEF Queues, Cargoes
<1>8. PICK none \in Seq(Cargoes) : none = <<>> /\ Len(none) = 0
  BY CargoSeqs
<1>9. \A u \in 1..Len(none) : ~Matters(none[u], s, g)
  BY <1>8
<1>10. /\ k[2] = n /\ queue[k] # <<>> /\ p = queue[k][1] /\ Away(k, p.client)
       /\ \A h \in targets : h[1] = n /\ Away(h, p.client)
       /\ \A y \in secoPPSet[n] : Away(Down(y), p.client) => Down(y) \in targets
       /\ n # Root /\ Away(Up(n), p.client) => Up(n) \in targets
  BY DEF RoutesFrom
<1>11. \A x \in Nodes : \A e : e \in Kept(x, g, s)' <=>
           IF x = n THEN \/ e = p /\ Stays(p, s, g)
                         \/ ~Resets(p, s, g) /\ e \in Kept(x, g, s)
           ELSE e \in Kept(x, g, s)
  BY KeptRoutes, Zenon
<1>12. s # p.client => ~Stays(p, s, g) /\ ~Resets(p, s, g)
  BY DEF Stays, Resets
<1>13. \A d \in Cleans(n, p) : Matters(d, s, g) => s = p.client /\ Resets(p, s, g)
  <2> SUFFICES ASSUME NEW d \in Cleans(n, p), Matters(d, s, g)
               PROVE  s = p.client /\ Resets(p, s, g)
    OBVIOUS
  <2>1. p.cmd = "SYNC_MSG" /\ d \in Kept(n, p.group, p.client)
    BY DEF Cleans
  <2>2. p.client \in Clients /\ p.group \in AllGroups
    BY PacketKinds DEF AllGroups
  <2>3. d.client = p.client /\ d.group = p.group /\ d.cmd \in MsgCommands
    BY <2>1, <2>2, KeptOf
  <2> QED
    BY <2>1, <2>3 DEF Matters, Resets, Stays, MsgCommands
<1>14. CASE l[1] = n
  <2>1. l # k /\ q[l] = queue[l] /\ l[2] # n
    BY <1>1, <1>7, <1>10, <1>14
  <2>2. \A e : e \in Kept(l[2], g, s)' <=> e \in Kept(l[2], g, s)
    BY <1>1, <1>11, <2>1, Zenon
  <2>3. \A e : e \in Kept(l[1], g, s)' <=>
           \/ e = p /\ Stays(p, s, g)
           \/ ~Resets(p, s, g) /\ e \in Kept(l[1], g, s)
    BY <1>1, <1>11, <1>14, Zenon
  <2>4. CASE l \in targets
    <3>1. Moves(l, queue[l], Cleans(n, p), t)
      BY <1>2, <1>7, <2>1, <2>4, Zenon DEF Moves
    <3>2. Resets(p, s, g) \/ \A d \in Cleans(n, p) : ~Matters(d, s, g)
      BY <1>13, Zenon
    <3> QED
      BY <1>3, <1>4, <2>2, <2>3, <3>1, <3>2, AgreeOne, Zenon
  <2>5. CASE l \notin targets
    <3>1. s # p.client
      <4> SUFFICES ASSUME s = p.client PROVE FALSE
        OBVIOUS
      <4>1. CASE l = Up(m)
        <5>1. m = n /\ n # Root
          BY <1>14, <4>1, LinkEnds, ChildEnds
        <5> QED
          BY <1>10, <2>5, <4>1, <5>1
      <4>2. CASE l = Down(m)
        <5>1. Parent[m] = n
          BY <1>14, <4>2, LinkEnds
        <5> QED
          BY <1>10, <2>5, <4>2, <5>1
      <4> QED
        BY <4>1, <4>2
    <3>2. queue'[l] = r[l] \o none
      BY <1>7, <1>8, <2>5
    <3>3. Moves(l, queue[l], Cleans(n, p), none)
      BY <1>2, <1>7, <2>1, <3>2, Zenon DEF Moves
    <3>4. \A d \in Cleans(n, p) : ~Matters(d, s, g)
      BY <1>13, <3>1, Zenon
    <3>5. \A e : e \in Kept(l[1], g, s)' <=> e \in Kept(l[1], g, s)
      BY <1>12, <2>3, <3>1, Zenon
    <3> QED
      BY <1>2, <1>9, <2>2, <3>3, <3>4, <3>5, AgreeQuiet, Zenon
  <2> QED
    BY <2>4, <2>5, Zenon
<1>15. CASE l[1] # n
  <2>1. l \notin targets /\ queue'[l] = q[l] /\ r[l] = q[l]
    BY <1>7, <1>10, <1>15
  <2>2. PICK D : D = {}
    OBVIOUS
  <2>3. Moves(l, q[l], D, none)
    <3>1. queue'[l] = q[l] \o none
      BY <1>7, <1>8, <2>1
    <3>2. Spares(q[l], q[l], D)
      BY <1>7, SparesSelf, Zenon
    <3> QED
      BY <1>7, <3>1, <3>2, Zenon DEF Moves
  <2>4. \A d \in D : ~Matters(d, s, g)
    BY <2>2
  <2>5. \A e : e \in Kept(l[1], g, s)' <=> e \in Kept(l[1], g, s)
    BY <1>1, <1>11, <1>15, Zenon
  <2>6. CASE l = k
    <3>1. \A e : e \in Kept(l[2], g, s)' <=>
                 \/ e \in Kept(l[2], g, s) /\ ~Resets(queue[l][1], s, g)
                 \/ e = queue[l][1] /\ Stays(queue[l][1], s, g)
      BY <1>1, <1>10, <1>11, <2>6, Zenon
    <3>2. queue[l] # <<>> /\ q[l] = Tail(queue[l])
      BY <1>7, <1>10, <2>6
    <3> QED
      BY <1>2, <1>9, <2>3, <2>4, <2>5, <3>1, <3>2, AgreeQuiet, Zenon
  <2>7. CASE l # k
    <3>1. l[2] = n => s # p.client
      <4> SUFFICES ASSUME l[2] = n, s = p.client PROVE FALSE
        OBVIOUS
      <4> QED
        BY <1>1, <1>10, <2>7, OneLinkAway
    <3>2. \A e : e \in Kept(l[2], g, s)' <=> e \in Kept(l[2], g, s)
      BY <1>1, <1>11, <1>12, <3>1, Zenon
    <3>3. q[l] = queue[l]
      BY <1>7, <2>7
    <3> QED
      BY <1>2, <1>9, <2>3, <2>4, <2>5, <3>2, <3>3, AgreeQuiet, Zenon
  <2> QED
    BY <2>6, <2>7, Zenon
<1> QED
  BY <1>14, <1>15, Zenon

\* Lemma: or requests and answers have passed.
LEMMA AgreePasses ==
  ASSUME TypeInv, NEW m \in Children, NEW l \in {Up(m), Down(m)},
         UNCHANGED history, Passes(l), NEW s, NEW g, Agree(l, s, g)
  PROVE  Agree(l, s, g)'
<1>1. PICK q \in Seq(Cargoes), t \in Seq(Cargoes) :
        /\ \/ q = queue[l]
           \/ queue[l] # <<>> /\ Head(queue[l]).cmd \in Asks /\ q = Tail(queue[l])
        /\ \A u \in 1..Len(t) : t[u].cmd \in Asks
        /\ queue'[l] = q \o t
  BY DEF Passes
<1>2. l \in Links
  BY NodeLinks
<1>3. queue \in Queues /\ queue[l] \in Seq(Cargoes)
  BY <1>2, TypeInvIs DEF Queues, Cargoes
<1>4. PICK D : D = {}
  OBVIOUS
<1>5. Moves(l, q, D, t)
  <2>1. Spares(q, q, D)
    BY SparesSelf, Zenon
  <2> QED
    BY <1>1, <2>1, Zenon DEF Moves
<1>6. \A p : p.cmd \in Asks => ~Matters(p, s, g) /\ ~Resets(p, s, g) /\ ~Stays(p, s, g)
  BY DEF Asks, Matters, Resets, Stays
<1>7. /\ \A d \in D : ~Matters(d, s, g)
      /\ \A u \in 1..Len(t) : ~Matters(t[u], s, g)
  BY <1>1, <1>4, <1>6
<1>8. /\ \A p : p \in Kept(l[1], g, s)' <=> p \in Kept(l[1], g, s)
      /\ \A p : p \in Kept(l[2], g, s)' <=> p \in Kept(l[2], g, s)
  BY Zenon DEF Kept
<1>9. \/ q = queue[l]
      \/ /\ queue[l] # <<>> /\ q = Tail(queue[l])
         /\ ~Resets(queue[l][1], s, g) /\ ~Stays(queue[l][1], s, g)
  <2>1. queue[l] # <<>> => Head(queue[l]) = queue[l][1]
    BY <1>3
  <2> QED
    BY <1>1, <1>6, <2>1
<1> QED
  BY <1>3, <1>5, <1>7, <1>8, <1>9, AgreeQuiet, Zenon

\* Over link l, of which q[l] is left, node n sends the news of the ends of the
\* clients in cs to targets.
SendsNews(l, n, q, cs, targets) ==
  \E D : \E t \in Seq(Cargoes) :
    /\ Moves(l, q[l], D, t)
    /\ l[1] = n => D = KeptFrom(n, cs)
    /\ l[1] # n => D = {}
    /\ \A u \in 1..Len(t) : t[u].cmd = "CLIENT_DISCONNECTED" /\ t[u].client \in cs
    /\ l \in targets /\ Open(l) =>
         \A c \in cs : \E u \in 1..Len(t) : IsEnd(t[u], c)
    /\ l \notin targets => Len(t) = 0

\* Lemma: what a burial sends over a link.
LEMMA BurySends ==
  ASSUME TypeInv, NEW n \in Nodes, NEW q \in Queues, NEW cs \in SUBSET Clients,
         NEW targets, Bury(n, q, cs, targets), NEW l \in Links
  PROVE  SendsNews(l, n, q, cs, targets)
<1> DEFINE order == SetToSeq(cs)
           news == [i \in 1..Len(order) |->
                      Packet("CLIENT_DISCONNECTED", order[i], DISCONNECTIONS, 0)]
<1>1. IsFiniteSet(cs)
  BY TreeAssumption, FS_Subset
<1>2. order \in Seq(cs) /\ \A s \in cs : \E i \in 1..Len(order) : order[i] = s
  BY <1>1, OrderOf
<1>3. PICK K : K = KeptFrom(n, cs)
  OBVIOUS
<1>4. PICK r \in Deprecations(q, n, K) : queue' = Sent(r, targets, news)
  BY <1>3 DEF Bury
<1> HIDE DEF order
<1>5. \A i \in 1..Len(order) : order[i] \in cs
  BY <1>2
<1>6. news \in Seq(Notes) /\ Len(news) = Len(order)
      /\ \A i \in 1..Len(order) : news[i] =
           Packet("CLIENT_DISCONNECTED", order[i], DISCONNECTIONS, 0)
  <2>1. \A i \in 1..Len(order) :
          Packet("CLIENT_DISCONNECTED", order[i], DISCONNECTIONS, 0) \in Notes
    BY <1>5 DEF Packet, Notes, AllGroups
  <2>2. Len(order) \in Nat
    BY <1>2
  <2> QED BY <2>1, <2>2
<1> HIDE DEF news
<1>7. news \in Seq(Packets)
  BY <1>6, SeqMonotonic DEF Packets
<1>8. \A u \in 1..Len(news) : IsEnd(news[u], order[u]) /\ news[u].client \in cs
  <2> SUFFICES ASSUME NEW u \in 1..Len(news)
               PROVE  IsEnd(news[u], order[u]) /\ news[u].client \in cs
    OBVIOUS
  <2>1. news[u] = Packet("CLIENT_DISCONNECTED", order[u], DISCONNECTIONS, 0)
    BY <1>6
  <2>2. order[u] \in cs
    BY <1>5, <1>6
  <2> QED
    BY <2>1, <2>2 DEF Packet, IsEnd
<1>9. \A s \in cs : \E u \in 1..Len(news) : IsEnd(news[u], s)
  BY <1>2, <1>6, <1>8
<1>10. r \in Queues /\ Spares(r[l], q[l], K) /\ (l[1] # n => r[l] = q[l])
  BY <1>4, SparesDeprecated, DeprecationsThin
<1>11. r[l] \in Seq(Cargoes) /\ q[l] \in Seq(Cargoes) /\ news \in Seq(Cargoes)
  BY <1>7, <1>10, CargoSeqs DEF Queues, Cargoes
<1>12. PICK D : /\ l[1] = n => D = KeptFrom(n, cs)
                /\ l[1] # n => D = {}
  <2>1. CASE l[1] = n
    BY <2>1
  <2>2. CASE l[1] # n
    BY <2>2
  <2> QED
    BY <2>1, <2>2, Zenon
<1>13. Spares(r[l], q[l], D)
  <2>1. CASE l[1] = n
    <3>1. D = K
      BY <1>3, <1>12, <2>1
    <3> QED
      BY <1>10, <3>1, Zenon
  <2>2. CASE l[1] # n
    <3>1. Spares(q[l], q[l], D)
      BY <1>11, SparesSelf, Zenon
    <3> QED
      BY <1>10, <2>2, <3>1, Zenon
  <2> QED
    BY <2>1, <2>2
<1>14. queue'[l] = IF l \in targets /\ Open(l) THEN r[l] \o news ELSE r[l]
  BY <1>4, <1>7, <1>10, SentIs
<1>15. CASE l \in targets /\ Open(l)
  <2>1. queue'[l] = r[l] \o news
    BY <1>14, <1>15, Zenon
  <2>2. Moves(l, q[l], D, news)
    BY <1>11, <1>13, <2>1, Zenon DEF Moves
  <2>3. \A u \in 1..Len(news) :
          news[u].cmd = "CLIENT_DISCONNECTED" /\ news[u].client \in cs
    BY <1>8 DEF IsEnd
  <2> QED
    BY <1>9, <1>11, <1>12, <1>15, <2>2, <2>3, Zenon DEF SendsNews
<1>16. CASE ~(l \in targets /\ Open(l))
  <2>1. PICK none \in Seq(Cargoes) : none = <<>> /\ Len(none) = 0
    BY CargoSeqs
  <2>2. queue'[l] = r[l] \o none
    BY <1>11, <1>14, <1>16, <2>1
  <2>3. Moves(l, q[l], D, none)
    BY <1>11, <1>13, <2>2, Zenon DEF Moves
  <2>4. \A u \in 1..Len(none) :
          none[u].cmd = "CLIENT_DISCONNECTED" /\ none[u].client \in cs
    BY <2>1
  <2> QED
    BY <1>12, <1>16, <2>1, <2>3, <2>4, Zenon DEF SendsNews
<1> QED
  BY <1>15, <1>16, Zenon

\* A burial at node n, as link l sees it.  If l leads to n, it leads away from
\* none of the clients in cs, or the first packet is the news of the end of the
\* only one; if l comes from n, it gets the news.
BuriesOver(l, n, q, cs, targets) ==
  /\ Bury(n, q, cs, targets)
  /\ \A h \in targets : h[1] = n
  /\ \/ q[l] = queue[l] /\ (l[2] = n => \A s \in cs : ~Away(l, s))
     \/ /\ l[2] = n /\ queue[l] # <<>> /\ q[l] = Tail(queue[l])
        /\ \E s \in cs : cs = {s} /\ IsEnd(queue[l][1], s)
  /\ l[1] = n => \A s \in cs : Away(l, s) => l \in targets

\* Lemma: the neighbours of a node that buries a client, which has come from x.
LEMMA BuriesBelow ==
  ASSUME NEW m \in Children, NEW l \in {Up(m), Down(m)},
         l = Down(m) => m \in secoPPSet[Parent[m]],
         NEW x \in Ends, NEW s \in Clients, x \in Chain[s]
  PROVE  /\ l[1] = Parent[x] /\ Away(l, s) => l \in DownTargets(Parent[x], x, DISCONNECTIONS)
         /\ l[2] = Parent[x] /\ Away(l, s) => l = Up(x) /\ x = m
<1>1. /\ m \in Ends /\ Parent[m] \in Nodes /\ m # Root /\ m \in Nodes
      /\ Up(m)[1] = m /\ Up(m)[2] = Parent[m]
      /\ Down(m)[1] = Parent[m] /\ Down(m)[2] = m
  BY ChildEnds, LinkEnds
<1>2. ASSUME l[1] = Parent[x], Away(l, s)
      PROVE  l \in DownTargets(Parent[x], x, DISCONNECTIONS)
  <2>1. CASE l = Up(m)
    <3>1. m = Parent[x]
      BY <1>1, <1>2, <2>1
    <3> QED
      BY <1>1, <2>1, <3>1, TargetsCover
  <2>2. CASE l = Down(m)
    <3>1. Parent[m] = Parent[x] /\ m \notin Chain[s]
      BY <1>1, <1>2, <2>2 DEF Away
    <3> QED
      BY <2>2, <3>1, TargetsCover
  <2> QED
    BY <2>1, <2>2
<1>3. ASSUME l[2] = Parent[x], Away(l, s)
      PROVE  l = Up(x) /\ x = m
  <2>1. CASE l = Up(m)
    <3>1. Parent[m] = Parent[x] /\ m \in Chain[s]
      BY <1>1, <1>3, <2>1 DEF Away
    <3>2. s \in Ends
      BY ClientEnds
    <3>3. m = x
      BY <3>1, <3>2, ChainInjective
    <3> QED
      BY <2>1, <3>3
  <2>2. CASE l = Down(m)
    <3>1. m = Parent[x] /\ m \notin Chain[s]
      BY <1>1, <1>3, <2>2 DEF Away
    <3>2. s \in Ends
      BY ClientEnds
    <3>3. m \in Chain[s]
      BY <1>1, <3>1, <3>2, ChainRises
    <3> QED
      BY <3>1, <3>3
  <2> QED
    BY <2>1, <2>2
<1> QED
  BY <1>2, <1>3

\* Lemma: every burial is of this kind, and it lets nobody start.
LEMMA BuriesNodes ==
  ASSUME TypeInv, Placed, Outward, Burial, NEW m \in Children,
         NEW l \in {Up(m), Down(m)}, BothUp(m)', l = Down(m) => m \in secoPPSet[Parent[m]]
  PROVE  /\ BothUp(m)
         /\ \E n \in Nodes, q \in Queues, cs \in SUBSET Clients : \E targets :
              BuriesOver(l, n, q, cs, targets)
<1>0. /\ m \in Ends /\ m \in Nodes /\ Parent[m] \in Nodes /\ m \notin Clients /\ m # Root
      /\ l \in Links /\ l[1] # l[2] /\ queue \in Queues
      /\ Up(m)[1] = m /\ Up(m)[2] = Parent[m]
      /\ Down(m)[1] = Parent[m] /\ Down(m)[2] = m
      /\ \A y \in Ends : l = Up(y) \/ l = Down(y) => y = m
  BY ChildEnds, NodeLinks, TypeInvIs, LinkEnds
<1>1. ASSUME NEW x \in Children, DownGone(x)
      PROVE  /\ status' = status
             /\ \E n \in Nodes, q \in Queues, cs \in SUBSET Clients : \E targets :
                  BuriesOver(l, n, q, cs, targets)
  <2>1. PICK p \in Notes, q \in Queues :
              LET cs == {p.client}
                  n == Parent[x]
                  targets == DownTargets(n, x, DISCONNECTIONS) IN
              /\ p = queue[Up(x)][1] /\ 1 \in 1..Len(queue[Up(x)])
              /\ p.cmd = "CLIENT_DISCONNECTED"
              /\ q = Taken(Up(x)) /\ Bury(n, q, cs, targets)
              /\ \E news \in Obituaries(cs) :
                   Flows(targets, news) /\ FlowsFrom(q, targets, news)
    BY <1>1, DownGoneTypes
  <2>2. PICK n, s, cs, targets :
          /\ n = Parent[x] /\ s = p.client /\ cs = {s}
          /\ targets = DownTargets(n, x, DISCONNECTIONS)
    OBVIOUS
  <2>3. x \in Ends /\ n \in Nodes /\ Up(x) \in Links /\ Up(x)[2] = n
    BY <2>2, ChildEnds, LinksDiffer, LinkEnds
  <2>4. s \in Clients /\ cs \in SUBSET Clients
    BY <2>2, PacketKinds
  <2>5. x \in Chain[s]
    BY <2>1, <2>2, <2>3, ReadUpAway DEF Bound
  <2>6. status' = status /\ queue[Up(x)] # <<>>
    BY <1>1 DEF DownGone, Reads
  <2>7. \A h \in targets : h[1] = n
    BY <2>2, <2>3, DownTargetsFrom
  <2>8. /\ l[1] = n /\ Away(l, s) => l \in targets
        /\ l[2] = n /\ Away(l, s) => l = Up(x)
    BY <2>2, <2>3, <2>4, <2>5, BuriesBelow
  <2>9. Bury(n, q, cs, targets) /\ q = Taken(Up(x)) /\ IsEnd(queue[Up(x)][1], s)
    BY <2>1, <2>2 DEF IsEnd
  <2>10. \/ q[l] = queue[l] /\ (l[2] = n => \A d \in cs : ~Away(l, d))
         \/ /\ l[2] = n /\ queue[l] # <<>> /\ q[l] = Tail(queue[l])
            /\ \E d \in cs : cs = {d} /\ IsEnd(queue[l][1], d)
    <3>1. CASE l = Up(x)
      <4>1. q[l] = Tail(queue[l])
        BY <1>0, <2>3, <2>6, <2>9, <3>1, TakenIs
      <4> QED
        BY <2>2, <2>3, <2>6, <2>9, <3>1, <4>1
    <3>2. CASE l # Up(x)
      <4>1. q[l] = queue[l]
        BY <1>0, <2>3, <2>9, <3>2, TakenElse
      <4> QED
        BY <2>2, <2>8, <3>2, <4>1
    <3> QED
      BY <3>1, <3>2
  <2>11. BuriesOver(l, n, q, cs, targets)
    BY <2>2, <2>7, <2>8, <2>9, <2>10 DEF BuriesOver
  <2> QED
    BY <2>3, <2>4, <2>6, <2>11
<1>2. ASSUME NEW n \in Children, UpGone(n)
      PROVE  /\ status' = status
             /\ \E x \in Nodes, q \in Queues, cs \in SUBSET Clients : \E targets :
                  BuriesOver(l, x, q, cs, targets)
  <2>1. PICK p \in Notes, q \in Queues :
              LET cs == {p.client}
                  targets == UpTargets(n, DISCONNECTIONS) IN
              /\ p = queue[Down(n)][1] /\ 1 \in 1..Len(queue[Down(n)])
              /\ p.cmd = "CLIENT_DISCONNECTED"
              /\ q = Taken(Down(n)) /\ Bury(n, q, cs, targets)
              /\ \E news \in Obituaries(cs) :
                   Flows(targets, news) /\ FlowsFrom(q, targets, news)
    BY <1>2, UpGoneTypes
  <2>2. PICK s, cs, targets :
          s = p.client /\ cs = {s} /\ targets = UpTargets(n, DISCONNECTIONS)
    OBVIOUS
  <2>3. n \in Ends /\ n \in Nodes /\ Down(n) \in Links /\ Down(n)[2] = n
    BY ChildEnds, LinksDiffer, LinkEnds
  <2>4. s \in Clients /\ cs \in SUBSET Clients
    BY <2>2, PacketKinds
  <2>5. n \notin Chain[s]
    BY <2>1, <2>2, ReadDownAway DEF Bound
  <2>6. status' = status /\ queue[Down(n)] # <<>>
    BY <1>2 DEF UpGone, Hears
  <2>7. \A h \in targets : h[1] = n
    BY <2>2, <2>3, UpTargetsFrom
  <2>8. Bury(n, q, cs, targets) /\ q = Taken(Down(n)) /\ IsEnd(queue[Down(n)][1], s)
    BY <2>1, <2>2 DEF IsEnd
  <2>9. /\ l[1] = n /\ Away(l, s) => l \in targets
        /\ l[2] = n /\ Away(l, s) => l = Down(n)
    <3>1. CASE l = Up(m)
      <4>1. Away(l, s) => m \in Chain[s]
        BY <1>0, <3>1 DEF Away
      <4>2. l[2] = n /\ Away(l, s) => n \in Chain[s]
        <5>1. s \in Ends /\ n # Root
          BY <2>4, ClientEnds, ChildEnds
        <5> QED
          BY <1>0, <3>1, <4>1, <5>1, ChainRises
      <4> QED
        BY <1>0, <2>5, <3>1, <4>1, <4>2
    <3>2. CASE l = Down(m)
      <4>1. l[1] = n => l \in targets
        BY <1>0, <2>2, <3>2 DEF UpTargets
      <4> QED
        BY <1>0, <3>2, <4>1
    <3> QED
      BY <3>1, <3>2
  <2>10. \/ q[l] = queue[l] /\ (l[2] = n => \A d \in cs : ~Away(l, d))
         \/ /\ l[2] = n /\ queue[l] # <<>> /\ q[l] = Tail(queue[l])
            /\ \E d \in cs : cs = {d} /\ IsEnd(queue[l][1], d)
    <3>1. CASE l = Down(n)
      <4>1. q[l] = Tail(queue[l])
        BY <1>0, <2>3, <2>6, <2>8, <3>1, TakenIs
      <4> QED
        BY <2>2, <2>3, <2>6, <2>8, <3>1, <4>1
    <3>2. CASE l # Down(n)
      <4>1. q[l] = queue[l]
        BY <1>0, <2>3, <2>8, <3>2, TakenElse
      <4> QED
        BY <2>2, <2>9, <3>2, <4>1
    <3> QED
      BY <3>1, <3>2
  <2>11. BuriesOver(l, n, q, cs, targets)
    BY <2>2, <2>7, <2>8, <2>9, <2>10 DEF BuriesOver
  <2> QED
    BY <2>3, <2>4, <2>6, <2>11
<1>3. ASSUME NEW x \in Ends, NEW q \in Queues, NEW cs \in SUBSET Clients,
             q = [queue EXCEPT ![Up(x)] = <<>>], \A s \in cs : x \in Chain[s],
             Bury(Parent[x], q, cs, DownTargets(Parent[x], x, DISCONNECTIONS)), x # m
      PROVE  \E n \in Nodes : \E targets : BuriesOver(l, n, q, cs, targets)
  <2>1. PICK n, targets :
          n = Parent[x] /\ targets = DownTargets(n, x, DISCONNECTIONS)
    OBVIOUS
  <2>2. n \in Nodes /\ Up(x) \in Links /\ l # Up(x)
    BY <1>0, <1>3, <2>1, LinksDiffer, TreeAssumption
  <2>3. \A h \in targets : h[1] = n
    BY <2>1, <2>2, DownTargetsFrom
  <2>4. \A s \in cs : /\ l[1] = n /\ Away(l, s) => l \in targets
                      /\ l[2] = n => ~Away(l, s)
    BY <1>3, <2>1, BuriesBelow
  <2>5. q[l] = queue[l]
    BY <1>0, <1>3, <2>2, EmptiedIs
  <2>6. BuriesOver(l, n, q, cs, targets)
    BY <1>3, <2>1, <2>3, <2>4, <2>5 DEF BuriesOver
  <2> QED
    BY <2>2, <2>6
<1>4. ASSUME NEW c \in Clients, ClientGone(c)
      PROVE  /\ status' = status
             /\ \E n \in Nodes, q \in Queues, cs \in SUBSET Clients : \E targets :
                  BuriesOver(l, n, q, cs, targets)
  <2>1. PICK q \in Queues :
          /\ q = [queue EXCEPT ![Up(c)] = <<>>]
          /\ Bury(Parent[c], q, {c}, DownTargets(Parent[c], c, DISCONNECTIONS))
    BY <1>4, ClientGoneTypes
  <2>2. PICK cs \in SUBSET Clients : cs = {c}
    OBVIOUS
  <2>3. c \in Ends /\ c \in Chain[c] /\ c # m
    BY ClientEnds, ChainRises, <1>0
  <2>4. \E n \in Nodes : \E targets : BuriesOver(l, n, q, cs, targets)
    BY <1>3, <2>1, <2>2, <2>3
  <2>5. status' = status
    BY <1>4 DEF ClientGone
  <2> QED
    BY <2>4, <2>5
<1>5. ASSUME NEW x \in Children, NodeGone(x)
      PROVE  /\ \A y \in Nodes : status'[y] = "up" => status[y] = "up"
             /\ \E n \in Nodes, q \in Queues, cs \in SUBSET Clients : \E targets :
                  BuriesOver(l, n, q, cs, targets)
  <2>1. PICK q \in Queues, cs \in SUBSET Clients :
          /\ cs = myClients[x]
          /\ q = [queue EXCEPT ![Up(x)] = <<>>]
          /\ Bury(Parent[x], q, cs, DownTargets(Parent[x], x, DISCONNECTIONS))
    BY <1>5, NodeGoneTypes
  <2>2. x \in Ends /\ x \in Nodes
    BY ChildEnds
  <2>3. \A y \in Nodes : status'[y] = IF y = x THEN "gone" ELSE status[y]
    BY <1>5, <2>2, TypeInvIs DEF NodeGone
  <2>4. x # m
    BY <1>0, <2>3 DEF BothUp
  <2>5. \A s \in cs : x \in Chain[s]
    BY <2>1 DEF Placed
  <2>6. \E n \in Nodes : \E targets : BuriesOver(l, n, q, cs, targets)
    BY <1>3, <2>1, <2>2, <2>4, <2>5
  <2> QED
    BY <2>3, <2>6
<1>6. \A y \in Nodes : status'[y] = "up" => status[y] = "up"
  BY <1>1, <1>2, <1>4, <1>5, Zenon DEF Burial
<1>7. \E n \in Nodes, q \in Queues, cs \in SUBSET Clients : \E targets :
        BuriesOver(l, n, q, cs, targets)
  BY <1>1, <1>2, <1>4, <1>5, Zenon DEF Burial
<1>8. BothUp(m)
  BY <1>0, <1>6 DEF BothUp
<1> QED
  BY <1>7, <1>8, Zenon

\* Lemma: two neighbours agree after one of them or another node has buried
\* somebody.
LEMMA AgreeBuries ==
  ASSUME TypeInv, NEW m \in Children, NEW l \in {Up(m), Down(m)}, BothUp(m),
         NEW n \in Nodes, NEW q \in Queues, NEW cs \in SUBSET Clients, NEW targets,
         BuriesOver(l, n, q, cs, targets),
         NEW s \in Clients, NEW g \in AllGroups, Away(l, s), Agree(l, s, g)
  PROVE  Agree(l, s, g)'
<1>1. /\ l \in Links /\ l[1] \in Nodes /\ l[2] \in Nodes /\ l[1] # l[2] /\ Open(l)
  BY NodeLinks DEF BothUp
<1>2. queue \in Queues /\ queue[l] \in Seq(Cargoes)
  BY <1>1, TypeInvIs DEF Queues, Cargoes
<1>3. /\ Bury(n, q, cs, targets)
      /\ \A h \in targets : h[1] = n
      /\ \/ q[l] = queue[l] /\ (l[2] = n => \A d \in cs : ~Away(l, d))
         \/ /\ l[2] = n /\ queue[l] # <<>> /\ q[l] = Tail(queue[l])
            /\ \E d \in cs : cs = {d} /\ IsEnd(queue[l][1], d)
      /\ l[1] = n => \A d \in cs : Away(l, d) => l \in targets
  BY DEF BuriesOver
<1>4. SendsNews(l, n, q, cs, targets)
  BY <1>1, <1>3, BurySends
<1>a. PICK D : \E t \in Seq(Cargoes) :
           /\ Moves(l, q[l], D, t)
           /\ l[1] = n => D = KeptFrom(n, cs)
           /\ l[1] # n => D = {}
           /\ \A u \in 1..Len(t) : t[u].cmd = "CLIENT_DISCONNECTED" /\ t[u].client \in cs
           /\ l \in targets /\ Open(l) =>
                \A c \in cs : \E u \in 1..Len(t) : IsEnd(t[u], c)
           /\ l \notin targets => Len(t) = 0
  BY <1>4, Zenon DEF SendsNews
<1>5. PICK t \in Seq(Cargoes) :
           /\ Moves(l, q[l], D, t)
           /\ l[1] = n => D = KeptFrom(n, cs)
           /\ l[1] # n => D = {}
           /\ \A u \in 1..Len(t) : t[u].cmd = "CLIENT_DISCONNECTED" /\ t[u].client \in cs
           /\ l \in targets /\ Open(l) =>
                \A c \in cs : \E u \in 1..Len(t) : IsEnd(t[u], c)
           /\ l \notin targets => Len(t) = 0
  BY <1>a, Zenon
<1>6. \A x \in Nodes : history'[x][g][s] =
         IF x = n /\ s \in cs THEN <<>> ELSE history[x][g][s]
  <2>1. Cleaned(n, cs)
    BY <1>3, CleanupClears DEF Bury
  <2> QED
    BY <2>1 DEF Cleaned
<1>7. \A x \in Nodes : \A e : e \in Kept(x, g, s)' <=>
         e \in Kept(x, g, s) /\ ~(x = n /\ s \in cs)
  <2> SUFFICES ASSUME NEW x \in Nodes, NEW e
               PROVE  e \in Kept(x, g, s)' <=>
                        e \in Kept(x, g, s) /\ ~(x = n /\ s \in cs)
    OBVIOUS
  <2>1. CASE x = n /\ s \in cs
    <3>1. history'[x][g][s] = <<>>
      BY <1>6, <2>1
    <3>2. PICK w : w = <<>>
      OBVIOUS
    <3>3. ToSet(w) = {}
      BY <3>2 DEF ToSet
    <3> QED
      BY <2>1, <3>1, <3>2, <3>3, Zenon DEF Kept
  <2>2. CASE ~(x = n /\ s \in cs)
    <3>1. history'[x][g][s] = history[x][g][s]
      BY <1>6, <2>2
    <3> QED
      BY <2>2, <3>1, Zenon DEF Kept
  <2> QED
    BY <2>1, <2>2
<1>8. s \notin cs => \A u \in 1..Len(t) : ~Matters(t[u], s, g)
  BY <1>5 DEF Matters, Resets, Stays
<1>9. s \notin cs => \A d \in D : ~Matters(d, s, g)
  <2> SUFFICES ASSUME s \notin cs, NEW d \in D, Matters(d, s, g) PROVE FALSE
    OBVIOUS
  <2>1. d \in KeptFrom(n, cs)
    BY <1>5
  <2>2. PICK h \in AllGroups, c \in cs : d \in Kept(n, h, c)
    BY <2>1 DEF KeptFrom
  <2>3. d.client = c
    BY <2>2, KeptOf
  <2> QED
    BY <2>3 DEF Matters, Resets, Stays
<1>10. CASE l[1] = n /\ s \in cs
  <2>1. l \in targets /\ q[l] = queue[l]
    BY <1>1, <1>3, <1>10
  <2>2. PICK u \in 1..Len(t) : IsEnd(t[u], s)
    BY <1>1, <1>5, <1>10, <2>1
  <2>3. Resets(t[u], s, g)
    BY <2>2 DEF IsEnd, Resets
  <2>4. \A v \in 1..Len(t) : ~Stays(t[v], s, g)
    BY <1>5 DEF Stays
  <2>5. \A p : p \notin Kept(l[1], g, s)'
    BY <1>1, <1>7, <1>10, Zenon
  <2>6. Moves(l, queue[l], D, t)
    BY <1>5, <2>1, Zenon
  <2> QED
    BY <2>3, <2>4, <2>5, <2>6, AgreeReset, Zenon
<1>11. CASE l[1] = n /\ s \notin cs
  <2>1. q[l] = queue[l]
    BY <1>1, <1>3, <1>11
  <2>2. /\ \A p : p \in Kept(l[1], g, s)' <=> p \in Kept(l[1], g, s)
        /\ \A p : p \in Kept(l[2], g, s)' <=> p \in Kept(l[2], g, s)
    BY <1>1, <1>7, <1>11, Zenon
  <2>3. Moves(l, queue[l], D, t)
    BY <1>5, <2>1, Zenon
  <2>4. \A d \in D : ~Matters(d, s, g)
    BY <1>9, <1>11, Zenon
  <2>5. \A u \in 1..Len(t) : ~Matters(t[u], s, g)
    BY <1>8, <1>11, Zenon
  <2> QED
    BY <1>2, <2>2, <2>3, <2>4, <2>5, AgreeQuiet, Zenon
<1>12. CASE l[1] # n
  <2>1. l \notin targets /\ D = {}
    BY <1>3, <1>5, <1>12
  <2>2. Len(t) = 0
    BY <1>5, <2>1
  <2>3. /\ \A d \in D : ~Matters(d, s, g)
        /\ \A u \in 1..Len(t) : ~Matters(t[u], s, g)
    BY <2>1, <2>2
  <2>4. \A p : p \in Kept(l[1], g, s)' <=> p \in Kept(l[1], g, s)
    BY <1>1, <1>7, <1>12, Zenon
  <2>5. Moves(l, q[l], D, t)
    BY <1>5, Zenon
  <2>6. CASE q[l] = queue[l] /\ (l[2] = n => \A d \in cs : ~Away(l, d))
    <3>1. ~(l[2] = n /\ s \in cs)
      BY <2>6
    <3>2. \A p : p \in Kept(l[2], g, s)' <=> p \in Kept(l[2], g, s)
      BY <1>1, <1>7, <3>1, Zenon
    <3> QED
      BY <1>2, <2>3, <2>4, <2>5, <2>6, <3>2, AgreeQuiet, Zenon
  <2>7. CASE /\ l[2] = n /\ queue[l] # <<>> /\ q[l] = Tail(queue[l])
             /\ \E d \in cs : cs = {d} /\ IsEnd(queue[l][1], d)
    <3>1. ~Stays(queue[l][1], s, g) /\ (Resets(queue[l][1], s, g) <=> s \in cs)
      BY <2>7 DEF IsEnd, Stays, Resets
    <3>2. \A p : p \in Kept(l[2], g, s)' <=>
                 \/ p \in Kept(l[2], g, s) /\ ~Resets(queue[l][1], s, g)
                 \/ p = queue[l][1] /\ Stays(queue[l][1], s, g)
      BY <1>1, <1>7, <2>7, <3>1, Zenon
    <3> QED
      BY <1>2, <2>3, <2>4, <2>5, <2>7, <3>2, AgreeQuiet, Zenon
  <2> QED
    BY <1>3, <2>6, <2>7, Zenon
<1> QED
  BY <1>10, <1>11, <1>12, Zenon

----------------------------------------------------------------------------
(* What neighbours have said to each other *)

\* The first message of a history alone may be one that cleans it, and those
\* that are for nobody later are not in it.
HistoryForm ==
  \A n \in Nodes, g \in AllGroups, s \in Clients : \A i \in 1..Len(history[n][g][s]) :
    /\ history[n][g][s][i].cmd # "NO_HISTORY_MSG"
    /\ history[n][g][s][i].cmd = "SYNC_MSG" => i = 1
\* A node starts when its parent has.
Grown == \A m \in Children : status[m] # "off" => status[Parent[m]] # "off"
\* A node that its parent does not count in has a hello on its way to it.
Says(l) == \E i \in 1..Len(queue[l]) : queue[l][i].cmd = "HELLO_SECO"
Greets ==
  \A m \in Children : BothUp(m) /\ m \notin secoPPSet[Parent[m]] => Says(Up(m))
\* Two neighbours that are up and have greeted each other agree.
Follows ==
  \A m \in Children : BothUp(m) /\ m \in secoPPSet[Parent[m]] =>
    \A l \in {Up(m), Down(m)}, s \in Clients, g \in AllGroups :
      Away(l, s) => Agree(l, s, g)
FollowInv == HistoryForm /\ Grown /\ Greets /\ Follows

\* Lemma: initially no child node is up and nothing is kept.
LEMMA FollowInvInit ==
  ASSUME Init
  PROVE  FollowInv
<1>1. \A m \in Children : status[m] = "off"
  BY ChildEnds DEF Init
<1>2. \A m \in Children : ~BothUp(m)
  BY <1>1 DEF BothUp
<1>3. \A n \in Nodes, g \in AllGroups, s \in Clients : Len(history[n][g][s]) = 0
  BY DEF Init
<1>4. HistoryForm
  BY <1>3 DEF HistoryForm
<1>5. Grown
  BY <1>1 DEF Grown
<1>6. Greets /\ Follows
  BY <1>2 DEF Greets, Follows
<1> QED
  BY <1>4, <1>5, <1>6 DEF FollowInv

\* Lemma: what becomes of a node in a step.
LEMMA StatusStep ==
  ASSUME GoneInv, [Next]_vars, NEW x \in Nodes
  PROVE  \/ status'[x] = status[x]
         \/ x \in Children /\ NodeStart(x)
         \/ status[x] # "off" /\ status'[x] \in {"down", "gone"}
<1>1. /\ TypeInv /\ Placed /\ Outward /\ Ending /\ Listed /\ Quit
      /\ status \in [Nodes -> {"off", "up", "down", "gone"}]
  BY TypeInvIs DEF GoneInv, EndInv
<1>2. CASE Plain
  BY <1>2 DEF Plain
<1>3. CASE Burial
  <2>1. PICK n \in Nodes, cs \in SUBSET Clients : Funeral(n, cs)
    BY <1>1, <1>3, BurialIs DEF Funerals
  <2> QED
    BY <2>1 DEF Funeral, Noticed
<1>4. CASE \E c \in Clients : Connect(c) \/ Disconnect(c)
  BY <1>4 DEF Connect, Disconnect
<1>5. CASE \E m \in Children : NodeStart(m)
  <2>1. PICK m \in Children : NodeStart(m)
    BY <1>5
  <2>2. status' = [status EXCEPT ![m] = "up"] /\ m \in Nodes
    BY <2>1, ChildEnds DEF NodeStart
  <2> QED
    BY <1>1, <2>1, <2>2
<1>6. CASE \E m \in Children : Ended(m) /\ status[m] = "up"
  <2>1. PICK m \in Children : Ended(m) /\ status[m] = "up"
    BY <1>6
  <2>2. status' = [status EXCEPT ![m] = "down"] /\ m \in Nodes
    BY <2>1, ChildEnds DEF Ended
  <2> QED
    BY <1>1, <2>1, <2>2
<1> QED
  BY <1>1, <1>2, <1>3, <1>4, <1>5, <1>6, PlainStep

\* Lemma: a child node that its parent counts in has been counted in before, or
\* is synchronised.
LEMMA GreetedStep ==
  ASSUME GoneInv, [Next]_vars, NEW m \in Children, m \in secoPPSet'[Parent[m]]
  PROVE  m \in secoPPSet[Parent[m]] \/ synchronizeNewSeCo(m)
<1>1. /\ TypeInv /\ Placed /\ HelloFirst /\ Outward /\ RestKept /\ LookupOK
      /\ secoPPSet \in [Nodes -> SUBSET Children]
      /\ Parent[m] \in Nodes
  BY TypeInvIs, ChildEnds DEF GoneInv, EndInv
<1>2. KindsOfSteps
  BY <1>1, StepsAreKinds
<1>3. CASE secoPPSet' = secoPPSet
  BY <1>3
<1>4. CASE Synchronizes
  <2>1. PICK k \in Children : synchronizeNewSeCo(k)
    BY <1>4 DEF Synchronizes
  <2>2. secoPPSet' = [secoPPSet EXCEPT ![Parent[k]] = @ \cup {k}]
    BY <2>1 DEF synchronizeNewSeCo
  <2> QED
    BY <1>1, <2>1, <2>2
<1>5. CASE Quietly \/ SendsHistory \/ Sends
  BY <1>3, <1>5 DEF Quietly, SendsHistory, Sends, same
<1>6. CASE Routes \/ Buries
  BY <1>3, <1>6 DEF Routes, Buries
<1>7. CASE Receives
  BY <1>3, <1>7 DEF Receives, ClientReceive, tables
<1>8. CASE Starts
  BY <1>3, <1>8 DEF Starts, NodeStart, tables
<1> QED
  BY <1>2, <1>4, <1>5, <1>6, <1>7, <1>8 DEF KindsOfSteps, OtherKinds

\* Lemma: two neighbours that are up have been so, or one starts.
LEMMA BothUpStep ==
  ASSUME GoneInv, Grown, [Next]_vars, NEW m \in Children, BothUp(m)'
  PROVE  BothUp(m) \/ NodeStart(m)
<1>1. m \in Nodes /\ Parent[m] \in Nodes /\ m \in Ends
  BY ChildEnds
<1>2. status'[m] = "up" /\ status'[Parent[m]] = "up"
  BY DEF BothUp
<1>3. status[m] = "up" \/ NodeStart(m)
  BY <1>1, <1>2, StatusStep
<1>4. status[Parent[m]] = "up" \/ (Parent[m] \in Children /\ NodeStart(Parent[m]))
  BY <1>1, <1>2, StatusStep
<1>5. ASSUME Parent[m] \in Children, NodeStart(Parent[m]), status[m] = "up"
      PROVE  FALSE
  <2>1. status[Parent[m]] = "off"
    BY <1>5 DEF NodeStart
  <2> QED
    BY <1>5, <2>1 DEF Grown
<1> QED
  BY <1>3, <1>4, <1>5 DEF BothUp

\* Lemma: no node starts before its parent.
LEMMA GrownStep ==
  ASSUME GoneInv, Grown, [Next]_vars
  PROVE  Grown'
<1> SUFFICES ASSUME NEW m \in Children, status'[m] # "off", status'[Parent[m]] = "off"
             PROVE  FALSE
  BY DEF Grown
<1>1. m \in Nodes /\ Parent[m] \in Nodes
  BY ChildEnds
<1>2. TypeInv
  BY DEF GoneInv, EndInv
<1>3. Onward
  BY <1>2, OnwardStep
<1>4. status[Parent[m]] = "off"
  BY <1>1, <1>3 DEF Onward
<1>5. status[m] = "off"
  BY <1>4 DEF Grown
<1>6. NodeStart(m)
  BY <1>1, <1>5, StatusStep
<1> QED
  BY <1>4, <1>6 DEF NodeStart

\* Lemma: every step keeps the form of the histories.
LEMMA HistoryFormStep ==
  ASSUME GoneInv, HistoryForm, [Next]_vars
  PROVE  HistoryForm'
<1>0. /\ TypeInv /\ Placed /\ HelloFirst /\ Outward /\ RestKept /\ LookupOK
      /\ Burial \/ Calm \/ Sending \/ Routing
  BY StepCases DEF GoneInv, EndInv
<1>1. ASSUME \A n \in Nodes, g \in AllGroups, s \in Clients :
               history'[n][g][s] = history[n][g][s] \/ Len(history'[n][g][s]) = 0
      PROVE  HistoryForm'
  <2> SUFFICES ASSUME NEW n \in Nodes, NEW g \in AllGroups, NEW s \in Clients,
                      NEW i \in 1..Len(history'[n][g][s])
               PROVE  /\ history'[n][g][s][i].cmd # "NO_HISTORY_MSG"
                      /\ history'[n][g][s][i].cmd = "SYNC_MSG" => i = 1
    BY Zenon DEF HistoryForm
  <2>1. history'[n][g][s] = history[n][g][s]
    BY <1>1
  <2> QED
    BY <2>1 DEF HistoryForm
<1>2. CASE UNCHANGED history
  BY <1>1, <1>2
<1>3. CASE Burial
  <2>1. Buries
    BY <1>0, <1>3, DownGoneKind, UpGoneKind, NodeGoneKind, ClientGoneKind DEF Burial
  <2>2. \A n \in Nodes, g \in AllGroups, s \in Clients :
          history'[n][g][s] = history[n][g][s] \/ history'[n][g][s] = <<>>
    BY <2>1 DEF Buries
  <2> QED
    BY <1>1, <2>2
<1>4. CASE Calm \/ Sending
  <2>1. CASE Quietly \/ SendsHistory
    BY <1>2, <2>1 DEF Quietly, SendsHistory, same
  <2>2. CASE Synchronizes
    BY <1>2, <2>2 DEF Synchronizes, synchronizeNewSeCo
  <2>3. CASE Receives
    BY <1>2, <2>3 DEF Receives, ClientReceive, tables
  <2>4. CASE Starts
    BY <1>2, <2>4 DEF Starts, NodeStart, tables
  <2>5. CASE Sending
    BY <1>2, <2>5 DEF Sending, Send, tables
  <2> QED
    BY <1>4, <2>1, <2>2, <2>3, <2>4, <2>5, Zenon DEF Calm
<1>5. CASE Routing
  <2>1. PICK n \in Nodes, k \in Links, p \in Msgs : \E targets :
          RoutesFrom(n, k, p, targets)
    BY <1>0, <1>5, RoutingIs
  <2>2. \A x \in Nodes, g \in AllGroups, s \in Clients : history'[x][g][s] =
          IF p.cmd # "NO_HISTORY_MSG" /\ x = n /\ g = p.group /\ s = p.client
          THEN IF p.cmd = "SYNC_MSG" THEN <<p>> ELSE Append(history[x][g][s], p)
          ELSE history[x][g][s]
    BY <1>0, <2>1, RoutesDo
  <2> SUFFICES ASSUME NEW x \in Nodes, NEW g \in AllGroups, NEW s \in Clients,
                      NEW i \in 1..Len(history'[x][g][s])
               PROVE  /\ history'[x][g][s][i].cmd # "NO_HISTORY_MSG"
                      /\ history'[x][g][s][i].cmd = "SYNC_MSG" => i = 1
    BY Zenon DEF HistoryForm
  <2>3. PICK h \in Seq(Msgs) : h = history[x][g][s]
    BY <1>0, TypeInvIs
  <2>4. \A j \in 1..Len(h) : /\ h[j].cmd # "NO_HISTORY_MSG"
                             /\ h[j].cmd = "SYNC_MSG" => j = 1
    BY <2>3 DEF HistoryForm
  <2>5. CASE history'[x][g][s] = h
    BY <2>4, <2>5
  <2>6. CASE p.cmd = "SYNC_MSG" /\ history'[x][g][s] = <<p>>
    BY <2>6
  <2>7. CASE p.cmd \notin {"SYNC_MSG", "NO_HISTORY_MSG"} /\ history'[x][g][s] = Append(h, p)
    <3>1. i \in 1..Len(Append(h, p))
      BY <2>7
    <3>2. \/ i \in 1..Len(h) /\ Append(h, p)[i] = h[i]
          \/ Append(h, p)[i] = p
      BY <3>1
    <3> QED
      BY <2>4, <2>7, <3>2
  <2> QED
    BY <2>2, <2>3, <2>5, <2>6, <2>7
<1> QED
  BY <1>0, <1>3, <1>4, <1>5, Zenon

\* Lemma: a hello is not skipped, and stays until it is read.
LEMMA SaysMoves ==
  ASSUME TypeInv, NEW l \in Links, Says(l), NEW q, NEW D, NEW t, Moves(l, q, D, t),
         \A d \in D : d.cmd # "HELLO_SECO",
         \/ q = queue[l]
         \/ queue[l] # <<>> /\ q = Tail(queue[l]) /\ queue[l][1].cmd # "HELLO_SECO"
  PROVE  Says(l)'
<1>1. PICK w \in Seq(Cargoes) : w = queue[l]
  BY TypeInvIs DEF Queues, Cargoes
<1>2. PICK i \in 1..Len(w) : w[i].cmd = "HELLO_SECO"
  BY <1>1 DEF Says
<1>3. \E j \in 1..Len(q) : q[j].cmd = "HELLO_SECO"
  <2>1. CASE q = w
    BY <1>2, <2>1
  <2>2. CASE w # <<>> /\ q = Tail(w) /\ w[1].cmd # "HELLO_SECO"
    <3>1. i - 1 \in 1..Len(q) /\ q[i - 1] = w[i]
      BY <1>1, <1>2, <2>2
    <3> QED
      BY <1>2, <3>1
  <2> QED
    BY <1>1, <2>1, <2>2
<1>4. PICK j \in 1..Len(q) : q[j].cmd = "HELLO_SECO"
  BY <1>3
<1>5. PICK r \in Seq(Cargoes) : Spares(r, q, D) /\ queue'[l] = r \o t
  BY DEF Moves
<1>6. t \in Seq(Cargoes)
  BY DEF Moves
<1>7. PICK k \in 1..Len(r) : r[k].cmd = "HELLO_SECO"
  <2>1. PICK at \in [1..Len(r) -> 1..Len(q)] :
          /\ \A a \in 1..Len(r) : r[a] = q[at[a]]
          /\ \A b \in 1..Len(q) : q[b] \in D \/ \E a \in 1..Len(r) : at[a] = b
    BY <1>5 DEF Spares
  <2>2. q[j] \notin D
    BY <1>4
  <2>3. PICK a \in 1..Len(r) : at[a] = j
    BY <1>4, <2>1, <2>2
  <2>4. r[a] = q[j]
    BY <2>1, <2>3
  <2> QED
    BY <1>4, <2>3, <2>4
<1>8. k \in 1..Len(r \o t) /\ (r \o t)[k] = r[k]
  BY <1>6, <1>7
<1> QED
  BY <1>5, <1>7, <1>8 DEF Says

\* Lemma: until its parent counts it in, a child node's hello is on its way.
LEMMA GreetsStep ==
  ASSUME GoneInv, Grown, Greets, [Next]_vars
  PROVE  Greets'
<1>0. /\ TypeInv /\ Placed /\ HelloFirst /\ Outward /\ RestKept /\ LookupOK
      /\ secoPPSet \in [Nodes -> SUBSET Children]
  BY TypeInvIs DEF GoneInv, EndInv
<1> SUFFICES ASSUME NEW m \in Children, BothUp(m)', m \notin secoPPSet'[Parent[m]]
             PROVE  Says(Up(m))'
  BY DEF Greets
<1>1. PICK l \in {Up(m), Down(m)} : l = Up(m)
  OBVIOUS
<1>2. /\ m \in Ends /\ m \in Nodes /\ Parent[m] \in Nodes
      /\ l \in Links /\ l[2] = Parent[m]
  BY <1>1, ChildEnds, NodeLinks, LinkEnds
<1>3. m \notin secoPPSet[Parent[m]]
  <2>1. KindsOfSteps
    BY <1>0, StepsAreKinds
  <2> QED
    BY <1>0, <1>2, <2>1, GreetedStays
<1>4. CASE NodeStart(m)
  <2>1. PICK hello \in Hellos : queue'[Up(m)] = <<hello>>
    BY <1>0, <1>4, NodeStartFlows
  <2>2. hello.cmd = "HELLO_SECO"
    BY PacketKinds
  <2> QED
    BY <2>1, <2>2 DEF Says
<1>5. CASE ~NodeStart(m)
  <2>1. BothUp(m)
    BY <1>5, BothUpStep
  <2>2. Says(l)
    BY <1>1, <1>3, <2>1 DEF Greets
  <2>3. ~synchronizeNewSeCo(m)
    <3>1. synchronizeNewSeCo(m) => secoPPSet' = [secoPPSet EXCEPT ![Parent[m]] = @ \cup {m}]
      BY DEF synchronizeNewSeCo
    <3> QED
      BY <1>0, <1>2, <3>1
  <2>4. CASE ~Burial /\ ~Routing
    <3>1. Passes(l)
      BY <1>0, <1>5, <2>3, <2>4, CalmLink
    <3>2. PICK q \in Seq(Cargoes), t \in Seq(Cargoes) :
        /\ \/ q = queue[l]
           \/ queue[l] # <<>> /\ Head(queue[l]).cmd \in Asks /\ q = Tail(queue[l])
        /\ \A u \in 1..Len(t) : t[u].cmd \in Asks
        /\ queue'[l] = q \o t
      BY <3>1 DEF Passes
    <3>3. PICK D : D = {}
      OBVIOUS
    <3>4. Moves(l, q, D, t)
      <4>1. Spares(q, q, D)
        BY SparesSelf, Zenon
      <4> QED
        BY <3>2, <4>1, Zenon DEF Moves
    <3>5. queue[l] # <<>> => Head(queue[l]) = queue[l][1]
      BY <1>0, <1>2, TypeInvIs, HeadIs
    <3>6. \A d \in D : d.cmd # "HELLO_SECO"
      BY <3>3
    <3>7. \/ q = queue[l]
          \/ queue[l] # <<>> /\ q = Tail(queue[l]) /\ queue[l][1].cmd # "HELLO_SECO"
      BY <3>2, <3>5 DEF Asks
    <3> QED
      BY <1>0, <1>1, <1>2, <2>2, <3>4, <3>6, <3>7, SaysMoves
  <2>5. CASE Routing
    <3>1. PICK n \in Nodes, k \in Links, p \in Msgs : \E targets :
            RoutesFrom(n, k, p, targets)
      BY <1>0, <2>5, RoutingIs
    <3>2. PICK targets : RoutesFrom(n, k, p, targets)
      BY <3>1
    <3>3. PICK t \in Seq(Cargoes) : t = <<p>>
      BY CargoSeqs
    <3>4. PICK q \in Queues :
            /\ \A h \in Links : q[h] = IF h = k THEN Tail(queue[k]) ELSE queue[h]
            /\ \E r \in Queues : \A h \in Links :
                 /\ Spares(r[h], q[h], Cleans(n, p))
                 /\ h[1] # n => r[h] = q[h]
                 /\ queue'[h] = IF h \in targets /\ Open(h) THEN r[h] \o t ELSE r[h]
      BY <1>0, <3>2, <3>3, RoutesDo
    <3>5. PICK r \in Queues : \A h \in Links :
                 /\ Spares(r[h], q[h], Cleans(n, p))
                 /\ queue'[h] = IF h \in targets /\ Open(h) THEN r[h] \o t ELSE r[h]
      BY <3>4
    <3>a. PICK D : D = Cleans(n, p)
      OBVIOUS
    <3>6. PICK w \in Seq(Cargoes), v \in Seq(Cargoes) :
            w = q[l] /\ v = r[l] /\ Spares(v, w, D)
      BY <1>2, <3>a, <3>5 DEF Queues, Cargoes
    <3>7. \A d \in D : d.cmd # "HELLO_SECO"
      BY <1>0, <3>a, LostAreMsgs DEF MsgCommands
    <3>8. \/ w = queue[l]
          \/ queue[l] # <<>> /\ w = Tail(queue[l]) /\ queue[l][1].cmd # "HELLO_SECO"
      <4>1. p.cmd # "HELLO_SECO" /\ queue[k] # <<>> /\ p = queue[k][1]
        BY <3>2, PacketKinds DEF RoutesFrom, MsgCommands
      <4> QED
        BY <1>2, <3>4, <3>6, <4>1
    <3>9. \E u : Moves(l, w, D, u)
      <4>1. PICK none \in Seq(Cargoes) : none = <<>>
        BY CargoSeqs
      <4>2. queue'[l] = v \o t \/ queue'[l] = v \o none
        <5>1. v \o none = v
          BY <4>1
        <5>2. queue'[l] = v \o t \/ queue'[l] = v
          BY <1>2, <3>5, <3>6
        <5> QED
          BY <5>1, <5>2
      <4> QED
        BY <3>3, <3>6, <4>1, <4>2, Zenon DEF Moves
    <3> QED
      BY <1>0, <1>1, <1>2, <2>2, <3>7, <3>8, <3>9, SaysMoves
  <2>6. CASE Burial
    <3>1. l # Down(m)
      BY <1>1, <1>2, LinksDiffer
    <3>2. \E n \in Nodes, q \in Queues, cs \in SUBSET Clients : \E targets :
            BuriesOver(l, n, q, cs, targets)
      BY <1>0, <2>6, <3>1, BuriesNodes
    <3>3. PICK n \in Nodes, q \in Queues, cs \in SUBSET Clients : \E targets :
            BuriesOver(l, n, q, cs, targets)
      BY <3>2
    <3>4. PICK targets : BuriesOver(l, n, q, cs, targets)
      BY <3>3
    <3>5. SendsNews(l, n, q, cs, targets)
      BY <1>0, <1>2, <3>4, BurySends DEF BuriesOver
    <3>6. PICK D : \E t \in Seq(Cargoes) :
            /\ Moves(l, q[l], D, t)
            /\ D = KeptFrom(n, cs) \/ D = {}
      BY <3>5 DEF SendsNews
    <3>7. PICK t \in Seq(Cargoes) : Moves(l, q[l], D, t)
      BY <3>6
    <3>8. PICK w : w = q[l]
      OBVIOUS
    <3>9. \A d \in D : d.cmd # "HELLO_SECO"
      BY <1>0, <3>6, LostAreMsgs DEF MsgCommands
    <3>10. \/ w = queue[l]
           \/ queue[l] # <<>> /\ w = Tail(queue[l]) /\ queue[l][1].cmd # "HELLO_SECO"
      BY <3>4, <3>8 DEF BuriesOver, IsEnd
    <3>11. Moves(l, w, D, t)
      BY <3>7, <3>8, Zenon
    <3> QED
      BY <1>0, <1>1, <1>2, <2>2, <3>9, <3>10, <3>11, SaysMoves
  <2> QED
    BY <2>4, <2>5, <2>6
<1> QED
  BY <1>4, <1>5

\* h is a history of client s in group g.
HistoryOf(h, s, g) ==
  /\ Ordered(h)
  /\ \A i \in 1..Len(h) : /\ h[i].client = s /\ h[i].group = g
                          /\ h[i].cmd # "NO_HISTORY_MSG"
                          /\ h[i].cmd = "SYNC_MSG" => i = 1

\* Of client s and group g, pkts has the messages of h, in order.
Gives(pkts, h, s, g) ==
  /\ Ordered(pkts)
  /\ \A i \in 1..Len(h) : \E u \in 1..Len(pkts) : pkts[u] = h[i]
  /\ \A u \in 1..Len(pkts) : pkts[u].client = s /\ pkts[u].group = g =>
       \E i \in 1..Len(h) : h[i] = pkts[u]

\* Lemma: a node that has heard nothing of a client will keep what its parent
\* keeps when it has read what that has sent.
LEMMA HistoriesHold ==
  ASSUME NEW s, NEW g, NEW h \in Seq(Msgs), HistoryOf(h, s, g),
         NEW q \in Seq(Cargoes), \A i \in 1..Len(q) : q[i].cmd \notin MsgCommands,
         NEW pkts \in Seq(Msgs), Gives(pkts, h, s, g), NEW K, K = {}, NEW p
  PROVE  (\E i \in 1..Len(h) : h[i] = p) <=> Holding(q \o pkts, K, p, s, g)
<1>0. /\ Ordered(h)
      /\ \A i \in 1..Len(h) : /\ h[i].client = s /\ h[i].group = g
                              /\ h[i].cmd # "NO_HISTORY_MSG"
                              /\ h[i].cmd = "SYNC_MSG" => i = 1
      /\ Ordered(pkts)
      /\ \A i \in 1..Len(h) : \E u \in 1..Len(pkts) : pkts[u] = h[i]
      /\ \A u \in 1..Len(pkts) : pkts[u].client = s /\ pkts[u].group = g =>
           \E i \in 1..Len(h) : h[i] = pkts[u]
  BY DEF HistoryOf, Gives
<1> DEFINE w == q \o pkts
           n == Len(q)
<1>1. pkts \in Seq(Cargoes)
  BY CargoSeqs
<1>2. /\ Len(w) = n + Len(pkts) /\ n \in Nat /\ Len(pkts) \in Nat
      /\ \A i \in 1..n : w[i] = q[i]
      /\ \A u \in 1..Len(pkts) : w[n + u] = pkts[u]
  BY <1>1
<1> HIDE DEF w, n
<1>3. \A j \in 1..Len(w) : \/ j \in 1..n /\ w[j] = q[j]
                           \/ j - n \in 1..Len(pkts) /\ w[j] = pkts[j - n]
  <2> TAKE j \in 1..Len(w)
  <2>1. CASE j <= n
    BY <1>2, <2>1
  <2>2. CASE j > n
    <3>1. j - n \in 1..Len(pkts) /\ j = n + (j - n)
      BY <1>2, <2>2
    <3> QED
      BY <1>2, <3>1
  <2> QED
    BY <1>2, <2>1, <2>2
<1>4. \A u \in 1..Len(pkts) : pkts[u] \in Msgs /\ pkts[u].cmd \in MsgCommands
                              /\ pkts[u].cmd # "CLIENT_DISCONNECTED" /\ pkts[u].n \in Nat
  BY PacketKinds DEF MsgCommands
<1>5. \A i \in 1..Len(h) : h[i].cmd \in MsgCommands /\ h[i].n \in Nat
  BY PacketKinds
<1>6. ASSUME NEW i \in 1..Len(h), h[i] = p
      PROVE  Holding(w, K, p, s, g)
  <2>1. PICK u \in 1..Len(pkts) : pkts[u] = p
    BY <1>0, <1>6
  <2>2. Stays(p, s, g)
    BY <1>0, <1>5, <1>6 DEF Stays, MsgCommands
  <2>3. ASSUME NEW j \in (n + u + 1)..Len(w), Resets(w[j], s, g)
        PROVE  FALSE
    <3>1. j \in 1..Len(w) /\ j > n + u
      BY <1>2
    <3>2. PICK v \in 1..Len(pkts) : v = j - n /\ w[j] = pkts[v] /\ u < v
      BY <1>2, <1>3, <3>1
    <3>3. pkts[v].cmd = "SYNC_MSG" /\ pkts[v].client = s /\ pkts[v].group = g
      BY <1>4, <2>3, <3>2 DEF Resets
    <3>4. PICK k \in 1..Len(h) : h[k] = pkts[v]
      BY <1>0, <3>3
    <3>5. k = 1
      BY <1>0, <3>3, <3>4
    <3>6. /\ p.cmd \in MsgCommands /\ p.client = s /\ p.group = g /\ p.n \in Nat
      BY <1>0, <1>5, <1>6
    <3>7. p.n < pkts[v].n
      BY <1>0, <1>4, <2>1, <3>2, <3>3, <3>6 DEF Ordered, SentBefore
    <3>8. CASE i = 1
      BY <1>6, <3>4, <3>5, <3>6, <3>7, <3>8
    <3>9. CASE i > 1
      <4>1. h[1].n < h[i].n
        <5>1. /\ 1 \in 1..Len(h) /\ h[1].client = h[i].client /\ h[1].group = h[i].group
              /\ h[1].cmd \in MsgCommands /\ h[i].cmd \in MsgCommands
          BY <1>0, <1>5, <3>5
        <5>2. SentBefore(h[1], h[i])
          BY <1>0, <3>9, <5>1, Zenon DEF Ordered
        <5> QED
          BY <5>1, <5>2 DEF SentBefore
      <4> QED
        BY <1>4, <1>6, <3>4, <3>5, <3>6, <3>7, <4>1
    <3> QED
      BY <3>8, <3>9
  <2>4. n + u \in 1..Len(w) /\ w[n + u] = p
    BY <1>2, <2>1
  <2> QED
    BY <2>2, <2>3, <2>4 DEF Holding
<1>7. ASSUME Holding(w, K, p, s, g)
      PROVE  \E i \in 1..Len(h) : h[i] = p
  <2>1. PICK j \in 1..Len(w) : w[j] = p /\ Stays(p, s, g)
    BY <1>7 DEF Holding
  <2>2. p.cmd \in MsgCommands /\ p.client = s /\ p.group = g
    BY <2>1 DEF Stays, MsgCommands
  <2>3. \E u \in 1..Len(pkts) : pkts[u] = p
    <3>1. CASE j \in 1..n /\ w[j] = q[j]
      <4>1. j \in 1..Len(q)
        BY <3>1 DEF n
      <4> QED
        BY <2>1, <2>2, <3>1, <4>1
    <3>2. CASE j - n \in 1..Len(pkts) /\ w[j] = pkts[j - n]
      BY <2>1, <3>2
    <3> QED
      BY <1>3, <3>1, <3>2
  <2>4. PICK u \in 1..Len(pkts) : pkts[u] = p
    BY <2>3
  <2>5. pkts[u].client = s /\ pkts[u].group = g
    BY <2>2, <2>4
  <2>6. PICK i \in 1..Len(h) : h[i] = pkts[u]
    BY <1>0, <2>5
  <2> QED
    BY <2>4, <2>6
<1>8. (\E i \in 1..Len(h) : h[i] = p) <=> Holding(w, K, p, s, g)
  BY <1>6, <1>7
<1> QED
  BY <1>8 DEF w

\* Lemma: two neighbours agree once the parent has sent its histories.
LEMMA AgreeSynchronizes ==
  ASSUME TypeInv, TypeInv', Placed, HelloFirst, Outward, Outward', Fresh, KeptInOrder,
         Unsent, HistoryForm, NEW m \in Children, BothUp(m), synchronizeNewSeCo(m),
         NEW l \in {Up(m), Down(m)}, NEW s \in Clients, NEW g \in AllGroups, Away(l, s)
  PROVE  Agree(l, s, g)'
<1>1. /\ m \in Ends /\ m \in Nodes /\ Parent[m] \in Nodes /\ m # s
      /\ l \in Links /\ Up(m) \in Links /\ Up(m) # Down(m)
      /\ Up(m)[1] = m /\ Up(m)[2] = Parent[m]
      /\ Down(m)[1] = Parent[m] /\ Down(m)[2] = m
  BY ChildEnds, NodeLinks, LinksDiffer, LinkEnds
<1>2. PICK pkts \in Seq(Cargoes) :
        /\ m \notin secoPPSet[Parent[m]]
        /\ UNCHANGED <<conn, history>>
        /\ Ordered(pkts)
        /\ queue' = Sent(Taken(Up(m)), {Down(m)}, pkts)
        /\ pkts \in Seq(Msgs)
        /\ \A d \in AllGroups, c \in Clients : \A p \in Kept(Parent[m], d, c) :
             \E u \in 1..Len(pkts) : pkts[u] = p
        /\ \A u \in 1..Len(pkts) :
             \E d \in AllGroups, c \in Clients : pkts[u] \in Kept(Parent[m], d, c)
  BY SynchronizeIs
<1>3. \A n, d, c : Kept(n, d, c)' = Kept(n, d, c)
  BY <1>2, Zenon DEF Kept
<1>4. CASE l = Up(m)
  <2>1. m \in Chain[s]
    BY <1>1, <1>4 DEF Away
  <2>2. conn[s] = "off"
    BY <1>1, <1>2, <2>1 DEF Placed
  <2>3. \A n \in Nodes : history[n][g][s] = <<>>
    BY <2>2 DEF Outward
  <2>4. \A n \in Nodes : \A p : p \notin Kept(n, g, s)
    BY <2>3 DEF Kept, ToSet
  <2>5. \A i \in 1..Len(queue'[l]) : ~Matters(queue'[l][i], s, g)
    <3>1. ASSUME NEW i \in 1..Len(queue'[l]), Matters(queue'[l][i], s, g)
          PROVE  FALSE
      <4>1. Bound(queue'[l][i]) /\ queue'[l][i].client = s
        BY <3>1 DEF Bound, Matters, Resets, Stays, MsgCommands
      <4>2. conn'[s] # "off"
        BY <1>1, <4>1 DEF Outward
      <4> QED
        BY <1>2, <2>2, <4>2
    <3> QED
      BY <3>1
  <2>6. \A p : ~Holding(queue'[l], Kept(l[2], g, s), p, s, g)
    BY <1>1, <1>4, <2>4, <2>5, HoldingNow
  <2> QED
    BY <1>1, <1>3, <1>4, <2>4, <2>6, Zenon DEF Agree, Holding
<1>5. CASE l = Down(m)
  <2>1. PICK q \in Seq(Cargoes) : q = queue[Down(m)]
    BY <1>1, <1>5, TypeInvIs DEF Queues, Cargoes
  <2>2. queue'[l] = q \o pkts
    <3>1. queue[Up(m)] # <<>>
      BY DEF synchronizeNewSeCo, Reads
    <3>2. Taken(Up(m)) \in Queues /\ Taken(Up(m))[Down(m)] = q
      BY <1>1, <1>5, <2>1, <3>1, TypeInvIs, TakenIs
    <3>3. Open(l)
      BY <1>1, <1>5, NodeLinks DEF BothUp
    <3>4. pkts \in Seq(Packets)
      BY <1>2, MsgsArePackets
    <3>5. queue'[l] = IF l \in {Down(m)} /\ Open(l) THEN Taken(Up(m))[l] \o pkts
                      ELSE Taken(Up(m))[l]
      BY <1>1, <1>2, <3>2, <3>4, SentIs
    <3> QED
      BY <1>5, <3>2, <3>3, <3>5
  <2>3. \A i \in 1..Len(q) : q[i].cmd \notin MsgCommands
    BY <1>2, <2>1 DEF Unsent
  <2>4. PICK K : K = Kept(m, g, s)
    OBVIOUS
  <2>5. K = {}
    <3>1. history[m][g][s] = <<>>
      BY <1>2 DEF Fresh, HasHistory
    <3> QED
      BY <2>4, <3>1 DEF Kept, ToSet
  <2>6. PICK h \in Seq(Msgs) : h = history[Parent[m]][g][s]
    BY <1>1, TypeInvIs
  <2>7. \A p : p \in Kept(Parent[m], g, s) <=> \E i \in 1..Len(h) : h[i] = p
    BY <2>6 DEF Kept, ToSet
  <2>8. Ordered(h)
    BY <1>1, <2>6 DEF KeptInOrder, HistoryOrdered
  <2>9. \A i \in 1..Len(h) : /\ h[i].client = s /\ h[i].group = g
                             /\ h[i].cmd # "NO_HISTORY_MSG"
                             /\ h[i].cmd = "SYNC_MSG" => i = 1
    <3>1. \A p \in Kept(Parent[m], g, s) : p.client = s /\ p.group = g
      BY <1>1, KeptIs
    <3> QED
      <4>1. \A i \in 1..Len(h) : h[i].client = s /\ h[i].group = g
        BY <2>7, <3>1
      <4>2. \A i \in 1..Len(h) : /\ h[i].cmd # "NO_HISTORY_MSG"
                                 /\ h[i].cmd = "SYNC_MSG" => i = 1
        BY <1>1, <2>6 DEF HistoryForm
      <4> QED
        BY <4>1, <4>2
  <2>10. \A i \in 1..Len(h) : \E u \in 1..Len(pkts) : pkts[u] = h[i]
    BY <1>2, <2>7
  <2>11. \A u \in 1..Len(pkts) : pkts[u].client = s /\ pkts[u].group = g =>
           \E i \in 1..Len(h) : h[i] = pkts[u]
    <3>1. ASSUME NEW u \in 1..Len(pkts), pkts[u].client = s, pkts[u].group = g
          PROVE  pkts[u] \in Kept(Parent[m], g, s)
      <4>1. PICK d \in AllGroups, c \in Clients : pkts[u] \in Kept(Parent[m], d, c)
        BY <1>2
      <4>2. d = g /\ c = s
        BY <1>1, <3>1, <4>1, KeptIs
      <4> QED
        BY <4>1, <4>2
    <3> QED
      BY <2>7, <3>1
  <2>12. \A p : (\E i \in 1..Len(h) : h[i] = p) <=> Holding(q \o pkts, K, p, s, g)
    <3>1. HistoryOf(h, s, g)
      BY <2>8, <2>9 DEF HistoryOf
    <3>2. Gives(pkts, h, s, g)
      BY <1>2, <2>10, <2>11 DEF Gives
    <3>3. q \in Seq(Cargoes) /\ h \in Seq(Msgs) /\ pkts \in Seq(Msgs)
      BY <1>2, <2>1, <2>6
    <3> QED
      BY <2>3, <2>5, <3>1, <3>2, <3>3, HistoriesHold
  <2>13. \A p : p \in Kept(Parent[m], g, s)' <=>
                  Holding(queue'[l], Kept(m, g, s)', p, s, g)
    BY <1>3, <2>2, <2>4, <2>7, <2>12, Zenon
  <2> QED
    BY <1>1, <1>5, <2>13, Zenon DEF Agree, Holding
<1> QED
  BY <1>4, <1>5

\* Lemma: neighbours that have greeted each other go on to agree.
LEMMA FollowsStep ==
  ASSUME GoneInv, GoneInv', OrderInv, FollowInv, [Next]_vars
  PROVE  Follows'
<1>0. /\ TypeInv /\ Placed /\ HelloFirst /\ Outward /\ RestKept /\ LookupOK
      /\ TypeInv' /\ Outward' /\ Fresh /\ KeptInOrder /\ Unsent
      /\ HistoryForm /\ Grown /\ Follows
  BY DEF GoneInv, EndInv, OrderInv, FollowInv
<1> SUFFICES ASSUME NEW m \in Children, BothUp(m)', m \in secoPPSet'[Parent[m]],
                    NEW l \in {Up(m), Down(m)}, NEW s \in Clients, NEW g \in AllGroups,
                    Away(l, s)
             PROVE  Agree(l, s, g)'
  BY Zenon DEF Follows, Away
<1>1. ASSUME NodeStart(m)
      PROVE  FALSE
  <2>1. secoPPSet' = secoPPSet /\ status[m] = "off"
    BY <1>1 DEF NodeStart, tables
  <2> QED
    BY <1>0, <2>1 DEF HelloFirst
<1>2. BothUp(m)
  BY <1>0, <1>1, BothUpStep
<1>3. CASE synchronizeNewSeCo(m)
  BY <1>0, <1>2, <1>3, AgreeSynchronizes
<1>4. CASE ~synchronizeNewSeCo(m)
  <2>1. m \in secoPPSet[Parent[m]]
    BY <1>4, GreetedStep
  <2>2. Agree(l, s, g)
    BY <1>0, <1>2, <2>1 DEF Follows
  <2>3. CASE Routing
    <3>1. PICK n \in Nodes, k \in Links, p \in Msgs : \E targets :
            RoutesFrom(n, k, p, targets)
      BY <1>0, <2>3, RoutingIs
    <3>2. PICK targets : RoutesFrom(n, k, p, targets)
      BY <3>1
    <3> QED
      BY <1>0, <1>2, <2>1, <2>2, <3>2, AgreeRoutes
  <2>4. CASE Burial
    <3>1. \E n \in Nodes, q \in Queues, cs \in SUBSET Clients : \E targets :
            BuriesOver(l, n, q, cs, targets)
      BY <1>0, <2>1, <2>4, BuriesNodes
    <3>2. PICK n \in Nodes, q \in Queues, cs \in SUBSET Clients : \E targets :
            BuriesOver(l, n, q, cs, targets)
      BY <3>1
    <3>3. PICK targets : BuriesOver(l, n, q, cs, targets)
      BY <3>2
    <3> QED
      BY <1>0, <1>2, <2>2, <3>3, AgreeBuries
  <2>5. CASE ~Burial /\ ~Routing
    <3>1. UNCHANGED history /\ Passes(l)
      BY <1>0, <1>1, <1>4, <2>5, CalmLink
    <3> QED
      BY <1>0, <2>2, <3>1, AgreePasses
  <2> QED
    BY <2>3, <2>4, <2>5
<1> QED
  BY <1>3, <1>4

\* Lemma: every step keeps what the links and the neighbours say.
LEMMA FollowInvStep ==
  ASSUME LinesInv, LinesInv', FollowInv, [Next]_vars
  PROVE  FollowInv'
<1>1. /\ GoneInv /\ OrderInv /\ GoneInv'
      /\ HistoryForm /\ Grown /\ Greets
  BY DEF LinesInv, FollowInv
<1>2. HistoryForm' /\ Grown' /\ Greets' /\ Follows'
  BY <1>1, HistoryFormStep, GrownStep, GreetsStep, FollowsStep
<1> QED
  BY <1>2 DEF FollowInv

----------------------------------------------------------------------------
(* Neighbours agree *)

\* All elements of h are in k.
Among(h, k) == \A i \in 1..Len(h) : \E j \in 1..Len(k) : k[j] = h[i]

\* Lemma: of two histories of the same messages that are alike up to place a,
\* the second has no later message at the next place.
LEMMA NextNoLater ==
  ASSUME NEW s, NEW g, NEW h \in Seq(Msgs), NEW k \in Seq(Msgs),
         HistoryOf(h, s, g), HistoryOf(k, s, g), Among(h, k),
         NEW a \in Nat, a + 1 \in 1..Len(h), \A i \in 1..a : h[i] = k[i]
  PROVE  /\ a + 1 \in 1..Len(k)
         /\ k[a + 1] = h[a + 1] \/ k[a + 1].n < h[a + 1].n
<1>1. Len(h) \in Nat /\ Len(k) \in Nat
  OBVIOUS
<1>2. /\ \A i \in 1..Len(h) : /\ h[i].n \in Nat /\ h[i].cmd \in MsgCommands
                              /\ h[i].client = s /\ h[i].group = g
      /\ \A i \in 1..Len(k) : /\ k[i].n \in Nat /\ k[i].cmd \in MsgCommands
                              /\ k[i].client = s /\ k[i].group = g
  <2>1. /\ \A i \in 1..Len(h) : h[i] \in Msgs
        /\ \A i \in 1..Len(k) : k[i] \in Msgs
    OBVIOUS
  <2>2. /\ \A i \in 1..Len(h) : h[i].n \in Nat /\ h[i].cmd \in MsgCommands
        /\ \A i \in 1..Len(k) : k[i].n \in Nat /\ k[i].cmd \in MsgCommands
    BY <2>1, PacketKinds
  <2>3. /\ \A i \in 1..Len(h) : h[i].client = s /\ h[i].group = g
        /\ \A i \in 1..Len(k) : k[i].client = s /\ k[i].group = g
    BY DEF HistoryOf
  <2> QED
    BY <2>2, <2>3
<1>3. /\ \A i, j \in 1..Len(h) : i < j => h[i].n < h[j].n
      /\ \A i, j \in 1..Len(k) : i < j => k[i].n < k[j].n
  <2>1. /\ \A i, j \in 1..Len(h) : i < j => SentBefore(h[i], h[j])
        /\ \A i, j \in 1..Len(k) : i < j => SentBefore(k[i], k[j])
    BY Zenon DEF HistoryOf, Ordered
  <2>2. ASSUME NEW i \in 1..Len(h), NEW j \in 1..Len(h), i < j
        PROVE  h[i].n < h[j].n
    <3>1. SentBefore(h[i], h[j])
      BY <2>1, <2>2
    <3> QED
      BY <1>2, <3>1 DEF SentBefore
  <2>3. ASSUME NEW i \in 1..Len(k), NEW j \in 1..Len(k), i < j
        PROVE  k[i].n < k[j].n
    <3>1. SentBefore(k[i], k[j])
      BY <2>1, <2>3
    <3> QED
      BY <1>2, <3>1 DEF SentBefore
  <2> QED
    BY <2>2, <2>3
<1>4. PICK j \in 1..Len(k) : k[j] = h[a + 1]
  BY DEF Among
<1>5. ~(j \in 1..a)
  <2>1. ASSUME j \in 1..a
        PROVE  FALSE
    <3>1. h[j] = h[a + 1] /\ j \in 1..Len(h) /\ j < a + 1
      BY <1>1, <1>4, <2>1
    <3>2. h[j].n < h[a + 1].n
      BY <1>3, <3>1
    <3> QED
      BY <1>2, <3>1, <3>2
  <2> QED
    BY <2>1
<1>6. a + 1 <= j
  BY <1>1, <1>5
<1>7. a + 1 \in 1..Len(k)
  BY <1>1, <1>6
<1>8. CASE j = a + 1
  BY <1>4, <1>7, <1>8
<1>9. CASE a + 1 < j
  BY <1>3, <1>4, <1>7, <1>9
<1> QED
  BY <1>6, <1>7, <1>8, <1>9

\* Lemma: so they are the same.
LEMMA HistoriesSame ==
  ASSUME NEW s, NEW g, NEW h \in Seq(Msgs), NEW k \in Seq(Msgs),
         HistoryOf(h, s, g), HistoryOf(k, s, g), Among(h, k), Among(k, h)
  PROVE  h = k
<1> DEFINE Unlike == {a \in 1..Len(h) : ~(a \in 1..Len(k) /\ h[a] = k[a])}
<1>1. /\ Len(h) \in Nat /\ Len(k) \in Nat
      /\ \A i \in 1..Len(h) : h[i].n \in Nat
      /\ \A i \in 1..Len(k) : k[i].n \in Nat
  BY PacketKinds
<1>2. Unlike = {}
  <2> SUFFICES ASSUME Unlike # {}
               PROVE  FALSE
    OBVIOUS
  <2>1. PICK b \in Unlike : \A c \in Unlike : b <= c
    <3>1. Unlike \in SUBSET Nat
      BY <1>1
    <3> HIDE DEF Unlike
    <3> QED
      BY <3>1, Least
  <2>2. PICK a \in Nat : a + 1 = b
    BY <1>1
  <2>3. a + 1 \in 1..Len(h) /\ ~(a + 1 \in 1..Len(k) /\ h[a + 1] = k[a + 1])
    BY <2>1, <2>2
  <2>4. \A i \in 1..a : h[i] = k[i] /\ k[i] = h[i]
    <3> SUFFICES ASSUME NEW i \in 1..a, h[i] # k[i]
                 PROVE  FALSE
      OBVIOUS
    <3>1. i \in Unlike
      BY <1>1, <2>3
    <3>2. b <= i
      BY <2>1, <3>1
    <3> QED
      BY <2>2, <3>2
  <2>5. /\ a + 1 \in 1..Len(k)
        /\ k[a + 1] = h[a + 1] \/ k[a + 1].n < h[a + 1].n
    BY <2>3, <2>4, NextNoLater
  <2>6. h[a + 1] = k[a + 1] \/ h[a + 1].n < k[a + 1].n
    BY <2>4, <2>5, NextNoLater
  <2>7. ~(h[a + 1].n < k[a + 1].n /\ k[a + 1].n < h[a + 1].n)
    <3>1. PICK x \in Nat : x = h[a + 1].n
      BY <1>1, <2>3
    <3>2. PICK y \in Nat : y = k[a + 1].n
      BY <1>1, <2>5
    <3>3. ~(x < y /\ y < x)
      OBVIOUS
    <3> QED
      BY <3>1, <3>2, <3>3, Zenon
  <2> QED
    BY <2>3, <2>5, <2>6, <2>7, Zenon
<1>3. \A a \in 1..Len(h) : a \in 1..Len(k) /\ h[a] = k[a]
  BY <1>2
<1>4. Len(k) <= Len(h)
  <2> SUFFICES ASSUME Len(h) < Len(k)
               PROVE  FALSE
    BY <1>1
  <2>1. PICK a \in Nat : a = Len(h)
    BY <1>1
  <2>2. a + 1 \in 1..Len(k) /\ a \in Nat
    BY <1>1, <2>1
  <2>3. \A i \in 1..a : k[i] = h[i]
    BY <1>3, <2>1
  <2>4. a + 1 \in 1..Len(h)
    BY <2>2, <2>3, NextNoLater
  <2> QED
    BY <1>1, <2>1, <2>4
<1>5. Len(h) = Len(k)
  <2>1. CASE Len(h) = 0
    BY <1>1, <1>4, <2>1
  <2>2. CASE Len(h) # 0
    <3>1. Len(h) \in 1..Len(k)
      BY <1>1, <1>3, <2>2
    <3> QED
      BY <1>1, <1>4, <3>1
  <2> QED
    BY <2>1, <2>2
<1>6. /\ h = [i \in 1..Len(h) |-> h[i]]
      /\ k = [i \in 1..Len(h) |-> k[i]]
  BY <1>5
<1>7. [i \in 1..Len(h) |-> h[i]] = [i \in 1..Len(h) |-> k[i]]
  BY <1>3, Zenon
<1> QED
  BY <1>6, <1>7, Zenon

\* Lemma: neighbours agree when nothing is under way that changes a history.
LEMMA FollowInvShows ==
  ASSUME LinesInv, FollowInv
  PROVE  NeighboursAgree
<1>0. /\ TypeInv /\ Outward /\ KeptInOrder /\ HistoryForm /\ Greets /\ Follows
      /\ history \in [Nodes -> [AllGroups -> [Clients -> Seq(Msgs)]]]
  BY TypeInvIs DEF LinesInv, GoneInv, EndInv, OrderInv, FollowInv
<1> SUFFICES ASSUME NEW m \in Children, BothUp(m), Quiet(Up(m)), Quiet(Down(m))
             PROVE  history[m] = history[Parent[m]]
  BY DEF NeighboursAgree, BothUp
<1>1. /\ m \in Ends /\ m \in Nodes /\ Parent[m] \in Nodes
      /\ Up(m)[1] = m /\ Up(m)[2] = Parent[m]
      /\ Down(m)[1] = Parent[m] /\ Down(m)[2] = m
  BY ChildEnds, LinkEnds
<1>2. m \in secoPPSet[Parent[m]]
  BY <1>0 DEF Greets, Says, Quiet
<1>3. ASSUME NEW s \in Clients, NEW g \in AllGroups
      PROVE  history[m][g][s] = history[Parent[m]][g][s]
  <2>1. PICK h \in Seq(Msgs) : h = history[m][g][s]
    BY <1>0, <1>1
  <2>2. PICK k \in Seq(Msgs) : k = history[Parent[m]][g][s]
    BY <1>0, <1>1
  <2>3. HistoryOf(h, s, g) /\ HistoryOf(k, s, g)
    <3>1. ASSUME NEW n \in Nodes, NEW f \in Seq(Msgs), f = history[n][g][s]
          PROVE  HistoryOf(f, s, g)
      <4>1. \A i \in 1..Len(f) : f[i] \in Kept(n, g, s)
        BY <3>1 DEF Kept, ToSet
      <4>2. \A i \in 1..Len(f) : f[i].client = s /\ f[i].group = g
        BY <1>0, <4>1, KeptIs
      <4>3. \A i \in 1..Len(f) : /\ f[i].cmd # "NO_HISTORY_MSG"
                                 /\ f[i].cmd = "SYNC_MSG" => i = 1
        BY <1>0, <3>1 DEF HistoryForm
      <4>4. Ordered(f)
        BY <1>0, <3>1 DEF KeptInOrder, HistoryOrdered
      <4> QED
        BY <4>2, <4>3, <4>4 DEF HistoryOf
    <3> QED
      BY <1>1, <2>1, <2>2, <3>1
  <2>4. PICK l \in {Up(m), Down(m)} : Away(l, s)
    BY <1>1, UpAway, DownChildAway
  <2>5. \A i \in 1..Len(queue[l]) : ~Matters(queue[l][i], s, g)
    BY <2>4 DEF Quiet, Matters, Resets, Stays
  <2>6. \A p : p \in Kept(l[1], g, s) <=> p \in Kept(l[2], g, s)
    <3>1. Agree(l, s, g)
      BY <1>0, <1>2, <2>4 DEF Follows
    <3> QED
      BY <2>5, <3>1, HoldingNow DEF Agree
  <2>7. \A p : p \in Kept(m, g, s) <=> p \in Kept(Parent[m], g, s)
    BY <1>1, <2>4, <2>6
  <2>8. /\ \A p : p \in Kept(m, g, s) <=> \E i \in 1..Len(h) : h[i] = p
        /\ \A p : p \in Kept(Parent[m], g, s) <=> \E i \in 1..Len(k) : k[i] = p
    BY <2>1, <2>2 DEF Kept, ToSet
  <2>9. Among(h, k) /\ Among(k, h)
    BY <2>7, <2>8 DEF Among
  <2>10. h = k
    BY <2>3, <2>9, HistoriesSame
  <2> QED
    BY <2>1, <2>2, <2>10
<1>4. \A g \in AllGroups : history[m][g] = history[Parent[m]][g]
  <2> TAKE g \in AllGroups
  <2>1. /\ history[m][g] \in [Clients -> Seq(Msgs)]
        /\ history[Parent[m]][g] \in [Clients -> Seq(Msgs)]
    BY <1>0, <1>1
  <2>2. /\ history[m][g] = [s \in Clients |-> history[m][g][s]]
        /\ history[Parent[m]][g] = [s \in Clients |-> history[Parent[m]][g][s]]
    BY <2>1, Zenon
  <2>3. [s \in Clients |-> history[m][g][s]]
          = [s \in Clients |-> history[Parent[m]][g][s]]
    BY <1>3, Zenon
  <2> QED
    BY <2>2, <2>3, Zenon
<1>5. /\ history[m] \in [AllGroups -> [Clients -> Seq(Msgs)]]
      /\ history[Parent[m]] \in [AllGroups -> [Clients -> Seq(Msgs)]]
  BY <1>0, <1>1
<1> QED
  BY <1>4, <1>5

\* Two neighbouring nodes keep the same history of every group and sender
\* whenever no message, no news of an end and no hello is under way between
\* them: what synchronizeNewSeCo gives a new node and sendGroup sends on from
\* then, what cleanMsgs and cleanupClient drop at each of them, and what
\* PPSender.run skips between them leave both with the same messages.
THEOREM NeighboursSettle == Spec => []NeighboursAgree
<1>1. Init => LinesInv /\ FollowInv
  BY LinesInvInit, FollowInvInit
<1>2. LinesInv /\ FollowInv /\ [Next]_vars => (LinesInv /\ FollowInv)'
  BY LinesInvStep, FollowInvStep
<1>3. LinesInv /\ FollowInv => NeighboursAgree
  BY FollowInvShows
<1> QED
  BY <1>1, <1>2, <1>3, PTL DEF Spec

=============================================================================
