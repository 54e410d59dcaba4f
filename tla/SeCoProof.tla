------------------------------ MODULE SeCoProof ------------------------------
(***************************************************************************)
(* Proofs about SeCo, for every tree of nodes, every set of clients and    *)
(* groups and whatever the clients ask for and send.                       *)
(***************************************************************************)
EXTENDS SeCo, FiniteSetTheorems, SequenceTheorems, WellFoundedInduction, TLAPS

----------------------------------------------------------------------------
(* Sequences *)

\* Lemma: a set of numbers that is not empty has a least one.
LEMMA Least ==
  ASSUME NEW S \in SUBSET Nat, S # {}
  PROVE  \E m \in S : \A k \in S : m <= k
<1>1. PICK m \in S : \A k \in S : ~(<<k, m>> \in OpToRel(<, Nat))
  BY WFMin, NatLessThanWellFounded, Zenon
<1>2. \A k \in S : ~(k < m)
  BY <1>1 DEF OpToRel
<1> QED BY <1>2

\* Lemma: a place of a concatenation is a place of one of the two.
LEMMA ConcatPlaces ==
  ASSUME NEW S, NEW s \in Seq(S), NEW t \in Seq(S), NEW i \in 1..Len(s \o t)
  PROVE  \/ i \in 1..Len(s) /\ (s \o t)[i] = s[i]
         \/ \E u \in 1..Len(t) : i = Len(s) + u /\ (s \o t)[i] = t[u]
<1>0. /\ Len(s) \in Nat /\ Len(t) \in Nat /\ Len(s \o t) = Len(s) + Len(t)
      /\ i \in Nat
  OBVIOUS
<1>1. CASE i <= Len(s)
  <2>1. i \in 1..Len(s) /\ (s \o t)[i] = s[i]
    BY <1>0, <1>1
  <2> QED BY <2>1
<1>2. CASE ~(i <= Len(s))
  <2>0. i - Len(s) \in Nat
    BY <1>0, <1>2
  <2>1. PICK u \in Nat : u = i - Len(s)
    BY <2>0
  <2>2. u \in 1..Len(t) /\ i = Len(s) + u
    BY <1>0, <1>2, <2>1
  <2>3. (s \o t)[i] = t[u]
    BY <1>0, <1>2, <2>2
  <2> QED BY <2>2, <2>3
<1> QED BY <1>1, <1>2

\* h has the sequences of seqs joined, one more with each place.
Joins(seqs, h) ==
  h = [i \in 1..Len(seqs) |-> IF i = 1 THEN seqs[i] ELSE h[i - 1] \o seqs[i]]

\* Lemma: there is such a function.
LEMMA JoinsExist ==
  ASSUME NEW S, NEW seqs \in Seq(Seq(S))
  PROVE  \E h \in [1..Len(seqs) -> Seq(S)] : Joins(seqs, h)
<1> DEFINE Partly(m, h) ==
             \A i \in 1..m :
               h[i] = IF i = 1 THEN seqs[i] ELSE h[i - 1] \o seqs[i]
           Missing == {m \in 1..Len(seqs) :
                         ~ \E h \in [1..m -> Seq(S)] : Partly(m, h)}
<1>1. Missing = {}
  <2> SUFFICES ASSUME Missing # {} PROVE FALSE
    OBVIOUS
  <2>1. Missing \in SUBSET Nat
    OBVIOUS
  <2>2. PICK m \in Missing : \A k \in Missing : m <= k
    BY <2>1, Least
  <2>3. m \in 1..Len(seqs) /\ m \in Nat
    BY <2>2
  <2>4. CASE m = 1
    <3> DEFINE h == [i \in 1..m |-> seqs[1]]
    <3>1. h \in [1..m -> Seq(S)]
      <4>1. seqs[1] \in Seq(S)
        BY <2>3, <2>4
      <4> QED BY <4>1
    <3>2. \A i \in 1..m : i = 1 /\ h[i] = seqs[1]
      BY <2>4
    <3>3. Partly(m, h)
      BY <3>2
    <3>4. \E f \in [1..m -> Seq(S)] : Partly(m, f)
      BY <3>1, <3>3
    <3> QED BY <2>2, <3>4
  <2>5. CASE m # 1
    <3>1. m - 1 \in 1..Len(seqs) /\ m - 1 \notin Missing
      <4> HIDE DEF Missing
      <4>1. m - 1 \in 1..Len(seqs)
        BY <2>3, <2>5
      <4>2. ~(m <= m - 1)
        BY <2>3
      <4> QED BY <2>2, <4>1, <4>2
    <3>2. PICK g \in [1..(m - 1) -> Seq(S)] : Partly(m - 1, g)
      BY <3>1
    <3> DEFINE h == [i \in 1..m |-> IF i = m THEN g[m - 1] \o seqs[m]
                                             ELSE g[i]]
    <3>3. h \in [1..m -> Seq(S)]
      <4>1. m - 1 \in 1..(m - 1)
        BY <2>3, <2>5
      <4>2. g[m - 1] \in Seq(S) /\ seqs[m] \in Seq(S)
        BY <2>3, <4>1
      <4>3. g[m - 1] \o seqs[m] \in Seq(S)
        BY <4>2
      <4>4. \A i \in 1..m : i # m => i \in 1..(m - 1)
        BY <2>3
      <4>5. \A i \in 1..m : (IF i = m THEN g[m - 1] \o seqs[m] ELSE g[i])
                             \in Seq(S)
        <5> SUFFICES ASSUME NEW i \in 1..m
                     PROVE  (IF i = m THEN g[m - 1] \o seqs[m] ELSE g[i])
                              \in Seq(S)
          OBVIOUS
        <5>1. CASE i = m
          BY <4>3, <5>1
        <5>2. CASE i # m
          BY <4>4, <5>2
        <5> QED BY <5>1, <5>2
      <4> QED BY <4>5
    <3>4. Partly(m, h)
      <4> SUFFICES ASSUME NEW i \in 1..m
                   PROVE  h[i] = IF i = 1 THEN seqs[i] ELSE h[i - 1] \o seqs[i]
        OBVIOUS
      <4>0. /\ h[m] = g[m - 1] \o seqs[m]
            /\ \A j \in 1..(m - 1) : h[j] = g[j]
        <5>1. m \in 1..m /\ \A j \in 1..(m - 1) : j \in 1..m /\ j # m
          BY <2>3
        <5> QED BY <5>1
      <4> HIDE DEF h
      <4>1. CASE i = m
        <5>1. m - 1 \in 1..(m - 1)
          BY <2>3, <2>5
        <5> QED BY <2>5, <4>0, <4>1, <5>1
      <4>2. CASE i # m
        <5>1. i \in 1..(m - 1) /\ (i # 1 => i - 1 \in 1..(m - 1))
          BY <2>3, <4>2
        <5>2. g[i] = IF i = 1 THEN seqs[i] ELSE g[i - 1] \o seqs[i]
          BY <3>2, <5>1
        <5> QED BY <4>0, <5>1, <5>2
      <4> QED BY <4>1, <4>2
    <3> HIDE DEF h
    <3> QED BY <2>2, <3>3, <3>4
  <2> QED BY <2>4, <2>5
<1>2. CASE Len(seqs) = 0
  <2>1. 1..Len(seqs) = {}
    BY <1>2
  <2> DEFINE h == [i \in 1..Len(seqs) |-> seqs[1]]
  <2>2. h \in [1..Len(seqs) -> Seq(S)] /\ Joins(seqs, h)
    BY <2>1 DEF Joins
  <2> QED BY <2>2
<1>3. CASE Len(seqs) # 0
  <2>1. Len(seqs) \in 1..Len(seqs)
    BY <1>3
  <2>2. PICK h \in [1..Len(seqs) -> Seq(S)] : Partly(Len(seqs), h)
    BY <1>1, <2>1
  <2> QED BY <2>2 DEF Joins
<1> QED BY <1>2, <1>3

\* Lemma: FlattenSeq is the last value of such a function.
LEMMA FlattenIs ==
  ASSUME NEW S, NEW seqs \in Seq(Seq(S)), Len(seqs) # 0
  PROVE  \E h : /\ h \in [1..Len(seqs) -> Seq(S)]
                /\ Joins(seqs, h) /\ FlattenSeq(seqs) = h[Len(seqs)]
<1>1. PICK g \in [1..Len(seqs) -> Seq(S)] : Joins(seqs, g)
  BY JoinsExist
<1>2. PICK h : Joins(seqs, h) /\ FlattenSeq(seqs) = h[Len(seqs)]
  BY <1>1 DEF FlattenSeq, Joins
<1>3. h = g
  <2>0. /\ h = [i \in 1..Len(seqs) |->
                  IF i = 1 THEN seqs[i] ELSE h[i - 1] \o seqs[i]]
        /\ g = [i \in 1..Len(seqs) |->
                  IF i = 1 THEN seqs[i] ELSE g[i - 1] \o seqs[i]]
    BY <1>1, <1>2 DEF Joins
  <2>1. /\ DOMAIN h = 1..Len(seqs) /\ h = [i \in 1..Len(seqs) |-> h[i]]
        /\ g = [i \in 1..Len(seqs) |-> g[i]]
    BY <2>0
  <2>2. \A i \in 1..Len(seqs) :
          /\ h[i] = IF i = 1 THEN seqs[i] ELSE h[i - 1] \o seqs[i]
          /\ g[i] = IF i = 1 THEN seqs[i] ELSE g[i - 1] \o seqs[i]
    BY <2>0
  <2> DEFINE Unlike == {i \in 1..Len(seqs) : h[i] # g[i]}
  <2>3. Unlike = {}
    <3> SUFFICES ASSUME Unlike # {} PROVE FALSE
      OBVIOUS
    <3>1. Unlike \in SUBSET Nat
      OBVIOUS
    <3>2. PICK i \in Unlike : \A k \in Unlike : i <= k
      BY <3>1, Least
    <3>3. CASE i = 1
      BY <2>2, <3>2, <3>3
    <3>4. CASE i # 1
      <4>1. i - 1 \in 1..Len(seqs) /\ i - 1 \notin Unlike
        BY <3>2, <3>4
      <4>2. h[i - 1] = g[i - 1]
        BY <4>1
      <4>3. i \in 1..Len(seqs) /\ h[i] # g[i]
        BY <3>2
      <4>4. h[i] = h[i - 1] \o seqs[i] /\ g[i] = g[i - 1] \o seqs[i]
        BY <2>2, <3>4, <4>3
      <4> QED BY <4>2, <4>3, <4>4
    <3> QED BY <3>3, <3>4
  <2> QED BY <2>1, <2>3
<1> QED BY <1>1, <1>2, <1>3

\* Every element of f is in one of the sequences.
Parts(f, seqs) ==
  \A i \in 1..Len(f) : \E a \in 1..Len(seqs) :
    \E u \in 1..Len(seqs[a]) : f[i] = seqs[a][u]

\* Lemma: this stays when one of them is joined.
LEMMA PartsGrow ==
  ASSUME NEW S, NEW seqs \in Seq(Seq(S)), NEW m \in 1..Len(seqs),
         NEW f \in Seq(S), Parts(f, seqs)
  PROVE  Parts(f \o seqs[m], seqs)
<1>1. seqs[m] \in Seq(S)
  OBVIOUS
<1> SUFFICES ASSUME NEW i \in 1..Len(f \o seqs[m])
             PROVE  \E a \in 1..Len(seqs) :
                      \E u \in 1..Len(seqs[a]) : (f \o seqs[m])[i] = seqs[a][u]
  BY DEF Parts
<1>2. \/ i \in 1..Len(f) /\ (f \o seqs[m])[i] = f[i]
      \/ \E u \in 1..Len(seqs[m]) : (f \o seqs[m])[i] = seqs[m][u]
  BY <1>1, ConcatPlaces
<1>3. CASE i \in 1..Len(f) /\ (f \o seqs[m])[i] = f[i]
  BY <1>3 DEF Parts
<1> QED BY <1>2, <1>3

\* Lemma: FlattenSeq gives a sequence, and every element of it is in one of the
\* sequences.
LEMMA FlattenHolds ==
  ASSUME NEW S, NEW seqs \in Seq(Seq(S))
  PROVE  FlattenSeq(seqs) \in Seq(S) /\ Parts(FlattenSeq(seqs), seqs)
<1>1. CASE Len(seqs) = 0
  <2>1. FlattenSeq(seqs) = seqs
    BY <1>1 DEF FlattenSeq
  <2>2. seqs = <<>>
    BY <1>1
  <2>3. FlattenSeq(seqs) = <<>>
    BY <2>1, <2>2
  <2>4. <<>> \in Seq(S) /\ Len(<<>>) = 0
    OBVIOUS
  <2>5. FlattenSeq(seqs) \in Seq(S) /\ 1..Len(FlattenSeq(seqs)) = {}
    BY <2>3, <2>4
  <2> QED BY <2>5 DEF Parts
<1>2. CASE Len(seqs) # 0
  <2>1. PICK h : /\ h \in [1..Len(seqs) -> Seq(S)]
                 /\ Joins(seqs, h) /\ FlattenSeq(seqs) = h[Len(seqs)]
    BY <1>2, FlattenIs
  <2>2. \A m \in 1..Len(seqs) :
          h[m] = IF m = 1 THEN seqs[m] ELSE h[m - 1] \o seqs[m]
    BY <2>1 DEF Joins
  <2> DEFINE Missing == {m \in 1..Len(seqs) : ~Parts(h[m], seqs)}
  <2>3. Missing = {}
    <3> SUFFICES ASSUME Missing # {} PROVE FALSE
      OBVIOUS
    <3>1. Missing \in SUBSET Nat
      OBVIOUS
    <3>2. PICK m \in Missing : \A k \in Missing : m <= k
      BY <3>1, Least
    <3>3. m \in 1..Len(seqs) /\ m \in Nat /\ ~Parts(h[m], seqs)
      BY <3>2
    <3>4. CASE m = 1
      <4>1. h[m] = seqs[m]
        BY <2>2, <3>3, <3>4
      <4> QED BY <3>3, <4>1 DEF Parts
    <3>5. CASE m # 1
      <4>1. m - 1 \in 1..Len(seqs) /\ m - 1 \notin Missing
        <5> HIDE DEF Missing
        <5>1. m - 1 \in 1..Len(seqs)
          BY <3>3, <3>5
        <5>2. ~(m <= m - 1)
          BY <3>3
        <5> QED BY <3>2, <5>1, <5>2
      <4>2. Parts(h[m - 1], seqs)
        BY <4>1
      <4>3. h[m] = h[m - 1] \o seqs[m]
        BY <2>2, <3>3, <3>5
      <4>4. h[m - 1] \in Seq(S)
        BY <2>1, <4>1
      <4> QED BY <3>3, <4>2, <4>3, <4>4, PartsGrow
    <3> QED BY <3>4, <3>5
  <2>4. Len(seqs) \in 1..Len(seqs)
    BY <1>2
  <2>5. Parts(h[Len(seqs)], seqs)
    BY <2>3, <2>4
  <2> QED BY <2>1, <2>4, <2>5
<1> QED BY <1>1, <1>2

\* t has some of the elements of s, in the order of s.
Thins(t, s) ==
  \E at \in [1..Len(t) -> 1..Len(s)] :
    /\ \A i, j \in 1..Len(t) : i < j => at[i] < at[j]
    /\ \A i \in 1..Len(t) : t[i] = s[at[i]]

\* Lemmas: what is thinner than what.
LEMMA ThinsSelf ==
  ASSUME NEW S, NEW s \in Seq(S)
  PROVE  Thins(s, s)
<1> DEFINE at == [i \in 1..Len(s) |-> i]
<1>1. at \in [1..Len(s) -> 1..Len(s)]
  OBVIOUS
<1>2. \A i \in 1..Len(s) : at[i] = i
  OBVIOUS
<1> HIDE DEF at
<1> QED BY <1>1, <1>2 DEF Thins

\* Lemma: nothing is thinner than anything.
LEMMA ThinsNone ==
  ASSUME NEW s
  PROVE  Thins(<<>>, s)
<1> DEFINE at == [i \in 1..Len(<<>>) |-> 0]
<1>1. 1..Len(<<>>) = {}
  OBVIOUS
<1>2. at \in [1..Len(<<>>) -> 1..Len(s)]
  BY <1>1
<1> HIDE DEF at
<1> QED BY <1>1, <1>2 DEF Thins

\* Lemma: a tail is thinner.
LEMMA ThinsTail ==
  ASSUME NEW S, NEW s \in Seq(S), s # <<>>
  PROVE  Thins(Tail(s), s)
<1> DEFINE at == [i \in 1..Len(Tail(s)) |-> i + 1]
<1>1. /\ Len(s) \in Nat /\ Len(Tail(s)) = Len(s) - 1 /\ Len(Tail(s)) \in Nat
      /\ \A i \in 1..Len(Tail(s)) : Tail(s)[i] = s[i + 1]
  OBVIOUS
<1>2. \A i \in 1..Len(Tail(s)) : i + 1 \in 1..Len(s)
  BY <1>1
<1>3. at \in [1..Len(Tail(s)) -> 1..Len(s)]
  BY <1>2
<1>4. \A i \in 1..Len(Tail(s)) : at[i] = i + 1
  OBVIOUS
<1> HIDE DEF at
<1>5. \A i, j \in 1..Len(Tail(s)) : i < j => at[i] < at[j]
  BY <1>1, <1>4
<1>6. \A i \in 1..Len(Tail(s)) : Tail(s)[i] = s[at[i]]
  BY <1>1, <1>4
<1> QED BY <1>3, <1>5, <1>6 DEF Thins

\* Lemma: thinner than thinner is thinner.
LEMMA ThinsTrans ==
  ASSUME NEW r, NEW s, NEW t, Thins(r, s), Thins(s, t)
  PROVE  Thins(r, t)
<1>1. PICK f \in [1..Len(r) -> 1..Len(s)] :
        /\ \A i, j \in 1..Len(r) : i < j => f[i] < f[j]
        /\ \A i \in 1..Len(r) : r[i] = s[f[i]]
  BY DEF Thins
<1>2. PICK g \in [1..Len(s) -> 1..Len(t)] :
        /\ \A i, j \in 1..Len(s) : i < j => g[i] < g[j]
        /\ \A i \in 1..Len(s) : s[i] = t[g[i]]
  BY DEF Thins
<1> DEFINE at == [i \in 1..Len(r) |-> g[f[i]]]
<1>3. \A i \in 1..Len(r) : f[i] \in 1..Len(s) /\ g[f[i]] \in 1..Len(t)
  BY <1>1, <1>2
<1>4. at \in [1..Len(r) -> 1..Len(t)]
  BY <1>3
<1>5. \A i \in 1..Len(r) : at[i] = g[f[i]]
  OBVIOUS
<1> HIDE DEF at
<1>6. \A i, j \in 1..Len(r) : i < j => at[i] < at[j]
  BY <1>1, <1>2, <1>3, <1>5
<1>7. \A i \in 1..Len(r) : r[i] = t[at[i]]
  BY <1>1, <1>2, <1>3, <1>5
<1> QED BY <1>4, <1>6, <1>7 DEF Thins

\* Lemma: and it stays thinner when the other gets longer.
LEMMA ThinsLonger ==
  ASSUME NEW S, NEW s \in Seq(S), NEW u \in Seq(S), NEW t, Thins(t, s)
  PROVE  Thins(t, s \o u)
<1>1. PICK f \in [1..Len(t) -> 1..Len(s)] :
        /\ \A i, j \in 1..Len(t) : i < j => f[i] < f[j]
        /\ \A i \in 1..Len(t) : t[i] = s[f[i]]
  BY DEF Thins
<1>2. /\ Len(s \o u) = Len(s) + Len(u) /\ Len(s) \in Nat /\ Len(u) \in Nat
      /\ \A i \in 1..Len(s) : (s \o u)[i] = s[i]
  OBVIOUS
<1>3. \A i \in 1..Len(s) : i \in 1..Len(s \o u)
  BY <1>2
<1>4. f \in [1..Len(t) -> 1..Len(s \o u)]
  BY <1>3
<1>5. \A i \in 1..Len(t) : t[i] = (s \o u)[f[i]]
  BY <1>1, <1>2
<1> QED BY <1>1, <1>4, <1>5 DEF Thins

\* Lemma: two sequences thinned are thinner than their concatenation.
LEMMA ThinsBoth ==
  ASSUME NEW S, NEW s \in Seq(S), NEW t \in Seq(S), NEW u \in Seq(S),
         NEW v \in Seq(S), Thins(t, s), Thins(v, u)
  PROVE  Thins(t \o v, s \o u)
<1>1. PICK f \in [1..Len(t) -> 1..Len(s)] :
        /\ \A i, j \in 1..Len(t) : i < j => f[i] < f[j]
        /\ \A i \in 1..Len(t) : t[i] = s[f[i]]
  BY DEF Thins
<1>2. PICK g \in [1..Len(v) -> 1..Len(u)] :
        /\ \A i, j \in 1..Len(v) : i < j => g[i] < g[j]
        /\ \A i \in 1..Len(v) : v[i] = u[g[i]]
  BY DEF Thins
<1> DEFINE a == Len(t)
           b == Len(s)
           at == [i \in 1..Len(t \o v) |-> IF i <= a THEN f[i]
                                           ELSE b + g[i - a]]
<1>3. /\ a \in Nat /\ b \in Nat /\ Len(u) \in Nat /\ Len(v) \in Nat
      /\ Len(t \o v) = a + Len(v) /\ Len(s \o u) = b + Len(u)
  OBVIOUS
<1>4. \A i \in 1..Len(t \o v) :
        IF i <= a THEN at[i] = f[i] ELSE at[i] = b + g[i - a]
  OBVIOUS
<1> HIDE DEF at
<1>5. \A i \in 1..Len(t \o v) :
        IF i <= a THEN i \in 1..Len(t) ELSE i - a \in 1..Len(v)
  BY <1>3
<1>6. \A i \in 1..Len(t \o v) :
        /\ at[i] \in 1..Len(s \o u) /\ (i <= a => at[i] <= b)
        /\ (~(i <= a) => at[i] > b)
  <2> SUFFICES ASSUME NEW i \in 1..Len(t \o v)
               PROVE  /\ at[i] \in 1..Len(s \o u) /\ (i <= a => at[i] <= b)
                      /\ (~(i <= a) => at[i] > b)
    OBVIOUS
  <2>1. CASE i <= a
    <3>1. f[i] \in 1..b /\ at[i] = f[i]
      BY <1>4, <1>5, <2>1
    <3> QED BY <1>3, <2>1, <3>1
  <2>2. CASE ~(i <= a)
    <3>1. g[i - a] \in 1..Len(u) /\ at[i] = b + g[i - a]
      BY <1>4, <1>5, <2>2
    <3> QED BY <1>3, <2>2, <3>1
  <2> QED BY <2>1, <2>2
<1>7. at \in [1..Len(t \o v) -> 1..Len(s \o u)]
  <2>1. at = [i \in 1..Len(t \o v) |-> at[i]]
    BY DEF at
  <2> QED BY <1>6, <2>1
<1>8. \A i, j \in 1..Len(t \o v) : i < j => at[i] < at[j]
  <2> SUFFICES ASSUME NEW i \in 1..Len(t \o v), NEW j \in 1..Len(t \o v), i < j
               PROVE  at[i] < at[j]
    OBVIOUS
  <2>1. CASE j <= a
    <3>1. i <= a
      BY <1>3, <2>1
    <3>2. at[i] = f[i] /\ at[j] = f[j] /\ i \in 1..Len(t) /\ j \in 1..Len(t)
      BY <1>4, <1>5, <2>1, <3>1
    <3> QED BY <1>1, <3>2
  <2>2. CASE i <= a /\ ~(j <= a)
    BY <1>3, <1>6, <2>2
  <2>3. CASE ~(i <= a)
    <3>1. ~(j <= a)
      BY <1>3, <2>3
    <3>2. /\ at[i] = b + g[i - a] /\ i - a \in 1..Len(v)
          /\ at[j] = b + g[j - a] /\ j - a \in 1..Len(v)
      BY <1>4, <1>5, <2>3, <3>1
    <3>3. i - a < j - a
      BY <1>3
    <3>4. PICK x \in 1..Len(v), y \in 1..Len(v) : x = i - a /\ y = j - a
      BY <3>2
    <3>5. g[x] < g[y] /\ g[x] \in Nat /\ g[y] \in Nat
      <4>1. x < y
        BY <3>3, <3>4
      <4>2. g[x] \in 1..Len(u) /\ g[y] \in 1..Len(u)
        OBVIOUS
      <4> QED BY <1>2, <4>1, <4>2
    <3>6. at[i] = b + g[x] /\ at[j] = b + g[y]
      BY <3>2, <3>4
    <3> QED BY <1>3, <3>5, <3>6
  <2> QED BY <2>1, <2>2, <2>3
<1>9. \A i \in 1..Len(t \o v) : (t \o v)[i] = (s \o u)[at[i]]
  <2> SUFFICES ASSUME NEW i \in 1..Len(t \o v)
               PROVE  (t \o v)[i] = (s \o u)[at[i]]
    OBVIOUS
  <2>1. CASE i <= a
    <3>1. i \in 1..Len(t) /\ at[i] = f[i] /\ f[i] \in 1..b
      BY <1>4, <1>5, <2>1
    <3>2. (t \o v)[i] = t[i] /\ (s \o u)[f[i]] = s[f[i]]
      BY <3>1
    <3> QED BY <1>1, <3>1, <3>2
  <2>2. CASE ~(i <= a)
    <3>1. PICK k \in 1..Len(v) : k = i - a
      BY <1>5, <2>2
    <3>2. PICK m \in 1..Len(u) : m = g[k]
      BY <3>1
    <3>3. i = a + k /\ at[i] = b + m
      BY <1>3, <1>4, <2>2, <3>1, <3>2
    <3>4. (t \o v)[a + k] = v[k] /\ (s \o u)[b + m] = u[m]
      OBVIOUS
    <3> QED BY <1>2, <3>2, <3>3, <3>4
  <2> QED BY <2>1, <2>2
<1> QED BY <1>7, <1>8, <1>9 DEF Thins

\* t has exactly the elements of s that are not in D, in the order of s.
Sifts(t, s, D) ==
  \E at \in [1..Len(t) -> 1..Len(s)] :
    /\ \A i, j \in 1..Len(t) : i < j => at[i] < at[j]
    /\ \A i \in 1..Len(t) : t[i] = s[at[i]]
    /\ \A k \in 1..Len(s) : s[k] \notin D <=> \E i \in 1..Len(t) : at[i] = k

\* Lemmas: an element more, that is kept or left out.
LEMMA SiftsKeep ==
  ASSUME NEW S, NEW s \in Seq(S), NEW t \in Seq(S), NEW x \in S, NEW D,
         Sifts(t, s, D), x \notin D
  PROVE  Sifts(t \o <<x>>, s \o <<x>>, D)
<1>1. PICK f \in [1..Len(t) -> 1..Len(s)] :
        /\ \A i, j \in 1..Len(t) : i < j => f[i] < f[j]
        /\ \A i \in 1..Len(t) : t[i] = s[f[i]]
        /\ \A k \in 1..Len(s) : s[k] \notin D <=> \E i \in 1..Len(t) : f[i] = k
  BY DEF Sifts
<1> DEFINE a == Len(t)
           b == Len(s)
           at == [i \in 1..(a + 1) |-> IF i <= a THEN f[i] ELSE b + 1]
<1>2. /\ a \in Nat /\ b \in Nat
      /\ Len(t \o <<x>>) = a + 1 /\ Len(s \o <<x>>) = b + 1
      /\ (t \o <<x>>)[a + 1] = x /\ (s \o <<x>>)[b + 1] = x
      /\ \A i \in 1..a : (t \o <<x>>)[i] = t[i]
      /\ \A i \in 1..b : (s \o <<x>>)[i] = s[i]
  OBVIOUS
<1>3. \A i \in 1..(a + 1) : at[i] = IF i <= a THEN f[i] ELSE b + 1
  OBVIOUS
<1>4. at = [i \in 1..(a + 1) |-> at[i]]
  OBVIOUS
<1> HIDE DEF at
<1>5. \A i \in 1..a : i \in 1..(a + 1) /\ at[i] = f[i] /\ at[i] \in 1..b
  BY <1>1, <1>2, <1>3
<1>6. a + 1 \in 1..(a + 1) /\ at[a + 1] = b + 1
  BY <1>2, <1>3
<1>7. \A i \in 1..(a + 1) : i \in 1..a \/ i = a + 1
  BY <1>2
<1>8. \A i \in 1..(b + 1) : i \in 1..b \/ i = b + 1
  BY <1>2
<1> HIDE DEF a, b
<1>9. at \in [1..(a + 1) -> 1..(b + 1)]
  <2>1. \A i \in 1..(a + 1) : at[i] \in 1..(b + 1)
    BY <1>2, <1>5, <1>6, <1>7
  <2> QED BY <1>4, <2>1
<1>10. \A i, j \in 1..(a + 1) : i < j => at[i] < at[j]
  <2> SUFFICES ASSUME NEW i \in 1..(a + 1), NEW j \in 1..(a + 1), i < j
               PROVE  at[i] < at[j]
    OBVIOUS
  <2>1. i \in 1..a
    BY <1>2
  <2>2. CASE j \in 1..a
    BY <1>1, <1>5, <2>1, <2>2 DEF a
  <2>3. CASE j = a + 1
    BY <1>2, <1>5, <1>6, <2>1, <2>3
  <2> QED BY <1>7, <2>2, <2>3
<1>11. \A i \in 1..(a + 1) : (t \o <<x>>)[i] = (s \o <<x>>)[at[i]]
  <2>1. \A i \in 1..a : (t \o <<x>>)[i] = (s \o <<x>>)[at[i]]
    BY <1>1, <1>2, <1>5 DEF a, b
  <2> QED BY <1>2, <1>6, <1>7, <2>1
<1>12. \A k \in 1..(b + 1) :
         (s \o <<x>>)[k] \notin D <=> \E i \in 1..(a + 1) : at[i] = k
  <2> SUFFICES ASSUME NEW k \in 1..(b + 1)
               PROVE  (s \o <<x>>)[k] \notin D
                        <=> \E i \in 1..(a + 1) : at[i] = k
    OBVIOUS
  <2>1. CASE k \in 1..b
    <3>1. (s \o <<x>>)[k] \notin D <=> \E i \in 1..a : f[i] = k
      BY <1>1, <1>2, <2>1 DEF a, b
    <3>2. k # b + 1
      BY <1>2, <2>1
    <3> QED BY <1>5, <1>6, <1>7, <3>1, <3>2
  <2>2. CASE k = b + 1
    BY <1>2, <1>6, <2>2
  <2> QED BY <1>8, <2>1, <2>2
<1> DEFINE tx == t \o <<x>>
           sx == s \o <<x>>
<1>13. Len(tx) = a + 1 /\ Len(sx) = b + 1
  BY <1>2
<1>14. /\ \A i \in 1..(a + 1) : tx[i] = sx[at[i]]
       /\ \A k \in 1..(b + 1) : sx[k] \notin D
                                 <=> \E i \in 1..(a + 1) : at[i] = k
  BY <1>11, <1>12
<1> HIDE DEF tx, sx
<1>15. /\ at \in [1..Len(tx) -> 1..Len(sx)]
       /\ \A i, j \in 1..Len(tx) : i < j => at[i] < at[j]
       /\ \A i \in 1..Len(tx) : tx[i] = sx[at[i]]
       /\ \A k \in 1..Len(sx) : sx[k] \notin D
                                 <=> \E i \in 1..Len(tx) : at[i] = k
  BY <1>9, <1>10, <1>13, <1>14
<1>16. Sifts(tx, sx, D)
  BY <1>15, Zenon DEF Sifts
<1> QED BY <1>16 DEF tx, sx

\* Lemma: an element more that is left out.
LEMMA SiftsDrop ==
  ASSUME NEW S, NEW s \in Seq(S), NEW t, NEW x \in S, NEW D,
         Sifts(t, s, D), x \in D
  PROVE  Sifts(t, s \o <<x>>, D)
<1>1. PICK f \in [1..Len(t) -> 1..Len(s)] :
        /\ \A i, j \in 1..Len(t) : i < j => f[i] < f[j]
        /\ \A i \in 1..Len(t) : t[i] = s[f[i]]
        /\ \A k \in 1..Len(s) : s[k] \notin D <=> \E i \in 1..Len(t) : f[i] = k
  BY DEF Sifts
<1> DEFINE b == Len(s)
<1>2. /\ b \in Nat /\ Len(s \o <<x>>) = b + 1 /\ (s \o <<x>>)[b + 1] = x
      /\ \A i \in 1..b : (s \o <<x>>)[i] = s[i]
  OBVIOUS
<1>3. \A i \in 1..b : i \in 1..(b + 1) /\ i # b + 1
  BY <1>2
<1>4. \A i \in 1..(b + 1) : i \in 1..b \/ i = b + 1
  BY <1>2
<1>5. f \in [1..Len(t) -> 1..(b + 1)]
  BY <1>3
<1>6. \A i \in 1..Len(t) : f[i] \in 1..b /\ t[i] = (s \o <<x>>)[f[i]]
  BY <1>1, <1>2
<1>7. \A k \in 1..(b + 1) :
        (s \o <<x>>)[k] \notin D <=> \E i \in 1..Len(t) : f[i] = k
  <2> HIDE DEF b
  <2>1. \A k \in 1..b : s[k] \notin D <=> \E i \in 1..Len(t) : f[i] = k
    BY <1>1 DEF b
  <2> QED BY <1>2, <1>3, <1>4, <1>6, <2>1
<1> DEFINE sx == s \o <<x>>
<1>8. Len(sx) = b + 1
  BY <1>2
<1>9. /\ \A i \in 1..Len(t) : t[i] = sx[f[i]]
      /\ \A k \in 1..(b + 1) : sx[k] \notin D
                                <=> \E i \in 1..Len(t) : f[i] = k
  BY <1>6, <1>7
<1> HIDE DEF sx, b
<1>10. /\ f \in [1..Len(t) -> 1..Len(sx)]
       /\ \A i, j \in 1..Len(t) : i < j => f[i] < f[j]
       /\ \A i \in 1..Len(t) : t[i] = sx[f[i]]
       /\ \A k \in 1..Len(sx) : sx[k] \notin D
                                 <=> \E i \in 1..Len(t) : f[i] = k
  BY <1>1, <1>5, <1>8, <1>9
<1>11. Sifts(t, sx, D)
  BY <1>10, Zenon DEF Sifts
<1> QED BY <1>11 DEF sx

\* Lemma: Purged is such a sequence.
LEMMA PurgedSifts ==
  ASSUME NEW S, NEW pkts \in Seq(S), NEW D
  PROVE  Purged(pkts, D) \in Seq(S) /\ Sifts(Purged(pkts, D), pkts, D)
<1> DEFINE seqs == [i \in 1..Len(pkts) |-> IF pkts[i] \in D THEN <<>>
                                           ELSE <<pkts[i]>>]
<1>1. /\ seqs \in Seq(Seq(S)) /\ Len(seqs) = Len(pkts) /\ Len(pkts) \in Nat
      /\ \A i \in 1..Len(pkts) : seqs[i] = IF pkts[i] \in D THEN <<>>
                                           ELSE <<pkts[i]>>
  OBVIOUS
<1>2. Purged(pkts, D) = FlattenSeq(seqs)
  BY DEF Purged
<1> HIDE DEF seqs
<1>3. Purged(pkts, D) \in Seq(S)
  BY <1>1, <1>2, FlattenHolds
<1>4. CASE Len(pkts) = 0
  <2>1. FlattenSeq(seqs) = seqs
    BY <1>1, <1>4 DEF FlattenSeq
  <2>2. seqs = <<>> /\ pkts = <<>>
    BY <1>1, <1>4
  <2>3. Purged(pkts, D) = <<>> /\ Len(<<>>) = 0 /\ 1..Len(<<>>) = {}
    BY <1>2, <2>1, <2>2
  <2> DEFINE at == [i \in 1..Len(<<>>) |-> 0]
  <2>4. at \in [1..Len(<<>>) -> 1..Len(<<>>)]
    BY <2>3
  <2> HIDE DEF at
  <2>5. Sifts(<<>>, <<>>, D)
    BY <2>3, <2>4 DEF Sifts
  <2> QED BY <1>3, <2>2, <2>3, <2>5
<1>5. CASE Len(pkts) # 0
  <2>1. PICK h : /\ h \in [1..Len(seqs) -> Seq(S)]
                 /\ Joins(seqs, h) /\ FlattenSeq(seqs) = h[Len(seqs)]
    BY <1>1, <1>5, FlattenIs
  <2>2. \A m \in 1..Len(pkts) :
          h[m] = IF m = 1 THEN seqs[m] ELSE h[m - 1] \o seqs[m]
    BY <1>1, <2>1 DEF Joins
  <2> DEFINE Missing == {m \in 1..Len(pkts) :
                           ~Sifts(h[m], SubSeq(pkts, 1, m), D)}
  <2>3. Missing = {}
    <3> SUFFICES ASSUME Missing # {} PROVE FALSE
      OBVIOUS
    <3>1. Missing \in SUBSET Nat
      OBVIOUS
    <3>2. PICK m \in Missing : \A k \in Missing : m <= k
      BY <3>1, Least
    <3>3. /\ m \in 1..Len(pkts) /\ m \in Nat
          /\ ~Sifts(h[m], SubSeq(pkts, 1, m), D)
      BY <3>2
    <3>4. PICK before \in Seq(S), was \in Seq(S) :
            /\ h[m] = was \o seqs[m] /\ Sifts(was, before, D)
            /\ SubSeq(pkts, 1, m) = before \o <<pkts[m]>>
      <4>0. SubSeq(pkts, 1, m) = SubSeq(pkts, 1, m - 1) \o <<pkts[m]>>
        <5>1. 1 \in 1..Len(pkts) /\ m \in 1..Len(pkts)
          BY <3>3
        <5> QED BY <3>3, <5>1, SubSeqRecursiveSecond
      <4>1. CASE m = 1
        <5>1. h[m] = seqs[m] /\ seqs[m] \in Seq(S)
          BY <1>1, <2>2, <3>3, <4>1
        <5>2. h[m] = <<>> \o seqs[m]
          BY <5>1
        <5>3. SubSeq(pkts, 1, m - 1) = <<>>
          BY <3>3, <4>1, SubSeqEmpty
        <5>4. Len(<<>>) = 0 /\ 1..Len(<<>>) = {} /\ <<>> \in Seq(S)
          OBVIOUS
        <5> DEFINE at == [i \in 1..Len(<<>>) |-> 0]
        <5>5. at \in [1..Len(<<>>) -> 1..Len(<<>>)]
          BY <5>4
        <5> HIDE DEF at
        <5>6. Sifts(<<>>, <<>>, D)
          BY <5>4, <5>5 DEF Sifts
        <5> QED BY <4>0, <5>2, <5>3, <5>4, <5>6
      <4>2. CASE m # 1
        <5>1. m - 1 \in 1..Len(pkts) /\ m - 1 \notin Missing
          <6> HIDE DEF Missing
          <6>1. m - 1 \in 1..Len(pkts)
            BY <3>3, <4>2
          <6>2. ~(m <= m - 1)
            BY <3>3
          <6> QED BY <3>2, <6>1, <6>2
        <5>2. Sifts(h[m - 1], SubSeq(pkts, 1, m - 1), D)
          BY <5>1
        <5>3. h[m - 1] \in Seq(S) /\ h[m] = h[m - 1] \o seqs[m]
          BY <1>1, <2>1, <2>2, <3>3, <4>2, <5>1
        <5>4. SubSeq(pkts, 1, m - 1) \in Seq(S)
          BY <5>1
        <5> QED BY <4>0, <5>2, <5>3, <5>4
      <4> QED BY <4>1, <4>2
    <3>5. pkts[m] \in S
      BY <3>3
    <3>6. CASE pkts[m] \in D
      <4>1. seqs[m] = <<>>
        BY <1>1, <3>3, <3>6
      <4>2. h[m] = was
        BY <3>4, <4>1
      <4> QED BY <3>3, <3>4, <3>5, <3>6, <4>2, SiftsDrop
    <3>7. CASE pkts[m] \notin D
      <4>1. seqs[m] = <<pkts[m]>>
        BY <1>1, <3>3, <3>7
      <4> QED BY <3>3, <3>4, <3>5, <3>7, <4>1, SiftsKeep
    <3> QED BY <3>6, <3>7
  <2>4. Len(pkts) \in 1..Len(pkts)
    BY <1>1, <1>5
  <2>5. Sifts(h[Len(pkts)], SubSeq(pkts, 1, Len(pkts)), D)
    BY <2>3, <2>4
  <2>6. SubSeq(pkts, 1, Len(pkts)) = pkts
    OBVIOUS
  <2> QED BY <1>1, <1>2, <1>3, <2>1, <2>5, <2>6
<1> QED BY <1>4, <1>5

\* Lemma: so it is thinner, and holds nothing of D.
LEMMA PurgedThins ==
  ASSUME NEW S, NEW pkts \in Seq(S), NEW D
  PROVE  /\ Purged(pkts, D) \in Seq(S)
         /\ Thins(Purged(pkts, D), pkts)
         /\ \A i \in 1..Len(Purged(pkts, D)) : Purged(pkts, D)[i] \notin D
<1>1. Purged(pkts, D) \in Seq(S) /\ Sifts(Purged(pkts, D), pkts, D)
  BY PurgedSifts
<1> DEFINE t == Purged(pkts, D)
<1> HIDE DEF t
<1>2. PICK at \in [1..Len(t) -> 1..Len(pkts)] :
        /\ \A i, j \in 1..Len(t) : i < j => at[i] < at[j]
        /\ \A i \in 1..Len(t) : t[i] = pkts[at[i]]
        /\ \A k \in 1..Len(pkts) :
             pkts[k] \notin D <=> \E i \in 1..Len(t) : at[i] = k
  BY <1>1 DEF Sifts, t
<1>3. Thins(t, pkts)
  BY <1>2 DEF Thins
<1>4. \A i \in 1..Len(t) : t[i] \notin D
  BY <1>2
<1> QED BY <1>1, <1>3, <1>4 DEF t

\* Lemma: the order that SetToSeq gives to a finite set has every element.
LEMMA OrderOf ==
  ASSUME NEW S, IsFiniteSet(S)
  PROVE  /\ SetToSeq(S) \in Seq(S)
         /\ \A x \in S : \E i \in 1..Len(SetToSeq(S)) : SetToSeq(S)[i] = x
<1> DEFINE n == Cardinality(S)
<1>1. n \in Nat /\ ExistsBijection(1..n, S)
  BY FS_CardinalityType
<1>2. PICK b \in Bijection(1..n, S) : TRUE
  BY <1>1 DEF ExistsBijection
<1>3. b \in [1..n -> S] /\ IsInjective(b)
  BY <1>2 DEF Bijection, Injection, IsInjective
<1>4. SetToSeq(S) \in [1..n -> S] /\ IsInjective(SetToSeq(S))
  BY <1>3 DEF SetToSeq
<1> DEFINE f == SetToSeq(S)
<1> HIDE DEF f
<1>5. f \in Injection(1..n, S)
  BY <1>4 DEF f, Injection, IsInjective
<1>6. Cardinality(1..n) = n
  BY <1>1, FS_Interval
<1> HIDE DEF n
<1>7. f \in Surjection(1..n, S)
  BY <1>5, <1>6, FS_Injection DEF n
<1>8. f \in Seq(S) /\ Len(f) = n
  BY <1>1, <1>4 DEF f
<1>9. \A x \in S : \E i \in 1..n : f[i] = x
  BY <1>7 DEF Surjection
<1> QED BY <1>8, <1>9 DEF f

\* Lemma: getMsgs gives a sequence of packets of the histories.
LEMMA GetMsgsHolds ==
  ASSUME NEW T, NEW n, NEW g, history[n][g] \in [Clients -> Seq(T)]
  PROVE  /\ getMsgs(n, g) \in Seq(T)
         /\ \A i \in 1..Len(getMsgs(n, g)) :
              \E c \in Clients : getMsgs(n, g)[i] \in Kept(n, g, c)
<1> DEFINE order == SetToSeq(Clients)
           seqs == [i \in 1..Len(order) |-> history[n][g][order[i]]]
<1>1. order \in Seq(Clients)
  BY TreeAssumption, OrderOf
<1>2. getMsgs(n, g) = FlattenSeq(seqs)
  BY DEF getMsgs
<1> HIDE DEF order
<1>3. \A i \in 1..Len(order) : order[i] \in Clients
  BY <1>1
<1>4. /\ seqs \in Seq(Seq(T)) /\ Len(seqs) = Len(order)
      /\ \A i \in 1..Len(order) : seqs[i] = history[n][g][order[i]]
  BY <1>1, <1>3
<1> HIDE DEF seqs
<1>5. FlattenSeq(seqs) \in Seq(T) /\ Parts(FlattenSeq(seqs), seqs)
  BY <1>4, FlattenHolds
<1>6. ASSUME NEW i \in 1..Len(FlattenSeq(seqs))
      PROVE  \E c \in Clients : FlattenSeq(seqs)[i] \in Kept(n, g, c)
  <2>1. PICK a \in 1..Len(seqs) : \E u \in 1..Len(seqs[a]) :
               FlattenSeq(seqs)[i] = seqs[a][u]
    BY <1>5 DEF Parts
  <2>2. PICK u \in 1..Len(seqs[a]) : FlattenSeq(seqs)[i] = seqs[a][u]
    BY <2>1
  <2>3. order[a] \in Clients /\ seqs[a] = history[n][g][order[a]]
    BY <1>3, <1>4
  <2>4. DOMAIN seqs[a] = 1..Len(seqs[a])
    BY <2>3
  <2>5. seqs[a][u] \in ToSet(seqs[a])
    BY <2>4 DEF ToSet
  <2> QED BY <2>2, <2>3, <2>5 DEF Kept
<1> QED BY <1>2, <1>5, <1>6

\* Lemma: and so does getAllMsgs.
LEMMA GetAllMsgsHolds ==
  ASSUME NEW T, NEW n, history[n] \in [AllGroups -> [Clients -> Seq(T)]]
  PROVE  /\ getAllMsgs(n) \in Seq(T)
         /\ \A i \in 1..Len(getAllMsgs(n)) : \E g \in AllGroups, c \in Clients :
              getAllMsgs(n)[i] \in Kept(n, g, c)
<1> DEFINE order == SetToSeq(AllGroups)
           seqs == [i \in 1..Len(order) |-> getMsgs(n, order[i])]
<1>0. IsFiniteSet(AllGroups)
  BY TreeAssumption, FS_AddElement DEF AllGroups
<1>1. order \in Seq(AllGroups)
  BY <1>0, OrderOf
<1>2. getAllMsgs(n) = FlattenSeq(seqs)
  BY DEF getAllMsgs
<1> HIDE DEF order
<1>3. \A i \in 1..Len(order) : order[i] \in AllGroups
  BY <1>1
<1>4. \A g \in AllGroups : /\ getMsgs(n, g) \in Seq(T)
        /\ \A i \in 1..Len(getMsgs(n, g)) :
             \E c \in Clients : getMsgs(n, g)[i] \in Kept(n, g, c)
  <2> TAKE g \in AllGroups
  <2>1. history[n][g] \in [Clients -> Seq(T)]
    OBVIOUS
  <2> QED BY <2>1, GetMsgsHolds
<1>5. /\ seqs \in Seq(Seq(T)) /\ Len(seqs) = Len(order)
      /\ \A i \in 1..Len(order) : seqs[i] = getMsgs(n, order[i])
  BY <1>1, <1>3, <1>4
<1> HIDE DEF seqs
<1>6. FlattenSeq(seqs) \in Seq(T) /\ Parts(FlattenSeq(seqs), seqs)
  BY <1>5, FlattenHolds
<1>7. ASSUME NEW i \in 1..Len(FlattenSeq(seqs))
      PROVE  \E g \in AllGroups, c \in Clients :
               FlattenSeq(seqs)[i] \in Kept(n, g, c)
  <2>1. PICK a \in 1..Len(seqs) : \E u \in 1..Len(seqs[a]) :
               FlattenSeq(seqs)[i] = seqs[a][u]
    BY <1>6 DEF Parts
  <2>2. PICK u \in 1..Len(seqs[a]) : FlattenSeq(seqs)[i] = seqs[a][u]
    BY <2>1
  <2>3. order[a] \in AllGroups /\ seqs[a] = getMsgs(n, order[a])
    BY <1>3, <1>5
  <2> QED BY <1>4, <2>2, <2>3
<1> QED BY <1>2, <1>6, <1>7

----------------------------------------------------------------------------
(* The tree *)

\* Lemmas: x is the first of its chain, which goes up to the root ...
LEMMA ChainRises ==
  ASSUME NEW x \in Ends
  PROVE  /\ Chain[x] \in SUBSET Ends
         /\ x \in Chain[x]
         /\ \A y \in Chain[x] : Parent[y] # Root =>
              Parent[y] \in Chain[x] /\ Parent[y] \in Children
<1>1. Chain[x] = {y \in Ends : \A S \in SUBSET Ends :
                                 x \in S /\ Rising(S) => y \in S}
  BY DEF Chain
<1>2. ASSUME NEW y \in Chain[x], Parent[y] # Root
      PROVE  Parent[y] \in Chain[x] /\ Parent[y] \in Children
  <2>1. y \in Ends
    BY <1>1
  <2>2. Parent[y] \in Children
    BY <1>2, <2>1, TreeAssumption DEF Nodes
  <2>3. Parent[y] \in Ends
    BY <2>2 DEF Ends
  <2>4. ASSUME NEW S \in SUBSET Ends, x \in S, Rising(S)
        PROVE  Parent[y] \in S
    <3>1. y \in S
      BY <1>1, <2>4
    <3> QED BY <1>2, <2>4, <3>1 DEF Rising
  <2> QED BY <1>1, <2>2, <2>3, <2>4
<1> QED BY <1>1, <1>2

\* ... and holds nothing that is not needed for this.
LEMMA ChainLeast ==
  ASSUME NEW x \in Ends, NEW S \in SUBSET Ends, x \in S, Rising(S)
  PROVE  Chain[x] \subseteq S
BY DEF Chain

\* Lemma: of two ends of a chain, one is above the other.
LEMMA ChainOrders ==
  ASSUME NEW x \in Ends, NEW y \in Chain[x], NEW z \in Chain[x]
  PROVE  z \in Chain[y] \/ y \in Chain[z]
<1> DEFINE S == {w \in Ends : w \in Chain[y] \/ y \in Chain[w]}
<1>1. y \in Ends /\ S \in SUBSET Ends
  BY ChainRises
<1>2. x \in S
  BY <1>1
<1>3. Rising(S)
  <2> SUFFICES ASSUME NEW w \in S, Parent[w] # Root PROVE Parent[w] \in S
    BY DEF Rising
  <2>0. w \in Ends
    OBVIOUS
  <2>1. Parent[w] \in Chain[w] /\ Parent[w] \in Children
    BY <2>0, ChainRises
  <2>2. Parent[w] \in Ends
    BY <2>1 DEF Ends
  <2>3. CASE w \in Chain[y]
    <3>1. Parent[w] \in Chain[y]
      BY <1>1, <2>3, ChainRises
    <3> QED BY <2>2, <3>1
  <2>4. CASE y \in Chain[w]
    <3> DEFINE U == {w} \cup Chain[Parent[w]]
    <3>1. U \in SUBSET Ends /\ w \in U
      BY <2>0, <2>2, ChainRises
    <3>2. Rising(U)
      BY <2>2, ChainRises DEF Rising
    <3>3. y \in U
      BY <2>0, <2>4, <3>1, <3>2, ChainLeast
    <3>4. CASE y = w
      <4>1. Parent[w] \in Chain[y]
        BY <2>1, <3>4
      <4> QED BY <2>2, <4>1
    <3> QED BY <2>2, <3>3, <3>4
  <2> QED BY <2>3, <2>4
<1>4. z \in S
  BY <1>1, <1>2, <1>3, ChainLeast
<1> QED BY <1>4

\* Lemma: a chain has one end below a node at most.
LEMMA ChainInjective ==
  ASSUME NEW x \in Ends, NEW y \in Chain[x], NEW z \in Chain[x],
         Parent[y] = Parent[z]
  PROVE  y = z
<1>1. PICK depth \in [Nodes -> 0..Cardinality(Children)] :
             \A m \in Children : depth[Parent[m]] < depth[m]
  BY TreeAssumption
<1>2. ASSUME NEW u \in Ends, NEW v \in Chain[u], Parent[u] = Parent[v], u # v
      PROVE  FALSE
  <2>0. Cardinality(Children) \in Nat
    BY TreeAssumption, FS_CardinalityType
  <2>1. \A w \in Ends : Parent[w] \in Nodes /\ depth[Parent[w]] \in Nat
    <3>1. \A w \in Ends : Parent[w] \in Nodes
      BY TreeAssumption
    <3>2. \A n \in Nodes : depth[n] \in Nat
      BY <2>0
    <3> QED BY <3>1, <3>2
  <2> DEFINE S == {u} \cup {w \in Children : depth[w] <= depth[Parent[u]]}
  <2>2. S \in SUBSET Ends /\ u \in S
    BY DEF Ends
  <2>3. Rising(S)
    <3> SUFFICES ASSUME NEW w \in S, Parent[w] # Root PROVE Parent[w] \in S
      BY DEF Rising
    <3>1. w \in Ends
      BY <2>2
    <3>2. Parent[w] \in Children /\ depth[Parent[w]] \in Nat
      BY <2>1, <3>1 DEF Nodes
    <3>3. CASE w = u
      BY <3>2, <3>3
    <3>4. CASE w # u
      <4>1. w \in Children /\ depth[w] <= depth[Parent[u]]
        BY <3>4
      <4>2. depth[Parent[w]] < depth[w] /\ depth[w] \in Nat
        BY <1>1, <2>0, <4>1 DEF Nodes
      <4>3. depth[Parent[w]] <= depth[Parent[u]]
        BY <2>1, <3>2, <4>1, <4>2
      <4> QED BY <3>2, <4>3
    <3> QED BY <3>3, <3>4
  <2>4. v \in S
    BY <2>2, <2>3, ChainLeast
  <2>5. v \in Children /\ depth[v] <= depth[Parent[v]]
    BY <1>2, <2>4
  <2>6. depth[Parent[v]] < depth[v] /\ depth[v] \in Nat
    BY <1>1, <2>0, <2>5 DEF Nodes
  <2>7. depth[Parent[v]] \in Nat
    BY <2>1, <2>5 DEF Ends
  <2> QED BY <2>5, <2>6, <2>7
<1>3. y \in Ends /\ z \in Ends
  BY ChainRises
<1>4. z \in Chain[y] \/ y \in Chain[z]
  BY ChainOrders
<1> QED BY <1>2, <1>3, <1>4

\* Lemma: no link is both an upward and a downward one.
LEMMA LinksDiffer ==
  ASSUME NEW x \in Ends, NEW y \in Ends
  PROVE  /\ Up(x) # Down(y)
         /\ (Up(x) = Up(y) => x = y) /\ (Down(x) = Down(y) => x = y)
         /\ Up(x) \in Links /\ Down(x) \in Links
<1>1. ASSUME Up(x) = Down(y) PROVE FALSE
  <2>1. x = Parent[y] /\ y = Parent[x]
    BY <1>1 DEF Up, Down
  <2>2. x \in Children /\ y \in Children
    BY <2>1, TreeAssumption DEF Ends, Nodes
  <2>3. PICK depth \in [Nodes -> 0..Cardinality(Children)] :
               \A m \in Children : depth[Parent[m]] < depth[m]
    BY TreeAssumption
  <2>4. Cardinality(Children) \in Nat
    BY TreeAssumption, FS_CardinalityType
  <2>5. depth[x] \in Nat /\ depth[y] \in Nat
    BY <2>2, <2>4 DEF Nodes
  <2>6. depth[x] < depth[y] /\ depth[y] < depth[x]
    BY <2>1, <2>2, <2>3
  <2> QED BY <2>5, <2>6
<1> QED BY <1>1 DEF Up, Down, Links

----------------------------------------------------------------------------
(* Queues *)

Packets == Msgs \cup Notes

\* What a link may carry: HELLO_SECO goes from a child node to its parent.
Cargo(l) == IF \E m \in Children : l = Up(m) THEN Packets \cup Hellos ELSE Packets

Queues == {q \in [Links -> Seq(Packets \cup Hellos)] :
             \A l \in Links : q[l] \in Seq(Cargo(l))}

\* Lemma: an empty queue may be any link's, and so may Packets.
LEMMA CargoHolds ==
  ASSUME NEW l
  PROVE  /\ Packets \subseteq Cargo(l) /\ Cargo(l) \subseteq Packets \cup Hellos
         /\ <<>> \in Seq(Cargo(l))
         /\ \A s \in Seq(Packets) : s \in Seq(Cargo(l))
<1>1. Packets \subseteq Cargo(l) /\ Cargo(l) \subseteq Packets \cup Hellos
  BY DEF Cargo
<1>2. <<>> \in Seq(Cargo(l))
  OBVIOUS
<1>3. \A s \in Seq(Packets) : s \in Seq(Cargo(l))
  BY <1>1, SeqMonotonic
<1> QED BY <1>1, <1>2, <1>3

\* Lemma: how a function of the links is one of Queues.
LEMMA QueuesIf ==
  ASSUME NEW q, q = [l \in Links |-> q[l]],
         \A l \in Links : q[l] \in Seq(Cargo(l))
  PROVE  q \in Queues
<1>1. \A l \in Links : q[l] \in Seq(Packets \cup Hellos)
  BY CargoHolds, SeqMonotonic
<1>2. q \in [Links -> Seq(Packets \cup Hellos)]
  BY <1>1
<1> QED BY <1>2 DEF Queues

\* Lemmas: the operators on queues.
LEMMA SentIs ==
  ASSUME NEW q \in Queues, NEW links, NEW pkts \in Seq(Packets)
  PROVE  /\ Sent(q, links, pkts) \in Queues
         /\ \A l \in Links : Sent(q, links, pkts)[l] =
              IF l \in links /\ Open(l) THEN q[l] \o pkts ELSE q[l]
<1> DEFINE r == Sent(q, links, pkts)
<1>1. /\ r = [l \in Links |-> r[l]]
      /\ \A l \in Links : r[l] =
           IF l \in links /\ Open(l) THEN q[l] \o pkts ELSE q[l]
  BY DEF Sent
<1> HIDE DEF r
<1>2. ASSUME NEW l \in Links PROVE r[l] \in Seq(Cargo(l))
  <2>1. q[l] \in Seq(Cargo(l)) /\ pkts \in Seq(Cargo(l))
    BY CargoHolds DEF Queues
  <2>2. q[l] \o pkts \in Seq(Cargo(l))
    BY <2>1
  <2> QED BY <1>1, <2>1, <2>2
<1>3. r \in Queues
  BY <1>1, <1>2, QueuesIf
<1> QED BY <1>1, <1>3 DEF r

\* Lemma: Taken takes the first packet of one link.
LEMMA TakenIs ==
  ASSUME queue \in Queues, NEW k \in Links, queue[k] # <<>>
  PROVE  /\ Taken(k) \in Queues
         /\ \A l \in Links : Taken(k)[l] = IF l = k THEN Tail(queue[l])
                                           ELSE queue[l]
<1> DEFINE r == Taken(k)
<1>1. /\ r = [l \in Links |-> r[l]]
      /\ \A l \in Links : r[l] = IF l = k THEN Tail(queue[l]) ELSE queue[l]
  BY DEF Taken, Queues
<1> HIDE DEF r
<1>2. ASSUME NEW l \in Links PROVE r[l] \in Seq(Cargo(l))
  <2>1. queue[l] \in Seq(Cargo(l))
    BY DEF Queues
  <2>2. l = k => Tail(queue[l]) \in Seq(Cargo(l))
    BY <2>1
  <2> QED BY <1>1, <2>1, <2>2
<1>3. r \in Queues
  BY <1>1, <1>2, QueuesIf
<1> QED BY <1>1, <1>3 DEF r

\* Lemma: a link that is emptied.
LEMMA EmptiedIs ==
  ASSUME NEW q \in Queues, NEW k \in Links
  PROVE  /\ [q EXCEPT ![k] = <<>>] \in Queues
         /\ \A l \in Links : [q EXCEPT ![k] = <<>>][l] =
              IF l = k THEN <<>> ELSE q[l]
<1> DEFINE r == [q EXCEPT ![k] = <<>>]
<1>1. /\ r = [l \in Links |-> r[l]]
      /\ \A l \in Links : r[l] = IF l = k THEN <<>> ELSE q[l]
  BY DEF Queues
<1> HIDE DEF r
<1>2. ASSUME NEW l \in Links PROVE r[l] \in Seq(Cargo(l))
  BY <1>1, CargoHolds DEF Queues
<1>3. r \in Queues
  BY <1>1, <1>2, QueuesIf
<1> QED BY <1>1, <1>3 DEF r

\* Lemma: the packets from place k on with those of D left out.
LEMMA SkippedThins ==
  ASSUME NEW S, NEW pkts \in Seq(S), NEW k \in 0..Len(pkts), NEW D
  PROVE  Skipped(pkts, k, D) \in Seq(S) /\ Thins(Skipped(pkts, k, D), pkts)
<1> DEFINE s == SubSeq(pkts, 1, k)
           t == SubSeq(pkts, k + 1, Len(pkts))
<1>1. s \in Seq(S) /\ t \in Seq(S)
  OBVIOUS
<1>2. pkts = s \o t
  <2>1. CASE Len(pkts) = 0
    <3>1. pkts = <<>> /\ k = 0
      BY <2>1
    <3>2. s = <<>> /\ t = <<>>
      BY <2>1, <3>1, SubSeqEmpty
    <3> QED BY <3>1, <3>2
  <2>2. CASE Len(pkts) # 0
    <3>1. /\ 1 \in 1..(Len(pkts) + 1) /\ k \in (1 - 1)..Len(pkts)
          /\ Len(pkts) \in k..Len(pkts)
      BY <2>2
    <3>2. s \o t = SubSeq(pkts, 1, Len(pkts))
      BY <3>1, ConcatAdjacentSubSeq
    <3> QED BY <3>2, SubSeqFull
  <2> QED BY <2>1, <2>2
<1>3. Skipped(pkts, k, D) = s \o Purged(t, D)
  BY DEF Skipped
<1> HIDE DEF s, t
<1>4. Purged(t, D) \in Seq(S) /\ Thins(Purged(t, D), t)
  BY <1>1, PurgedThins
<1>5. Thins(s, s)
  BY <1>1, ThinsSelf
<1>6. Thins(s \o Purged(t, D), s \o t)
  BY <1>1, <1>4, <1>5, ThinsBoth
<1>7. s \o Purged(t, D) \in Seq(S)
  BY <1>1, <1>4
<1> QED BY <1>2, <1>3, <1>6, <1>7

\* Lemma: deprecated packets are skipped on the links of their node alone.
LEMMA DeprecationsThin ==
  ASSUME NEW q \in Queues, NEW n, NEW D, NEW r \in Deprecations(q, n, D)
  PROVE  /\ r \in Queues
         /\ \A l \in Links : Thins(r[l], q[l])
         /\ \A l \in Links : l[1] # n => r[l] = q[l]
<1> DEFINE touched == {l \in Links : l[1] = n /\ ToSet(q[l]) \cap D # {}}
           cuts == {k \in [touched -> UNION {0..Len(q[l]) : l \in touched}] :
                      \A l \in touched : k[l] <= Len(q[l])}
<1>1. PICK k \in cuts :
        r = [l \in Links |-> IF l \in touched THEN Skipped(q[l], k[l], D)
                             ELSE q[l]]
  BY DEF Deprecations
<1>2. \A l \in Links : r[l] = IF l \in touched THEN Skipped(q[l], k[l], D)
                              ELSE q[l]
  BY <1>1
<1>3. r = [l \in Links |-> r[l]]
  BY <1>1
<1>4. ASSUME NEW l \in Links
      PROVE  /\ r[l] \in Seq(Cargo(l)) /\ Thins(r[l], q[l])
             /\ l[1] # n => r[l] = q[l]
  <2>1. q[l] \in Seq(Cargo(l))
    BY DEF Queues
  <2>2. CASE l \in touched
    <3>1. k \in [touched -> UNION {0..Len(q[x]) : x \in touched}]
      OBVIOUS
    <3>2. k[l] \in UNION {0..Len(q[x]) : x \in touched}
      BY <2>2, <3>1
    <3>3. PICK x \in touched : k[l] \in 0..Len(q[x])
      BY <3>2
    <3>4. k[l] \in Nat /\ Len(q[l]) \in Nat /\ k[l] <= Len(q[l])
      BY <2>1, <2>2, <3>3
    <3>5. k[l] \in 0..Len(q[l])
      BY <3>4
    <3> HIDE DEF cuts
    <3>6. r[l] = Skipped(q[l], k[l], D) /\ l[1] = n
      BY <1>2, <2>2
    <3> QED BY <2>1, <3>5, <3>6, SkippedThins
  <2>3. CASE l \notin touched
    BY <1>2, <2>1, <2>3, ThinsSelf
  <2> QED BY <2>2, <2>3
<1>5. r \in Queues
  BY <1>3, <1>4, QueuesIf
<1> QED BY <1>4, <1>5

----------------------------------------------------------------------------
(* Types *)

JoinStates == [pc : {"idle", "reply", "history", "send"},
               group : AllGroups, rest : Seq(Msgs)]

\* A node has a route to a client only if the client's chain goes through it.
RoutesOK ==
  \A n \in Nodes : \A c \in routes[n] : \E x \in Chain[c] : Parent[x] = n

TypeInv == TypeOK /\ queue \in Queues /\ RoutesOK

\* Lemma: the packets, by their commands.
LEMMA PacketKinds ==
  ASSUME NEW p
  PROVE  /\ p \in Msgs => p.cmd \in MsgCommands /\ p.client \in Clients
                          /\ p.group \in Groups /\ p.n \in Nat /\ p \in Packets
         /\ p \in Notes => p.cmd \in Asks \cup {"CLIENT_DISCONNECTED"}
                           /\ p.client \in Clients /\ p.group \in AllGroups
                           /\ p \in Packets
         /\ p \in Hellos => p.cmd = "HELLO_SECO"
         /\ p \in Packets /\ p.cmd \in MsgCommands => p \in Msgs
         /\ p \in Packets /\ p.cmd \notin MsgCommands => p \in Notes
<1>1. p \in Msgs => p.cmd \in MsgCommands /\ p.client \in Clients
                    /\ p.group \in Groups /\ p.n \in Nat /\ p \in Packets
  BY DEF Msgs, Packets
<1>2. p \in Notes => p.cmd \in Asks \cup {"CLIENT_DISCONNECTED"}
                     /\ p.client \in Clients /\ p.group \in AllGroups
                     /\ p \in Packets
  BY DEF Notes, Packets
<1>3. p \in Hellos => p.cmd = "HELLO_SECO"
  BY DEF Hellos
<1>4. p \in Notes => p.cmd \notin MsgCommands
  BY <1>2 DEF Asks, MsgCommands
<1> QED BY <1>1, <1>2, <1>3, <1>4 DEF Packets

\* Lemma: the head of a queue.
LEMMA HeadIs ==
  ASSUME queue \in Queues, NEW l \in Links, queue[l] # <<>>
  PROVE  /\ Head(queue[l]) \in Cargo(l)
         /\ Head(queue[l]).cmd # "HELLO_SECO" => Head(queue[l]) \in Packets
         /\ Head(queue[l]) = queue[l][1] /\ 1 \in 1..Len(queue[l])
<1>1. queue[l] \in Seq(Cargo(l))
  BY DEF Queues
<1>2. Head(queue[l]) \in Cargo(l) /\ Head(queue[l]) = queue[l][1]
      /\ 1 \in 1..Len(queue[l])
  BY <1>1
<1>3. Head(queue[l]) \in Packets \cup Hellos
  BY <1>2, CargoHolds
<1> QED BY <1>2, <1>3, PacketKinds

\* Lemma: what JoinWithout leaves of the joins.
LEMMA JoinWithoutIs ==
  ASSUME join \in [Clients -> JoinStates], NEW n, NEW D
  PROVE  /\ JoinWithout(n, D) \in [Clients -> JoinStates]
         /\ \A c \in Clients : LET j == JoinWithout(n, D)[c] IN
              /\ j.pc = join[c].pc /\ j.group = join[c].group
              /\ j.rest = IF Parent[c] = n THEN Purged(join[c].rest, D)
                          ELSE join[c].rest
<1> DEFINE w == JoinWithout(n, D)
<1>1. w = [c \in Clients |-> IF Parent[c] = n
             THEN [join[c] EXCEPT !.rest = Purged(@, D)] ELSE join[c]]
  BY DEF JoinWithout
<1>2. ASSUME NEW c \in Clients
      PROVE  /\ w[c] \in JoinStates
             /\ w[c].pc = join[c].pc /\ w[c].group = join[c].group
             /\ w[c].rest = IF Parent[c] = n THEN Purged(join[c].rest, D)
                            ELSE join[c].rest
  <2>1. w[c] = IF Parent[c] = n
                 THEN [join[c] EXCEPT !.rest = Purged(@, D)] ELSE join[c]
    BY <1>1
  <2> HIDE DEF w
  <2>2. join[c] \in JoinStates /\ join[c].rest \in Seq(Msgs)
    BY DEF JoinStates
  <2>3. Purged(join[c].rest, D) \in Seq(Msgs)
    BY <2>2, PurgedThins
  <2> QED BY <2>1, <2>2, <2>3 DEF JoinStates
<1>3. w \in [Clients -> JoinStates]
  BY <1>1, <1>2
<1> QED BY <1>2, <1>3 DEF w

\* Lemma: the type invariant, in the forms that the proofs use.
LEMMA TypeInvIf ==
  ASSUME status \in [Nodes -> {"off", "up", "down", "gone"}],
         exited \subseteq Children,
         conn \in [Clients -> {"off", "on", "closed", "gone"}],
         queue \in Queues,
         join \in [Clients -> JoinStates],
         lookup \in [Children -> Ends \cup {"idle", "null"}],
         secoPPSet \in [Nodes -> SUBSET Children],
         myClients \in [Children -> SUBSET Clients],
         local \in [Nodes -> SUBSET Clients],
         routes \in [Nodes -> SUBSET Clients],
         known \in [Nodes -> SUBSET AllGroups],
         members \in [Nodes -> [AllGroups -> SUBSET Clients]],
         history \in [Nodes -> [AllGroups -> [Clients -> Seq(Msgs)]]],
         \A n \in Nodes, g \in AllGroups, c \in Clients :
           \A p \in ToSet(history[n][g][c]) : p.client = c /\ p.group = g,
         got \in [Clients -> Seq(Packets)],
         requests \in [Clients -> Nat],
         sends \in [Clients -> Nat],
         \A n \in Nodes : \A c \in routes[n] : \E x \in Chain[c] : Parent[x] = n
  PROVE  TypeInv
<1>1. Packets \cup Hellos = Msgs \cup Notes \cup Hellos
  BY DEF Packets
<1>2. queue \in [Links -> Seq(Msgs \cup Notes \cup Hellos)]
  BY <1>1 DEF Queues
<1> QED BY <1>2 DEF TypeInv, TypeOK, Packets, JoinStates, Kept, RoutesOK

\* The same, for the next state.
LEMMA TypeInvAfter ==
  ASSUME status' \in [Nodes -> {"off", "up", "down", "gone"}],
         exited' \subseteq Children,
         conn' \in [Clients -> {"off", "on", "closed", "gone"}],
         queue' \in Queues,
         join' \in [Clients -> JoinStates],
         lookup' \in [Children -> Ends \cup {"idle", "null"}],
         secoPPSet' \in [Nodes -> SUBSET Children],
         myClients' \in [Children -> SUBSET Clients],
         local' \in [Nodes -> SUBSET Clients],
         routes' \in [Nodes -> SUBSET Clients],
         known' \in [Nodes -> SUBSET AllGroups],
         members' \in [Nodes -> [AllGroups -> SUBSET Clients]],
         history' \in [Nodes -> [AllGroups -> [Clients -> Seq(Msgs)]]],
         \A n \in Nodes, g \in AllGroups, c \in Clients :
           \A p \in ToSet(history'[n][g][c]) : p.client = c /\ p.group = g,
         got' \in [Clients -> Seq(Packets)],
         requests' \in [Clients -> Nat],
         sends' \in [Clients -> Nat],
         \A n \in Nodes : \A c \in routes'[n] : \E x \in Chain[c] : Parent[x] = n
  PROVE  TypeInv'
<1>1. Packets \cup Hellos = Msgs \cup Notes \cup Hellos
  BY DEF Packets
<1>2. queue' \in [Links -> Seq(Msgs \cup Notes \cup Hellos)]
  BY <1>1 DEF Queues
<1> QED BY <1>2 DEF TypeInv, TypeOK, Packets, JoinStates, Kept, RoutesOK

\* Lemma: what the type invariant says.
LEMMA TypeInvIs ==
  ASSUME TypeInv
  PROVE  /\ status \in [Nodes -> {"off", "up", "down", "gone"}]
         /\ exited \subseteq Children
         /\ conn \in [Clients -> {"off", "on", "closed", "gone"}]
         /\ queue \in Queues
         /\ join \in [Clients -> JoinStates]
         /\ lookup \in [Children -> Ends \cup {"idle", "null"}]
         /\ secoPPSet \in [Nodes -> SUBSET Children]
         /\ myClients \in [Children -> SUBSET Clients]
         /\ local \in [Nodes -> SUBSET Clients]
         /\ routes \in [Nodes -> SUBSET Clients]
         /\ known \in [Nodes -> SUBSET AllGroups]
         /\ members \in [Nodes -> [AllGroups -> SUBSET Clients]]
         /\ history \in [Nodes -> [AllGroups -> [Clients -> Seq(Msgs)]]]
         /\ \A n \in Nodes, g \in AllGroups, c \in Clients :
              \A p \in ToSet(history[n][g][c]) : p.client = c /\ p.group = g
         /\ got \in [Clients -> Seq(Packets)]
         /\ requests \in [Clients -> Nat]
         /\ sends \in [Clients -> Nat]
         /\ \A n \in Nodes : \A c \in routes[n] :
              \E x \in Chain[c] : Parent[x] = n
BY DEF TypeInv, TypeOK, Packets, JoinStates, Kept, RoutesOK

\* Lemma: getMsgs and getAllMsgs under the type invariant.
LEMMA HistoriesAre ==
  ASSUME TypeInv, NEW n \in Nodes
  PROVE  /\ getAllMsgs(n) \in Seq(Msgs)
         /\ \A i \in 1..Len(getAllMsgs(n)) : \E g \in AllGroups, c \in Clients :
              getAllMsgs(n)[i] \in Kept(n, g, c)
         /\ \A g \in AllGroups : /\ getMsgs(n, g) \in Seq(Msgs)
              /\ \A i \in 1..Len(getMsgs(n, g)) :
                   \E c \in Clients : getMsgs(n, g)[i] \in Kept(n, g, c)
<1>1. history[n] \in [AllGroups -> [Clients -> Seq(Msgs)]]
  BY TypeInvIs
<1>2. \A g \in AllGroups : history[n][g] \in [Clients -> Seq(Msgs)]
  BY <1>1
<1> QED BY <1>1, <1>2, GetMsgsHolds, GetAllMsgsHolds

\* Lemma: messages are packets.
LEMMA MsgsArePackets ==
  ASSUME NEW s \in Seq(Msgs)
  PROVE  s \in Seq(Packets)
BY SeqMonotonic DEF Packets

\* Lemma: the initial state has the types.
LEMMA TypeInit ==
  ASSUME Init
  PROVE  TypeInv
<1> USE DEF Init
<1>1. status \in [Nodes -> {"off", "up", "down", "gone"}]
  OBVIOUS
<1>2. \A l : <<>> \in Seq(Cargo(l))
  BY CargoHolds
<1>3. queue \in Queues
  <2>1. /\ queue = [l \in Links |-> queue[l]]
        /\ \A l \in Links : queue[l] \in Seq(Cargo(l))
    BY <1>2
  <2> QED BY <2>1, QueuesIf
<1>4. join \in [Clients -> JoinStates]
  <2>1. Idle \in JoinStates
    BY DEF Idle, JoinStates, AllGroups
  <2> QED BY <2>1
<1>5. known \in [Nodes -> SUBSET AllGroups]
  BY DEF AllGroups
<1>6. history \in [Nodes -> [AllGroups -> [Clients -> Seq(Msgs)]]]
  OBVIOUS
<1>7. ASSUME NEW n \in Nodes, NEW g \in AllGroups, NEW c \in Clients
      PROVE  ToSet(history[n][g][c]) = {}
  <2>1. history[n][g][c] = <<>>
    OBVIOUS
  <2> QED BY <2>1 DEF ToSet
<1>8. got \in [Clients -> Seq(Packets)]
  OBVIOUS
<1>9. \A n \in Nodes : routes[n] = {}
  OBVIOUS
<1>10. /\ exited \subseteq Children
       /\ conn \in [Clients -> {"off", "on", "closed", "gone"}]
       /\ lookup \in [Children -> Ends \cup {"idle", "null"}]
       /\ secoPPSet \in [Nodes -> SUBSET Children]
       /\ myClients \in [Children -> SUBSET Clients]
       /\ local \in [Nodes -> SUBSET Clients]
       /\ routes \in [Nodes -> SUBSET Clients]
       /\ members \in [Nodes -> [AllGroups -> SUBSET Clients]]
       /\ requests \in [Clients -> Nat]
       /\ sends \in [Clients -> Nat]
  OBVIOUS
<1> HIDE DEF Init
<1> QED BY <1>1, <1>3, <1>4, <1>5, <1>6, <1>7, <1>8, <1>9, <1>10, TypeInvIf

----------------------------------------------------------------------------
(* Steps *)

\* From the queues q on, packets may be skipped in each link, and the links
\* that are open get pkts.
FlowsFrom(q, links, pkts) ==
  /\ queue' \in Queues
  /\ \A l \in Links :
       \/ Thins(queue'[l], q[l])
       \/ l \in links /\ Open(l) /\ Thins(queue'[l], q[l] \o pkts)

Flows(links, pkts) ==
  /\ queue' \in Queues
  /\ \A l \in Links :
       \/ Thins(queue'[l], queue[l])
       \/ l \in links /\ Open(l) /\ Thins(queue'[l], queue[l] \o pkts)

\* Lemmas: what is sent after packets have been taken or skipped.
LEMMA FlowsFromIf ==
  ASSUME NEW q \in Queues, NEW r \in Queues,
         \A l \in Links : Thins(r[l], q[l]),
         NEW links, NEW pkts \in Seq(Packets), queue' = Sent(r, links, pkts)
  PROVE  FlowsFrom(q, links, pkts)
<1>1. /\ queue' \in Queues
      /\ \A l \in Links : queue'[l] =
           IF l \in links /\ Open(l) THEN r[l] \o pkts ELSE r[l]
  BY SentIs
<1>2. ASSUME NEW l \in Links, l \in links, Open(l)
      PROVE  Thins(queue'[l], q[l] \o pkts)
  <2>1. queue'[l] = r[l] \o pkts
    BY <1>1, <1>2
  <2>2. /\ r[l] \in Seq(Packets \cup Hellos)
        /\ q[l] \in Seq(Packets \cup Hellos)
    BY DEF Queues
  <2>3. pkts \in Seq(Packets \cup Hellos)
    BY SeqMonotonic
  <2>4. Thins(pkts, pkts)
    BY ThinsSelf
  <2>5. Thins(r[l] \o pkts, q[l] \o pkts)
    BY <2>2, <2>3, <2>4, ThinsBoth
  <2> QED BY <2>1, <2>5
<1>3. ASSUME NEW l \in Links, ~(l \in links /\ Open(l))
      PROVE  Thins(queue'[l], q[l])
  BY <1>1, <1>3
<1> QED BY <1>1, <1>2, <1>3 DEF FlowsFrom

\* Lemma: the same, from the queues as they are.
LEMMA FlowsIf ==
  ASSUME queue \in Queues, NEW q \in Queues,
         \A l \in Links : Thins(q[l], queue[l]),
         NEW links, NEW pkts \in Seq(Packets), queue' = Sent(q, links, pkts)
  PROVE  Flows(links, pkts)
<1>1. FlowsFrom(queue, links, pkts)
  BY FlowsFromIf
<1> QED BY <1>1 DEF FlowsFrom, Flows

\* Lemma: taking a packet leaves the queues thinner.
LEMMA TakenThins ==
  ASSUME queue \in Queues, NEW k \in Links, queue[k] # <<>>
  PROVE  Taken(k) \in Queues /\ \A l \in Links : Thins(Taken(k)[l], queue[l])
<1>1. ASSUME NEW l \in Links PROVE Thins(Taken(k)[l], queue[l])
  <2>1. queue[l] \in Seq(Packets \cup Hellos)
    BY DEF Queues
  <2> QED BY <2>1, TakenIs, ThinsTail, ThinsSelf
<1> QED BY <1>1, TakenIs

\* Lemma: and so does emptying a link.
LEMMA EmptiedThins ==
  ASSUME queue \in Queues, NEW k \in Links
  PROVE  /\ [queue EXCEPT ![k] = <<>>] \in Queues
         /\ \A l \in Links : Thins([queue EXCEPT ![k] = <<>>][l], queue[l])
<1>1. ASSUME NEW l \in Links
      PROVE  Thins([queue EXCEPT ![k] = <<>>][l], queue[l])
  <2>1. queue[l] \in Seq(Packets \cup Hellos)
    BY DEF Queues
  <2> QED BY <2>1, EmptiedIs, ThinsNone, ThinsSelf
<1> QED BY <1>1, EmptiedIs

\* Lemma: and doing nothing.
LEMMA QueueThins ==
  ASSUME queue \in Queues
  PROVE  \A l \in Links : Thins(queue[l], queue[l])
<1>1. \A l \in Links : queue[l] \in Seq(Packets \cup Hellos)
  BY DEF Queues
<1> QED BY <1>1, ThinsSelf

\* Lemmas: a packet is taken, and perhaps others are sent.
LEMMA FlowsTakenSent ==
  ASSUME queue \in Queues, NEW k \in Links, queue[k] # <<>>,
         NEW links, NEW pkts \in Seq(Packets),
         queue' = Sent(Taken(k), links, pkts)
  PROVE  Flows(links, pkts)
BY TakenThins, FlowsIf

\* Lemma: packets are sent, none is taken.
LEMMA FlowsSent ==
  ASSUME queue \in Queues, NEW links, NEW pkts \in Seq(Packets),
         queue' = Sent(queue, links, pkts)
  PROVE  Flows(links, pkts)
BY QueueThins, FlowsIf

\* Lemma: packets are taken, none is sent.
LEMMA FlowsThinned ==
  ASSUME NEW q \in Queues, \A l \in Links : Thins(q[l], queue[l]), queue' = q
  PROVE  Flows({}, <<>>)
BY DEF Flows

\* Lemma: the queues stay.
LEMMA FlowsNot ==
  ASSUME queue \in Queues, UNCHANGED queue
  PROVE  Flows({}, <<>>)
BY QueueThins, FlowsThinned

\* Lemma: the same after packets have been marked deprecated.
LEMMA FlowsDeprecated ==
  ASSUME queue \in Queues, NEW q \in Queues,
         \A l \in Links : Thins(q[l], queue[l]), NEW n, NEW D,
         NEW r \in Deprecations(q, n, D),
         NEW links, NEW pkts \in Seq(Packets), queue' = Sent(r, links, pkts)
  PROVE  Flows(links, pkts) /\ FlowsFrom(q, links, pkts)
<1>1. r \in Queues /\ \A l \in Links : Thins(r[l], q[l])
  BY DeprecationsThin
<1>2. \A l \in Links : Thins(r[l], queue[l])
  BY <1>1, ThinsTrans
<1> QED BY <1>1, <1>2, FlowsIf, FlowsFromIf

----------------------------------------------------------------------------
(* The steps, one by one: the types, and what they send *)

\* Lemmas: what a DownDataLink or an UpDataLink reads.
LEMMA ReadsIs ==
  ASSUME TypeInv, NEW x \in Ends, NEW cmds, Reads(x, cmds)
  PROVE  /\ Up(x) \in Links /\ Down(x) \in Links /\ Parent[x] \in Nodes
         /\ queue[Up(x)] # <<>> /\ status[Parent[x]] = "up"
         /\ Head(queue[Up(x)]).cmd \in cmds
         /\ "HELLO_SECO" \notin cmds =>
              Head(queue[Up(x)]) \in Packets /\ <<Head(queue[Up(x)])>> \in Seq(Packets)
<1>1. /\ Up(x) \in Links /\ Down(x) \in Links /\ Parent[x] \in Nodes
      /\ queue[Up(x)] # <<>> /\ status[Parent[x]] = "up"
      /\ Head(queue[Up(x)]).cmd \in cmds
  BY TreeAssumption DEF Reads, Links
<1>2. queue \in Queues
  BY TypeInvIs
<1> QED BY <1>1, <1>2, HeadIs

\* Lemma: what UpDataLink reads.
LEMMA HearsIs ==
  ASSUME TypeInv, NEW m \in Children, NEW cmds, Hears(m, cmds)
  PROVE  /\ Up(m) \in Links /\ Down(m) \in Links /\ m \in Nodes /\ m \in Ends
         /\ Parent[m] \in Nodes
         /\ queue[Down(m)] # <<>> /\ status[m] = "up"
         /\ Head(queue[Down(m)]).cmd \in cmds
         /\ Head(queue[Down(m)]) \in Packets
         /\ <<Head(queue[Down(m)])>> \in Seq(Packets)
<1>1. /\ Up(m) \in Links /\ Down(m) \in Links /\ m \in Nodes /\ m \in Ends
      /\ Parent[m] \in Nodes
      /\ queue[Down(m)] # <<>> /\ status[m] = "up"
      /\ Head(queue[Down(m)]).cmd \in cmds
  BY TreeAssumption DEF Hears, Links, Ends, Nodes
<1>2. queue \in Queues
  BY TypeInvIs
<1>3. \A x \in Children : Down(m) # Up(x)
  BY LinksDiffer DEF Ends
<1>4. Cargo(Down(m)) = Packets
  BY <1>3 DEF Cargo
<1> QED BY <1>1, <1>2, <1>4, HeadIs

\* Lemma: another set of members of one group.
LEMMA MembersWith ==
  ASSUME NEW M \in [Nodes -> [AllGroups -> SUBSET Clients]], NEW n \in Nodes,
         NEW g \in AllGroups, NEW S \in SUBSET Clients
  PROVE  [M EXCEPT ![n][g] = S] \in [Nodes -> [AllGroups -> SUBSET Clients]]
<1>1. M[n] \in [AllGroups -> SUBSET Clients]
  OBVIOUS
<1>2. [M[n] EXCEPT ![g] = S] \in [AllGroups -> SUBSET Clients]
  BY <1>1
<1> QED BY <1>2

\* Lemmas, one for each action: the types are kept, and what is sent.
LEMMA ConnectTypes ==
  ASSUME TypeInv, NEW c \in Clients, Connect(c)
  PROVE  TypeInv' /\ Flows({}, <<>>)
<1> USE DEF Connect, counters
<1>1. Flows({}, <<>>)
  BY TypeInvIs, FlowsNot
<1>2. /\ conn' \in [Clients -> {"off", "on", "closed", "gone"}]
      /\ local' \in [Nodes -> SUBSET Clients]
      /\ routes' \in [Nodes -> SUBSET Clients]
      /\ myClients' \in [Children -> SUBSET Clients]
  <2>1. conn' \in [Clients -> {"off", "on", "closed", "gone"}]
    BY TypeInvIs
  <2>2. local' \in [Nodes -> SUBSET Clients]
    BY TypeInvIs
  <2>3. \A n \in Nodes : routes[n] \in SUBSET Clients
    BY TypeInvIs
  <2>4. routes' \in [Nodes -> SUBSET Clients]
    BY <2>3
  <2>5. \A m \in Children : myClients[m] \in SUBSET Clients
    BY TypeInvIs
  <2>6. myClients' \in [Children -> SUBSET Clients]
    BY <2>5
  <2> QED BY <2>1, <2>2, <2>4, <2>6
<1>3. ASSUME NEW n \in Nodes, NEW d \in routes'[n]
      PROVE  \E x \in Chain[d] : Parent[x] = n
  <2>1. routes'[n] = IF \E x \in Chain[c] : Parent[x] = n
                     THEN routes[n] \cup {c} ELSE routes[n]
    OBVIOUS
  <2> QED BY <1>3, <2>1, TypeInvIs
<1>4. queue' \in Queues
  BY <1>1 DEF Flows
<1>5. TypeInv'
  BY <1>2, <1>3, <1>4, TypeInvIs, TypeInvAfter
<1> QED BY <1>1, <1>5

\* Lemma: a client sends a request.
LEMMA RequestTypes ==
  ASSUME TypeInv, NEW c \in Clients, Request(c)
  PROVE  /\ TypeInv'
         /\ \E p \in Notes : p.cmd \in Asks /\ Flows({Up(c)}, <<p>>)
<1>1. PICK ask : ask = Requests[c][requests[c] + 1]
  OBVIOUS
<1>2. ask \in Asks \X AllGroups
  <2>1. Requests[c] \in Seq(Asks \X AllGroups)
    BY TreeAssumption
  <2>2. requests[c] \in Nat /\ requests[c] < Len(Requests[c])
    BY TypeInvIs DEF Request
  <2>3. requests[c] + 1 \in 1..Len(Requests[c])
    BY <2>1, <2>2
  <2> QED BY <1>1, <2>1, <2>3
<1>3. PICK p : p = Packet(ask[1], c, ask[2], 0)
  OBVIOUS
<1>4. p \in Notes /\ p.cmd \in Asks /\ <<p>> \in Seq(Packets)
  BY <1>2, <1>3 DEF Packet, Notes, Packets
<1>5. queue' = Sent(queue, {Up(c)}, <<p>>)
  BY <1>1, <1>3 DEF Request
<1>6. Flows({Up(c)}, <<p>>)
  BY <1>4, <1>5, TypeInvIs, FlowsSent
<1>7. queue' \in Queues
  BY <1>6 DEF Flows
<1>8. requests' \in [Clients -> Nat]
  BY TypeInvIs DEF Request
<1>9. TypeInv'
  BY <1>7, <1>8, TypeInvIs, TypeInvAfter DEF Request, tables
<1> QED BY <1>4, <1>6, <1>9

\* Lemma: a client sends a message of its own.
LEMMA SendTypes ==
  ASSUME TypeInv, NEW c \in Clients, NEW cmd \in Kinds, NEW g \in Groups,
         Send(c, cmd, g)
  PROVE  /\ TypeInv'
         /\ \E p \in Msgs : p.client = c /\ Flows({Up(c)}, <<p>>)
<1>1. PICK p : p = Packet(cmd, c, g, sends[c] + 1)
  OBVIOUS
<1>2. p \in Msgs /\ p.client = c /\ <<p>> \in Seq(Packets)
  BY <1>1, TypeInvIs, TreeAssumption DEF Packet, Msgs, Packets
<1>3. queue' = Sent(queue, {Up(c)}, <<p>>)
  BY <1>1 DEF Send
<1>4. Flows({Up(c)}, <<p>>)
  BY <1>2, <1>3, TypeInvIs, FlowsSent
<1>5. queue' \in Queues
  BY <1>4 DEF Flows
<1>6. sends' \in [Clients -> Nat]
  BY TypeInvIs DEF Send
<1>7. TypeInv'
  BY <1>5, <1>6, TypeInvIs, TypeInvAfter DEF Send, tables
<1> QED BY <1>2, <1>4, <1>7

\* Lemma: a client receives.
LEMMA ClientReceiveTypes ==
  ASSUME TypeInv, NEW c \in Clients, ClientReceive(c)
  PROVE  TypeInv' /\ Flows({}, <<>>)
<1>1. c \in Ends /\ Down(c) \in Links /\ queue[Down(c)] # <<>>
  BY LinksDiffer DEF Ends, ClientReceive
<1>2. Taken(Down(c)) \in Queues
      /\ \A l \in Links : Thins(Taken(Down(c))[l], queue[l])
  BY <1>1, TypeInvIs, TakenThins
<1>3. Flows({}, <<>>)
  BY <1>2, FlowsThinned DEF ClientReceive
<1>4. queue' \in Queues
  BY <1>3 DEF Flows
<1>5. Head(queue[Down(c)]) \in Packets
  <2>1. \A x \in Children : Down(c) # Up(x)
    BY <1>1, LinksDiffer DEF Ends
  <2>2. Cargo(Down(c)) = Packets
    BY <2>1 DEF Cargo
  <2> QED BY <1>1, <2>2, TypeInvIs, HeadIs
<1>6. got' \in [Clients -> Seq(Packets)]
  <2>1. got[c] \in Seq(Packets)
    BY TypeInvIs
  <2>2. Append(got[c], Head(queue[Down(c)])) \in Seq(Packets)
    BY <1>5, <2>1
  <2> QED BY <2>2, TypeInvIs DEF ClientReceive
<1>7. TypeInv'
  BY <1>4, <1>6, TypeInvIs, TypeInvAfter DEF ClientReceive, tables, counters
<1> QED BY <1>3, <1>7

\* Lemma: a client closes.
LEMMA DisconnectTypes ==
  ASSUME TypeInv, NEW c \in Clients, Disconnect(c)
  PROVE  TypeInv' /\ Flows({}, <<>>)
<1>1. Down(c) \in Links
  BY LinksDiffer DEF Ends
<1>2. Flows({}, <<>>)
  BY <1>1, TypeInvIs, EmptiedThins, FlowsThinned DEF Disconnect
<1>3. queue' \in Queues
  BY <1>2 DEF Flows
<1>4. conn' \in [Clients -> {"off", "on", "closed", "gone"}]
  BY TypeInvIs DEF Disconnect
<1>5. TypeInv'
  BY <1>3, <1>4, TypeInvIs, TypeInvAfter DEF Disconnect, tables, counters
<1> QED BY <1>2, <1>5

\* Lemma: a new child is sent the histories.
LEMMA SynchronizeTypes ==
  ASSUME TypeInv, NEW m \in Children, synchronizeNewSeCo(m)
  PROVE  TypeInv' /\ Flows({Down(m)}, getAllMsgs(Parent[m]))
<1>1. m \in Ends /\ Reads(m, {"HELLO_SECO"})
  BY DEF Ends, synchronizeNewSeCo
<1>2. Up(m) \in Links /\ queue[Up(m)] # <<>> /\ Parent[m] \in Nodes
  BY <1>1, ReadsIs
<1>3. getAllMsgs(Parent[m]) \in Seq(Packets)
  BY <1>2, HistoriesAre, MsgsArePackets
<1>4. Flows({Down(m)}, getAllMsgs(Parent[m]))
  BY <1>2, <1>3, TypeInvIs, FlowsTakenSent DEF synchronizeNewSeCo
<1>5. queue' \in Queues
  BY <1>4 DEF Flows
<1>6. secoPPSet' \in [Nodes -> SUBSET Children]
  BY TypeInvIs DEF synchronizeNewSeCo
<1>7. TypeInv'
  BY <1>5, <1>6, TypeInvIs, TypeInvAfter DEF synchronizeNewSeCo, counters
<1> QED BY <1>4, <1>7

\* Lemma: the root answers a join with a history.
LEMMA RootJoinTypes ==
  ASSUME TypeInv, NEW c \in Clients, RootJoin(c)
  PROVE  /\ TypeInv'
         /\ \E p \in Notes, g \in AllGroups :
              p.cmd \in Asks /\ Flows({Down(c)}, <<p>> \o getMsgs(Root, g))
<1>1. c \in Ends /\ Reads(c, {"JOIN_GROUP"}) /\ Root \in Nodes
  BY DEF Ends, RootJoin, Nodes
<1>2. PICK p : p = Head(queue[Up(c)])
  OBVIOUS
<1>3. /\ Up(c) \in Links /\ queue[Up(c)] # <<>> /\ p \in Packets
      /\ p.cmd = "JOIN_GROUP"
  BY <1>1, <1>2, ReadsIs
<1>4. p \in Notes /\ p.cmd \in Asks /\ p.group \in AllGroups
  BY <1>3, PacketKinds DEF MsgCommands, Asks
<1>5. getMsgs(Root, p.group) \in Seq(Packets)
  BY <1>1, <1>4, HistoriesAre, MsgsArePackets
<1>6. <<p>> \o getMsgs(Root, p.group) \in Seq(Packets)
  BY <1>3, <1>5
<1>7. queue' = Sent(Taken(Up(c)), {Down(c)}, <<p>> \o getMsgs(Root, p.group))
  BY <1>2 DEF RootJoin
<1>8. Flows({Down(c)}, <<p>> \o getMsgs(Root, p.group))
  BY <1>3, <1>6, <1>7, TypeInvIs, FlowsTakenSent
<1>9. queue' \in Queues
  BY <1>8 DEF Flows
<1>10. known' \in [Nodes -> SUBSET AllGroups]
  BY <1>2, <1>4, TypeInvIs DEF RootJoin
<1>11. members' \in [Nodes -> [AllGroups -> SUBSET Clients]]
  <2>1. members' = [members EXCEPT ![Root][p.group] =
                      members[Root][p.group] \cup {c}]
    BY <1>2 DEF RootJoin
  <2>2. members[Root][p.group] \cup {c} \in SUBSET Clients
    BY <1>1, <1>4, TypeInvIs
  <2> QED BY <1>1, <1>4, <2>1, <2>2, TypeInvIs, MembersWith
<1>12. TypeInv'
  BY <1>9, <1>10, <1>11, TypeInvIs, TypeInvAfter DEF RootJoin, counters
<1> QED BY <1>4, <1>8, <1>12

\* Lemma: another node begins a join.
LEMMA KnownJoinTypes ==
  ASSUME TypeInv, NEW c \in Clients, KnownJoin(c)
  PROVE  TypeInv' /\ Flows({}, <<>>)
<1>1. c \in Ends /\ Reads(c, {"JOIN_GROUP"})
  BY DEF Ends, KnownJoin
<1>2. PICK p, n : p = Head(queue[Up(c)]) /\ n = Parent[c]
  OBVIOUS
<1>3. /\ Up(c) \in Links /\ queue[Up(c)] # <<>> /\ p \in Packets
      /\ p.cmd = "JOIN_GROUP" /\ n \in Nodes
  BY <1>1, <1>2, ReadsIs
<1>4. p.group \in AllGroups
  BY <1>3, PacketKinds DEF MsgCommands
<1>5. Flows({}, <<>>)
  BY <1>3, TypeInvIs, TakenThins, FlowsThinned DEF KnownJoin
<1>6. queue' \in Queues
  BY <1>5 DEF Flows
<1>7. join' \in [Clients -> JoinStates]
  <2>1. [pc |-> "reply", group |-> p.group, rest |-> <<>>] \in JoinStates
    BY <1>4 DEF JoinStates
  <2> QED BY <1>2, <2>1, TypeInvIs DEF KnownJoin
<1>8. members' \in [Nodes -> [AllGroups -> SUBSET Clients]]
  <2>1. members' = [members EXCEPT ![n][p.group] =
                      members[n][p.group] \cup {c}]
    BY <1>2 DEF KnownJoin
  <2>2. members[n][p.group] \cup {c} \in SUBSET Clients
    BY <1>3, <1>4, TypeInvIs
  <2> QED BY <1>3, <1>4, <2>1, <2>2, TypeInvIs, MembersWith
<1>9. TypeInv'
  BY <1>6, <1>7, <1>8, TypeInvIs, TypeInvAfter DEF KnownJoin, counters
<1> QED BY <1>5, <1>9

\* Lemma: it answers the join.
LEMMA JoinReplyTypes ==
  ASSUME TypeInv, NEW c \in Clients, JoinReply(c)
  PROVE  /\ TypeInv'
         /\ \E p \in Notes : p.cmd \in Asks /\ Flows({Down(c)}, <<p>>)
<1>1. PICK p : p = Packet("JOIN_GROUP", c, join[c].group, 0)
  OBVIOUS
<1>2. p \in Notes /\ p.cmd \in Asks /\ <<p>> \in Seq(Packets)
  BY <1>1, TypeInvIs DEF Packet, Notes, Packets, Asks, JoinStates
<1>3. queue' = Sent(queue, {Down(c)}, <<p>>)
  BY <1>1 DEF JoinReply
<1>4. Flows({Down(c)}, <<p>>)
  BY <1>2, <1>3, TypeInvIs, FlowsSent
<1>5. queue' \in Queues
  BY <1>4 DEF Flows
<1>6. join' \in [Clients -> JoinStates]
  <2> DEFINE j == [join[c] EXCEPT !.pc = "history"]
  <2>0. join[c] \in JoinStates
    BY TypeInvIs
  <2>1. j \in JoinStates
    BY <2>0 DEF JoinStates
  <2>2. join' = [join EXCEPT ![c] = j]
    BY DEF JoinReply
  <2> HIDE DEF j
  <2> QED BY <2>1, <2>2, TypeInvIs
<1>7. TypeInv'
  BY <1>5, <1>6, TypeInvIs, TypeInvAfter DEF JoinReply, tables, counters
<1> QED BY <1>2, <1>4, <1>7

\* Lemma: it copies the history.
LEMMA JoinHistoryTypes ==
  ASSUME TypeInv, NEW c \in Clients, JoinHistory(c)
  PROVE  TypeInv' /\ Flows({}, <<>>)
<1>1. Flows({}, <<>>)
  BY TypeInvIs, FlowsNot DEF JoinHistory
<1>2. queue' \in Queues
  BY <1>1 DEF Flows
<1>3. join' \in [Clients -> JoinStates]
  <2>1. Parent[c] \in Nodes /\ join[c] \in JoinStates /\ join[c].group \in AllGroups
    BY TypeInvIs, TreeAssumption DEF Ends, JoinStates
  <2>2. getMsgs(Parent[c], join[c].group) \in Seq(Msgs)
    BY <2>1, HistoriesAre
  <2> DEFINE j == [join[c] EXCEPT !.pc = "send",
                                  !.rest = getMsgs(Parent[c], join[c].group)]
  <2>3. j \in JoinStates
    BY <2>1, <2>2 DEF JoinStates
  <2>4. join' = [join EXCEPT ![c] = j]
    BY DEF JoinHistory
  <2> HIDE DEF j
  <2> QED BY <2>3, <2>4, TypeInvIs
<1>4. TypeInv'
  BY <1>2, <1>3, TypeInvIs, TypeInvAfter DEF JoinHistory, tables, counters
<1> QED BY <1>1, <1>4

\* Lemma: it sends the copy, packet by packet.
LEMMA JoinSendTypes ==
  ASSUME TypeInv, NEW c \in Clients, JoinSend(c)
  PROVE  /\ TypeInv'
         /\ \/ Flows({}, <<>>)
            \/ \E i \in 1..Len(join[c].rest) :
                 Flows({Down(c)}, <<join[c].rest[i]>>)
         /\ \A d \in Clients : Thins(join'[d].rest, join[d].rest)
<1>1. PICK rest : rest = join[c].rest
  OBVIOUS
<1>2. rest \in Seq(Msgs) /\ join[c] \in JoinStates
  BY <1>1, TypeInvIs DEF JoinStates
<1>3. \/ Flows({}, <<>>)
      \/ \E i \in 1..Len(join[c].rest) : Flows({Down(c)}, <<join[c].rest[i]>>)
  <2>1. CASE rest = <<>>
    BY <1>1, <2>1, TypeInvIs, FlowsNot DEF JoinSend
  <2>2. CASE rest # <<>>
    <3>1. 1 \in 1..Len(rest) /\ Head(rest) = rest[1] /\ rest[1] \in Msgs
      BY <1>2, <2>2
    <3>2. queue' = Sent(queue, {Down(c)}, <<rest[1]>>)
      BY <1>1, <2>2, <3>1 DEF JoinSend
    <3>3. <<rest[1]>> \in Seq(Packets)
      BY <3>1 DEF Packets
    <3>4. Flows({Down(c)}, <<rest[1]>>)
      BY <3>2, <3>3, TypeInvIs, FlowsSent
    <3> QED BY <1>1, <3>1, <3>4
  <2> QED BY <2>1, <2>2
<1>4. queue' \in Queues
  BY <1>3 DEF Flows
<1> DEFINE j == IF Len(rest) <= 1 THEN Idle ELSE [join[c] EXCEPT !.rest = Tail(rest)]
<1>5. join' = [join EXCEPT ![c] = j]
  BY <1>1 DEF JoinSend
<1>6. j \in JoinStates /\ Thins(j.rest, rest)
  <2>1. CASE Len(rest) <= 1
    <3>1. j = Idle /\ Idle.rest = <<>>
      BY <2>1 DEF Idle
    <3>2. Idle \in JoinStates
      BY DEF Idle, JoinStates, AllGroups
    <3> HIDE DEF j
    <3> QED BY <3>1, <3>2, ThinsNone
  <2>2. CASE ~(Len(rest) <= 1)
    <3>1. j = [join[c] EXCEPT !.rest = Tail(rest)] /\ rest # <<>>
      BY <1>2, <2>2
    <3>2. Tail(rest) \in Seq(Msgs) /\ Thins(Tail(rest), rest)
      BY <1>2, <3>1, ThinsTail
    <3> HIDE DEF j
    <3>3. j \in JoinStates /\ j.rest = Tail(rest)
      BY <1>2, <3>1, <3>2 DEF JoinStates
    <3> QED BY <3>2, <3>3
  <2> QED BY <2>1, <2>2
<1> HIDE DEF j
<1>7. join' \in [Clients -> JoinStates]
  BY <1>5, <1>6, TypeInvIs
<1>8. ASSUME NEW d \in Clients PROVE Thins(join'[d].rest, join[d].rest)
  <2>1. join[d].rest \in Seq(Msgs)
    BY TypeInvIs DEF JoinStates
  <2>2. CASE d = c
    BY <1>1, <1>5, <1>6, <2>2, TypeInvIs
  <2>3. CASE d # c
    <3>1. join'[d] = join[d]
      BY <1>5, <2>3, TypeInvIs
    <3> QED BY <2>1, <3>1, ThinsSelf
  <2> QED BY <2>2, <2>3
<1>9. TypeInv'
  BY <1>4, <1>7, TypeInvIs, TypeInvAfter DEF JoinSend, tables, counters
<1> QED BY <1>3, <1>8, <1>9

\* Lemma: a request is answered.
LEMMA DownReplyTypes ==
  ASSUME TypeInv, NEW x \in Ends, DownReply(x)
  PROVE  /\ TypeInv'
         /\ \E p \in Notes : p.cmd \in Asks /\ Flows({Down(x)}, <<p>>)
<1> DEFINE cmds == IF x \in Clients THEN {"GET_GROUP_ID"}
                   ELSE {"GET_GROUP_ID", "JOIN_GROUP"}
<1>1. Reads(x, cmds)
  BY DEF DownReply
<1>2. PICK p, n : p = Head(queue[Up(x)]) /\ n = Parent[x]
  OBVIOUS
<1>3. /\ Up(x) \in Links /\ queue[Up(x)] # <<>> /\ p \in Packets
      /\ p.cmd \in cmds /\ n \in Nodes /\ <<p>> \in Seq(Packets)
  <2>1. "HELLO_SECO" \notin cmds
    OBVIOUS
  <2> HIDE DEF cmds
  <2> QED BY <1>1, <1>2, <2>1, ReadsIs
<1>4. p \in Notes /\ p.cmd \in Asks /\ p.group \in AllGroups
  BY <1>3, PacketKinds DEF MsgCommands, Asks
<1>5. queue' = Sent(Taken(Up(x)), {Down(x)}, <<p>>)
  BY <1>2 DEF DownReply
<1>6. Flows({Down(x)}, <<p>>)
  BY <1>3, <1>5, TypeInvIs, FlowsTakenSent
<1>7. queue' \in Queues
  BY <1>6 DEF Flows
<1>8. known' \in [Nodes -> SUBSET AllGroups]
  <2>1. known' = [known EXCEPT ![n] = known[n] \cup {p.group}]
    BY <1>2 DEF DownReply
  <2>2. known[n] \cup {p.group} \in SUBSET AllGroups
    BY <1>3, <1>4, TypeInvIs
  <2> QED BY <2>1, <2>2, TypeInvIs
<1>9. TypeInv'
  BY <1>7, <1>8, TypeInvIs, TypeInvAfter DEF DownReply, counters
<1> QED BY <1>4, <1>6, <1>9

\* Lemma: a request goes up.
LEMMA DownForwardTypes ==
  ASSUME TypeInv, NEW x \in Ends, DownForward(x)
  PROVE  /\ TypeInv'
         /\ \E p \in Notes : p.cmd \in Asks /\ Flows({Up(Parent[x])}, <<p>>)
<1>1. Reads(x, {"GET_GROUP_ID", "JOIN_GROUP"})
  BY DEF DownForward
<1>2. PICK p : p = Head(queue[Up(x)])
  OBVIOUS
<1>3. /\ Up(x) \in Links /\ queue[Up(x)] # <<>> /\ p \in Packets
      /\ p.cmd \in {"GET_GROUP_ID", "JOIN_GROUP"} /\ <<p>> \in Seq(Packets)
  BY <1>1, <1>2, ReadsIs
<1>4. p \in Notes /\ p.cmd \in Asks
  BY <1>3, PacketKinds DEF MsgCommands, Asks
<1>5. queue' = Sent(Taken(Up(x)), {Up(Parent[x])}, <<p>>)
  BY <1>2 DEF DownForward
<1>6. Flows({Up(Parent[x])}, <<p>>)
  BY <1>3, <1>5, TypeInvIs, FlowsTakenSent
<1>7. queue' \in Queues
  BY <1>6 DEF Flows
<1>8. TypeInv'
  BY <1>7, TypeInvIs, TypeInvAfter DEF DownForward, tables, counters
<1> QED BY <1>4, <1>6, <1>8

\* Lemma: a client leaves a group.
LEMMA LeaveGroupTypes ==
  ASSUME TypeInv, NEW c \in Clients, leaveGroup(c)
  PROVE  TypeInv' /\ Flows({}, <<>>)
<1>1. c \in Ends /\ Reads(c, {"LEAVE_GROUP"})
  BY DEF Ends, leaveGroup
<1>2. PICK p, n : p = Head(queue[Up(c)]) /\ n = Parent[c]
  OBVIOUS
<1>3. /\ Up(c) \in Links /\ queue[Up(c)] # <<>> /\ p \in Packets
      /\ p.cmd = "LEAVE_GROUP" /\ n \in Nodes
  BY <1>1, <1>2, ReadsIs
<1>4. p.group \in AllGroups
  BY <1>3, PacketKinds DEF MsgCommands
<1>5. Flows({}, <<>>)
  BY <1>3, TypeInvIs, TakenThins, FlowsThinned DEF leaveGroup
<1>6. queue' \in Queues
  BY <1>5 DEF Flows
<1>7. members' \in [Nodes -> [AllGroups -> SUBSET Clients]]
  <2>1. \/ members' = members
        \/ members' = [members EXCEPT ![n][p.group] = members[n][p.group] \ {c}]
    BY <1>2 DEF leaveGroup
  <2>2. members[n][p.group] \ {c} \in SUBSET Clients
    BY <1>3, <1>4, TypeInvIs
  <2>3. [members EXCEPT ![n][p.group] = members[n][p.group] \ {c}]
          \in [Nodes -> [AllGroups -> SUBSET Clients]]
    BY <1>3, <1>4, <2>2, TypeInvIs, MembersWith
  <2> QED BY <2>1, <2>3, TypeInvIs
<1>8. TypeInv'
  BY <1>6, <1>7, TypeInvIs, TypeInvAfter DEF leaveGroup, counters
<1> QED BY <1>5, <1>8

\* Lemma: a message is ignored.
LEMMA IgnoreMessageTypes ==
  ASSUME TypeInv, NEW c \in Clients, IgnoreMessage(c)
  PROVE  TypeInv' /\ Flows({}, <<>>)
<1>1. c \in Ends /\ Reads(c, MsgCommands)
  BY DEF Ends, IgnoreMessage
<1>2. Up(c) \in Links /\ queue[Up(c)] # <<>>
  BY <1>1, ReadsIs
<1>3. Flows({}, <<>>)
  BY <1>2, TypeInvIs, TakenThins, FlowsThinned DEF IgnoreMessage
<1>4. queue' \in Queues
  BY <1>3 DEF Flows
<1>5. TypeInv'
  BY <1>4, TypeInvIs, TypeInvAfter DEF IgnoreMessage, tables, counters
<1> QED BY <1>3, <1>5

\* Lemma: the elements of a sequence that has one more.
LEMMA AppendHolds ==
  ASSUME NEW S, NEW s \in Seq(S), NEW e \in S
  PROVE  ToSet(Append(s, e)) = ToSet(s) \cup {e}
<1> DEFINE t == Append(s, e)
<1>1. /\ Len(s) \in Nat /\ DOMAIN s = 1..Len(s) /\ DOMAIN t = 1..(Len(s) + 1)
      /\ t[Len(s) + 1] = e /\ \A i \in 1..Len(s) : t[i] = s[i]
  BY AppendProperties
<1> HIDE DEF t
<1>2. \A i \in 1..(Len(s) + 1) : i \in 1..Len(s) \/ i = Len(s) + 1
  BY <1>1
<1>3. /\ Len(s) + 1 \in 1..(Len(s) + 1)
      /\ \A i \in 1..Len(s) : i \in 1..(Len(s) + 1)
  BY <1>1
<1>4. ToSet(t) = ToSet(s) \cup {e}
  BY <1>1, <1>2, <1>3 DEF ToSet
<1> QED BY <1>4 DEF t

\* Lemma: routing a message, whichever thread does it.
LEMMA RouteTypes ==
  ASSUME TypeInv, NEW n \in Nodes, NEW k \in Links, queue[k] # <<>>,
         NEW p \in Msgs, NEW targets, Route(n, k, p, targets)
  PROVE  TypeInv' /\ Flows(targets, <<p>>)
<1> DEFINE clean == IF p.cmd = "SYNC_MSG" THEN Kept(n, p.group, p.client) ELSE {}
           kept == IF p.cmd = "SYNC_MSG" THEN <<p>>
                   ELSE Append(history[n][p.group][p.client], p)
<1>1. p.group \in AllGroups /\ p.client \in Clients /\ <<p>> \in Seq(Packets)
  BY PacketKinds DEF AllGroups
<1>2. PICK D : D = clean
  OBVIOUS
<1>3. join' = JoinWithout(n, D)
  BY <1>2 DEF Route
<1>4. PICK r \in Deprecations(Taken(k), n, D) : queue' = Sent(r, targets, <<p>>)
  BY <1>2 DEF Route
<1>5. Flows(targets, <<p>>)
  <2>1. PICK q : q = Taken(k)
    OBVIOUS
  <2>2. q \in Queues /\ \A l \in Links : Thins(q[l], queue[l])
    BY <2>1, TypeInvIs, TakenThins
  <2>3. r \in Deprecations(q, n, D)
    BY <2>1
  <2> QED BY <1>1, <1>4, <2>2, <2>3, TypeInvIs, FlowsDeprecated
<1>6. queue' \in Queues
  BY <1>5 DEF Flows
<1>7. join' \in [Clients -> JoinStates]
  BY <1>3, TypeInvIs, JoinWithoutIs
<1>8. /\ history' \in [Nodes -> [AllGroups -> [Clients -> Seq(Msgs)]]]
      /\ \A x \in Nodes, g \in AllGroups, c \in Clients :
           \A u \in ToSet(history'[x][g][c]) : u.client = c /\ u.group = g
  <2>1. CASE history' = history
    BY <2>1, TypeInvIs
  <2>2. CASE history' = [history EXCEPT ![n][p.group][p.client] = kept]
    <3>1. history[n][p.group][p.client] \in Seq(Msgs)
      BY <1>1, TypeInvIs
    <3>2. kept \in Seq(Msgs)
      BY <3>1
    <3>3. \A u \in ToSet(kept) : u = p \/ u \in ToSet(history[n][p.group][p.client])
      <4>1. CASE p.cmd = "SYNC_MSG"
        <5>1. kept = <<p>>
          BY <4>1
        <5>2. ToSet(<<p>>) = {p}
          BY DEF ToSet
        <5> QED BY <5>1, <5>2
      <4>2. CASE p.cmd # "SYNC_MSG"
        <5> DEFINE old == history[n][p.group][p.client]
        <5>1. kept = Append(old, p)
          BY <4>2
        <5> HIDE DEF old, kept
        <5>2. ToSet(kept) = ToSet(old) \cup {p}
          BY <3>1, <5>1, AppendHolds DEF old
        <5> QED BY <5>2 DEF old
      <4> QED BY <4>1, <4>2
    <3> HIDE DEF kept
    <3>4. \A x \in Nodes, g \in AllGroups, c \in Clients : history'[x][g][c] =
            IF x = n /\ g = p.group /\ c = p.client THEN kept
            ELSE history[x][g][c]
      BY <1>1, <2>2, TypeInvIs
    <3>5. history' \in [Nodes -> [AllGroups -> [Clients -> Seq(Msgs)]]]
      <4> DEFINE hg == [history[n][p.group] EXCEPT ![p.client] = kept]
                 hn == [history[n] EXCEPT ![p.group] = hg]
      <4>1. history[n] \in [AllGroups -> [Clients -> Seq(Msgs)]]
        BY TypeInvIs
      <4>2. history[n][p.group] \in [Clients -> Seq(Msgs)]
        BY <1>1, <4>1
      <4>3. hg \in [Clients -> Seq(Msgs)]
        BY <3>2, <4>2
      <4>4. history' = [history EXCEPT ![n] = hn]
        BY <2>2
      <4> HIDE DEF hg
      <4>5. hn \in [AllGroups -> [Clients -> Seq(Msgs)]]
        BY <4>1, <4>3
      <4> HIDE DEF hn
      <4> QED BY <4>4, <4>5, TypeInvIs
    <3>6. ASSUME NEW x \in Nodes, NEW g \in AllGroups, NEW c \in Clients,
                 NEW u \in ToSet(history'[x][g][c])
          PROVE  u.client = c /\ u.group = g
      <4>1. CASE x = n /\ g = p.group /\ c = p.client
        <5>1. u = p \/ u \in ToSet(history[x][g][c])
          BY <3>3, <3>4, <3>6, <4>1
        <5> QED BY <4>1, <5>1, TypeInvIs
      <4>2. CASE ~(x = n /\ g = p.group /\ c = p.client)
        <5>1. history'[x][g][c] = history[x][g][c]
          BY <3>4, <4>2
        <5> QED BY <3>6, <5>1, TypeInvIs
      <4> QED BY <4>1, <4>2
    <3> QED BY <3>5, <3>6
  <2> QED BY <2>1, <2>2 DEF Route
<1>9. TypeInv'
  BY <1>6, <1>7, <1>8, TypeInvIs, TypeInvAfter DEF Route, counters
<1> QED BY <1>5, <1>9

\* Lemma: a DownDataLink routes a message.
LEMMA DownRouteTypes ==
  ASSUME TypeInv, NEW x \in Ends, routeToGroup(x)
  PROVE  /\ TypeInv'
         /\ \E p \in Msgs :
              /\ p = queue[Up(x)][1] /\ 1 \in 1..Len(queue[Up(x)])
              /\ Route(Parent[x], Up(x), p, DownTargets(Parent[x], x, p.group))
              /\ Flows(DownTargets(Parent[x], x, p.group), <<p>>)
<1>1. PICK p : p = Head(queue[Up(x)])
  OBVIOUS
<1>2. "HELLO_SECO" \notin MsgCommands
  BY DEF MsgCommands
<1>3. /\ Up(x) \in Links /\ queue[Up(x)] # <<>> /\ p \in Packets
      /\ p.cmd \in MsgCommands /\ Parent[x] \in Nodes
  BY <1>1, <1>2, ReadsIs DEF routeToGroup
<1>4. p \in Msgs /\ p = queue[Up(x)][1] /\ 1 \in 1..Len(queue[Up(x)])
  BY <1>1, <1>3, PacketKinds, TypeInvIs, HeadIs
<1>5. PICK targets : targets = DownTargets(Parent[x], x, p.group)
  OBVIOUS
<1>6. Route(Parent[x], Up(x), p, targets)
  BY <1>1, <1>5 DEF routeToGroup
<1>7. TypeInv' /\ Flows(targets, <<p>>)
  BY <1>3, <1>4, <1>6, RouteTypes
<1> QED BY <1>4, <1>5, <1>6, <1>7

\* Lemma: UpDataLink routes a message.
LEMMA UpRouteTypes ==
  ASSUME TypeInv, NEW m \in Children, RouteToGroup(m)
  PROVE  /\ TypeInv'
         /\ \E p \in Msgs :
              /\ p = queue[Down(m)][1] /\ 1 \in 1..Len(queue[Down(m)])
              /\ Route(m, Down(m), p, UpTargets(m, p.group))
              /\ Flows(UpTargets(m, p.group), <<p>>)
<1>1. PICK p : p = Head(queue[Down(m)])
  OBVIOUS
<1>3. /\ Down(m) \in Links /\ queue[Down(m)] # <<>> /\ p \in Packets
      /\ p.cmd \in MsgCommands /\ m \in Nodes
  BY <1>1, HearsIs DEF RouteToGroup
<1>4. p \in Msgs /\ p = queue[Down(m)][1] /\ 1 \in 1..Len(queue[Down(m)])
  BY <1>1, <1>3, PacketKinds, TypeInvIs, HeadIs
<1>5. PICK targets : targets = UpTargets(m, p.group)
  OBVIOUS
<1>6. Route(m, Down(m), p, targets)
  BY <1>1, <1>5 DEF RouteToGroup
<1>7. TypeInv' /\ Flows(targets, <<p>>)
  BY <1>3, <1>4, <1>6, RouteTypes
<1> QED BY <1>4, <1>5, <1>6, <1>7

\* Lemma: the tables after the cleanup of the clients in cs at node n.
LEMMA CleanupIs ==
  ASSUME TypeInv, NEW n \in Nodes, NEW cs, CleanupTables(n, cs)
  PROVE  /\ local' \in [Nodes -> SUBSET Clients]
         /\ routes' \in [Nodes -> SUBSET Clients]
         /\ members' \in [Nodes -> [AllGroups -> SUBSET Clients]]
         /\ history' \in [Nodes -> [AllGroups -> [Clients -> Seq(Msgs)]]]
         /\ \A x \in Nodes : local'[x] \subseteq local[x]
         /\ \A x \in Nodes : routes'[x] \subseteq routes[x]
         /\ \A x \in Nodes, g \in AllGroups, c \in Clients : history'[x][g][c] =
              IF x = n /\ c \in cs THEN <<>> ELSE history[x][g][c]
<1> USE DEF CleanupTables
<1>1. local' \in [Nodes -> SUBSET Clients]
      /\ \A x \in Nodes : local'[x] \subseteq local[x]
  BY TypeInvIs
<1>2. routes' \in [Nodes -> SUBSET Clients]
      /\ \A x \in Nodes : routes'[x] \subseteq routes[x]
  BY TypeInvIs
<1>3. members' \in [Nodes -> [AllGroups -> SUBSET Clients]]
  <2> DEFINE mn == [g \in AllGroups |-> members[n][g] \ cs]
  <2>1. mn \in [AllGroups -> SUBSET Clients]
    BY TypeInvIs
  <2>2. members' = [members EXCEPT ![n] = mn]
    OBVIOUS
  <2> HIDE DEF mn
  <2> QED BY <2>1, <2>2, TypeInvIs
<1> DEFINE hn == [g \in AllGroups |->
                    [c \in Clients |-> IF c \in cs THEN <<>>
                                       ELSE history[n][g][c]]]
<1>4. history' = [history EXCEPT ![n] = hn]
  OBVIOUS
<1>5. \A g \in AllGroups, c \in Clients :
        hn[g][c] = IF c \in cs THEN <<>> ELSE history[n][g][c]
  OBVIOUS
<1>6. hn \in [AllGroups -> [Clients -> Seq(Msgs)]]
  <2>1. \A g \in AllGroups, c \in Clients : history[n][g][c] \in Seq(Msgs)
    BY TypeInvIs
  <2> QED BY <2>1
<1> HIDE DEF hn
<1>7. history' \in [Nodes -> [AllGroups -> [Clients -> Seq(Msgs)]]]
  BY <1>4, <1>6, TypeInvIs
<1>8. \A x \in Nodes, g \in AllGroups, c \in Clients : history'[x][g][c] =
        IF x = n /\ c \in cs THEN <<>> ELSE history[x][g][c]
  BY <1>4, <1>5, TypeInvIs
<1> QED BY <1>1, <1>2, <1>3, <1>7, <1>8

\* The packets that tell of the end of clients in cs.
Obituaries(cs) == {news \in Seq(Notes) : \A i \in 1..Len(news) :
  news[i].cmd = "CLIENT_DISCONNECTED" /\ news[i].client \in cs}

\* Lemma: burying the clients in cs at node n, whichever thread does it.
LEMMA BuryTypes ==
  ASSUME TypeInv, NEW n \in Nodes, NEW q \in Queues,
         \A l \in Links : Thins(q[l], queue[l]),
         NEW cs \in SUBSET Clients, NEW targets, Bury(n, q, cs, targets),
         status' \in [Nodes -> {"off", "up", "down", "gone"}],
         conn' \in [Clients -> {"off", "on", "closed", "gone"}]
  PROVE  /\ TypeInv'
         /\ \E news \in Obituaries(cs) :
              Flows(targets, news) /\ FlowsFrom(q, targets, news)
<1> DEFINE order == SetToSeq(cs)
           news == [i \in 1..Len(order) |->
                      Packet("CLIENT_DISCONNECTED", order[i], DISCONNECTIONS, 0)]
<1>1. IsFiniteSet(cs)
  BY TreeAssumption, FS_Subset
<1>2. order \in Seq(cs)
  BY <1>1, OrderOf
<1>3. PICK D : D = KeptFrom(n, cs)
  OBVIOUS
<1>4. PICK r \in Deprecations(q, n, D) : queue' = Sent(r, targets, news)
  BY <1>3 DEF Bury
<1> HIDE DEF order
<1>5. \A i \in 1..Len(order) : order[i] \in cs
  BY <1>2
<1>6. news \in Seq(Notes) /\ Len(news) = Len(order)
      /\ \A i \in 1..Len(order) : news[i] =
           Packet("CLIENT_DISCONNECTED", order[i], DISCONNECTIONS, 0)
  <2>1. \A i \in 1..Len(order) :
          Packet("CLIENT_DISCONNECTED", order[i], DISCONNECTIONS, 0) \in Notes
    BY <1>5 DEF Packet, Notes, AllGroups
  <2>2. Len(order) \in Nat
    BY <1>2
  <2> QED BY <2>1, <2>2
<1> HIDE DEF news
<1>7. news \in Seq(Packets)
  BY <1>6, SeqMonotonic DEF Packets
<1>8. news \in Obituaries(cs)
  <2>1. \A i \in 1..Len(news) :
          news[i].cmd = "CLIENT_DISCONNECTED" /\ news[i].client \in cs
    <3> SUFFICES ASSUME NEW i \in 1..Len(news)
                 PROVE  news[i].cmd = "CLIENT_DISCONNECTED"
                        /\ news[i].client \in cs
      OBVIOUS
    <3>1. news[i] = Packet("CLIENT_DISCONNECTED", order[i], DISCONNECTIONS, 0)
      BY <1>6
    <3>2. order[i] \in cs
      BY <1>5, <1>6
    <3> QED BY <3>1, <3>2 DEF Packet
  <2> QED BY <1>6, <2>1 DEF Obituaries
<1>9. Flows(targets, news) /\ FlowsFrom(q, targets, news)
  BY <1>4, <1>7, TypeInvIs, FlowsDeprecated
<1>10. queue' \in Queues
  BY <1>9 DEF Flows
<1>11. join' \in [Clients -> JoinStates]
  BY <1>3, TypeInvIs, JoinWithoutIs DEF Bury
<1>12. CleanupTables(n, cs)
  BY DEF Bury
<1>13. /\ local' \in [Nodes -> SUBSET Clients]
       /\ routes' \in [Nodes -> SUBSET Clients]
       /\ members' \in [Nodes -> [AllGroups -> SUBSET Clients]]
       /\ history' \in [Nodes -> [AllGroups -> [Clients -> Seq(Msgs)]]]
       /\ \A x \in Nodes : routes'[x] \subseteq routes[x]
       /\ \A x \in Nodes, g \in AllGroups, c \in Clients : history'[x][g][c] =
            IF x = n /\ c \in cs THEN <<>> ELSE history[x][g][c]
  BY <1>12, CleanupIs
<1>14. \A x \in Nodes, g \in AllGroups, c \in Clients :
         \A u \in ToSet(history'[x][g][c]) : u.client = c /\ u.group = g
  <2> SUFFICES ASSUME NEW x \in Nodes, NEW g \in AllGroups, NEW c \in Clients,
                      NEW u \in ToSet(history'[x][g][c])
               PROVE  u.client = c /\ u.group = g
    OBVIOUS
  <2>1. ToSet(<<>>) = {}
    BY DEF ToSet
  <2>2. u \in ToSet(history[x][g][c])
    BY <1>13, <2>1
  <2> QED BY <2>2, TypeInvIs
<1>15. \A x \in Nodes : \A c \in routes'[x] : \E y \in Chain[c] : Parent[y] = x
  BY <1>13, TypeInvIs
<1>16. /\ exited' = exited /\ lookup' = lookup /\ secoPPSet' = secoPPSet
       /\ myClients' = myClients /\ known' = known /\ got' = got
       /\ requests' = requests /\ sends' = sends
  BY DEF Bury, counters
<1>17. TypeInv'
  BY <1>10, <1>11, <1>13, <1>14, <1>15, <1>16, TypeInvIs, TypeInvAfter
<1> QED BY <1>8, <1>9, <1>17

\* Lemma: the news of an end come from below.
LEMMA DownGoneTypes ==
  ASSUME TypeInv, NEW m \in Children, DownGone(m)
  PROVE  /\ TypeInv'
         /\ \E p \in Notes, q \in Queues :
              LET cs == {p.client}
                  n == Parent[m]
                  targets == DownTargets(n, m, DISCONNECTIONS) IN
              /\ p = queue[Up(m)][1] /\ 1 \in 1..Len(queue[Up(m)])
              /\ p.cmd = "CLIENT_DISCONNECTED"
              /\ q = Taken(Up(m)) /\ Bury(n, q, cs, targets)
              /\ \E news \in Obituaries(cs) :
                   Flows(targets, news) /\ FlowsFrom(q, targets, news)
<1>1. PICK p, q, targets, n : /\ p = Head(queue[Up(m)]) /\ q = Taken(Up(m))
                              /\ n = Parent[m]
                              /\ targets = DownTargets(n, m, DISCONNECTIONS)
  OBVIOUS
<1>2. m \in Ends /\ Reads(m, {"CLIENT_DISCONNECTED"})
  BY DEF Ends, DownGone
<1>3. /\ Up(m) \in Links /\ queue[Up(m)] # <<>> /\ p \in Packets
      /\ p.cmd = "CLIENT_DISCONNECTED" /\ n \in Nodes
  BY <1>1, <1>2, ReadsIs
<1>4. p \in Notes /\ p = queue[Up(m)][1] /\ 1 \in 1..Len(queue[Up(m)])
  BY <1>1, <1>3, PacketKinds, TypeInvIs, HeadIs DEF MsgCommands
<1>5. {p.client} \in SUBSET Clients
  BY <1>4, PacketKinds
<1>6. q \in Queues /\ \A l \in Links : Thins(q[l], queue[l])
  BY <1>1, <1>3, TypeInvIs, TakenThins
<1>7. Bury(n, q, {p.client}, targets)
  BY <1>1 DEF DownGone
<1>8. /\ status' \in [Nodes -> {"off", "up", "down", "gone"}]
      /\ conn' \in [Clients -> {"off", "on", "closed", "gone"}]
  BY TypeInvIs DEF DownGone
<1>9. /\ TypeInv'
      /\ \E news \in Obituaries({p.client}) :
           Flows(targets, news) /\ FlowsFrom(q, targets, news)
  BY <1>3, <1>5, <1>6, <1>7, <1>8, BuryTypes
<1> QED BY <1>1, <1>3, <1>4, <1>6, <1>7, <1>9

\* Lemma: they come from above.
LEMMA UpGoneTypes ==
  ASSUME TypeInv, NEW m \in Children, UpGone(m)
  PROVE  /\ TypeInv'
         /\ \E p \in Notes, q \in Queues :
              LET cs == {p.client}
                  targets == UpTargets(m, DISCONNECTIONS) IN
              /\ p = queue[Down(m)][1] /\ 1 \in 1..Len(queue[Down(m)])
              /\ p.cmd = "CLIENT_DISCONNECTED"
              /\ q = Taken(Down(m)) /\ Bury(m, q, cs, targets)
              /\ \E news \in Obituaries(cs) :
                   Flows(targets, news) /\ FlowsFrom(q, targets, news)
<1>1. PICK p, q, targets : /\ p = Head(queue[Down(m)]) /\ q = Taken(Down(m))
                           /\ targets = UpTargets(m, DISCONNECTIONS)
  OBVIOUS
<1>2. Hears(m, {"CLIENT_DISCONNECTED"})
  BY DEF UpGone
<1>3. /\ Down(m) \in Links /\ queue[Down(m)] # <<>> /\ p \in Packets
      /\ p.cmd = "CLIENT_DISCONNECTED" /\ m \in Nodes
  BY <1>1, <1>2, HearsIs
<1>4. p \in Notes /\ p = queue[Down(m)][1] /\ 1 \in 1..Len(queue[Down(m)])
  BY <1>1, <1>3, PacketKinds, TypeInvIs, HeadIs DEF MsgCommands
<1>5. {p.client} \in SUBSET Clients
  BY <1>4, PacketKinds
<1>6. q \in Queues /\ \A l \in Links : Thins(q[l], queue[l])
  BY <1>1, <1>3, TypeInvIs, TakenThins
<1>7. Bury(m, q, {p.client}, targets)
  BY <1>1 DEF UpGone
<1>8. /\ status' \in [Nodes -> {"off", "up", "down", "gone"}]
      /\ conn' \in [Clients -> {"off", "on", "closed", "gone"}]
  BY TypeInvIs DEF UpGone
<1>9. /\ TypeInv'
      /\ \E news \in Obituaries({p.client}) :
           Flows(targets, news) /\ FlowsFrom(q, targets, news)
  BY <1>3, <1>5, <1>6, <1>7, <1>8, BuryTypes
<1> QED BY <1>1, <1>3, <1>4, <1>6, <1>7, <1>9

\* Lemma: the thread of a client ends.
LEMMA ClientGoneTypes ==
  ASSUME TypeInv, NEW c \in Clients, ClientGone(c)
  PROVE  /\ TypeInv'
         /\ \E q \in Queues :
              LET n == Parent[c]
                  targets == DownTargets(n, c, DISCONNECTIONS) IN
              /\ q = [queue EXCEPT ![Up(c)] = <<>>] /\ Bury(n, q, {c}, targets)
              /\ \E news \in Obituaries({c}) :
                   Flows(targets, news) /\ FlowsFrom(q, targets, news)
<1>1. PICK q, targets, n : /\ q = [queue EXCEPT ![Up(c)] = <<>>]
                           /\ n = Parent[c]
                           /\ targets = DownTargets(n, c, DISCONNECTIONS)
  OBVIOUS
<1>2. Up(c) \in Links /\ n \in Nodes
  BY <1>1, TreeAssumption, LinksDiffer DEF Ends
<1>3. q \in Queues /\ \A l \in Links : Thins(q[l], queue[l])
  BY <1>1, <1>2, TypeInvIs, EmptiedThins
<1>4. Bury(n, q, {c}, targets)
  BY <1>1 DEF ClientGone
<1>5. /\ status' \in [Nodes -> {"off", "up", "down", "gone"}]
      /\ conn' \in [Clients -> {"off", "on", "closed", "gone"}]
  BY TypeInvIs DEF ClientGone
<1>6. /\ TypeInv'
      /\ \E news \in Obituaries({c}) :
           Flows(targets, news) /\ FlowsFrom(q, targets, news)
  BY <1>2, <1>3, <1>4, <1>5, BuryTypes
<1> QED BY <1>1, <1>3, <1>4, <1>6

\* Lemma: the thread of a child node ends.
LEMMA NodeGoneTypes ==
  ASSUME TypeInv, NEW m \in Children, NodeGone(m)
  PROVE  /\ TypeInv'
         /\ \E q \in Queues, cs \in SUBSET Clients :
              LET n == Parent[m]
                  targets == DownTargets(n, m, DISCONNECTIONS) IN
              /\ cs = myClients[m]
              /\ q = [queue EXCEPT ![Up(m)] = <<>>] /\ Bury(n, q, cs, targets)
              /\ \E news \in Obituaries(cs) :
                   Flows(targets, news) /\ FlowsFrom(q, targets, news)
<1>1. PICK q, targets, n, cs :
        /\ q = [queue EXCEPT ![Up(m)] = <<>>] /\ n = Parent[m]
        /\ targets = DownTargets(n, m, DISCONNECTIONS) /\ cs = myClients[m]
  OBVIOUS
<1>2. Up(m) \in Links /\ n \in Nodes
  BY <1>1, TreeAssumption, LinksDiffer DEF Ends
<1>3. q \in Queues /\ \A l \in Links : Thins(q[l], queue[l])
  BY <1>1, <1>2, TypeInvIs, EmptiedThins
<1>4. Bury(n, q, cs, targets)
  BY <1>1 DEF NodeGone
<1>5. /\ status' \in [Nodes -> {"off", "up", "down", "gone"}]
      /\ conn' \in [Clients -> {"off", "on", "closed", "gone"}]
  BY TypeInvIs DEF NodeGone
<1>6. cs \in SUBSET Clients
  BY <1>1, TypeInvIs
<1>7. /\ TypeInv'
      /\ \E news \in Obituaries(cs) :
           Flows(targets, news) /\ FlowsFrom(q, targets, news)
  BY <1>2, <1>3, <1>4, <1>5, <1>6, BuryTypes
<1> QED BY <1>1, <1>3, <1>4, <1>6, <1>7

\* Lemma: UpDataLink looks up a route.
LEMMA UpLookupTypes ==
  ASSUME TypeInv, NEW m \in Children, UpLookup(m)
  PROVE  TypeInv' /\ Flows({}, <<>>)
<1>1. Flows({}, <<>>)
  BY TypeInvIs, FlowsNot DEF UpLookup
<1>2. queue' \in Queues
  BY <1>1 DEF Flows
<1>3. PICK c : c = Head(queue[Down(m)]).client
  OBVIOUS
<1>4. lookup' = [lookup EXCEPT ![m] = IF c \in routes[m] THEN Toward(m, c)
                                      ELSE "null"]
  BY <1>3 DEF UpLookup
<1>5. c \in routes[m] => Toward(m, c) \in Ends
  <2> SUFFICES ASSUME c \in routes[m] PROVE Toward(m, c) \in Ends
    OBVIOUS
  <2>1. m \in Nodes
    BY DEF Nodes
  <2>2. c \in Ends
    BY <2>1, TypeInvIs DEF Ends
  <2>3. \E x \in Chain[c] : Parent[x] = m
    BY <2>1, TypeInvIs
  <2>4. Toward(m, c) \in Chain[c]
    BY <2>3 DEF Toward
  <2> QED BY <2>2, <2>4, ChainRises
<1>6. lookup' \in [Children -> Ends \cup {"idle", "null"}]
  BY <1>4, <1>5, TypeInvIs
<1>7. TypeInv'
  BY <1>2, <1>6, TypeInvIs, TypeInvAfter DEF UpLookup, tables, counters
<1> QED BY <1>1, <1>7

\* Lemma: it answers a client of its node.
LEMMA UpReplyTypes ==
  ASSUME TypeInv, NEW m \in Children, UpReply(m)
  PROVE  /\ TypeInv'
         /\ \E p \in Notes, g \in AllGroups :
              /\ p.cmd \in Asks
              /\ \/ Flows({<<m, lookup[m]>>}, <<p>> \o getMsgs(m, g))
                 \/ Flows({<<m, lookup[m]>>}, <<p>>)
<1>1. Hears(m, {"JOIN_GROUP", "GET_GROUP_ID"})
  BY DEF UpReply
<1>2. PICK p : p = Head(queue[Down(m)])
  OBVIOUS
<1>3. /\ Down(m) \in Links /\ queue[Down(m)] # <<>> /\ p \in Packets
      /\ p.cmd \in {"JOIN_GROUP", "GET_GROUP_ID"} /\ m \in Nodes
      /\ <<p>> \in Seq(Packets)
  BY <1>1, <1>2, HearsIs
<1>4. /\ p \in Notes /\ p.cmd \in Asks /\ p.group \in AllGroups
      /\ p.client \in Clients
  BY <1>3, PacketKinds DEF MsgCommands, Asks
<1>5. getMsgs(m, p.group) \in Seq(Packets)
  BY <1>3, <1>4, HistoriesAre, MsgsArePackets
<1>6. PICK links : links = {<<m, lookup[m]>>}
  OBVIOUS
<1>7. \/ Flows(links, <<p>> \o getMsgs(m, p.group))
      \/ Flows(links, <<p>>)
  <2>1. CASE p.cmd = "JOIN_GROUP"
    <3>1. queue' = Sent(Taken(Down(m)), links, <<p>> \o getMsgs(m, p.group))
      BY <1>2, <1>6, <2>1 DEF UpReply
    <3>2. <<p>> \o getMsgs(m, p.group) \in Seq(Packets)
      BY <1>3, <1>5
    <3> QED BY <1>3, <3>1, <3>2, TypeInvIs, FlowsTakenSent
  <2>2. CASE p.cmd # "JOIN_GROUP"
    <3>1. queue' = Sent(Taken(Down(m)), links, <<p>> \o <<>>)
      BY <1>2, <1>6, <2>2 DEF UpReply
    <3>2. <<p>> \o <<>> = <<p>>
      BY <1>3, ConcatEmptySeq
    <3> QED BY <1>3, <3>1, <3>2, TypeInvIs, FlowsTakenSent
  <2> QED BY <2>1, <2>2
<1>8. queue' \in Queues
  BY <1>7 DEF Flows
<1>9. known' \in [Nodes -> SUBSET AllGroups]
  <2>1. known' = [known EXCEPT ![m] = known[m] \cup {p.group}]
    BY <1>2 DEF UpReply
  <2>2. known[m] \cup {p.group} \in SUBSET AllGroups
    BY <1>3, <1>4, TypeInvIs
  <2> QED BY <2>1, <2>2, TypeInvIs
<1>10. members' \in [Nodes -> [AllGroups -> SUBSET Clients]]
  <2>1. \/ members' = members
        \/ members' = [members EXCEPT ![m][p.group] =
                         members[m][p.group] \cup {p.client}]
    BY <1>2 DEF UpReply
  <2>2. members[m][p.group] \cup {p.client} \in SUBSET Clients
    BY <1>3, <1>4, TypeInvIs
  <2>3. [members EXCEPT ![m][p.group] = members[m][p.group] \cup {p.client}]
          \in [Nodes -> [AllGroups -> SUBSET Clients]]
    BY <1>3, <1>4, <2>2, TypeInvIs, MembersWith
  <2> QED BY <2>1, <2>3, TypeInvIs
<1>11. lookup' \in [Children -> Ends \cup {"idle", "null"}]
  BY TypeInvIs DEF UpReply
<1>12. TypeInv'
  BY <1>8, <1>9, <1>10, <1>11, TypeInvIs, TypeInvAfter, SMTT(60) DEF UpReply, counters
<1> QED BY <1>4, <1>6, <1>7, <1>12

\* Lemma: it passes an answer on.
LEMMA UpForwardTypes ==
  ASSUME TypeInv, NEW m \in Children, UpForward(m)
  PROVE  /\ TypeInv'
         /\ \E p \in Notes : p.cmd \in Asks /\ Flows({<<m, lookup[m]>>}, <<p>>)
<1>1. Hears(m, {"JOIN_GROUP", "GET_GROUP_ID"})
  BY DEF UpForward
<1>2. PICK p, links : p = Head(queue[Down(m)]) /\ links = {<<m, lookup[m]>>}
  OBVIOUS
<1>3. /\ Down(m) \in Links /\ queue[Down(m)] # <<>> /\ p \in Packets
      /\ p.cmd \in {"JOIN_GROUP", "GET_GROUP_ID"} /\ <<p>> \in Seq(Packets)
  BY <1>1, <1>2, HearsIs
<1>4. p \in Notes /\ p.cmd \in Asks
  BY <1>3, PacketKinds DEF MsgCommands, Asks
<1>5. queue' = Sent(Taken(Down(m)), links, <<p>>)
  BY <1>2 DEF UpForward
<1>6. Flows(links, <<p>>)
  BY <1>3, <1>5, TypeInvIs, FlowsTakenSent
<1>7. queue' \in Queues
  BY <1>6 DEF Flows
<1>8. lookup' \in [Children -> Ends \cup {"idle", "null"}]
  BY TypeInvIs DEF UpForward
<1>9. TypeInv'
  BY <1>7, <1>8, TypeInvIs, TypeInvAfter DEF UpForward, tables, counters
<1> QED BY <1>2, <1>4, <1>6, <1>9

\* Lemma: the process of a node ends.
LEMMA EndedTypes ==
  ASSUME TypeInv, NEW m \in Children, Ended(m), exited' \subseteq Children
  PROVE  TypeInv' /\ Flows({}, <<>>)
<1> USE DEF Ended, tables, counters
<1>1. /\ queue' = [l \in Links |-> queue'[l]]
      /\ \A l \in Links : queue'[l] =
           IF m \in {l[1], l[2]} /\ l # Up(m) THEN <<>> ELSE queue[l]
  OBVIOUS
<1>2. \A l \in Links : queue[l] \in Seq(Cargo(l))
  BY TypeInvIs DEF Queues
<1>3. ASSUME NEW l \in Links
      PROVE  queue'[l] \in Seq(Cargo(l)) /\ Thins(queue'[l], queue[l])
  <2>1. CASE queue'[l] = <<>>
    BY <2>1, CargoHolds, ThinsNone
  <2>2. CASE queue'[l] = queue[l]
    BY <1>2, <2>2, ThinsSelf
  <2> QED BY <1>1, <2>1, <2>2
<1>4. queue' \in Queues
  <2>1. PICK q : q = queue'
    OBVIOUS
  <2>2. q \in Queues
    BY <1>1, <1>3, <2>1, QueuesIf
  <2> QED BY <2>1, <2>2
<1>5. Flows({}, <<>>)
  BY <1>3, <1>4 DEF Flows
<1>6. /\ status' \in [Nodes -> {"off", "up", "down", "gone"}]
      /\ lookup' \in [Children -> Ends \cup {"idle", "null"}]
  BY TypeInvIs
<1>7. conn' \in [Clients -> {"off", "on", "closed", "gone"}]
  <2>1. \A c \in Clients : conn[c] \in {"off", "on", "closed", "gone"}
    BY TypeInvIs
  <2> QED BY <2>1
<1>8. join' \in [Clients -> JoinStates]
  <2>1. Idle \in JoinStates
    BY DEF Idle, JoinStates, AllGroups
  <2>2. \A c \in Clients : join[c] \in JoinStates
    BY TypeInvIs
  <2> QED BY <2>1, <2>2
<1>9. TypeInv'
  BY <1>4, <1>6, <1>7, <1>8, TypeInvIs, TypeInvAfter
<1> QED BY <1>5, <1>9

\* Lemma: a node starts.
LEMMA NodeStartTypes ==
  ASSUME TypeInv, NEW m \in Children, NodeStart(m)
  PROVE  TypeInv'
<1>1. PICK hello : hello = Packet("HELLO_SECO", Root, DISCONNECTIONS, 0)
  OBVIOUS
<1>2. m \in Ends /\ Up(m) \in Links
  BY LinksDiffer DEF Ends
<1>3. <<hello>> \in Seq(Cargo(Up(m)))
  <2>1. hello \in Hellos
    BY <1>1 DEF Hellos, Packet
  <2>2. Cargo(Up(m)) = Packets \cup Hellos
    BY DEF Cargo
  <2> QED BY <2>1, <2>2
<1>4. /\ queue' = [l \in Links |-> queue'[l]]
      /\ \A l \in Links : queue'[l] =
           IF l = Up(m) THEN <<hello>> ELSE queue[l]
  BY <1>1, <1>2, TypeInvIs DEF NodeStart, Queues
<1>5. \A l \in Links : queue[l] \in Seq(Cargo(l))
  BY TypeInvIs DEF Queues
<1>6. \A l \in Links : queue'[l] \in Seq(Cargo(l))
  BY <1>3, <1>4, <1>5
<1>7. queue' \in Queues
  <2>1. PICK q : q = queue'
    OBVIOUS
  <2>2. q \in Queues
    BY <1>4, <1>6, <2>1, QueuesIf
  <2> QED BY <2>1, <2>2
<1>8. status' \in [Nodes -> {"off", "up", "down", "gone"}]
  BY TypeInvIs DEF NodeStart
<1> QED BY <1>7, <1>8, TypeInvIs, TypeInvAfter DEF NodeStart, tables, counters

\* Lemma: every step keeps the types.
LEMMA TypeStep ==
  ASSUME TypeInv, [Next]_vars
  PROVE  TypeInv'
<1>1. CASE UNCHANGED vars
  BY <1>1, TypeInvIs, TypeInvAfter DEF vars, tables, counters
<1>2. ASSUME NEW c \in Clients, ClientLink(c)
      PROVE  TypeInv'
  <2>1. c \in Ends
    BY DEF Ends
  <2>2. CASE RootJoin(c)
    BY <2>2, RootJoinTypes
  <2>3. CASE KnownJoin(c)
    BY <2>3, KnownJoinTypes
  <2>4. CASE JoinStep(c)
    BY <2>4, JoinReplyTypes, JoinHistoryTypes, JoinSendTypes DEF JoinStep
  <2>5. CASE DownReply(c)
    BY <2>1, <2>5, DownReplyTypes
  <2>6. CASE DownForward(c)
    BY <2>1, <2>6, DownForwardTypes
  <2>7. CASE leaveGroup(c)
    BY <2>7, LeaveGroupTypes
  <2>8. CASE routeToGroup(c)
    BY <2>1, <2>8, DownRouteTypes
  <2>9. CASE IgnoreMessage(c)
    BY <2>9, IgnoreMessageTypes
  <2>10. CASE ClientGone(c)
    BY <2>10, ClientGoneTypes
  <2> QED BY <1>2, <2>2, <2>3, <2>4, <2>5, <2>6, <2>7, <2>8, <2>9, <2>10
          DEF ClientLink
<1>3. ASSUME NEW m \in Children, ChildLink(m)
      PROVE  TypeInv'
  <2>1. m \in Ends
    BY DEF Ends
  <2>2. CASE synchronizeNewSeCo(m)
    BY <2>2, SynchronizeTypes
  <2>3. CASE DownReply(m)
    BY <2>1, <2>3, DownReplyTypes
  <2>4. CASE DownForward(m)
    BY <2>1, <2>4, DownForwardTypes
  <2>5. CASE routeToGroup(m)
    BY <2>1, <2>5, DownRouteTypes
  <2>6. CASE DownGone(m)
    BY <2>6, DownGoneTypes
  <2>7. CASE NodeGone(m)
    BY <2>7, NodeGoneTypes
  <2> QED BY <1>3, <2>2, <2>3, <2>4, <2>5, <2>6, <2>7 DEF ChildLink
<1>4. ASSUME NEW m \in Children, UpLink(m)
      PROVE  TypeInv'
  <2>1. CASE RouteToGroup(m)
    BY <2>1, UpRouteTypes
  <2>2. CASE UpGone(m)
    BY <2>2, UpGoneTypes
  <2>3. CASE UpLookup(m)
    BY <2>3, UpLookupTypes
  <2>4. CASE UpReply(m)
    BY <2>4, UpReplyTypes
  <2>5. CASE UpForward(m)
    BY <2>5, UpForwardTypes
  <2>6. CASE UpNoRoute(m)
    <3>1. Ended(m) /\ exited' \subseteq Children
      BY <2>6, TypeInvIs DEF UpNoRoute
    <3> QED BY <3>1, EndedTypes
  <2> QED BY <1>4, <2>1, <2>2, <2>3, <2>4, <2>5, <2>6 DEF UpLink
<1>5. ASSUME NEW m \in Children, NodeFail(m)
      PROVE  TypeInv'
  <2>1. Ended(m) /\ exited' \subseteq Children
    BY <1>5, TypeInvIs DEF NodeFail
  <2> QED BY <2>1, EndedTypes
<1> QED BY <1>1, <1>2, <1>3, <1>4, <1>5, ConnectTypes, RequestTypes, SendTypes,
           ClientReceiveTypes, DisconnectTypes, NodeStartTypes DEF Next

\* Every state of the model has the types that TypeOK gives, and a node has a
\* route to a client only below it: the tables of State, DownDataLink and
\* UpDataLink hold what their declarations say.
THEOREM TypeCorrect == Spec => []TypeOK
<1>1. Spec => []TypeInv
  BY TypeInit, TypeStep, PTL DEF Spec
<1>2. TypeInv => TypeOK
  BY DEF TypeInv
<1> QED BY <1>1, <1>2, PTL
=============================================================================
