--------------------------- MODULE TaskArgsProofs ---------------------------
(***************************************************************************)
(* Theorems about TaskArgs, for texts and lists of every length.  What its *)
(* recursive functions compute is proved by induction over the length of   *)
(* their argument.  The property is given as a set, the recursive          *)
(* definition as the functions it is made of, so that no lemma needs an    *)
(* operator as a parameter.                                                *)
(***************************************************************************)
EXTENDS TaskArgs, SequenceTheorems, WellFoundedInduction, TLAPS

-----------------------------------------------------------------------------
(* Induction and recursion over a rank. *)

\* A set of natural numbers has a least one.
LEMMA Least ==
    ASSUME NEW N \in SUBSET Nat, N # {}
    PROVE  \E n \in N : \A m \in N : n <= m
<1>1. PICK n \in N : \A m \in N : <<m, n>> \notin OpToRel(<, Nat)
  BY NatLessThanWellFounded, WFMin
<1>2. \A m \in N : ~(m < n)
  BY <1>1 DEF OpToRel
<1> QED  BY <1>2

\* Induction over a rank, for a property that is given as a set.
Inherits(S, rank, P) ==
    \A t \in S : (\A u \in S : rank[u] < rank[t] => u \in P) => t \in P

\* A set that inherits from all of lower rank is everything.
LEMMA RankInduction ==
    ASSUME NEW S, NEW rank \in [S -> Nat], NEW P \in SUBSET S, Inherits(S, rank, P)
    PROVE  P = S
<1> USE DEF Inherits
<1> DEFINE N == {k \in Nat : \E t \in S \ P : k = rank[t]}
<1>1. N = {}
  <2> SUFFICES ASSUME N # {} PROVE FALSE
    OBVIOUS
  <2>1. N \in SUBSET Nat
    OBVIOUS
  <2>2. PICK k \in N : \A j \in N : k <= j
    BY <2>1, Least
  <2>3. PICK t \in S \ P : k = rank[t]
    BY <2>2
  <2>4. PICK u \in S : rank[u] < rank[t] /\ u \notin P
    BY <2>3
  <2>5. rank[u] \in N
    BY <2>4
  <2> QED  BY <2>1, <2>2, <2>3, <2>4, <2>5
<1> QED  BY <1>1

\* A function on S is defined by its values on B and, elsewhere, by its value on the
\* next argument, which has a lower rank.
Descends(S, rank, B, next) ==
    /\ rank \in [S -> Nat] /\ next \in [S -> S] /\ B \in SUBSET S
    /\ \A t \in S \ B : rank[next[t]] < rank[t]
Solves(f, S, X, B, base, next, G) ==
    /\ f \in [S -> X]
    /\ \A t \in B : f[t] = base[t]
    /\ \A t \in S \ B : f[t] = G[t][f[next[t]]]

\* A function that is defined by recursion to a lower rank exists.
LEMMA RankedRecursion ==
    ASSUME NEW S, NEW X, NEW rank, NEW B, NEW base, NEW next, NEW G,
           Descends(S, rank, B, next), base \in [S -> X], G \in [S -> [X -> X]]
    PROVE  \E f : Solves(f, S, X, B, base, next, G)
<1> USE DEF Descends
<1> DEFINE Upto(n) == {t \in S : rank[t] < n}
           Value(f, t) == IF t \in B THEN base[t] ELSE G[t][f[next[t]]]
           A(n) == {f \in [Upto(n) -> X] : \A t \in Upto(n) : f[t] = Value(f, t)}
<1>1. \A n \in Nat : A(n) # {} => A(n + 1) # {}
  <2> SUFFICES ASSUME NEW n \in Nat, NEW f \in A(n) PROVE \E g : g \in A(n + 1)
    OBVIOUS
  <2> DEFINE g == [t \in Upto(n + 1) |-> Value(f, t)]
  <2>1. \A t \in Upto(n + 1) \ B : next[t] \in Upto(n)
    OBVIOUS
  <2>2. \A t \in Upto(n + 1) : Value(f, t) \in X
    BY <2>1
  <2>3. \A t \in Upto(n) : t \in Upto(n + 1) /\ g[t] = f[t]
    OBVIOUS
  <2>4. \A t \in Upto(n + 1) : g[t] = Value(g, t)
    BY <2>1, <2>3
  <2>5. g \in [Upto(n + 1) -> X]
    BY <2>2
  <2> QED  BY <2>4, <2>5
<1>2. A(0) # {}
  <2>1. Upto(0) = {}
    OBVIOUS
  <2>2. [t \in Upto(0) |-> base[t]] \in A(0)
    BY <2>1
  <2> QED  BY <2>2
<1>3. \A n \in Nat : A(n) # {}
  <2> DEFINE N == {n \in Nat : A(n) = {}}
  <2> HIDE DEF A
  <2> SUFFICES ASSUME N # {} PROVE FALSE
    OBVIOUS
  <2>0. N \in SUBSET Nat
    OBVIOUS
  <2>1. PICK n \in N : \A m \in N : n <= m
    BY <2>0, Least
  <2>2. n # 0
    BY <1>2, <2>1
  <2>3. A(n - 1) # {} /\ n - 1 \in Nat
    <3>1. n - 1 \in Nat /\ ~(n <= n - 1)
      BY <2>0, <2>2
    <3>2. n - 1 \notin N
      BY <2>1, <3>1
    <3> QED  BY <3>1, <3>2
  <2>4. A((n - 1) + 1) # {}
    BY <1>1, <2>3
  <2> QED  BY <2>4
<1>4. \A n, m \in Nat : \A f \in A(n), g \in A(m) : \A t \in Upto(n) \cap Upto(m) : f[t] = g[t]
  <2> SUFFICES ASSUME NEW n \in Nat, NEW m \in Nat, NEW f \in A(n), NEW g \in A(m)
               PROVE  \A t \in Upto(n) \cap Upto(m) : f[t] = g[t]
    OBVIOUS
  <2> DEFINE N == {k \in Nat : \E t \in Upto(n) \cap Upto(m) : f[t] # g[t] /\ k = rank[t]}
  <2> SUFFICES ASSUME N # {} PROVE FALSE
    OBVIOUS
  <2>1. N \in SUBSET Nat
    OBVIOUS
  <2>2. PICK k \in N : \A j \in N : k <= j
    BY <2>1, Least
  <2>3. PICK t \in Upto(n) \cap Upto(m) : f[t] # g[t] /\ k = rank[t]
    BY <2>2
  <2>4. t \notin B /\ next[t] \in Upto(n) \cap Upto(m) /\ f[next[t]] # g[next[t]]
    BY <2>3
  <2>5. rank[next[t]] \in N /\ rank[next[t]] < k
    BY <2>3, <2>4
  <2> QED  BY <2>1, <2>2, <2>5
<1> DEFINE Of(t) == CHOOSE f : f \in A(rank[t] + 1)
           h == [t \in S |-> Of(t)[t]]
<1>5. \A t \in S : rank[t] + 1 \in Nat /\ Of(t) \in A(rank[t] + 1) /\ t \in Upto(rank[t] + 1)
  <2> SUFFICES ASSUME NEW t \in S
               PROVE  rank[t] + 1 \in Nat /\ Of(t) \in A(rank[t] + 1) /\ t \in Upto(rank[t] + 1)
    OBVIOUS
  <2>1. rank[t] + 1 \in Nat /\ t \in Upto(rank[t] + 1)
    OBVIOUS
  <2> HIDE DEF A
  <2>2. \E f : f \in A(rank[t] + 1)
    BY <1>3, <2>1
  <2> QED  BY <2>1, <2>2
<1>6. h \in [S -> X]
  <2> SUFFICES ASSUME NEW t \in S PROVE Of(t)[t] \in X
    OBVIOUS
  <2> HIDE DEF Of
  <2> QED  BY <1>5
<1>7. ASSUME NEW t \in S PROVE h[t] = Value(h, t)
  <2>1. h[t] = Of(t)[t] /\ Of(t)[t] = Value(Of(t), t)
    <3> HIDE DEF Of
    <3> QED  BY <1>5
  <2>2. CASE t \in B
    BY <2>1, <2>2
  <2>3. CASE t \notin B
    <3>1. next[t] \in Upto(rank[t] + 1) \cap Upto(rank[next[t]] + 1) /\ next[t] \in S
      BY <2>3
    <3>2. Of(t)[next[t]] = Of(next[t])[next[t]]
      <4> HIDE DEF Of, A, Upto
      <4> QED  BY <1>4, <1>5, <3>1
    <3>3. h[next[t]] = Of(next[t])[next[t]]
      BY <3>1
    <3> HIDE DEF Of, h
    <3> QED  BY <2>1, <2>3, <3>2, <3>3
  <2> QED  BY <2>2, <2>3
<1> HIDE DEF h
<1> QED  BY <1>6, <1>7 DEF Solves

\* The equations give the type.
LEMMA RankedType ==
    ASSUME NEW S, NEW X, NEW rank, NEW B, NEW base, NEW next, NEW G,
           Descends(S, rank, B, next), base \in [S -> X], G \in [S -> [X -> X]],
           NEW f, f = [t \in S |-> f[t]], \A t \in B : f[t] = base[t],
           \A t \in S \ B : f[next[t]] \in X => f[t] = G[t][f[next[t]]]
    PROVE  Solves(f, S, X, B, base, next, G)
<1> USE DEF Descends
<1> DEFINE P == {t \in S : f[t] \in X}
<1>1. ASSUME NEW t \in S, \A u \in S : rank[u] < rank[t] => u \in P PROVE t \in P
  <2>1. CASE t \in B
    BY <2>1
  <2>2. CASE t \notin B
    <3>1. f[next[t]] \in X
      BY <1>1, <2>2
    <3>2. f[t] = G[t][f[next[t]]]
      BY <2>2, <3>1
    <3> QED  BY <3>1, <3>2
  <2> QED  BY <2>1, <2>2
<1>2. P = S
  <2>1. P \in SUBSET S /\ rank \in [S -> Nat]
    OBVIOUS
  <2>2. Inherits(S, rank, P)
    BY <1>1 DEF Inherits
  <2> HIDE DEF P
  <2> QED  BY <2>1, <2>2, RankInduction
<1>3. \A t \in S : f[t] \in X
  BY <1>2
<1>4. f \in [S -> X]
  BY <1>3
<1>5. \A t \in S \ B : f[t] = G[t][f[next[t]]]
  BY <1>3
<1> QED  BY <1>4, <1>5 DEF Solves

-----------------------------------------------------------------------------
(* Places in texts. *)

Str == Seq(Chars)

\* d is in s at place i.
At(s, d, i) ==
    /\ i \in 1..(Len(s) - Len(d) + 1)
    /\ \A k \in 1..Len(d) : s[i + k - 1] = d[k]

\* Comparing a part of s with d is looking for d at a place.
LEMMA SubSeqAt ==
    ASSUME NEW s \in Str, NEW d \in Str, NEW i \in 1..(Len(s) - Len(d) + 1)
    PROVE  SubSeq(s, i, i + Len(d) - 1) = d <=> At(s, d, i)
<1> DEFINE t == SubSeq(s, i, i + Len(d) - 1)
<1>0. Len(s) \in Nat /\ Len(d) \in Nat /\ i \in Nat \ {0} /\ i + Len(d) - 1 <= Len(s)
  BY LenProperties DEF Str
<1>1. \A j \in i..(i + Len(d) - 1) : s[j] \in Chars
  BY <1>0, ElementOfSeq DEF Str
<1>2. /\ t \in Str /\ Len(t) = Len(d)
      /\ \A k \in 1..Len(d) : t[k] = s[i + k - 1]
  <2>1. /\ t \in Seq(Chars)
        /\ Len(t) = IF i <= i + Len(d) - 1 THEN i + Len(d) - 1 - i + 1 ELSE 0
        /\ \A k \in 1..(i + Len(d) - 1 - i + 1) : t[k] = s[i + k - 1]
    <3> i \in Int /\ i + Len(d) - 1 \in Int
      BY <1>0
    <3> QED  BY <1>1, SubSeqProperties
  <2> HIDE DEF t
  <2> QED  BY <2>1, <1>0 DEF Str
<1> HIDE DEF t
<1>3. t = d => At(s, d, i)
  BY <1>2 DEF At
<1>4. At(s, d, i) => t = d
  BY <1>2, SeqEqual DEF At, Str
<1> QED  BY <1>3, <1>4 DEF t

\* FindIn is the first place, or 0 if there is none.
LEMMA FindInIs ==
    ASSUME NEW s \in Str, NEW d \in Str
    PROVE  /\ FindIn(s, d) = 0 \/ At(s, d, FindIn(s, d))
           /\ FindIn(s, d) \in Nat
           /\ \A i : At(s, d, i) => FindIn(s, d) # 0 /\ FindIn(s, d) <= i
<1> DEFINE places == {i \in 1..(Len(s) - Len(d) + 1) : SubSeq(s, i, i + Len(d) - 1) = d}
<1>1. \A i : i \in places <=> At(s, d, i)
  BY SubSeqAt DEF At
<1>2. FindIn(s, d) = IF places = {} THEN 0 ELSE Min(places)
  BY DEF FindIn
<1>3. places \in SUBSET (Nat \ {0})
  OBVIOUS
<1> HIDE DEF places
<1>4. CASE places = {}
  BY <1>1, <1>2, <1>4
<1>5. CASE places # {}
  <2>1. \E p \in places : \A i \in places : p <= i
    BY <1>3, <1>5, Least
  <2>2. FindIn(s, d) \in places /\ \A i \in places : FindIn(s, d) <= i
    BY <1>2, <1>5, <2>1 DEF Min
  <2> QED  BY <1>1, <1>3, <2>2
<1> QED  BY <1>4, <1>5

\* What follows a delimiter does not change where the first one is.
LEMMA FindInFront ==
    ASSUME NEW a \in Str, NEW d \in Str, NEW r \in Str
    PROVE  /\ FindIn(a \o d \o r, d) = FindIn(a \o d, d)
           /\ FindIn(a \o d, d) \in 1..(Len(a) + 1)
<1> DEFINE s == a \o d
           t == s \o r
<1>0. Len(a) \in Nat /\ Len(d) \in Nat /\ Len(r) \in Nat
  BY LenProperties DEF Str
<1>1. /\ s \in Str /\ Len(s) = Len(a) + Len(d)
      /\ \A i \in 1..(Len(a) + Len(d)) : s[i] = IF i <= Len(a) THEN a[i] ELSE d[i - Len(a)]
  BY ConcatProperties DEF Str
<1> HIDE DEF s
<1>2. /\ t \in Str /\ Len(t) = Len(s) + Len(r)
      /\ \A i \in 1..(Len(s) + Len(r)) : t[i] = IF i <= Len(s) THEN s[i] ELSE r[i - Len(s)]
  <2>1. s \in Seq(Chars) /\ r \in Seq(Chars)
    BY <1>1 DEF Str
  <2> QED  BY <2>1, ConcatProperties DEF Str
<1> HIDE DEF t
<1>3. At(s, d, Len(a) + 1)
  BY <1>0, <1>1 DEF At
<1>4. \A i \in 1..(Len(a) + 1) : At(s, d, i) <=> At(t, d, i)
  <2>0. Len(s) = Len(a) + Len(d) /\ Len(t) = Len(a) + Len(d) + Len(r)
    BY <1>1, <1>2
  <2>1. \A i \in 1..(Len(a) + 1), k \in 1..Len(d) : s[i + k - 1] = t[i + k - 1]
    <3> SUFFICES ASSUME NEW i \in 1..(Len(a) + 1), NEW k \in 1..Len(d)
                 PROVE  s[i + k - 1] = t[i + k - 1]
      OBVIOUS
    <3>1. i + k - 1 \in 1..Len(s) /\ i + k - 1 \in 1..(Len(s) + Len(r)) /\ i + k - 1 <= Len(s)
      BY <1>0, <2>0
    <3> QED  BY <1>2, <3>1
  <2>2. \A i \in 1..(Len(a) + 1) : i \in 1..(Len(s) - Len(d) + 1) /\ i \in 1..(Len(t) - Len(d) + 1)
    BY <1>0, <2>0
  <2> QED  BY <2>1, <2>2 DEF At
<1>5. /\ FindIn(s, d) \in 1..(Len(a) + 1) /\ At(s, d, FindIn(s, d))
      /\ \A i : At(s, d, i) => FindIn(s, d) <= i
  <2>1. FindIn(s, d) # 0 /\ FindIn(s, d) <= Len(a) + 1 /\ FindIn(s, d) \in Nat
    BY <1>1, <1>3, FindInIs
  <2>3. At(s, d, FindIn(s, d)) /\ \A i : At(s, d, i) => FindIn(s, d) <= i
    BY <1>1, <2>1, FindInIs
  <2> QED  BY <1>0, <2>1, <2>3
<1>6. /\ FindIn(t, d) \in 1..(Len(a) + 1) /\ At(t, d, FindIn(t, d))
      /\ \A i : At(t, d, i) => FindIn(t, d) <= i
  <2>1. At(t, d, Len(a) + 1)
    BY <1>0, <1>3, <1>4
  <2>2. FindIn(t, d) # 0 /\ FindIn(t, d) <= Len(a) + 1 /\ FindIn(t, d) \in Nat
    BY <1>2, <2>1, FindInIs
  <2>3. At(t, d, FindIn(t, d)) /\ \A i : At(t, d, i) => FindIn(t, d) <= i
    BY <1>2, <2>2, FindInIs
  <2> QED  BY <1>0, <2>2, <2>3
<1>7. FindIn(s, d) = FindIn(t, d)
  BY <1>4, <1>5, <1>6
<1> QED  BY <1>5, <1>7 DEF s, t

\* Cutting a text at a delimiter.
LEMMA Cut ==
    ASSUME NEW s \in Str, NEW d \in Str, d # <<>>, FindIn(s, d) # 0
    PROVE  /\ SubSeq(s, 1, FindIn(s, d) - 1) \in Str
           /\ Len(SubSeq(s, 1, FindIn(s, d) - 1)) = FindIn(s, d) - 1
           /\ From(s, FindIn(s, d) + Len(d)) \in Str
           /\ Len(From(s, FindIn(s, d) + Len(d))) < Len(s)
           /\ s = SubSeq(s, 1, FindIn(s, d) - 1) \o d \o From(s, FindIn(s, d) + Len(d))
<1> DEFINE p == FindIn(s, d)
           front == SubSeq(s, 1, p - 1)
           rest == From(s, p + Len(d))
           whole == front \o d \o rest
<1>0. Len(s) \in Nat /\ Len(d) \in Nat \ {0}
  BY LenProperties, EmptySeq DEF Str
<1>1. At(s, d, p)
  BY FindInIs
<1> HIDE DEF p
<1>2. p \in Nat \ {0} /\ p + Len(d) - 1 <= Len(s)
  BY <1>0, <1>1 DEF At
<1>3. \A i \in 1..Len(s) : s[i] \in Chars
  BY ElementOfSeq DEF Str
<1>4. /\ front \in Str /\ Len(front) = p - 1
      /\ \A i \in 1..(p - 1) : front[i] = s[i]
  <2>1. \A i \in 1..(p - 1) : s[i] \in Chars
    BY <1>0, <1>2, <1>3
  <2>2. /\ front \in Seq(Chars)
        /\ Len(front) = IF 1 <= p - 1 THEN p - 1 - 1 + 1 ELSE 0
        /\ \A i \in 1..(p - 1 - 1 + 1) : front[i] = s[1 + i - 1]
    <3> 1 \in Int /\ p - 1 \in Int
      BY <1>2
    <3> QED  BY <2>1, SubSeqProperties
  <2> HIDE DEF front
  <2> QED  BY <2>2, <1>2 DEF Str
<1>5. /\ rest \in Str /\ Len(rest) = Len(s) - (p + Len(d)) + 1
      /\ \A i \in 1..(Len(s) - (p + Len(d)) + 1) : rest[i] = s[p + Len(d) + i - 1]
  <2>1. \A i \in (p + Len(d))..Len(s) : s[i] \in Chars
    BY <1>0, <1>2, <1>3
  <2>2. /\ rest \in Seq(Chars)
        /\ Len(rest) = IF p + Len(d) <= Len(s) THEN Len(s) - (p + Len(d)) + 1 ELSE 0
        /\ \A i \in 1..(Len(s) - (p + Len(d)) + 1) : rest[i] = s[p + Len(d) + i - 1]
    <3> p + Len(d) \in Int /\ Len(s) \in Int
      BY <1>0, <1>2
    <3> QED  BY <2>1, SubSeqProperties DEF From
  <2> HIDE DEF rest
  <2>3. Len(rest) = Len(s) - (p + Len(d)) + 1
    BY <2>2, <1>0, <1>2
  <2> QED  BY <2>2, <2>3 DEF Str
<1> HIDE DEF front, rest
<1>6. s = whole
  <2>1. /\ front \o d \in Str /\ Len(front \o d) = p - 1 + Len(d)
        /\ \A i \in 1..(p - 1 + Len(d)) :
             (front \o d)[i] = IF i <= p - 1 THEN front[i] ELSE d[i - (p - 1)]
    <3>1. front \in Seq(Chars) /\ d \in Seq(Chars)
      BY <1>4 DEF Str
    <3>2. Len(front) = p - 1
      BY <1>4
    <3>3. /\ front \o d \in Seq(Chars) /\ Len(front \o d) = Len(front) + Len(d)
          /\ \A i \in 1..(Len(front) + Len(d)) :
               (front \o d)[i] = IF i <= Len(front) THEN front[i] ELSE d[i - Len(front)]
      BY <3>1, ConcatProperties
    <3> QED  BY <3>2, <3>3 DEF Str
  <2> DEFINE fd == front \o d
  <2> HIDE DEF fd
  <2>2. fd \in Seq(Chars) /\ rest \in Seq(Chars)
    BY <1>5, <2>1 DEF Str, fd
  <2>3. /\ fd \o rest \in Seq(Chars) /\ Len(fd \o rest) = Len(fd) + Len(rest)
        /\ \A i \in 1..(Len(fd) + Len(rest)) :
             (fd \o rest)[i] = IF i <= Len(fd) THEN fd[i] ELSE rest[i - Len(fd)]
    BY <2>2, ConcatProperties
  <2>4. Len(fd) = p - 1 + Len(d)
    BY <2>1 DEF fd
  <2>5. Len(fd \o rest) = Len(s)
    BY <2>3, <2>4, <1>0, <1>2, <1>5
  <2>6. ASSUME NEW i \in 1..Len(s) PROVE (fd \o rest)[i] = s[i]
    <3>1. CASE i <= p - 1
      BY <3>1, <2>1, <2>3, <2>4, <2>5, <1>0, <1>2, <1>4 DEF fd
    <3>2. CASE i > p - 1 /\ i <= p - 1 + Len(d)
      <4>1. i - (p - 1) \in 1..Len(d) /\ i = p + (i - (p - 1)) - 1
        BY <3>2, <1>0, <1>2
      <4>2. s[i] = d[i - (p - 1)]
        BY <4>1, <1>1 DEF At
      <4>3. fd[i] = d[i - (p - 1)]
        BY <3>2, <2>1, <1>0, <1>2 DEF fd
      <4> QED  BY <4>2, <4>3, <3>2, <2>3, <2>4, <2>5
    <3>3. CASE i > p - 1 + Len(d)
      <4>1. i - (p - 1 + Len(d)) \in 1..(Len(s) - (p + Len(d)) + 1)
        BY <3>3, <1>0, <1>2
      <4>2. rest[i - (p - 1 + Len(d))] = s[p + Len(d) + (i - (p - 1 + Len(d))) - 1]
        BY <4>1, <1>5
      <4>3. p + Len(d) + (i - (p - 1 + Len(d))) - 1 = i
        BY <1>0, <1>2
      <4> QED  BY <4>2, <4>3, <3>3, <2>3, <2>4, <2>5
    <3>4. i \in Nat /\ p - 1 \in Nat /\ p - 1 + Len(d) \in Nat
      BY <1>0, <1>2
    <3>5. i <= p - 1 \/ (i > p - 1 /\ i <= p - 1 + Len(d)) \/ i > p - 1 + Len(d)
      BY <3>4
    <3> QED  BY <3>1, <3>2, <3>3, <3>5
  <2>7. fd \o rest = s
    <3> s \in Seq(Chars)
      BY DEF Str
    <3> QED  BY <2>3, <2>5, <2>6, SeqEqual
  <2> QED  BY <2>7 DEF fd
<1>7. Len(rest) < Len(s)
  BY <1>0, <1>2, <1>5
<1>8. front \in Str /\ Len(front) = p - 1 /\ rest \in Str /\ Len(rest) < Len(s) /\ s = whole
  BY <1>4, <1>5, <1>6, <1>7
<1> QED  BY <1>8 DEF p, front, rest

-----------------------------------------------------------------------------
(* The recursive functions are what their definitions say. *)

\* The delimiters are texts of five characters and of one.
LEMMA Delimiters ==
    /\ delimiter \in Str /\ delimiter # <<>> /\ Len(delimiter) = 5
    /\ <<" ">> \in Str /\ <<" ">> # <<>> /\ Len(<<" ">>) = 1
  BY DEF delimiter, Str, Chars

LEMMA EmptyAndOne ==
    ASSUME NEW S, NEW e \in S
    PROVE  <<>> \in Seq(S) /\ Len(<<>>) = 0 /\ <<e>> \in Seq(S) /\ Len(<<e>>) = 1 /\ <<e>>[1] = e
  OBVIOUS

LEMMA ConcatType == ASSUME NEW S, NEW s \in Seq(S), NEW t \in Seq(S) PROVE s \o t \in Seq(S)
  BY ConcatProperties

\* Split, and the other functions below, are what their definitions read.
LEMMA SplitIs ==
    /\ Split \in [Str -> Seq(Str)]
    /\ \A s \in Str :
         Split[s] = IF FindIn(s, delimiter) = 0 THEN <<s>>
                    ELSE <<SubSeq(s, 1, FindIn(s, delimiter) - 1)>>
                           \o Split[From(s, FindIn(s, delimiter) + Len(delimiter))]
<1> DEFINE X == Seq(Str)
           B == {s \in Str : FindIn(s, delimiter) = 0}
           rank == [s \in Str |-> Len(s)]
           base == [s \in Str |-> <<s>>]
           word(s) == SubSeq(s, 1, FindIn(s, delimiter) - 1)
           rest(s) == From(s, FindIn(s, delimiter) + Len(delimiter))
           next == [s \in Str |-> IF s \in B THEN s ELSE rest(s)]
           G == [s \in Str |-> [x \in X |-> IF s \in B THEN x ELSE <<word(s)>> \o x]]
<1>1. rank \in [Str -> Nat] /\ base \in [Str -> X]
  BY LenProperties, EmptyAndOne DEF Str
<1>2. \A s \in Str \ B : word(s) \in Str /\ rest(s) \in Str /\ Len(rest(s)) < Len(s)
  BY Delimiters, Cut
<1> HIDE DEF word, rest
<1>3. next \in [Str -> Str] /\ \A s \in Str \ B : rank[next[s]] < rank[s]
  BY <1>2
<1>4. G \in [Str -> [X -> X]]
  BY <1>2, EmptyAndOne, ConcatType
<1>5. Descends(Str, rank, B, next)
  BY <1>1, <1>3 DEF Descends
<1>6. PICK f : Solves(f, Str, X, B, base, next, G)
  <2> HIDE DEF B, X, rank, base, next, G
  <2> QED  BY <1>1, <1>4, <1>5, RankedRecursion
<1>7. \A s \in Str : f[s] = IF s \in B THEN <<s>> ELSE <<word(s)>> \o f[rest(s)]
  BY <1>2, <1>6 DEF Solves
<1> DEFINE Eq(g) == g = [s \in Str |-> IF s \in B THEN <<s>> ELSE <<word(s)>> \o g[rest(s)]]
<1>8. Eq(f)
  BY <1>6, <1>7 DEF Solves
<1>9. Split = CHOOSE g : Eq(g)
  BY DEF Split, Str, word, rest
<1> HIDE DEF B, X
<1>10. Eq(Split)
  BY <1>8, <1>9
<1>11. \A s \in Str : Split[s] = IF s \in B THEN <<s>> ELSE <<word(s)>> \o Split[rest(s)]
  BY <1>10
<1>12. \A s \in Str \ B : Split[next[s]] \in X => Split[s] = G[s][Split[next[s]]]
  BY <1>2, <1>11
<1>13. Split = [s \in Str |-> Split[s]] /\ \A s \in B : Split[s] = base[s]
  BY <1>10, <1>11 DEF B
<1>14. Solves(Split, Str, X, B, base, next, G)
  <2> HIDE DEF B, X, rank, base, next, G, Eq
  <2> QED  BY <1>1, <1>4, <1>5, <1>12, <1>13, RankedType
<1>15. Split \in [Str -> X]
  BY <1>14 DEF Solves
<1> QED  BY <1>11, <1>15 DEF B, X, word, rest

LEMMA SpacedIs ==
    /\ Spaced \in [Seq(Str) -> Str]
    /\ \A l \in Seq(Str) :
         Spaced[l] = IF l = <<>> THEN <<>>
                     ELSE Head(l) \o <<" ">> \o Spaced[Tail(l)]
<1> DEFINE L == Seq(Str)
           X == Str
           B == {l \in L : l = <<>>}
           rank == [l \in L |-> Len(l)]
           base == [l \in L |-> IF l \in B THEN <<>> ELSE <<>>]
           first(l) == Head(l) \o <<" ">>
           next == [l \in L |-> IF l \in B THEN l ELSE Tail(l)]
           G == [l \in L |-> [x \in X |-> IF l \in B THEN x ELSE first(l) \o x]]
<1>1. rank \in [L -> Nat] /\ base \in [L -> X]
  BY LenProperties, EmptyAndOne DEF Str
<1>2. \A l \in L \ B : first(l) \in Str /\ Tail(l) \in L /\ Len(Tail(l)) < Len(l)
  <2> SUFFICES ASSUME NEW l \in L \ B
               PROVE  first(l) \in Str /\ Tail(l) \in L /\ Len(Tail(l)) < Len(l)
    OBVIOUS
  <2>1. l # <<>>
    BY EmptyAndOne
  <2>2. Head(l) \in Str /\ Tail(l) \in L /\ Len(Tail(l)) = Len(l) - 1 /\ Len(l) \in Nat
    BY <2>1, HeadTailProperties, LenProperties
  <2>3. first(l) \in Str
    BY <2>2, Delimiters, EmptyAndOne, ConcatType DEF Str
  <2> HIDE DEF first
  <2> QED  BY <2>2, <2>3
<1> HIDE DEF first
<1>3. next \in [L -> L] /\ \A l \in L \ B : rank[next[l]] < rank[l]
  BY <1>2
<1>4. G \in [L -> [X -> X]]
  BY <1>2, ConcatType DEF Str
<1>5. Descends(L, rank, B, next)
  BY <1>1, <1>3 DEF Descends
<1>6. PICK f : Solves(f, L, X, B, base, next, G)
  <2> HIDE DEF L, B, X, rank, base, next, G
  <2> QED  BY <1>1, <1>4, <1>5, RankedRecursion
<1>7. \A l \in L : f[l] = IF l \in B THEN base[l] ELSE first(l) \o f[Tail(l)]
  BY <1>2, <1>6 DEF Solves
<1> DEFINE Eq(g) == g = [l \in L |-> IF l \in B THEN base[l] ELSE first(l) \o g[Tail(l)]]
<1>8. Eq(f)
  BY <1>6, <1>7 DEF Solves
<1>9. Spaced = CHOOSE g : Eq(g)
  BY DEF Spaced, Str, first
<1> HIDE DEF B, X, L, base
<1>10. Eq(Spaced)
  BY <1>8, <1>9
<1>11. \A l \in L : Spaced[l] = IF l \in B THEN base[l] ELSE first(l) \o Spaced[Tail(l)]
  BY <1>10
<1>12. \A l \in L \ B : Spaced[next[l]] \in X => Spaced[l] = G[l][Spaced[next[l]]]
  BY <1>2, <1>11
<1>13. Spaced = [l \in L |-> Spaced[l]] /\ \A l \in B : Spaced[l] = base[l]
  BY <1>10, <1>11 DEF B
<1>14. Solves(Spaced, L, X, B, base, next, G)
  <2> HIDE DEF rank, next, G, Eq
  <2> QED  BY <1>1, <1>4, <1>5, <1>12, <1>13, RankedType
<1>15. Spaced \in [L -> X]
  BY <1>14 DEF Solves
<1> QED  BY <1>11, <1>15 DEF B, X, L, base, first

LEMMA ConcatIs ==
    /\ Concat \in [Seq(Str) -> Str]
    /\ \A l \in Seq(Str) :
         Concat[l] = IF l = <<>> \/ Len(l) = 1 THEN IF l = <<>> THEN <<>> ELSE Head(l)
                     ELSE Head(l) \o delimiter \o Concat[Tail(l)]
<1> DEFINE L == Seq(Str)
           X == Str
           B == {l \in L : l = <<>> \/ Len(l) = 1}
           rank == [l \in L |-> Len(l)]
           base == [l \in L |-> IF l \in B THEN IF l = <<>> THEN <<>> ELSE Head(l) ELSE <<>>]
           first(l) == Head(l) \o delimiter
           next == [l \in L |-> IF l \in B THEN l ELSE Tail(l)]
           G == [l \in L |-> [x \in X |-> IF l \in B THEN x ELSE first(l) \o x]]
<1>1. rank \in [L -> Nat] /\ base \in [L -> X]
  BY LenProperties, EmptyAndOne, HeadTailProperties DEF Str
<1>2. \A l \in L \ B : first(l) \in Str /\ Tail(l) \in L /\ Len(Tail(l)) < Len(l)
  <2> SUFFICES ASSUME NEW l \in L \ B
               PROVE  first(l) \in Str /\ Tail(l) \in L /\ Len(Tail(l)) < Len(l)
    OBVIOUS
  <2>1. l # <<>>
    BY EmptyAndOne
  <2>2. Head(l) \in Str /\ Tail(l) \in L /\ Len(Tail(l)) = Len(l) - 1 /\ Len(l) \in Nat
    BY <2>1, HeadTailProperties, LenProperties
  <2>3. first(l) \in Str
    BY <2>2, Delimiters, EmptyAndOne, ConcatType DEF Str
  <2> HIDE DEF first
  <2> QED  BY <2>2, <2>3
<1> HIDE DEF first
<1>3. next \in [L -> L] /\ \A l \in L \ B : rank[next[l]] < rank[l]
  BY <1>2
<1>4. G \in [L -> [X -> X]]
  BY <1>2, ConcatType DEF Str
<1>5. Descends(L, rank, B, next)
  BY <1>1, <1>3 DEF Descends
<1>6. PICK f : Solves(f, L, X, B, base, next, G)
  <2> HIDE DEF L, B, X, rank, base, next, G
  <2> QED  BY <1>1, <1>4, <1>5, RankedRecursion
<1>7. \A l \in L : f[l] = IF l \in B THEN base[l] ELSE first(l) \o f[Tail(l)]
  BY <1>2, <1>6 DEF Solves
<1> DEFINE Eq(g) == g = [l \in L |-> IF l \in B THEN base[l] ELSE first(l) \o g[Tail(l)]]
<1>8. Eq(f)
  BY <1>6, <1>7 DEF Solves
<1>9. Concat = CHOOSE g : Eq(g)
  BY DEF Concat, Str, first
<1> HIDE DEF B, X, L, base
<1>10. Eq(Concat)
  BY <1>8, <1>9
<1>11. \A l \in L : Concat[l] = IF l \in B THEN base[l] ELSE first(l) \o Concat[Tail(l)]
  BY <1>10
<1>12. \A l \in L \ B : Concat[next[l]] \in X => Concat[l] = G[l][Concat[next[l]]]
  BY <1>2, <1>11
<1>13. Concat = [l \in L |-> Concat[l]] /\ \A l \in B : Concat[l] = base[l]
  BY <1>10, <1>11 DEF B
<1>14. Solves(Concat, L, X, B, base, next, G)
  <2> HIDE DEF rank, next, G, Eq
  <2> QED  BY <1>1, <1>4, <1>5, <1>12, <1>13, RankedType
<1>15. Concat \in [L -> X]
  BY <1>14 DEF Solves
<1> QED  BY <1>11, <1>15 DEF B, X, L, base, first

LEMMA NonemptyIs ==
    /\ Nonempty \in [Seq(Str) -> Seq(Str)]
    /\ \A l \in Seq(Str) :
         Nonempty[l] = IF l = <<>> THEN <<>>
                     ELSE (IF Head(l) = <<>> THEN <<>> ELSE <<Head(l)>>) \o Nonempty[Tail(l)]
<1> DEFINE L == Seq(Str)
           X == Seq(Str)
           B == {l \in L : l = <<>>}
           rank == [l \in L |-> Len(l)]
           base == [l \in L |-> IF l \in B THEN <<>> ELSE <<>>]
           first(l) == IF Head(l) = <<>> THEN <<>> ELSE <<Head(l)>>
           next == [l \in L |-> IF l \in B THEN l ELSE Tail(l)]
           G == [l \in L |-> [x \in X |-> IF l \in B THEN x ELSE first(l) \o x]]
<1>1. rank \in [L -> Nat] /\ base \in [L -> X]
  BY LenProperties, EmptyAndOne DEF Str
<1>2. \A l \in L \ B : first(l) \in Seq(Str) /\ Tail(l) \in L /\ Len(Tail(l)) < Len(l)
  <2> SUFFICES ASSUME NEW l \in L \ B
               PROVE  first(l) \in Seq(Str) /\ Tail(l) \in L /\ Len(Tail(l)) < Len(l)
    OBVIOUS
  <2>1. l # <<>>
    BY EmptyAndOne
  <2>2. Head(l) \in Str /\ Tail(l) \in L /\ Len(Tail(l)) = Len(l) - 1 /\ Len(l) \in Nat
    BY <2>1, HeadTailProperties, LenProperties
  <2>3. first(l) \in Seq(Str)
    BY <2>2, Delimiters, EmptyAndOne, ConcatType DEF Str
  <2> HIDE DEF first
  <2> QED  BY <2>2, <2>3
<1> HIDE DEF first
<1>3. next \in [L -> L] /\ \A l \in L \ B : rank[next[l]] < rank[l]
  BY <1>2
<1>4. G \in [L -> [X -> X]]
  BY <1>2, ConcatType DEF Str
<1>5. Descends(L, rank, B, next)
  BY <1>1, <1>3 DEF Descends
<1>6. PICK f : Solves(f, L, X, B, base, next, G)
  <2> HIDE DEF L, B, X, rank, base, next, G
  <2> QED  BY <1>1, <1>4, <1>5, RankedRecursion
<1>7. \A l \in L : f[l] = IF l \in B THEN base[l] ELSE first(l) \o f[Tail(l)]
  BY <1>2, <1>6 DEF Solves
<1> DEFINE Eq(g) == g = [l \in L |-> IF l \in B THEN base[l] ELSE first(l) \o g[Tail(l)]]
<1>8. Eq(f)
  BY <1>6, <1>7 DEF Solves
<1>9. Nonempty = CHOOSE g : Eq(g)
  BY DEF Nonempty, Str, first
<1> HIDE DEF B, X, L, base
<1>10. Eq(Nonempty)
  BY <1>8, <1>9
<1>11. \A l \in L : Nonempty[l] = IF l \in B THEN base[l] ELSE first(l) \o Nonempty[Tail(l)]
  BY <1>10
<1>12. \A l \in L \ B : Nonempty[next[l]] \in X => Nonempty[l] = G[l][Nonempty[next[l]]]
  BY <1>2, <1>11
<1>13. Nonempty = [l \in L |-> Nonempty[l]] /\ \A l \in B : Nonempty[l] = base[l]
  BY <1>10, <1>11 DEF B
<1>14. Solves(Nonempty, L, X, B, base, next, G)
  <2> HIDE DEF rank, next, G, Eq
  <2> QED  BY <1>1, <1>4, <1>5, <1>12, <1>13, RankedType
<1>15. Nonempty \in [L -> X]
  BY <1>14 DEF Solves
<1> QED  BY <1>11, <1>15 DEF B, X, L, base, first

LEMMA WordsIs ==
    /\ Words \in [Str -> Seq(Str)]
    /\ \A s \in Str :
         Words[s] = IF FindIn(s, <<" ">>) = 0 THEN <<s>>
                    ELSE (IF FindIn(s, <<" ">>) = 1 THEN <<>>
                           ELSE <<SubSeq(s, 1, FindIn(s, <<" ">>) - 1)>>)
                          \o Words[From(s, FindIn(s, <<" ">>) + 1)]
<1> DEFINE X == Seq(Str)
           B == {s \in Str : FindIn(s, <<" ">>) = 0}
           rank == [s \in Str |-> Len(s)]
           base == [s \in Str |-> <<s>>]
           word(s) == IF FindIn(s, <<" ">>) = 1 THEN <<>> ELSE <<SubSeq(s, 1, FindIn(s, <<" ">>) - 1)>>
           rest(s) == From(s, FindIn(s, <<" ">>) + 1)
           next == [s \in Str |-> IF s \in B THEN s ELSE rest(s)]
           G == [s \in Str |-> [x \in X |-> IF s \in B THEN x ELSE word(s) \o x]]
<1>1. rank \in [Str -> Nat] /\ base \in [Str -> X]
  BY LenProperties, EmptyAndOne DEF Str
<1>2. \A s \in Str \ B : word(s) \in Seq(Str) /\ rest(s) \in Str /\ Len(rest(s)) < Len(s)
  <2> SUFFICES ASSUME NEW s \in Str \ B
               PROVE  word(s) \in Seq(Str) /\ rest(s) \in Str /\ Len(rest(s)) < Len(s)
    OBVIOUS
  <2>1. SubSeq(s, 1, FindIn(s, <<" ">>) - 1) \in Str /\ rest(s) \in Str /\ Len(rest(s)) < Len(s)
    BY Delimiters, Cut
  <2> QED  BY <2>1, EmptyAndOne
<1> HIDE DEF word, rest
<1>3. next \in [Str -> Str] /\ \A s \in Str \ B : rank[next[s]] < rank[s]
  BY <1>2
<1>4. G \in [Str -> [X -> X]]
  BY <1>2, EmptyAndOne, ConcatType
<1>5. Descends(Str, rank, B, next)
  BY <1>1, <1>3 DEF Descends
<1>6. PICK f : Solves(f, Str, X, B, base, next, G)
  <2> HIDE DEF B, X, rank, base, next, G
  <2> QED  BY <1>1, <1>4, <1>5, RankedRecursion
<1>7. \A s \in Str : f[s] = IF s \in B THEN <<s>> ELSE word(s) \o f[rest(s)]
  BY <1>2, <1>6 DEF Solves
<1> DEFINE Eq(g) == g = [s \in Str |-> IF s \in B THEN <<s>> ELSE word(s) \o g[rest(s)]]
<1>8. Eq(f)
  BY <1>6, <1>7 DEF Solves
<1>9. Words = CHOOSE g : Eq(g)
  BY DEF Words, Str, word, rest
<1> HIDE DEF B, X
<1>10. Eq(Words)
  BY <1>8, <1>9
<1>11. \A s \in Str : Words[s] = IF s \in B THEN <<s>> ELSE word(s) \o Words[rest(s)]
  BY <1>10
<1>12. \A s \in Str \ B : Words[next[s]] \in X => Words[s] = G[s][Words[next[s]]]
  BY <1>2, <1>11
<1>13. Words = [s \in Str |-> Words[s]] /\ \A s \in B : Words[s] = base[s]
  BY <1>10, <1>11 DEF B
<1>14. Solves(Words, Str, X, B, base, next, G)
  <2> HIDE DEF B, X, rank, base, next, G, Eq
  <2> QED  BY <1>1, <1>4, <1>5, <1>12, <1>13, RankedType
<1>15. Words \in [Str -> X]
  BY <1>14 DEF Solves
<1> QED  BY <1>11, <1>15 DEF B, X, word, rest

-----------------------------------------------------------------------------
(* Texts of a row. *)

\* The pieces of a concatenation.
LEMMA Pieces ==
    ASSUME NEW a \in Str, NEW d \in Str, NEW r \in Str
    PROVE  /\ a \o d \o r \in Str
           /\ SubSeq(a \o d \o r, 1, Len(a)) = a
           /\ From(a \o d \o r, Len(a) + Len(d) + 1) = r
<1> DEFINE s == a \o d
           t == s \o r
<1>0. Len(a) \in Nat /\ Len(d) \in Nat /\ Len(r) \in Nat
  BY LenProperties DEF Str
<1>1. /\ s \in Seq(Chars) /\ Len(s) = Len(a) + Len(d)
      /\ \A i \in 1..(Len(a) + Len(d)) : s[i] = IF i <= Len(a) THEN a[i] ELSE d[i - Len(a)]
  BY ConcatProperties DEF Str
<1> HIDE DEF s
<1>2. /\ t \in Seq(Chars) /\ Len(t) = Len(s) + Len(r)
      /\ \A i \in 1..(Len(s) + Len(r)) : t[i] = IF i <= Len(s) THEN s[i] ELSE r[i - Len(s)]
  <2>1. s \in Seq(Chars) /\ r \in Seq(Chars)
    BY <1>1 DEF Str
  <2> QED  BY <2>1, ConcatProperties
<1> HIDE DEF t
<1>3. Len(s) = Len(a) + Len(d) /\ Len(t) = Len(a) + Len(d) + Len(r)
  BY <1>1, <1>2
<1>4. \A i \in 1..Len(t) : t[i] \in Chars
  BY <1>2, ElementOfSeq
<1>5. SubSeq(t, 1, Len(a)) = a
  <2> DEFINE u == SubSeq(t, 1, Len(a))
  <2>1. \A i \in 1..Len(a) : t[i] \in Chars
    BY <1>0, <1>3, <1>4
  <2>2. /\ u \in Seq(Chars) /\ Len(u) = IF 1 <= Len(a) THEN Len(a) - 1 + 1 ELSE 0
        /\ \A i \in 1..(Len(a) - 1 + 1) : u[i] = t[1 + i - 1]
    <3> 1 \in Int /\ Len(a) \in Int
      BY <1>0
    <3> QED  BY <2>1, SubSeqProperties
  <2> HIDE DEF u
  <2>3. Len(u) = Len(a)
    BY <2>2, <1>0
  <2>4. \A i \in 1..Len(a) : u[i] = a[i]
    <3> SUFFICES ASSUME NEW i \in 1..Len(a) PROVE u[i] = a[i]
      OBVIOUS
    <3>1. u[i] = t[i]
      BY <2>2, <1>0
    <3>2. t[i] = s[i]
      BY <1>0, <1>2, <1>3
    <3>3. s[i] = a[i]
      BY <1>0, <1>1
    <3> QED  BY <3>1, <3>2, <3>3
  <2>5. a \in Seq(Chars)
    BY DEF Str
  <2>6. u = a
    BY <2>2, <2>3, <2>4, <2>5, SeqEqual
  <2> QED  BY <2>6 DEF u
<1>6. From(t, Len(a) + Len(d) + 1) = r
  <2> DEFINE m == Len(a) + Len(d) + 1
             u == SubSeq(t, m, Len(t))
  <2>1. \A i \in m..Len(t) : t[i] \in Chars
    BY <1>0, <1>3, <1>4
  <2>0. m \in Int /\ Len(t) \in Int /\ m = Len(s) + 1 /\ Len(t) - m + 1 = Len(r)
    BY <1>0, <1>3
  <2> HIDE DEF m
  <2>2. /\ u \in Seq(Chars) /\ Len(u) = IF m <= Len(t) THEN Len(t) - m + 1 ELSE 0
        /\ \A i \in 1..(Len(t) - m + 1) : u[i] = t[m + i - 1]
    BY <2>0, <2>1, SubSeqProperties
  <2> HIDE DEF u
  <2>3. Len(u) = Len(r)
    BY <2>0, <2>2, <1>0
  <2>4. \A i \in 1..Len(r) : u[i] = r[i]
    <3> SUFFICES ASSUME NEW i \in 1..Len(r) PROVE u[i] = r[i]
      OBVIOUS
    <3>1. u[i] = t[m + i - 1]
      BY <2>0, <2>2
    <3>2. /\ m + i - 1 = Len(s) + i /\ Len(s) \in Nat /\ Len(s) + i \in 1..(Len(s) + Len(r))
          /\ ~(Len(s) + i <= Len(s)) /\ Len(s) + i - Len(s) = i
      BY <2>0, <1>0, <1>3
    <3>3. t[Len(s) + i] = r[i]
      BY <3>2, <1>2
    <3> QED  BY <3>1, <3>2, <3>3
  <2>5. r \in Seq(Chars)
    BY DEF Str
  <2>6. u = r
    BY <2>2, <2>3, <2>4, <2>5, SeqEqual
  <2> QED  BY <2>6 DEF u, m, From
<1> QED  BY <1>2, <1>5, <1>6 DEF s, t, Str

\* The first argument comes out of a row as it is, or the first thing that comes out is
\* shorter.
LEMMA SplitFirst ==
    ASSUME NEW a \in Str, NEW r \in Str
    PROVE  /\ FindIn(a \o delimiter, delimiter) = Len(a) + 1 =>
                Split[a \o delimiter \o r] = <<a>> \o Split[r]
           /\ FindIn(a \o delimiter, delimiter) # Len(a) + 1 =>
                \E w \in Str, x \in Seq(Str) :
                   Split[a \o delimiter \o r] = <<w>> \o x /\ Len(w) < Len(a)
<1> DEFINE s == a \o delimiter \o r
           p == FindIn(s, delimiter)
<1> DEFINE n == Len(delimiter)
<1>0. delimiter \in Str /\ delimiter # <<>> /\ n \in Nat
  <2>1. delimiter \in Str /\ delimiter # <<>>
    BY Delimiters
  <2> QED  BY <2>1, LenProperties DEF Str
<1>1. s \in Str /\ SubSeq(s, 1, Len(a)) = a /\ From(s, Len(a) + n + 1) = r
  BY <1>0, Pieces
<1>2. p = FindIn(a \o delimiter, delimiter) /\ p \in 1..(Len(a) + 1)
  BY <1>0, FindInFront
<1>3. Len(a) \in Nat
  BY LenProperties DEF Str
<1> HIDE DEF s
<1>4. /\ SubSeq(s, 1, p - 1) \in Str /\ Len(SubSeq(s, 1, p - 1)) = p - 1
      /\ From(s, p + n) \in Str
  <2>1. p # 0
    BY <1>2, <1>3
  <2> QED  BY <1>0, <1>1, <2>1, Cut
<1>5. Split[s] = <<SubSeq(s, 1, p - 1)>> \o Split[From(s, p + n)]
  <2>1. p # 0
    BY <1>2, <1>3
  <2> QED  BY <1>1, <2>1, SplitIs
<1> HIDE DEF p, n
<1>6. ASSUME p = Len(a) + 1 PROVE Split[s] = <<a>> \o Split[r]
  <2>1. p - 1 = Len(a) /\ p + n = Len(a) + n + 1
    BY <1>0, <1>3, <1>6
  <2> QED  BY <1>1, <1>5, <2>1
<1>7. ASSUME p # Len(a) + 1
      PROVE  \E w \in Str, x \in Seq(Str) : Split[s] = <<w>> \o x /\ Len(w) < Len(a)
  <2>1. p - 1 < Len(a)
    BY <1>2, <1>3, <1>7
  <2>2. Split[From(s, p + n)] \in Seq(Str)
    BY <1>4, SplitIs
  <2> QED  BY <1>4, <1>5, <2>1, <2>2
<1> QED  BY <1>2, <1>6, <1>7 DEF s

\* A list is clean if its first argument is and the others are.
LEMMA CleanTail ==
    ASSUME NEW l \in Seq(Str), l # <<>>, Len(l) # 1
    PROVE  Clean(l) <=> /\ FindIn(Head(l) \o delimiter, delimiter) = Len(Head(l)) + 1
                        /\ Clean(Tail(l))
<1> DEFINE t == Tail(l)
           ok(a) == FindIn(a \o delimiter, delimiter) = Len(a) + 1
<1>1. /\ Len(l) \in Nat /\ Len(l) > 1 /\ Len(t) = Len(l) - 1 /\ t \in Seq(Str)
      /\ \A i \in 1..(Len(l) - 1) : t[i] = l[i + 1]
  <2>1. Len(l) \in Nat \ {0}
    BY EmptySeq
  <2>2. t \in Seq(Str) /\ Len(t) = Len(l) - 1 /\ \A i \in 1..Len(t) : t[i] = l[i + 1]
    BY HeadTailProperties
  <2> QED  BY <2>1, <2>2
<1>2. Head(l) = l[1]
  OBVIOUS
<1> HIDE DEF t, ok
<1>3. t # <<>> /\ l # <<>>
  <2>1. Len(t) # 0
    BY <1>1
  <2> QED  BY <2>1, EmptySeq
<1>4. Last(t) = Last(l)
  <2>1. Last(t) = t[Len(l) - 1] /\ Last(l) = l[Len(l)]
    BY <1>1 DEF Last
  <2>2. t[Len(l) - 1] = l[Len(l) - 1 + 1] /\ Len(l) - 1 + 1 = Len(l)
    BY <1>1
  <2> QED  BY <2>1, <2>2
<1>5. (\A i \in 1..(Len(l) - 1) : ok(l[i])) <=> ok(l[1]) /\ \A i \in 1..(Len(t) - 1) : ok(t[i])
  <2>1. ASSUME \A i \in 1..(Len(l) - 1) : ok(l[i])
        PROVE  ok(l[1]) /\ \A i \in 1..(Len(t) - 1) : ok(t[i])
    <3>1. 1 \in 1..(Len(l) - 1)
      BY <1>1
    <3>2. ASSUME NEW i \in 1..(Len(t) - 1) PROVE ok(t[i])
      <4>1. i + 1 \in 1..(Len(l) - 1) /\ t[i] = l[i + 1]
        BY <1>1
      <4> QED  BY <2>1, <4>1
    <3> QED  BY <2>1, <3>1, <3>2
  <2>2. ASSUME ok(l[1]), \A i \in 1..(Len(t) - 1) : ok(t[i]), NEW i \in 1..(Len(l) - 1)
        PROVE  ok(l[i])
    <3>1. CASE i = 1
      BY <2>2, <3>1
    <3>2. CASE i # 1
      <4>1. i - 1 \in 1..(Len(t) - 1) /\ t[i - 1] = l[i]
        BY <1>1, <3>2
      <4> QED  BY <2>2, <4>1
    <3> QED  BY <3>1, <3>2
  <2> QED  BY <2>1, <2>2
<1>6. Clean(l) <=> FindIn(Last(l), delimiter) = 0 /\ \A i \in 1..(Len(l) - 1) : ok(l[i])
  BY <1>3 DEF Clean, ok
<1>7. Clean(t) <=> FindIn(Last(t), delimiter) = 0 /\ \A i \in 1..(Len(t) - 1) : ok(t[i])
  BY <1>3 DEF Clean, ok
<1>8. Clean(l) <=> ok(l[1]) /\ Clean(t)
  BY <1>4, <1>5, <1>6, <1>7
<1> QED  BY <1>2, <1>8 DEF t, ok

\* The head and the tail of a list with one more in front.
LEMMA ConcatHead ==
    ASSUME NEW S, NEW a \in S, NEW x \in Seq(S)
    PROVE  /\ <<a>> \o x \in Seq(S) /\ <<a>> \o x # <<>> /\ Len(<<a>> \o x) = Len(x) + 1
           /\ Head(<<a>> \o x) = a /\ Tail(<<a>> \o x) = x
<1> DEFINE s == <<a>> \o x
<1>0. Len(x) \in Nat
  BY LenProperties
<1>1. /\ s \in Seq(S) /\ Len(s) = 1 + Len(x)
      /\ \A i \in 1..(1 + Len(x)) : s[i] = IF i <= 1 THEN <<a>>[i] ELSE x[i - 1]
  BY EmptyAndOne, ConcatProperties
<1> HIDE DEF s
<1>2. s # <<>> /\ s[1] = a
  BY <1>0, <1>1
<1>3. Head(s) = a
  BY <1>2
<1>4. /\ Tail(s) \in Seq(S) /\ Len(Tail(s)) = Len(s) - 1
      /\ \A i \in 1..Len(Tail(s)) : Tail(s)[i] = s[i + 1]
  BY <1>1, <1>2, HeadTailProperties
<1>5. Tail(s) = x
  <2>1. Len(Tail(s)) = Len(x)
    BY <1>0, <1>1, <1>4
  <2>2. \A i \in 1..Len(x) : Tail(s)[i] = x[i]
    BY <1>0, <1>1, <1>4, <2>1
  <2> QED  BY <1>4, <2>1, <2>2, SeqEqual
<1>6. Len(s) = Len(x) + 1
  BY <1>0, <1>1
<1> QED  BY <1>1, <1>2, <1>3, <1>5, <1>6 DEF s

LEMMA SplitNever == \A s \in Str : Split[s] # <<>>
<1> SUFFICES ASSUME NEW s \in Str PROVE Split[s] # <<>>
  OBVIOUS
<1>1. CASE FindIn(s, delimiter) = 0
  <2>1. Split[s] = <<s>>
    BY <1>1, SplitIs
  <2> QED  BY <2>1
<1>2. CASE FindIn(s, delimiter) # 0
  <2> DEFINE w == SubSeq(s, 1, FindIn(s, delimiter) - 1)
             r == From(s, FindIn(s, delimiter) + Len(delimiter))
  <2>1. w \in Str /\ r \in Str
    BY <1>2, Delimiters, Cut
  <2>2. Split[s] = <<w>> \o Split[r] /\ Split[r] \in Seq(Str)
    BY <1>2, <2>1, SplitIs
  <2> QED  BY <2>1, <2>2, ConcatHead
<1> QED  BY <1>1, <1>2

\* A list comes out of its row exactly if it is clean, however long it is.
THEOREM SplitConcat == \A l \in Seq(Str) : Split[Concat[l]] = l <=> Clean(l)
<1> DEFINE L == Seq(Str)
           P == {l \in L : Split[Concat[l]] = l <=> Clean(l)}
           rank == [l \in L |-> Len(l)]
<1>1. rank \in [L -> Nat]
  BY LenProperties
<1>2. ASSUME NEW l \in L, \A u \in L : rank[u] < rank[l] => u \in P PROVE l \in P
  <2>1. CASE l = <<>>
    <3>1. Concat[l] = <<>> /\ <<>> \in Str
      <4>1. Concat[l] = <<>>
        BY <2>1, ConcatIs
      <4> QED  BY <4>1, EmptyAndOne DEF Str
    <3>2. Split[<<>>] # <<>>
      BY <3>1, SplitNever
    <3> QED  BY <2>1, <3>1, <3>2 DEF Clean
  <2>2. CASE l # <<>> /\ Len(l) = 1
    <3> DEFINE a == Head(l)
    <3>1. a \in Str /\ Concat[l] = a /\ l = <<a>> /\ Last(l) = a
      <4>1. a \in Str /\ Concat[l] = a
        BY <2>2, ConcatIs, HeadTailProperties
      <4>2. l = <<a>> /\ Last(l) = a
        BY <2>2 DEF Last
      <4> QED  BY <4>1, <4>2
    <3>2. Clean(l) <=> FindIn(a, delimiter) = 0
      BY <2>2, <3>1 DEF Clean
    <3> HIDE DEF a
    <3>3. CASE FindIn(a, delimiter) = 0
      BY <3>1, <3>2, <3>3, SplitIs
    <3>4. CASE FindIn(a, delimiter) # 0
      <4> DEFINE w == SubSeq(a, 1, FindIn(a, delimiter) - 1)
                 r == From(a, FindIn(a, delimiter) + Len(delimiter))
      <4>1. w \in Str /\ r \in Str /\ Len(r) < Len(a) /\ a = w \o delimiter \o r
        BY <3>1, <3>4, Delimiters, Cut
      <4>2. Split[a] = <<w>> \o Split[r] /\ Split[r] \in Seq(Str)
        BY <3>1, <3>4, <4>1, SplitIs
      <4>3. Len(Split[a]) = Len(Split[r]) + 1 /\ Len(Split[r]) \in Nat
        BY <4>1, <4>2, ConcatHead, LenProperties
      <4>4. Split[r] # <<>>
        BY <4>1, SplitNever
      <4>5. Len(Split[a]) # 1
        BY <4>2, <4>3, <4>4, EmptySeq
      <4> QED  BY <2>2, <3>1, <3>2, <3>4, <4>5
    <3> QED  BY <3>3, <3>4
  <2>3. CASE l # <<>> /\ Len(l) # 1
    <3> DEFINE a == Head(l)
               t == Tail(l)
    <3>1. a \in Str /\ t \in L /\ Len(t) < Len(l) /\ l = <<a>> \o t
      <4>1. Head(l) \in Str /\ Tail(l) \in L /\ Len(Tail(l)) = Len(l) - 1 /\ Len(l) \in Nat
        BY <2>3, HeadTailProperties, LenProperties
      <4>2. l = <<Head(l)>> \o Tail(l)
        BY <2>3
      <4> QED  BY <4>1, <4>2
    <3>2. Concat[l] = a \o delimiter \o Concat[t] /\ Concat[t] \in Str
      BY <2>3, <3>1, ConcatIs
    <3>3. Clean(l) <=> FindIn(a \o delimiter, delimiter) = Len(a) + 1 /\ Clean(t)
      BY <2>3, CleanTail
    <3>4. Split[Concat[t]] = t <=> Clean(t)
      BY <1>2, <3>1
    <3> HIDE DEF a, t
    <3>5. CASE FindIn(a \o delimiter, delimiter) = Len(a) + 1
      <4>1. Split[Concat[l]] = <<a>> \o Split[Concat[t]] /\ Split[Concat[t]] \in Seq(Str)
        <5>1. Split[Concat[t]] \in Seq(Str)
          BY <3>2, SplitIs
        <5>2. Split[Concat[l]] = <<a>> \o Split[Concat[t]]
          BY <3>1, <3>2, <3>5, SplitFirst
        <5> QED  BY <5>1, <5>2
      <4>2. Tail(Split[Concat[l]]) = Split[Concat[t]] /\ Tail(l) = t
        BY <3>1, <4>1, ConcatHead
      <4> QED  BY <3>1, <3>3, <3>4, <3>5, <4>1, <4>2
    <3>6. CASE FindIn(a \o delimiter, delimiter) # Len(a) + 1
      <4>1. PICK w \in Str, x \in Seq(Str) : Split[Concat[l]] = <<w>> \o x /\ Len(w) < Len(a)
        BY <3>1, <3>2, <3>6, SplitFirst
      <4>2. Head(Split[Concat[l]]) = w /\ Head(l) = a
        BY <3>1, <4>1, ConcatHead
      <4>3. w # a
        BY <3>1, <4>1, LenProperties DEF Str
      <4> QED  BY <3>3, <3>6, <4>2, <4>3
    <3> QED  BY <3>5, <3>6
  <2> QED  BY <2>1, <2>2, <2>3
<1>3. P = L
  <2>1. P \in SUBSET L /\ Inherits(L, rank, P)
    BY <1>2 DEF Inherits
  <2> HIDE DEF P, L, rank
  <2> QED  BY <1>1, <2>1, RankInduction
<1> QED  BY <1>3

\* A row of any length is what its parts are put together to, so that a finished task is
\* listed as it was run.  (splitString, concatString)
THEOREM ConcatSplit == \A s \in Str : Concat[Split[s]] = s
<1> DEFINE P == {s \in Str : Concat[Split[s]] = s}
           rank == [s \in Str |-> Len(s)]
<1>1. rank \in [Str -> Nat]
  BY LenProperties DEF Str
<1>2. ASSUME NEW s \in Str, \A u \in Str : rank[u] < rank[s] => u \in P PROVE s \in P
  <2>1. CASE FindIn(s, delimiter) = 0
    <3>1. Split[s] = <<s>> /\ <<s>> \in Seq(Str) /\ Len(<<s>>) = 1 /\ Head(<<s>>) = s /\ <<s>> # <<>>
      <4>1. Split[s] = <<s>>
        BY <2>1, SplitIs
      <4> QED  BY <4>1
    <3> HIDE DEF rank
    <3>2. Concat[Split[s]] = Head(Split[s])
      BY <3>1, ConcatIs
    <3> QED  BY <3>1, <3>2
  <2>2. CASE FindIn(s, delimiter) # 0
    <3> DEFINE w == SubSeq(s, 1, FindIn(s, delimiter) - 1)
               r == From(s, FindIn(s, delimiter) + Len(delimiter))
    <3>1. w \in Str /\ r \in Str /\ Len(r) < Len(s) /\ s = w \o delimiter \o r
      BY <2>2, Delimiters, Cut
    <3>2. Split[s] = <<w>> \o Split[r] /\ Split[r] \in Seq(Str) /\ Split[r] # <<>>
      BY <2>2, <3>1, SplitIs, SplitNever
    <3>3. Concat[Split[r]] = r
      BY <1>2, <3>1
    <3> HIDE DEF w, r, rank
    <3>4. /\ Split[s] \in Seq(Str) /\ Split[s] # <<>> /\ Len(Split[s]) = Len(Split[r]) + 1
          /\ Head(Split[s]) = w /\ Tail(Split[s]) = Split[r]
      BY <3>1, <3>2, ConcatHead
    <3>5. Len(Split[s]) # 1
      <4>1. Len(Split[r]) \in Nat \ {0}
        BY <3>2, EmptySeq
      <4> QED  BY <3>4, <4>1
    <3>6. Concat[Split[s]] = w \o delimiter \o r
      BY <3>3, <3>4, <3>5, ConcatIs
    <3> QED  BY <3>1, <3>6
  <2> QED  BY <2>1, <2>2
<1>3. P = Str
  <2>1. P \in SUBSET Str /\ Inherits(Str, rank, P)
    BY <1>2 DEF Inherits
  <2> HIDE DEF P, rank
  <2> QED  BY <1>1, <2>1, RankInduction
<1> QED  BY <1>3

-----------------------------------------------------------------------------
(* The command line of Windows. *)

Plain(a) == \A k \in 1..Len(a) : a[k] # " "

\* The first space is the one behind the text that has none.
LEMMA FirstSpace ==
    ASSUME NEW a \in Str, NEW r \in Str, NEW d \in Str, Len(d) = 1,
           \A k \in 1..Len(a) : a[k] # d[1]
    PROVE  FindIn(a \o d \o r, d) = Len(a) + 1
<1> DEFINE s == a \o d
           p == FindIn(s, d)
<1>0. Len(a) \in Nat
  BY LenProperties DEF Str
<1>1. /\ s \in Str /\ Len(s) = Len(a) + 1
      /\ \A i \in 1..(Len(a) + 1) : s[i] = IF i <= Len(a) THEN a[i] ELSE d[i - Len(a)]
  <2>1. /\ s \in Seq(Chars) /\ Len(s) = Len(a) + Len(d)
        /\ \A i \in 1..(Len(a) + Len(d)) : s[i] = IF i <= Len(a) THEN a[i] ELSE d[i - Len(a)]
    BY ConcatProperties DEF Str
  <2> QED  BY <2>1 DEF Str
<1>2. FindIn(s \o r, d) = p /\ p \in 1..(Len(a) + 1)
  BY FindInFront
<1> HIDE DEF s, p
<1>3. At(s, d, p)
  <2>1. p # 0
    BY <1>0, <1>2
  <2> QED  BY <1>1, <2>1, FindInIs DEF p
<1>4. s[p] = d[1]
  <2>1. 1 \in 1..Len(d) /\ p + 1 - 1 = p
    BY <1>0, <1>2
  <2> QED  BY <1>3, <2>1 DEF At
<1>5. ~(p <= Len(a))
  <2> SUFFICES ASSUME p <= Len(a) PROVE FALSE
    OBVIOUS
  <2>1. p \in 1..Len(a) /\ p \in 1..(Len(a) + 1)
    BY <1>0, <1>2
  <2>2. s[p] = a[p]
    BY <1>1, <2>1
  <2> QED  BY <1>4, <2>1, <2>2
<1>6. p = Len(a) + 1
  BY <1>0, <1>2, <1>5
<1> QED  BY <1>2, <1>6 DEF s

LEMMA NoneFound ==
    ASSUME NEW d \in Str, Len(d) > 0
    PROVE  FindIn(<<>>, d) = 0
<1>1. <<>> \in Str
  BY EmptyAndOne DEF Str
<1>2. Len(d) \in Nat
  BY LenProperties DEF Str
<1>3. \A i : ~At(<<>>, d, i)
  BY <1>2 DEF At
<1> QED  BY <1>1, <1>3, FindInIs

\* The words of arguments that are all followed by a space are those that are not empty,
\* and an empty one.
LEMMA WordsSpaced ==
    \A l \in Seq(Str) : (\A i \in 1..Len(l) : Plain(l[i])) =>
       Words[Spaced[l]] = Nonempty[l] \o <<(<<>>)>>
<1> DEFINE L == Seq(Str)
           ok(l) == \A i \in 1..Len(l) : Plain(l[i])
           P == {l \in L : ok(l) => Words[Spaced[l]] = Nonempty[l] \o <<(<<>>)>>}
           rank == [l \in L |-> Len(l)]
<1>0. <<>> \in Str
  BY EmptyAndOne DEF Str
<1>1. rank \in [L -> Nat]
  BY LenProperties
<1>2. ASSUME NEW l \in L, \A u \in L : rank[u] < rank[l] => u \in P PROVE l \in P
  <2>1. CASE l = <<>>
    <3>1. Spaced[l] = <<>> /\ Nonempty[l] = <<>>
      BY <2>1, SpacedIs, NonemptyIs
    <3>2. FindIn(<<>>, <<" ">>) = 0
      <4> DEFINE d == <<" ">>
      <4>1. d \in Str /\ Len(d) = 1
        BY Delimiters
      <4> HIDE DEF d
      <4>2. FindIn(<<>>, d) = 0
        BY <4>1, NoneFound
      <4> QED  BY <4>2 DEF d
    <3>3. Words[<<>>] = <<(<<>>)>>
      BY <1>0, <3>2, WordsIs
    <3>4. <<>> \o <<(<<>>)>> = <<(<<>>)>>
      BY <1>0, EmptyAndOne, ConcatEmptySeq
    <3> QED  BY <3>1, <3>3, <3>4
  <2>2. CASE l # <<>> /\ ok(l)
    <3> DEFINE h == Head(l)
               t == Tail(l)
               first == IF h = <<>> THEN <<>> ELSE <<h>>
    <3>1. /\ h \in Str /\ h = l[1] /\ t \in L /\ Len(t) = Len(l) - 1 /\ Len(l) \in Nat \ {0}
          /\ \A i \in 1..Len(t) : t[i] = l[i + 1]
      BY <2>2, HeadTailProperties, EmptySeq
    <3>2. Spaced[l] = h \o <<" ">> \o Spaced[t] /\ Spaced[t] \in Str
      BY <2>2, <3>1, SpacedIs
    <3>3. Nonempty[l] = first \o Nonempty[t] /\ Nonempty[t] \in Seq(Str)
      BY <2>2, <3>1, NonemptyIs
    <3> HIDE DEF h, t
    <3>4. Plain(h)
      BY <2>2, <3>1
    <3>5. ok(t)
      <4> SUFFICES ASSUME NEW i \in 1..Len(t) PROVE Plain(t[i])
        OBVIOUS
      <4>1. i + 1 \in 1..Len(l) /\ t[i] = l[i + 1]
        BY <3>1
      <4> QED  BY <2>2, <4>1
    <3>6. Words[Spaced[t]] = Nonempty[t] \o <<(<<>>)>>
      <4>1. rank[t] < rank[l]
        BY <3>1
      <4> QED  BY <1>2, <3>1, <3>5, <4>1
    <3>7. Words[Spaced[l]] = first \o Words[Spaced[t]]
      <4> DEFINE d == <<" ">>
                 s == h \o d \o Spaced[t]
                 p == FindIn(s, d)
      <4>0. d \in Str /\ Len(d) = 1 /\ d[1] = " "
        BY Delimiters
      <4>1. Words[s] = IF p = 0 THEN <<s>>
                       ELSE (IF p = 1 THEN <<>> ELSE <<SubSeq(s, 1, p - 1)>>)
                              \o Words[From(s, p + 1)]
        <5>1. s \in Str
          BY <3>1, <3>2, <4>0, Pieces
        <5> QED  BY <5>1, WordsIs
      <4> HIDE DEF d
      <4>2. SubSeq(s, 1, Len(h)) = h /\ From(s, Len(h) + Len(d) + 1) = Spaced[t]
        BY <3>1, <3>2, <4>0, Pieces
      <4>3. p = Len(h) + 1
        <5>1. \A k \in 1..Len(h) : h[k] # d[1]
          BY <3>4, <4>0 DEF Plain
        <5>2. Len(d) = 1 /\ d \in Str
          BY <4>0
        <5> QED  BY <3>1, <3>2, <5>1, <5>2, FirstSpace
      <4>4. Len(h) \in Nat /\ (Len(h) = 0 <=> h = <<>>)
        BY <3>1, LenProperties, EmptySeq DEF Str
      <4> HIDE DEF s, p
      <4>5. /\ p # 0 /\ p - 1 = Len(h) /\ p + 1 = Len(h) + Len(d) + 1
            /\ p = 1 <=> h = <<>>
        <5>1. Len(d) = 1
          BY <4>0
        <5> QED  BY <4>3, <4>4, <5>1
      <4>6. Words[s] = first \o Words[Spaced[t]]
        BY <4>1, <4>2, <4>5
      <4> QED  BY <3>2, <4>6 DEF s, d
    <3>8. first \in Seq(Str) /\ <<(<<>>)>> \in Seq(Str)
      BY <1>0, <3>1, EmptyAndOne
    <3> HIDE DEF first
    <3> DEFINE e == <<(<<>>)>>
    <3>10. e \in Seq(Str)
      BY <3>8
    <3> HIDE DEF e
    <3>9. first \o (Nonempty[t] \o e) = (first \o Nonempty[t]) \o e
      <4>1. first \in Seq(Str) /\ Nonempty[t] \in Seq(Str)
        BY <3>3, <3>8
      <4> HIDE DEF L, P, ok, rank
      <4>2. \A x, y, z \in Seq(Str) : x \o (y \o z) = (x \o y) \o z
        BY ConcatAssociative
      <4> QED  BY <3>10, <4>1, <4>2, Zenon
    <3> QED  BY <3>3, <3>6, <3>7, <3>9 DEF e
  <2> QED  BY <2>1, <2>2
<1>3. P = L
  <2>1. P \in SUBSET L /\ Inherits(L, rank, P)
    BY <1>2 DEF Inherits
  <2> HIDE DEF P, L, rank
  <2> QED  BY <1>1, <2>1, RankInduction
<1> QED  BY <1>3

\* A list without its last, empty word.
LEMMA LastAndFront ==
    ASSUME NEW n \in Seq(Str)
    PROVE  Last(n \o <<(<<>>)>>) = <<>> /\ Front(n \o <<(<<>>)>>) = n
<1> DEFINE z == <<>>
           last == <<z>>
           f == n \o last
<1>0. Len(n) \in Nat
  BY LenProperties
<1>1. z \in Str /\ last \in Seq(Str) /\ Len(last) = 1 /\ last[1] = z
  BY EmptyAndOne DEF Str
<1> HIDE DEF z, last
<1>2. /\ f \in Seq(Str) /\ Len(f) = Len(n) + 1
      /\ \A i \in 1..(Len(n) + 1) : f[i] = IF i <= Len(n) THEN n[i] ELSE last[i - Len(n)]
  <2>1. last \in Seq(Str) /\ Len(last) = 1
    BY <1>1
  <2>2. /\ f \in Seq(Str) /\ Len(f) = Len(n) + Len(last)
        /\ \A i \in 1..(Len(n) + Len(last)) : f[i] = IF i <= Len(n) THEN n[i] ELSE last[i - Len(n)]
    BY <2>1, ConcatProperties
  <2> QED  BY <2>1, <2>2
<1> HIDE DEF f
<1>3. Last(f) = z
  <2>1. f[Len(n) + 1] = last[Len(n) + 1 - Len(n)] /\ Len(n) + 1 - Len(n) = 1
    BY <1>0, <1>2
  <2> QED  BY <1>1, <1>2, <2>1 DEF Last
<1>4. Front(f) = n
  <2> DEFINE u == SubSeq(f, 1, Len(n))
  <2>1. \A i \in 1..Len(n) : f[i] \in Str
    BY <1>0, <1>2, ElementOfSeq
  <2>2. /\ u \in Seq(Str) /\ Len(u) = IF 1 <= Len(n) THEN Len(n) - 1 + 1 ELSE 0
        /\ \A i \in 1..(Len(n) - 1 + 1) : u[i] = f[1 + i - 1]
    <3> 1 \in Int /\ Len(n) \in Int
      BY <1>0
    <3> QED  BY <2>1, SubSeqProperties
  <2> HIDE DEF u
  <2>3. Len(u) = Len(n)
    BY <1>0, <2>2
  <2>4. \A i \in 1..Len(n) : u[i] = n[i]
    BY <1>0, <1>2, <2>2
  <2>5. u = n
    BY <2>2, <2>3, <2>4, SeqEqual
  <2>6. Len(f) - 1 = Len(n)
    BY <1>0, <1>2
  <2> QED  BY <2>5, <2>6 DEF u, Front
<1> QED  BY <1>3, <1>4 DEF f, last, z

\* A program of Windows finds all but the empty arguments in its command line, however
\* many there are, if none has a space in it.  (WinProc::CreateChildProcess)
THEOREM CommandLine ==
    ASSUME NEW e \in Str, e # <<>>, Plain(e),
           NEW l \in Seq(Str), l # <<>>, \A i \in 1..Len(l) : Plain(l[i])
    PROVE  MainArgs(cmdLine(e, l)) = <<e>> \o Nonempty[l]
<1> DEFINE m == <<e>> \o l
           last == <<(<<>>)>>
           n == Nonempty[m]
           found == getArgs(cmdLine(e, l))
<1>1. m \in Seq(Str) /\ m # <<>> /\ Len(m) = Len(l) + 1 /\ Head(m) = e /\ Tail(m) = l
  BY ConcatHead
<1>2. Len(l) \in Nat
  BY LenProperties
<1>3. \A i \in 1..Len(m) : Plain(m[i])
  <2> SUFFICES ASSUME NEW i \in 1..Len(m) PROVE Plain(m[i])
    OBVIOUS
  <2>1. CASE i = 1
    BY <1>1, <2>1
  <2>2. CASE i # 1
    <3>1. i - 1 \in 1..Len(l) /\ i - 1 \in 1..(Len(m) - 1) /\ (i - 1) + 1 = i
      BY <1>1, <1>2, <2>2
    <3>2. \A j \in 1..Len(Tail(m)) : Tail(m)[j] = m[j + 1]
      BY <1>1, HeadTailProperties
    <3>3. l[i - 1] = m[i]
      BY <1>1, <3>1, <3>2
    <3> QED  BY <3>1, <3>3
  <2> QED  BY <2>1, <2>2
<1> HIDE DEF m
<1>4. Spaced[m] = cmdLine(e, l)
  BY <1>1, SpacedIs DEF cmdLine
<1>5. n = <<e>> \o Nonempty[l] /\ n \in Seq(Str)
  <2>1. n = (IF Head(m) = <<>> THEN <<>> ELSE <<Head(m)>>) \o Nonempty[Tail(m)]
    BY <1>1, NonemptyIs
  <2>2. n \in Seq(Str)
    BY <1>1, NonemptyIs
  <2> QED  BY <1>1, <2>1, <2>2
<1>6. found = n \o last
  BY <1>1, <1>3, <1>4, WordsSpaced DEF getArgs
<1> HIDE DEF n, found
<1>7. Last(found) = <<>> /\ Front(found) = n
  BY <1>5, <1>6, LastAndFront
<1> QED  BY <1>5, <1>7 DEF MainArgs, found

-----------------------------------------------------------------------------
(* The words of a line.  c is the character between them. *)

InkIn(s, c, i) == i \in 1..Len(s) /\ s[i] # c
Part(s, c, p, w) ==
    /\ Len(w) > 0 /\ At(s, w, p)
    /\ \A i \in p..(p + Len(w) - 1) : InkIn(s, c, i)
    /\ ~InkIn(s, c, p - 1) /\ ~InkIn(s, c, p + Len(w))
Places(s, c, ws, n, from) ==
    /\ n \in Nat /\ n <= Len(ws) /\ from \in [1..n -> 1..Len(s)]
    /\ \A k \in 1..n : Part(s, c, from[k], ws[k])
    /\ \A k, l \in 1..n : k < l => from[k] < from[l]
    /\ \A i \in 1..Len(s) : InkIn(s, c, i) /\ ~InkIn(s, c, i - 1) => \E k \in 1..n : from[k] = i
\* c at the end of s, or nothing, gives an empty word more.
EndOf(s, c, ws, n) ==
    IF Len(s) = 0 \/ s[Len(s)] = c THEN Len(ws) = n + 1 /\ Len(ws[n + 1]) = 0 ELSE Len(ws) = n

\* r is what follows c in s at place p.
Behind(s, c, p, r) ==
    /\ p \in 1..Len(s) /\ s[p] = c /\ Len(r) = Len(s) - p
    /\ \A i \in 1..Len(r) : r[i] = s[i + p]

\* What is behind c is at a place later by p in the whole.
LEMMA InkBehind ==
    ASSUME NEW s \in Str, NEW r \in Str, NEW c, NEW p, Behind(s, c, p, r), NEW i \in Nat
    PROVE  InkIn(r, c, i) <=> InkIn(s, c, i + p)
<1>0. Len(s) \in Nat /\ Len(r) \in Nat
  BY LenProperties DEF Str
<1>1. CASE i = 0
  BY <1>0, <1>1 DEF Behind, InkIn
<1>2. CASE i > 0
  <2>1. i \in 1..Len(r) <=> i + p \in 1..Len(s)
    BY <1>0, <1>2 DEF Behind
  <2> QED  BY <2>1 DEF Behind, InkIn
<1> QED  BY <1>1, <1>2

LEMMA PartBehind ==
    ASSUME NEW s \in Str, NEW r \in Str, NEW c, NEW p, Behind(s, c, p, r),
           NEW q \in 1..Len(r), NEW w \in Str, Part(r, c, q, w)
    PROVE  Part(s, c, q + p, w)
<1>0. Len(s) \in Nat /\ Len(r) \in Nat /\ Len(w) \in Nat /\ p \in Nat /\ q \in Nat \ {0}
  BY LenProperties DEF Str, Behind
<1>1. Len(w) > 0 /\ At(r, w, q)
  BY DEF Part
<1>2. At(s, w, q + p)
  <2>1. q + p \in 1..(Len(s) - Len(w) + 1)
    BY <1>0, <1>1 DEF At, Behind
  <2>2. ASSUME NEW k \in 1..Len(w) PROVE s[(q + p) + k - 1] = w[k]
    <3>1. q + k - 1 \in 1..Len(r) /\ (q + k - 1) + p = (q + p) + k - 1
      BY <1>0, <1>1 DEF At
    <3>2. r[q + k - 1] = w[k]
      BY <1>1 DEF At
    <3>3. r[q + k - 1] = s[(q + k - 1) + p]
      BY <3>1 DEF Behind
    <3> QED  BY <3>1, <3>2, <3>3
  <2> QED  BY <2>1, <2>2 DEF At
<1>3. ASSUME NEW i \in (q + p)..(q + p + Len(w) - 1) PROVE InkIn(s, c, i)
  <2>1. i - p \in q..(q + Len(w) - 1) /\ i - p \in Nat /\ (i - p) + p = i
    BY <1>0
  <2>2. InkIn(r, c, i - p)
    BY <2>1 DEF Part
  <2>3. InkIn(s, c, (i - p) + p)
    BY <2>1, <2>2, InkBehind
  <2> QED  BY <2>1, <2>3
<1>4. ~InkIn(s, c, (q + p) - 1)
  <2>1. q - 1 \in Nat /\ (q - 1) + p = (q + p) - 1
    BY <1>0
  <2>2. ~InkIn(r, c, q - 1)
    BY DEF Part
  <2>3. ~InkIn(s, c, (q - 1) + p)
    BY <2>1, <2>2, InkBehind
  <2> QED  BY <2>1, <2>3
<1>5. ~InkIn(s, c, q + p + Len(w))
  <2>1. q + Len(w) \in Nat /\ (q + Len(w)) + p = q + p + Len(w)
    BY <1>0
  <2>2. ~InkIn(r, c, q + Len(w))
    BY DEF Part
  <2>3. ~InkIn(s, c, (q + Len(w)) + p)
    BY <2>1, <2>2, InkBehind
  <2> QED  BY <2>1, <2>3
<1>6. \A i \in (q + p)..(q + p + Len(w) - 1) : InkIn(s, c, i)
  BY <1>3
<1> DEFINE u == q + p
<1>7. /\ Len(w) > 0 /\ At(s, w, u) /\ \A i \in u..(u + Len(w) - 1) : InkIn(s, c, i)
      /\ ~InkIn(s, c, u - 1) /\ ~InkIn(s, c, u + Len(w))
  BY <1>1, <1>2, <1>4, <1>5, <1>6
<1> HIDE DEF u
<1>8. Part(s, c, u, w)
  BY <1>7 DEF Part
<1> QED  BY <1>8 DEF u

\* The words behind c are words of the whole; e is 1 if there is one before it.
LEMMA PlacesBehind ==
    ASSUME NEW s \in Str, NEW r \in Str, NEW c, NEW p, Behind(s, c, p, r),
           NEW ws \in Seq(Str), NEW wr \in Seq(Str), NEW m, NEW g, Places(r, c, wr, m, g),
           NEW e \in {0, 1}, Len(ws) = Len(wr) + e, \A k \in 1..Len(wr) : ws[k + e] = wr[k],
           e = 0 => p = 1, e = 1 => Part(s, c, 1, ws[1]) /\ Len(ws[1]) = p - 1
    PROVE  \E from : Places(s, c, ws, m + e, from)
<1> DEFINE n == m + e
           from == [k \in 1..n |-> IF k <= e THEN 1 ELSE g[k - e] + p]
<1>0. /\ Len(s) \in Nat /\ Len(r) \in Nat /\ Len(ws) \in Nat /\ Len(wr) \in Nat
      /\ p \in Nat \ {0} /\ p <= Len(s) /\ Len(r) = Len(s) - p /\ m \in Nat /\ m <= Len(wr)
  <2>1. Len(s) \in Nat /\ Len(r) \in Nat /\ Len(ws) \in Nat /\ Len(wr) \in Nat
    BY LenProperties DEF Str
  <2>2. p \in 1..Len(s) /\ Len(r) = Len(s) - p
    BY DEF Behind
  <2>3. m \in Nat /\ m <= Len(wr)
    BY DEF Places
  <2> QED  BY <2>1, <2>2, <2>3
<1>g. g \in [1..m -> 1..Len(r)]
  BY DEF Places
<1>1. \A k \in 1..n : /\ k <= e => k = 1 /\ e = 1 /\ from[k] = 1
                      /\ k > e => /\ k - e \in 1..m /\ g[k - e] \in 1..Len(r)
                                  /\ from[k] = g[k - e] + p
  BY <1>0, <1>g
<1>2. from \in [1..n -> 1..Len(s)]
  <2>1. \A k \in 1..n : from[k] \in 1..Len(s)
    BY <1>0, <1>1
  <2>2. from = [k \in 1..n |-> from[k]]
    OBVIOUS
  <2> HIDE DEF from
  <2> QED  BY <2>1, <2>2
<1> HIDE DEF from
<1>3. ASSUME NEW k \in 1..n PROVE Part(s, c, from[k], ws[k])
  <2>1. CASE k <= e
    BY <2>1, <1>1
  <2>2. CASE k > e
    <3>1. k - e \in 1..m /\ g[k - e] \in 1..Len(r) /\ from[k] = g[k - e] + p
      BY <1>1, <2>2
    <3>2. k - e \in 1..Len(wr) /\ (k - e) + e = k
      BY <1>0, <3>1
    <3>3. ws[k] = wr[k - e] /\ wr[k - e] \in Str
      BY <3>2, ElementOfSeq
    <3>4. Part(r, c, g[k - e], wr[k - e])
      BY <3>1 DEF Places
    <3>5. Part(s, c, g[k - e] + p, wr[k - e])
      BY <3>1, <3>3, <3>4, PartBehind
    <3> QED  BY <3>1, <3>3, <3>5
  <2> QED  BY <1>0, <2>1, <2>2
<1>4. ASSUME NEW k \in 1..n, NEW l \in 1..n, k < l PROVE from[k] < from[l]
  <2>0. l > e
    BY <1>0, <1>4
  <2>1. CASE k <= e
    <3>1. from[k] = 1 /\ from[l] = g[l - e] + p /\ g[l - e] \in 1..Len(r)
      BY <1>1, <2>0, <2>1
    <3> QED  BY <1>0, <3>1
  <2>2. CASE k > e
    <3>1. /\ from[k] = g[k - e] + p /\ from[l] = g[l - e] + p
          /\ k - e \in 1..m /\ l - e \in 1..m /\ k - e < l - e
      <4>1. k - e < l - e
        BY <1>0, <1>4
      <4> QED  BY <1>1, <2>0, <2>2, <4>1
    <3>2. g[k - e] < g[l - e] /\ g[k - e] \in 1..Len(r) /\ g[l - e] \in 1..Len(r)
      BY <1>0, <3>1 DEF Places
    <3> QED  BY <1>0, <3>1, <3>2
  <2> QED  BY <1>0, <2>1, <2>2
<1>5. ASSUME NEW i \in 1..Len(s), InkIn(s, c, i), ~InkIn(s, c, i - 1)
      PROVE  \E k \in 1..n : from[k] = i
  <2>1. CASE i > p
    <3> DEFINE j == i - p
               h == j - 1
    <3>1. j \in 1..Len(r) /\ j \in Nat /\ h \in Nat /\ h = j - 1 /\ j + p = i /\ h + p = i - 1
      BY <1>0, <2>1
    <3> HIDE DEF j, h
    <3>2. InkIn(r, c, j) <=> InkIn(s, c, j + p)
      BY <3>1, InkBehind
    <3>3. InkIn(r, c, h) <=> InkIn(s, c, h + p)
      BY <3>1, InkBehind
    <3>4. PICK k \in 1..m : g[k] = j
      BY <1>5, <3>1, <3>2, <3>3 DEF Places
    <3>5. k + e \in 1..n /\ k + e > e /\ (k + e) - e = k
      BY <1>0
    <3>6. from[k + e] = g[k] + p
      BY <1>1, <3>5
    <3>7. from[k + e] = i
      BY <3>1, <3>4, <3>6
    <3> QED  BY <3>5, <3>7
  <2>2. CASE i = p
    BY <1>5, <2>2 DEF InkIn, Behind
  <2>3. CASE i < p
    <3>1. e = 1
      BY <1>0, <2>3
    <3>2. CASE i = 1
      <4>1. 1 \in 1..n /\ 1 <= e
        BY <1>0, <3>1
      <4> QED  BY <1>1, <3>2, <4>1
    <3>3. CASE i # 1
      <4>1. i - 1 \in 1..(1 + Len(ws[1]) - 1)
        BY <1>0, <2>3, <3>1, <3>3
      <4>2. InkIn(s, c, i - 1)
        BY <3>1, <4>1 DEF Part
      <4> QED  BY <1>5, <4>2
    <3> QED  BY <3>2, <3>3
  <2> QED  BY <1>0, <2>1, <2>2, <2>3
<1>6. n \in Nat /\ n <= Len(ws)
  BY <1>0
<1>7. Places(s, c, ws, n, from)
  BY <1>2, <1>3, <1>4, <1>5, <1>6 DEF Places
<1> QED  BY <1>7

\* Where the first of one character is.
LEMMA FirstOne ==
    ASSUME NEW s \in Str, NEW d \in Str, Len(d) = 1
    PROVE  /\ \A i \in 1..Len(s) : s[i] = d[1] => FindIn(s, d) # 0 /\ FindIn(s, d) <= i
           /\ FindIn(s, d) # 0 => FindIn(s, d) \in 1..Len(s) /\ s[FindIn(s, d)] = d[1]
<1>0. Len(s) \in Nat
  BY LenProperties DEF Str
<1>1. \A i : At(s, d, i) <=> i \in 1..Len(s) /\ s[i] = d[1]
  <2>1. \A i : i \in 1..(Len(s) - Len(d) + 1) <=> i \in 1..Len(s)
    BY <1>0
  <2>2. \A k \in 1..Len(d) : k = 1
    OBVIOUS
  <2>3. 1 \in 1..Len(d) /\ \A i \in 1..Len(s) : i + 1 - 1 = i
    OBVIOUS
  <2> QED  BY <2>1, <2>2, <2>3 DEF At
<1> QED  BY <1>1, FindInIs

\* Where the words of a text without c begin: at its first character, if there is one.
LEMMA LastPlaces ==
    ASSUME NEW s \in Str, NEW c, \A i \in 1..Len(s) : s[i] # c
    PROVE  \E n, from : Places(s, c, <<s>>, n, from) /\ EndOf(s, c, <<s>>, n)
<1> DEFINE ws == <<s>>
           n == IF Len(s) = 0 THEN 0 ELSE 1
           from == [k \in 1..n |-> 1]
<1>0. Len(s) \in Nat
  BY LenProperties DEF Str
<1>1. Len(ws) = 1 /\ ws[1] = s
  OBVIOUS
<1> HIDE DEF ws
<1>2. CASE Len(s) = 0
  <2>1. n = 0 /\ from \in [1..n -> 1..Len(s)] /\ \A k \in 1..n : FALSE
    BY <1>2
  <2>2. \A i \in 1..Len(s) : FALSE
    BY <1>2
  <2> HIDE DEF n, from
  <2>3. Places(s, c, ws, n, from)
    BY <1>1, <2>1, <2>2 DEF Places
  <2>4. EndOf(s, c, ws, n)
    BY <1>1, <1>2, <2>1 DEF EndOf
  <2> QED  BY <2>3, <2>4 DEF ws
<1>3. CASE Len(s) > 0
  <2>1. n = 1 /\ from \in [1..n -> 1..Len(s)] /\ from[1] = 1 /\ \A k \in 1..n : k = 1
    BY <1>0, <1>3
  <2> HIDE DEF n, from
  <2>2. \A i \in 1..Len(s) : InkIn(s, c, i)
    BY DEF InkIn
  <2>3. ~InkIn(s, c, 0) /\ ~InkIn(s, c, 1 + Len(s))
    BY <1>0 DEF InkIn
  <2>4. At(s, s, 1)
    BY <1>0 DEF At
  <2>5. Part(s, c, 1, s)
    BY <1>0, <1>3, <2>2, <2>3, <2>4 DEF Part
  <2>6. ASSUME NEW i \in 1..Len(s), InkIn(s, c, i), ~InkIn(s, c, i - 1) PROVE i = 1
    <3> SUFFICES ASSUME i # 1 PROVE FALSE
      OBVIOUS
    <3>1. i - 1 \in 1..Len(s)
      BY <1>0
    <3> QED  BY <2>2, <2>6, <3>1
  <2>7. 1 \in 1..n
    BY <2>1
  <2>8. Places(s, c, ws, n, from)
    BY <1>1, <2>1, <2>5, <2>6, <2>7 DEF Places
  <2>9. EndOf(s, c, ws, n)
    <3>1. s[Len(s)] # c /\ Len(s) # 0
      BY <1>0, <1>3
    <3> QED  BY <1>1, <2>1, <3>1 DEF EndOf
  <2> QED  BY <2>8, <2>9 DEF ws
<1> QED  BY <1>0, <1>2, <1>3

\* Where the words of a text with c begin, if it is known for what is behind the first c.
LEMMA MorePlaces ==
    ASSUME NEW s \in Str, NEW d \in Str, Len(d) = 1, FindIn(s, d) # 0,
           NEW wr \in Seq(Str), NEW m, NEW g,
           Places(From(s, FindIn(s, d) + 1), d[1], wr, m, g),
           EndOf(From(s, FindIn(s, d) + 1), d[1], wr, m),
           NEW first, first = IF FindIn(s, d) = 1 THEN <<>> ELSE <<SubSeq(s, 1, FindIn(s, d) - 1)>>
    PROVE  \E n, from : Places(s, d[1], first \o wr, n, from) /\ EndOf(s, d[1], first \o wr, n)
<1> DEFINE c == d[1]
           p == FindIn(s, d)
           r == From(s, p + 1)
           w == SubSeq(s, 1, p - 1)
           ws == first \o wr
           e == IF p = 1 THEN 0 ELSE 1
<1>0. Len(s) \in Nat /\ Len(wr) \in Nat
  BY LenProperties DEF Str
<1>1. p \in 1..Len(s) /\ s[p] = c /\ \A i \in 1..(p - 1) : s[i] # c
  <2>1. p \in 1..Len(s) /\ s[p] = c /\ \A i \in 1..Len(s) : s[i] = c => p <= i
    BY FirstOne
  <2> HIDE DEF p, c
  <2>2. \A i \in 1..(p - 1) : i \in 1..Len(s) /\ ~(p <= i)
    BY <2>1, <1>0
  <2> QED  BY <2>1, <2>2
<1>p. Places(r, c, wr, m, g) /\ EndOf(r, c, wr, m) /\ first = IF p = 1 THEN <<>> ELSE <<w>>
  OBVIOUS
<1> HIDE DEF c, p
<1>2. \A i \in 1..Len(s) : s[i] \in Chars
  BY ElementOfSeq DEF Str
<1>3. /\ w \in Str /\ Len(w) = p - 1
      /\ \A i \in 1..(p - 1) : w[i] = s[i]
  <2>1. \A i \in 1..(p - 1) : s[i] \in Chars
    BY <1>0, <1>1, <1>2
  <2>2. /\ w \in Seq(Chars)
        /\ Len(w) = IF 1 <= p - 1 THEN p - 1 - 1 + 1 ELSE 0
        /\ \A i \in 1..(p - 1 - 1 + 1) : w[i] = s[1 + i - 1]
    <3> 1 \in Int /\ p - 1 \in Int
      BY <1>1
    <3> QED  BY <2>1, SubSeqProperties
  <2> HIDE DEF w
  <2> QED  BY <2>2, <1>0, <1>1 DEF Str
<1>4. r \in Str /\ Behind(s, c, p, r)
  <2>1. \A i \in (p + 1)..Len(s) : s[i] \in Chars
    BY <1>0, <1>1, <1>2
  <2>2. /\ r \in Seq(Chars)
        /\ Len(r) = IF p + 1 <= Len(s) THEN Len(s) - (p + 1) + 1 ELSE 0
        /\ \A i \in 1..(Len(s) - (p + 1) + 1) : r[i] = s[p + 1 + i - 1]
    <3> p + 1 \in Int /\ Len(s) \in Int
      BY <1>0, <1>1
    <3> QED  BY <2>1, SubSeqProperties DEF From
  <2> HIDE DEF r
  <2>3. Len(r) = Len(s) - p
    BY <2>2, <1>0, <1>1
  <2>4. \A i \in 1..Len(r) : r[i] = s[i + p]
    <3>1. \A i \in 1..Len(r) : i \in 1..(Len(s) - (p + 1) + 1) /\ p + 1 + i - 1 = i + p
      BY <2>3, <1>0, <1>1
    <3> QED  BY <2>2, <3>1
  <2> QED  BY <2>2, <2>3, <2>4, <1>1 DEF Str, Behind
<1> HIDE DEF w, r
<1>5. /\ ws \in Seq(Str) /\ Len(ws) = Len(wr) + e /\ e \in {0, 1} /\ (e = 0 <=> p = 1)
      /\ \A k \in 1..Len(wr) : ws[k + e] = wr[k]
      /\ e = 1 => ws[1] = w
  <2>1. first \in Seq(Str) /\ Len(first) = e /\ (e = 1 => first[1] = w) /\ e \in {0, 1}
    <3>1. CASE p = 1
      <4>1. first = <<>> /\ e = 0
        BY <1>p, <3>1
      <4>2. <<>> \in Seq(Str) /\ Len(<<>>) = 0
        OBVIOUS
      <4> QED  BY <4>1, <4>2
    <3>2. CASE p # 1
      <4>1. first = <<w>> /\ e = 1
        BY <1>p, <3>2
      <4>2. <<w>> \in Seq(Str) /\ Len(<<w>>) = 1 /\ <<w>>[1] = w
        BY <1>3, EmptyAndOne
      <4> QED  BY <4>1, <4>2
    <3> QED  BY <3>1, <3>2
  <2>2. /\ ws \in Seq(Str) /\ Len(ws) = Len(first) + Len(wr)
        /\ \A k \in 1..(Len(first) + Len(wr)) :
             ws[k] = IF k <= Len(first) THEN first[k] ELSE wr[k - Len(first)]
    BY <2>1, ConcatProperties
  <2>3. e = 0 <=> p = 1
    OBVIOUS
  <2> HIDE DEF ws, e
  <2>4. \A k \in 1..Len(wr) : ws[k + e] = wr[k]
    BY <2>1, <2>2, <1>0
  <2>5. e = 1 => ws[1] = w
    <3>1. e = 1 => 1 \in 1..(Len(first) + Len(wr)) /\ 1 <= Len(first)
      BY <2>1, <1>0
    <3> QED  BY <2>1, <2>2, <3>1
  <2> QED  BY <2>1, <2>2, <2>3, <2>4, <2>5, <1>0
<1> HIDE DEF ws, e
<1>6. e = 1 => Part(s, c, 1, ws[1]) /\ Len(ws[1]) = p - 1
  <2> SUFFICES ASSUME e = 1 PROVE Part(s, c, 1, w) /\ Len(w) = p - 1
    BY <1>5
  <2>1. p - 1 \in Nat \ {0} /\ 1 + Len(w) - 1 = p - 1 /\ 1 + Len(w) = p
    BY <1>1, <1>3, <1>5
  <2>2. \A i \in 1..(p - 1) : InkIn(s, c, i)
    BY <1>0, <1>1 DEF InkIn
  <2>3. ~InkIn(s, c, 0) /\ ~InkIn(s, c, p)
    BY <1>1 DEF InkIn
  <2>4. At(s, w, 1)
    BY <1>0, <1>1, <1>3 DEF At
  <2>5. 1 - 1 = 0 /\ Len(w) > 0
    BY <1>3, <2>1
  <2> QED  BY <1>3, <2>1, <2>2, <2>3, <2>4, <2>5 DEF Part
<1>7. PICK from : Places(s, c, ws, m + e, from)
  BY <1>p, <1>4, <1>5, <1>6, PlacesBehind
<1>8. EndOf(s, c, ws, m + e)
  <2>0. m \in Nat /\ m <= Len(wr)
    BY <1>p DEF Places
  <2>1. Len(r) \in Nat /\ Len(r) = Len(s) - p /\ s[p] = c
    BY <1>0, <1>1, <1>4 DEF Behind
  <2>2. Len(r) # 0 => r[Len(r)] = s[Len(s)]
    <3>1. Len(r) # 0 => Len(r) \in 1..Len(r) /\ Len(r) + p = Len(s)
      BY <2>1, <1>0, <1>1
    <3> QED  BY <1>4, <3>1 DEF Behind
  <2>3. Len(s) = 0 \/ s[Len(s)] = c <=> Len(r) = 0 \/ r[Len(r)] = c
    BY <2>1, <2>2, <1>0, <1>1
  <2>4. Len(wr) = m + 1 => ws[(m + e) + 1] = wr[m + 1]
    <3>1. Len(wr) = m + 1 => m + 1 \in 1..Len(wr) /\ (m + 1) + e = (m + e) + 1
      BY <2>0, <1>5
    <3> QED  BY <1>5, <3>1
  <2>5. Len(wr) = m + 1 => Len(ws) = (m + e) + 1
    BY <1>5, <2>0
  <2>6. Len(wr) = m => Len(ws) = m + e
    BY <1>5
  <2> QED  BY <1>p, <2>3, <2>4, <2>5, <2>6 DEF EndOf
<1> QED  BY <1>7, <1>8 DEF c, ws

\* Where the words of any text begin.
LEMMA WordPlaces ==
    \A s \in Str : \E n, from : Places(s, " ", Words[s], n, from) /\ EndOf(s, " ", Words[s], n)
<1> DEFINE d == <<" ">>
           c == " "
           Good(s) == \E n, from : Places(s, c, Words[s], n, from) /\ EndOf(s, c, Words[s], n)
           P == {s \in Str : Good(s)}
           rank == [s \in Str |-> Len(s)]
<1>0. d \in Str /\ Len(d) = 1 /\ d[1] = c /\ d # <<>>
  BY Delimiters
<1>w. /\ Words \in [Str -> Seq(Str)]
      /\ \A s \in Str :
           Words[s] = IF FindIn(s, d) = 0 THEN <<s>>
                      ELSE (IF FindIn(s, d) = 1 THEN <<>> ELSE <<SubSeq(s, 1, FindIn(s, d) - 1)>>)
                             \o Words[From(s, FindIn(s, d) + 1)]
  BY WordsIs
<1>1. rank \in [Str -> Nat]
  BY LenProperties DEF Str
<1> HIDE DEF c, d
<1>2. ASSUME NEW s \in Str, \A u \in Str : rank[u] < rank[s] => u \in P PROVE s \in P
  <2>1. CASE FindIn(s, d) = 0
    <3>1. Words[s] = <<s>>
      BY <2>1, <1>w
    <3>2. \A i \in 1..Len(s) : s[i] # c
      BY <2>1, <1>0, FirstOne
    <3>3. \E n, from : Places(s, c, <<s>>, n, from) /\ EndOf(s, c, <<s>>, n)
      BY <3>2, LastPlaces
    <3> QED  BY <3>1, <3>3
  <2>2. CASE FindIn(s, d) # 0
    <3> DEFINE r == From(s, FindIn(s, d) + 1)
               first == IF FindIn(s, d) = 1 THEN <<>> ELSE <<SubSeq(s, 1, FindIn(s, d) - 1)>>
    <3>1. r \in Str /\ Len(r) < Len(s)
      BY <2>2, <1>0, Cut
    <3>2. Words[s] = first \o Words[r] /\ Words[r] \in Seq(Str)
      BY <2>2, <1>w, <3>1
    <3>3. PICK n, from : Places(r, c, Words[r], n, from) /\ EndOf(r, c, Words[r], n)
      <4>1. rank[r] < rank[s]
        BY <3>1
      <4>2. r \in P
        BY <1>2, <3>1, <4>1
      <4> QED  BY <4>2
    <3>4. \E k, f : Places(s, c, first \o Words[r], k, f) /\ EndOf(s, c, first \o Words[r], k)
      BY <1>0, <2>2, <3>2, <3>3, MorePlaces
    <3> HIDE DEF r, first
    <3>5. Good(s)
      BY <3>2, <3>4
    <3> QED  BY <3>5
  <2> QED  BY <2>1, <2>2
<1>3. P = Str
  <2>1. P \in SUBSET Str /\ Inherits(Str, rank, P)
    BY <1>2 DEF Inherits
  <2> HIDE DEF P, rank
  <2> QED  BY <1>1, <2>1, RankInduction
<1> QED  BY <1>3 DEF c

LEMMA LongestIs ==
    ASSUME NEW s \in Str, NEW w \in Str, NEW p \in 1..Len(s), NEW c,
           Part(s, c, p, w), \A i : Ink(s, i) <=> InkIn(s, c, i)
    PROVE  IsLongest(s, p, w)
<1>1. /\ Len(w) > 0 /\ At(s, w, p) /\ \A i \in p..(p + Len(w) - 1) : InkIn(s, c, i)
      /\ ~InkIn(s, c, p - 1) /\ ~InkIn(s, c, p + Len(w))
  BY DEF Part
<1>2. Len(s) \in Nat /\ Len(w) \in Nat
  BY LenProperties DEF Str
<1>3. w = SubSeq(s, p, p + Len(w) - 1)
  <2>1. p \in 1..(Len(s) - Len(w) + 1)
    BY <1>1 DEF At
  <2> QED  BY <1>1, <2>1, SubSeqAt
<1>4. w # <<>>
  <2> DEFINE empty == <<>>
  <2>1. Len(empty) = 0
    OBVIOUS
  <2> HIDE DEF empty
  <2>2. w # empty
    BY <1>1, <2>1
  <2> QED  BY <2>2 DEF empty
<1>5. (p + Len(w) - 1) + 1 = p + Len(w)
  BY <1>2
<1>6. ~Ink(s, p - 1) /\ ~Ink(s, (p + Len(w) - 1) + 1)
  BY <1>1, <1>5
<1>7. \A i \in p..(p + Len(w) - 1) : Ink(s, i)
  BY <1>1
<1> QED  BY <1>3, <1>4, <1>6, <1>7 DEF IsLongest

\* The words of a text of any length are its longest parts without a space, in their
\* order, and an empty one if it ends with a space.  (Args::getArgs)
THEOREM WordsAre == ASSUME NEW s \in Str, s # <<>> PROVE AreWords(Words[s], s)
<1> DEFINE c == " "
           ws == Words[s]
           size == IF Last(s) = c THEN Len(ws) - 1 ELSE Len(ws)
           empty == <<>>
<1>1. PICK n, from : Places(s, c, ws, n, from) /\ EndOf(s, c, ws, n)
  BY WordPlaces
<1>2. ws \in Seq(Str) /\ Len(ws) \in Nat /\ Len(s) \in Nat \ {0}
  <2>1. ws \in Seq(Str)
    BY WordsIs
  <2> QED  BY <2>1, LenProperties, EmptySeq DEF Str
<1> HIDE DEF ws
<1>3. \A i : Ink(s, i) <=> InkIn(s, c, i)
  BY DEF Ink, InkIn
<1>4. ASSUME NEW p \in 1..Len(s), NEW w \in Str, Part(s, c, p, w) PROVE IsLongest(s, p, w)
  BY <1>3, <1>4, LongestIs
<1> HIDE DEF c
<1>5. /\ n \in Nat /\ n <= Len(ws) /\ from \in [1..n -> 1..Len(s)]
      /\ \A k \in 1..n : Part(s, c, from[k], ws[k])
      /\ \A k, l \in 1..n : k < l => from[k] < from[l]
      /\ \A i \in 1..Len(s) : InkIn(s, c, i) /\ ~InkIn(s, c, i - 1) => \E k \in 1..n : from[k] = i
  BY <1>1 DEF Places
<1>8. size = n /\ (Last(s) = c => ws # empty /\ Last(ws) = empty)
  <2>1. CASE s[Len(s)] = c
    <3>1. Last(s) = c /\ Len(ws) = n + 1 /\ Len(ws[n + 1]) = 0
      BY <1>1, <1>2, <2>1 DEF EndOf, Last
    <3>2. size = n
      BY <1>2, <1>5, <3>1
    <3>3. Len(empty) = 0
      OBVIOUS
    <3>4. ws # empty
      BY <1>5, <3>1, <3>3
    <3>5. Last(ws) = empty
      <4>1. n + 1 \in 1..Len(ws)
        BY <1>5, <3>1
      <4>2. ws[n + 1] \in Str
        BY <1>2, <4>1, ElementOfSeq
      <4>3. ws[n + 1] = empty
        BY <3>1, <4>2, EmptySeq DEF Str
      <4> QED  BY <3>1, <4>3 DEF Last
    <3> QED  BY <3>2, <3>4, <3>5
  <2>2. CASE s[Len(s)] # c
    <3>1. Last(s) # c /\ Len(ws) = n
      BY <1>1, <1>2, <2>2 DEF EndOf, Last
    <3> QED  BY <3>1
  <2> QED  BY <2>1, <2>2
<1> HIDE DEF size, empty
<1>9. \A k \in 1..n : IsLongest(s, from[k], ws[k])
  <2> SUFFICES ASSUME NEW k \in 1..n PROVE IsLongest(s, from[k], ws[k])
    OBVIOUS
  <2>1. k \in 1..Len(ws) /\ from[k] \in 1..Len(s)
    BY <1>2, <1>5
  <2>2. ws[k] \in Str
    BY <1>2, <2>1, ElementOfSeq
  <2> QED  BY <1>4, <1>5, <2>1, <2>2
<1>10. \A i \in 1..Len(s) : Ink(s, i) /\ ~Ink(s, i - 1) => \E k \in 1..n : from[k] = i
  BY <1>3, <1>5
<1>11. \E f \in [1..size -> 1..Len(s)] :
          /\ \A k \in 1..size : IsLongest(s, f[k], ws[k])
          /\ \A k, l \in 1..size : k < l => f[k] < f[l]
          /\ \A i \in 1..Len(s) : Ink(s, i) /\ ~Ink(s, i - 1) => \E k \in 1..size : f[k] = i
  BY <1>5, <1>8, <1>9, <1>10
<1>12. AreWords(ws, s)
  BY <1>8, <1>11, Zenon DEF AreWords, size, empty, c
<1> QED  BY <1>12 DEF ws

-----------------------------------------------------------------------------
(* The inductive invariant: what each stage has made of the request.        *)

Request == {"request", "pending", "current", "linux", "windows", "done"}
ArgsInv ==
    /\ stage \in {"line", "typed"} => line \in Str
    /\ stage = "typed" => line # <<>> /\ words = Words[line]
    /\ stage \in Request => words \in Seq(Str) /\ \A i \in 1..Len(words) : Plain(words[i])
    /\ stage = "pending" => row = Concat[words]
    /\ stage \in {"current", "linux", "windows"} => row = Concat[words] /\ args = Split[row]
    /\ stage = "linux" => argv = <<(<<"x">>)>> \o args
    /\ stage = "windows" => argv = MainArgs(cmdLine(<<"x">>, args))
    /\ stage = "done" => args = Split[Concat[words]] /\ row = Concat[args]

\* Texts and lists as TLC enumerates them, over some of the characters.
LEMMA TextIs ==
    ASSUME NEW A, NEW B, A \subseteq B, NEW n \in Int, NEW s \in Text(A, n)
    PROVE  s \in Seq(B) /\ \A i \in 1..Len(s) : s[i] \in A
<1>1. PICK k \in 0..n : s \in [1..k -> A]
  BY DEF Text
<1>2. k \in Nat
  OBVIOUS
<1>3. s \in Seq(B) /\ Len(s) = k
  <2>1. s \in [1..k -> B]
    BY <1>1
  <2> QED  BY <1>2, <2>1
<1> QED  BY <1>1, <1>3

LEMMA OneOrTwo ==
    ASSUME NEW S
    PROVE  /\ <<>> \in Seq(S) /\ Len(<<>>) = 0
           /\ \A s \in S : <<s>> \in Seq(S) /\ Len(<<s>>) = 1 /\ <<s>>[1] = s
           /\ \A s, t \in S : /\ <<s, t>> \in Seq(S) /\ Len(<<s, t>>) = 2
                              /\ <<s, t>>[1] = s /\ <<s, t>>[2] = t
<1>1. <<>> \in Seq(S) /\ Len(<<>>) = 0
  OBVIOUS
<1>2. ASSUME NEW s \in S PROVE <<s>> \in Seq(S) /\ Len(<<s>>) = 1 /\ <<s>>[1] = s
  OBVIOUS
<1>3. ASSUME NEW s \in S, NEW t \in S
      PROVE  /\ <<s, t>> \in Seq(S) /\ Len(<<s, t>>) = 2
             /\ <<s, t>>[1] = s /\ <<s, t>>[2] = t
  OBVIOUS
<1> QED  BY <1>1, <1>2, <1>3

LEMMA ListIs ==
    ASSUME MaxLength \in Nat, NEW A, NEW B, A \subseteq B, NEW l \in Lists(A)
    PROVE  l \in Seq(Seq(B)) /\ \A i \in 1..Len(l) : \A j \in 1..Len(l[i]) : l[i][j] \in A
<1> DEFINE Good(s) == s \in Seq(B) /\ \A j \in 1..Len(s) : s[j] \in A
<1>0. \A n \in Int : \A s \in Text(A, n) : Good(s)
  BY TextIs
<1>l. \/ l = <<>>
      \/ \E s \in Text(A, MaxLength) : l = <<s>>
      \/ \E n \in 0..MaxLength : l \in Text(A, n) \X Text(A, MaxLength - n)
  BY DEF Lists
<1>g. l \in Seq(Seq(B)) /\ \A i \in 1..Len(l) : Good(l[i])
  <2>1. CASE l = <<>>
    BY <2>1
  <2>2. CASE \E s \in Text(A, MaxLength) : l = <<s>>
    <3>1. PICK s \in Text(A, MaxLength) : l = <<s>>
      BY <2>2
    <3>2. Good(s)
      BY <1>0
    <3>3. l \in Seq(Seq(B)) /\ Len(l) = 1 /\ l[1] = s
      BY <3>1, <3>2, OneOrTwo
    <3> HIDE DEF Good
    <3>4. \A i \in 1..1 : i = 1
      OBVIOUS
    <3> QED  BY <3>2, <3>3, <3>4
  <2>3. CASE \E n \in 0..MaxLength : l \in Text(A, n) \X Text(A, MaxLength - n)
    <3>1. PICK n \in 0..MaxLength : l \in Text(A, n) \X Text(A, MaxLength - n)
      BY <2>3
    <3>m. n \in Int /\ MaxLength - n \in Int
      OBVIOUS
    <3>2. PICK s \in Text(A, n), t \in Text(A, MaxLength - n) : l = <<s, t>>
      <4>1. \A S, T : l \in S \X T => \E s \in S, t \in T : l = <<s, t>>
        OBVIOUS
      <4> QED  BY <3>1, <4>1
    <3>3. Good(s) /\ Good(t)
      BY <1>0, <3>m
    <3>4. l \in Seq(Seq(B)) /\ Len(l) = 2 /\ l[1] = s /\ l[2] = t
      BY <3>2, <3>3, OneOrTwo
    <3> HIDE DEF Good
    <3>5. \A i \in 1..2 : i = 1 \/ i = 2
      OBVIOUS
    <3> QED  BY <3>3, <3>4, <3>5
  <2> QED  BY <1>l, <2>1, <2>2, <2>3
<1> QED  BY <1>g

\* Arguments of a request hold no space.
LEMMA ListIsPlain ==
    ASSUME MaxLength \in Nat, NEW l \in Lists({"_", ",", "x"})
    PROVE  l \in Seq(Str) /\ \A i \in 1..Len(l) : Plain(l[i])
<1> DEFINE A == {"_", ",", "x"}
<1>1. A \subseteq Chars /\ \A c \in A : c # " "
  BY DEF Chars
<1>2. l \in Seq(Str) /\ \A i \in 1..Len(l) : \A j \in 1..Len(l[i]) : l[i][j] \in A
  <2> l \in Lists(A)
    OBVIOUS
  <2> HIDE DEF A
  <2> QED  BY <1>1, ListIs DEF Str
<1> HIDE DEF A
<1> QED  BY <1>1, <1>2 DEF Plain

LEMMA ArgsInit == ASSUME MaxLength \in Nat, Init PROVE ArgsInv
<1>1. CASE stage = "request"
  BY <1>1, ListIsPlain DEF Init, ArgsInv, Request
<1>2. CASE stage = "line"
  <2>1. line \in Text({" ", "x"}, MaxLength)
    BY <1>2 DEF Init
  <2>3. MaxLength \in Int
    OBVIOUS
  <2>4. {" ", "x"} \subseteq Chars
    BY DEF Chars
  <2>2. line \in Str
    BY <2>1, <2>3, <2>4, TextIs DEF Str
  <2> QED  BY <1>2, <2>2 DEF ArgsInv, Request
<1> QED  BY <1>1, <1>2 DEF Init

LEMMA ArgsNext == ASSUME ArgsInv, [Next]_argVars PROVE ArgsInv'
<1> USE DEF ArgsInv, Request
<1>1. CASE GetArgs
  BY <1>1 DEF GetArgs, getArgs
<1>2. CASE AddTask
  BY <1>2 DEF AddTask, concatString
<1>3. CASE LoopPick
  BY <1>3 DEF LoopPick, splitString
<1>4. CASE StartChild
  BY <1>4 DEF StartChild, buildChildArgv
<1>5. CASE CreateChildProcess
  BY <1>5 DEF CreateChildProcess
<1>6. CASE LoopFin
  BY <1>6 DEF LoopFin, concatString
<1>7. CASE UNCHANGED argVars
  BY <1>7 DEF argVars
<1> QED  BY <1>1, <1>2, <1>3, <1>4, <1>5, <1>6, <1>7 DEF Next

LEMMA ArgsHold == ASSUME MaxLength \in Nat PROVE Spec => []ArgsInv
  BY ArgsInit, ArgsNext, PTL DEF Spec

\* For lines of any length: the words of one are its longest parts without a space, and
\* an empty one if it ends with a space.  (Args::getArgs)
THEOREM LineHasWords == ASSUME MaxLength \in Nat PROVE Spec => []WordsOfLine
<1>1. ArgsInv => WordsOfLine
  BY WordsAre DEF ArgsInv, WordsOfLine
<1> QED  BY <1>1, ArgsHold, PTL

\* For texts of any length: arguments come out of the file as they went in exactly if there
\* are any and none is taken apart, and a finished task is listed with what its program
\* got.  (splitString, concatString, mainLoopInit, mainLoopFin)
THEOREM ArgumentsSurvive == ASSUME MaxLength \in Nat PROVE Spec => []ArgsSurvive
<1>1. ArgsInv => ArgsSurvive
  <2> SUFFICES ASSUME ArgsInv PROVE ArgsSurvive
    OBVIOUS
  <2>1. ASSUME stage = "current" PROVE args = words <=> Clean(words)
    BY <2>1, SplitConcat DEF ArgsInv, Request
  <2>2. ASSUME stage = "done" PROVE row = concatString(words) /\ splitString(row) = args
    <3>1. words \in Seq(Str) /\ args = Split[Concat[words]] /\ row = Concat[args]
      BY <2>2 DEF ArgsInv, Request
    <3>2. Concat[words] \in Str
      BY <3>1, ConcatIs
    <3> QED  BY <3>1, <3>2, ConcatSplit DEF concatString, splitString
  <2> QED  BY <2>1, <2>2 DEF ArgsSurvive
<1> QED  BY <1>1, ArgsHold, PTL

\* Such arguments reach the program, on Windows without the empty ones, and a request
\* without arguments gives an empty one on Linux.  (buildChildArgv, CreateChildProcess)
THEOREM ProgramHasArguments == ASSUME MaxLength \in Nat PROVE Spec => []ProgramGetsArgs
<1> DEFINE x == <<"x">>
           z == <<>>
<1>1. z \in Str /\ Split[z] = <<z>> /\ Concat[<<>>] = z /\ Nonempty[<<>>] = <<>> /\ Plain(z)
  <2>1. z \in Str
    BY EmptyAndOne DEF Str
  <2>2. FindIn(z, delimiter) = 0
    <3>1. delimiter \in Str /\ Len(delimiter) = 5
      BY Delimiters
    <3> QED  BY <3>1, NoneFound
  <2>3. <<>> \in Seq(Str)
    OBVIOUS
  <2>4. Split[z] = <<z>>
    BY <2>1, <2>2, SplitIs
  <2>5. Concat[<<>>] = z /\ Nonempty[<<>>] = <<>>
    BY <2>3, ConcatIs, NonemptyIs
  <2>6. Plain(z)
    <3>1. \A i \in 1..0 : FALSE
      OBVIOUS
    <3> QED  BY <3>1, EmptyAndOne DEF Plain
  <2> QED  BY <2>1, <2>4, <2>5, <2>6
<1>2. x \in Str /\ x # <<>> /\ Plain(x)
  <2> DEFINE e == "x"
  <2>1. e \in Chars /\ e # " "
    BY DEF Chars
  <2> HIDE DEF e
  <2>2. <<e>> \in Str /\ Len(<<e>>) = 1 /\ <<e>>[1] = e
    BY <2>1, OneOrTwo DEF Str
  <2>3. <<e>> # <<>>
    OBVIOUS
  <2>4. \A i \in 1..1 : i = 1
    OBVIOUS
  <2>5. Plain(<<e>>)
    BY <2>1, <2>2, <2>4 DEF Plain
  <2> QED  BY <2>2, <2>3, <2>5 DEF e
<1>3. Nonempty[<<z>>] = <<>>
  <2>1. <<z>> \in Seq(Str) /\ <<z>> # <<>> /\ Head(<<z>>) = z /\ Tail(<<z>>) = <<>>
    BY <1>1
  <2>2. Nonempty[<<z>>] = <<>> \o Nonempty[<<>>]
    BY <2>1, NonemptyIs
  <2> QED  BY <1>1, <2>2
<1>4. ArgsInv => ProgramGetsArgs
  <2> SUFFICES ASSUME ArgsInv PROVE ProgramGetsArgs
    OBVIOUS
  <2>1. ASSUME stage \in {"linux", "windows"}
        PROVE  /\ words \in Seq(Str) /\ \A i \in 1..Len(words) : Plain(words[i])
               /\ Clean(words) => args = words /\ words # <<>>
               /\ words = <<>> => args = <<z>>
    <3>1. /\ words \in Seq(Str) /\ \A i \in 1..Len(words) : Plain(words[i])
          /\ args = Split[Concat[words]]
      BY <2>1 DEF ArgsInv, Request
    <3>2. Clean(words) => args = words /\ words # <<>>
      BY <3>1, SplitConcat DEF Clean
    <3> QED  BY <1>1, <3>1, <3>2
  <2>2. ASSUME stage = "windows", Clean(words) PROVE argv = <<x>> \o Nonempty[words]
    <3>1. MainArgs(cmdLine(x, words)) = <<x>> \o Nonempty[words]
      <4> HIDE DEF x
      <4> QED  BY <1>2, <2>1, <2>2, CommandLine
    <3> QED  BY <2>1, <2>2, <3>1 DEF ArgsInv
  <2>3. ASSUME stage = "windows", words = <<>> PROVE argv = <<x>> \o Nonempty[words]
    <3>1. MainArgs(cmdLine(x, <<z>>)) = <<x>> \o Nonempty[<<z>>]
      <4>1. <<z>> \in Seq(Str) /\ <<z>> # <<>> /\ \A i \in 1..Len(<<z>>) : Plain(<<z>>[i])
        BY <1>1
      <4> HIDE DEF x, z
      <4> QED  BY <1>2, <4>1, CommandLine
    <3> QED  BY <1>1, <1>3, <2>1, <2>3, <3>1 DEF ArgsInv
  <2>4. ASSUME stage = "linux", Clean(words) PROVE argv = <<x>> \o words
    BY <2>1, <2>4 DEF ArgsInv
  <2>5. ASSUME stage = "linux", words = <<>> PROVE argv = <<x>> \o <<z>>
    BY <2>1, <2>5 DEF ArgsInv
  <2> QED  BY <2>2, <2>3, <2>4, <2>5 DEF ProgramGetsArgs
<1> QED  BY <1>4, ArgsHold, PTL
=============================================================================
