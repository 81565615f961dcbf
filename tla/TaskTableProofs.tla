-------------------------- MODULE TaskTableProofs --------------------------
(* What the statements on the tables do to the IDs and their order. *)
EXTENDS TaskTable, SequenceTheorems, TLAPS

\* A delete leaves a table.
LEMMA DeleteKeepsType ==
    ASSUME NEW t \in Seq(Nat), NEW id \in Nat
    PROVE  DeletePending(t, id) \in Seq(Nat)
<1>1. CASE id \notin RowIDs(t)
  BY <1>1 DEF DeletePending
<1>2. CASE id \in RowIDs(t)
  <2> DEFINE i == CHOOSE k \in DOMAIN t : t[k] = id
  <2>1. i \in 1..Len(t)
    BY <1>2 DEF RowIDs
  <2>2. SubSeq(t, 1, i - 1) \in Seq(Nat) /\ SubSeq(t, i + 1, Len(t)) \in Seq(Nat)
    <3>1. t \in [1..Len(t) -> Nat] /\ Len(t) \in Nat
      BY LenProperties
    <3>2. i - 1 \in Int /\ i + 1 \in Int /\ Len(t) \in Int
      BY <2>1, <3>1
    <3>3. \A k \in 1..(i - 1) : t[k] \in Nat
      BY <2>1, <3>1
    <3>4. \A k \in (i + 1)..Len(t) : t[k] \in Nat
      BY <2>1, <3>1
    <3> HIDE DEF i
    <3> QED  BY <3>2, <3>3, <3>4, SubSeqProperties
  <2>3. DeletePending(t, id) = SubSeq(t, 1, i - 1) \o SubSeq(t, i + 1, Len(t))
    BY <1>2 DEF DeletePending
  <2> QED  BY <2>2, <2>3
<1> QED  BY <1>1, <1>2

\* An inserted row is the youngest.
LEMMA InsertRows ==
    ASSUME NEW t \in Seq(Nat), NEW id \in Nat
    PROVE  /\ RowIDs(InsertPending(t, id)) = RowIDs(t) \cup {id}
           /\ InIDOrder(t) /\ (\A w \in RowIDs(t) : w < id) => InIDOrder(InsertPending(t, id))
<1> DEFINE u == Append(t, id)
<1>1. /\ Len(t) \in Nat /\ DOMAIN t = 1..Len(t)
      /\ u \in Seq(Nat) /\ Len(u) = Len(t) + 1 /\ DOMAIN u = 1..(Len(t) + 1)
      /\ \A i \in 1..Len(t) : u[i] = t[i]
      /\ u[Len(t) + 1] = id
  BY AppendProperties, LenProperties
<1> HIDE DEF u
<1>2. RowIDs(u) = RowIDs(t) \cup {id}
  <2>1. \A i \in DOMAIN u : u[i] \in RowIDs(t) \cup {id}
    BY <1>1 DEF RowIDs
  <2>2. \A i \in DOMAIN t : t[i] \in RowIDs(u)
    BY <1>1 DEF RowIDs
  <2>3. id \in RowIDs(u)
    BY <1>1 DEF RowIDs
  <2> QED  BY <2>1, <2>2, <2>3 DEF RowIDs
<1>3. ASSUME InIDOrder(t), \A w \in RowIDs(t) : w < id PROVE InIDOrder(u)
  <2>1. \A i \in 1..Len(t) : t[i] < id
    BY <1>1, <1>3 DEF RowIDs
  <2>2. \A i, j \in 1..Len(t) : i < j => t[i] < t[j]
    BY <1>1, <1>3 DEF InIDOrder
  <2>3. ASSUME NEW i \in DOMAIN u, NEW j \in DOMAIN u, i < j PROVE u[i] < u[j]
    <3>1. i \in 1..Len(t) /\ u[i] = t[i]
      BY <1>1, <2>3
    <3>2. CASE j \in 1..Len(t)
      BY <1>1, <2>2, <2>3, <3>1, <3>2
    <3>3. CASE j = Len(t) + 1
      BY <1>1, <2>1, <3>1, <3>3
    <3> QED  BY <1>1, <3>2, <3>3
  <2> QED  BY <2>3 DEF InIDOrder
<1> QED  BY <1>2, <1>3 DEF InsertPending, u

\* The row that takes the place of row k when one before it is deleted.
LEMMA Successors ==
    ASSUME NEW n \in Nat, NEW k \in 1..(n - 1)
    PROVE  k \in 1..n /\ k + 1 \in 1..n
  OBVIOUS

\* Taking the places of the successors keeps the order of places.
LEMMA SuccessorsOrder ==
    ASSUME NEW j \in Int, NEW k \in Int, j < k
    PROVE  j < k + 1 /\ j + 1 < k + 1 /\ \A i \in Int : k < i => j < i
  OBVIOUS

\* The place that row k takes when one before it, row i, is deleted.
LEMMA Predecessors ==
    ASSUME NEW n \in Nat, NEW i \in 1..n, NEW k \in 1..n, k > i
    PROVE  k - 1 \in 1..(n - 1) /\ ~(k - 1 < i) /\ (k - 1) + 1 = k
  OBVIOUS

\* A delete removes one row and keeps the order of the others.
LEMMA DeleteRows ==
    ASSUME NEW t \in Seq(Nat), NEW id \in Nat, InIDOrder(t)
    PROVE  /\ RowIDs(DeletePending(t, id)) = RowIDs(t) \ {id}
           /\ InIDOrder(DeletePending(t, id))
<1>1. CASE id \notin RowIDs(t)
  BY <1>1 DEF DeletePending
<1>2. CASE id \in RowIDs(t)
  <2> DEFINE i == CHOOSE k \in DOMAIN t : t[k] = id
             a == SubSeq(t, 1, i - 1)
             b == SubSeq(t, i + 1, Len(t))
             u == a \o b
  <2>1. /\ t \in [1..Len(t) -> Nat] /\ Len(t) \in Nat /\ DOMAIN t = 1..Len(t)
        /\ i \in 1..Len(t) /\ t[i] = id
    BY <1>2, LenProperties DEF RowIDs
  <2>2. DeletePending(t, id) = u
    BY <1>2 DEF DeletePending
  <2> HIDE DEF i
  <2>3. /\ a \in Seq(Nat) /\ Len(a) = i - 1
        /\ \A k \in 1..(i - 1) : a[k] = t[k]
    <3>1. \A k \in 1..(i - 1) : t[k] \in Nat
      BY <2>1
    <3>2. i - 1 \in Int /\ 1 \in Int /\ i - 1 - 1 + 1 = i - 1
      BY <2>1
    <3>3. /\ a \in Seq(Nat) /\ Len(a) = IF 1 <= i - 1 THEN i - 1 - 1 + 1 ELSE 0
          /\ \A k \in 1..(i - 1 - 1 + 1) : a[k] = t[1 + k - 1]
      BY <3>1, <3>2, SubSeqProperties
    <3> HIDE DEF a
    <3> QED  BY <2>1, <3>3
  <2>4. /\ b \in Seq(Nat) /\ Len(b) = Len(t) - i
        /\ \A k \in 1..(Len(t) - i) : b[k] = t[k + i]
    <3>1. \A k \in (i + 1)..Len(t) : t[k] \in Nat
      BY <2>1
    <3>2. i + 1 \in Int /\ Len(t) \in Int
      BY <2>1
    <3>3. /\ b \in Seq(Nat) /\ Len(b) = IF i + 1 <= Len(t) THEN Len(t) - (i + 1) + 1 ELSE 0
          /\ \A k \in 1..(Len(t) - (i + 1) + 1) : b[k] = t[i + 1 + k - 1]
      BY <3>1, <3>2, SubSeqProperties
    <3> HIDE DEF b
    <3>4. Len(b) = Len(t) - i
      <4>1. CASE i + 1 <= Len(t)
        BY <2>1, <3>3, <4>1
      <4>2. CASE ~(i + 1 <= Len(t))
        <5>1. Len(b) = 0
          BY <3>3, <4>2
        <5> DEFINE n == Len(t)
        <5>2. n \in Nat /\ i \in 1..n /\ ~(i + 1 <= n)
          BY <2>1, <4>2
        <5> HIDE DEF n
        <5>3. n - i = 0
          BY <5>2
        <5> QED  BY <5>1, <5>3 DEF n
      <4> QED  BY <4>1, <4>2
    <3>5. ASSUME NEW k \in 1..(Len(t) - i) PROVE b[k] = t[k + i]
      <4>1. k \in 1..(Len(t) - (i + 1) + 1) /\ i + 1 + k - 1 = k + i
        BY <2>1
      <4> QED  BY <3>3, <4>1
    <3> QED  BY <3>3, <3>4, <3>5
  <2> HIDE DEF a, b
  <2>5. /\ u \in Seq(Nat) /\ Len(u) = Len(t) - 1 /\ DOMAIN u = 1..(Len(t) - 1)
        /\ \A k \in 1..(Len(t) - 1) : u[k] = IF k < i THEN t[k] ELSE t[k + 1]
    <3>1. /\ u \in Seq(Nat) /\ Len(u) = Len(a) + Len(b)
          /\ \A k \in 1..(Len(a) + Len(b)) :
                u[k] = IF k <= Len(a) THEN a[k] ELSE b[k - Len(a)]
      BY <2>3, <2>4, ConcatProperties
    <3>2. DOMAIN u = 1..Len(u)
      BY <3>1, LenProperties
    <3> HIDE DEF u
    <3>3. Len(u) = Len(t) - 1
      BY <2>1, <2>3, <2>4, <3>1
    <3>4. ASSUME NEW k \in 1..(Len(t) - 1) PROVE u[k] = IF k < i THEN t[k] ELSE t[k + 1]
      <4>1. u[k] = IF k <= Len(a) THEN a[k] ELSE b[k - Len(a)]
        BY <2>1, <2>3, <2>4, <3>1
      <4>2. CASE k < i
        BY <2>1, <2>3, <4>1, <4>2
      <4>3. CASE k >= i
        <5>1. k - (i - 1) \in 1..(Len(t) - i) /\ (k - (i - 1)) + i = k + 1
          BY <2>1, <4>3
        <5>2. ~(k <= Len(a)) /\ b[k - Len(a)] = t[k + 1]
          BY <2>1, <2>3, <2>4, <4>3, <5>1
        <5> QED  BY <2>1, <4>1, <4>3, <5>2
      <4> QED  BY <2>1, <4>2, <4>3
    <3> QED  BY <3>1, <3>2, <3>3, <3>4
  <2> HIDE DEF u
  <2>6. \A j, k \in 1..Len(t) : j < k => t[j] < t[k]
    BY <2>1 DEF InIDOrder
  <2>7. InIDOrder(u)
    <3>1. ASSUME NEW j \in DOMAIN u, NEW k \in DOMAIN u, j < k PROVE u[j] < u[k]
      <4>1. j \in 1..(Len(t) - 1) /\ k \in 1..(Len(t) - 1) /\ j < k
        BY <2>5, <3>1
      <4>2. /\ u[j] = IF j < i THEN t[j] ELSE t[j + 1]
            /\ u[k] = IF k < i THEN t[k] ELSE t[k + 1]
        BY <2>5, <4>1
      <4>3. /\ j \in 1..Len(t) /\ k \in 1..Len(t)
            /\ j + 1 \in 1..Len(t) /\ k + 1 \in 1..Len(t)
            /\ j < k + 1 /\ j + 1 < k + 1
        <5>1. Len(t) \in Nat
          BY <2>1
        <5>2. j \in 1..Len(t) /\ k \in 1..Len(t) /\ j + 1 \in 1..Len(t) /\ k + 1 \in 1..Len(t)
          BY <5>1, <4>1, Successors
        <5>3. j \in Int /\ k \in Int /\ j < k
          BY <4>1
        <5>4. j < k + 1 /\ j + 1 < k + 1
          BY <5>3, SuccessorsOrder
        <5> QED  BY <5>2, <5>4
      <4>4. t[j] < t[k] /\ t[j] < t[k + 1] /\ t[j + 1] < t[k + 1]
        BY <2>6, <4>1, <4>3
      <4>5. ~(k < i /\ ~(j < i))
        <5>1. j \in Int /\ k \in Int /\ j < k
          BY <4>1
        <5>2. i \in Int
          BY <2>1
        <5> QED  BY <5>1, <5>2, SuccessorsOrder
      <4> QED  BY <4>2, <4>4, <4>5
    <3> QED  BY <3>1 DEF InIDOrder
  <2>8. RowIDs(u) = RowIDs(t) \ {id}
    <3>1. \A k \in DOMAIN u : u[k] \in RowIDs(t) \ {id}
      <4> SUFFICES ASSUME NEW k \in DOMAIN u PROVE u[k] \in RowIDs(t) \ {id}
        OBVIOUS
      <4>1. k \in 1..(Len(t) - 1) /\ k \in 1..Len(t) /\ k + 1 \in 1..Len(t)
        <5>1. Len(t) \in Nat /\ k \in 1..(Len(t) - 1)
          BY <2>1, <2>5
        <5> QED  BY <5>1, Successors
      <4>2. u[k] = IF k < i THEN t[k] ELSE t[k + 1]
        BY <2>5, <4>1
      <4>3. \A m \in 1..Len(t) : m # i => t[m] \in RowIDs(t) \ {id}
        <5> SUFFICES ASSUME NEW m \in 1..Len(t), m # i PROVE t[m] \in RowIDs(t) \ {id}
          OBVIOUS
        <5>1. t[m] \in Nat /\ t[i] \in Nat /\ t[m] \in RowIDs(t)
          BY <2>1 DEF RowIDs
        <5>2. m < i \/ i < m
          BY <2>1
        <5>3. t[m] # t[i]
          BY <2>1, <2>6, <5>1, <5>2
        <5> QED  BY <2>1, <5>1, <5>3
      <4>4. CASE k < i
        <5>1. k # i
          BY <2>1, <4>1, <4>4
        <5> QED  BY <4>1, <4>2, <4>3, <4>4, <5>1
      <4>5. CASE ~(k < i)
        <5>1. k + 1 # i
          BY <2>1, <4>1, <4>5
        <5> QED  BY <4>1, <4>2, <4>3, <4>5, <5>1
      <4> QED  BY <4>4, <4>5
    <3>2. ASSUME NEW k \in DOMAIN t, t[k] # id PROVE t[k] \in RowIDs(u)
      <4>1. CASE k < i
        <5>1. k \in DOMAIN u /\ u[k] = t[k]
          BY <2>1, <2>5, <4>1
        <5> QED  BY <5>1 DEF RowIDs
      <4>2. CASE k > i
        <5>1. k - 1 \in 1..(Len(t) - 1) /\ ~(k - 1 < i) /\ (k - 1) + 1 = k
          <6>1. Len(t) \in Nat /\ i \in 1..Len(t) /\ k \in 1..Len(t) /\ k > i
            BY <2>1, <4>2
          <6> QED  BY <6>1, Predecessors
        <5>2. k - 1 \in DOMAIN u /\ u[k - 1] = t[k]
          BY <2>5, <5>1
        <5> QED  BY <5>2 DEF RowIDs
      <4> QED  BY <2>1, <3>2, <4>1, <4>2
    <3> QED  BY <3>1, <3>2 DEF RowIDs
  <2> QED  BY <2>2, <2>7, <2>8
<1> QED  BY <1>1, <1>2
=============================================================================
