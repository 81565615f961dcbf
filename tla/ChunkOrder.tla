---------------------------- MODULE ChunkOrder ----------------------------
(***************************************************************************)
(* Chunks of output on their way through sequences: what the theorems about *)
(* both readers need to know of their order.                               *)
(*                                                                         *)
(* A chunk is a pair of a task and a number.  Chunks are always distinct;  *)
(* unless the order is lost, those of one task come in order.  A task's    *)
(* chunks go from its pipe, or terminal, to a reader's hands, from there   *)
(* to the queue of output and from there to whoever asks for it.           *)
(***************************************************************************)
EXTENDS Integers, SequencesExt, SequenceTheorems, TLAPS

CONSTANTS T, MaxChunks
VARIABLES written, pipe, buf, m_deque, given, strayed

Chunks == T \X (1..MaxChunks)
FlowType ==
    /\ written \in [T -> 0..MaxChunks]
    /\ pipe \in [T -> Seq(Chunks)] /\ buf \in [T -> Seq(Chunks)]
    /\ m_deque \in Seq(Chunks) /\ given \in Seq(Chunks) /\ strayed \in BOOLEAN

Before(lost, c, d) == c # d /\ (~lost /\ c[1] = d[1] => c[2] < d[2])
Precede(lost, C, D) == \A c \in C, d \in D : Before(lost, c, d)
InLine(lost, s) == \A i, j \in DOMAIN s : i < j => Before(lost, s[i], s[j])

-----------------------------------------------------------------------------
(* What is in a sequence. *)

\* In an empty one there is nothing.
LEMMA NothingIn == ToSet(<<>>) = {}
BY DEF ToSet

\* Appending adds the new element.
LEMMA InAppend ==
    ASSUME NEW S, NEW s \in Seq(S), NEW e \in S
    PROVE  ToSet(Append(s, e)) = ToSet(s) \cup {e}
<1>1. /\ DOMAIN s = 1..Len(s) /\ DOMAIN Append(s, e) = 1..(Len(s) + 1) /\ Len(s) \in Nat
      /\ \A i \in 1..Len(s) : Append(s, e)[i] = s[i]
      /\ Append(s, e)[Len(s) + 1] = e
  BY LenProperties
<1> QED  BY <1>1 DEF ToSet

\* What is in a sequence is in a set.
LEMMA InSet ==
    ASSUME NEW S, NEW s \in Seq(S)
    PROVE  ToSet(s) \subseteq S
BY ElementOfSeq, LenProperties DEF ToSet

\* Concatenation has what is in either.
LEMMA InConcat ==
    ASSUME NEW S, NEW s \in Seq(S), NEW u \in Seq(S)
    PROVE  ToSet(s \o u) = ToSet(s) \cup ToSet(u)
<1>1. /\ DOMAIN s = 1..Len(s) /\ DOMAIN u = 1..Len(u) /\ Len(s) \in Nat /\ Len(u) \in Nat
      /\ DOMAIN (s \o u) = 1..(Len(s) + Len(u))
      /\ \A i \in 1..(Len(s) + Len(u)) :
           (s \o u)[i] = IF i <= Len(s) THEN s[i] ELSE u[i - Len(s)]
  BY LenProperties, ConcatProperties
<1>2. \A i \in 1..Len(u) : (s \o u)[i + Len(s)] = u[i]
  BY <1>1
<1>3. ToSet(s \o u) \subseteq ToSet(s) \cup ToSet(u)
  BY <1>1 DEF ToSet
<1>4. ToSet(s) \subseteq ToSet(s \o u)
  BY <1>1 DEF ToSet
<1>5. ToSet(u) \subseteq ToSet(s \o u)
  <2>1. SUFFICES ASSUME NEW i \in 1..Len(u) PROVE u[i] \in ToSet(s \o u)
    BY <1>1 DEF ToSet
  <2>2. i + Len(s) \in 1..(Len(s) + Len(u))
    BY <1>1
  <2> QED  BY <1>1, <1>2, <2>2 DEF ToSet
<1> QED  BY <1>3, <1>4, <1>5

\* Head and tail are of the sequence.
LEMMA InTail ==
    ASSUME NEW S, NEW s \in Seq(S), s # <<>>
    PROVE  /\ Head(s) \in ToSet(s) /\ Head(s) \in S
           /\ Tail(s) \in Seq(S) /\ ToSet(Tail(s)) \subseteq ToSet(s)
<1>1. /\ DOMAIN s = 1..Len(s) /\ Len(s) \in Nat \ {0} /\ Head(s) = s[1] /\ Head(s) \in S
      /\ Tail(s) \in Seq(S) /\ DOMAIN Tail(s) = 1..(Len(s) - 1)
      /\ \A i \in 1..(Len(s) - 1) : Tail(s)[i] = s[i + 1]
  BY LenProperties, HeadTailProperties, EmptySeq
<1> QED  BY <1>1 DEF ToSet

\* The two parts of a sequence.
LEMMA Parts ==
    ASSUME NEW S, NEW s \in Seq(S), NEW n \in 0..Len(s)
    PROVE  /\ Len(s) \in Nat /\ DOMAIN s = 1..Len(s)
           /\ SubSeq(s, 1, n) \in Seq(S) /\ DOMAIN SubSeq(s, 1, n) = 1..n
           /\ \A i \in 1..n : SubSeq(s, 1, n)[i] = s[i]
           /\ SubSeq(s, n + 1, Len(s)) \in Seq(S)
           /\ Len(SubSeq(s, n + 1, Len(s))) = Len(s) - n
           /\ DOMAIN SubSeq(s, n + 1, Len(s)) = 1..(Len(s) - n)
           /\ \A i \in 1..(Len(s) - n) : SubSeq(s, n + 1, Len(s))[i] = s[n + i]
<1>1. Len(s) \in Nat /\ DOMAIN s = 1..Len(s) /\ \A i \in 1..Len(s) : s[i] \in S
  BY LenProperties, ElementOfSeq
<1>2. /\ SubSeq(s, 1, n) \in Seq(S) /\ DOMAIN SubSeq(s, 1, n) = 1..n
      /\ \A i \in 1..n : SubSeq(s, 1, n)[i] = s[i]
  BY <1>1, SubSeqProperties, LenProperties
<1>3. n + 1 \in Nat
  BY <1>1
<1>4. PICK m \in Nat, l \in Nat : m = n + 1 /\ l = Len(s)
  <2>1. \E m \in Nat : m = n + 1
    BY <1>3
  <2>2. \E l \in Nat : l = Len(s)
    BY <1>1
  <2> QED  BY <2>1, <2>2
<1>5. /\ SubSeq(s, m, l) \in Seq(S)
      /\ Len(SubSeq(s, m, l)) = IF m <= l THEN l - m + 1 ELSE 0
      /\ \A i \in 1..(l - m + 1) : SubSeq(s, m, l)[i] = s[m + i - 1]
  <2>1. \A i \in m..l : s[i] \in S
    BY <1>1, <1>4
  <2> QED  BY <1>4, <2>1, SubSeqProperties
<1>6. l - m + 1 = Len(s) - n /\ \A i \in 1..(Len(s) - n) : m + i - 1 = n + i
  BY <1>1, <1>4
<1>7. Len(SubSeq(s, m, l)) = Len(s) - n
  <2>1. m <= l \/ l - m + 1 = 0
    <3>1. l \in Int /\ n \in Int /\ n <= l /\ m = n + 1
      BY <1>1, <1>4
    <3> QED  BY <3>1
  <2> QED  BY <1>5, <1>6, <2>1
<1>8. DOMAIN SubSeq(s, m, l) = 1..(Len(s) - n)
  BY <1>5, <1>7, LenProperties
<1> QED  BY <1>1, <1>2, <1>4, <1>5, <1>6, <1>7, <1>8

\* What is in them is in the sequence.
LEMMA InParts ==
    ASSUME NEW S, NEW s \in Seq(S), NEW n \in 0..Len(s)
    PROVE  /\ ToSet(SubSeq(s, 1, n)) \subseteq ToSet(s)
           /\ ToSet(SubSeq(s, n + 1, Len(s))) \subseteq ToSet(s)
<1>1. \A i \in 1..(Len(s) - n) : n + i \in 1..Len(s)
  BY Parts
<1> QED  BY <1>1, Parts DEF ToSet

-----------------------------------------------------------------------------
(* Order. *)

\* A chunk that comes after all may be appended.
LEMMA LineAppend ==
    ASSUME NEW S, NEW s \in Seq(S), NEW e \in S, NEW lost \in BOOLEAN,
           InLine(lost, s), Precede(lost, ToSet(s), {e})
    PROVE  InLine(lost, Append(s, e))
<1>1. /\ DOMAIN s = 1..Len(s) /\ DOMAIN Append(s, e) = 1..(Len(s) + 1) /\ Len(s) \in Nat
      /\ \A i \in 1..Len(s) : Append(s, e)[i] = s[i]
      /\ Append(s, e)[Len(s) + 1] = e
  BY LenProperties
<1> DEFINE a == Append(s, e)
<1>2. SUFFICES ASSUME NEW i \in 1..(Len(s) + 1), NEW j \in 1..(Len(s) + 1), i < j
      PROVE  Before(lost, a[i], a[j])
  BY <1>1 DEF InLine
<1>3. i \in 1..Len(s) /\ a[i] = s[i] /\ s[i] \in ToSet(s)
  BY <1>1, <1>2 DEF ToSet
<1>4. CASE j \in 1..Len(s)
  BY <1>1, <1>2, <1>3, <1>4 DEF InLine
<1>5. CASE j = Len(s) + 1
  BY <1>1, <1>3, <1>5 DEF Precede
<1> QED  BY <1>1, <1>4, <1>5

\* A sequence may follow another.
LEMMA LineConcat ==
    ASSUME NEW S, NEW s \in Seq(S), NEW u \in Seq(S), NEW lost \in BOOLEAN,
           InLine(lost, s), InLine(lost, u), Precede(lost, ToSet(s), ToSet(u))
    PROVE  InLine(lost, s \o u)
<1>1. /\ DOMAIN s = 1..Len(s) /\ DOMAIN u = 1..Len(u) /\ Len(s) \in Nat /\ Len(u) \in Nat
      /\ DOMAIN (s \o u) = 1..(Len(s) + Len(u))
      /\ \A i \in 1..(Len(s) + Len(u)) :
           (s \o u)[i] = IF i <= Len(s) THEN s[i] ELSE u[i - Len(s)]
  BY LenProperties, ConcatProperties
<1> DEFINE a == s \o u
<1>2. SUFFICES ASSUME NEW i \in 1..(Len(s) + Len(u)), NEW j \in 1..(Len(s) + Len(u)), i < j
      PROVE  Before(lost, a[i], a[j])
  BY <1>1 DEF InLine
<1>3. CASE j <= Len(s)
  <2>1. i \in DOMAIN s /\ j \in DOMAIN s /\ a[i] = s[i] /\ a[j] = s[j]
    BY <1>1, <1>2, <1>3
  <2> QED  BY <1>2, <2>1 DEF InLine
<1>4. CASE i > Len(s)
  <2>1. /\ i - Len(s) \in DOMAIN u /\ j - Len(s) \in DOMAIN u /\ i - Len(s) < j - Len(s)
        /\ a[i] = u[i - Len(s)] /\ a[j] = u[j - Len(s)]
    BY <1>1, <1>2, <1>4
  <2> QED  BY <2>1 DEF InLine
<1>5. CASE i <= Len(s) /\ j > Len(s)
  <2>1. i \in DOMAIN s /\ j - Len(s) \in DOMAIN u /\ a[i] = s[i] /\ a[j] = u[j - Len(s)]
    BY <1>1, <1>2, <1>5
  <2>2. a[i] \in ToSet(s) /\ a[j] \in ToSet(u)
    BY <2>1 DEF ToSet
  <2> QED  BY <2>2 DEF Precede
<1> QED  BY <1>1, <1>2, <1>3, <1>4, <1>5

\* The head comes before the tail, which stays in line.
LEMMA LineTail ==
    ASSUME NEW S, NEW s \in Seq(S), s # <<>>, NEW lost \in BOOLEAN, InLine(lost, s)
    PROVE  InLine(lost, Tail(s)) /\ Precede(lost, {Head(s)}, ToSet(Tail(s)))
<1>1. /\ DOMAIN s = 1..Len(s) /\ Len(s) \in Nat \ {0} /\ Head(s) = s[1]
      /\ DOMAIN Tail(s) = 1..(Len(s) - 1)
      /\ \A i \in 1..(Len(s) - 1) : Tail(s)[i] = s[i + 1]
  BY LenProperties, HeadTailProperties, EmptySeq
<1>2. ASSUME NEW i \in DOMAIN Tail(s), NEW j \in DOMAIN Tail(s), i < j
      PROVE  Before(lost, Tail(s)[i], Tail(s)[j])
  BY <1>1, <1>2 DEF InLine
<1>3. ASSUME NEW i \in DOMAIN Tail(s) PROVE Before(lost, Head(s), Tail(s)[i])
  BY <1>1 DEF InLine
<1> QED  BY <1>2, <1>3 DEF InLine, Precede, ToSet

\* So do the parts of a sequence.
LEMMA LineParts ==
    ASSUME NEW S, NEW s \in Seq(S), NEW n \in 0..Len(s), NEW lost \in BOOLEAN, InLine(lost, s)
    PROVE  /\ InLine(lost, SubSeq(s, 1, n)) /\ InLine(lost, SubSeq(s, n + 1, Len(s)))
           /\ Precede(lost, ToSet(SubSeq(s, 1, n)), ToSet(SubSeq(s, n + 1, Len(s))))
<1> DEFINE a == SubSeq(s, 1, n)
           b == SubSeq(s, n + 1, Len(s))
<1>1. Len(s) \in Nat /\ DOMAIN s = 1..Len(s)
  BY Parts
<1>2. DOMAIN a = 1..n /\ \A i \in 1..n : a[i] = s[i]
  BY Parts
<1>3. DOMAIN b = 1..(Len(s) - n) /\ \A i \in 1..(Len(s) - n) : b[i] = s[n + i]
  BY Parts
<1> HIDE DEF a, b
<1>5. InLine(lost, a)
  BY <1>1, <1>2 DEF InLine
<1>6. InLine(lost, b)
  <2>1. SUFFICES ASSUME NEW i \in DOMAIN b, NEW j \in DOMAIN b, i < j
        PROVE  Before(lost, b[i], b[j])
    BY DEF InLine
  <2>2. n + i \in DOMAIN s /\ n + j \in DOMAIN s /\ n + i < n + j
    BY <1>1, <1>3, <2>1
  <2> QED  BY <1>3, <2>2 DEF InLine
<1>7. Precede(lost, ToSet(a), ToSet(b))
  <2>1. SUFFICES ASSUME NEW i \in DOMAIN a, NEW j \in DOMAIN b
        PROVE  Before(lost, a[i], b[j])
    BY DEF Precede, ToSet
  <2>2. i \in DOMAIN s /\ n + j \in DOMAIN s /\ i < n + j
    BY <1>1, <1>2, <1>3
  <2> QED  BY <1>2, <1>3, <2>2 DEF InLine
<1> QED  BY <1>5, <1>6, <1>7 DEF a, b

\* What is in order stays so when the order may be lost, or when less is left.
LEMMA Weaker ==
    ASSUME NEW lost \in BOOLEAN, NEW lost2 \in BOOLEAN, lost => lost2
    PROVE  /\ \A c, d : Before(lost, c, d) => Before(lost2, c, d)
           /\ \A s : InLine(lost, s) => InLine(lost2, s)
           /\ \A C, D, E, F : Precede(lost, C, D) /\ E \subseteq C /\ F \subseteq D
                                => Precede(lost2, E, F)
<1>1. \A c, d : Before(lost, c, d) => Before(lost2, c, d)
  BY DEF Before
<1> QED  BY <1>1 DEF InLine, Precede

-----------------------------------------------------------------------------
(* The way of the chunks.                                                 *)

Shown == ToSet(given) \cup ToSet(m_deque)
Held(r) == ToSet(buf[r])
Waiting(t) == ToSet(pipe[t])

\* What was given is in order, and so is what will be.
GivenPart ==
    /\ InLine(strayed, given) /\ InLine(strayed, m_deque)
    /\ Precede(strayed, ToSet(given), ToSet(m_deque))
    /\ \A c \in Shown : c[2] <= written[c[1]]

\* What a reader holds comes after that.  Nobody else holds it, and unless a reader
\* has used descriptors of another task it is of its own.
HeldPart(r) ==
    /\ Precede(strayed, Shown, Held(r))
    /\ \A c \in Held(r) : c[2] <= written[c[1]] /\ (~strayed => c[1] = r)
    /\ \A s \in T : s # r => Held(r) \cap Held(s) = {}

\* What waits in a pipe comes after all of this.
PipePart(t) ==
    /\ InLine(FALSE, pipe[t])
    /\ \A c \in Waiting(t) : c[1] = t /\ c[2] <= written[t]
    /\ Precede(strayed, Shown, Waiting(t))
    /\ \A r \in T : Precede(strayed, Held(r), Waiting(t))

OrderInv == GivenPart /\ \A r \in T : HeldPart(r) /\ PipePart(r)

\* At first there are no chunks.
LEMMA OrderInit ==
    ASSUME given = <<>>, m_deque = <<>>, \A t \in T : buf[t] = <<>> /\ pipe[t] = <<>>
    PROVE  OrderInv
<1>1. \A lost : InLine(lost, <<>>)
  BY DEF InLine
<1>2. Shown = {} /\ \A r \in T : Held(r) = {} /\ Waiting(r) = {}
  BY NothingIn DEF Shown, Held, Waiting
<1>3. GivenPart
  BY <1>1, <1>2, NothingIn DEF GivenPart, Precede
<1>4. \A r \in T : HeldPart(r) /\ PipePart(r)
  BY <1>1, <1>2 DEF HeldPart, PipePart, Precede
<1> QED  BY <1>3, <1>4 DEF OrderInv

\* Nothing happens to the order where chunks are only lost.
LEMMA OnlyLost ==
    ASSUME FlowType, FlowType', OrderInv, strayed => strayed',
           \A t \in T : written[t] <= written'[t], given' = given,
           m_deque' = m_deque \/ m_deque' = <<>>,
           \A r \in T : buf'[r] = buf[r] \/ buf'[r] = <<>>,
           \A t \in T : pipe'[t] = pipe[t] \/ pipe'[t] = <<>>
    PROVE  OrderInv'
<1>1. strayed \in BOOLEAN /\ strayed' \in BOOLEAN
  BY DEF FlowType
<1>2. \A s : InLine(strayed, s) => InLine(strayed', s)
  BY <1>1, Weaker
<1>3. \A C, D, E, F : Precede(strayed, C, D) /\ E \subseteq C /\ F \subseteq D
                         => Precede(strayed', E, F)
  BY <1>1, Weaker
<1>4. \A lost : InLine(lost, <<>>)
  BY DEF InLine
<1>5. ToSet(m_deque') \subseteq ToSet(m_deque) /\ Shown' \subseteq Shown
  BY NothingIn DEF Shown
<1>6. \A r \in T : Held(r)' \subseteq Held(r) /\ Waiting(r)' \subseteq Waiting(r)
  BY NothingIn DEF Held, Waiting
<1>10. /\ Shown \subseteq Chunks
       /\ \A r \in T : Held(r) \subseteq Chunks /\ Waiting(r) \subseteq Chunks
  BY InSet DEF FlowType, Shown, Held, Waiting
<1>11. ASSUME NEW c \in Chunks, c[2] <= written[c[1]] PROVE c[2] <= written'[c[1]]
  <2>1. c[1] \in T /\ c[2] \in Nat
    BY DEF Chunks
  <2>2. written[c[1]] \in Nat /\ written'[c[1]] \in Nat /\ written[c[1]] <= written'[c[1]]
    BY <2>1 DEF FlowType
  <2> QED  BY <1>11, <2>1, <2>2
<1>7. GivenPart'
  <2>1. InLine(strayed', given') /\ InLine(strayed', m_deque')
    BY <1>2, <1>4 DEF OrderInv, GivenPart
  <2>2. Precede(strayed', ToSet(given'), ToSet(m_deque'))
    BY <1>3, <1>5 DEF OrderInv, GivenPart
  <2>3. \A c \in Shown' : c[2] <= written'[c[1]]
    BY <1>5, <1>10, <1>11 DEF OrderInv, GivenPart
  <2> QED  BY <2>1, <2>2, <2>3 DEF GivenPart
<1>8. ASSUME NEW r \in T PROVE HeldPart(r)'
  <2>1. HeldPart(r)
    BY DEF OrderInv
  <2>2. Precede(strayed', Shown', Held(r)')
    BY <1>3, <1>5, <1>6, <2>1 DEF HeldPart
  <2>3. \A c \in Held(r)' : c[2] <= written'[c[1]] /\ (~strayed' => c[1] = r)
    BY <1>6, <1>10, <1>11, <2>1 DEF HeldPart
  <2>4. \A s \in T : s # r => Held(r)' \cap Held(s)' = {}
    BY <1>6, <2>1 DEF HeldPart
  <2> QED  BY <2>2, <2>3, <2>4 DEF HeldPart
<1>9. ASSUME NEW t \in T PROVE PipePart(t)'
  <2>1. PipePart(t)
    BY DEF OrderInv
  <2>2. InLine(FALSE, pipe'[t])
    BY <1>4, <2>1 DEF PipePart
  <2>3. \A c \in Waiting(t)' : c[1] = t /\ c[2] <= written'[t]
    BY <1>6, <1>10, <1>11, <2>1 DEF PipePart
  <2>4. Precede(strayed', Shown', Waiting(t)')
    BY <1>3, <1>5, <1>6, <2>1 DEF PipePart
  <2>5. \A r \in T : Precede(strayed', Held(r)', Waiting(t)')
    BY <1>3, <1>6, <2>1 DEF PipePart
  <2> QED  BY <2>2, <2>3, <2>4, <2>5 DEF PipePart
<1> QED  BY <1>7, <1>8, <1>9 DEF OrderInv

\* A new chunk has the highest number of its task.
NewChunk(t) ==
    /\ written[t] < MaxChunks
    /\ written' = [written EXCEPT ![t] = @ + 1]
    /\ pipe' = [pipe EXCEPT ![t] = Append(@, <<t, written'[t]>>)]
    /\ UNCHANGED <<given, m_deque, buf, strayed>>
LEMMA OrderWrite ==
    ASSUME MaxChunks \in Nat, FlowType, FlowType', OrderInv,
           NEW t \in T, NewChunk(t)
    PROVE  OrderInv'
<1> DEFINE e == <<t, written[t] + 1>>
<1>1. /\ written \in [T -> 0..MaxChunks] /\ written[t] \in 0..MaxChunks
      /\ written'[t] = written[t] + 1
      /\ \A s \in T : s # t => written'[s] = written[s]
      /\ UNCHANGED <<given, m_deque, buf, strayed>> /\ strayed \in BOOLEAN
  BY DEF NewChunk, FlowType
<1>2. /\ pipe'[t] = Append(pipe[t], e) /\ pipe[t] \in Seq(Chunks)
      /\ \A s \in T : s # t => pipe'[s] = pipe[s]
  BY <1>1 DEF NewChunk, FlowType
<1>3. e \in Chunks
  <2>1. written[t] + 1 \in 1..MaxChunks
    BY <1>1 DEF NewChunk
  <2> QED  BY <2>1 DEF Chunks
<1>4. Waiting(t)' = Waiting(t) \cup {e} /\ \A s \in T : s # t => Waiting(s)' = Waiting(s)
  BY <1>2, <1>3, InAppend DEF Waiting
<1>5. Shown' = Shown /\ \A r \in T : Held(r)' = Held(r)
  BY <1>1 DEF Shown, Held
<1>6. /\ Shown \subseteq Chunks
      /\ \A r \in T : Held(r) \subseteq Chunks /\ Waiting(r) \subseteq Chunks
  BY InSet DEF FlowType, Shown, Held, Waiting
<1>7. \A c \in Chunks : c[1] \in T /\ c[2] \in Nat
  BY DEF Chunks
<1>8. ASSUME NEW c \in Chunks, c[2] <= written[c[1]]
      PROVE  Before(strayed, c, e) /\ Before(FALSE, c, e) /\ c[2] <= written'[c[1]]
  <2>1. e[1] = t /\ e[2] = written[t] + 1
    OBVIOUS
  <2> HIDE DEF e
  <2>2. c[1] \in T /\ c[2] \in Nat /\ written[c[1]] \in Nat
    BY <1>1, <1>7
  <2>3. c[1] = t => c[2] < e[2]
    BY <1>1, <1>8, <2>1, <2>2
  <2>4. c # e
    BY <2>1, <2>2, <2>3
  <2>5. c[2] <= written'[c[1]]
    BY <1>1, <1>8, <2>2
  <2> QED  BY <2>1, <2>3, <2>4, <2>5 DEF Before
<1> HIDE DEF e
<1>9. GivenPart'
  BY <1>1, <1>5, <1>6, <1>8 DEF OrderInv, GivenPart
<1>10. ASSUME NEW r \in T PROVE HeldPart(r)'
  BY <1>1, <1>5, <1>6, <1>8 DEF OrderInv, HeldPart
<1>11. ASSUME NEW s \in T PROVE PipePart(s)'
  <2>1. PipePart(s)
    BY DEF OrderInv
  <2>2. CASE s # t
    BY <1>1, <1>2, <1>4, <1>5, <2>1, <2>2 DEF PipePart
  <2>3. CASE s = t
    <3>1. \A c \in Waiting(t) : Before(FALSE, c, e)
      BY <1>6, <1>8, <2>1, <2>3 DEF PipePart
    <3>2. InLine(FALSE, pipe'[t])
      BY <1>2, <1>3, <2>1, <2>3, <3>1, LineAppend DEF PipePart, Precede, Waiting
    <3>3. e[1] = t /\ e[2] = written'[t]
      BY <1>1 DEF e
    <3>4. \A c \in Waiting(t)' : c[1] = t /\ c[2] <= written'[t]
      BY <1>1, <1>4, <1>6, <1>7, <2>1, <2>3, <3>3 DEF PipePart
    <3>5. Precede(strayed', Shown', Waiting(t)')
      <4>1. \A c \in Shown : Before(strayed, c, e)
        BY <1>6, <1>8 DEF OrderInv, GivenPart
      <4> QED  BY <1>1, <1>4, <1>5, <2>1, <2>3, <4>1 DEF PipePart, Precede
    <3>6. \A r \in T : Precede(strayed', Held(r)', Waiting(t)')
      <4>1. \A r \in T : \A c \in Held(r) : Before(strayed, c, e)
        BY <1>6, <1>8 DEF OrderInv, HeldPart
      <4> QED  BY <1>1, <1>4, <1>5, <2>1, <2>3, <4>1 DEF PipePart, Precede
    <3> QED  BY <2>3, <3>2, <3>4, <3>5, <3>6 DEF PipePart
  <2> QED  BY <2>2, <2>3
<1> QED  BY <1>9, <1>10, <1>11 DEF OrderInv

\* A reader takes the oldest chunk of a pipe.
LEMMA OrderRead ==
    ASSUME FlowType, FlowType', OrderInv, NEW r \in T, NEW m \in T, pipe[m] # <<>>,
           buf' = [buf EXCEPT ![r] = <<Head(pipe[m])>>],
           pipe' = [pipe EXCEPT ![m] = Tail(pipe[m])],
           strayed' = (strayed \/ m # r),
           UNCHANGED <<written, given, m_deque>>
    PROVE  OrderInv'
<1>1. strayed \in BOOLEAN /\ strayed' \in BOOLEAN /\ pipe[m] \in Seq(Chunks)
  BY DEF FlowType
<1>2. \A s : InLine(strayed, s) => InLine(strayed', s)
  BY <1>1, Weaker
<1>3. \A C, D, E, F : Precede(strayed, C, D) /\ E \subseteq C /\ F \subseteq D
                         => Precede(strayed', E, F)
  BY <1>1, Weaker
<1>4. PICK e \in Chunks : e = Head(pipe[m]) /\ e \in Waiting(m)
  BY <1>1, InTail DEF Waiting
<1>5. /\ buf'[r] = <<e>> /\ \A s \in T : s # r => buf'[s] = buf[s]
      /\ pipe'[m] = Tail(pipe[m]) /\ \A t \in T : t # m => pipe'[t] = pipe[t]
  BY <1>4 DEF FlowType
<1>6. Held(r)' = {e} /\ \A s \in T : s # r => Held(s)' = Held(s)
  BY <1>5 DEF Held, ToSet
<1>7. \A t \in T : Waiting(t)' \subseteq Waiting(t)
  BY <1>1, <1>5, InTail DEF Waiting
<1>8. Shown' = Shown
  BY DEF Shown
<1>9. PipePart(m) /\ e[1] = m /\ e[2] <= written[m]
  BY <1>4 DEF OrderInv, PipePart
<1>10. GivenPart'
  BY <1>2, <1>3, <1>8 DEF OrderInv, GivenPart
<1>11. ASSUME NEW s \in T PROVE HeldPart(s)'
  <2>1. HeldPart(s)
    BY DEF OrderInv
  <2>2. Precede(strayed', Shown', Held(s)')
    <3>1. CASE s # r
      BY <1>3, <1>6, <1>8, <2>1, <3>1 DEF HeldPart
    <3>2. CASE s = r
      BY <1>3, <1>4, <1>6, <1>8, <1>9, <3>2 DEF PipePart
    <3> QED  BY <3>1, <3>2
  <2>3. \A c \in Held(s)' : c[2] <= written'[c[1]] /\ (~strayed' => c[1] = s)
    BY <1>6, <1>9, <2>1 DEF HeldPart
  <2>4. \A q \in T : q # r => e \notin Held(q)
    BY <1>4, <1>9 DEF PipePart, Precede, Before
  <2>5. \A q \in T : q # s => Held(s)' \cap Held(q)' = {}
    BY <1>6, <2>1, <2>4 DEF HeldPart
  <2> QED  BY <2>2, <2>3, <2>5 DEF HeldPart
<1>12. ASSUME NEW t \in T PROVE PipePart(t)'
  <2>1. PipePart(t)
    BY DEF OrderInv
  <2>2. InLine(FALSE, pipe'[t]) /\ (t = m => Precede(FALSE, {e}, Waiting(t)'))
    <3>1. FALSE \in BOOLEAN /\ InLine(FALSE, pipe[t])
      BY <2>1 DEF PipePart
    <3>2. /\ InLine(FALSE, Tail(pipe[m]))
          /\ Precede(FALSE, {Head(pipe[m])}, ToSet(Tail(pipe[m])))
      BY <1>1, <1>9, <3>1, LineTail DEF PipePart
    <3>3. Waiting(m)' = ToSet(Tail(pipe[m]))
      BY <1>5 DEF Waiting
    <3> QED  BY <1>4, <1>5, <3>1, <3>2, <3>3
  <2>3. \A c \in Waiting(t)' : c[1] = t /\ c[2] <= written'[t]
    BY <1>7, <2>1 DEF PipePart
  <2>4. Precede(strayed', Shown', Waiting(t)')
    BY <1>3, <1>7, <1>8, <2>1 DEF PipePart
  <2>5. ASSUME NEW q \in T PROVE Precede(strayed', Held(q)', Waiting(t)')
    <3>1. CASE q # r
      BY <1>3, <1>6, <1>7, <2>1, <3>1 DEF PipePart
    <3>2. CASE q = r /\ t # m
      BY <1>6, <1>9, <2>3, <3>2 DEF Precede, Before
    <3>3. CASE q = r /\ t = m
      BY <1>6, <2>2, <3>3 DEF Precede, Before
    <3> QED  BY <3>1, <3>2, <3>3
  <2> QED  BY <2>2, <2>3, <2>4, <2>5 DEF PipePart
<1> QED  BY <1>10, <1>11, <1>12 DEF OrderInv

\* It puts it at the end of the queue, which may have lost its oldest chunk.
LEMMA OrderPush ==
    ASSUME FlowType, FlowType', OrderInv, NEW r \in T, NEW q \in Seq(Chunks), buf[r] # <<>>,
           q = m_deque \/ (m_deque # <<>> /\ q = Tail(m_deque)),
           m_deque' = Append(q, buf[r][1]),
           buf' = [buf EXCEPT ![r] = <<>>],
           UNCHANGED <<written, given, pipe, strayed>>
    PROVE  OrderInv'
<1>1. /\ strayed \in BOOLEAN /\ m_deque \in Seq(Chunks) /\ given \in Seq(Chunks)
      /\ buf[r] \in Seq(Chunks)
  BY DEF FlowType
<1>2. PICK e \in Chunks : e = buf[r][1] /\ e \in Held(r)
  <2>1. Head(buf[r]) = buf[r][1]
    BY <1>1, HeadTailProperties, EmptySeq
  <2> QED  BY <1>1, <2>1, InTail DEF Held
<1>3. ToSet(q) \subseteq ToSet(m_deque) /\ InLine(strayed, q)
  BY <1>1, InTail, LineTail DEF OrderInv, GivenPart
<1>4. ToSet(m_deque') = ToSet(q) \cup {e}
  BY <1>2, InAppend
<1>5. Shown' \subseteq Shown \cup {e}
  BY <1>3, <1>4 DEF Shown
<1>6. Held(r)' = {} /\ \A s \in T : s # r => Held(s)' = Held(s)
  BY NothingIn DEF FlowType, Held
<1>7. \A t \in T : Waiting(t)' = Waiting(t)
  BY DEF Waiting
<1>8. HeldPart(r) /\ e[2] <= written[e[1]] /\ (~strayed => e[1] = r)
  BY <1>2 DEF OrderInv, HeldPart
<1>9. \A c \in Shown : Before(strayed, c, e)
  BY <1>2, <1>8 DEF HeldPart, Precede
<1>10. GivenPart'
  <2>1. Precede(strayed, ToSet(q), {e})
    BY <1>3, <1>9 DEF Precede, Shown
  <2>2. InLine(strayed', m_deque')
    BY <1>1, <1>2, <1>3, <2>1, LineAppend
  <2>3. Precede(strayed', ToSet(given'), ToSet(m_deque'))
    BY <1>3, <1>4, <1>9 DEF OrderInv, GivenPart, Precede, Shown
  <2>4. \A c \in Shown' : c[2] <= written'[c[1]]
    BY <1>5, <1>8 DEF OrderInv, GivenPart
  <2> QED  BY <2>2, <2>3, <2>4 DEF OrderInv, GivenPart
<1>11. ASSUME NEW s \in T PROVE HeldPart(s)'
  <2>1. CASE s = r
    BY <1>6, <2>1 DEF HeldPart, Precede
  <2>2. CASE s # r
    <3>1. HeldPart(s)
      BY DEF OrderInv
    <3>2. \A d \in Held(s) : d # e /\ (~strayed => d[1] # e[1])
      BY <1>2, <1>8, <2>2, <3>1 DEF HeldPart
    <3>3. Precede(strayed', Shown', Held(s)')
      BY <1>5, <1>6, <2>2, <3>1, <3>2 DEF HeldPart, Precede, Before
    <3>4. \A v \in T : v # s => Held(s)' \cap Held(v)' = {}
      BY <1>6, <2>2, <3>1 DEF HeldPart
    <3> QED  BY <1>6, <2>2, <3>1, <3>3, <3>4 DEF HeldPart
  <2> QED  BY <2>1, <2>2
<1>12. ASSUME NEW t \in T PROVE PipePart(t)'
  <2>1. PipePart(t)
    BY DEF OrderInv
  <2>2. Precede(strayed', Shown', Waiting(t)')
    BY <1>2, <1>5, <1>7, <2>1 DEF PipePart, Precede
  <2>3. \A s \in T : Precede(strayed', Held(s)', Waiting(t)')
    BY <1>6, <1>7, <2>1 DEF PipePart, Precede
  <2> QED  BY <1>7, <2>1, <2>2, <2>3 DEF PipePart
<1> QED  BY <1>10, <1>11, <1>12 DEF OrderInv

\* The first part of the queue is given.
LEMMA OrderGive ==
    ASSUME FlowType, FlowType', OrderInv, NEW n \in 0..Len(m_deque),
           given' = given \o SubSeq(m_deque, 1, n),
           m_deque' = SubSeq(m_deque, n + 1, Len(m_deque)),
           UNCHANGED <<written, buf, pipe, strayed>>
    PROVE  OrderInv'
<1>1. strayed \in BOOLEAN /\ m_deque \in Seq(Chunks) /\ given \in Seq(Chunks)
  BY DEF FlowType
<1>2. PICK a \in Seq(Chunks), b \in Seq(Chunks) :
        a = SubSeq(m_deque, 1, n) /\ b = SubSeq(m_deque, n + 1, Len(m_deque))
  BY <1>1, Parts
<1>3. ToSet(a) \subseteq ToSet(m_deque) /\ ToSet(b) \subseteq ToSet(m_deque)
  BY <1>1, <1>2, InParts
<1>4. InLine(strayed, a) /\ InLine(strayed, b) /\ Precede(strayed, ToSet(a), ToSet(b))
  BY <1>1, <1>2, LineParts DEF OrderInv, GivenPart
<1>5. ToSet(given') = ToSet(given) \cup ToSet(a) /\ ToSet(m_deque') = ToSet(b)
  <2>1. ToSet(given \o a) = ToSet(given) \cup ToSet(a)
    BY <1>1, InConcat
  <2>2. given' = given \o a /\ m_deque' = b
    BY <1>2
  <2> QED  BY <2>1, <2>2
<1>6. Shown' \subseteq Shown
  BY <1>3, <1>5 DEF Shown
<1>7. Precede(strayed, ToSet(given), ToSet(a)) /\ Precede(strayed, ToSet(given), ToSet(b))
  BY <1>3 DEF OrderInv, GivenPart, Precede
<1>8. InLine(strayed', given') /\ InLine(strayed', m_deque')
  BY <1>1, <1>2, <1>4, <1>7, LineConcat DEF OrderInv, GivenPart
<1>9. Precede(strayed', ToSet(given'), ToSet(m_deque'))
  BY <1>4, <1>5, <1>7 DEF Precede
<1>10. GivenPart'
  BY <1>6, <1>8, <1>9 DEF OrderInv, GivenPart
<1>11. \A s \in T : Held(s)' = Held(s) /\ Waiting(s)' = Waiting(s)
  BY DEF Held, Waiting
<1>12. ASSUME NEW s \in T PROVE HeldPart(s)'
  BY <1>6, <1>11 DEF OrderInv, HeldPart, Precede
<1>13. ASSUME NEW t \in T PROVE PipePart(t)'
  <2>1. PipePart(t)
    BY DEF OrderInv
  <2>2. Precede(strayed', Shown', Waiting(t)')
    BY <1>6, <1>11, <2>1 DEF PipePart, Precede
  <2>3. \A s \in T : Precede(strayed', Held(s)', Waiting(t)')
    BY <1>11, <2>1 DEF PipePart
  <2> QED  BY <1>11, <2>1, <2>2, <2>3 DEF PipePart
<1> QED  BY <1>10, <1>12, <1>13 DEF OrderInv

\* What was given, and what will be, is in order.
LEMMA OutInLine == ASSUME FlowType, OrderInv PROVE InLine(strayed, given \o m_deque)
  BY LineConcat DEF FlowType, OrderInv, GivenPart
=============================================================================
