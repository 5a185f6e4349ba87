--------------------------- MODULE NetQueueProofs ----------------------------
(***************************************************************************)
(* A connection delivers every message whole and in order, and its buffers *)
(* keep their bounds, for every size of messages, of buffers and of what   *)
(* the sockets take or bring at a time.                                    *)
(***************************************************************************)
EXTENDS NetQueue, SequenceTheorems, IntervalFacts

-----------------------------------------------------------------------------
(* Sequences joined end to end *)

\* g[i] is the first i sequences of ss joined.
Join(ss, n, g) == g = [i \in 1..n |-> IF i = 1 THEN ss[i] ELSE g[i - 1] \o ss[i]]

LEMMA JoinExists ==
    ASSUME NEW ss, NEW n \in Nat
    PROVE  \E g : Join(ss, n, g)
<1> DEFINE S == {k \in Nat : \E g : Join(ss, k, g)}
<1>1. 0 \in S
  <2> DEFINE g == [i \in 1..0 |-> 0]
  <2>1. g = [i \in 1..0 |-> IF i = 1 THEN ss[i] ELSE g[i - 1] \o ss[i]]
    OBVIOUS
  <2> HIDE DEF g
  <2>2. Join(ss, 0, g)
    BY <2>1 DEF Join
  <2> QED
    BY <2>2
<1>2. ASSUME NEW m \in 1..n, m - 1 \in S PROVE m \in S
  <2>1. PICK g : Join(ss, m - 1, g)
    BY <1>2
  <2> DEFINE F(f, i) == f \o ss[i]
             h == [i \in 1..m |-> IF i < m THEN g[i]
                                  ELSE IF m = 1 THEN ss[i] ELSE F(g[m - 1], i)]
  <2> HIDE DEF F
  <2>2. g = [i \in 1..(m - 1) |-> IF i = 1 THEN ss[i] ELSE F(g[i - 1], i)]
    BY <2>1 DEF Join, F
  <2>3. h = [i \in 1..m |-> IF i = 1 THEN ss[i] ELSE F(h[i - 1], i)]
    <3>1. \A i \in 1..m : h[i] = IF i = 1 THEN ss[i] ELSE F(h[i - 1], i)
      <4> TAKE i \in 1..m
      <4>1. CASE i < m
        BY <4>1, <2>2
      <4>2. CASE i = m
        BY <4>2, <2>2
      <4> QED
        BY <4>1, <4>2
    <3> QED
      BY <3>1
  <2> HIDE DEF h
  <2>4. Join(ss, m, h)
    BY <2>3 DEF Join, F
  <2> QED
    BY <2>4
<1>3. 0 \in S /\ \A i \in 1..n : i - 1 \in S => i \in S
  BY <1>1, <1>2
<1> HIDE DEF S
<1>4. n \in S
  BY <1>3, Induct
<1> QED
  BY <1>4 DEF S

Cat(s, t) == s \o t

\* What FlattenSeq does, step by step.
Joined(ss, n, g) ==
    /\ FlattenSeq(ss) = g[n]
    /\ g[1] = ss[1]
    /\ \A i \in 2..n : g[i] = Cat(g[i - 1], ss[i])
LEMMA FlattenIs ==
    ASSUME NEW ss, NEW n \in Nat \ {0}, Len(ss) = n
    PROVE  \E g : Joined(ss, n, g)
<1> DEFINE f == CHOOSE g : Join(ss, n, g)
<1>1. Join(ss, n, f)
  BY JoinExists
<1>2. FlattenSeq(ss) = f[n]
  BY DEF FlattenSeq, Join
<1> HIDE DEF f
<1>3. f = [i \in 1..n |-> IF i = 1 THEN ss[i] ELSE Cat(f[i - 1], ss[i])]
  BY <1>1 DEF Join, Cat
<1>4. f[1] = ss[1] /\ \A i \in 2..n : f[i] = Cat(f[i - 1], ss[i])
  BY <1>3
<1> QED
  BY <1>2, <1>4 DEF Joined

\* ConcatAssociative, with a name for what it says.
Regrouping(s, t, u) == (s \o t) \o u = s \o (t \o u)
LEMMA Regroups ==
    ASSUME NEW S, NEW s \in Seq(S), NEW t \in Seq(S), NEW u \in Seq(S)
    PROVE  Regrouping(s, t, u)
BY Z3, ConcatAssociative DEF Regrouping

\* ConcatProperties, with a name for what it says.
JoinedTo(S, s, t) ==
    /\ s \o t \in Seq(S)
    /\ Len(s \o t) = Len(s) + Len(t)
    /\ \A i \in 1..(Len(s) + Len(t)) : (s \o t)[i] = IF i <= Len(s) THEN s[i] ELSE t[i - Len(s)]
LEMMA JoinsTwo ==
    ASSUME NEW S, NEW s \in Seq(S), NEW t \in Seq(S)
    PROVE  JoinedTo(S, s, t)
BY ConcatProperties DEF JoinedTo

LEMMA FlattenEmpty == FlattenSeq(<< >>) = << >>
BY DEF FlattenSeq

LEMMA CatType ==
    ASSUME NEW S, NEW s \in Seq(S), NEW t \in Seq(S)
    PROVE  Cat(s, t) \in Seq(S)
BY ConcatProperties DEF Cat

LEMMA FlattenType ==
    ASSUME NEW S, NEW ss \in Seq(Seq(S))
    PROVE  FlattenSeq(ss) \in Seq(S)
<1>1. CASE ss = << >>
  BY <1>1, FlattenEmpty, EmptySeq
<1>2. CASE ss # << >>
  <2>1. PICK n \in Nat \ {0} : Len(ss) = n
    BY <1>2
  <2>2. PICK g : Joined(ss, n, g)
    BY <2>1, FlattenIs
  <2> DEFINE T == {i \in 0..n : i = 0 \/ g[i] \in Seq(S)}
  <2>3. 0 \in T
    OBVIOUS
  <2>4. ASSUME NEW i \in 1..n, i - 1 \in T PROVE i \in T
    <3>1. ss[i] \in Seq(S)
      BY <2>1, ElementOfSeq
    <3>2. CASE i = 1
      BY <2>2, <3>1, <3>2 DEF Joined
    <3>3. CASE i # 1
      <4>1. i \in 2..n /\ g[i - 1] \in Seq(S)
        BY <2>4, <3>3
      <4>2. g[i] = Cat(g[i - 1], ss[i])
        BY <2>2, <4>1 DEF Joined
      <4> QED
        BY <3>1, <4>1, <4>2, CatType
    <3> QED
      BY <3>2, <3>3
  <2>5. n \in 0..n
    OBVIOUS
  <2> HIDE DEF T
  <2>6. n \in T
    BY <2>3, <2>4, <2>5, Induct
  <2> QED
    BY <2>2, <2>6 DEF T, Joined
<1> QED
  BY <1>1, <1>2

LEMMA FlattenAppend ==
    ASSUME NEW S, NEW ss \in Seq(Seq(S)), NEW s \in Seq(S)
    PROVE  FlattenSeq(Append(ss, s)) = FlattenSeq(ss) \o s
<1>1. PICK n \in Nat : Len(ss) = n
  OBVIOUS
<1>2. PICK tt : tt = Append(ss, s)
  OBVIOUS
<1>3. Len(tt) = n + 1 /\ tt[n + 1] = s /\ \A i \in 1..n : tt[i] = ss[i]
  BY <1>1, <1>2
<1>4. PICK h : Joined(tt, n + 1, h)
  BY <1>3, FlattenIs
<1>5. CASE n = 0
  <2>1. FlattenSeq(tt) = s
    BY <1>3, <1>4, <1>5 DEF Joined
  <2>2. ss = << >>
    BY <1>1, <1>5
  <2>3. FlattenSeq(ss) \o s = s
    BY <2>2, FlattenEmpty, ConcatEmptySeq
  <2> QED
    BY <1>2, <2>1, <2>3
<1>6. CASE n # 0
  <2>1. n \in Nat \ {0}
    BY <1>6
  <2>2. PICK g : Joined(ss, n, g)
    BY <1>1, <2>1, FlattenIs
  <2> DEFINE T == {i \in 0..n : i = 0 \/ g[i] = h[i]}
  <2>3. 0 \in T
    OBVIOUS
  <2>4. ASSUME NEW i \in 1..n, i - 1 \in T PROVE i \in T
    <3>1. CASE i = 1
      BY <1>3, <1>4, <2>2, <3>1 DEF Joined
    <3>2. CASE i # 1
      <4>1. i \in 2..n /\ i \in 2..(n + 1) /\ g[i - 1] = h[i - 1]
        BY <2>4, <3>2
      <4>2. g[i] = Cat(g[i - 1], ss[i])
        BY <2>2, <4>1 DEF Joined
      <4>3. h[i] = Cat(h[i - 1], tt[i])
        BY <1>4, <4>1 DEF Joined
      <4> QED
        BY <1>3, <4>1, <4>2, <4>3
    <3> QED
      BY <3>1, <3>2
  <2>5. n \in 0..n
    OBVIOUS
  <2> HIDE DEF T
  <2>6. n \in T
    BY <2>3, <2>4, <2>5, Induct
  <2>7. g[n] = h[n]
    BY <2>1, <2>6 DEF T
  <2>8. h[n + 1] = Cat(h[n], s)
    <3>1. n + 1 \in 2..(n + 1) /\ (n + 1) - 1 = n
      BY <2>1
    <3> QED
      BY <1>3, <1>4, <3>1 DEF Joined
  <2> QED
    BY <1>2, <1>4, <2>2, <2>7, <2>8 DEF Joined, Cat
<1> QED
  BY <1>5, <1>6

\* A slice of a sequence.
LEMMA Slice ==
    ASSUME NEW S, NEW s \in Seq(S), NEW m \in 1..(Len(s) + 1), NEW n \in (m - 1)..Len(s)
    PROVE  /\ SubSeq(s, m, n) \in Seq(S) /\ Len(SubSeq(s, m, n)) = n - m + 1
           /\ \A i \in 1..(n - m + 1) : SubSeq(s, m, n)[i] = s[m + i - 1]
<1>1. m \in Int /\ n \in Int /\ \A i \in m..n : s[i] \in S
  BY ElementOfSeq
<1>2. /\ SubSeq(s, m, n) \in Seq(S)
      /\ Len(SubSeq(s, m, n)) = IF m <= n THEN n - m + 1 ELSE 0
      /\ \A i \in 1..(n - m + 1) : SubSeq(s, m, n)[i] = s[m + i - 1]
  BY <1>1, SubSeqProperties
<1>3. (IF m <= n THEN n - m + 1 ELSE 0) = n - m + 1
  BY LenProperties
<1> QED
  BY <1>2, <1>3

\* A sequence cut in two.
LEMMA SplitAt ==
    ASSUME NEW S, NEW s \in Seq(S), NEW n \in 0..Len(s)
    PROVE  /\ SubSeq(s, 1, n) \in Seq(S) /\ Len(SubSeq(s, 1, n)) = n
           /\ SubSeq(s, n + 1, Len(s)) \in Seq(S)
           /\ Len(SubSeq(s, n + 1, Len(s))) = Len(s) - n
           /\ \A i \in 1..n : SubSeq(s, 1, n)[i] = s[i]
           /\ \A i \in 1..(Len(s) - n) : SubSeq(s, n + 1, Len(s))[i] = s[n + i]
           /\ SubSeq(s, 1, n) \o SubSeq(s, n + 1, Len(s)) = s
<1>1. PICK k \in Nat : Len(s) = k
  BY LenProperties
<1>2. /\ 1 \in 1..(k + 1) /\ n \in 0..k /\ 1 - 1 = 0 /\ n - 1 + 1 = n
      /\ n + 1 \in 1..(k + 1) /\ k \in (n + 1 - 1)..k /\ k - (n + 1) + 1 = k - n
  BY <1>1
<1>3. /\ SubSeq(s, 1, n) \in Seq(S) /\ Len(SubSeq(s, 1, n)) = n
      /\ \A i \in 1..n : SubSeq(s, 1, n)[i] = s[1 + i - 1]
  BY <1>1, <1>2, Slice
<1>4. /\ SubSeq(s, n + 1, k) \in Seq(S) /\ Len(SubSeq(s, n + 1, k)) = k - n
      /\ \A i \in 1..(k - n) : SubSeq(s, n + 1, k)[i] = s[n + 1 + i - 1]
  BY <1>1, <1>2, Slice
<1>5. (\A i \in 1..n : 1 + i - 1 = i) /\ \A i \in 1..(k - n) : n + 1 + i - 1 = n + i
  BY <1>1
<1>6. SubSeq(s, 1, n) \o SubSeq(s, n + 1, k) = SubSeq(s, 1, k)
  BY <1>1, <1>2, ConcatAdjacentSubSeq
<1> QED
  BY <1>1, <1>3, <1>4, <1>5, <1>6, SubSeqFull

LEMMA ConcatAppend ==
    ASSUME NEW S, NEW s \in Seq(S), NEW a \in Seq(S), NEW e \in S
    PROVE  s \o Append(a, e) = Append(s \o a, e)
<1>1. PICK x \in Seq(S), b \in Seq(S) : x = <<e>> /\ b = s \o a
  <2>1. <<e>> \in Seq(S)
    OBVIOUS
  <2>2. s \o a \in Seq(S)
    BY ConcatProperties
  <2> QED
    BY <2>1, <2>2
<1>2. Append(a, e) = a \o x /\ Append(b, e) = b \o x
  BY <1>1, AppendIsConcat
<1>3. (s \o a) \o x = s \o (a \o x)
  <2>1. Regrouping(s, a, x)
    BY Regroups
  <2> QED
    BY <2>1 DEF Regrouping
<1> QED
  BY <1>1, <1>2, <1>3

\* What FlattenSeq joins may itself be joined.
LEMMA FlattenConcat ==
    ASSUME NEW S, NEW ss \in Seq(Seq(S)), NEW tt \in Seq(Seq(S))
    PROVE  FlattenSeq(ss \o tt) = FlattenSeq(ss) \o FlattenSeq(tt)
<1> DEFINE Q == Seq(S)
           first(k) == SubSeq(tt, 1, k)
           T == {k \in 0..Len(tt) :
                   FlattenSeq(ss \o first(k)) = FlattenSeq(ss) \o FlattenSeq(first(k))}
<1>1. PICK n \in Nat : Len(tt) = n
  OBVIOUS
<1>2. 0 \in T
  <2>1. first(0) = << >> /\ ss \o << >> = ss
    BY SubSeqEmpty, ConcatEmptySeq
  <2>2. FlattenSeq(ss) \o << >> = FlattenSeq(ss)
    BY FlattenType, ConcatEmptySeq
  <2>3. FlattenSeq(ss \o first(0)) = FlattenSeq(ss) \o FlattenSeq(first(0))
    BY <2>1, <2>2, FlattenEmpty
  <2> QED
    BY <1>1, <2>3
<1>3. ASSUME NEW k \in 1..n, k - 1 \in T PROVE k \in T
  <2>1. tt[k] \in Q
    BY <1>1, ElementOfSeq
  <2>2. PICK a \in Seq(Q) : a = first(k - 1)
    <3>1. 1 \in 1..(Len(tt) + 1) /\ k - 1 \in (1 - 1)..Len(tt)
      BY <1>1
    <3>2. first(k - 1) \in Seq(Q)
      BY <3>1, Slice
    <3> QED
      BY <3>2
  <2>3. first(k) = Append(a, tt[k])
    <3>1. SubSeq(tt, 1, k) = SubSeq(tt, 1, k - 1) \o <<tt[k]>>
      BY <1>1, SubSeqRecursiveSecond
    <3> QED
      BY <2>1, <2>2, <3>1, AppendIsConcat
  <2>4. PICK b \in Seq(Q) : b = ss \o a
    BY <2>2, ConcatProperties
  <2>5. ss \o Append(a, tt[k]) = Append(b, tt[k])
    BY <2>1, <2>2, <2>4, ConcatAppend
  <2>6. FlattenSeq(first(k)) = FlattenSeq(a) \o tt[k]
    BY <2>1, <2>2, <2>3, FlattenAppend
  <2>7. FlattenSeq(ss \o first(k)) = FlattenSeq(b) \o tt[k]
    BY Zenon, <2>1, <2>3, <2>4, <2>5, FlattenAppend
  <2>8. FlattenSeq(b) = FlattenSeq(ss) \o FlattenSeq(a)
    BY <1>3, <2>2, <2>4
  <2>9. /\ FlattenSeq(a) \in Seq(S) /\ FlattenSeq(ss) \in Seq(S)
    BY <2>2, FlattenType
  <2>10. FlattenSeq(b) \o tt[k] = FlattenSeq(ss) \o FlattenSeq(first(k))
    <3>1. PICK x \in Seq(S), y \in Seq(S), z \in Seq(S) :
             x = FlattenSeq(ss) /\ y = FlattenSeq(a) /\ z = tt[k]
      BY <2>1, <2>9
    <3>2. (x \o y) \o z = x \o (y \o z)
      <4>1. Regrouping(x, y, z)
        BY Regroups
      <4> QED
        BY <4>1 DEF Regrouping
    <3> QED
      BY <2>6, <2>8, <3>1, <3>2
  <2> QED
    BY <1>1, <2>7, <2>10
<1>4. n \in 0..n
  OBVIOUS
<1>5. n \in T
  <2> HIDE DEF T
  <2> QED
    BY <1>2, <1>3, <1>4, Induct
<1>6. first(n) = tt
  BY <1>1, SubSeqFull
<1> QED
  BY <1>5, <1>6

-----------------------------------------------------------------------------
(* Streams of units *)

LEMMA Constants ==
    /\ HeaderSize \in Nat /\ HeaderSize >= 1
    /\ SocketBuffer \in Nat /\ RequestSize \in Nat /\ ReplySize \in Nat
    /\ MaxSize \in Nat /\ SendBufferSize \in Nat /\ ReceiveFloodSize \in Nat
    /\ Ahead \in Nat
BY QueueAssumption

LEMMA UnitsAre ==
    ASSUME NEW m \in Message
    PROVE  /\ SizeOf(m) \in Nat /\ SizeOf(m) = HeaderSize + m.size /\ m.size \in Nat
           /\ Units(m) \in Seq(Unit) /\ Len(Units(m)) = SizeOf(m)
           /\ \A i \in 1..SizeOf(m) : Units(m)[i] = [msg |-> m, pos |-> i]
<1>1. m.size \in Nat /\ SizeOf(m) = HeaderSize + m.size /\ SizeOf(m) \in Nat
  BY Constants DEF Message, SizeOf
<1>2. \A i \in 1..SizeOf(m) : [msg |-> m, pos |-> i] \in Unit
  BY <1>1 DEF Unit
<1>3. Units(m) \in [1..SizeOf(m) -> Unit]
  BY <1>2 DEF Units
<1>4. Units(m) \in Seq(Unit) /\ Len(Units(m)) = SizeOf(m)
  BY <1>1, <1>3
<1> QED
  BY <1>1, <1>4 DEF Units

Pieces(msgs) == [i \in DOMAIN msgs |-> Units(msgs[i])]

LEMMA PiecesAre ==
    ASSUME NEW msgs \in Seq(Message)
    PROVE  /\ Pieces(msgs) \in Seq(Seq(Unit)) /\ Len(Pieces(msgs)) = Len(msgs)
           /\ \A i \in 1..Len(msgs) : Pieces(msgs)[i] = Units(msgs[i])
           /\ Stream(msgs) = FlattenSeq(Pieces(msgs))
<1>1. PICK n \in Nat : Len(msgs) = n /\ DOMAIN msgs = 1..n
  OBVIOUS
<1>2. \A i \in 1..n : Units(msgs[i]) \in Seq(Unit)
  BY <1>1, ElementOfSeq, UnitsAre
<1>3. Pieces(msgs) \in [1..n -> Seq(Unit)]
  BY <1>1, <1>2 DEF Pieces
<1>4. Pieces(msgs) \in Seq(Seq(Unit)) /\ Len(Pieces(msgs)) = n
  BY <1>3
<1>5. \A i \in 1..n : Pieces(msgs)[i] = Units(msgs[i])
  BY <1>1 DEF Pieces
<1>6. Stream(msgs) = FlattenSeq(Pieces(msgs))
  BY DEF Stream, Pieces
<1> QED
  BY <1>1, <1>4, <1>5, <1>6

LEMMA StreamType ==
    ASSUME NEW msgs \in Seq(Message)
    PROVE  /\ Stream(msgs) \in Seq(Unit)
           /\ SumOfSizes(msgs) = Len(Stream(msgs)) /\ SumOfSizes(msgs) \in Nat
<1>1. Stream(msgs) \in Seq(Unit)
  BY PiecesAre, FlattenType
<1>2. Len(Stream(msgs)) \in Nat
  BY <1>1, LenProperties
<1> QED
  BY <1>1, <1>2 DEF SumOfSizes

LEMMA StreamEmpty == Stream(<< >>) = << >>
<1>1. Pieces(<< >>) = << >>
  BY DEF Pieces
<1> QED
  BY <1>1, FlattenEmpty DEF Stream, Pieces

LEMMA StreamConcat ==
    ASSUME NEW a \in Seq(Message), NEW b \in Seq(Message)
    PROVE  Stream(a \o b) = Stream(a) \o Stream(b)
<1>1. PICK x \in Seq(Message) : x = a \o b
  BY ConcatProperties
<1>2. PICK n \in Nat, k \in Nat : Len(a) = n /\ Len(b) = k /\ Len(x) = n + k
  BY <1>1, ConcatProperties
<1>3. PICK u \in Seq(Seq(Unit)), v \in Seq(Seq(Unit)), w \in Seq(Seq(Unit)) :
         u = Pieces(a) /\ v = Pieces(b) /\ w = Pieces(x)
  BY PiecesAre
<1>4. /\ Len(u) = n /\ Len(v) = k /\ Len(w) = n + k
      /\ \A i \in 1..n : u[i] = Units(a[i])
      /\ \A i \in 1..k : v[i] = Units(b[i])
      /\ \A i \in 1..(n + k) : w[i] = Units(x[i])
      /\ FlattenSeq(u) = Stream(a) /\ FlattenSeq(v) = Stream(b) /\ FlattenSeq(w) = Stream(x)
  <2>1. Len(u) = n /\ (\A i \in 1..n : u[i] = Units(a[i])) /\ FlattenSeq(u) = Stream(a)
    BY <1>2, <1>3, PiecesAre
  <2>2. Len(v) = k /\ (\A i \in 1..k : v[i] = Units(b[i])) /\ FlattenSeq(v) = Stream(b)
    BY <1>2, <1>3, PiecesAre
  <2>3. /\ Len(w) = n + k /\ (\A i \in 1..(n + k) : w[i] = Units(x[i]))
        /\ FlattenSeq(w) = Stream(x)
    BY <1>2, <1>3, PiecesAre
  <2> QED
    BY <2>1, <2>2, <2>3
<1>5. u \o v \in Seq(Seq(Unit)) /\ Len(u \o v) = n + k
  BY <1>3, <1>4, ConcatProperties
<1>6. \A i \in 1..(n + k) : w[i] = (u \o v)[i]
  <2> TAKE i \in 1..(n + k)
  <2>1. w[i] = Units(x[i])
    BY <1>4
  <2>2. (u \o v)[i] = IF i <= n THEN u[i] ELSE v[i - n]
    BY <1>4, ConcatProperties
  <2>3. x[i] = IF i <= n THEN a[i] ELSE b[i - n]
    BY <1>1, <1>2, ConcatProperties
  <2>4. CASE i <= n
    <3>1. u[i] = Units(a[i])
      BY <1>4, <2>4
    <3> QED
      BY <2>1, <2>2, <2>3, <2>4, <3>1
  <2>5. CASE ~(i <= n)
    <3>1. i - n \in 1..k
      BY <2>5
    <3>2. v[i - n] = Units(b[i - n])
      BY <1>4, <3>1
    <3> QED
      BY <2>1, <2>2, <2>3, <2>5, <3>2
  <2> QED
    BY <2>4, <2>5
<1>7. w = u \o v
  BY <1>4, <1>5, <1>6, SeqEqual
<1> QED
  BY <1>1, <1>4, <1>7, FlattenConcat

LEMMA StreamOne ==
    ASSUME NEW m \in Message
    PROVE  Stream(<<m>>) = Units(m)
<1>1. <<m>> \in Seq(Message) /\ Len(<<m>>) = 1 /\ <<m>>[1] = m
  OBVIOUS
<1>2. PICK a \in Seq(Message) : a = <<m>>
  BY <1>1
<1>3. Len(a) = 1 /\ a[1] = m
  BY <1>1, <1>2
<1>4. PICK u \in Seq(Seq(Unit)) : u = Pieces(a)
  BY PiecesAre
<1>5. Len(u) = 1 /\ u[1] = Units(m) /\ Stream(a) = FlattenSeq(u)
  <2>1. 1 \in 1..1
    OBVIOUS
  <2> QED
    BY <1>3, <1>4, <2>1, PiecesAre
<1>6. PICK g : Joined(u, 1, g)
  <2>1. 1 \in Nat \ {0}
    OBVIOUS
  <2> QED
    BY <1>5, <2>1, FlattenIs
<1> QED
  BY <1>2, <1>5, <1>6 DEF Joined

LEMMA StreamAppend ==
    ASSUME NEW a \in Seq(Message), NEW m \in Message
    PROVE  Stream(Append(a, m)) = Stream(a) \o Units(m)
<1>1. Append(a, m) = a \o <<m>> /\ <<m>> \in Seq(Message)
  BY AppendIsConcat
<1> QED
  BY <1>1, StreamConcat, StreamOne

LEMMA StreamSplit ==
    ASSUME NEW a \in Seq(Message), NEW n \in 0..Len(a)
    PROVE  Stream(a) = Stream(SubSeq(a, 1, n)) \o Stream(SubSeq(a, n + 1, Len(a)))
<1>1. PICK b \in Seq(Message), c \in Seq(Message) :
         b = SubSeq(a, 1, n) /\ c = SubSeq(a, n + 1, Len(a))
  BY SplitAt
<1>2. b \o c = a
  BY <1>1, SplitAt
<1> QED
  BY <1>1, <1>2, StreamConcat

\* The first message of a stream, and the rest of it.
LEMMA StreamFirst ==
    ASSUME NEW a \in Seq(Message), NEW k \in 1..Len(a)
    PROVE  Stream(SubSeq(a, k, Len(a))) = Units(a[k]) \o Stream(SubSeq(a, k + 1, Len(a)))
<1>1. PICK c \in Seq(Message) : c = SubSeq(a, k + 1, Len(a))
  <2>1. k \in 0..Len(a)
    BY LenProperties
  <2> QED
    BY <2>1, SplitAt
<1>2. a[k] \in Message /\ <<a[k]>> \in Seq(Message)
  BY ElementOfSeq
<1>3. SubSeq(a, k, Len(a)) = <<a[k]>> \o c
  BY <1>1, SubSeqRecursiveFirst
<1> QED
  BY <1>1, <1>2, <1>3, StreamConcat, StreamOne

-----------------------------------------------------------------------------
(* Sending *)

CNode == [vSendMsg : Seq(Message), nSendOffset : Nat, nSendSize : Nat,
          vRecvMsg : Seq(CNetMessage), wire : Seq(Unit), fDisconnect : BOOLEAN]

\* nSendSize counts the queue, and nSendOffset is within its first message.
SendRight(c) ==
    /\ c.nSendSize = SumOfSizes(c.vSendMsg)
    /\ IF c.vSendMsg = << >> THEN c.nSendOffset = 0
       ELSE c.nSendOffset < SizeOf(Head(c.vSendMsg))

Rest(s, n) == SubSeq(s, n + 1, Len(s))
OnItsWay(c) == c.wire \o Rest(Stream(c.vSendMsg), c.nSendOffset)

\* What a step of the sender leaves alone or keeps within its bounds.
Sender(c) == c \in CNode /\ SendRight(c) /\ Len(c.wire) <= SocketBuffer
SameReceiver(c, d) == d.vRecvMsg = c.vRecvMsg /\ d.fDisconnect = c.fDisconnect

\* How many messages are done when off units of the queue have been sent.
Done(msgs, off) == {i \in 0..Len(msgs) : SumOfSizes(SubSeq(msgs, 1, i)) <= off}

LEMMA MaxOfDone ==
    ASSUME NEW msgs \in Seq(Message), NEW off \in Nat
    PROVE  /\ Max(Done(msgs, off)) \in Done(msgs, off)
           /\ \A i \in Done(msgs, off) : i <= Max(Done(msgs, off))
<1> DEFINE D == Done(msgs, off)
<1>1. PICK n \in Nat : Len(msgs) = n
  BY LenProperties
<1>2. 0 \in D /\ D \subseteq 0..n
  <2>1. SubSeq(msgs, 1, 0) = << >>
    BY SubSeqEmpty
  <2>2. SumOfSizes(<< >>) = 0
    BY StreamEmpty DEF SumOfSizes
  <2>3. SumOfSizes(SubSeq(msgs, 1, 0)) <= off
    <3>1. SumOfSizes(SubSeq(msgs, 1, 0)) = 0
      BY <2>1, <2>2, Zenon
    <3>2. 0 <= off
      OBVIOUS
    <3> QED
      BY <3>1, <3>2, Zenon
  <2>4. 0 \in Done(msgs, off)
    BY <1>1, <2>3 DEF Done
  <2>5. Done(msgs, off) \subseteq 0..n
    BY <1>1 DEF Done
  <2> QED
    BY <2>4, <2>5
<1> HIDE DEF D
<1>3. \E m \in D : \A i \in D : i <= m
  <2>1. CASE D = {0}
    BY <2>1
  <2>2. CASE D # {0}
    <3>1. PICK E : E = D \ {0}
      OBVIOUS
    <3>2. E \in SUBSET (1..n) /\ E # {}
      BY <1>2, <2>2, <3>1
    <3>3. PICK m \in E : \A i \in E : i <= m
      BY <1>1, <3>2, MaxExists
    <3> QED
      BY <1>2, <3>1, <3>2, <3>3
  <2> QED
    BY <2>1, <2>2
<1>4. D \subseteq Int
  BY <1>2
<1>5. Max(D) \in D /\ \A i \in D : i <= Max(D)
  <2>1. PICK m \in D : \A i \in D : m >= i
    BY <1>3, <1>4
  <2>2. Max(D) \in D /\ \A i \in D : Max(D) >= i
    BY <2>1, Zenon DEF Max
  <2> QED
    BY <1>4, <2>2
<1> QED
  BY <1>5 DEF D

Least(a, b, m) == m \in Int /\ m <= a /\ m <= b /\ (m = a \/ m = b)
LEMMA MinOfTwo ==
    ASSUME NEW a \in Int, NEW b \in Int
    PROVE  Least(a, b, Min({a, b}))
<1>1. \E x \in {a, b} : \A y \in {a, b} : x =< y
  OBVIOUS
<1>2. PICK m : m = Min({a, b})
  OBVIOUS
<1>3. m \in {a, b} /\ \A y \in {a, b} : m =< y
  BY <1>1, <1>2, Zenon DEF Min
<1> QED
  BY <1>2, <1>3 DEF Least

\* What is left of two sequences joined, when the first is used up.
LEMMA RestOfConcat ==
    ASSUME NEW S, NEW x \in Seq(S), NEW y \in Seq(S), NEW j \in Int,
           Len(x) <= j, j <= Len(x) + Len(y)
    PROVE  Rest(x \o y, j) = Rest(y, j - Len(x))
<1>1. PICK z \in Seq(S) : z = x \o y
  BY ConcatProperties
<1>2. PICK n \in Nat, k \in Nat : Len(x) = n /\ Len(y) = k /\ Len(z) = n + k
  BY <1>1, ConcatProperties, LenProperties
<1>3. /\ j \in 0..Len(z) /\ j - n \in 0..Len(y)
  BY <1>2
<1>4. /\ Rest(z, j) \in Seq(S) /\ Len(Rest(z, j)) = n + k - j
      /\ \A i \in 1..(n + k - j) : Rest(z, j)[i] = z[j + i]
  BY <1>2, <1>3, SplitAt DEF Rest
<1>5. /\ Rest(y, j - n) \in Seq(S) /\ Len(Rest(y, j - n)) = k - (j - n)
      /\ \A i \in 1..(k - (j - n)) : Rest(y, j - n)[i] = y[j - n + i]
  BY <1>2, <1>3, SplitAt DEF Rest
<1>6. \A i \in 1..(n + k - j) : z[j + i] = y[j - n + i]
  <2> TAKE i \in 1..(n + k - j)
  <2>1. j + i \in 1..(n + k) /\ ~(j + i <= n) /\ j + i - n = j - n + i
    BY <1>2
  <2>2. z[j + i] = y[j + i - n]
    <3>1. \A l \in 1..(n + k) : z[l] = IF l <= n THEN x[l] ELSE y[l - n]
      BY <1>1, <1>2, ConcatProperties
    <3> QED
      BY <2>1, <3>1
  <2> QED
    BY <2>1, <2>2
<1>7. k - (j - n) = n + k - j
  BY <1>2
<1>8. Rest(z, j) = Rest(y, j - n)
  BY <1>4, <1>5, <1>6, <1>7, SeqEqual
<1> QED
  BY <1>1, <1>2, <1>8

\* nSendOffset is within the queue.
LEMMA OffsetWithin ==
    ASSUME NEW c \in CNode, SendRight(c)
    PROVE  /\ Stream(c.vSendMsg) \in Seq(Unit) /\ c.nSendOffset \in Nat
           /\ c.nSendOffset <= Len(Stream(c.vSendMsg))
<1>1. PICK a \in Seq(Message) : a = c.vSendMsg
  BY DEF CNode
<1>2. c.nSendOffset \in Nat
  BY DEF CNode
<1>3. Stream(a) \in Seq(Unit) /\ Len(Stream(a)) \in Nat
  BY StreamType, LenProperties
<1>4. CASE a = << >>
  BY <1>1, <1>2, <1>3, <1>4 DEF SendRight
<1>5. CASE a # << >>
  <2>1. Len(a) \in Nat \ {0} /\ Head(a) = a[1]
    BY <1>5
  <2>2. /\ 1 \in 1..Len(a) /\ 1 \in 0..Len(a) /\ a[1] \in Message
    BY <2>1, ElementOfSeq
  <2>3. PICK b \in Seq(Message) : b = SubSeq(a, 1 + 1, Len(a))
    BY <2>2, SplitAt
  <2>4. Stream(a) = Units(a[1]) \o Stream(b)
    BY <2>2, <2>3, StreamFirst, SubSeqFull
  <2>5. Len(Stream(a)) = SizeOf(a[1]) + Len(Stream(b)) /\ Len(Stream(b)) \in Nat
    BY <2>2, <2>4, UnitsAre, StreamType, ConcatProperties, LenProperties
  <2>6. c.nSendOffset < SizeOf(a[1]) /\ SizeOf(a[1]) \in Nat
    BY <1>1, <1>5, <2>1, <2>2, UnitsAre DEF SendRight
  <2> QED
    BY <1>1, <1>2, <1>3, <2>5, <2>6
<1> QED
  BY <1>4, <1>5

\* The fields of Sent: off units have been sent, with n messages done, of that size.
Off(c, k) == c.nSendOffset + k
Count(c, k) == Max(Done(c.vSendMsg, Off(c, k)))
Gone(c, k) == SumOfSizes(SubSeq(c.vSendMsg, 1, Count(c, k)))
LEMMA SentIs ==
    ASSUME NEW c \in CNode, NEW k
    PROVE  /\ Sent(c, k).wire =
                 c.wire \o SubSeq(Stream(c.vSendMsg), c.nSendOffset + 1, Off(c, k))
           /\ Sent(c, k).vSendMsg = Rest(c.vSendMsg, Count(c, k))
           /\ Sent(c, k).nSendOffset = Off(c, k) - Gone(c, k)
           /\ Sent(c, k).nSendSize = c.nSendSize - Gone(c, k)
           /\ Sent(c, k).vRecvMsg = c.vRecvMsg
           /\ Sent(c, k).fDisconnect = c.fDisconnect
           /\ Sent(c, k).wire \in Seq(Unit) /\ Sent(c, k).vSendMsg \in Seq(Message)
              /\ Sent(c, k).nSendOffset \in Nat /\ Sent(c, k).nSendSize \in Nat
              => Sent(c, k) \in CNode
<1> DEFINE w == c.wire \o SubSeq(Stream(c.vSendMsg), c.nSendOffset + 1, Off(c, k))
           v == Rest(c.vSendMsg, Count(c, k))
           o == Off(c, k) - Gone(c, k)
           z == c.nSendSize - Gone(c, k)
<1>1. Sent(c, k) = [c EXCEPT !.wire = w, !.vSendMsg = v, !.nSendOffset = o, !.nSendSize = z]
  BY DEF Sent, Done, Rest, Off, Count, Gone
<1> HIDE DEF w, v, o, z
<1>2. c \in [vSendMsg : Seq(Message), nSendOffset : Nat, nSendSize : Nat,
             vRecvMsg : Seq(CNetMessage), wire : Seq(Unit), fDisconnect : BOOLEAN]
  BY DEF CNode
<1>3. Sent(c, k) = [vSendMsg |-> v, nSendOffset |-> o, nSendSize |-> z,
                    vRecvMsg |-> c.vRecvMsg, wire |-> w, fDisconnect |-> c.fDisconnect]
  BY <1>1, <1>2
<1>4. /\ Sent(c, k).wire = w /\ Sent(c, k).vSendMsg = v /\ Sent(c, k).nSendOffset = o
      /\ Sent(c, k).nSendSize = z /\ Sent(c, k).vRecvMsg = c.vRecvMsg
      /\ Sent(c, k).fDisconnect = c.fDisconnect
  BY <1>3
<1>5. c.vRecvMsg \in Seq(CNetMessage) /\ c.fDisconnect \in BOOLEAN
  BY <1>2
<1>6. w \in Seq(Unit) /\ v \in Seq(Message) /\ o \in Nat /\ z \in Nat => Sent(c, k) \in CNode
  BY <1>3, <1>5 DEF CNode
<1> QED
  BY <1>4, <1>6, Zenon DEF w, v, o, z

\* One message more.
LEMMA SumNext ==
    ASSUME NEW a \in Seq(Message), NEW n \in 1..Len(a)
    PROVE  SumOfSizes(SubSeq(a, 1, n)) = SumOfSizes(SubSeq(a, 1, n - 1)) + SizeOf(a[n])
<1>1. 1 \in 1..Len(a) /\ n \in 1..Len(a) /\ n - 1 \in 0..Len(a) /\ a[n] \in Message
  BY ElementOfSeq
<1>2. SubSeq(a, 1, n) = SubSeq(a, 1, n - 1) \o <<a[n]>>
  BY <1>1, SubSeqRecursiveSecond
<1>3. PICK b \in Seq(Message), m \in Message : b = SubSeq(a, 1, n - 1) /\ m = a[n]
  BY <1>1, SplitAt
<1>4. SubSeq(a, 1, n) = Append(b, m)
  BY <1>2, <1>3, AppendIsConcat
<1>5. Stream(Append(b, m)) = Stream(b) \o Units(m)
  BY StreamAppend
<1>6. /\ Stream(b) \in Seq(Unit) /\ Units(m) \in Seq(Unit)
      /\ Len(Units(m)) = SizeOf(m)
  BY StreamType, UnitsAre
<1>7. Len(Stream(b) \o Units(m)) = Len(Stream(b)) + Len(Units(m))
  BY <1>6, ConcatProperties
<1> QED
  BY <1>3, <1>4, <1>5, <1>6, <1>7, Zenon DEF SumOfSizes

\* The queue when off units of it have been sent and what is done is gone.
LEMMA Cut ==
    ASSUME NEW a \in Seq(Message), NEW off \in Nat, off <= SumOfSizes(a),
           NEW n, n = Max(Done(a, off)),
           NEW size, size = SumOfSizes(SubSeq(a, 1, n))
    PROVE  /\ Rest(a, n) \in Seq(Message)
           /\ size \in Nat /\ size <= off
           /\ SumOfSizes(a) - size = SumOfSizes(Rest(a, n))
           /\ Rest(Stream(Rest(a, n)), off - size) = Rest(Stream(a), off)
           /\ IF Rest(a, n) = << >> THEN off - size = 0
              ELSE off - size < SizeOf(Head(Rest(a, n)))
<1>1. n \in Done(a, off) /\ \A i \in Done(a, off) : i <= n
  BY MaxOfDone
<1>2. n \in 0..Len(a) /\ size <= off
  BY <1>1 DEF Done
<1>3. /\ SubSeq(a, 1, n) \in Seq(Message) /\ Rest(a, n) \in Seq(Message)
      /\ Len(Rest(a, n)) = Len(a) - n
      /\ \A i \in 1..(Len(a) - n) : Rest(a, n)[i] = a[n + i]
  BY <1>2, SplitAt DEF Rest
<1>4. Stream(a) = Stream(SubSeq(a, 1, n)) \o Stream(Rest(a, n))
  BY <1>2, StreamSplit DEF Rest
<1>5. PICK x \in Seq(Unit), y \in Seq(Unit) :
         x = Stream(SubSeq(a, 1, n)) /\ y = Stream(Rest(a, n))
  BY <1>3, StreamType
<1>6. Len(x) = size /\ Len(y) = SumOfSizes(Rest(a, n)) /\ Len(x \o y) = SumOfSizes(a)
  BY <1>4, <1>5, Zenon DEF SumOfSizes
<1>7. Len(x \o y) = Len(x) + Len(y) /\ Len(x) \in Nat /\ Len(y) \in Nat
  BY ConcatProperties, LenProperties
<1>8. /\ size \in Nat /\ SumOfSizes(Rest(a, n)) \in Nat
      /\ SumOfSizes(a) = size + SumOfSizes(Rest(a, n))
  BY <1>6, <1>7, Zenon
<1>9. Rest(y, off - size) = Rest(x \o y, off)
  <2>1. off \in Int /\ Len(x) <= off /\ off <= Len(x) + Len(y)
    BY <1>2, <1>6, <1>7
  <2> QED
    BY <1>6, <2>1, RestOfConcat
<1>10. CASE n = Len(a)
  <2>1. Len(Rest(a, n)) = 0
    BY <1>3, <1>10, LenProperties
  <2>2. Rest(a, n) = << >>
    BY <1>3, <2>1, EmptySeq
  <2>3. SumOfSizes(Rest(a, n)) = 0
    BY <2>2, StreamEmpty, EmptySeq, Zenon DEF SumOfSizes
  <2>4. off - size = 0
    BY <1>2, <1>8, <2>3
  <2>5. SumOfSizes(a) - size = SumOfSizes(Rest(a, n))
    BY <1>8
  <2> QED
    BY <1>2, <1>3, <1>4, <1>5, <1>8, <1>9, <2>2, <2>4, <2>5, Zenon
<1>11. CASE n # Len(a)
  <2>1. PICK l : l = n + 1
    OBVIOUS
  <2>2. Len(a) \in Nat
    BY LenProperties
  <2>3. l \in 1..Len(a) /\ l \in 0..Len(a) /\ l - 1 = n /\ ~(l <= n) /\ 1 \in 1..(Len(a) - n)
    BY <1>2, <1>11, <2>1, <2>2
  <2>4. SumOfSizes(SubSeq(a, 1, l)) = size + SizeOf(a[l])
    BY <2>3, SumNext
  <2>5. ~(SumOfSizes(SubSeq(a, 1, l)) <= off)
    BY <1>1, <2>3, Zenon DEF Done
  <2>6. SizeOf(a[l]) \in Nat
    BY <2>3, ElementOfSeq, UnitsAre
  <2>7. off - size < SizeOf(a[l])
    BY <1>8, <2>4, <2>5, <2>6
  <2>8. Rest(a, n)[1] = a[l]
    BY <1>3, <2>1, <2>3
  <2>9. Rest(a, n) # << >> /\ Head(Rest(a, n)) = a[l]
    <3>1. PICK b \in Seq(Message) : b = Rest(a, n)
      BY <1>3
    <3>2. Len(b) \in Nat \ {0}
      BY <1>2, <1>3, <1>11, <2>2, <3>1
    <3>3. b # << >> /\ Head(b) = b[1]
      BY <3>2
    <3> QED
      BY <2>8, <3>1, <3>3, Zenon
  <2>10. SumOfSizes(a) - size = SumOfSizes(Rest(a, n))
    BY <1>8
  <2> QED
    BY <1>2, <1>3, <1>4, <1>5, <1>8, <1>9, <2>7, <2>9, <2>10, Zenon
<1> QED
  BY <1>10, <1>11

\* What follows a sequence, less what is moved to it.
MovedOver(S, w, s, o, off) ==
    /\ w \o SubSeq(s, o + 1, off) \in Seq(S)
    /\ Len(w \o SubSeq(s, o + 1, off)) = Len(w) + (off - o)
    /\ (w \o SubSeq(s, o + 1, off)) \o Rest(s, off) = w \o Rest(s, o)
LEMMA MoveOver ==
    ASSUME NEW S, NEW w \in Seq(S), NEW s \in Seq(S), NEW o \in Nat, NEW off \in Nat,
           o <= off, off <= Len(s)
    PROVE  MovedOver(S, w, s, o, off)
<1>1. Len(s) \in Nat
  BY LenProperties
<1>2. /\ o + 1 \in 1..(Len(s) + 1) /\ off \in ((o + 1) - 1)..Len(s)
      /\ Len(s) \in off..Len(s) /\ off - (o + 1) + 1 = off - o /\ off \in 0..Len(s)
  BY <1>1
<1>3. SubSeq(s, o + 1, off) \in Seq(S) /\ Len(SubSeq(s, o + 1, off)) = off - o
  BY <1>2, Slice
<1>4. Rest(s, off) \in Seq(S)
  BY <1>2, SplitAt DEF Rest
<1>5. SubSeq(s, o + 1, off) \o Rest(s, off) = Rest(s, o)
  BY <1>2, ConcatAdjacentSubSeq DEF Rest
<1>6. PICK x \in Seq(S), y \in Seq(S) : x = SubSeq(s, o + 1, off) /\ y = Rest(s, off)
  BY <1>3, <1>4
<1>7. (w \o x) \o y = w \o (x \o y)
  <2>1. Regrouping(w, x, y)
    BY Regroups
  <2> QED
    BY <2>1 DEF Regrouping
<1>8. w \o x \in Seq(S) /\ Len(w \o x) = Len(w) + Len(x)
  BY ConcatProperties
<1> QED
  BY <1>3, <1>5, <1>6, <1>7, <1>8, Zenon DEF MovedOver

\* However much the socket takes, the units on their way are the same, and what is
\* done leaves the queue and its counters.
LEMMA SentDoes ==
    ASSUME NEW c, Sender(c), NEW k \in Nat, k <= SocketBuffer - Len(c.wire),
           k <= SumOfSizes(c.vSendMsg) - c.nSendOffset, NEW d, d = Sent(c, k)
    PROVE  Sender(d) /\ SameReceiver(c, d) /\ OnItsWay(d) = OnItsWay(c)
<1>1. c \in CNode /\ SendRight(c) /\ Len(c.wire) <= SocketBuffer
  BY DEF Sender
<1> DEFINE msgs == c.vSendMsg
           off == Off(c, k)
           n == Count(c, k)
           size == Gone(c, k)
           o == c.nSendOffset
           s == Stream(c.vSendMsg)
<1>2. msgs \in Seq(Message) /\ o \in Nat /\ c.wire \in Seq(Unit)
  BY <1>1 DEF CNode
<1>3. s \in Seq(Unit) /\ SumOfSizes(msgs) = Len(s) /\ SumOfSizes(msgs) \in Nat
  BY <1>2, StreamType
<1>4. off \in Nat /\ off = o + k /\ off <= SumOfSizes(msgs)
  BY <1>2, <1>3 DEF Off
<1>5. n = Max(Done(msgs, off)) /\ size = SumOfSizes(SubSeq(msgs, 1, n))
  BY DEF Count, Gone
<1> HIDE DEF msgs, off, n, size, o, s
<1>6. /\ Rest(msgs, n) \in Seq(Message) /\ size \in Nat /\ size <= off
      /\ SumOfSizes(msgs) - size = SumOfSizes(Rest(msgs, n))
      /\ Rest(Stream(Rest(msgs, n)), off - size) = Rest(Stream(msgs), off)
      /\ IF Rest(msgs, n) = << >> THEN off - size = 0
         ELSE off - size < SizeOf(Head(Rest(msgs, n)))
  BY <1>2, <1>4, <1>5, Cut
<1>7. /\ o <= off /\ off <= Len(s) /\ off - o = k
  BY <1>2, <1>3, <1>4
<1>8. /\ c.wire \o SubSeq(s, o + 1, off) \in Seq(Unit)
      /\ Len(c.wire \o SubSeq(s, o + 1, off)) = Len(c.wire) + (off - o)
      /\ (c.wire \o SubSeq(s, o + 1, off)) \o Rest(s, off) = c.wire \o Rest(s, o)
  <2>1. MovedOver(Unit, c.wire, s, o, off)
    BY <1>2, <1>3, <1>4, <1>7, MoveOver
  <2> QED
    BY <2>1, Zenon DEF MovedOver
<1>9. /\ d.wire = c.wire \o SubSeq(s, o + 1, off)
      /\ d.vSendMsg = Rest(msgs, n)
      /\ d.nSendOffset = off - size
      /\ d.nSendSize = c.nSendSize - size
      /\ SameReceiver(c, d)
      /\ d.wire \in Seq(Unit) /\ d.vSendMsg \in Seq(Message)
         /\ d.nSendOffset \in Nat /\ d.nSendSize \in Nat => d \in CNode
  BY <1>1, SentIs, Zenon DEF msgs, off, n, size, o, s, SameReceiver
<1>10. c.nSendSize = SumOfSizes(msgs)
  BY <1>1 DEF SendRight, msgs
<1>11. d.nSendSize = SumOfSizes(d.vSendMsg)
  BY <1>6, <1>9, <1>10, Zenon
<1>12. d \in CNode
  <2>1. d.nSendSize \in Nat
    BY <1>6, <1>9, <1>11, StreamType
  <2>2. off - size \in Nat
    BY <1>4, <1>6
  <2> QED
    BY <1>6, <1>8, <1>9, <2>1, <2>2, Zenon
<1>13. SendRight(d)
  BY <1>6, <1>9, <1>11, Zenon DEF SendRight
<1>14. Len(d.wire) <= SocketBuffer
  <2>1. Len(c.wire) \in Nat
    BY <1>2, LenProperties
  <2>2. Len(d.wire) = Len(c.wire) + k
    BY <1>7, <1>8, <1>9, Zenon
  <2> QED
    BY <2>1, <2>2, Constants
<1>15. OnItsWay(d) = OnItsWay(c)
  BY <1>6, <1>8, <1>9, Zenon DEF OnItsWay, msgs, o, s
<1> QED
  BY <1>9, <1>12, <1>13, <1>14, <1>15 DEF Sender

\* SocketSendData
LEMMA SocketSendDataDoes ==
    ASSUME NEW c, Sender(c), NEW d \in SocketSendData(c)
    PROVE  Sender(d) /\ SameReceiver(c, d) /\ OnItsWay(d) = OnItsWay(c)
<1> DEFINE room == SocketBuffer - Len(c.wire)
           left == SumOfSizes(c.vSendMsg) - c.nSendOffset
<1>1. room \in Int /\ left \in Int
  <2>1. c.wire \in Seq(Unit) /\ c.vSendMsg \in Seq(Message) /\ c.nSendOffset \in Nat
    BY DEF Sender, CNode
  <2>2. Len(c.wire) \in Nat /\ SumOfSizes(c.vSendMsg) \in Nat
    BY <2>1, LenProperties, StreamType
  <2> QED
    BY <2>1, <2>2, Constants
<1>2. PICK k \in 0..Min({room, left}) : d = Sent(c, k)
  BY DEF SocketSendData
<1> HIDE DEF room, left
<1>3. Min({room, left}) \in Int /\ Min({room, left}) <= room /\ Min({room, left}) <= left
  BY <1>1, MinOfTwo DEF Least
<1>4. k \in Nat /\ k <= room /\ k <= left
  BY <1>1, <1>3
<1> QED
  BY <1>2, <1>4, SentDoes DEF room, left

\* What is left of a sequence to which another is joined.
LEMMA RestWith ==
    ASSUME NEW S, NEW x \in Seq(S), NEW y \in Seq(S), NEW j \in 0..Len(x)
    PROVE  Rest(x \o y, j) = Rest(x, j) \o y
<1>1. PICK a \in Seq(S), b \in Seq(S) : a = SubSeq(x, 1, j) /\ b = Rest(x, j)
  BY SplitAt DEF Rest
<1>2. a \o b = x /\ Len(a) = j
  BY <1>1, SplitAt DEF Rest
<1>3. (a \o b) \o y = a \o (b \o y)
  <2>1. Regrouping(a, b, y)
    BY Regroups
  <2> QED
    BY <2>1 DEF Regrouping
<1>4. PICK z \in Seq(S) : z = b \o y
  BY ConcatProperties
<1>5. Rest(a \o z, j) = Rest(z, j - Len(a))
  <2>1. j \in Int /\ Len(a) <= j /\ j <= Len(a) + Len(z)
    BY <1>2, LenProperties
  <2> QED
    BY <2>1, RestOfConcat
<1>6. Rest(z, 0) = z
  <2>1. 0 + 1 = 1
    OBVIOUS
  <2> QED
    BY <2>1, SubSeqFull, Zenon DEF Rest
<1>7. j - Len(a) = 0
  BY <1>2, LenProperties
<1> QED
  BY <1>1, <1>2, <1>3, <1>4, <1>5, <1>6, <1>7, Zenon

\* EndMessage puts m in the queue.
Queued(c, m) == [c EXCEPT !.vSendMsg = Append(@, m), !.nSendSize = @ + SizeOf(m)]

LEMMA QueuedDoes ==
    ASSUME NEW c, Sender(c), NEW m \in Message
    PROVE  /\ Sender(Queued(c, m)) /\ SameReceiver(c, Queued(c, m))
           /\ OnItsWay(Queued(c, m)) = OnItsWay(c) \o Units(m)
<1>1. c \in CNode /\ SendRight(c) /\ Len(c.wire) <= SocketBuffer
  BY DEF Sender
<1> DEFINE a == c.vSendMsg
           e == Append(c.vSendMsg, m)
           z == c.nSendSize + SizeOf(m)
           d == Queued(c, m)
<1>2. /\ c \in [vSendMsg : Seq(Message), nSendOffset : Nat, nSendSize : Nat,
                vRecvMsg : Seq(CNetMessage), wire : Seq(Unit), fDisconnect : BOOLEAN]
  BY <1>1 DEF CNode
<1>3. d = [c EXCEPT !.vSendMsg = e, !.nSendSize = z]
  BY DEF Queued
<1>4. /\ a \in Seq(Message) /\ c.nSendOffset \in Nat /\ c.nSendSize \in Nat
      /\ c.wire \in Seq(Unit) /\ c.vRecvMsg \in Seq(CNetMessage) /\ c.fDisconnect \in BOOLEAN
  BY <1>2
<1>5. e \in Seq(Message) /\ e # << >> /\ Len(e) = Len(a) + 1 /\ e[Len(a) + 1] = m
      /\ \A i \in 1..Len(a) : e[i] = a[i]
  BY <1>4, AppendProperties
<1>6. Stream(e) = Stream(a) \o Units(m)
  BY <1>4, StreamAppend
<1>7. /\ Units(m) \in Seq(Unit) /\ Len(Units(m)) = SizeOf(m) /\ SizeOf(m) \in Nat
      /\ SizeOf(m) >= 1
  BY UnitsAre, Constants
<1>8. Head(e) = IF a = << >> THEN m ELSE Head(a)
  BY <1>4, HeadTailAppend
<1> HIDE DEF a, e, z, d
<1>9. d = [vSendMsg |-> e, nSendOffset |-> c.nSendOffset, nSendSize |-> z,
           vRecvMsg |-> c.vRecvMsg, wire |-> c.wire, fDisconnect |-> c.fDisconnect]
  BY <1>2, <1>3
<1>10. /\ d.vSendMsg = e /\ d.nSendOffset = c.nSendOffset /\ d.nSendSize = z
       /\ d.vRecvMsg = c.vRecvMsg /\ d.wire = c.wire /\ d.fDisconnect = c.fDisconnect
  BY <1>9
<1>11. PICK s \in Seq(Unit), u \in Seq(Unit), o \in Nat, w \in Seq(Unit) :
          s = Stream(a) /\ u = Units(m) /\ o = c.nSendOffset /\ w = c.wire
  BY <1>4, <1>7, StreamType
<1>12. o \in 0..Len(s)
  BY <1>1, <1>11, OffsetWithin DEF a
<1>13. z \in Nat
  BY <1>4, <1>7 DEF z
<1>14. d \in CNode
  BY <1>4, <1>5, <1>9, <1>13 DEF CNode
<1>15. SendRight(d)
  <2>1. Len(s \o u) = Len(s) + Len(u) /\ Len(s) \in Nat
    BY ConcatProperties, LenProperties
  <2>2. c.nSendSize = Len(s)
    BY <1>1, <1>11 DEF SendRight, SumOfSizes, a
  <2>3. z = SumOfSizes(e)
    BY <1>6, <1>7, <1>11, <2>1, <2>2, Zenon DEF SumOfSizes, z
  <2>4. c.nSendOffset < SizeOf(Head(e))
    <3>1. CASE a = << >>
      <4>1. c.nSendOffset = 0
        BY <1>1, <3>1 DEF SendRight, a
      <4> QED
        BY <1>7, <1>8, <3>1, <4>1
    <3>2. CASE a # << >>
      <4>1. c.nSendOffset < SizeOf(Head(a))
        BY <1>1, <3>2 DEF SendRight, a
      <4> QED
        BY <1>8, <3>2, <4>1
    <3> QED
      BY <3>1, <3>2
  <2> QED
    BY <1>5, <1>10, <2>3, <2>4, Zenon DEF SendRight
<1>16. OnItsWay(d) = OnItsWay(c) \o Units(m)
  <2>1. Rest(s \o u, o) = Rest(s, o) \o u
    BY <1>12, RestWith
  <2>2. PICK r \in Seq(Unit) : r = Rest(s, o)
    BY <1>12, SplitAt DEF Rest
  <2>3. (w \o r) \o u = w \o (r \o u)
    <3>1. Regrouping(w, r, u)
      BY Regroups
    <3> QED
      BY <3>1 DEF Regrouping
  <2> QED
    BY <1>6, <1>10, <1>11, <2>1, <2>2, <2>3, Zenon DEF OnItsWay, a
<1> QED
  BY <1>1, <1>10, <1>14, <1>15, <1>16 DEF Sender, SameReceiver, d

\* EndMessage: m is on its way after all the rest, whether or not a part is sent at once.
LEMMA EndMessageDoes ==
    ASSUME NEW c, Sender(c), NEW m \in Message, NEW d \in EndMessage(c, m)
    PROVE  Sender(d) /\ SameReceiver(c, d) /\ OnItsWay(d) = OnItsWay(c) \o Units(m)
<1>1. d \in SocketSendData(Queued(c, m)) \/ d = Queued(c, m)
  BY DEF EndMessage, Queued
<1>2. CASE d = Queued(c, m)
  BY <1>2, QueuedDoes
<1>3. CASE d \in SocketSendData(Queued(c, m))
  <2>1. PICK e : e = Queued(c, m)
    OBVIOUS
  <2>2. Sender(e) /\ SameReceiver(c, e) /\ OnItsWay(e) = OnItsWay(c) \o Units(m)
    BY <2>1, QueuedDoes
  <2>3. Sender(d) /\ SameReceiver(e, d) /\ OnItsWay(d) = OnItsWay(e)
    BY <1>3, <2>1, <2>2, SocketSendDataDoes
  <2> QED
    BY <2>2, <2>3, Zenon DEF SameReceiver
<1> QED
  BY <1>1, <1>2, <1>3

-----------------------------------------------------------------------------
(* Reading one message *)

\* What of m a CNetMessage has so far, and how much room it has made.
Part(x, m) ==
    /\ x \in CNetMessage
    /\ Len(x.hdr) <= HeaderSize /\ Len(x.data) <= m.size
    /\ \A i \in 1..Len(x.hdr) : x.hdr[i] = Units(m)[i]
    /\ \A i \in 1..Len(x.data) : x.data[i] = Units(m)[HeaderSize + i]
    /\ x.in_data <=> Len(x.hdr) = HeaderSize
    /\ ~x.in_data => x.data = << >>
    /\ Len(x.data) <= x.vRecv /\ x.vRecv <= Len(x.data) + Ahead /\ x.vRecv <= m.size

Begun(x) == Len(x.hdr) >= 1
Arrived(x) == x.hdr \o x.data

\* The fields of a CNetMessage.
LEMMA FieldsAre ==
    ASSUME NEW x \in CNetMessage
    PROVE  /\ x.in_data \in BOOLEAN /\ x.hdr \in Seq(Unit) /\ x.data \in Seq(Unit)
           /\ x.vRecv \in Nat /\ Len(x.hdr) \in Nat /\ Len(x.data) \in Nat
<1>1. /\ x.in_data \in BOOLEAN /\ x.hdr \in Seq(Unit) /\ x.data \in Seq(Unit)
      /\ x.vRecv \in Nat
  BY DEF CNetMessage
<1> QED
  BY <1>1, LenProperties

\* A message begun names itself in its header.
LEMMA NamesItself ==
    ASSUME NEW m \in Message, NEW x, Part(x, m), Begun(x)
    PROVE  x.hdr[1].msg = m
<1>1. x \in CNetMessage /\ \A i \in 1..Len(x.hdr) : x.hdr[i] = Units(m)[i]
  BY DEF Part
<1>2. 1 \in 1..Len(x.hdr)
  BY <1>1, FieldsAre DEF Begun
<1>3. 1 \in 1..SizeOf(m)
  BY UnitsAre, Constants
<1>4. x.hdr[1] = [msg |-> m, pos |-> 1]
  BY <1>1, <1>2, <1>3, UnitsAre
<1> QED
  BY <1>4

LEMMA CompleteIs ==
    ASSUME NEW m \in Message, NEW x, Part(x, m)
    PROVE  complete(x) <=> x.in_data /\ Len(x.data) = m.size
<1>1. x \in CNetMessage /\ (x.in_data <=> Len(x.hdr) = HeaderSize)
  BY DEF Part
<1>2. x.in_data => Begun(x)
  BY <1>1, Constants DEF Begun
<1> QED
  BY <1>1, <1>2, NamesItself, FieldsAre DEF complete

\* What has arrived of m is the beginning of its units, and all of them at the end.
LEMMA ArrivedIs ==
    ASSUME NEW m \in Message, NEW x, Part(x, m)
    PROVE  /\ Arrived(x) \in Seq(Unit) /\ Len(Arrived(x)) = Len(x.hdr) + Len(x.data)
           /\ Len(Arrived(x)) <= SizeOf(m)
           /\ \A i \in 1..Len(Arrived(x)) : Arrived(x)[i] = Units(m)[i]
           /\ x.in_data => Len(Arrived(x)) = HeaderSize + Len(x.data)
           /\ ~x.in_data => Arrived(x) = x.hdr
           /\ complete(x) => Arrived(x) = Units(m)
<1>1. PICK h \in Seq(Unit), d \in Seq(Unit), l \in Nat, k \in Nat :
         h = x.hdr /\ d = x.data /\ l = Len(h) /\ k = Len(d)
  BY FieldsAre DEF Part
<1>2. h \o d \in Seq(Unit) /\ Len(h \o d) = l + k
      /\ \A i \in 1..(l + k) : (h \o d)[i] = IF i <= l THEN h[i] ELSE d[i - l]
  <2>1. JoinedTo(Unit, h, d)
    BY JoinsTwo
  <2> QED
    BY <1>1, <2>1, Zenon DEF JoinedTo
<1>3. /\ l <= HeaderSize /\ k <= m.size /\ (x.in_data <=> l = HeaderSize)
      /\ (~x.in_data => d = << >>)
      /\ \A i \in 1..l : h[i] = Units(m)[i]
      /\ \A i \in 1..k : d[i] = Units(m)[HeaderSize + i]
  BY <1>1 DEF Part
<1>4. SizeOf(m) = HeaderSize + m.size /\ m.size \in Nat /\ HeaderSize \in Nat
  BY UnitsAre, Constants
<1>5. l + k <= SizeOf(m)
  BY <1>3, <1>4
<1>6. ~x.in_data => k = 0 /\ h \o d = h
  BY <1>1, <1>3, ConcatEmptySeq
<1>7. \A i \in 1..(l + k) : (h \o d)[i] = Units(m)[i]
  <2> TAKE i \in 1..(l + k)
  <2>1. CASE i <= l
    BY <1>2, <1>3, <2>1
  <2>2. CASE ~(i <= l)
    <3>1. l = HeaderSize
      BY <1>3, <1>6, <2>2
    <3>2. i - l \in 1..k /\ HeaderSize + (i - l) = i
      BY <1>4, <2>2, <3>1
    <3>3. d[i - l] = Units(m)[HeaderSize + (i - l)]
      BY <1>3, <3>2
    <3> QED
      BY <1>2, <2>2, <3>2, <3>3
  <2> QED
    BY <2>1, <2>2
<1>8. complete(x) => h \o d = Units(m)
  <2> SUFFICES ASSUME complete(x) PROVE h \o d = Units(m)
    OBVIOUS
  <2>1. l + k = SizeOf(m)
    BY <1>1, <1>3, <1>4, CompleteIs
  <2>2. PICK z \in Seq(Unit), u \in Seq(Unit) : z = h \o d /\ u = Units(m)
    BY <1>2, UnitsAre
  <2>3. Len(z) = Len(u) /\ \A i \in 1..Len(z) : z[i] = u[i]
    BY <1>2, <1>7, <2>1, <2>2, UnitsAre
  <2>4. z = u
    BY <2>3, SeqEqual
  <2> QED
    BY <2>2, <2>4
<1>9. PICK z : z = h \o d
  OBVIOUS
<1>10. Arrived(x) = z
  BY <1>1, <1>9, Zenon DEF Arrived
<1>11. z \in Seq(Unit) /\ Len(z) = l + k
  BY <1>2, <1>9, Zenon
<1>12. \A i \in 1..Len(z) : z[i] = Units(m)[i]
  BY <1>7, <1>9, <1>11, Zenon
<1>13. Len(z) <= SizeOf(m) /\ (x.in_data => Len(z) = HeaderSize + k)
  BY <1>3, <1>5, <1>11
<1>14. (~x.in_data => z = h) /\ (complete(x) => z = Units(m))
  BY <1>6, <1>8, <1>9, Zenon
<1> QED
  BY <1>1, <1>10, <1>11, <1>12, <1>13, <1>14, Zenon

\* The next units of a stream are the next of the message that is being read.
Follows(u, post, a, b, r) == u \o post = a \o (b \o r)
GoOn(u, a, b) == \A i \in 1..Len(b) : Len(a) + i <= Len(u) => b[i] = u[Len(a) + i]
LEMMA NextUnits ==
    ASSUME NEW S, NEW u \in Seq(S), NEW post \in Seq(S), NEW a \in Seq(S), NEW b \in Seq(S),
           NEW r \in Seq(S), Follows(u, post, a, b, r)
    PROVE  GoOn(u, a, b)
<1> SUFFICES ASSUME NEW i \in 1..Len(b), Len(a) + i <= Len(u) PROVE b[i] = u[Len(a) + i]
  BY DEF GoOn
<1>1. PICK k \in Nat, l \in Nat, j \in Nat, n \in Nat, p \in Nat :
         k = Len(u) /\ l = Len(a) /\ j = Len(b) /\ n = Len(post) /\ p = Len(r)
  BY LenProperties
<1>2. PICK c \in Seq(S) : c = b \o r
  BY ConcatProperties
<1>3. Len(c) = j + p /\ \A q \in 1..(j + p) : c[q] = IF q <= j THEN b[q] ELSE r[q - j]
  BY <1>1, <1>2, ConcatProperties
<1>4. \A q \in 1..(l + (j + p)) : (a \o c)[q] = IF q <= l THEN a[q] ELSE c[q - l]
  BY <1>1, <1>3, ConcatProperties
<1>5. \A q \in 1..(k + n) : (u \o post)[q] = IF q <= k THEN u[q] ELSE post[q - k]
  BY <1>1, ConcatProperties
<1>6. PICK q \in Nat : q = l + i
  BY <1>1
<1>7. /\ q \in 1..(l + (j + p)) /\ ~(q <= l) /\ q - l = i /\ i \in 1..(j + p) /\ i <= j
      /\ q \in 1..(k + n) /\ q <= k
  BY <1>1, <1>6
<1>8. (a \o c)[q] = c[i] /\ c[i] = b[i]
  BY <1>3, <1>4, <1>7
<1>9. (u \o post)[q] = u[q]
  BY <1>5, <1>7
<1>10. u \o post = a \o c
  BY <1>2 DEF Follows
<1> QED
  BY <1>1, <1>6, <1>8, <1>9, <1>10

\* What a turn makes of the message x that is m: it takes k of the units b.
Took(x, m, b, k, y) ==
    /\ k \in 1..Len(b) /\ Part(y, m) /\ Begun(y)
    /\ Arrived(y) = Arrived(x) \o SubSeq(b, 1, k)

\* x waits for units of m, and b followed by r come next.
Waiting(x, m, post, b, r) ==
    /\ Part(x, m) /\ ~complete(x)
    /\ post \in Seq(Unit) /\ b \in Seq(Unit) /\ r \in Seq(Unit) /\ b # << >>
    /\ Follows(Units(m), post, Arrived(x), b, r)

\* The first k of b, as they go on from what has arrived.
Taken(m, l, k, t) ==
    t \in Seq(Unit) /\ Len(t) = k /\ \A i \in 1..k : t[i] = Units(m)[l + i]
LEMMA TakenIs ==
    ASSUME NEW m \in Message, NEW x, NEW post, NEW b, NEW r, Waiting(x, m, post, b, r),
           NEW k \in 0..Len(b), Len(Arrived(x)) + k <= SizeOf(m)
    PROVE  Taken(m, Len(Arrived(x)), k, SubSeq(b, 1, k))
<1>1. /\ Part(x, m) /\ post \in Seq(Unit) /\ b \in Seq(Unit) /\ r \in Seq(Unit)
      /\ Follows(Units(m), post, Arrived(x), b, r)
  BY DEF Waiting
<1>2. PICK u \in Seq(Unit), a \in Seq(Unit) :
         u = Units(m) /\ a = Arrived(x) /\ Len(u) = SizeOf(m)
  BY <1>1, UnitsAre, ArrivedIs
<1>3. /\ SubSeq(b, 1, k) \in Seq(Unit) /\ Len(SubSeq(b, 1, k)) = k
      /\ \A i \in 1..k : SubSeq(b, 1, k)[i] = b[i]
  BY <1>1, SplitAt
<1>4. GoOn(u, a, b)
  <2>1. Follows(u, post, a, b, r)
    BY <1>1, <1>2
  <2> QED
    BY <1>1, <2>1, NextUnits
<1>5. \A i \in 1..k : b[i] = u[Len(a) + i]
  <2> TAKE i \in 1..k
  <2>1. i \in 1..Len(b) /\ Len(a) + i <= Len(u)
    BY <1>1, <1>2, LenProperties
  <2> QED
    BY <1>4, <2>1 DEF GoOn
<1> QED
  BY <1>2, <1>3, <1>5 DEF Taken

\* readHeader
LEMMA ReadsHeader ==
    ASSUME NEW m \in Message, NEW x, NEW post, NEW b, NEW r, Waiting(x, m, post, b, r),
           ~x.in_data
    PROVE  \E k, y : /\ Took(x, m, b, k, y) /\ readHeader(x, b).msg = y
                     /\ \/ readHeader(x, b).handled = k
                        \/ readHeader(x, b).handled = -1 /\ m.size > MaxSize
<1>1. Part(x, m) /\ b \in Seq(Unit) /\ b # << >>
  BY DEF Waiting
<1>2. /\ x \in CNetMessage /\ Len(x.hdr) <= HeaderSize /\ Len(x.hdr) # HeaderSize
      /\ \A i \in 1..Len(x.hdr) : x.hdr[i] = Units(m)[i]
      /\ x.data = << >> /\ x.vRecv \in Nat /\ x.vRecv <= Len(x.data) + Ahead
      /\ x.vRecv <= m.size /\ Len(x.data) <= x.vRecv /\ Len(x.data) <= m.size
  BY <1>1, FieldsAre DEF Part
<1>3. PICK h \in Seq(Unit), l \in Nat, n \in Nat :
         h = x.hdr /\ l = Len(h) /\ n = Len(b) /\ n >= 1
  BY <1>1, <1>2, FieldsAre, EmptySeq
<1>4. HeaderSize \in Nat /\ HeaderSize >= 1 /\ l < HeaderSize
  BY <1>2, <1>3, Constants
<1>5. PICK k \in Int : k = Min({HeaderSize - Len(x.hdr), Len(b)})
                       /\ k <= HeaderSize - l /\ k <= n /\ (k = HeaderSize - l \/ k = n)
  <2>1. HeaderSize - Len(x.hdr) \in Int /\ Len(b) \in Int
    BY <1>3, <1>4
  <2>2. Least(HeaderSize - Len(x.hdr), Len(b), Min({HeaderSize - Len(x.hdr), Len(b)}))
    BY <2>1, MinOfTwo
  <2> QED
    BY <1>3, <2>2 DEF Least
<1>6. k \in 1..n /\ k \in 1..Len(b) /\ k \in 0..Len(b) /\ k \in Nat /\ l + k <= HeaderSize
  BY <1>3, <1>4, <1>5
<1>7. Arrived(x) = h /\ SizeOf(m) = HeaderSize + m.size /\ m.size \in Nat
  BY <1>1, <1>3, ArrivedIs, UnitsAre
<1>8. PICK t \in Seq(Unit) :
         t = SubSeq(b, 1, k) /\ Len(t) = k /\ \A i \in 1..k : t[i] = Units(m)[l + i]
  <2>1. Len(Arrived(x)) + k <= SizeOf(m)
    BY <1>3, <1>4, <1>6, <1>7
  <2>2. Taken(m, Len(Arrived(x)), k, SubSeq(b, 1, k))
    BY <1>6, <2>1, TakenIs
  <2> QED
    BY <1>3, <1>7, <2>2 DEF Taken
<1>9. PICK g \in Seq(Unit) : g = h \o t /\ Len(g) = l + k
                             /\ \A i \in 1..(l + k) : g[i] = IF i <= l THEN h[i] ELSE t[i - l]
  <2>1. JoinedTo(Unit, h, t)
    BY JoinsTwo
  <2>2. Len(h) = l /\ Len(t) = k
    BY <1>3, <1>8
  <2> QED
    BY <2>1, <2>2, Zenon DEF JoinedTo
<1>10. \A i \in 1..Len(g) : g[i] = Units(m)[i]
  <2> TAKE i \in 1..Len(g)
  <2>1. CASE i <= l
    BY <1>2, <1>3, <1>9, <2>1
  <2>2. CASE ~(i <= l)
    <3>1. i - l \in 1..k /\ l + (i - l) = i
      BY <1>6, <1>9, <2>2
    <3> QED
      BY <1>8, <1>9, <2>2, <3>1
  <2> QED
    BY <2>1, <2>2
<1> DEFINE q == (Len(g) = HeaderSize)
           y == [x EXCEPT !.hdr = g, !.in_data = q]
<1>11. /\ readHeader(x, b).msg = y
       /\ readHeader(x, b).handled = IF Len(g) = HeaderSize /\ ~Parses(g) THEN -1 ELSE k
  BY <1>3, <1>5, <1>8, <1>9 DEF readHeader
<1> HIDE DEF q
<1>12. x \in [in_data : BOOLEAN, hdr : Seq(Unit), data : Seq(Unit), vRecv : Nat]
  BY <1>2 DEF CNetMessage
<1>13. q \in BOOLEAN
  BY DEF q
<1>14. /\ y \in CNetMessage /\ y.hdr = g /\ y.in_data = q /\ y.data = x.data
       /\ y.vRecv = x.vRecv
  BY <1>12, <1>13 DEF CNetMessage
<1> HIDE DEF y
<1>15. Part(y, m)
  <2>1. Len(y.hdr) <= HeaderSize /\ \A i \in 1..Len(y.hdr) : y.hdr[i] = Units(m)[i]
    BY <1>6, <1>9, <1>10, <1>14
  <2>2. y.in_data <=> Len(y.hdr) = HeaderSize
    BY <1>14 DEF q
  <2>3. Len(y.data) = 0 /\ y.data = << >>
    BY <1>2, <1>14, EmptySeq
  <2>4. \A i \in 1..Len(y.data) : y.data[i] = Units(m)[HeaderSize + i]
    BY <2>3
  <2>5. /\ Len(y.data) <= m.size /\ Len(y.data) <= y.vRecv /\ y.vRecv <= Len(y.data) + Ahead
        /\ y.vRecv <= m.size
    BY <1>2, <1>14
  <2> QED
    BY <1>14, <2>1, <2>2, <2>3, <2>4, <2>5 DEF Part
<1>16. Begun(y)
  BY <1>6, <1>9, <1>14 DEF Begun
<1>17. Arrived(y) = Arrived(x) \o SubSeq(b, 1, k)
  <2>1. Arrived(y) = g
    BY <1>2, <1>9, <1>14, ConcatEmptySeq DEF Arrived
  <2> QED
    BY <1>7, <1>8, <1>9, <2>1
<1>18. Took(x, m, b, k, y)
  BY <1>6, <1>15, <1>16, <1>17 DEF Took
<1>19. Len(g) = HeaderSize /\ ~Parses(g) => m.size > MaxSize
  <2> SUFFICES ASSUME Len(g) = HeaderSize, ~(m.size > MaxSize) PROVE Parses(g)
    OBVIOUS
  <2>1. g[1].msg = m
    BY <1>14, <1>15, <1>16, NamesItself
  <2>2. PICK u \in Seq(Unit) : u = Units(m) /\ Len(u) = SizeOf(m)
    BY UnitsAre
  <2>3. HeaderSize \in 0..Len(u)
    BY <1>4, <1>7, <2>2
  <2>4. PICK e \in Seq(Unit) : e = SubSeq(u, 1, HeaderSize) /\ Len(e) = HeaderSize
                               /\ \A i \in 1..HeaderSize : e[i] = u[i]
    <3>1. PICK j \in Nat : j = HeaderSize
      BY <1>4
    <3>2. /\ SubSeq(u, 1, j) \in Seq(Unit) /\ Len(SubSeq(u, 1, j)) = j
          /\ \A i \in 1..j : SubSeq(u, 1, j)[i] = u[i]
      <4>1. j \in 0..Len(u)
        BY <2>3, <3>1
      <4> QED
        BY <4>1, SplitAt
    <3> QED
      BY <3>1, <3>2
  <2>5. g = e
    BY <1>10, <2>2, <2>4, SeqEqual
  <2>6. g = SubSeq(Units(m), 1, HeaderSize)
    BY <2>2, <2>4, <2>5
  <2>7. m \in {z.msg : z \in Range(g)}
    <3>1. g[1] \in Range(g)
      <4>1. 1 \in DOMAIN g
        BY <1>4, LenProperties
      <4> QED
        BY <4>1, Zenon DEF Range
    <3> QED
      BY <2>1, <3>1
  <2>8. g[1].msg.size <= MaxSize
    BY <1>7, <2>1, Constants
  <2> QED
    BY <2>6, <2>7, <2>8, Zenon DEF Parses
<1> QED
  BY <1>11, <1>18, <1>19

\* readData
LEMMA ReadsData ==
    ASSUME NEW m \in Message, NEW x, NEW post, NEW b, NEW r, Waiting(x, m, post, b, r),
           x.in_data
    PROVE  \E k, y : /\ Took(x, m, b, k, y) /\ readData(x, b).msg = y
                     /\ readData(x, b).handled = k
<1>1. Part(x, m) /\ ~complete(x) /\ b \in Seq(Unit) /\ b # << >>
  BY DEF Waiting
<1>2. /\ x \in CNetMessage /\ Len(x.hdr) = HeaderSize /\ x.hdr \in Seq(Unit)
      /\ \A i \in 1..Len(x.hdr) : x.hdr[i] = Units(m)[i]
      /\ \A i \in 1..Len(x.data) : x.data[i] = Units(m)[HeaderSize + i]
      /\ x.vRecv \in Nat /\ x.vRecv <= Len(x.data) + Ahead
      /\ x.vRecv <= m.size /\ Len(x.data) <= x.vRecv /\ Len(x.data) <= m.size
  BY <1>1, FieldsAre DEF Part
<1>3. PICK h \in Seq(Unit), l \in Nat, n \in Nat :
         h = x.data /\ l = Len(h) /\ n = Len(b) /\ n >= 1
  BY <1>1, <1>2, FieldsAre, EmptySeq
<1>4. HeaderSize \in Nat /\ HeaderSize >= 1 /\ Ahead \in Nat
  BY Constants
<1>5. Begun(x)
  BY <1>2, <1>4 DEF Begun
<1>6. PICK size \in Nat : size = m.size /\ size = x.hdr[1].msg.size
                          /\ SizeOf(m) = HeaderSize + size
  BY <1>1, <1>5, NamesItself, UnitsAre
<1>7. l < size
  <2>1. Len(x.data) # m.size
    BY <1>1, CompleteIs
  <2> QED
    BY <1>2, <1>3, <1>6, <2>1
<1>8. PICK k \in Int : k = Min({size - Len(x.data), Len(b)})
                       /\ k <= size - l /\ k <= n /\ (k = size - l \/ k = n)
  <2>1. size - Len(x.data) \in Int /\ Len(b) \in Int
    BY <1>3
  <2>2. Least(size - Len(x.data), Len(b), Min({size - Len(x.data), Len(b)}))
    BY <2>1, MinOfTwo
  <2> QED
    BY <1>3, <2>2 DEF Least
<1>9. k \in 1..n /\ k \in 1..Len(b) /\ k \in 0..Len(b) /\ k \in Nat /\ l + k <= size
  BY <1>3, <1>7, <1>8
<1>10. PICK a \in Seq(Unit) : a = Arrived(x) /\ a = x.hdr \o h /\ Len(a) = HeaderSize + l
  <2>1. Arrived(x) = x.hdr \o h
    BY <1>3, Zenon DEF Arrived
  <2>2. Arrived(x) \in Seq(Unit) /\ Len(Arrived(x)) = Len(x.hdr) + Len(x.data)
    BY <1>1, ArrivedIs, Zenon
  <2> QED
    BY <1>2, <1>3, <2>1, <2>2, Zenon
<1>11. PICK t \in Seq(Unit) :
          t = SubSeq(b, 1, k) /\ Len(t) = k
          /\ \A i \in 1..k : t[i] = Units(m)[HeaderSize + l + i]
  <2>1. Len(Arrived(x)) + k <= SizeOf(m)
    <3>1. Len(Arrived(x)) = HeaderSize + l
      BY <1>10, Zenon
    <3>2. (HeaderSize + l) + k <= HeaderSize + size
      BY <1>4, <1>9
    <3> QED
      BY <1>6, <3>1, <3>2, Zenon
  <2>2. Taken(m, Len(Arrived(x)), k, SubSeq(b, 1, k))
    BY <1>9, <2>1, TakenIs
  <2> QED
    BY <1>10, <2>2 DEF Taken
<1>12. PICK g \in Seq(Unit) : g = h \o t /\ Len(g) = l + k
                              /\ \A i \in 1..(l + k) : g[i] = IF i <= l THEN h[i] ELSE t[i - l]
  <2>1. JoinedTo(Unit, h, t)
    BY JoinsTwo
  <2>2. Len(h) = l /\ Len(t) = k
    BY <1>3, <1>11
  <2> QED
    BY <2>1, <2>2, Zenon DEF JoinedTo
<1>13. \A i \in 1..Len(g) : g[i] = Units(m)[HeaderSize + i]
  <2> TAKE i \in 1..Len(g)
  <2>1. CASE i <= l
    BY <1>2, <1>3, <1>12, <2>1
  <2>2. CASE ~(i <= l)
    <3>1. i - l \in 1..k /\ HeaderSize + l + (i - l) = HeaderSize + i
      BY <1>4, <1>9, <1>12, <2>2
    <3> QED
      BY <1>11, <1>12, <2>2, <3>1
  <2> QED
    BY <2>1, <2>2
<1>14. PICK e \in Nat : e = l + k
  BY <1>9
<1>15. PICK room \in Nat :
          /\ room = IF x.vRecv < e THEN Min({size, e + Ahead}) ELSE x.vRecv
          /\ e <= room /\ room <= e + Ahead /\ room <= size
  <2>1. size \in Int /\ e + Ahead \in Int
    BY <1>4
  <2>2. Least(size, e + Ahead, Min({size, e + Ahead}))
    BY <2>1, MinOfTwo
  <2>3. PICK q : q = Min({size, e + Ahead})
    OBVIOUS
  <2>4. q \in Int /\ q <= size /\ q <= e + Ahead /\ (q = size \/ q = e + Ahead)
    BY <2>2, <2>3 DEF Least
  <2>5. CASE x.vRecv < e
    <3>1. q \in Nat /\ e <= q /\ q <= e + Ahead /\ q <= size
      BY <1>4, <1>9, <1>14, <2>4
    <3> QED
      BY <2>3, <2>5, <3>1
  <2>6. CASE ~(x.vRecv < e)
    <3>1. x.vRecv \in Nat /\ x.vRecv <= l + Ahead /\ x.vRecv <= size
      BY <1>2, <1>3, <1>6, Zenon
    <3>2. e <= x.vRecv /\ x.vRecv <= e + Ahead
      BY <1>4, <1>9, <1>14, <2>6, <3>1
    <3> QED
      BY <2>6, <3>1, <3>2
  <2> QED
    BY <2>5, <2>6
<1> DEFINE y == [x EXCEPT !.data = g, !.vRecv = room]
<1>16. /\ readData(x, b).msg = y /\ readData(x, b).handled = k
  <2>1. /\ Min({x.hdr[1].msg.size - Len(x.data), Len(b)}) = k /\ Len(x.data) + k = e
        /\ x.data \o SubSeq(b, 1, k) = g
    <3>1. Min({x.hdr[1].msg.size - Len(x.data), Len(b)}) = k
      BY <1>6, <1>8, Zenon
    <3>2. Len(x.data) + k = e
      BY <1>3, <1>14, Zenon
    <3>3. x.data \o SubSeq(b, 1, k) = g
      BY <1>3, <1>11, <1>12, Zenon
    <3> QED
      BY <3>1, <3>2, <3>3
  <2>2. room = IF x.vRecv < e THEN Min({x.hdr[1].msg.size, e + Ahead}) ELSE x.vRecv
    BY <1>6, <1>15
  <2> QED
    BY <2>1, <2>2 DEF readData
<1>17. x \in [in_data : BOOLEAN, hdr : Seq(Unit), data : Seq(Unit), vRecv : Nat]
  BY <1>2 DEF CNetMessage
<1>18. /\ y \in CNetMessage /\ y.hdr = x.hdr /\ y.in_data = x.in_data /\ y.data = g
       /\ y.vRecv = room
  BY <1>17 DEF CNetMessage
<1> HIDE DEF y
<1>19. Part(y, m)
  <2>1. Len(y.hdr) <= HeaderSize /\ \A i \in 1..Len(y.hdr) : y.hdr[i] = Units(m)[i]
    BY <1>2, <1>4, <1>18
  <2>2. y.in_data /\ Len(y.hdr) = HeaderSize
    BY <1>2, <1>18
  <2>3. Len(y.data) = e /\ \A i \in 1..Len(y.data) : y.data[i] = Units(m)[HeaderSize + i]
    BY <1>12, <1>13, <1>14, <1>18
  <2>4. /\ Len(y.data) <= m.size /\ Len(y.data) <= y.vRecv /\ y.vRecv <= Len(y.data) + Ahead
        /\ y.vRecv <= m.size
    BY <1>6, <1>9, <1>14, <1>15, <1>18, <2>3
  <2> QED
    BY <1>18, <2>1, <2>2, <2>3, <2>4 DEF Part
<1>20. Begun(y)
  BY <1>5, <1>18 DEF Begun
<1>21. Arrived(y) = Arrived(x) \o SubSeq(b, 1, k)
  <2>1. PICK z \in Seq(Unit) : z = x.hdr
    BY <1>2
  <2>2. (z \o h) \o t = z \o (h \o t)
    <3>1. Regrouping(z, h, t)
      BY Regroups
    <3> QED
      BY <3>1 DEF Regrouping
  <2> QED
    BY <1>10, <1>11, <1>12, <1>18, <2>1, <2>2, Zenon DEF Arrived
<1>22. Took(x, m, b, k, y)
  BY <1>9, <1>19, <1>20, <1>21 DEF Took
<1> QED
  BY <1>16, <1>22

-----------------------------------------------------------------------------
(* Reading a stream *)

\* v holds the beginning of the stream of todo, and rest is what is to come of it.
Framed(v, todo, rest) ==
    /\ v \in Seq(CNetMessage) /\ rest \in Seq(Unit) /\ Len(v) <= Len(todo)
    /\ \A i \in 1..Len(v) : Part(v[i], todo[i]) /\ Begun(v[i])
    /\ \A i \in 1..Len(v) : i < Len(v) => complete(v[i])
    /\ IF v = << >> THEN Stream(todo) = rest
       ELSE Stream(Rest(todo, Len(v) - 1)) = Arrived(v[Len(v)]) \o rest

\* The same of a v whose last message, the k-th, waits for more.
Open(v, k, todo, rest) ==
    /\ v \in Seq(CNetMessage) /\ k = Len(v) /\ k \in 1..Len(todo)
    /\ \A i \in 1..(k - 1) : Part(v[i], todo[i]) /\ Begun(v[i]) /\ complete(v[i])
    /\ Part(v[k], todo[k]) /\ ~complete(v[k])
    /\ Stream(Rest(todo, k - 1)) = Arrived(v[k]) \o rest

LEMMA NewMessageIs ==
    ASSUME NEW m \in Message
    PROVE  /\ NewMessage \in CNetMessage /\ Part(NewMessage, m)
           /\ ~complete(NewMessage) /\ Arrived(NewMessage) = << >>
<1>1. << >> \in Seq(Unit) /\ Len(<< >>) = 0
  BY EmptySeq
<1>2. NewMessage \in CNetMessage
  BY <1>1 DEF NewMessage, CNetMessage
<1>3. /\ NewMessage.hdr = << >> /\ NewMessage.data = << >> /\ NewMessage.in_data = FALSE
      /\ NewMessage.vRecv = 0
  BY DEF NewMessage
<1>4. Part(NewMessage, m)
  <2>1. m.size \in Nat
    BY UnitsAre
  <2>2. Len(NewMessage.hdr) = 0 /\ Len(NewMessage.data) = 0
    BY <1>1, <1>3
  <2> QED
    BY <1>2, <1>3, <2>1, <2>2, Constants DEF Part
<1>5. Arrived(NewMessage) = << >>
  BY <1>1, <1>3, ConcatEmptySeq DEF Arrived
<1>6. ~complete(NewMessage)
  BY <1>3 DEF complete
<1> QED
  BY <1>2, <1>4, <1>5, <1>6

\* The message that more units go to.
Opened(v) == IF v = << >> \/ complete(Last(v)) THEN Append(v, NewMessage) ELSE v

LEMMA OpenNew ==
    ASSUME NEW todo \in Seq(Message), NEW v \in Seq(CNetMessage), NEW rest \in Seq(Unit),
           rest # << >>, Len(v) <= Len(todo),
           \A i \in 1..Len(v) : Part(v[i], todo[i]) /\ Begun(v[i]) /\ complete(v[i]),
           Stream(Rest(todo, Len(v))) = rest
    PROVE  Open(Append(v, NewMessage), Len(v) + 1, todo, rest)
<1>1. PICK n \in Nat, l \in Nat : n = Len(v) /\ l = Len(todo) /\ n <= l /\ n - n = 0
  BY LenProperties
<1>2. n < l
  <2> SUFFICES ASSUME n = l PROVE FALSE
    BY <1>1
  <2>1. Rest(todo, n) \in Seq(Message) /\ Len(Rest(todo, n)) = 0
    <3>1. n \in 0..Len(todo)
      BY <1>1
    <3>2. /\ SubSeq(todo, n + 1, Len(todo)) \in Seq(Message)
          /\ Len(SubSeq(todo, n + 1, Len(todo))) = Len(todo) - n
      BY <3>1, SplitAt
    <3>3. Len(todo) - n = 0
      BY <1>1, Zenon
    <3> QED
      BY <3>2, <3>3, Zenon DEF Rest
  <2>2. Rest(todo, n) = << >>
    BY <2>1, EmptySeq
  <2> QED
    BY <1>1, <2>2, StreamEmpty
<1>3. PICK k \in 1..l : k = n + 1
  BY <1>1, <1>2
<1>4. k - 1 = n /\ k = Len(v) + 1 /\ k \in 1..Len(todo)
  BY <1>1, <1>3
<1>5. PICK m \in Message : m = todo[k]
  BY <1>4, ElementOfSeq
<1>6. NewMessage \in CNetMessage
  BY NewMessageIs
<1>7. PICK w \in Seq(CNetMessage) :
         w = Append(v, NewMessage) /\ Len(w) = k /\ w[k] = NewMessage
         /\ \A i \in 1..n : w[i] = v[i]
  <2>1. /\ Append(v, NewMessage) \in Seq(CNetMessage)
        /\ Len(Append(v, NewMessage)) = Len(v) + 1
        /\ Append(v, NewMessage)[Len(v) + 1] = NewMessage
        /\ \A i \in 1..Len(v) : Append(v, NewMessage)[i] = v[i]
    BY <1>6, AppendProperties
  <2> QED
    BY <1>1, <1>4, <2>1
<1>8. Part(w[k], todo[k]) /\ ~complete(w[k]) /\ Arrived(w[k]) = << >>
  BY <1>5, <1>7, NewMessageIs
<1>9. \A i \in 1..(k - 1) : Part(w[i], todo[i]) /\ Begun(w[i]) /\ complete(w[i])
  BY <1>1, <1>4, <1>7
<1>10. Stream(Rest(todo, k - 1)) = Arrived(w[k]) \o rest
  <2>1. << >> \o rest = rest
    BY ConcatEmptySeq
  <2> QED
    BY <1>1, <1>4, <1>8, <2>1, Zenon
<1> QED
  BY <1>4, <1>7, <1>8, <1>9, <1>10, Zenon DEF Open

\* When the last message is complete, what is to come is the stream of the others.
LEMMA OthersToCome ==
    ASSUME NEW todo \in Seq(Message), NEW k \in 1..Len(todo), NEW rest \in Seq(Unit),
           Stream(Rest(todo, k - 1)) = Units(todo[k]) \o rest
    PROVE  Stream(Rest(todo, k)) = rest
<1>1. PICK b \in Seq(Message) : b = Rest(todo, k)
  <2>1. k \in 0..Len(todo)
    BY LenProperties
  <2> QED
    BY <2>1, SplitAt DEF Rest
<1>2. todo[k] \in Message
  BY ElementOfSeq
<1>3. PICK u \in Seq(Unit), y \in Seq(Unit) : u = Units(todo[k]) /\ y = Stream(b)
  BY <1>2, UnitsAre, StreamType
<1>4. (k - 1) + 1 = k
  OBVIOUS
<1>5. Stream(SubSeq(todo, k, Len(todo))) = u \o y
  BY <1>1, <1>3, StreamFirst DEF Rest
<1>6. u \o y = u \o rest
  BY <1>3, <1>4, <1>5 DEF Rest
<1>7. y = rest
  <2>1. \A s, t, v \in Seq(Unit) : s \o t = s \o v => t = v
    BY ConcatSimplifications
  <2> QED
    BY <1>6, <2>1
<1> QED
  BY <1>1, <1>3, <1>7

LEMMA OpenDoes ==
    ASSUME NEW todo \in Seq(Message), NEW v, NEW rest, Framed(v, todo, rest), rest # << >>
    PROVE  Open(Opened(v), Len(Opened(v)), todo, rest)
<1>1. /\ v \in Seq(CNetMessage) /\ rest \in Seq(Unit) /\ Len(v) <= Len(todo)
      /\ \A i \in 1..Len(v) : Part(v[i], todo[i]) /\ Begun(v[i])
      /\ \A i \in 1..Len(v) : i < Len(v) => complete(v[i])
      /\ IF v = << >> THEN Stream(todo) = rest
         ELSE Stream(Rest(todo, Len(v) - 1)) = Arrived(v[Len(v)]) \o rest
  BY DEF Framed
<1>2. NewMessage \in CNetMessage
  BY EmptySeq DEF NewMessage, CNetMessage
<1>3. Len(Append(v, NewMessage)) = Len(v) + 1
  BY <1>1, <1>2, AppendProperties
<1>4. CASE v = << >>
  <2>1. Len(v) = 0 /\ Rest(todo, 0) = todo
    BY <1>4, SubSeqFull DEF Rest
  <2>2. Stream(Rest(todo, Len(v))) = rest
    BY <1>1, <1>4, <2>1
  <2>3. \A i \in 1..Len(v) : Part(v[i], todo[i]) /\ Begun(v[i]) /\ complete(v[i])
    BY <2>1
  <2>4. Open(Append(v, NewMessage), Len(v) + 1, todo, rest)
    BY <1>1, <2>2, <2>3, OpenNew
  <2> QED
    BY <1>3, <1>4, <2>4, Zenon DEF Opened
<1>5. CASE v # << >>
  <2>1. PICK n \in Nat : n = Len(v) /\ n >= 1 /\ n \in 1..Len(todo) /\ n \in 1..Len(v)
    BY <1>1, <1>5, EmptySeq, LenProperties
  <2>2. Last(v) = v[n]
    BY <2>1 DEF Last
  <2>3. todo[n] \in Message /\ Part(v[n], todo[n]) /\ Begun(v[n])
    BY <1>1, <2>1, ElementOfSeq
  <2>4. Stream(Rest(todo, n - 1)) = Arrived(v[n]) \o rest
    BY <1>1, <1>5, <2>1
  <2>5. CASE complete(v[n])
    <3>1. Arrived(v[n]) = Units(todo[n])
      BY <2>3, <2>5, ArrivedIs
    <3>2. Stream(Rest(todo, n - 1)) = Units(todo[n]) \o rest
      BY <2>4, <3>1
    <3>3. Stream(Rest(todo, n)) = rest
      BY <1>1, <2>1, <3>2, OthersToCome
    <3>4. \A i \in 1..Len(v) : Part(v[i], todo[i]) /\ Begun(v[i]) /\ complete(v[i])
      <4> TAKE i \in 1..Len(v)
      <4>1. i < Len(v) \/ i = n
        BY <2>1
      <4> QED
        BY <1>1, <2>5, <4>1
    <3>5. Open(Append(v, NewMessage), Len(v) + 1, todo, rest)
      BY <1>1, <2>1, <3>3, <3>4, OpenNew
    <3> QED
      BY <1>3, <2>2, <2>5, <3>5, Zenon DEF Opened
  <2>6. CASE ~complete(v[n])
    <3>1. Opened(v) = v
      BY <1>5, <2>2, <2>6 DEF Opened
    <3>2. \A i \in 1..(n - 1) : Part(v[i], todo[i]) /\ Begun(v[i]) /\ complete(v[i])
      <4> TAKE i \in 1..(n - 1)
      <4>1. i \in 1..Len(v) /\ i < Len(v)
        BY <2>1
      <4> QED
        BY <1>1, <4>1
    <3>3. Open(v, n, todo, rest)
      BY <1>1, <2>1, <2>3, <2>4, <2>6, <3>2, Zenon DEF Open
    <3> QED
      BY <2>1, <3>1, <3>3
  <2> QED
    BY <2>5, <2>6
<1> QED
  BY <1>4, <1>5

Regrouped(a, f, g, r) == a \o ((f \o g) \o r) = (a \o f) \o (g \o r)
LEMMA Regroup ==
    ASSUME NEW S, NEW a \in Seq(S), NEW f \in Seq(S), NEW g \in Seq(S), NEW r \in Seq(S)
    PROVE  Regrouped(a, f, g, r)
<1>1. (f \o g) \o r = f \o (g \o r)
  <2>1. Regrouping(f, g, r)
    BY Regroups
  <2> QED
    BY <2>1 DEF Regrouping
<1>2. PICK h \in Seq(S) : h = g \o r
  BY ConcatProperties
<1>3. (a \o f) \o h = a \o (f \o h)
  <2>1. Regrouping(a, f, h)
    BY Regroups
  <2> QED
    BY <2>1 DEF Regrouping
<1> QED
  BY <1>1, <1>2, <1>3, Zenon DEF Regrouped

\* k units more for the message that waits.
LEMMA Fills ==
    ASSUME NEW todo \in Seq(Message), NEW w, NEW n, NEW b \in Seq(Unit), NEW r \in Seq(Unit),
           Open(w, n, todo, b \o r), NEW k, NEW y, Took(w[n], todo[n], b, k, y)
    PROVE  Framed([w EXCEPT ![n] = y], todo, Rest(b, k) \o r)
<1>1. /\ w \in Seq(CNetMessage) /\ n = Len(w) /\ n \in 1..Len(todo)
      /\ \A i \in 1..(n - 1) : Part(w[i], todo[i]) /\ Begun(w[i]) /\ complete(w[i])
      /\ Part(w[n], todo[n])
      /\ Stream(Rest(todo, n - 1)) = Arrived(w[n]) \o (b \o r)
  BY DEF Open
<1>2. /\ k \in 1..Len(b) /\ Part(y, todo[n]) /\ Begun(y)
      /\ Arrived(y) = Arrived(w[n]) \o SubSeq(b, 1, k)
  BY DEF Took
<1>3. n \in Nat /\ n >= 1 /\ n \in 1..Len(w) /\ y \in CNetMessage /\ todo[n] \in Message
  BY <1>1, <1>2, LenProperties, ElementOfSeq DEF Part
<1>4. PICK v : v = [w EXCEPT ![n] = y]
  OBVIOUS
<1>5. v \in Seq(CNetMessage) /\ Len(v) = n /\ v[n] = y /\ \A i \in 1..(n - 1) : v[i] = w[i]
  <2>1. /\ Len([w EXCEPT ![n] = y]) = Len(w)
        /\ \A j \in 1..Len(w) : [w EXCEPT ![n] = y][j] = IF j = n THEN y ELSE w[j]
        /\ [w EXCEPT ![n] = y] \in Seq(CNetMessage)
    BY <1>1, <1>3, ExceptSeq
  <2> QED
    BY <1>1, <1>3, <1>4, <2>1
<1>6. \A i \in 1..n : Part(v[i], todo[i]) /\ Begun(v[i]) /\ (i < n => complete(v[i]))
  <2> TAKE i \in 1..n
  <2>1. CASE i = n
    BY <1>2, <1>5, <2>1
  <2>2. CASE i # n
    <3>1. i \in 1..(n - 1)
      BY <1>3, <2>2
    <3> QED
      BY <1>1, <1>5, <3>1
  <2> QED
    BY <2>1, <2>2
<1>7. v # << >>
  BY <1>3, <1>5, EmptySeq
<1>8. PICK f \in Seq(Unit), g \in Seq(Unit), a \in Seq(Unit) :
         f = SubSeq(b, 1, k) /\ g = Rest(b, k) /\ a = Arrived(w[n]) /\ f \o g = b
  <2>1. k \in 0..Len(b)
    BY <1>2, LenProperties
  <2>2. /\ SubSeq(b, 1, k) \in Seq(Unit) /\ Rest(b, k) \in Seq(Unit)
        /\ SubSeq(b, 1, k) \o Rest(b, k) = b
    BY <2>1, SplitAt DEF Rest
  <2>3. Arrived(w[n]) \in Seq(Unit)
    BY <1>1, <1>3, ArrivedIs
  <2> QED
    BY <2>2, <2>3
<1>9. Regrouped(a, f, g, r)
  BY Regroup
<1>10. Stream(Rest(todo, n - 1)) = Arrived(v[n]) \o (g \o r)
  BY <1>1, <1>2, <1>5, <1>8, <1>9, Zenon DEF Regrouped
<1>11. g \o r \in Seq(Unit)
  BY ConcatProperties
<1>12. n <= Len(todo)
  BY <1>1, LenProperties
<1> QED
  BY <1>4, <1>5, <1>6, <1>7, <1>8, <1>10, <1>11, <1>12, Zenon DEF Framed

\* One turn of ReceiveMsgBytes: v has framed the stream as far as b, and after the
\* turn further, unless a message is larger than any may be.
TooLarge(todo) == \E i \in 1..Len(todo) : todo[i].size > MaxSize
Reading(s, todo, r, n) ==
    IF s.ok THEN /\ s.bytes \in Seq(Unit) /\ Len(s.bytes) <= n
                 /\ Framed(s.vRecvMsg, todo, s.bytes \o r)
    ELSE TooLarge(todo)

\* The step of the message that waits.
Read(x, b) == IF x.in_data THEN readData(x, b) ELSE readHeader(x, b)
LEMMA Reads ==
    ASSUME NEW m \in Message, NEW x, NEW post, NEW b, NEW r, Waiting(x, m, post, b, r)
    PROVE  \E k, y : /\ Took(x, m, b, k, y) /\ Read(x, b).msg = y
                     /\ \/ Read(x, b).handled = k
                        \/ Read(x, b).handled = -1 /\ m.size > MaxSize
<1>1. CASE x.in_data
  BY <1>1, ReadsData DEF Read
<1>2. CASE ~x.in_data
  BY <1>2, ReadsHeader DEF Read
<1> QED
  BY <1>1, <1>2

LEMMA WaitsForMore ==
    ASSUME NEW todo \in Seq(Message), NEW w, NEW k, NEW b \in Seq(Unit), NEW r \in Seq(Unit),
           b # << >>, Open(w, k, todo, b \o r)
    PROVE  Waiting(w[k], todo[k], Stream(Rest(todo, k)), b, r)
<1>1. /\ k \in 1..Len(todo) /\ Part(w[k], todo[k]) /\ ~complete(w[k])
      /\ Stream(Rest(todo, k - 1)) = Arrived(w[k]) \o (b \o r)
  BY DEF Open
<1>2. Stream(Rest(todo, k)) \in Seq(Unit)
  <2>1. k \in 0..Len(todo)
    BY <1>1, LenProperties
  <2>2. Rest(todo, k) \in Seq(Message)
    BY <2>1, SplitAt DEF Rest
  <2> QED
    BY <2>2, StreamType
<1>3. (k - 1) + 1 = k
  BY <1>1
<1>4. Stream(SubSeq(todo, k, Len(todo))) = Units(todo[k]) \o Stream(SubSeq(todo, k + 1, Len(todo)))
  BY <1>1, StreamFirst
<1>5. Units(todo[k]) \o Stream(Rest(todo, k)) = Arrived(w[k]) \o (b \o r)
  BY <1>1, <1>3, <1>4, Zenon DEF Rest
<1> QED
  BY <1>1, <1>2, <1>5, Zenon DEF Waiting, Follows

LEMMA AbsorbDoes ==
    ASSUME NEW todo \in Seq(Message), NEW s, NEW r \in Seq(Unit), NEW n \in Nat, n >= 1,
           Reading(s, todo, r, n)
    PROVE  Reading(Absorb(s), todo, r, n - 1)
<1>1. CASE ~s.ok
  BY <1>1 DEF Absorb, Reading
<1>2. CASE s.ok /\ s.bytes = << >>
  <2>1. Absorb(s) = s
    BY <1>2 DEF Absorb
  <2>2. Len(s.bytes) <= n - 1
    BY <1>2, EmptySeq
  <2> QED
    BY <1>2, <2>1, <2>2 DEF Reading
<1>3. CASE s.ok /\ s.bytes # << >>
  <2>1. PICK b \in Seq(Unit) : b = s.bytes /\ b # << >> /\ Len(b) <= n
                               /\ Framed(s.vRecvMsg, todo, b \o r)
    BY <1>3 DEF Reading
  <2>2. b \o r # << >>
    BY <2>1, ConcatEqualIffEmpty
  <2>3. PICK w, k : w = Opened(s.vRecvMsg) /\ k = Len(w) /\ Open(w, k, todo, b \o r)
    BY <2>1, <2>2, OpenDoes
  <2>4. /\ Waiting(w[k], todo[k], Stream(Rest(todo, k)), b, r) /\ k \in 1..Len(todo)
        /\ todo[k] \in Message
    BY <2>1, <2>3, WaitsForMore, ElementOfSeq DEF Open
  <2>5. PICK h, y : /\ Took(w[k], todo[k], b, h, y) /\ Read(w[k], b).msg = y
                    /\ \/ Read(w[k], b).handled = h
                       \/ Read(w[k], b).handled = -1 /\ todo[k].size > MaxSize
    BY <2>4, Reads
  <2>6. PICK q : q = Read(w[k], b)
    OBVIOUS
  <2>7. Absorb(s) = [vRecvMsg |-> [w EXCEPT ![k] = q.msg],
                     bytes |-> IF q.handled < 0 THEN << >> ELSE Rest(b, q.handled),
                     ok |-> q.handled >= 0]
    <3>1. Last(w) = w[k]
      BY <2>3 DEF Last
    <3>2. ~(s.bytes = << >> \/ ~s.ok)
      BY <1>3
    <3> QED
      BY <2>1, <2>3, <2>6, <3>1, <3>2, Zenon DEF Absorb, Read, Opened, Rest
  <2>8. h \in 1..Len(b)
    BY <2>5 DEF Took
  <2>9. CASE q.handled = h
    <3>1. ~(h < 0) /\ h >= 0 /\ h \in 0..Len(b) /\ Len(b) - h <= n - 1
      BY <2>1, <2>8, LenProperties
    <3>2. Framed([w EXCEPT ![k] = y], todo, Rest(b, h) \o r)
      BY <2>1, <2>3, <2>5, Fills
    <3>3. PICK v, d : v = [w EXCEPT ![k] = y] /\ d = Rest(b, h)
      OBVIOUS
    <3>4. d \in Seq(Unit) /\ Len(d) = Len(b) - h
      BY <3>1, <3>3, SplitAt DEF Rest
    <3>5. Absorb(s) = [vRecvMsg |-> v, bytes |-> d, ok |-> TRUE]
      BY <2>5, <2>6, <2>7, <2>9, <3>1, <3>3
    <3>6. /\ Absorb(s).vRecvMsg = v /\ Absorb(s).bytes = d /\ Absorb(s).ok = TRUE
      BY <3>5
    <3> QED
      BY <3>1, <3>2, <3>3, <3>4, <3>6 DEF Reading
  <2>10. CASE q.handled = -1 /\ todo[k].size > MaxSize
    <3>1. (q.handled >= 0) = FALSE
      BY <2>10
    <3>2. PICK v, d : Absorb(s) = [vRecvMsg |-> v, bytes |-> d, ok |-> FALSE]
      BY <2>7, <3>1, Zenon
    <3>3. Absorb(s).ok = FALSE
      BY <3>2
    <3> QED
      BY <2>4, <2>10, <3>3 DEF Reading, TooLarge
  <2> QED
    BY <2>5, <2>6, <2>9, <2>10
<1> QED
  BY <1>1, <1>2, <1>3

-----------------------------------------------------------------------------
(* Loops *)

\* The i-th turn of ReceiveMsgBytes, and of GetTotalRecvSize over v.
Turn(loop, v, s, i) ==
    IF loop = "absorb" THEN Absorb(s) ELSE s + v[i].vRecv + HeaderSize

\* g[i] is what n turns that begin with z have after the first i.
Loop(loop, v, z, n, g) ==
    g = [i \in 0..n |-> IF i = 0 THEN z ELSE Turn(loop, v, g[i - 1], i)]

LEMMA LoopExists ==
    ASSUME NEW loop, NEW v, NEW z, NEW n \in Nat
    PROVE  \E g : Loop(loop, v, z, n, g)
<1> DEFINE S == {k \in Nat : \E g : Loop(loop, v, z, k, g)}
<1>1. 0 \in S
  <2> DEFINE g == [i \in 0..0 |-> z]
  <2>1. g = [i \in 0..0 |-> IF i = 0 THEN z ELSE Turn(loop, v, g[i - 1], i)]
    OBVIOUS
  <2>2. Loop(loop, v, z, 0, g)
    BY <2>1 DEF Loop
  <2> QED
    BY <2>2
<1>2. ASSUME NEW m \in 1..n, m - 1 \in S PROVE m \in S
  <2>1. PICK g : Loop(loop, v, z, m - 1, g)
    BY <1>2
  <2> DEFINE F(f, i) == Turn(loop, v, f, i)
             h == [i \in 0..m |-> IF i < m THEN g[i] ELSE F(g[m - 1], m)]
  <2> HIDE DEF F
  <2>2. g = [i \in 0..(m - 1) |-> IF i = 0 THEN z ELSE F(g[i - 1], i)]
    BY <2>1 DEF Loop, F
  <2>3. h = [i \in 0..m |-> IF i = 0 THEN z ELSE F(h[i - 1], i)]
    <3>1. \A i \in 0..m : h[i] = IF i = 0 THEN z ELSE F(h[i - 1], i)
      <4> TAKE i \in 0..m
      <4>1. CASE i < m
        BY <4>1, <2>2
      <4>2. CASE i = m
        BY <4>2, <2>2
      <4> QED
        BY <4>1, <4>2
    <3> QED
      BY <3>1
  <2> HIDE DEF h
  <2>4. Loop(loop, v, z, m, h)
    BY <2>3 DEF Loop, F
  <2>5. m \in Nat
    OBVIOUS
  <2> QED
    BY <2>4, <2>5
<1>3. 0 \in S /\ \A i \in 1..n : i - 1 \in S => i \in S
  BY <1>1, <1>2
<1> HIDE DEF S
<1>4. n \in S
  BY <1>3, Induct
<1> QED
  BY <1>4 DEF S

\* The turns one by one.
LEMMA LoopTurns ==
    ASSUME NEW loop, NEW v, NEW z, NEW n \in Nat, NEW g, Loop(loop, v, z, n, g)
    PROVE  g[0] = z /\ \A i \in 1..n : g[i] = Turn(loop, v, g[i - 1], i)
<1> DEFINE F(f, i) == Turn(loop, v, f, i)
<1> HIDE DEF F
<1>1. g = [i \in 0..n |-> IF i = 0 THEN z ELSE F(g[i - 1], i)]
  BY DEF Loop, F
<1>2. g[0] = z /\ \A i \in 1..n : g[i] = F(g[i - 1], i)
  BY <1>1
<1> QED
  BY <1>2 DEF F

\* ReceiveMsgBytes frames all the bytes it is given, however they are cut.
LEMMA ReceiveDoes ==
    ASSUME NEW todo \in Seq(Message), NEW v, NEW b \in Seq(Unit), NEW r \in Seq(Unit),
           Framed(v, todo, b \o r)
    PROVE  IF ReceiveMsgBytes(v, b).ok THEN Framed(ReceiveMsgBytes(v, b).vRecvMsg, todo, r)
           ELSE TooLarge(todo)
<1>1. PICK n \in Nat : n = Len(b)
  BY LenProperties
<1>2. PICK z : z = [vRecvMsg |-> v, bytes |-> b, ok |-> TRUE]
  OBVIOUS
<1> DEFINE f == CHOOSE g : Loop("absorb", v, z, n, g)
<1>3. ReceiveMsgBytes(v, b) = f[n]
  BY <1>1, <1>2 DEF ReceiveMsgBytes, Loop, Turn
<1>4. Loop("absorb", v, z, n, f)
  BY LoopExists
<1> HIDE DEF f
<1>5. f[0] = z /\ \A i \in 1..n : f[i] = Absorb(f[i - 1])
  <2>1. f[0] = z /\ \A i \in 1..n : f[i] = Turn("absorb", v, f[i - 1], i)
    BY <1>4, LoopTurns
  <2> QED
    BY <2>1 DEF Turn
<1> DEFINE T == {i \in 0..n : Reading(f[i], todo, r, n - i)}
<1>6. 0 \in T
  <2>1. f[0].vRecvMsg = v /\ f[0].bytes = b /\ f[0].ok = TRUE /\ n <= n - 0
    BY <1>1, <1>2, <1>5
  <2>2. Reading(f[0], todo, r, n - 0)
    BY <1>1, <2>1, Zenon DEF Reading
  <2> QED
    BY <2>2
<1>7. ASSUME NEW i \in 1..n, i - 1 \in T PROVE i \in T
  <2>1. PICK j \in Nat : j = n - (i - 1) /\ j >= 1 /\ j - 1 = n - i
    OBVIOUS
  <2>2. Reading(f[i - 1], todo, r, j)
    BY <1>7, <2>1
  <2>3. Reading(Absorb(f[i - 1]), todo, r, j - 1)
    BY <2>1, <2>2, AbsorbDoes
  <2>4. Reading(f[i], todo, r, n - i)
    BY <1>5, <2>1, <2>3, Zenon
  <2> QED
    BY <2>4
<1>8. n \in 0..n
  OBVIOUS
<1>9. n \in T
  <2> HIDE DEF T
  <2> QED
    BY <1>6, <1>7, <1>8, Induct
<1>10. Reading(f[n], todo, r, n - n)
  BY <1>9
<1>11. PICK s : s = f[n]
  OBVIOUS
<1>12. CASE s.ok
  <2>1. s.bytes \in Seq(Unit) /\ Len(s.bytes) <= 0 /\ Framed(s.vRecvMsg, todo, s.bytes \o r)
    <3>1. n - n = 0
      OBVIOUS
    <3> QED
      BY <1>10, <1>11, <1>12, <3>1, Zenon DEF Reading
  <2>2. s.bytes = << >>
    <3>1. Len(s.bytes) = 0
      BY <2>1, LenProperties
    <3> QED
      BY <2>1, <3>1, EmptySeq
  <2>3. << >> \o r = r
    BY ConcatEmptySeq
  <2>4. Framed(s.vRecvMsg, todo, r)
    BY <2>1, <2>2, <2>3, Zenon
  <2> QED
    BY <1>3, <1>11, <1>12, <2>4
<1>13. CASE ~s.ok
  BY <1>3, <1>10, <1>11, <1>13 DEF Reading
<1> QED
  BY <1>12, <1>13

IsRest(S, s, n, t) ==
    t \in Seq(S) /\ Len(t) = Len(s) - n /\ \A i \in 1..(Len(s) - n) : t[i] = s[n + i]
LEMMA RestIs ==
    ASSUME NEW S, NEW s \in Seq(S), NEW n \in 0..Len(s)
    PROVE  IsRest(S, s, n, Rest(s, n))
BY SplitAt DEF Rest, IsRest

LEMMA RestOfRest ==
    ASSUME NEW S, NEW s \in Seq(S), NEW n \in Nat, NEW k \in Nat, n + k <= Len(s)
    PROVE  Rest(Rest(s, n), k) = Rest(s, n + k)
<1>1. PICK l \in Nat : Len(s) = l
  BY LenProperties
<1>2. n \in 0..Len(s) /\ n + k \in 0..Len(s)
  BY <1>1
<1>3. PICK a \in Seq(S) : a = Rest(s, n) /\ Len(a) = l - n
                          /\ \A i \in 1..(l - n) : a[i] = s[n + i]
  <2>1. IsRest(S, s, n, Rest(s, n))
    BY <1>2, RestIs
  <2> QED
    BY <1>1, <2>1, Zenon DEF IsRest
<1>4. PICK b \in Seq(S) : b = Rest(s, n + k) /\ Len(b) = l - (n + k)
                          /\ \A i \in 1..(l - (n + k)) : b[i] = s[n + k + i]
  <2>1. IsRest(S, s, n + k, Rest(s, n + k))
    BY <1>2, RestIs
  <2> QED
    BY <1>1, <2>1, Zenon DEF IsRest
<1>5. k \in 0..Len(a)
  BY <1>1, <1>3
<1>6. PICK c \in Seq(S) : c = Rest(a, k) /\ Len(c) = l - n - k
                          /\ \A i \in 1..(l - n - k) : c[i] = a[k + i]
  <2>1. IsRest(S, a, k, Rest(a, k))
    BY <1>5, RestIs
  <2> QED
    BY <1>3, <2>1, Zenon DEF IsRest
<1>7. Len(c) = Len(b) /\ \A i \in 1..Len(c) : c[i] = b[i]
  <2>1. l - n - k = l - (n + k)
    BY <1>1
  <2>2. Len(c) = Len(b) /\ Len(c) = l - n - k
    BY <1>4, <1>6, <2>1, Zenon
  <2>3. ASSUME NEW i \in 1..(l - n - k) PROVE c[i] = b[i]
    <3>1. k + i \in 1..(l - n) /\ n + (k + i) = n + k + i /\ i \in 1..(l - (n + k))
      BY <1>1
    <3>2. c[i] = a[k + i] /\ a[k + i] = s[n + (k + i)] /\ b[i] = s[n + k + i]
      BY <1>3, <1>4, <1>6, <3>1, Zenon
    <3> QED
      BY <3>1, <3>2, Zenon
  <2> QED
    BY <2>2, <2>3, Zenon
<1>8. c = b
  BY <1>7, SeqEqual
<1> QED
  BY <1>3, <1>4, <1>6, <1>8

LEMMA RestAppend ==
    ASSUME NEW S, NEW s \in Seq(S), NEW e \in S, NEW n \in 0..Len(s)
    PROVE  Rest(Append(s, e), n) = Append(Rest(s, n), e)
<1>1. PICK u \in Seq(S) : u = <<e>>
  <2>1. <<e>> \in Seq(S)
    OBVIOUS
  <2> QED
    BY <2>1
<1>2. Rest(s \o u, n) = Rest(s, n) \o u
  BY RestWith
<1>3. PICK a \in Seq(S) : a = Rest(s, n)
  BY RestIs DEF IsRest
<1>4. Append(a, e) = a \o u /\ Append(s, e) = s \o u
  BY <1>1, AppendIsConcat
<1> QED
  BY <1>2, <1>3, <1>4, Zenon

\* A message more on its way.
LEMMA FramedAppend ==
    ASSUME NEW todo \in Seq(Message), NEW v, NEW rest, Framed(v, todo, rest), NEW m \in Message
    PROVE  Framed(v, Append(todo, m), rest \o Units(m))
<1>1. /\ v \in Seq(CNetMessage) /\ rest \in Seq(Unit) /\ Len(v) <= Len(todo)
      /\ \A i \in 1..Len(v) : Part(v[i], todo[i]) /\ Begun(v[i])
      /\ \A i \in 1..Len(v) : i < Len(v) => complete(v[i])
      /\ IF v = << >> THEN Stream(todo) = rest
         ELSE Stream(Rest(todo, Len(v) - 1)) = Arrived(v[Len(v)]) \o rest
  BY DEF Framed
<1>2. PICK t \in Seq(Message), l \in Nat :
         t = Append(todo, m) /\ l = Len(todo) /\ Len(t) = l + 1 /\ \A i \in 1..l : t[i] = todo[i]
  <2>1. /\ Append(todo, m) \in Seq(Message) /\ Len(Append(todo, m)) = Len(todo) + 1
        /\ \A i \in 1..Len(todo) : Append(todo, m)[i] = todo[i]
    BY AppendProperties
  <2> QED
    BY <2>1, LenProperties
<1>3. PICK u \in Seq(Unit) : u = Units(m)
  BY UnitsAre
<1>4. rest \o u \in Seq(Unit)
  BY <1>1, ConcatProperties
<1>5. Len(v) <= Len(t) /\ Len(v) \in Nat /\ Len(v) <= l
  BY <1>1, <1>2, LenProperties
<1>6. \A i \in 1..Len(v) : Part(v[i], t[i]) /\ Begun(v[i])
  BY <1>1, <1>2, <1>5
<1>7. CASE v = << >>
  <2>1. Stream(t) = rest \o u
    BY <1>1, <1>2, <1>3, <1>7, StreamAppend
  <2> QED
    BY <1>1, <1>2, <1>3, <1>4, <1>5, <1>6, <1>7, <2>1, Zenon DEF Framed
<1>8. CASE v # << >>
  <2>1. PICK n \in Nat : n = Len(v) /\ n >= 1 /\ n - 1 \in 0..Len(todo) /\ n \in 1..Len(todo)
    BY <1>1, <1>2, <1>5, <1>8, EmptySeq
  <2>2. PICK b \in Seq(Message) : b = Rest(todo, n - 1)
    BY <2>1, RestIs DEF IsRest
  <2>3. Rest(t, n - 1) = Append(b, m)
    BY <1>2, <2>1, <2>2, RestAppend
  <2>4. Stream(Append(b, m)) = Stream(b) \o u
    BY <1>3, StreamAppend
  <2>5. PICK a \in Seq(Unit) : a = Arrived(v[n])
    <3>1. n \in 1..Len(v) /\ todo[n] \in Message
      BY <2>1, ElementOfSeq
    <3> QED
      BY <1>1, <3>1, ArrivedIs
  <2>6. (a \o rest) \o u = a \o (rest \o u)
    <3>1. Regrouping(a, rest, u)
      BY <1>1, Regroups
    <3> QED
      BY <3>1 DEF Regrouping
  <2>7. Stream(Rest(t, Len(v) - 1)) = Arrived(v[Len(v)]) \o (rest \o u)
    BY <1>1, <1>8, <2>1, <2>2, <2>3, <2>4, <2>5, <2>6, Zenon
  <2> QED
    BY <1>1, <1>2, <1>3, <1>4, <1>5, <1>6, <1>8, <2>7, Zenon DEF Framed
<1> QED
  BY <1>7, <1>8

\* The first message, when it is complete, is the one that was to come, and leaves the others.
LEMMA FramedTail ==
    ASSUME NEW todo \in Seq(Message), NEW v, NEW rest, Framed(v, todo, rest),
           v # << >>, complete(Head(v))
    PROVE  /\ Head(v).hdr[1].msg = todo[1] /\ 1 \in 1..Len(todo)
           /\ Framed(Tail(v), Rest(todo, 1), rest)
<1>1. /\ v \in Seq(CNetMessage) /\ rest \in Seq(Unit) /\ Len(v) <= Len(todo)
      /\ \A i \in 1..Len(v) : Part(v[i], todo[i]) /\ Begun(v[i])
      /\ \A i \in 1..Len(v) : i < Len(v) => complete(v[i])
      /\ Stream(Rest(todo, Len(v) - 1)) = Arrived(v[Len(v)]) \o rest
  BY DEF Framed
<1>2. PICK n \in Nat, l \in Nat : n = Len(v) /\ n >= 1 /\ l = Len(todo) /\ n <= l
  BY <1>1, EmptySeq, LenProperties
<1>3. /\ 1 \in 1..Len(todo) /\ 1 \in 0..Len(todo) /\ 1 \in 1..Len(v) /\ Head(v) = v[1]
  BY <1>1, <1>2
<1>4. todo[1] \in Message /\ Part(v[1], todo[1]) /\ Begun(v[1])
  BY <1>1, <1>3, ElementOfSeq
<1>5. Head(v).hdr[1].msg = todo[1]
  BY <1>3, <1>4, NamesItself
<1>6. PICK w \in Seq(CNetMessage) :
         w = Tail(v) /\ Len(w) = n - 1 /\ \A i \in 1..(n - 1) : w[i] = v[i + 1]
  <2>1. /\ Tail(v) \in Seq(CNetMessage) /\ Len(Tail(v)) = Len(v) - 1
        /\ \A i \in 1..Len(Tail(v)) : Tail(v)[i] = v[i + 1]
    BY <1>1, HeadTailProperties
  <2> QED
    BY <1>2, <2>1
<1>7. PICK t \in Seq(Message) :
         t = Rest(todo, 1) /\ Len(t) = l - 1 /\ \A i \in 1..(l - 1) : t[i] = todo[1 + i]
  <2>1. IsRest(Message, todo, 1, Rest(todo, 1))
    BY <1>3, RestIs
  <2> QED
    BY <1>2, <2>1, Zenon DEF IsRest
<1>8. Len(w) <= Len(t)
  BY <1>2, <1>6, <1>7
<1>9. /\ \A i \in 1..Len(w) : Part(w[i], t[i]) /\ Begun(w[i])
      /\ \A i \in 1..Len(w) : i < Len(w) => complete(w[i])
  <2> SUFFICES ASSUME NEW i \in 1..Len(w)
               PROVE  Part(w[i], t[i]) /\ Begun(w[i]) /\ (i < Len(w) => complete(w[i]))
    OBVIOUS
  <2>1. /\ i \in 1..(n - 1) /\ i \in 1..(l - 1) /\ i + 1 = 1 + i /\ i + 1 \in 1..Len(v)
        /\ i < Len(w) => i + 1 < Len(v)
    BY <1>2, <1>6
  <2> QED
    BY <1>1, <1>6, <1>7, <2>1
<1>10. CASE n = 1
  <2>1. w = << >>
    BY <1>6, <1>10, EmptySeq
  <2>2. Arrived(v[1]) = Units(todo[1])
    BY <1>3, <1>4, ArrivedIs
  <2>3. Stream(Rest(todo, 1 - 1)) = Units(todo[1]) \o rest
    BY <1>1, <1>2, <1>10, <2>2
  <2>4. Stream(t) = rest
    <3>1. Stream(Rest(todo, 1)) = rest
      BY <1>1, <1>3, <2>3, OthersToCome
    <3> QED
      BY <1>7, <3>1, Zenon
  <2>5. Framed(w, t, rest)
    BY <1>1, <1>8, <1>9, <2>1, <2>4, Zenon DEF Framed
  <2> QED
    BY <1>3, <1>5, <1>6, <1>7, <2>5, Zenon
<1>11. CASE n # 1
  <2>1. PICK k \in Nat : k = n - 2 /\ 1 + k = n - 1 /\ n - 1 - 1 = k /\ 1 + k <= l
                         /\ n - 1 \in 1..(n - 1) /\ (n - 1) + 1 = n /\ n - 1 # 0
    <3>1. n - 2 \in Nat /\ 1 + (n - 2) = n - 1 /\ n - 1 - 1 = n - 2
      BY <1>2, <1>11
    <3>2. 1 + (n - 2) <= l
      BY <1>2, <1>11
    <3>3. n - 1 \in 1..(n - 1) /\ (n - 1) + 1 = n /\ n - 1 # 0
      BY <1>2, <1>11
    <3> QED
      BY <3>1, <3>2, <3>3, Zenon
  <2>2. /\ 1 + k = n - 1 /\ Len(w) - 1 = k /\ 1 + k <= Len(todo)
        /\ Len(w) \in 1..(n - 1) /\ Len(w) + 1 = n /\ Len(w) # 0
    BY <1>2, <1>6, <2>1, Zenon
  <2>3. w # << >>
    BY <2>2, EmptySeq
  <2>4. Rest(t, k) = Rest(todo, 1 + k)
    BY <1>7, <2>2, RestOfRest
  <2>5. w[Len(w)] = v[n]
    BY <1>6, <2>2
  <2>6. Stream(Rest(t, Len(w) - 1)) = Arrived(w[Len(w)]) \o rest
    BY <1>1, <1>2, <2>2, <2>4, <2>5, Zenon
  <2>7. Framed(w, t, rest)
    BY <1>1, <1>8, <1>9, <2>3, <2>6, Zenon DEF Framed
  <2> QED
    BY <1>3, <1>5, <1>6, <1>7, <2>7, Zenon
<1> QED
  BY <1>10, <1>11

-----------------------------------------------------------------------------
(* How much has been received *)

Total(v) == GetTotalRecvSize([vRecvMsg |-> v])

\* A complete message has made room for all of it.
LEMMA RoomOfComplete ==
    ASSUME NEW m \in Message, NEW x, Part(x, m), complete(x)
    PROVE  x.vRecv + HeaderSize = SizeOf(m)
<1>1. x \in CNetMessage /\ x.vRecv <= m.size /\ Len(x.data) <= x.vRecv
  BY DEF Part
<1>2. Len(x.data) = m.size
  BY CompleteIs
<1>3. x.vRecv \in Nat /\ m.size \in Nat /\ SizeOf(m) = HeaderSize + m.size
  BY <1>1, FieldsAre, UnitsAre
<1> QED
  BY <1>1, <1>2, <1>3, Constants

\* GetTotalRecvSize counts all messages but the last for what they are.
LEMMA TotalIs ==
    ASSUME NEW todo \in Seq(Message), NEW v, NEW rest, Framed(v, todo, rest)
    PROVE  IF v = << >> THEN Total(v) = 0
           ELSE Total(v) = SumOfSizes(SubSeq(todo, 1, Len(v) - 1))
                           + v[Len(v)].vRecv + HeaderSize
<1>1. /\ v \in Seq(CNetMessage) /\ Len(v) <= Len(todo)
      /\ \A i \in 1..Len(v) : Part(v[i], todo[i])
      /\ \A i \in 1..Len(v) : i < Len(v) => complete(v[i])
  BY DEF Framed
<1>2. PICK n \in Nat, l \in Nat : n = Len(v) /\ l = Len(todo) /\ n <= l
  BY <1>1, LenProperties
<1> DEFINE f == CHOOSE g : Loop("total", v, 0, n, g)
<1>3. Total(v) = f[n]
  BY <1>2 DEF Total, GetTotalRecvSize, Loop, Turn
<1>4. Loop("total", v, 0, n, f)
  BY LoopExists
<1> HIDE DEF f
<1>5. f[0] = 0 /\ \A i \in 1..n : f[i] = f[i - 1] + v[i].vRecv + HeaderSize
  <2>1. f[0] = 0 /\ \A i \in 1..n : f[i] = Turn("total", v, f[i - 1], i)
    BY <1>4, LoopTurns
  <2> QED
    BY <2>1 DEF Turn
<1> DEFINE S == {i \in 0..n : i < n => f[i] = SumOfSizes(SubSeq(todo, 1, i))}
<1>6. 0 \in S
  <2>1. SubSeq(todo, 1, 0) = << >>
    BY SubSeqEmpty
  <2>2. SumOfSizes(<< >>) = 0
    BY StreamEmpty, EmptySeq, Zenon DEF SumOfSizes
  <2>3. f[0] = SumOfSizes(SubSeq(todo, 1, 0))
    BY <1>5, <2>1, <2>2, Zenon
  <2> QED
    BY <2>3
<1>7. ASSUME NEW i \in 1..n, i - 1 \in S PROVE i \in S
  <2> SUFFICES ASSUME i < n PROVE f[i] = SumOfSizes(SubSeq(todo, 1, i))
    OBVIOUS
  <2>1. i \in 1..Len(v) /\ i \in 1..Len(todo) /\ i < Len(v) /\ i - 1 < n
    BY <1>2
  <2>2. PICK a : a = SumOfSizes(SubSeq(todo, 1, i - 1))
    OBVIOUS
  <2>3. f[i - 1] = a
    BY <1>7, <2>1, <2>2
  <2>4. Part(v[i], todo[i]) /\ complete(v[i]) /\ todo[i] \in Message
    BY <1>1, <2>1, ElementOfSeq
  <2>5. v[i].vRecv + HeaderSize = SizeOf(todo[i])
    BY <2>4, RoomOfComplete
  <2>6. SumOfSizes(SubSeq(todo, 1, i)) = a + SizeOf(todo[i])
    BY <2>1, <2>2, SumNext
  <2>7. f[i] = a + v[i].vRecv + HeaderSize
    BY <1>5, <2>3
  <2>8. a \in Nat /\ v[i].vRecv \in Nat /\ HeaderSize \in Nat
    <3>1. i - 1 \in 0..Len(todo)
      BY <2>1, <1>2
    <3>2. SubSeq(todo, 1, i - 1) \in Seq(Message)
      BY <3>1, SplitAt
    <3> QED
      BY <2>2, <2>4, <3>2, StreamType, FieldsAre, Constants DEF Part
  <2>9. a + v[i].vRecv + HeaderSize = a + (v[i].vRecv + HeaderSize)
    BY <2>8
  <2> QED
    BY <2>5, <2>6, <2>7, <2>9, Zenon
<1>8. CASE v = << >>
  BY <1>2, <1>3, <1>5, <1>8
<1>9. CASE v # << >>
  <2>1. n >= 1 /\ n - 1 \in 0..n /\ n - 1 < n /\ n \in 1..n
    BY <1>1, <1>2, <1>9, EmptySeq
  <2>2. n - 1 \in S
    <3>1. \A i \in 0..n : i \in S
      <4> HIDE DEF S
      <4> QED
        BY <1>6, <1>7, Induct
    <3> QED
      BY <2>1, <3>1
  <2>3. f[n - 1] = SumOfSizes(SubSeq(todo, 1, n - 1))
    BY <2>1, <2>2
  <2>4. f[n] = f[n - 1] + v[n].vRecv + HeaderSize
    BY <1>5, <2>1
  <2> QED
    BY <1>2, <1>3, <1>9, <2>3, <2>4, Zenon
<1> QED
  BY <1>8, <1>9

\* The units of the stream that have arrived, from what is to come.
Have(todo, rest) == Len(Stream(todo)) - Len(rest)

LEMMA HaveIs ==
    ASSUME NEW todo \in Seq(Message), NEW v, NEW rest, Framed(v, todo, rest), v # << >>
    PROVE  Have(todo, rest) = SumOfSizes(SubSeq(todo, 1, Len(v) - 1))
                              + Len(v[Len(v)].hdr) + Len(v[Len(v)].data)
<1>1. /\ v \in Seq(CNetMessage) /\ rest \in Seq(Unit) /\ Len(v) <= Len(todo)
      /\ \A i \in 1..Len(v) : Part(v[i], todo[i])
      /\ Stream(Rest(todo, Len(v) - 1)) = Arrived(v[Len(v)]) \o rest
  BY DEF Framed
<1>2. PICK n \in Nat : n = Len(v) /\ n - 1 \in 0..Len(todo) /\ n \in 1..Len(v) /\ n \in 1..Len(todo)
  BY <1>1, EmptySeq, LenProperties
<1>3. PICK x : x = v[n] /\ Part(x, todo[n]) /\ todo[n] \in Message /\ x \in CNetMessage
  BY <1>1, <1>2, ElementOfSeq
<1>4. PICK a \in Seq(Unit) : a = Arrived(x) /\ Len(a) = Len(x.hdr) + Len(x.data)
  BY <1>3, ArrivedIs
<1>5. PICK b \in Seq(Message), c \in Seq(Message) :
         b = SubSeq(todo, 1, n - 1) /\ c = Rest(todo, n - 1)
  BY <1>2, SplitAt DEF Rest
<1>6. Stream(todo) = Stream(b) \o Stream(c)
  BY <1>2, <1>5, StreamSplit DEF Rest
<1>7. Stream(c) = a \o rest
  BY <1>1, <1>2, <1>3, <1>4, <1>5
<1>8. Len(a \o rest) = Len(a) + Len(rest) /\ Len(a) \in Nat /\ Len(rest) \in Nat
  BY <1>1, ConcatProperties, LenProperties
<1>9. Stream(b) \in Seq(Unit) /\ Stream(c) \in Seq(Unit)
  BY StreamType
<1>10. Len(Stream(b) \o Stream(c)) = Len(Stream(b)) + Len(Stream(c)) /\ Len(Stream(b)) \in Nat
  BY <1>9, ConcatProperties, LenProperties
<1>11. PICK i \in Nat : i = Len(Stream(b)) /\ i = SumOfSizes(SubSeq(todo, 1, n - 1))
  BY <1>5, <1>10, Zenon DEF SumOfSizes
<1>12. Len(Stream(todo)) = i + (Len(a) + Len(rest))
  BY <1>6, <1>7, <1>8, <1>10, <1>11, Zenon
<1>13. Len(x.hdr) \in Nat /\ Len(x.data) \in Nat
  BY <1>3, FieldsAre
<1>14. PICK h \in Nat, d \in Nat, r \in Nat :
          h = Len(x.hdr) /\ d = Len(x.data) /\ r = Len(rest)
  BY <1>8, <1>13
<1>15. i + ((h + d) + r) - r = i + h + d
  OBVIOUS
<1>16. Len(Stream(todo)) = i + ((h + d) + r)
  BY <1>4, <1>12, <1>14, Zenon
<1>17. Have(todo, rest) = i + h + d
  <2>1. PICK s : s = Len(Stream(todo)) /\ Have(todo, rest) = s - r
    BY <1>14, Zenon DEF Have
  <2>2. s = i + ((h + d) + r)
    BY <1>16, <2>1, Zenon
  <2> QED
    BY <2>1, <2>2
<1>18. h = Len(v[Len(v)].hdr) /\ d = Len(v[Len(v)].data)
  BY <1>2, <1>3, <1>14, Zenon
<1> QED
  BY <1>2, <1>11, <1>17, <1>18, Zenon

\* GetTotalRecvSize is what has arrived, and little more.
LEMMA TotalBounds ==
    ASSUME NEW todo \in Seq(Message), NEW v, NEW rest, Framed(v, todo, rest)
    PROVE  /\ Total(v) \in Nat /\ Have(todo, rest) \in Nat
           /\ Have(todo, rest) <= Total(v)
           /\ Total(v) <= Have(todo, rest) + HeaderSize + Ahead
<1>1. HeaderSize \in Nat /\ Ahead \in Nat
  BY Constants
<1>2. CASE v = << >>
  <2>1. Total(v) = 0
    BY <1>2, TotalIs
  <2>2. Stream(todo) = rest /\ rest \in Seq(Unit)
    BY <1>2 DEF Framed
  <2>3. Have(todo, rest) = 0
    BY <2>2, LenProperties DEF Have
  <2> QED
    BY <1>1, <2>1, <2>3
<1>3. CASE v # << >>
  <2>1. /\ v \in Seq(CNetMessage) /\ Len(v) <= Len(todo)
        /\ \A i \in 1..Len(v) : Part(v[i], todo[i])
    BY DEF Framed
  <2>2. Len(v) \in 1..Len(v) /\ Len(v) - 1 \in 0..Len(todo)
    BY <1>3, <2>1, EmptySeq, LenProperties
  <2>3. PICK a \in Nat : a = SumOfSizes(SubSeq(todo, 1, Len(v) - 1))
    <3>1. SubSeq(todo, 1, Len(v) - 1) \in Seq(Message)
      BY <2>2, SplitAt
    <3> QED
      BY <3>1, StreamType
  <2>4. PICK x : x = v[Len(v)] /\ Part(x, todo[Len(v)])
    BY <2>1, <2>2
  <2>5. /\ Len(x.hdr) <= HeaderSize /\ Len(x.data) <= x.vRecv
        /\ x.vRecv <= Len(x.data) + Ahead /\ x \in CNetMessage
    BY <2>4 DEF Part
  <2>6. Len(x.hdr) \in Nat /\ Len(x.data) \in Nat /\ x.vRecv \in Nat
    BY <2>5, FieldsAre
  <2>7. Total(v) = a + x.vRecv + HeaderSize
    BY <1>3, <2>3, <2>4, TotalIs
  <2>8. Have(todo, rest) = a + Len(x.hdr) + Len(x.data)
    BY <1>3, <2>3, <2>4, HaveIs
  <2>9. PICK h \in Nat, d \in Nat, e \in Nat :
           h = Len(x.hdr) /\ d = Len(x.data) /\ e = x.vRecv
    BY <2>6
  <2>10. h <= HeaderSize /\ d <= e /\ e <= d + Ahead
    BY <2>5, <2>9, Zenon
  <2>11. Total(v) = a + e + HeaderSize /\ Have(todo, rest) = a + h + d
    BY <2>7, <2>8, <2>9, Zenon
  <2> QED
    BY <1>1, <2>10, <2>11
<1> QED
  BY <1>2, <1>3

-----------------------------------------------------------------------------
(* Both ends of a stream *)

\* What has arrived is within the limit, or within the first message, but for what
\* one call of recv brings and u units that came unasked.
Within(todo, rest, u) ==
    \/ Have(todo, rest) <= ReceiveFloodSize + SocketBuffer + u
    \/ Len(todo) >= 1 /\ Have(todo, rest) <= SizeOf(todo[1]) + SocketBuffer + u

\* pu has been queued and pr processed; v is being read and rest is on its way.
Linked(v, pu, pr, rest, u) ==
    /\ u \in Nat
    /\ pu \in Seq(Message) /\ pr \in Seq(Message)
    /\ Len(pr) <= Len(pu) /\ pr = SubSeq(pu, 1, Len(pr))
    /\ Framed(v, Rest(pu, Len(pr)), rest)
    /\ Within(Rest(pu, Len(pr)), rest, u)

LEMMA HaveAppend ==
    ASSUME NEW todo \in Seq(Message), NEW rest \in Seq(Unit), NEW m \in Message
    PROVE  Have(Append(todo, m), rest \o Units(m)) = Have(todo, rest)
<1>1. PICK s \in Seq(Unit), u \in Seq(Unit) : s = Stream(todo) /\ u = Units(m)
  BY StreamType, UnitsAre
<1>2. Stream(Append(todo, m)) = s \o u
  BY <1>1, StreamAppend
<1>3. /\ Len(s \o u) = Len(s) + Len(u) /\ Len(rest \o u) = Len(rest) + Len(u)
      /\ Len(s) \in Nat /\ Len(u) \in Nat /\ Len(rest) \in Nat
  BY ConcatProperties, LenProperties
<1>4. PICK i \in Nat, j \in Nat, k \in Nat : i = Len(s) /\ j = Len(u) /\ k = Len(rest)
  BY <1>3
<1>5. (i + j) - (k + j) = i - k
  OBVIOUS
<1>6. Have(Append(todo, m), rest \o Units(m)) = (i + j) - (k + j)
  BY <1>1, <1>2, <1>3, <1>4, Zenon DEF Have
<1>7. Have(todo, rest) = i - k
  BY <1>1, <1>4, Zenon DEF Have
<1> QED
  BY <1>5, <1>6, <1>7, Zenon

\* m is queued.
LEMMA LinkedPush ==
    ASSUME NEW v, NEW pu, NEW pr, NEW rest, NEW u, Linked(v, pu, pr, rest, u), NEW m \in Message
    PROVE  Linked(v, Append(pu, m), pr, rest \o Units(m), u)
<1>1. PICK p \in Seq(Message), l \in Nat, n \in Nat :
         p = pu /\ l = Len(pr) /\ n = Len(pu) /\ l <= n
  BY Zenon, LenProperties DEF Linked
<1>2. PICK todo \in Seq(Message) :
         todo = Rest(pu, l) /\ Len(todo) = n - l /\ Framed(v, todo, rest) /\ Within(todo, rest, u)
  <2>1. l \in 0..Len(p)
    BY <1>1
  <2>2. IsRest(Message, p, l, Rest(p, l))
    BY <2>1, RestIs
  <2> QED
    BY <1>1, <2>2, Zenon DEF IsRest, Linked
<1>3. Rest(Append(p, m), l) = Append(todo, m)
  <2>1. l \in 0..Len(p)
    BY <1>1
  <2> QED
    BY <1>1, <1>2, <2>1, RestAppend
<1>4. Framed(v, Append(todo, m), rest \o Units(m))
  BY <1>2, FramedAppend
<1>5. Within(Append(todo, m), rest \o Units(m), u)
  <2>1. rest \in Seq(Unit)
    BY <1>2 DEF Framed
  <2>2. Have(Append(todo, m), rest \o Units(m)) = Have(todo, rest)
    BY <2>1, HaveAppend
  <2>3. /\ Len(Append(todo, m)) = Len(todo) + 1
        /\ \A i \in 1..Len(todo) : Append(todo, m)[i] = todo[i]
    BY AppendProperties
  <2>4. Len(todo) >= 1 => Len(Append(todo, m)) >= 1 /\ Append(todo, m)[1] = todo[1]
    <3>1. Len(todo) \in Nat
      BY LenProperties
    <3>2. Len(todo) >= 1 => 1 \in 1..Len(todo) /\ Len(todo) + 1 >= 1
      BY <3>1
    <3> QED
      BY <2>3, <3>2, Zenon
  <2> QED
    BY <1>2, <2>2, <2>4, Zenon DEF Within
<1>6. /\ Append(p, m) \in Seq(Message) /\ Len(Append(p, m)) = n + 1
      /\ pr = SubSeq(Append(p, m), 1, l)
  <2>1. PICK e \in Seq(Message) : e = <<m>> /\ Append(p, m) = p \o e
    <3>1. <<m>> \in Seq(Message)
      OBVIOUS
    <3> QED
      BY <3>1, AppendIsConcat
  <2>2. Append(p, m) \in Seq(Message) /\ Len(Append(p, m)) = Len(p) + 1
    BY AppendProperties
  <2>3. PICK a \in Seq(Message) : a = Append(p, m)
    BY <2>2
  <2>4. l \in 0..Len(p) /\ l \in 0..Len(a)
    BY <1>1, <2>2, <2>3
  <2>5. PICK x \in Seq(Message), y \in Seq(Message) :
           x = SubSeq(p, 1, l) /\ y = SubSeq(a, 1, l) /\ Len(x) = l /\ Len(y) = l
           /\ \A i \in 1..l : x[i] = p[i] /\ y[i] = a[i]
    <3>1. /\ SubSeq(p, 1, l) \in Seq(Message) /\ Len(SubSeq(p, 1, l)) = l
          /\ \A i \in 1..l : SubSeq(p, 1, l)[i] = p[i]
      BY <2>4, SplitAt
    <3>2. /\ SubSeq(a, 1, l) \in Seq(Message) /\ Len(SubSeq(a, 1, l)) = l
          /\ \A i \in 1..l : SubSeq(a, 1, l)[i] = a[i]
      BY <2>4, SplitAt
    <3> QED
      BY <3>1, <3>2
  <2>6. \A i \in 1..l : a[i] = p[i]
    <3>1. \A i \in 1..Len(p) : Append(p, m)[i] = p[i]
      BY AppendProperties
    <3> QED
      BY <1>1, <2>3, <3>1
  <2>7. x = y
    BY <2>5, <2>6, SeqEqual
  <2>8. pr = SubSeq(p, 1, l)
    BY <1>1, Zenon DEF Linked
  <2> QED
    BY <1>1, <2>2, <2>3, <2>5, <2>7, <2>8
<1>7. l <= n + 1 /\ pr \in Seq(Message) /\ u \in Nat
  BY <1>1 DEF Linked
<1> QED
  BY <1>1, <1>3, <1>4, <1>5, <1>6, <1>7, Zenon DEF Linked

\* The first message that has come is processed.
LEMMA LinkedTail ==
    ASSUME NEW v, NEW pu, NEW pr, NEW rest, NEW u, Linked(v, pu, pr, rest, u),
           v # << >>, complete(Head(v))
    PROVE  /\ Head(v).hdr[1].msg \in Message
           /\ Linked(Tail(v), pu, Append(pr, Head(v).hdr[1].msg), rest, u)
<1>1. PICK l \in Nat, n \in Nat : l = Len(pr) /\ n = Len(pu) /\ l <= n
  BY Zenon, LenProperties DEF Linked
<1>2. pu \in Seq(Message) /\ pr \in Seq(Message) /\ pr = SubSeq(pu, 1, l)
  BY <1>1 DEF Linked
<1>3. PICK todo \in Seq(Message) :
         /\ todo = Rest(pu, l) /\ Len(todo) = n - l /\ Framed(v, todo, rest)
         /\ Within(todo, rest, u) /\ \A i \in 1..(n - l) : todo[i] = pu[l + i]
  <2>1. l \in 0..Len(pu)
    BY <1>1
  <2>2. IsRest(Message, pu, l, Rest(pu, l))
    BY <1>2, <2>1, RestIs
  <2> QED
    BY <1>1, <2>2, Zenon DEF IsRest, Linked
<1>4. PICK m : m = Head(v).hdr[1].msg /\ m = todo[1] /\ 1 \in 1..Len(todo)
               /\ Framed(Tail(v), Rest(todo, 1), rest)
  BY <1>3, FramedTail
<1>5. m \in Message /\ l + 1 <= n /\ m = pu[l + 1] /\ l + 1 \in 1..Len(pu)
  BY <1>1, <1>3, <1>4, ElementOfSeq
<1>6. Append(pr, m) = SubSeq(pu, 1, l + 1)
  <2>1. 1 \in 1..Len(pu) /\ l + 1 \in 1..Len(pu) /\ (l + 1) - 1 = l
    BY <1>1, <1>5
  <2>2. SubSeq(pu, 1, l + 1) = SubSeq(pu, 1, (l + 1) - 1) \o <<pu[l + 1]>>
    BY <1>2, <2>1, SubSeqRecursiveSecond
  <2>3. Append(pr, m) = pr \o <<m>>
    BY <1>2, <1>5, AppendIsConcat
  <2> QED
    BY <1>2, <1>5, <2>1, <2>2, <2>3, Zenon
<1>7. Append(pr, m) \in Seq(Message) /\ Len(Append(pr, m)) = l + 1
  BY <1>1, <1>2, <1>5, AppendProperties
<1>8. Rest(pu, l + 1) = Rest(todo, 1)
  BY <1>1, <1>2, <1>3, <1>5, RestOfRest
<1>9. Within(Rest(todo, 1), rest, u)
  <2>1. SizeOf(m) \in Nat /\ Units(m) \in Seq(Unit) /\ Len(Units(m)) = SizeOf(m)
    BY <1>5, UnitsAre
  <2>2. PICK b \in Seq(Message) : b = Rest(todo, 1)
    <3>1. 1 \in 0..Len(todo)
      BY <1>4, LenProperties
    <3> QED
      BY <3>1, RestIs DEF IsRest
  <2>3. Stream(todo) = Units(m) \o Stream(b)
    BY <1>4, <2>2, StreamFirst, SubSeqFull DEF Rest
  <2>4. Stream(b) \in Seq(Unit) /\ rest \in Seq(Unit)
    BY <1>3, StreamType DEF Framed
  <2>5. Len(Units(m) \o Stream(b)) = Len(Units(m)) + Len(Stream(b))
    BY <2>1, <2>4, ConcatProperties
  <2>6. PICK i \in Nat, j \in Nat, k \in Nat :
           i = SizeOf(m) /\ j = Len(Stream(b)) /\ k = Len(rest) /\ u \in Nat
    BY <2>1, <2>4, LenProperties DEF Linked
  <2>7. Have(todo, rest) = (i + j) - k /\ Have(b, rest) = j - k
    BY <2>1, <2>3, <2>5, <2>6, Zenon DEF Have
  <2>8. \/ (i + j) - k <= ReceiveFloodSize + SocketBuffer + u
        \/ (i + j) - k <= i + SocketBuffer + u
    BY <1>3, <1>4, <2>6, <2>7, Zenon DEF Within
  <2>9. j - k <= ReceiveFloodSize + SocketBuffer + u
    BY <2>6, <2>8, Constants
  <2> QED
    BY <2>2, <2>7, <2>9, Zenon DEF Within
<1>10. Linked(Tail(v), pu, Append(pr, m), rest, u)
  <2>1. Len(Append(pr, m)) <= Len(pu) /\ u \in Nat
    BY <1>1, <1>5, <1>7 DEF Linked
  <2>2. Framed(Tail(v), Rest(pu, Len(Append(pr, m))), rest)
    BY <1>4, <1>7, <1>8
  <2>3. Within(Rest(pu, Len(Append(pr, m))), rest, u)
    BY <1>7, <1>8, <1>9
  <2> QED
    BY <1>2, <1>6, <1>7, <2>1, <2>2, <2>3, Zenon DEF Linked
<1> QED
  BY <1>4, <1>5, <1>10

\* No more than its first message has arrived of a stream whose first is not complete.
LEMMA FirstNotComplete ==
    ASSUME NEW todo \in Seq(Message), NEW v, NEW rest, Framed(v, todo, rest),
           v # << >>, ~complete(Head(v))
    PROVE  Len(todo) >= 1 /\ Have(todo, rest) <= SizeOf(todo[1])
<1>1. /\ v \in Seq(CNetMessage) /\ Len(v) <= Len(todo)
      /\ \A i \in 1..Len(v) : Part(v[i], todo[i])
      /\ \A i \in 1..Len(v) : i < Len(v) => complete(v[i])
  BY DEF Framed
<1>2. PICK n \in Nat : n = Len(v) /\ n >= 1 /\ 1 \in 1..Len(v) /\ Head(v) = v[1]
  BY <1>1, EmptySeq, LenProperties
<1>3. n = 1
  BY <1>1, <1>2
<1>4. 1 \in 1..Len(todo) /\ Len(todo) >= 1
  BY <1>1, <1>2, LenProperties
<1>5. todo[1] \in Message /\ Part(v[1], todo[1])
  BY <1>1, <1>2, <1>4, ElementOfSeq
<1>6. SumOfSizes(SubSeq(todo, 1, Len(v) - 1)) = 0
  <2>1. Len(v) - 1 = 0
    BY <1>2, <1>3
  <2>2. SubSeq(todo, 1, 0) = << >>
    BY SubSeqEmpty
  <2>3. SumOfSizes(<< >>) = 0
    BY StreamEmpty, EmptySeq, Zenon DEF SumOfSizes
  <2> QED
    BY <2>1, <2>2, <2>3, Zenon
<1>7. Have(todo, rest) = SumOfSizes(SubSeq(todo, 1, Len(v) - 1))
                         + Len(v[Len(v)].hdr) + Len(v[Len(v)].data)
  BY HaveIs
<1>8. PICK x : x = v[1] /\ x = v[Len(v)] /\ Part(x, todo[1]) /\ x \in CNetMessage
  <2>1. v[1] \in CNetMessage
    BY <1>5, Zenon DEF Part
  <2> QED
    BY <1>2, <1>3, <1>5, <2>1, Zenon
<1>9. PICK h \in Nat, d \in Nat : h = Len(x.hdr) /\ d = Len(x.data)
  BY <1>8, FieldsAre
<1>10. h + d <= SizeOf(todo[1])
  <2>1. Len(Arrived(x)) = Len(x.hdr) + Len(x.data) /\ Len(Arrived(x)) <= SizeOf(todo[1])
    BY <1>5, <1>8, ArrivedIs, Zenon
  <2> QED
    BY <1>9, <2>1, Zenon
<1>11. 0 + h + d = h + d
  OBVIOUS
<1>12. Have(todo, rest) = h + d
  BY <1>6, <1>7, <1>8, <1>9, <1>11, Zenon
<1> QED
  BY <1>4, <1>10, <1>12, Zenon

\* The room in the receive buffer was looked at.
LEMMA WithinAfter ==
    ASSUME NEW todo \in Seq(Message), NEW v, NEW b \in Seq(Unit), NEW r \in Seq(Unit),
           Framed(v, todo, b \o r), Len(b) <= SocketBuffer,
           v # << >> /\ complete(Head(v)) => Total(v) <= ReceiveFloodSize
    PROVE  Within(todo, r, 0)
<1>1. PICK s \in Nat, k \in Nat, n \in Nat :
         s = Len(Stream(todo)) /\ k = Len(b) /\ n = Len(r)
  BY StreamType, LenProperties
<1>2. Len(b \o r) = k + n
  BY <1>1, ConcatProperties
<1>3. Have(todo, b \o r) = s - (k + n) /\ Have(todo, r) = s - n
  BY <1>1, <1>2, Zenon DEF Have
<1>4. PICK flood \in Nat, buffer \in Nat :
         flood = ReceiveFloodSize /\ buffer = SocketBuffer /\ k <= buffer
  BY <1>1, Constants
<1>5. CASE v = << >>
  <2>1. Stream(todo) = b \o r
    BY <1>5 DEF Framed
  <2>2. s = k + n
    BY <1>1, <1>2, <2>1, Zenon
  <2>3. s - n <= flood + buffer + 0
    BY <1>4, <2>2
  <2> QED
    BY <1>3, <1>4, <2>3, Zenon DEF Within
<1>6. CASE v # << >> /\ complete(Head(v))
  <2>1. Have(todo, b \o r) <= Total(v) /\ Total(v) \in Nat
    BY TotalBounds
  <2>2. s - (k + n) <= flood
    BY <1>3, <1>4, <1>6, <2>1
  <2>3. s - n <= flood + buffer + 0
    BY <1>4, <2>2
  <2> QED
    BY <1>3, <1>4, <2>3, Zenon DEF Within
<1>7. CASE v # << >> /\ ~complete(Head(v))
  <2>1. Len(todo) >= 1 /\ Have(todo, b \o r) <= SizeOf(todo[1])
    BY <1>7, FirstNotComplete
  <2>2. PICK size \in Nat : size = SizeOf(todo[1])
    <3>1. 1 \in 1..Len(todo)
      BY <2>1, LenProperties
    <3>2. todo[1] \in Message
      BY <3>1, ElementOfSeq
    <3> QED
      BY <3>2, UnitsAre
  <2>3. s - (k + n) <= size
    BY <1>3, <2>1, <2>2, Zenon
  <2>4. s - n <= size + buffer + 0
    BY <1>4, <2>3
  <2> QED
    BY <1>3, <1>4, <2>1, <2>2, <2>4, Zenon DEF Within
<1> QED
  BY <1>5, <1>6, <1>7

\* It was not.
LEMMA WithinUnasked ==
    ASSUME NEW todo \in Seq(Message), NEW b \in Seq(Unit), NEW r \in Seq(Unit), NEW u \in Nat,
           Within(todo, b \o r, u)
    PROVE  Within(todo, r, u + Len(b))
<1>1. PICK s \in Nat, k \in Nat, n \in Nat :
         s = Len(Stream(todo)) /\ k = Len(b) /\ n = Len(r)
  BY StreamType, LenProperties
<1>2. Len(b \o r) = k + n
  BY <1>1, ConcatProperties
<1>3. Have(todo, b \o r) = s - (k + n) /\ Have(todo, r) = s - n
  BY <1>1, <1>2, Zenon DEF Have
<1>4. PICK flood \in Nat, buffer \in Nat : flood = ReceiveFloodSize /\ buffer = SocketBuffer
  BY Constants
<1>5. CASE s - (k + n) <= flood + buffer + u
  <2>1. s - n <= flood + buffer + (u + k)
    BY <1>5
  <2> QED
    BY <1>1, <1>3, <1>4, <2>1, Zenon DEF Within
<1>6. CASE Len(todo) >= 1 /\ s - (k + n) <= SizeOf(todo[1]) + buffer + u
  <2>1. PICK size \in Nat : size = SizeOf(todo[1])
    <3>1. 1 \in 1..Len(todo)
      BY <1>6, LenProperties
    <3>2. todo[1] \in Message
      BY <3>1, ElementOfSeq
    <3> QED
      BY <3>2, UnitsAre
  <2>2. s - n <= size + buffer + (u + k)
    BY <1>6, <2>1
  <2> QED
    BY <1>1, <1>3, <1>4, <1>6, <2>1, <2>2, Zenon DEF Within
<1> QED
  BY <1>3, <1>4, <1>5, <1>6, Zenon DEF Within

\* The units b are received, with or without a look at the buffer.
Looked(v, w) ==
    /\ v # << >> /\ complete(Head(v)) => Total(v) <= ReceiveFloodSize
    /\ w = 0
LEMMA LinkedReceive ==
    ASSUME NEW v, NEW pu, NEW pr, NEW b \in Seq(Unit), NEW r \in Seq(Unit), NEW u, NEW w,
           Linked(v, pu, pr, b \o r, u), Len(b) <= SocketBuffer,
           Looked(v, w) \/ w = u + Len(b)
    PROVE  IF ReceiveMsgBytes(v, b).ok THEN Linked(ReceiveMsgBytes(v, b).vRecvMsg, pu, pr, r, w)
           ELSE TooLarge(pu)
<1>1. PICK l \in Nat, n \in Nat : l = Len(pr) /\ n = Len(pu) /\ l <= n
  BY Zenon, LenProperties DEF Linked
<1>2. pu \in Seq(Message) /\ pr \in Seq(Message) /\ pr = SubSeq(pu, 1, l)
  BY <1>1 DEF Linked
<1>3. PICK todo \in Seq(Message) :
         /\ todo = Rest(pu, l) /\ Len(todo) = n - l /\ Framed(v, todo, b \o r)
         /\ Within(todo, b \o r, u) /\ u \in Nat
         /\ \A i \in 1..(n - l) : todo[i] = pu[l + i]
  <2>1. l \in 0..Len(pu)
    BY <1>1
  <2>2. IsRest(Message, pu, l, Rest(pu, l))
    BY <1>2, <2>1, RestIs
  <2> QED
    BY <1>1, <2>2, Zenon DEF IsRest, Linked
<1>4. PICK got : got = ReceiveMsgBytes(v, b)
  OBVIOUS
<1>5. IF got.ok THEN Framed(got.vRecvMsg, todo, r) ELSE TooLarge(todo)
  BY <1>3, <1>4, ReceiveDoes
<1>6. Within(todo, r, w) /\ w \in Nat
  <2>1. CASE Looked(v, w)
    <3>1. Within(todo, r, 0)
      BY <1>3, <2>1, WithinAfter DEF Looked
    <3> QED
      BY <2>1, <3>1, Zenon DEF Looked
  <2>2. CASE w = u + Len(b)
    <3>1. Within(todo, r, u + Len(b))
      BY <1>3, WithinUnasked
    <3>2. u + Len(b) \in Nat
      BY <1>3, LenProperties
    <3> QED
      BY <2>2, <3>1, <3>2, Zenon
  <2> QED
    BY <2>1, <2>2
<1>7. CASE got.ok
  <2>1. Linked(got.vRecvMsg, pu, pr, r, w)
    BY <1>1, <1>2, <1>3, <1>5, <1>6, <1>7, Zenon DEF Linked
  <2> QED
    BY <1>4, <1>7, <2>1, Zenon
<1>8. CASE ~got.ok
  <2>1. PICK i \in 1..Len(todo) : todo[i].size > MaxSize
    BY <1>5, <1>8 DEF TooLarge
  <2>2. l + i \in 1..Len(pu) /\ todo[i] = pu[l + i]
    BY <1>1, <1>3, <2>1
  <2>3. TooLarge(pu)
    BY <2>1, <2>2 DEF TooLarge
  <2> QED
    BY <1>4, <1>8, <2>3, Zenon
<1> QED
  BY <1>7, <1>8

LEMMA MaxOfTwo ==
    ASSUME NEW a \in Int, NEW b \in Int
    PROVE  Max({a, b}) \in Int /\ Max({a, b}) >= a /\ Max({a, b}) >= b
<1>1. \E x \in {a, b} : \A y \in {a, b} : x >= y
  OBVIOUS
<1>2. PICK m : m = Max({a, b})
  OBVIOUS
<1>3. m \in {a, b} /\ \A y \in {a, b} : m >= y
  BY <1>1, <1>2, Zenon DEF Max
<1> QED
  BY <1>2, <1>3

LEMMA SumBound ==
    ASSUME NEW t \in Nat, NEW k \in Nat, NEW h \in Nat, NEW a \in Nat, NEW flood \in Nat,
           NEW first \in Nat, NEW buffer \in Nat, NEW m \in Int, NEW u \in Nat,
           t <= k + h + a, k <= flood + buffer + u \/ k <= first + buffer + u, m >= flood,
           m >= first
    PROVE  t <= m + buffer + h + a + u
OBVIOUS

\* GetTotalRecvSize keeps its bound.
First(v) == IF v = << >> THEN 0 ELSE SizeOf(Head(v).hdr[1].msg)
Bounded(v, u) ==
    Total(v) <= Max({ReceiveFloodSize, First(v)}) + SocketBuffer + HeaderSize + Ahead + u
LEMMA LinkedBounded ==
    ASSUME NEW v, NEW pu, NEW pr, NEW rest, NEW u, Linked(v, pu, pr, rest, u)
    PROVE  Bounded(v, u)
<1>1. PICK todo \in Seq(Message) : Framed(v, todo, rest) /\ Within(todo, rest, u) /\ u \in Nat
  <2>1. /\ pu \in Seq(Message) /\ pr \in Seq(Message) /\ Len(pr) <= Len(pu)
        /\ Framed(v, Rest(pu, Len(pr)), rest) /\ Within(Rest(pu, Len(pr)), rest, u)
        /\ u \in Nat
    BY DEF Linked
  <2>2. Len(pr) \in 0..Len(pu)
    BY <2>1, LenProperties
  <2>3. Rest(pu, Len(pr)) \in Seq(Message)
    BY <2>1, <2>2, RestIs DEF IsRest
  <2> QED
    BY <2>1, <2>3
<1>2. /\ Total(v) \in Nat /\ Have(todo, rest) \in Nat
      /\ Total(v) <= Have(todo, rest) + HeaderSize + Ahead
  BY <1>1, TotalBounds
<1>3. CASE v = << >>
  <2>1. Total(v) = 0 /\ First(v) = 0
    BY <1>1, <1>3, TotalIs DEF First
  <2>2. PICK m \in Int : m = Max({ReceiveFloodSize, First(v)}) /\ m >= 0
    <3>1. ReceiveFloodSize \in Int /\ First(v) \in Int
      BY <2>1, Constants
    <3>2. /\ Max({ReceiveFloodSize, First(v)}) \in Int
          /\ Max({ReceiveFloodSize, First(v)}) >= First(v)
      BY <3>1, MaxOfTwo
    <3> QED
      BY <2>1, <3>2
  <2> QED
    BY <1>1, <2>1, <2>2, Constants DEF Bounded
<1>4. CASE v # << >>
  <2>1. /\ v \in Seq(CNetMessage) /\ Len(v) <= Len(todo)
        /\ \A i \in 1..Len(v) : Part(v[i], todo[i]) /\ Begun(v[i])
    BY <1>1 DEF Framed
  <2>2. 1 \in 1..Len(v) /\ Head(v) = v[1] /\ 1 \in 1..Len(todo)
    BY <1>4, <2>1, EmptySeq, LenProperties
  <2>3. todo[1] \in Message /\ First(v) = SizeOf(todo[1])
    <3>1. todo[1] \in Message /\ Part(v[1], todo[1]) /\ Begun(v[1])
      BY <2>1, <2>2, ElementOfSeq
    <3>2. Head(v).hdr[1].msg = todo[1]
      BY <2>2, <3>1, NamesItself
    <3> QED
      BY <1>4, <3>1, <3>2 DEF First
  <2>4. PICK flood \in Nat, first \in Nat, buffer \in Nat, m \in Int :
           /\ flood = ReceiveFloodSize /\ first = First(v) /\ buffer = SocketBuffer
           /\ m = Max({ReceiveFloodSize, First(v)}) /\ m >= flood /\ m >= first
    <3>1. SizeOf(todo[1]) \in Nat
      BY <2>3, UnitsAre
    <3>2. ReceiveFloodSize \in Int /\ First(v) \in Int
      BY <2>3, <3>1, Constants
    <3>3. /\ Max({ReceiveFloodSize, First(v)}) \in Int
          /\ Max({ReceiveFloodSize, First(v)}) >= ReceiveFloodSize
          /\ Max({ReceiveFloodSize, First(v)}) >= First(v)
      BY <3>2, MaxOfTwo
    <3>4. ReceiveFloodSize \in Nat /\ First(v) \in Nat /\ SocketBuffer \in Nat
      BY <2>3, <3>1, Constants
    <3> QED
      BY <3>3, <3>4, Zenon
  <2>5. Have(todo, rest) <= flood + buffer + u \/ Have(todo, rest) <= first + buffer + u
    BY <1>1, <2>3, <2>4, Zenon DEF Within
  <2>6. Total(v) <= m + buffer + HeaderSize + Ahead + u
    <3>1. PICK t \in Nat, k \in Nat, h \in Nat, a \in Nat :
             /\ t = Total(v) /\ k = Have(todo, rest) /\ h = HeaderSize /\ a = Ahead
             /\ t <= k + h + a
      BY <1>2, Constants, Zenon
    <3>2. k <= flood + buffer + u \/ k <= first + buffer + u
      BY <2>5, <3>1, Zenon
    <3>3. m >= flood /\ m >= first
      BY <2>4, Zenon
    <3>4. t <= m + buffer + h + a + u
      BY <1>1, <3>1, <3>2, <3>3, SumBound, Zenon
    <3> QED
      BY <3>1, <3>4, Zenon
  <2> QED
    BY <2>4, <2>6, Zenon DEF Bounded
<1> QED
  BY <1>3, <1>4

\* The units received, joined: the messages before the last are whole.
LEMMA ReceivedIs ==
    ASSUME NEW todo \in Seq(Message), NEW v, NEW rest, Framed(v, todo, rest)
    PROVE  Received(v) \in Seq(Unit) /\ Stream(todo) = Received(v) \o rest
<1>1. /\ v \in Seq(CNetMessage) /\ rest \in Seq(Unit) /\ Len(v) <= Len(todo)
      /\ \A i \in 1..Len(v) : Part(v[i], todo[i]) /\ Begun(v[i])
      /\ \A i \in 1..Len(v) : i < Len(v) => complete(v[i])
      /\ IF v = << >> THEN Stream(todo) = rest
         ELSE Stream(Rest(todo, Len(v) - 1)) = Arrived(v[Len(v)]) \o rest
  BY DEF Framed
<1>2. PICK n \in Nat, l \in Nat : n = Len(v) /\ l = Len(todo) /\ n <= l /\ DOMAIN v = 1..n
  BY <1>1, LenProperties
<1>3. Received(v) = FlattenSeq([i \in 1..n |-> Arrived(v[i])])
  BY <1>2 DEF Received, Arrived
<1>4. CASE v = << >>
  <2>1. n = 0
    BY <1>2, <1>4, EmptySeq
  <2>2. [i \in 1..n |-> Arrived(v[i])] = << >>
    BY <2>1
  <2>3. Received(v) = << >>
    BY <1>3, <2>2, FlattenEmpty
  <2>4. << >> \o rest = rest
    BY <1>1, ConcatEmptySeq
  <2> QED
    BY <1>1, <1>4, <2>3, <2>4, EmptySeq
<1>5. CASE v # << >>
  <2>1. PICK k \in Nat : n = k + 1 /\ n - 1 = k
    <3>1. Len(v) # 0
      BY <1>1, <1>5, EmptySeq
    <3>2. n \in Nat /\ n # 0
      BY <1>2, <3>1, Zenon
    <3>3. n - 1 \in Nat /\ n = (n - 1) + 1
      BY <3>2
    <3> QED
      BY <3>3, Zenon
  <2>2. n \in 1..Len(v) /\ n \in 1..Len(todo) /\ k \in 0..Len(todo)
    BY <1>2, <2>1
  <2>3. PICK b \in Seq(Message) :
           b = SubSeq(todo, 1, k) /\ Len(b) = k /\ \A i \in 1..k : b[i] = todo[i]
    <3>1. /\ SubSeq(todo, 1, k) \in Seq(Message) /\ Len(SubSeq(todo, 1, k)) = k
          /\ \A i \in 1..k : SubSeq(todo, 1, k)[i] = todo[i]
      BY <2>2, SplitAt
    <3> QED
      BY <3>1
  <2>4. PICK p \in Seq(Seq(Unit)) : p = Pieces(b) /\ Len(p) = k /\ Stream(b) = FlattenSeq(p)
                                    /\ \A i \in 1..k : p[i] = Units(b[i])
    BY <2>3, PiecesAre
  <2>5. \A i \in 1..k : p[i] = Arrived(v[i])
    <3> TAKE i \in 1..k
    <3>1. i \in 1..Len(v) /\ i < Len(v) /\ i \in 1..Len(todo)
      BY <1>2, <2>1
    <3>2. Part(v[i], todo[i]) /\ complete(v[i]) /\ todo[i] \in Message
      BY <1>1, <3>1, ElementOfSeq
    <3>3. Arrived(v[i]) = Units(todo[i])
      BY <3>2, ArrivedIs
    <3> QED
      BY <2>3, <2>4, <3>3
  <2>6. PICK a \in Seq(Unit) : a = Arrived(v[n])
    <3>1. todo[n] \in Message /\ Part(v[n], todo[n])
      BY <1>1, <2>2, ElementOfSeq
    <3> QED
      BY <3>1, ArrivedIs
  <2>7. PICK q \in Seq(Seq(Unit)) : q = Append(p, a) /\ Len(q) = n /\ q[n] = a
                                    /\ \A i \in 1..k : q[i] = p[i]
    <3>1. /\ Append(p, a) \in Seq(Seq(Unit)) /\ Len(Append(p, a)) = Len(p) + 1
          /\ Append(p, a)[Len(p) + 1] = a /\ \A i \in 1..Len(p) : Append(p, a)[i] = p[i]
      BY AppendProperties
    <3> QED
      BY <2>1, <2>4, <3>1
  <2>8. [i \in 1..n |-> Arrived(v[i])] = q
    <3> DEFINE arr(i) == Arrived(v[i])
    <3>1. \A i \in 1..n : q[i] = arr(i)
      <4> TAKE i \in 1..n
      <4>1. i = n \/ i \in 1..k
        BY <2>1
      <4> QED
        BY <2>5, <2>6, <2>7, <4>1
    <3> HIDE DEF arr
    <3>2. DOMAIN q = 1..n /\ q = [i \in DOMAIN q |-> q[i]]
      BY <2>7, LenProperties
    <3>3. q = [i \in 1..n |-> arr(i)]
      BY <3>1, <3>2
    <3> QED
      BY <3>3 DEF arr
  <2>9. Received(v) = Stream(b) \o a
    <3>1. FlattenSeq(Append(p, a)) = FlattenSeq(p) \o a
      BY FlattenAppend
    <3> QED
      BY <1>3, <2>4, <2>7, <2>8, <3>1, Zenon
  <2>10. PICK s \in Seq(Unit) : s = Stream(b)
    BY StreamType
  <2>11. Stream(todo) = s \o (a \o rest)
    <3>1. Stream(todo) = Stream(SubSeq(todo, 1, k)) \o Stream(Rest(todo, k))
      BY <2>2, StreamSplit DEF Rest
    <3>2. Stream(Rest(todo, k)) = a \o rest
      BY <1>1, <1>2, <1>5, <2>1, <2>6
    <3> QED
      BY <2>3, <2>10, <3>1, <3>2, Zenon
  <2>12. (s \o a) \o rest = s \o (a \o rest)
    <3>1. Regrouping(s, a, rest)
      BY <1>1, Regroups
    <3> QED
      BY <3>1 DEF Regrouping
  <2>13. s \o a \in Seq(Unit)
    BY ConcatProperties
  <2> QED
    BY <2>9, <2>10, <2>11, <2>12, <2>13, Zenon
<1> QED
  BY <1>4, <1>5

\* InOrder, of one direction, but for the connection being up.
Ordered(v, c, pu, pr) ==
    /\ Stream(pu) = Stream(pr) \o Received(v) \o c.wire
                    \o SubSeq(Stream(c.vSendMsg), c.nSendOffset + 1, Len(Stream(c.vSendMsg)))
    /\ \A i \in DOMAIN v :
         /\ IsPrefix(v[i].hdr \o v[i].data, Units(v[i].hdr[1].msg))
         /\ i < Len(v) => complete(v[i])
LEMMA LinkedOrdered ==
    ASSUME NEW v, NEW c \in CNode, SendRight(c), NEW pu, NEW pr, NEW z,
           Linked(v, pu, pr, OnItsWay(c), z)
    PROVE  Ordered(v, c, pu, pr)
<1>1. /\ pu \in Seq(Message) /\ pr \in Seq(Message) /\ Len(pr) <= Len(pu)
      /\ pr = SubSeq(pu, 1, Len(pr)) /\ Framed(v, Rest(pu, Len(pr)), OnItsWay(c))
  BY DEF Linked
<1>2. Len(pr) \in 0..Len(pu)
  BY <1>1, LenProperties
<1>3. PICK todo \in Seq(Message) : todo = Rest(pu, Len(pr)) /\ Framed(v, todo, OnItsWay(c))
  BY <1>1, <1>2, RestIs DEF IsRest
<1>4. PICK w \in Seq(Unit), u \in Seq(Unit) :
         w = c.wire /\ OnItsWay(c) = w \o u
         /\ u = SubSeq(Stream(c.vSendMsg), c.nSendOffset + 1, Len(Stream(c.vSendMsg)))
  <2>1. c.wire \in Seq(Unit)
    BY DEF CNode
  <2>2. PICK s \in Seq(Unit) : s = Stream(c.vSendMsg) /\ c.nSendOffset \in 0..Len(s)
    BY OffsetWithin, LenProperties
  <2>3. Rest(s, c.nSendOffset) \in Seq(Unit)
    BY <2>2, RestIs DEF IsRest
  <2> QED
    BY <2>1, <2>2, <2>3, Zenon DEF OnItsWay, Rest
<1>5. PICK g \in Seq(Unit), p \in Seq(Unit) : g = Received(v) /\ p = Stream(pr)
  BY <1>1, <1>3, ReceivedIs, StreamType
<1>6. Stream(pu) = p \o (g \o (w \o u))
  <2>1. Stream(pu) = Stream(pr) \o Stream(todo)
    BY <1>1, <1>2, <1>3, StreamSplit DEF Rest
  <2>2. Stream(todo) = g \o (w \o u)
    BY <1>3, <1>4, <1>5, ReceivedIs
  <2> QED
    BY <1>5, <2>1, <2>2, Zenon
<1>7. p \o (g \o (w \o u)) = ((p \o g) \o w) \o u
  <2>1. p \o ((g \o w) \o u) = (p \o g) \o (w \o u)
    <3>1. Regrouped(p, g, w, u)
      BY Regroup
    <3> QED
      BY <3>1 DEF Regrouped
  <2>2. (g \o w) \o u = g \o (w \o u)
    <3>1. Regrouping(g, w, u)
      BY Regroups
    <3> QED
      BY <3>1 DEF Regrouping
  <2>3. PICK h \in Seq(Unit) : h = p \o g
    BY ConcatProperties
  <2>4. (h \o w) \o u = h \o (w \o u)
    <3>1. Regrouping(h, w, u)
      BY Regroups
    <3> QED
      BY <3>1 DEF Regrouping
  <2> QED
    BY <2>1, <2>2, <2>3, <2>4, Zenon
<1>8. /\ v \in Seq(CNetMessage) /\ Len(v) <= Len(todo)
      /\ \A i \in 1..Len(v) : Part(v[i], todo[i]) /\ Begun(v[i])
      /\ \A i \in 1..Len(v) : i < Len(v) => complete(v[i])
  BY <1>3 DEF Framed
<1>9. DOMAIN v = 1..Len(v)
  BY <1>8, LenProperties
<1>10. \A i \in DOMAIN v : IsPrefix(v[i].hdr \o v[i].data, Units(v[i].hdr[1].msg))
  <2> TAKE i \in DOMAIN v
  <2>1. i \in 1..Len(v) /\ i \in 1..Len(todo)
    BY <1>8, <1>9, LenProperties
  <2>2. PICK x, m : x = v[i] /\ m = todo[i] /\ m \in Message /\ Part(x, m) /\ Begun(x)
    <3>1. todo[i] \in Message
      BY <2>1, ElementOfSeq
    <3>2. Part(v[i], todo[i]) /\ Begun(v[i])
      BY <1>8, <2>1, Zenon
    <3> QED
      BY <3>1, <3>2, Zenon
  <2>3. x.hdr[1].msg = m
    BY <2>2, NamesItself
  <2>4. PICK a \in Seq(Unit), t \in Seq(Unit) :
           a = Arrived(x) /\ t = Units(m) /\ Len(a) <= Len(t)
           /\ \A j \in 1..Len(a) : a[j] = t[j]
    <3>1. /\ Arrived(x) \in Seq(Unit) /\ Len(Arrived(x)) <= SizeOf(m)
          /\ \A j \in 1..Len(Arrived(x)) : Arrived(x)[j] = Units(m)[j]
      BY <2>2, ArrivedIs
    <3>2. Units(m) \in Seq(Unit) /\ Len(Units(m)) = SizeOf(m)
      BY <2>2, UnitsAre
    <3> QED
      BY <3>1, <3>2, Zenon
  <2>5. SubSeq(a, 1, Len(a)) = a
    BY SubSeqFull
  <2>6. SubSeq(t, 1, Len(a)) = a
    <3>1. PICK k \in Nat : k = Len(a) /\ k \in 0..Len(t)
      BY <2>4, LenProperties
    <3>2. PICK b \in Seq(Unit) : b = SubSeq(t, 1, k) /\ Len(b) = k /\ \A j \in 1..k : b[j] = t[j]
      <4>1. /\ SubSeq(t, 1, k) \in Seq(Unit) /\ Len(SubSeq(t, 1, k)) = k
            /\ \A j \in 1..k : SubSeq(t, 1, k)[j] = t[j]
        BY <3>1, SplitAt
      <4> QED
        BY <4>1
    <3>3. b = a
      BY <2>4, <3>1, <3>2, SeqEqual
    <3> QED
      BY <3>1, <3>2, <3>3
  <2>7. IsPrefix(a, t)
    BY <2>4, <2>5, <2>6 DEF IsPrefix
  <2> QED
    BY <2>2, <2>3, <2>4, <2>7, Zenon DEF Arrived
<1>11. \A i \in DOMAIN v : i < Len(v) => complete(v[i])
  BY <1>8, <1>9
<1> QED
  BY <1>4, <1>5, <1>6, <1>7, <1>10, <1>11, Zenon DEF Ordered

-----------------------------------------------------------------------------
(* The inductive invariant *)

\* No message is larger than any may be.
Fits == RequestSize <= MaxSize /\ ReplySize <= MaxSize

\* p reads what the other queues.
Link(p) == Linked(conn[p].vRecvMsg, pushed[Other(p)], processed[p], OnItsWay(conn[Other(p)]),
                  unasked[p])

QueueInv ==
    /\ conn \in [Peers -> CNode]
    /\ pushed \in [Peers -> Seq(Message)] /\ processed \in [Peers -> Seq(Message)]
    /\ \A p \in Peers : Sender(conn[p])
    /\ unasked \in [Peers -> Nat]
    /\ \A p \in Peers : Bounded(conn[p].vRecvMsg, unasked[p])
    /\ Up => \A p \in Peers : Link(p)
    /\ Fits => Up /\ \A p \in Peers : ~TooLarge(pushed[p])

LEMMA OtherIs ==
    ASSUME NEW p \in Peers
    PROVE  /\ Other(p) \in Peers /\ Other(p) # p /\ Other(Other(p)) = p
           /\ \A r \in Peers : r = p \/ r = Other(p)
<1>1. PICK x \in Peers, y \in Peers : x # y /\ Peers = {x, y}
  BY QueueAssumption
<1>2. \A r \in Peers : Other(r) \in Peers /\ Other(r) # r
  BY <1>1 DEF Other
<1> QED
  BY <1>1, <1>2

LEMMA LinkedEmpty ==
    ASSUME NEW u \in Nat
    PROVE  Linked(<< >>, << >>, << >>, << >>, u)
<1>1. << >> \in Seq(Message) /\ << >> \in Seq(CNetMessage) /\ << >> \in Seq(Unit)
      /\ Len(<< >>) = 0 /\ 0 <= 0
  BY EmptySeq
<1>2. Stream(<< >>) = << >>
  BY StreamEmpty
<1>3. Framed(<< >>, << >>, << >>)
  BY <1>1, <1>2 DEF Framed
<1>4. Have(<< >>, << >>) = 0
  BY <1>1, <1>2 DEF Have
<1>5. SubSeq(<< >>, 1, 0) = << >> /\ Rest(<< >>, 0) = << >>
  BY <1>1, SubSeqEmpty DEF Rest
<1>6. Within(<< >>, << >>, u)
  BY <1>4, Constants DEF Within
<1> QED
  BY <1>1, <1>3, <1>5, <1>6, Zenon DEF Linked

LEMMA InitQueue == Init => QueueInv
<1> SUFFICES ASSUME Init PROVE QueueInv
  OBVIOUS
<1> DEFINE c == [vSendMsg |-> << >>, nSendOffset |-> 0, nSendSize |-> 0,
                 vRecvMsg |-> << >>, wire |-> << >>, fDisconnect |-> FALSE]
<1>1. /\ conn = [p \in Peers |-> c] /\ unasked = [p \in Peers |-> 0]
      /\ pushed = [p \in Peers |-> << >>] /\ processed = [p \in Peers |-> << >>]
  BY DEF Init
<1>2. << >> \in Seq(Message) /\ << >> \in Seq(CNetMessage) /\ << >> \in Seq(Unit)
      /\ Len(<< >>) = 0
  BY EmptySeq
<1>3. /\ c.vSendMsg = << >> /\ c.nSendOffset = 0 /\ c.nSendSize = 0 /\ c.vRecvMsg = << >>
      /\ c.wire = << >> /\ c.fDisconnect = FALSE
  OBVIOUS
<1>4. c \in CNode
  BY <1>2 DEF CNode
<1> HIDE DEF c
<1>5. Stream(<< >>) = << >> /\ SumOfSizes(<< >>) = 0
  BY <1>2, StreamEmpty DEF SumOfSizes
<1>6. Sender(c)
  BY <1>2, <1>3, <1>4, <1>5, Constants DEF Sender, SendRight
<1>7. OnItsWay(c) = << >>
  <2>1. Rest(<< >>, 0) = << >>
    BY <1>2, SubSeqEmpty DEF Rest
  <2>2. << >> \o << >> = << >>
    BY <1>2, ConcatEmptySeq
  <2> QED
    BY <1>3, <1>5, <2>1, <2>2, Zenon DEF OnItsWay
<1>8. Linked(<< >>, << >>, << >>, << >>, 0) /\ Bounded(<< >>, 0)
  BY LinkedEmpty, LinkedBounded
<1>9. \A p \in Peers : /\ conn[p] = c /\ pushed[p] = << >> /\ processed[p] = << >>
                       /\ unasked[p] = 0
                       /\ Other(p) \in Peers
  BY <1>1, OtherIs
<1>10. /\ conn \in [Peers -> CNode]
       /\ pushed \in [Peers -> Seq(Message)] /\ processed \in [Peers -> Seq(Message)]
  BY <1>1, <1>2, <1>4
<1>11. \A p \in Peers : Link(p)
  BY <1>3, <1>7, <1>8, <1>9 DEF Link
<1>12. unasked \in [Peers -> Nat] /\ \A p \in Peers : Bounded(conn[p].vRecvMsg, unasked[p])
  BY <1>1, <1>3, <1>8, <1>9
<1>13. Up
  BY <1>3, <1>9 DEF Up
<1>14. \A p \in Peers : ~TooLarge(pushed[p])
  BY <1>2, <1>9 DEF TooLarge
<1> QED
  BY <1>6, <1>9, <1>10, <1>11, <1>12, <1>13, <1>14 DEF QueueInv

\* A step that leaves the connection up.
LEMMA StaysUp ==
    ASSUME conn' \in [Peers -> CNode], pushed' \in [Peers -> Seq(Message)],
           processed' \in [Peers -> Seq(Message)], unasked' \in [Peers -> Nat],
           \A r \in Peers : Sender(conn'[r]) /\ ~conn'[r].fDisconnect,
           \A r \in Peers : Linked(conn'[r].vRecvMsg, pushed'[Other(r)], processed'[r],
                                   OnItsWay(conn'[Other(r)]), unasked'[r]),
           Fits => \A r \in Peers : ~TooLarge(pushed'[r])
    PROVE  QueueInv'
<1>1. \A r \in Peers : Bounded(conn'[r].vRecvMsg, unasked'[r])
  BY LinkedBounded
<1>2. Up'
  BY DEF Up
<1>3. \A r \in Peers : Link(r)'
  BY DEF Link, Other
<1> QED
  BY <1>1, <1>2, <1>3 DEF QueueInv, Fits

\* What the invariant says of both peers while the connection is up.
LEMMA UpIs ==
    ASSUME QueueInv, Up, NEW r \in Peers
    PROVE  /\ conn[r] \in CNode /\ Sender(conn[r]) /\ ~conn[r].fDisconnect
           /\ pushed[r] \in Seq(Message) /\ processed[r] \in Seq(Message)
           /\ Linked(conn[r].vRecvMsg, pushed[Other(r)], processed[r], OnItsWay(conn[Other(r)]),
                     unasked[r])
           /\ Fits => ~TooLarge(pushed[r])
<1>1. conn[r] \in CNode /\ pushed[r] \in Seq(Message) /\ processed[r] \in Seq(Message)
  BY DEF QueueInv
<1>2. Sender(conn[r]) /\ ~conn[r].fDisconnect /\ (Fits => ~TooLarge(pushed[r]))
  BY DEF QueueInv, Up
<1>3. Link(r)
  BY DEF QueueInv
<1> QED
  BY <1>1, <1>2, <1>3 DEF Link

LEMMA SocketSendStep ==
    ASSUME QueueInv, NEW p \in Peers, SocketSend(p)
    PROVE  QueueInv'
<1>1. Up /\ pushed' = pushed /\ processed' = processed /\ unasked' = unasked
  BY DEF SocketSend
<1>2. PICK d \in SocketSendData(conn[p]) : conn' = [conn EXCEPT ![p] = d]
  BY DEF SocketSend
<1>3. Sender(conn[p])
  BY <1>1, UpIs
<1>4. Sender(d) /\ SameReceiver(conn[p], d) /\ OnItsWay(d) = OnItsWay(conn[p])
  BY <1>3, SocketSendDataDoes
<1>5. conn \in [Peers -> CNode] /\ pushed \in [Peers -> Seq(Message)]
      /\ processed \in [Peers -> Seq(Message)] /\ unasked \in [Peers -> Nat]
  BY DEF QueueInv
<1>6. d \in CNode
  BY <1>4 DEF Sender
<1>7. conn' \in [Peers -> CNode] /\ \A r \in Peers : conn'[r] = IF r = p THEN d ELSE conn[r]
  BY <1>2, <1>5, <1>6
<1>8. \A r \in Peers : /\ conn'[r].vRecvMsg = conn[r].vRecvMsg
                       /\ conn'[r].fDisconnect = conn[r].fDisconnect
                       /\ OnItsWay(conn'[r]) = OnItsWay(conn[r]) /\ Sender(conn'[r])
  <2> TAKE r \in Peers
  <2>1. CASE r = p
    BY <1>4, <1>7, <2>1 DEF SameReceiver
  <2>2. CASE r # p
    BY <1>1, <1>7, <2>2, UpIs
  <2> QED
    BY <2>1, <2>2
<1>9. \A r \in Peers : Sender(conn'[r]) /\ ~conn'[r].fDisconnect
  BY <1>1, <1>8, UpIs
<1>10. \A r \in Peers : Linked(conn'[r].vRecvMsg, pushed'[Other(r)], processed'[r],
                               OnItsWay(conn'[Other(r)]), unasked'[r])
  <2> TAKE r \in Peers
  <2>1. Other(r) \in Peers
    BY OtherIs
  <2>2. Linked(conn[r].vRecvMsg, pushed[Other(r)], processed[r], OnItsWay(conn[Other(r)]),
                     unasked[r])
    BY <1>1, UpIs
  <2> QED
    BY <1>1, <1>8, <2>1, <2>2
<1>11. Fits => \A r \in Peers : ~TooLarge(pushed'[r])
  BY <1>1, UpIs
<1> QED
  BY <1>1, <1>5, <1>7, <1>9, <1>10, <1>11, StaysUp

\* A message is queued.
Pushes(p, c, d, m) ==
    /\ m \in Message /\ m.size \in {RequestSize, ReplySize}
    /\ conn' = [conn EXCEPT ![p] = d] /\ pushed' = [pushed EXCEPT ![p] = Append(@, m)]
    /\ Sender(d) /\ SameReceiver(c, d) /\ OnItsWay(d) = OnItsWay(c) \o Units(m)
LEMMA PushDoes ==
    ASSUME NEW p \in Peers, NEW c, NEW request \in BOOLEAN, pushed[p] \in Seq(Message),
           Sender(c), PushMessage(p, c, request)
    PROVE  \E d, m : Pushes(p, c, d, m)
<1>1. PICK i \in Nat, z \in Nat :
         i = Len(pushed[p]) + 1 /\ z = (IF request THEN RequestSize ELSE ReplySize)
         /\ z \in {RequestSize, ReplySize}
  BY Constants, LenProperties
<1>2. PICK m : m = [id |-> i, request |-> request, size |-> z]
  OBVIOUS
<1>3. m \in Message /\ m.size = z
  BY <1>2 DEF Message
<1>4. m = [id |-> Len(pushed[p]) + 1, request |-> request,
           size |-> IF request THEN RequestSize ELSE ReplySize]
  BY <1>1, <1>2
<1>5. /\ \E d \in EndMessage(c, m) : conn' = [conn EXCEPT ![p] = d]
      /\ pushed' = [pushed EXCEPT ![p] = Append(@, m)]
  BY <1>4, Zenon DEF PushMessage
<1>6. PICK d \in EndMessage(c, m) : conn' = [conn EXCEPT ![p] = d]
  BY <1>5
<1>7. Sender(d) /\ SameReceiver(c, d) /\ OnItsWay(d) = OnItsWay(c) \o Units(m)
  BY <1>3, EndMessageDoes
<1>8. m.size \in {RequestSize, ReplySize}
  BY <1>1, <1>3
<1> QED
  BY <1>3, <1>5, <1>6, <1>7, <1>8, Zenon DEF Pushes

LEMMA StillFits ==
    ASSUME Fits, NEW s \in Seq(Message), ~TooLarge(s), NEW m \in Message,
           m.size \in {RequestSize, ReplySize}
    PROVE  ~TooLarge(Append(s, m))
<1>1. /\ Append(s, m) \in Seq(Message) /\ Len(Append(s, m)) = Len(s) + 1
      /\ \A i \in 1..Len(s) : Append(s, m)[i] = s[i] /\ Append(s, m)[Len(s) + 1] = m
  BY AppendProperties
<1>2. ~(m.size > MaxSize)
  BY Constants DEF Fits
<1> SUFFICES ASSUME NEW i \in 1..(Len(s) + 1), Append(s, m)[i].size > MaxSize PROVE FALSE
  BY <1>1 DEF TooLarge
<1>3. i \in 1..Len(s) \/ i = Len(s) + 1
  BY LenProperties
<1>4. Append(s, m)[Len(s) + 1] = m
  BY AppendProperties
<1> QED
  BY <1>1, <1>2, <1>3, <1>4 DEF TooLarge

\* What queueing a message does to the other end.
LEMMA PushSteps ==
    ASSUME QueueInv, Up, NEW p \in Peers, NEW c, NEW d, NEW m, Pushes(p, c, d, m),
           c \in CNode, OnItsWay(c) = OnItsWay(conn[p]), c.fDisconnect = FALSE
    PROVE  /\ conn' \in [Peers -> CNode] /\ pushed' \in [Peers -> Seq(Message)]
           /\ \A r \in Peers : Sender(conn'[r]) /\ ~conn'[r].fDisconnect
           /\ conn'[p].vRecvMsg = c.vRecvMsg
           /\ pushed'[Other(p)] = pushed[Other(p)]
           /\ OnItsWay(conn'[Other(p)]) = OnItsWay(conn[Other(p)])
           /\ Linked(conn'[Other(p)].vRecvMsg, pushed'[p], processed[Other(p)], OnItsWay(conn'[p]),
                     unasked[Other(p)])
           /\ Fits => \A r \in Peers : ~TooLarge(pushed'[r])
<1>1. /\ m \in Message /\ m.size \in {RequestSize, ReplySize}
      /\ conn' = [conn EXCEPT ![p] = d] /\ pushed' = [pushed EXCEPT ![p] = Append(@, m)]
      /\ Sender(d) /\ d.vRecvMsg = c.vRecvMsg /\ d.fDisconnect = c.fDisconnect
      /\ OnItsWay(d) = OnItsWay(c) \o Units(m)
  BY DEF Pushes, SameReceiver
<1>2. conn \in [Peers -> CNode] /\ pushed \in [Peers -> Seq(Message)]
  BY DEF QueueInv
<1>3. d \in CNode
  BY <1>1 DEF Sender
<1>4. PICK s \in Seq(Message) : s = pushed[p] /\ Append(s, m) \in Seq(Message)
  BY <1>1, <1>2, AppendProperties
<1>5. conn' \in [Peers -> CNode] /\ \A r \in Peers : conn'[r] = IF r = p THEN d ELSE conn[r]
  BY <1>1, <1>2, <1>3
<1>6. /\ pushed' \in [Peers -> Seq(Message)]
      /\ \A r \in Peers : pushed'[r] = IF r = p THEN Append(s, m) ELSE pushed[r]
  BY <1>1, <1>2, <1>4
<1>7. PICK q \in Peers : q = Other(p) /\ q # p /\ Other(q) = p
  BY OtherIs
<1>8. \A r \in Peers : Sender(conn'[r]) /\ ~conn'[r].fDisconnect
  BY <1>1, <1>5, UpIs
<1>9. Linked(conn[q].vRecvMsg, s, processed[q], OnItsWay(conn[p]), unasked[q])
  BY <1>4, <1>7, UpIs
<1>10. Linked(conn[q].vRecvMsg, Append(s, m), processed[q], OnItsWay(conn[p]) \o Units(m),
              unasked[q])
  BY <1>1, <1>9, LinkedPush
<1>11. Linked(conn'[q].vRecvMsg, pushed'[p], processed[q], OnItsWay(conn'[p]), unasked[q])
  <2>1. OnItsWay(conn'[p]) = OnItsWay(conn[p]) \o Units(m)
    BY <1>1, <1>5, Zenon
  <2> QED
    BY <1>5, <1>6, <1>7, <1>10, <2>1
<1>12. Fits => \A r \in Peers : ~TooLarge(pushed'[r])
  <2> SUFFICES ASSUME Fits, NEW r \in Peers PROVE ~TooLarge(pushed'[r])
    OBVIOUS
  <2>1. ~TooLarge(pushed[r])
    BY UpIs
  <2>2. CASE r = p
    BY <1>1, <1>4, <1>6, <2>1, <2>2, StillFits
  <2>3. CASE r # p
    BY <1>6, <2>1, <2>3
  <2> QED
    BY <2>2, <2>3
<1> QED
  BY <1>1, <1>5, <1>6, <1>7, <1>8, <1>11, <1>12

LEMMA SendMessagesStep ==
    ASSUME QueueInv, NEW p \in Peers, SendMessages(p)
    PROVE  QueueInv'
<1>1. Up /\ processed' = processed /\ unasked' = unasked /\ PushMessage(p, conn[p], TRUE)
  BY DEF SendMessages
<1>2. conn[p] \in CNode /\ Sender(conn[p]) /\ ~conn[p].fDisconnect /\ pushed[p] \in Seq(Message)
  BY <1>1, UpIs
<1>3. PICK d, m : Pushes(p, conn[p], d, m)
  BY <1>1, <1>2, PushDoes
<1>4. conn[p].fDisconnect = FALSE
  BY <1>2 DEF CNode
<1>5. PICK q \in Peers : q = Other(p) /\ q # p /\ Other(q) = p /\ \A r \in Peers : r = p \/ r = q
  BY OtherIs
<1>6. /\ conn' \in [Peers -> CNode] /\ pushed' \in [Peers -> Seq(Message)]
      /\ \A r \in Peers : Sender(conn'[r]) /\ ~conn'[r].fDisconnect
      /\ conn'[p].vRecvMsg = conn[p].vRecvMsg
      /\ pushed'[q] = pushed[q] /\ OnItsWay(conn'[q]) = OnItsWay(conn[q])
      /\ Linked(conn'[q].vRecvMsg, pushed'[p], processed[q], OnItsWay(conn'[p]), unasked[q])
      /\ Fits => \A r \in Peers : ~TooLarge(pushed'[r])
  BY <1>1, <1>2, <1>3, <1>4, <1>5, PushSteps
<1>7. Linked(conn[p].vRecvMsg, pushed[q], processed[p], OnItsWay(conn[q]), unasked[p])
  BY <1>1, <1>5, UpIs
<1>8. \A r \in Peers : Linked(conn'[r].vRecvMsg, pushed'[Other(r)], processed'[r],
                              OnItsWay(conn'[Other(r)]), unasked'[r])
  <2> TAKE r \in Peers
  <2>1. CASE r = p
    BY <1>1, <1>5, <1>6, <1>7, <2>1
  <2>2. CASE r = q
    BY <1>1, <1>5, <1>6, <2>2
  <2> QED
    BY <1>5, <2>1, <2>2
<1>9. processed' \in [Peers -> Seq(Message)] /\ unasked' \in [Peers -> Nat]
  BY <1>1 DEF QueueInv
<1> QED
  BY <1>6, <1>8, <1>9, StaysUp

\* A peer that reads, and sends nothing.
HasRead(c, v, f, d) == d = [c EXCEPT !.vRecvMsg = v, !.fDisconnect = f]
LEMMA ReaderIs ==
    ASSUME NEW c, Sender(c), NEW v \in Seq(CNetMessage), NEW f \in BOOLEAN,
           NEW d, HasRead(c, v, f, d)
    PROVE  /\ d \in CNode /\ Sender(d) /\ OnItsWay(d) = OnItsWay(c)
           /\ d.vRecvMsg = v /\ d.fDisconnect = f
<1>1. c \in [vSendMsg : Seq(Message), nSendOffset : Nat, nSendSize : Nat,
             vRecvMsg : Seq(CNetMessage), wire : Seq(Unit), fDisconnect : BOOLEAN]
  BY DEF Sender, CNode
<1>2. d \in CNode
  BY <1>1 DEF CNode, HasRead
<1>3. /\ d.vRecvMsg = v /\ d.fDisconnect = f /\ d.vSendMsg = c.vSendMsg
      /\ d.nSendOffset = c.nSendOffset /\ d.nSendSize = c.nSendSize /\ d.wire = c.wire
  BY <1>1 DEF HasRead
<1>4. OnItsWay(d) = OnItsWay(c)
  BY <1>3, Zenon DEF OnItsWay
<1>5. Sender(d)
  BY <1>2, <1>3, Zenon DEF Sender, SendRight
<1> QED
  BY <1>2, <1>3, <1>4, <1>5

LEMMA ProcessMessagesStep ==
    ASSUME QueueInv, NEW p \in Peers, ProcessMessages(p)
    PROVE  QueueInv'
<1> DEFINE v == conn[p].vRecvMsg
           n == Head(conn[p].vRecvMsg).hdr[1].msg
           c == [conn[p] EXCEPT !.vRecvMsg = Tail(@)]
<1>1. /\ Up /\ v # << >> /\ complete(Head(v))
      /\ processed' = [processed EXCEPT ![p] = Append(@, n)]
      /\ IF n.request THEN PushMessage(p, c, FALSE)
         ELSE conn' = [conn EXCEPT ![p] = c] /\ UNCHANGED pushed
      /\ unasked' = unasked /\ unasked \in [Peers -> Nat]
  BY DEF ProcessMessages, CanProcess, QueueInv
<1>2. /\ conn[p] \in CNode /\ Sender(conn[p]) /\ ~conn[p].fDisconnect
      /\ pushed[p] \in Seq(Message) /\ processed[p] \in Seq(Message)
  BY <1>1, UpIs
<1>3. v \in Seq(CNetMessage) /\ conn[p].fDisconnect = FALSE
  BY <1>2 DEF CNode
<1>4. Tail(v) \in Seq(CNetMessage)
  BY <1>1, <1>3, HeadTailProperties
<1>5. c = [conn[p] EXCEPT !.vRecvMsg = Tail(v), !.fDisconnect = FALSE]
  <2>1. conn[p] \in [vSendMsg : Seq(Message), nSendOffset : Nat, nSendSize : Nat,
                     vRecvMsg : Seq(CNetMessage), wire : Seq(Unit), fDisconnect : BOOLEAN]
    BY <1>2 DEF CNode
  <2>2. PICK d, t : d = conn[p] /\ t = Tail(v)
    OBVIOUS
  <2>3. [d EXCEPT !.vRecvMsg = t] = [d EXCEPT !.vRecvMsg = t, !.fDisconnect = FALSE]
    BY <1>3, <2>1, <2>2
  <2> QED
    BY <2>2, <2>3, Zenon
<1>6. /\ c \in CNode /\ Sender(c) /\ OnItsWay(c) = OnItsWay(conn[p])
      /\ c.vRecvMsg = Tail(v) /\ c.fDisconnect = FALSE
  <2>1. PICK w \in Seq(CNetMessage) : w = Tail(v)
    BY <1>4
  <2>2. PICK d : d = c
    OBVIOUS
  <2>3. FALSE \in BOOLEAN /\ d = [conn[p] EXCEPT !.vRecvMsg = w, !.fDisconnect = FALSE]
    BY <1>5, <2>1, <2>2
  <2>4. /\ d \in CNode /\ Sender(d) /\ OnItsWay(d) = OnItsWay(conn[p])
        /\ d.vRecvMsg = w /\ d.fDisconnect = FALSE
    <3>1. PICK e, f : e = conn[p] /\ f = FALSE
      OBVIOUS
    <3>2. Sender(e) /\ f \in BOOLEAN /\ HasRead(e, w, f, d)
      BY <1>2, <2>3, <3>1, Zenon DEF HasRead
    <3>3. /\ d \in CNode /\ Sender(d) /\ OnItsWay(d) = OnItsWay(e)
          /\ d.vRecvMsg = w /\ d.fDisconnect = f
      BY <3>2, ReaderIs
    <3> QED
      BY <3>1, <3>3, Zenon
  <2> QED
    BY <2>1, <2>4, <2>2, Zenon
<1>7. PICK q \in Peers : q = Other(p) /\ q # p /\ Other(q) = p /\ \A r \in Peers : r = p \/ r = q
  BY OtherIs
<1>8. /\ Linked(v, pushed[q], processed[p], OnItsWay(conn[q]), unasked[p])
      /\ Linked(conn[q].vRecvMsg, pushed[p], processed[q], OnItsWay(conn[p]), unasked[q])
  BY <1>1, <1>7, UpIs
<1>9. /\ n \in Message
      /\ Linked(Tail(v), pushed[q], Append(processed[p], n), OnItsWay(conn[q]), unasked[p])
  BY <1>1, <1>8, LinkedTail
<1> HIDE DEF v, n, c
<1>10. processed \in [Peers -> Seq(Message)] /\ Append(processed[p], n) \in Seq(Message)
  BY <1>2, <1>9, AppendProperties DEF QueueInv
<1>11. /\ processed' \in [Peers -> Seq(Message)]
       /\ processed'[p] = Append(processed[p], n) /\ processed'[q] = processed[q]
       /\ unasked' \in [Peers -> Nat] /\ unasked'[p] = unasked[p] /\ unasked'[q] = unasked[q]
  BY <1>1, <1>7, <1>10
<1>12. CASE n.request
  <2>1. PICK d, m : Pushes(p, c, d, m)
    BY <1>1, <1>2, <1>6, <1>12, PushDoes
  <2>2. /\ conn' \in [Peers -> CNode] /\ pushed' \in [Peers -> Seq(Message)]
        /\ \A r \in Peers : Sender(conn'[r]) /\ ~conn'[r].fDisconnect
        /\ conn'[p].vRecvMsg = c.vRecvMsg
        /\ pushed'[q] = pushed[q] /\ OnItsWay(conn'[q]) = OnItsWay(conn[q])
        /\ Linked(conn'[q].vRecvMsg, pushed'[p], processed[q], OnItsWay(conn'[p]), unasked[q])
        /\ Fits => \A r \in Peers : ~TooLarge(pushed'[r])
    BY <1>1, <1>6, <1>7, <2>1, PushSteps
  <2>3. \A r \in Peers : Linked(conn'[r].vRecvMsg, pushed'[Other(r)], processed'[r],
                                OnItsWay(conn'[Other(r)]), unasked'[r])
    <3> TAKE r \in Peers
    <3>1. CASE r = p
      BY <1>6, <1>7, <1>9, <1>11, <2>2, <3>1
    <3>2. CASE r = q
      BY <1>7, <1>11, <2>2, <3>2
    <3> QED
      BY <1>7, <3>1, <3>2
  <2> QED
    BY <1>11, <2>2, <2>3, StaysUp
<1>13. CASE ~n.request
  <2>1. conn' = [conn EXCEPT ![p] = c] /\ pushed' = pushed
    BY <1>1, <1>13
  <2>2. conn \in [Peers -> CNode] /\ pushed \in [Peers -> Seq(Message)]
    BY DEF QueueInv
  <2>3. conn' \in [Peers -> CNode] /\ conn'[p] = c /\ conn'[q] = conn[q]
    BY <1>6, <1>7, <2>1, <2>2
  <2>4. \A r \in Peers : Sender(conn'[r]) /\ ~conn'[r].fDisconnect
    BY <1>1, <1>6, <1>7, <2>3, UpIs
  <2>5. \A r \in Peers : Linked(conn'[r].vRecvMsg, pushed'[Other(r)], processed'[r],
                                OnItsWay(conn'[Other(r)]), unasked'[r])
    <3> TAKE r \in Peers
    <3>1. CASE r = p
      BY <1>6, <1>7, <1>9, <1>11, <2>1, <2>3, <3>1
    <3>2. CASE r = q
      BY <1>6, <1>7, <1>8, <1>11, <2>1, <2>3, <3>2
    <3> QED
      BY <1>7, <3>1, <3>2
  <2>6. Fits => \A r \in Peers : ~TooLarge(pushed'[r])
    BY <1>1, <2>1, UpIs
  <2> QED
    BY <1>11, <2>1, <2>2, <2>3, <2>4, <2>5, <2>6, StaysUp
<1> QED
  BY <1>12, <1>13

\* The bytes b that one call of recv takes off the wire of c, which becomes d.
Brought(c, d, b) ==
    /\ b \in Seq(Unit) /\ Len(b) <= SocketBuffer
    /\ OnItsWay(d) \in Seq(Unit) /\ OnItsWay(c) = b \o OnItsWay(d)
LEMMA WireIs ==
    ASSUME NEW c, Sender(c), NEW n \in 1..Len(c.wire),
           NEW d, d = [c EXCEPT !.wire = SubSeq(@, n + 1, Len(@))]
    PROVE  /\ d \in CNode /\ Sender(d) /\ d.vRecvMsg = c.vRecvMsg
           /\ d.fDisconnect = c.fDisconnect
           /\ Brought(c, d, SubSeq(c.wire, 1, n))
<1>1. c \in [vSendMsg : Seq(Message), nSendOffset : Nat, nSendSize : Nat,
             vRecvMsg : Seq(CNetMessage), wire : Seq(Unit), fDisconnect : BOOLEAN]
  BY DEF Sender, CNode
<1>2. PICK w \in Seq(Unit) : w = c.wire
  BY <1>1
<1>3. n \in 0..Len(w) /\ Len(w) <= SocketBuffer /\ Len(w) \in Nat
  BY <1>2, LenProperties DEF Sender
<1>4. PICK a \in Seq(Unit), b \in Seq(Unit) :
         /\ a = SubSeq(w, 1, n) /\ b = SubSeq(w, n + 1, Len(w))
         /\ Len(a) = n /\ Len(b) = Len(w) - n /\ a \o b = w
  <2>1. /\ SubSeq(w, 1, n) \in Seq(Unit) /\ Len(SubSeq(w, 1, n)) = n
        /\ SubSeq(w, n + 1, Len(w)) \in Seq(Unit)
        /\ Len(SubSeq(w, n + 1, Len(w))) = Len(w) - n
        /\ SubSeq(w, 1, n) \o SubSeq(w, n + 1, Len(w)) = w
    BY <1>3, SplitAt
  <2> QED
    BY <2>1
<1>5. d = [c EXCEPT !.wire = b]
  BY <1>2, <1>4
<1>6. d \in CNode
  BY <1>1, <1>5 DEF CNode
<1>7. /\ d.vRecvMsg = c.vRecvMsg /\ d.fDisconnect = c.fDisconnect /\ d.vSendMsg = c.vSendMsg
      /\ d.nSendOffset = c.nSendOffset /\ d.nSendSize = c.nSendSize /\ d.wire = b
  BY <1>1, <1>5
<1>8. Len(b) <= SocketBuffer /\ Len(a) <= SocketBuffer
  <2>1. PICK k \in Nat, buffer \in Nat, l \in Nat :
           k = Len(w) /\ buffer = SocketBuffer /\ l = n /\ l <= k /\ k <= buffer
    BY <1>3, Constants
  <2>2. k - l <= buffer /\ l <= buffer
    BY <2>1
  <2> QED
    BY <1>4, <2>1, <2>2, Zenon
<1>9. Sender(d)
  <2>1. SendRight(c)
    BY DEF Sender
  <2>2. SendRight(d)
    BY <1>7, <2>1, Zenon DEF SendRight
  <2> QED
    BY <1>6, <1>7, <1>8, <2>2 DEF Sender
<1>10. PICK u \in Seq(Unit) : u = Rest(Stream(c.vSendMsg), c.nSendOffset)
  <2>1. PICK s \in Seq(Unit) : s = Stream(c.vSendMsg) /\ c.nSendOffset \in 0..Len(s)
    BY OffsetWithin, LenProperties DEF Sender
  <2>2. Rest(s, c.nSendOffset) \in Seq(Unit)
    BY <2>1, RestIs DEF IsRest
  <2> QED
    BY <2>1, <2>2
<1>11. OnItsWay(c) = (a \o b) \o u /\ OnItsWay(d) = b \o u
  BY <1>2, <1>4, <1>7, <1>10, Zenon DEF OnItsWay
<1>12. (a \o b) \o u = a \o (b \o u) /\ b \o u \in Seq(Unit)
  <2>1. Regrouping(a, b, u)
    BY Regroups
  <2>2. b \o u \in Seq(Unit)
    BY ConcatProperties
  <2> QED
    BY <2>1, <2>2 DEF Regrouping
<1> QED
  BY <1>2, <1>4, <1>6, <1>7, <1>8, <1>9, <1>11, <1>12, Zenon DEF Brought

LEMMA TotalOf ==
    ASSUME NEW c
    PROVE  GetTotalRecvSize(c) = Total(c.vRecvMsg)
BY DEF GetTotalRecvSize, Total

\* A call of recv, whether p looked at its receive buffer before it or not.
LEMMA RecvStep ==
    ASSUME QueueInv, Up, NEW p \in Peers, NEW n \in 1..Len(conn[Other(p)].wire), Recv(p, n),
           NEW w, unasked' = [unasked EXCEPT ![p] = w], UNCHANGED <<pushed, processed>>,
           Looked(conn[p].vRecvMsg, w) \/ w = unasked[p] + n
    PROVE  QueueInv'
<1>1. Up /\ pushed' = pushed /\ processed' = processed
  OBVIOUS
<1>2. PICK q \in Peers : q = Other(p) /\ q # p /\ Other(q) = p /\ \A r \in Peers : r = p \/ r = q
  BY OtherIs
<1>3. /\ n \in 1..Len(conn[q].wire)
      /\ LET bytes == SubSeq(conn[q].wire, 1, n)
             got   == ReceiveMsgBytes(conn[p].vRecvMsg, bytes)
         IN  conn' = [conn EXCEPT ![p].vRecvMsg = IF got.ok THEN got.vRecvMsg ELSE << >>,
                                  ![p].fDisconnect = ~got.ok,
                                  ![q].wire = SubSeq(@, n + 1, Len(@))]
  BY <1>2, Zenon DEF Recv
<1>4. PICK v, b, got : /\ v = conn[p].vRecvMsg /\ b = SubSeq(conn[q].wire, 1, n)
                       /\ got = ReceiveMsgBytes(v, b)
  OBVIOUS
<1>5. PICK x, f : x = (IF got.ok THEN got.vRecvMsg ELSE << >>) /\ f = ~got.ok
  OBVIOUS
<1>6. PICK c, d : /\ c = [conn[p] EXCEPT !.vRecvMsg = x, !.fDisconnect = f]
                  /\ d = [conn[q] EXCEPT !.wire = SubSeq(@, n + 1, Len(@))]
  OBVIOUS
<1>7. conn \in [Peers -> CNode] /\ pushed \in [Peers -> Seq(Message)]
      /\ processed \in [Peers -> Seq(Message)]
  BY DEF QueueInv
<1>8. conn' = [conn EXCEPT ![p].vRecvMsg = x, ![p].fDisconnect = f,
                           ![q].wire = SubSeq(@, n + 1, Len(@))]
  BY <1>3, <1>4, <1>5, Zenon
<1>9. conn' = [conn EXCEPT ![p] = c, ![q] = d]
  BY <1>2, <1>6, <1>7, <1>8
<1>10. Sender(conn[p]) /\ Sender(conn[q]) /\ ~conn[p].fDisconnect /\ ~conn[q].fDisconnect
  BY <1>1, UpIs
<1>11. /\ d \in CNode /\ Sender(d) /\ d.vRecvMsg = conn[q].vRecvMsg
       /\ d.fDisconnect = conn[q].fDisconnect
       /\ b \in Seq(Unit) /\ Len(b) <= SocketBuffer /\ OnItsWay(d) \in Seq(Unit)
       /\ OnItsWay(conn[q]) = b \o OnItsWay(d)
  <2>1. d = [conn[q] EXCEPT !.wire = SubSeq(@, n + 1, Len(@))]
    BY <1>6
  <2>2. /\ d \in CNode /\ Sender(d) /\ d.vRecvMsg = conn[q].vRecvMsg
        /\ d.fDisconnect = conn[q].fDisconnect
        /\ Brought(conn[q], d, SubSeq(conn[q].wire, 1, n))
    BY <1>3, <1>10, <2>1, WireIs, Zenon
  <2> QED
    BY <1>4, <2>2, Zenon DEF Brought
<1>12. /\ Linked(v, pushed[q], processed[p], b \o OnItsWay(d), unasked[p])
       /\ Linked(conn[q].vRecvMsg, pushed[p], processed[q], OnItsWay(conn[p]), unasked[q])
  <2>1. Linked(conn[p].vRecvMsg, pushed[q], processed[p], OnItsWay(conn[q]), unasked[p])
    BY <1>1, <1>2, UpIs
  <2>2. Linked(conn[q].vRecvMsg, pushed[p], processed[q], OnItsWay(conn[p]), unasked[q])
    BY <1>1, <1>2, UpIs
  <2> QED
    BY <1>4, <1>11, <2>1, <2>2, Zenon
<1>13. /\ Looked(v, w) \/ w = unasked[p] + Len(b)
       /\ unasked \in [Peers -> Nat] /\ w \in Nat
       /\ unasked' \in [Peers -> Nat] /\ unasked'[p] = w /\ unasked'[q] = unasked[q]
  <2>1. Len(b) = n
    <3>1. PICK y \in Seq(Unit) : y = conn[q].wire
      BY <1>7 DEF CNode
    <3>2. n \in 0..Len(y)
      BY <1>3, <3>1, LenProperties
    <3> QED
      BY <1>4, <3>1, <3>2, SplitAt
  <2>2. unasked \in [Peers -> Nat]
    BY DEF QueueInv
  <2>3. n \in Nat
    BY <1>3
  <2>4. w \in Nat
    BY <2>2, <2>3 DEF Looked
  <2> QED
    BY <1>2, <1>4, <2>1, <2>2, <2>4
<1>14. IF got.ok THEN Linked(got.vRecvMsg, pushed[q], processed[p], OnItsWay(d), w)
       ELSE TooLarge(pushed[q])
  <2>1. PICK r \in Seq(Unit) : r = OnItsWay(d)
    BY <1>11
  <2>2. Linked(v, pushed[q], processed[p], b \o r, unasked[p])
    BY <1>12, <2>1
  <2>3. IF ReceiveMsgBytes(v, b).ok
        THEN Linked(ReceiveMsgBytes(v, b).vRecvMsg, pushed[q], processed[p], r, w)
        ELSE TooLarge(pushed[q])
    BY <1>11, <1>13, <2>2, LinkedReceive
  <2> QED
    BY <1>4, <2>1, <2>3, Zenon
<1>15. x \in Seq(CNetMessage) /\ f \in BOOLEAN
  <2>1. CASE got.ok
    BY <1>5, <1>14, <2>1 DEF Linked, Framed
  <2>2. CASE ~got.ok
    BY <1>5, <2>2, EmptySeq
  <2> QED
    BY <2>1, <2>2
<1>16. c \in CNode /\ Sender(c) /\ OnItsWay(c) = OnItsWay(conn[p]) /\ c.vRecvMsg = x
       /\ c.fDisconnect = f
  <2>1. HasRead(conn[p], x, f, c)
    BY <1>6, Zenon DEF HasRead
  <2> QED
    BY <1>10, <1>15, <2>1, ReaderIs
<1>17. conn' \in [Peers -> CNode] /\ conn'[p] = c /\ conn'[q] = d
  BY <1>2, <1>7, <1>9, <1>11, <1>16
<1>18. \A r \in Peers : Sender(conn'[r])
  BY <1>2, <1>11, <1>16, <1>17
<1>19. CASE got.ok
  <2>1. x = got.vRecvMsg /\ ~f
    BY <1>5, <1>19
  <2>2. \A r \in Peers : Sender(conn'[r]) /\ ~conn'[r].fDisconnect
    BY <1>2, <1>10, <1>11, <1>16, <1>17, <1>18, <2>1
  <2>3. \A r \in Peers : Linked(conn'[r].vRecvMsg, pushed'[Other(r)], processed'[r],
                                OnItsWay(conn'[Other(r)]), unasked'[r])
    <3> TAKE r \in Peers
    <3>1. CASE r = p
      BY <1>1, <1>2, <1>13, <1>14, <1>16, <1>17, <1>19, <2>1, <3>1
    <3>2. CASE r = q
      BY <1>1, <1>2, <1>11, <1>12, <1>13, <1>16, <1>17, <3>2
    <3> QED
      BY <1>2, <3>1, <3>2
  <2>4. Fits => \A r \in Peers : ~TooLarge(pushed'[r])
    BY <1>1, UpIs
  <2> QED
    BY <1>1, <1>7, <1>13, <1>17, <2>2, <2>3, <2>4, StaysUp
<1>20. CASE ~got.ok
  <2>1. x = << >> /\ f = TRUE
    BY <1>5, <1>20
  <2>2. ~Up'
    BY <1>16, <1>17, <2>1 DEF Up
  <2>3. ~Fits
    BY <1>1, <1>14, <1>20, UpIs
  <2>4. \A r \in Peers : Bounded(conn'[r].vRecvMsg, unasked'[r])
    <3>1. Bounded(<< >>, w)
      <4>1. Linked(<< >>, << >>, << >>, << >>, w)
        BY <1>13, LinkedEmpty
      <4> QED
        BY <4>1, LinkedBounded
    <3>2. Bounded(conn[q].vRecvMsg, unasked[q])
      BY DEF QueueInv
    <3> QED
      BY <1>2, <1>11, <1>13, <1>16, <1>17, <2>1, <3>1, <3>2
  <2> QED
    BY <1>1, <1>7, <1>13, <1>17, <1>18, <2>2, <2>3, <2>4 DEF QueueInv, Fits
<1> QED
  BY <1>19, <1>20

LEMMA LookedAt ==
    ASSUME NEW p \in Peers, HasRoom(p)
    PROVE  Looked(conn[p].vRecvMsg, 0)
BY TotalOf, Zenon DEF HasRoom, Looked

LEMMA SocketRecvStep ==
    ASSUME QueueInv, NEW p \in Peers,
           SocketRecv(p) \/ SocketRecvContended(p) \/ SocketRecvUnasked(p)
    PROVE  QueueInv'
<1>1. CASE SocketRecv(p) \/ SocketRecvContended(p)
  <2>1. /\ Up /\ HasRoom(p) /\ UNCHANGED <<pushed, processed>>
        /\ unasked' = [unasked EXCEPT ![p] = 0]
        /\ \E n \in 1..Len(conn[Other(p)].wire) : Recv(p, n)
    BY <1>1, Zenon DEF SocketRecv, SocketRecvContended, SelectRecv
  <2>2. PICK n \in 1..Len(conn[Other(p)].wire) : Recv(p, n)
    BY <2>1
  <2>3. Looked(conn[p].vRecvMsg, 0)
    BY <2>1, LookedAt
  <2> QED
    BY <2>1, <2>2, <2>3, RecvStep
<1>2. CASE SocketRecvUnasked(p)
  <2>1. Up /\ UNCHANGED <<pushed, processed>>
    BY <1>2 DEF SocketRecvUnasked
  <2>2. PICK n \in 1..Len(conn[Other(p)].wire) :
           Recv(p, n) /\ unasked' = [unasked EXCEPT ![p] = @ + n]
    BY <1>2, Zenon DEF SocketRecvUnasked
  <2>3. PICK w : w = unasked[p] + n
    OBVIOUS
  <2>4. unasked' = [unasked EXCEPT ![p] = w]
    BY <2>2, <2>3
  <2> QED
    BY <2>1, <2>2, <2>3, <2>4, RecvStep
<1> QED
  BY <1>1, <1>2

LEMMA NextQueue == QueueInv /\ [Next]_vars => QueueInv'
<1> SUFFICES ASSUME QueueInv, [Next]_vars PROVE QueueInv'
  OBVIOUS
<1>1. CASE Next
  <2>1. PICK p \in Peers :
           \/ SocketSend(p)
           \/ SocketRecv(p) \/ SocketRecvContended(p) \/ SocketRecvUnasked(p)
           \/ ProcessMessages(p) \/ SendMessages(p)
    BY <1>1 DEF Next
  <2> QED
    BY <2>1, SocketSendStep, SocketRecvStep, ProcessMessagesStep, SendMessagesStep
<1>2. CASE UNCHANGED vars
  BY <1>2 DEF vars, QueueInv, Up, Link, Other, Fits
<1> QED
  BY <1>1, <1>2

\* The invariant, from which the three theorems follow.
LEMMA QueueIsRight == Spec => []QueueInv
BY InitQueue, NextQueue, PTL DEF Spec

-----------------------------------------------------------------------------

\* SocketSendData, assert(data.size() > nSendOffset) and, at the end of the queue,
\* assert(nSendOffset == 0) and assert(nSendSize == 0): nSendSize is what the queue
\* holds and nSendOffset is within its first message, however much each call of send()
\* takes and whatever is queued between two of them.
THEOREM SendQueueIsAccurate == Spec => []SendQueueAccurate
<1>1. QueueInv => SendQueueAccurate
  <2> SUFFICES ASSUME QueueInv PROVE SendQueueAccurate
    OBVIOUS
  <2>1. /\ conn \in [Peers -> CNode] /\ pushed \in [Peers -> Seq(Message)]
        /\ unasked \in [Peers -> Nat]
        /\ processed \in [Peers -> Seq(Message)] /\ \A p \in Peers : Sender(conn[p])
    BY DEF QueueInv
  <2>2. \A p \in Peers : SendRight(conn[p]) /\ Len(conn[p].wire) <= SocketBuffer
    BY <2>1 DEF Sender
  <2>3. \A p \in Peers : /\ conn[p].vSendMsg \in Seq(Message) /\ conn[p].nSendOffset \in Nat
                         /\ conn[p].nSendSize \in Nat /\ conn[p].vRecvMsg \in Seq(CNetMessage)
                         /\ conn[p].wire \in Seq(Unit) /\ conn[p].fDisconnect \in BOOLEAN
    BY <2>1 DEF CNode
  <2>4. TypeOK
    BY <2>1, <2>2, <2>3 DEF TypeOK
  <2> QED
    BY <2>2, <2>4, Zenon DEF SendQueueAccurate, SendRight
<1> QED
  BY <1>1, QueueIsRight, PTL

\* ReceiveMsgBytes: when no message is larger than MAX_SIZE, every unit that was queued
\* is, in order, in a message processed, in one being put together, on its way or in
\* the send queue, however the stream is cut; and the connection is never given up.
THEOREM MessagesStayInOrder ==
    ASSUME RequestSize <= MaxSize, ReplySize <= MaxSize
    PROVE  Spec => []InOrder
<1>1. QueueInv => InOrder
  <2> SUFFICES ASSUME QueueInv PROVE InOrder
    OBVIOUS
  <2>1. Up
    BY DEF QueueInv, Fits
  <2>2. \A p \in Peers : /\ Ordered(conn[p].vRecvMsg, conn[Other(p)], pushed[Other(p)],
                                    processed[p])
                         /\ ~conn[p].fDisconnect
    <3> TAKE p \in Peers
    <3>1. Other(p) \in Peers
      BY OtherIs
    <3>2. PICK c : c = conn[Other(p)] /\ c \in CNode /\ Sender(c)
      BY <2>1, <3>1, UpIs
    <3>3. /\ Linked(conn[p].vRecvMsg, pushed[Other(p)], processed[p], OnItsWay(c), unasked[p])
          /\ ~conn[p].fDisconnect
      BY <2>1, <3>2, UpIs
    <3>4. SendRight(c)
      BY <3>2 DEF Sender
    <3>5. Ordered(conn[p].vRecvMsg, c, pushed[Other(p)], processed[p])
      BY <3>2, <3>3, <3>4, LinkedOrdered
    <3> QED
      BY <3>2, <3>3, <3>5
  <2> QED
    BY <2>2, Zenon DEF InOrder, Ordered
<1> QED
  BY <1>1, QueueIsRight, PTL

\* -maxreceivebuffer: a node keeps no more than its limit, or its first message, and
\* beyond that what one call of recv brings, a header, the room made ahead, and what it
\* has received after errors since it last looked at its buffer.
THEOREM ReceiveBufferIsBounded == Spec => []ReceiveBounded
<1>1. QueueInv => ReceiveBounded
  <2> SUFFICES ASSUME QueueInv PROVE ReceiveBounded
    OBVIOUS
  <2>1. \A p \in Peers : Bounded(conn[p].vRecvMsg, unasked[p])
    BY DEF QueueInv
  <2>2. \A p \in Peers : GetTotalRecvSize(conn[p]) = Total(conn[p].vRecvMsg)
    BY TotalOf
  <2> QED
    BY <2>1, <2>2, Zenon DEF ReceiveBounded, Bounded, First
<1> QED
  BY <1>1, QueueIsRight, PTL
=============================================================================
