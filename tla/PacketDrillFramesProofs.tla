----------------------- MODULE PacketDrillFramesProofs -----------------------
(***************************************************************************)
(* Theorems about PacketDrillFrames, for any numbers of a connection, any  *)
(* writes, segments and acknowledgements, and a script that has none of    *)
(* the Habits: what is translated is what the script means, and the stamps *)
(* in the error queue are those that are due.                              *)
(***************************************************************************)
EXTENDS PacketDrillFrames, SequenceTheorems, WellFoundedInduction, TLAPS

Half == Modulus \div 2
Numbers == 0 .. Modulus - 1

-----------------------------------------------------------------------------
(* Numbers that wrap.                                                      *)

LEMMA Bounds ==
  /\ Modulus \in Nat /\ Half \in Nat /\ Modulus = 2 * Half /\ Half > 2
  /\ MaxWritten \in Nat /\ MaxWritten + 1 < Half
<1>1. PICK k \in 3 .. Modulus : Modulus = 2 * k
  BY FramesAssumption
<1>2. Modulus \in Nat /\ MaxWritten \in Nat /\ MaxWritten + 1 < Modulus \div 2
  BY FramesAssumption
<1>3. Modulus \div 2 = k
  BY <1>1, <1>2
<1> QED BY <1>1, <1>2, <1>3 DEF Half

LEMMA RemainderUnique ==
  ASSUME NEW M \in Nat, M # 0, NEW q \in Int, NEW r \in 0 .. M - 1, NEW v \in Int, v = M * q + r
  PROVE  v % M = r
<1> DEFINE w == v % M
           p == v \div M
           d == p - q
<1>1. w \in 0 .. M - 1 /\ p \in Int /\ w = v - (M * p)
  OBVIOUS
<1> HIDE DEF w, p
<1>2. M * d = M * p - M * q /\ d \in Int
  BY <1>1
<1>3. M * p \in Int /\ M * q \in Int
  BY <1>1
<1>4. M * d = r - w
  BY <1>1, <1>2, <1>3
<1> HIDE DEF d
<1>5. d >= 1 => M * d >= M
  BY <1>2
<1>6. d <= -1 => M * d <= -M
  BY <1>2
<1>7. d = 0
  BY <1>1, <1>2, <1>4, <1>5, <1>6
<1>8. r = w
  BY <1>1, <1>4, <1>7
<1> QED BY <1>8 DEF w

LEMMA AddCases ==
  ASSUME NEW a \in Numbers, NEW b \in Numbers
  PROVE  Add(a, b) = (IF a + b < Modulus THEN a + b ELSE a + b - Modulus) /\ Add(a, b) \in Numbers
<1>1. a \in 0 .. Modulus - 1 /\ b \in 0 .. Modulus - 1 /\ Modulus \in Nat /\ Modulus # 0
  BY Bounds DEF Numbers
<1>2. CASE a + b < Modulus
  <2>1. a + b = Modulus * 0 + (a + b) /\ a + b \in 0 .. Modulus - 1
    BY <1>1, <1>2
  <2>2. (a + b) % Modulus = a + b
    BY <1>1, <2>1, RemainderUnique
  <2> QED BY <1>2, <2>1, <2>2 DEF Add, Numbers
<1>3. CASE a + b >= Modulus
  <2>1. a + b = Modulus * 1 + (a + b - Modulus) /\ a + b - Modulus \in 0 .. Modulus - 1
    BY <1>1, <1>3
  <2>2. (a + b) % Modulus = a + b - Modulus
    BY <1>1, <2>1, RemainderUnique
  <2>3. ~(a + b < Modulus)
    BY <1>1, <1>3
  <2> QED BY <2>1, <2>2, <2>3 DEF Add, Numbers
<1> QED BY <1>1, <1>2, <1>3

LEMMA SubCases ==
  ASSUME NEW a \in Numbers, NEW b \in Numbers
  PROVE  Sub(a, b) = (IF a >= b THEN a - b ELSE a - b + Modulus) /\ Sub(a, b) \in Numbers
<1>1. a \in 0 .. Modulus - 1 /\ b \in 0 .. Modulus - 1 /\ Modulus \in Nat /\ Modulus # 0
  BY Bounds DEF Numbers
<1>2. CASE a >= b
  <2>1. a - b = Modulus * 0 + (a - b) /\ a - b \in 0 .. Modulus - 1
    BY <1>1, <1>2
  <2>2. (a - b) % Modulus = a - b
    BY <1>1, <2>1, RemainderUnique
  <2> QED BY <1>2, <2>1, <2>2 DEF Sub, Numbers
<1>3. CASE a < b
  <2> DEFINE v == a - b
             r == a - b + Modulus
             q == 0 - 1
  <2>1. v = Modulus * q + r /\ r \in 0 .. Modulus - 1 /\ v \in Int /\ q \in Int
    BY <1>1, <1>3
  <2> HIDE DEF v, r, q
  <2>2. v % Modulus = r
    BY <1>1, <2>1, RemainderUnique
  <2>3. ~(a >= b)
    BY <1>1, <1>3
  <2> QED BY <2>1, <2>2, <2>3 DEF Sub, Numbers, v, r
<1> QED BY <1>1, <1>2, <1>3

\* What was added is taken away again, in any order.
LEMMA AddAndSub ==
  ASSUME NEW a \in Numbers, NEW b \in Numbers
  PROVE  /\ Sub(Add(a, b), b) = a /\ Add(Sub(a, b), b) = a
         /\ Add(a, b) = Add(b, a) /\ Add(a, 0) = a /\ Sub(a, 0) = a /\ Sub(a, a) = 0
<1> DEFINE s == Add(a, b)
           d == Sub(a, b)
<1>1. a \in 0 .. Modulus - 1 /\ b \in 0 .. Modulus - 1 /\ Modulus \in Nat /\ Modulus # 0
  BY Bounds DEF Numbers
<1>2. 0 \in Numbers
  BY <1>1 DEF Numbers
<1>3. s = (IF a + b < Modulus THEN a + b ELSE a + b - Modulus) /\ s \in Numbers
  BY AddCases
<1>4. d = (IF a >= b THEN a - b ELSE a - b + Modulus) /\ d \in Numbers
  BY SubCases
<1> HIDE DEF s, d
<1>5. Sub(s, b) = IF s >= b THEN s - b ELSE s - b + Modulus
  BY <1>3, SubCases
<1>6. Add(d, b) = IF d + b < Modulus THEN d + b ELSE d + b - Modulus
  BY <1>4, AddCases
<1>7. Sub(s, b) = a /\ Add(d, b) = a
  BY <1>1, <1>3, <1>4, <1>5, <1>6
<1>8. Add(b, a) = s
  <2>1. Add(b, a) = IF b + a < Modulus THEN b + a ELSE b + a - Modulus
    BY AddCases
  <2> QED BY <1>1, <1>3, <2>1
<1>9. Add(a, 0) = a /\ Sub(a, 0) = a /\ Sub(a, a) = 0
  <2>1. /\ Add(a, 0) = IF a + 0 < Modulus THEN a + 0 ELSE a + 0 - Modulus
        /\ Sub(a, 0) = IF a >= 0 THEN a - 0 ELSE a - 0 + Modulus
        /\ Sub(a, a) = IF a >= a THEN a - a ELSE a - a + Modulus
    BY <1>2, AddCases, SubCases
  <2> QED BY <1>1, <2>1
<1> QED BY <1>7, <1>8, <1>9 DEF s, d

\* A number in the script's frame of a stream that starts at `script' there is
\* brought to the live frame, where it starts at `live'.
LEMMA Rebase ==
  ASSUME NEW n \in Numbers, NEW live \in Numbers, NEW script \in Numbers
  PROVE  Sub(Add(Add(script, n), live), script) = Add(live, n)
<1> DEFINE x == Add(script, n)
           y == Add(x, live)
           z == Sub(y, script)
           w == Add(live, n)
<1>1. /\ n \in 0 .. Modulus - 1 /\ live \in 0 .. Modulus - 1 /\ script \in 0 .. Modulus - 1
      /\ Modulus \in Nat /\ Modulus # 0
  BY Bounds DEF Numbers
<1>2. x \in Numbers /\ x = IF script + n < Modulus THEN script + n ELSE script + n - Modulus
  BY AddCases
<1> HIDE DEF x
<1>3. y \in Numbers /\ y = IF x + live < Modulus THEN x + live ELSE x + live - Modulus
  BY <1>2, AddCases
<1> HIDE DEF y
<1>4. z = IF y >= script THEN y - script ELSE y - script + Modulus
  BY <1>3, SubCases
<1>5. w = IF live + n < Modulus THEN live + n ELSE live + n - Modulus
  BY AddCases
<1> HIDE DEF z, w
<1>6. x \in Int /\ y \in Int
  BY <1>2, <1>3 DEF Numbers
<1>7. z = w
  BY <1>1, <1>2, <1>3, <1>4, <1>5, <1>6
<1> QED BY <1>7 DEF x, y, z, w

\* Numbers of a stream that is not half as long as they reach are in the
\* order of their sizes.
LEMMA InOrder ==
  ASSUME NEW a \in 0 .. Half, NEW b \in 0 .. Half, a < Half, b < Half
  PROVE  /\ a \in Numbers /\ b \in Numbers
         /\ SeqLess(a, b) <=> a < b
         /\ SeqGE(a, b) <=> a >= b
<1>1. Modulus \in Nat /\ Half \in Nat /\ Modulus = 2 * Half /\ Half > 2
  BY Bounds
<1>2. a \in Numbers /\ b \in Numbers
  BY <1>1 DEF Numbers
<1>3. /\ Sub(b, a) = IF b >= a THEN b - a ELSE b - a + Modulus
      /\ Sub(a, b) = IF a >= b THEN a - b ELSE a - b + Modulus
  BY <1>2, SubCases
<1>4. Sub(b, a) < Half /\ a # b <=> a < b
  BY <1>1, <1>3
<1>5. Sub(a, b) < Half <=> a >= b
  BY <1>1, <1>3
<1> QED BY <1>2, <1>4, <1>5 DEF SeqLess, SeqGE, Half

\* The same anywhere in the numbers, from where a stream starts.
LEMMA InOrderFrom ==
  ASSUME NEW a \in 0 .. Half, NEW b \in 0 .. Half, a < Half, b < Half, NEW start \in Numbers
  PROVE  SeqLess(Add(start, a), Add(start, b)) <=> a < b
<1> DEFINE x == Add(start, a)
           y == Add(start, b)
<1>1. Modulus \in Nat /\ Half \in Nat /\ Modulus = 2 * Half /\ Half > 0 /\ start \in 0 .. Modulus - 1
  BY Bounds DEF Numbers
<1>2. a \in Numbers /\ b \in Numbers
  BY <1>1 DEF Numbers
<1>3. /\ x \in Numbers /\ x = IF start + a < Modulus THEN start + a ELSE start + a - Modulus
      /\ y \in Numbers /\ y = IF start + b < Modulus THEN start + b ELSE start + b - Modulus
  BY <1>2, AddCases
<1> HIDE DEF x, y
<1>4. Sub(y, x) = IF y >= x THEN y - x ELSE y - x + Modulus
  BY <1>3, SubCases
<1>5. x \in Int /\ y \in Int
  BY <1>3 DEF Numbers
<1>6. (x # y /\ Sub(y, x) < Half) <=> a < b
  BY <1>1, <1>3, <1>4, <1>5
<1> QED BY <1>6 DEF x, y, SeqLess, Half

-----------------------------------------------------------------------------
(* Stamps.                                                                 *)

\* A nonempty set of naturals has a least element.
LEMMA LeastNatural ==
  ASSUME NEW S \in SUBSET Nat, S # {}
  PROVE  \E x \in S : \A y \in S : x <= y
<1> DEFINE R == {ss \in Nat \X Nat : ss[1] < ss[2]}
<1>1. IsWellFoundedOn(R, Nat)
  BY NatLessThanWellFounded DEF OpToRel
<1> HIDE DEF R
<1>2. PICK x \in S : \A y \in S : ~ (<<y, x>> \in R)
  BY <1>1, WFMin
<1>3. \A y \in S : x <= y
  <2> TAKE y \in S
  <2>1. ~ (<<y, x>> \in R) /\ x \in Nat /\ y \in Nat
    BY <1>2
  <2>2. ~(y < x)
    BY <2>1 DEF R
  <2> QED BY <2>1, <2>2
<1> QED BY <1>3

\* What holds at 0 and goes on from each number to the next holds up to n.
LEMMA UpTo ==
  ASSUME NEW n \in Nat, NEW G, 0 \in G, \A k \in 1 .. n : k - 1 \in G => k \in G
  PROVE  \A k \in 0 .. n : k \in G
<1> DEFINE Bad == (0 .. n) \ G
<1>1. Bad \in SUBSET Nat
  OBVIOUS
<1> SUFFICES ASSUME Bad # {} PROVE FALSE
  OBVIOUS
<1>2. PICK k \in Bad : \A j \in Bad : k <= j
  <2> HIDE DEF Bad
  <2> QED BY <1>1, LeastNatural
<1>3. k \in 1 .. n /\ k - 1 \in 0 .. n
  OBVIOUS
<1>4. k - 1 \in G
  BY <1>2, <1>3
<1> QED BY <1>3, <1>4

Types == {"SCHED", "SND", "ACK"}
Stamp == [type : Types, key : Int]
Pending == [key : Int, lastByteSeq : 0 .. MaxWritten]

\* d[i] is q with what t has at the places in S, up to i.
Gathers(d, n, q, S, t) ==
  d = [i \in 0 .. n |-> IF i = 0 THEN q ELSE IF i \in S THEN d[i - 1] \o t[i] ELSE d[i - 1]]

LEMMA GatherExists ==
  ASSUME NEW n \in Nat, NEW q, NEW S, NEW t
  PROVE  \E d : Gathers(d, n, q, S, t)
<1> DEFINE G == {k \in 0 .. n : \E d : Gathers(d, k, q, S, t)}
<1>1. 0 \in G
  <2> DEFINE d == [i \in 0 .. 0 |-> q]
  <2>1. Gathers(d, 0, q, S, t)
    BY DEF Gathers
  <2> QED BY <2>1
<1>2. ASSUME NEW k \in 1 .. n, k - 1 \in G
      PROVE  k \in G
  <2>1. PICK c : Gathers(c, k - 1, q, S, t)
    BY <1>2
  <2> DEFINE d == [i \in 0 .. k |-> IF i < k THEN c[i] ELSE IF k \in S THEN c[k - 1] \o t[k] ELSE c[k - 1]]
             next(i) == IF i = 0 THEN q ELSE IF i \in S THEN d[i - 1] \o t[i] ELSE d[i - 1]
  <2>2. ASSUME NEW i \in 0 .. k
        PROVE  d[i] = next(i)
    <3>1. CASE i = 0
      <4>1. c[0] = q /\ 0 < k
        BY <2>1 DEF Gathers
      <4> QED BY <3>1, <4>1
    <3>2. CASE i \in 1 .. k - 1
      <4>1. i \in 0 .. k - 1 /\ i # 0 /\ i < k /\ i - 1 < k /\ i - 1 \in 0 .. k
        BY <3>2
      <4>2. c[i] = IF i \in S THEN c[i - 1] \o t[i] ELSE c[i - 1]
        BY <2>1, <4>1 DEF Gathers
      <4>3. d[i] = c[i] /\ d[i - 1] = c[i - 1]
        BY <4>1
      <4> HIDE DEF d
      <4> QED BY <4>1, <4>2, <4>3
    <3>3. CASE i = k
      <4>1. i # 0 /\ ~(i < k) /\ k - 1 < k /\ k - 1 \in 0 .. k /\ k \in 0 .. k
        BY <3>3
      <4>2. d[k - 1] = c[k - 1] /\ d[k] = IF k \in S THEN c[k - 1] \o t[k] ELSE c[k - 1]
        BY <3>3, <4>1
      <4> HIDE DEF d
      <4> QED BY <3>3, <4>1, <4>2
    <3> QED BY <3>1, <3>2, <3>3
  <2>3. d = [i \in 0 .. k |-> next(i)]
    <3>1. d = [i \in 0 .. k |-> d[i]]
      OBVIOUS
    <3> HIDE DEF d
    <3>2. [i \in 0 .. k |-> d[i]] = [i \in 0 .. k |-> next(i)]
      BY <2>2
    <3> QED BY <3>1, <3>2
  <2>4. Gathers(d, k, q, S, t)
    BY <2>3 DEF Gathers
  <2> HIDE DEF d
  <2> QED BY <2>4
<1> HIDE DEF G
<1>3. n \in G
  <2>1. n \in 0 .. n
    OBVIOUS
  <2> QED BY <1>1, <1>2, <2>1, UpTo
<1> QED BY <1>3 DEF G

\* Nothing is gathered up to the first place in S.
LEMMA GatherNone ==
  ASSUME NEW n \in Nat, NEW q, NEW S, NEW t, NEW d, Gathers(d, n, q, S, t),
         NEW m \in 0 .. n, \A i \in 1 .. m : i \notin S
  PROVE  d[m] = q
<1> DEFINE G == {k \in 0 .. m : d[k] = q}
<1>1. 0 \in G
  BY DEF Gathers
<1>2. ASSUME NEW k \in 1 .. m, k - 1 \in G
      PROVE  k \in G
  <2>1. k \in 0 .. n /\ k \in 0 .. m /\ k # 0 /\ d[k - 1] = q /\ k \notin S
    BY <1>2
  <2>2. d[k] = IF k \in S THEN d[k - 1] \o t[k] ELSE d[k - 1]
    BY <2>1 DEF Gathers
  <2> QED BY <2>1, <2>2
<1> HIDE DEF G
<1>3. m \in Nat /\ m \in 0 .. m
  OBVIOUS
<1>4. m \in G
  BY <1>1, <1>2, <1>3, UpTo
<1> QED BY <1>4 DEF G

LEMMA GatherTypes ==
  ASSUME NEW n \in Nat, NEW A, NEW q \in Seq(A), NEW S, NEW t, \A i \in 1 .. n : t[i] \in Seq(A),
         NEW d, Gathers(d, n, q, S, t)
  PROVE  /\ d[n] \in Seq(A)
         /\ (\A i \in 1 .. n : t[i] = <<>>) => d[n] = q
<1> DEFINE G == {k \in 0 .. n : d[k] \in Seq(A) /\ ((\A i \in 1 .. n : t[i] = <<>>) => d[k] = q)}
<1>1. 0 \in G
  BY DEF Gathers
<1>2. ASSUME NEW k \in 1 .. n, k - 1 \in G
      PROVE  k \in G
  <2>1. k \in 0 .. n /\ k # 0 /\ d[k - 1] \in Seq(A) /\ ((\A i \in 1 .. n : t[i] = <<>>) => d[k - 1] = q)
    BY <1>2
  <2>2. d[k] = IF k \in S THEN d[k - 1] \o t[k] ELSE d[k - 1]
    BY <2>1 DEF Gathers
  <2>3. d[k - 1] \o t[k] \in Seq(A)
    BY <2>1, ConcatProperties
  <2>4. t[k] = <<>> => d[k - 1] \o t[k] = d[k - 1]
    BY <2>1, ConcatEmptySeq
  <2> QED BY <2>1, <2>2, <2>3, <2>4
<1> HIDE DEF G
<1>3. n \in G
  <2>1. n \in 0 .. n
    OBVIOUS
  <2> QED BY <1>1, <1>2, <2>1, UpTo
<1> QED BY <1>3 DEF G

LEMMA StampsOfTypes ==
  ASSUME NEW key \in Int, NEW types \in Seq(Types)
  PROVE  StampsOf(key, types) \in Seq(Stamp) /\ (types = <<>> => StampsOf(key, types) = <<>>)
<1>1. Len(types) \in Nat /\ \A j \in 1 .. Len(types) : types[j] \in Types
  OBVIOUS
<1>2. \A j \in 1 .. Len(types) : [type |-> types[j], key |-> key] \in Stamp
  BY <1>1 DEF Stamp
<1>3. StampsOf(key, types) \in Seq(Stamp)
  BY <1>1, <1>2, IsASeq DEF StampsOf
<1>4. types = <<>> => StampsOf(key, types) = <<>>
  <2> SUFFICES ASSUME types = <<>> PROVE StampsOf(key, types) = <<>>
    OBVIOUS
  <2>1. Len(types) = 0
    OBVIOUS
  <2>2. Len(StampsOf(key, types)) = 0
    BY <2>1 DEF StampsOf
  <2> HIDE DEF StampsOf
  <2> QED BY <1>3, <2>2, EmptySeq
<1> QED BY <1>3, <1>4

LEMMA TypesOfFlags ==
  ASSUME NEW flags
  PROVE  /\ SendTypes(flags) \in Seq(Types) /\ AckTypes(flags) \in Seq(Types)
         /\ flags \cap {"SCHED", "SND"} = {} => SendTypes(flags) = <<>>
         /\ flags \cap {"ACK"} = {} => AckTypes(flags) = <<>>
<1> DEFINE a == IF "SCHED" \in flags THEN <<"SCHED">> ELSE <<>>
           b == IF "SND" \in flags THEN <<"SND">> ELSE <<>>
<1>1. a \in Seq(Types) /\ b \in Seq(Types) /\ AckTypes(flags) \in Seq(Types)
  <2>1. <<>> \in Seq(Types)
    OBVIOUS
  <2>2. "SCHED" \in Types /\ "SND" \in Types /\ "ACK" \in Types
    BY DEF Types
  <2>3. \A x \in Types : <<x>> \in Seq(Types)
    OBVIOUS
  <2> QED BY <2>1, <2>2, <2>3, Zenon DEF AckTypes
<1>2. flags \cap {"SCHED", "SND"} = {} => a = <<>> /\ b = <<>>
  OBVIOUS
<1>3. flags \cap {"ACK"} = {} => AckTypes(flags) = <<>>
  BY DEF AckTypes
<1>4. SendTypes(flags) = a \o b
  BY DEF SendTypes
<1> HIDE DEF a, b
<1>5. a \o b \in Seq(Types) /\ (a = <<>> => a \o b = b)
  BY <1>1, ConcatProperties, ConcatEmptySeq
<1> QED BY <1>1, <1>2, <1>3, <1>4, <1>5

\* The places of the writes that are due, and their stamps.
DueAt(writes, from, to) == {i \in 1 .. Len(writes) : from < writes[i] /\ writes[i] <= to}
StampsAt(writes, base, types) == [i \in 1 .. Len(writes) |-> StampsOf(writes[i] - base - 1, types)]

LEMMA DueGathers ==
  ASSUME NEW from, NEW to, NEW types, Len(dut.writes) \in Nat
  PROVE  \E d : /\ Gathers(d, Len(dut.writes), dut.stamps, DueAt(dut.writes, from, to),
                           StampsAt(dut.writes, dut.base, types))
                /\ Due(from, to, types) = d[Len(dut.writes)]
<1> DEFINE n == Len(dut.writes)
           S == DueAt(dut.writes, from, to)
           t == StampsAt(dut.writes, dut.base, types)
           step(g, i) == IF i = 0 THEN dut.stamps
                         ELSE IF from < dut.writes[i] /\ dut.writes[i] <= to
                              THEN g[i - 1] \o StampsOf(dut.writes[i] - dut.base - 1, types) ELSE g[i - 1]
           same(g, i) == IF i = 0 THEN dut.stamps ELSE IF i \in S THEN g[i - 1] \o t[i] ELSE g[i - 1]
           is(g) == g = [i \in 0 .. n |-> step(g, i)]
<1>1. ASSUME NEW g
      PROVE  is(g) <=> Gathers(g, n, dut.stamps, S, t)
  <2>1. ASSUME NEW i \in 0 .. n PROVE step(g, i) = same(g, i)
    <3>1. CASE i = 0
      BY <3>1
    <3>2. CASE i # 0
      <4>1. i \in 1 .. n
        BY <3>2
      <4>2. (i \in S <=> from < dut.writes[i] /\ dut.writes[i] <= to) /\ t[i] = StampsOf(dut.writes[i] - dut.base - 1, types)
        BY <4>1 DEF DueAt, StampsAt
      <4> QED BY <3>2, <4>2
    <3> QED BY <3>1, <3>2
  <2> HIDE DEF step, same
  <2>2. [i \in 0 .. n |-> step(g, i)] = [i \in 0 .. n |-> same(g, i)]
    BY <2>1
  <2>3. Gathers(g, n, dut.stamps, S, t) <=> g = [i \in 0 .. n |-> same(g, i)]
    BY DEF Gathers, same
  <2> QED BY <2>2, <2>3
<1>2. PICK d : Gathers(d, n, dut.stamps, S, t)
  BY GatherExists
<1> DEFINE due == CHOOSE g : is(g)
<1>3. is(due)
  <2>1. \E g : is(g)
    BY <1>1, <1>2
  <2> HIDE DEF is
  <2> QED BY <2>1
<1>4. Due(from, to, types) = due[n]
  BY DEF Due
<1> HIDE DEF is, due
<1> QED BY <1>1, <1>3, <1>4

\* What the function of a sweep is.
Sweeps(s, queue, pending, bytes, types) ==
  s = [i \in 0 .. Len(pending) |->
         IF i = 0 THEN [stamps |-> queue, kept |-> <<>>]
         ELSE IF pending[i].lastByteSeq \in bytes
              THEN [stamps |-> s[i - 1].stamps \o StampsOf(pending[i].key, types), kept |-> s[i - 1].kept]
              ELSE [stamps |-> s[i - 1].stamps, kept |-> Append(s[i - 1].kept, pending[i])]]

\* There is one such function at most, so that the sweep is any of them.
LEMMA SweepIs ==
  ASSUME NEW queue, NEW pending, Len(pending) \in Nat, NEW bytes, NEW types,
         NEW g, Sweeps(g, queue, pending, bytes, types)
  PROVE  Sweep(queue, pending, bytes, types) = g[Len(pending)]
<1> DEFINE n == Len(pending)
           s == CHOOSE h : Sweeps(h, queue, pending, bytes, types)
<1>1. Sweeps(s, queue, pending, bytes, types)
  OBVIOUS
<1>2. Sweep(queue, pending, bytes, types) = s[n]
  BY DEF Sweep, Sweeps
<1> HIDE DEF s
<1> DEFINE G == {k \in 0 .. n : s[k] = g[k]}
<1>3. 0 \in G
  BY <1>1 DEF Sweeps
<1>4. ASSUME NEW k \in 1 .. n, k - 1 \in G
      PROVE  k \in G
  <2>1. k \in 0 .. n /\ k # 0 /\ s[k - 1] = g[k - 1]
    BY <1>4
  <2>2. s[k] = IF pending[k].lastByteSeq \in bytes
               THEN [stamps |-> s[k - 1].stamps \o StampsOf(pending[k].key, types), kept |-> s[k - 1].kept]
               ELSE [stamps |-> s[k - 1].stamps, kept |-> Append(s[k - 1].kept, pending[k])]
    BY <1>1, <2>1 DEF Sweeps
  <2>3. g[k] = IF pending[k].lastByteSeq \in bytes
               THEN [stamps |-> g[k - 1].stamps \o StampsOf(pending[k].key, types), kept |-> g[k - 1].kept]
               ELSE [stamps |-> g[k - 1].stamps, kept |-> Append(g[k - 1].kept, pending[k])]
    BY <2>1 DEF Sweeps
  <2> QED BY <2>1, <2>2, <2>3
<1> HIDE DEF G
<1>5. n \in G
  <2>1. n \in 0 .. n
    OBVIOUS
  <2> QED BY <1>3, <1>4, <2>1, UpTo
<1> QED BY <1>2, <1>5 DEF G

\* A sweep over nothing.
LEMMA SweepNothing ==
  ASSUME NEW queue, NEW bytes, NEW types
  PROVE  Sweep(queue, <<>>, bytes, types) = [stamps |-> queue, kept |-> <<>>]
<1> DEFINE g == [i \in 0 .. 0 |-> [stamps |-> queue, kept |-> <<>>]]
<1>1. Len(<<>>) = 0
  OBVIOUS
<1>2. Sweeps(g, queue, <<>>, bytes, types)
  BY <1>1 DEF Sweeps
<1>3. g[0] = [stamps |-> queue, kept |-> <<>>]
  OBVIOUS
<1> HIDE DEF g
<1>4. Sweep(queue, <<>>, bytes, types) = g[Len(<<>>)]
  BY <1>1, <1>2, SweepIs
<1> QED BY <1>1, <1>3, <1>4

Entry(write, base) == [key |-> write - base - 1, lastByteSeq |-> write]

\* What waits are the writes after `done'.
Waiting(waiting, writes, base, done) ==
  /\ waiting \in Seq(Pending)
  /\ \E k \in 0 .. Len(writes) :
       /\ Len(waiting) = Len(writes) - k
       /\ \A i \in 1 .. k : writes[i] <= done
       /\ \A i \in k + 1 .. Len(writes) : writes[i] > done
       /\ \A j \in 1 .. Len(writes) - k : waiting[j] = Entry(writes[k + j], base)

Ascending(writes) == \A i, j \in 1 .. Len(writes) : i < j => writes[i] < writes[j]

\* A sweep over the bytes up to `to' takes the stamps that are due, in their
\* order, and leaves the writes after `to'.
LEMMA SweepWaiting ==
  ASSUME NEW writes \in Seq(0 .. MaxWritten), Ascending(writes), NEW base \in Int, NEW done \in Int, NEW to \in Int,
         NEW waiting, Waiting(waiting, writes, base, done),
         NEW bytes, \A w \in 0 .. MaxWritten : w > done => (w \in bytes <=> w <= to),
         NEW queue, NEW types, NEW d,
         Gathers(d, Len(writes), queue, DueAt(writes, done, to), StampsAt(writes, base, types))
  PROVE  /\ Sweep(queue, waiting, bytes, types).stamps = d[Len(writes)]
         /\ Waiting(Sweep(queue, waiting, bytes, types).kept, writes, base, IF to > done THEN to ELSE done)
<1> DEFINE n == Len(writes)
           S == DueAt(writes, done, to)
           t == StampsAt(writes, base, types)
<1>1. n \in Nat /\ \A i \in 1 .. n : writes[i] \in 0 .. MaxWritten
  <2>1. writes \in Seq(0 .. MaxWritten) => Len(writes) \in Nat
    BY LenProperties
  <2>2. writes \in Seq(0 .. MaxWritten) => \A i \in 1 .. Len(writes) : writes[i] \in 0 .. MaxWritten
    BY ElementOfSeq
  <2> QED BY <2>1, <2>2
<1>2. waiting \in Seq(Pending)
  BY DEF Waiting
<1>3. PICK k \in 0 .. n :
        /\ Len(waiting) = n - k
        /\ \A i \in 1 .. k : writes[i] <= done
        /\ \A i \in k + 1 .. n : writes[i] > done
        /\ \A j \in 1 .. n - k : waiting[j] = Entry(writes[k + j], base)
  BY DEF Waiting
<1> DEFINE L == n - k
<1>4. L \in Nat /\ Len(waiting) = L /\ k \in Nat /\ k + L = n
  BY <1>1, <1>3
<1>5. \A j \in 1 .. L : k + j \in 1 .. n /\ k + j \in k + 1 .. n
  BY <1>4
<1> HIDE DEF n, L
<1>6. MaxWritten \in Nat
  BY FramesAssumption
<1>7. ASSUME NEW j \in 1 .. L
      PROVE  /\ writes[k + j] \in 0 .. MaxWritten /\ writes[k + j] > done
             /\ waiting[j] \in Pending
             /\ waiting[j].lastByteSeq = writes[k + j] /\ StampsOf(waiting[j].key, types) = t[k + j]
             /\ k + j \in S <=> writes[k + j] <= to
             /\ waiting[j].lastByteSeq \in bytes <=> writes[k + j] <= to
  <2>1. k + j \in 1 .. n /\ writes[k + j] \in 0 .. MaxWritten /\ writes[k + j] > done
    BY <1>1, <1>3, <1>5
  <2>2. waiting[j] = Entry(writes[k + j], base)
    BY <1>3 DEF L
  <2>3. waiting[j].lastByteSeq = writes[k + j] /\ waiting[j].key = writes[k + j] - base - 1
    BY <2>2 DEF Entry
  <2>4. t[k + j] = StampsOf(writes[k + j] - base - 1, types)
    BY <2>1 DEF StampsAt, n
  <2>5. k + j \in S <=> done < writes[k + j] /\ writes[k + j] <= to
    BY <2>1 DEF DueAt, n
  <2>6. done < writes[k + j]
    BY <2>1, <1>6
  <2>7. waiting[j] \in Pending
    BY <1>2, <1>4
  <2> QED BY <2>1, <2>3, <2>4, <2>5, <2>6, <2>7
<1>8. PICK m \in 0 .. L : /\ \A j \in 1 .. m : writes[k + j] <= to
                          /\ \A j \in m + 1 .. L : writes[k + j] > to
  <2> DEFINE Later == {j \in 1 .. L : writes[k + j] > to}
  <2>1. CASE Later = {}
    <3>1. L \in 0 .. L /\ \A j \in L + 1 .. L : FALSE
      BY <1>4
    <3>2. \A j \in 1 .. L : writes[k + j] <= to
      BY <1>6, <1>7, <2>1
    <3> QED BY <3>1, <3>2
  <2>2. CASE Later # {}
    <3>1. Later \in SUBSET Nat
      OBVIOUS
    <3> HIDE DEF Later
    <3>2. PICK x \in Later : \A y \in Later : x <= y
      BY <2>2, <3>1, LeastNatural
    <3>3. x \in 1 .. L /\ writes[k + x] > to
      BY DEF Later
    <3>4. x - 1 \in 0 .. L
      BY <1>4, <3>3
    <3>5. ASSUME NEW j \in 1 .. x - 1
          PROVE  writes[k + j] <= to
      <4>1. j \in 1 .. L /\ ~(x <= j)
        BY <1>4, <3>3
      <4>2. j \notin Later
        BY <3>2, <4>1
      <4>3. writes[k + j] \in Int
        BY <1>7, <4>1
      <4> QED BY <4>1, <4>2, <4>3 DEF Later
    <3>6. ASSUME NEW j \in (x - 1) + 1 .. L
          PROVE  writes[k + j] > to
      <4>1. j = x \/ (j \in 1 .. L /\ x < j)
        BY <1>4, <3>3
      <4>2. CASE j = x
        BY <3>3, <4>2
      <4>3. CASE j \in 1 .. L /\ x < j
        <5>1. k + x \in 1 .. n /\ k + j \in 1 .. n /\ k + x < k + j
          BY <1>4, <1>5, <3>3, <4>3
        <5>2. writes[k + x] < writes[k + j]
          BY <5>1 DEF Ascending, n
        <5>3. writes[k + x] \in Int /\ writes[k + j] \in Int
          BY <1>7, <3>3, <4>3
        <5> QED BY <3>3, <5>2, <5>3
      <4> QED BY <4>1, <4>2, <4>3
    <3> QED BY <3>4, <3>5, <3>6
  <2> QED BY <2>1, <2>2
<1> DEFINE more(i) == IF i > m THEN i - m ELSE 0
           kept(i) == [x \in 1 .. more(i) |-> waiting[m + x]]
           g == [i \in 0 .. L |-> [stamps |-> d[k + i], kept |-> kept(i)]]
<1>9. ASSUME NEW i \in 0 .. L
      PROVE  more(i) \in Nat /\ kept(i) \in Seq(Pending) /\ Len(kept(i)) = more(i)
  <2>1. more(i) \in Nat
    BY <1>4, <1>8
  <2>2. \A x \in 1 .. more(i) : m + x \in 1 .. L
    BY <1>4, <1>8
  <2> HIDE DEF more
  <2>3. \A x \in 1 .. more(i) : waiting[m + x] \in Pending
    BY <1>7, <2>2
  <2>4. kept(i) \in Seq(Pending)
    BY <2>1, <2>3, IsASeq
  <2>5. Len(kept(i)) = more(i)
    BY <2>1
  <2> QED BY <2>1, <2>4, <2>5
<1>10. d[k] = queue
  <2>1. ASSUME NEW i \in 1 .. k PROVE i \notin S
    <3>1. i \in 1 .. n /\ writes[i] <= done
      BY <1>1, <1>3
    <3>2. writes[i] \in Int
      BY <1>1, <3>1
    <3> QED BY <3>1, <3>2 DEF DueAt
  <2> HIDE DEF S, t
  <2> QED BY <1>1, <2>1, GatherNone DEF n, S, t
<1>11. ASSUME NEW i \in 1 .. L
       PROVE  d[k + i] = IF k + i \in S THEN d[k + (i - 1)] \o t[k + i] ELSE d[k + (i - 1)]
  <2>1. k + i \in 0 .. n /\ k + i # 0 /\ (k + i) - 1 = k + (i - 1)
    BY <1>4, <1>5
  <2> HIDE DEF S, t
  <2>2. d[k + i] = IF k + i \in S THEN d[(k + i) - 1] \o t[k + i] ELSE d[(k + i) - 1]
    BY <2>1 DEF Gathers, n, S, t
  <2> QED BY <2>1, <2>2
<1>12. Sweeps(g, queue, waiting, bytes, types)
  <2> DEFINE step(i) == IF i = 0 THEN [stamps |-> queue, kept |-> <<>>]
                        ELSE IF waiting[i].lastByteSeq \in bytes
                             THEN [stamps |-> g[i - 1].stamps \o StampsOf(waiting[i].key, types), kept |-> g[i - 1].kept]
                             ELSE [stamps |-> g[i - 1].stamps, kept |-> Append(g[i - 1].kept, waiting[i])]
  <2>1. ASSUME NEW i \in 0 .. L
        PROVE  g[i] = step(i)
    <3>1. g[i] = [stamps |-> d[k + i], kept |-> kept(i)]
      OBVIOUS
    <3>2. CASE i = 0
      <4>1. more(i) = 0 /\ k + i = k
        BY <1>4, <1>8, <3>2
      <4>2. kept(i) = <<>>
        BY <1>9, <4>1, EmptySeq
      <4> HIDE DEF kept, g
      <4> QED BY <1>10, <3>1, <3>2, <4>1, <4>2
    <3>3. CASE i # 0
      <4>1. i \in 1 .. L /\ i - 1 \in 0 .. L
        BY <1>4, <3>3
      <4>2. g[i - 1].stamps = d[k + (i - 1)] /\ g[i - 1].kept = kept(i - 1)
        BY <4>1
      <4>3. CASE i <= m
        <5>1. more(i) = 0 /\ more(i - 1) = 0
          BY <1>4, <1>8, <4>1, <4>3
        <5>2. kept(i) = kept(i - 1)
          BY <5>1
        <5>3. i \in 1 .. m
          BY <1>8, <4>1, <4>3
        <5>4. k + i \in S /\ waiting[i].lastByteSeq \in bytes
          BY <1>7, <1>8, <4>1, <5>3
        <5>5. d[k + i] = d[k + (i - 1)] \o StampsOf(waiting[i].key, types)
          BY <1>7, <1>11, <4>1, <5>4
        <5> HIDE DEF kept, g
        <5> QED BY <3>1, <3>3, <4>2, <5>2, <5>4, <5>5
      <4>4. CASE i > m
        <5>1. i \in m + 1 .. L
          BY <1>8, <4>1, <4>4
        <5>2. writes[k + i] > to /\ writes[k + i] \in Int
          BY <1>7, <1>8, <4>1, <5>1
        <5>3. k + i \notin S /\ waiting[i].lastByteSeq \notin bytes
          BY <1>7, <4>1, <5>2
        <5>4. d[k + i] = d[k + (i - 1)]
          BY <1>11, <4>1, <5>3
        <5>5. more(i) = more(i - 1) + 1 /\ more(i - 1) \in Nat /\ m + more(i) = i
          BY <1>4, <1>8, <4>1, <4>4
        <5>6. waiting[i] \in Pending
          BY <1>7, <4>1
        <5> DEFINE old == kept(i - 1)
                   longer == Append(old, waiting[i])
        <5>7. old \in Seq(Pending) /\ Len(old) = more(i - 1)
          BY <1>9, <4>1
        <5>8. \A x \in 1 .. more(i - 1) : old[x] = waiting[m + x]
          OBVIOUS
        <5>9. \A x \in 1 .. more(i) : kept(i)[x] = waiting[m + x]
          OBVIOUS
        <5>10. kept(i) \in Seq(Pending) /\ Len(kept(i)) = more(i)
          BY <1>9
        <5> HIDE DEF old, kept, more, g
        <5>11. /\ longer \in Seq(Pending) /\ Len(longer) = Len(old) + 1
               /\ \A x \in 1 .. Len(old) : longer[x] = old[x]
               /\ longer[Len(old) + 1] = waiting[i]
          BY <5>6, <5>7, AppendProperties
        <5> HIDE DEF longer
        <5>12. ASSUME NEW x \in 1 .. more(i) PROVE longer[x] = kept(i)[x]
          <6>1. CASE x = more(i)
            BY <5>5, <5>7, <5>9, <5>11, <6>1
          <6>2. CASE x # more(i)
            <7>1. x \in 1 .. more(i - 1)
              BY <5>5, <6>2
            <7> QED BY <5>7, <5>8, <5>9, <5>11, <7>1
          <6> QED BY <6>1, <6>2
        <5>13. longer = kept(i)
          <6>1. Len(longer) = Len(kept(i))
            BY <5>5, <5>7, <5>10, <5>11
          <6> QED BY <5>10, <5>11, <5>12, <6>1, SeqEqual
        <5>14. kept(i) = Append(g[i - 1].kept, waiting[i])
          BY <4>2, <5>13 DEF longer, old
        <5> QED BY <3>1, <3>3, <4>2, <5>3, <5>4, <5>14
      <4> QED BY <1>4, <1>8, <4>1, <4>3, <4>4
    <3> QED BY <3>2, <3>3
  <2>2. g = [i \in 0 .. L |-> g[i]]
    OBVIOUS
  <2> HIDE DEF step, g
  <2>3. g = [i \in 0 .. L |-> step(i)]
    BY <2>1, <2>2
  <2> QED BY <1>4, <2>3 DEF Sweeps, step
<1>13. Sweep(queue, waiting, bytes, types) = g[L]
  <2> HIDE DEF g
  <2> QED BY <1>4, <1>12, SweepIs
<1>14. L \in 0 .. L /\ m + more(L) = L
  BY <1>4, <1>8
<1>15. g[L].stamps = d[n] /\ g[L].kept = kept(L)
  BY <1>4, <1>14
<1>16. Waiting(kept(L), writes, base, IF to > done THEN to ELSE done)
  <2> DEFINE c == k + m
             until == IF to > done THEN to ELSE done
  <2>1. c \in 0 .. n /\ Len(kept(L)) = n - c
    <3>1. Len(kept(L)) = more(L)
      BY <1>9, <1>14
    <3> HIDE DEF kept, more
    <3> QED BY <1>4, <1>8, <1>14, <3>1
  <2>2. ASSUME NEW i \in 1 .. c PROVE writes[i] <= until
    <3>1. i \in 1 .. n /\ writes[i] \in Int
      BY <1>1, <2>1
    <3>2. CASE i <= k
      <4>1. writes[i] <= done
        BY <1>3, <3>1, <3>2
      <4> QED BY <3>1, <4>1
    <3>3. CASE i > k
      <4>1. i - k \in 1 .. m /\ k + (i - k) = i
        BY <1>4, <1>8, <3>3
      <4>2. writes[i] <= to
        BY <1>8, <4>1
      <4> QED BY <3>1, <4>2
    <3> QED BY <1>4, <3>1, <3>2, <3>3
  <2>3. ASSUME NEW i \in c + 1 .. n PROVE writes[i] > until
    <3>1. i - k \in m + 1 .. L /\ i - k \in 1 .. L /\ k + (i - k) = i
      BY <1>4, <1>8
    <3>2. writes[i] > to
      BY <1>8, <3>1
    <3>3. writes[i] > done
      BY <1>7, <3>1
    <3> QED BY <3>2, <3>3
  <2>4. ASSUME NEW j \in 1 .. n - c PROVE kept(L)[j] = Entry(writes[c + j], base)
    <3>1. j \in 1 .. more(L) /\ m + j \in 1 .. n - k /\ k + (m + j) = c + j
      BY <1>4, <1>8, <1>14
    <3>2. kept(L)[j] = waiting[m + j]
      BY <3>1
    <3> HIDE DEF kept
    <3> QED BY <1>3, <3>1, <3>2
  <2>5. kept(L) \in Seq(Pending)
    BY <1>9, <1>14
  <2> HIDE DEF kept, c, until
  <2> QED BY <2>1, <2>2, <2>3, <2>4, <2>5 DEF Waiting, until, n
<1> QED BY <1>13, <1>15, <1>16 DEF n

-----------------------------------------------------------------------------
(* The inductive invariant.                                                *)

OptionSets ==
  {[mss |-> 1, ts |-> [val |-> v, ecr |-> e]] : v \in Nat \ {0}, e \in Nat}
  \cup {[sack |-> 2, ts |-> [val |-> v, ecr |-> e]] : v \in Nat \ {0}, e \in Nat}

Segments == [conn : Int, syn : BOOLEAN, ack : BOOLEAN, len : Int, seq : Numbers, ackNo : Numbers, options : OptionSets]

AppNames == {"relSequenceIn", "relSequenceOut", "scriptIsnOut", "peerTS", "scriptOutTsVals", "tfoShadowSynDataEndOut",
             "tfoShadowSynDataEndIn", "tfoSynDataAckedShadow", "txTsWriteSeq", "txTsOptIdBase", "timestampingFlags",
             "pendingTxSchedSnd", "pendingTxAck", "txTimestampQueue", "receivedPackets", "over"}
DutNames == {"conn", "role", "oldIsn", "isn", "scriptIsn", "peerIsn", "state", "synSeen", "wrote", "sent", "acked",
             "stampedTo", "synData", "peerSyn", "received", "synAcked", "known", "clock", "lastTs", "writes", "base",
             "stamps"}

IsApp(a) == DOMAIN a = AppNames
IsDut(d) == DOMAIN d = DutNames

Numbered(d) ==
  /\ d.conn \in Nat /\ d.isn \in Numbers /\ d.scriptIsn \in Numbers /\ d.peerIsn \in Numbers
  /\ d.wrote \in 0 .. MaxWritten /\ d.sent \in 0 .. d.wrote /\ d.stampedTo \in 0 .. d.sent
  /\ d.acked \in 0 .. MaxWritten /\ d.synData \in 0 .. MaxWritten /\ d.peerSyn \in 0 .. 1 /\ d.received \in 0 .. 1
  /\ d.clock \in Nat \ {0} /\ d.lastTs \in Nat

\* A segment that waits to be compared.
Awaits(seg, d) ==
  /\ seg \in Segments
  /\ seg.syn => seg.seq = d.isn
  /\ ~seg.syn => seg.ack /\ d.synSeen /\ d.state = "open"

\* What the app knows of the numbers that each side starts with.
Frame(a, d) ==
  /\ d.synSeen => a.relSequenceOut = d.isn /\ a.scriptIsnOut = d.scriptIsn
  /\ (d.role = "server" /\ d.state = "syn") \/ d.state = "open" => a.relSequenceIn = d.peerIsn
  /\ a.receivedPackets \in Seq(Segments)
  /\ \A i \in 1 .. Len(a.receivedPackets) : Awaits(a.receivedPackets[i], d)

\* What it knows of timestamps.
Clocks(a, d) ==
  /\ a.peerTS = d.lastTs
  /\ d.known \subseteq a.scriptOutTsVals
  /\ \A v \in a.scriptOutTsVals : v \in Nat /\ v > Bogus + 1

\* The script's writes since it asked for timestamps.
Writes(a, d) ==
  /\ d.base \in 0 .. d.wrote
  /\ d.writes \in Seq(0 .. MaxWritten) /\ Ascending(d.writes)
  /\ \A i \in 1 .. Len(d.writes) : d.base < d.writes[i] /\ d.writes[i] <= d.wrote
  /\ a.txTsWriteSeq = d.wrote + 1
  /\ a.timestampingFlags # {} => a.txTsOptIdBase = d.base + 1
  /\ a.timestampingFlags = {} => d.writes = <<>>

\* What waits for one of the stamps in `kinds'.
Waits(a, d, waiting, kinds, done) ==
  IF a.timestampingFlags \cap kinds = {} THEN waiting = <<>> ELSE Waiting(waiting, d.writes, d.base, done)

Stamping(a, d) ==
  /\ a.timestampingFlags \subseteq Types
  /\ Waits(a, d, a.pendingTxSchedSnd, {"SCHED", "SND"}, d.sent)
  /\ Waits(a, d, a.pendingTxAck, {"ACK"}, d.stampedTo)
  /\ d.stamps \in Seq(Stamp) /\ a.txTimestampQueue = d.stamps

Good(a, d) ==
  /\ IsApp(a) /\ IsDut(d) /\ Numbered(d)
  /\ Frame(a, d) /\ Clocks(a, d) /\ Writes(a, d) /\ Stamping(a, d)

IInv == FramesAgree /\ (Running => Good(app, dut))

\* What is known of the data of a SYN.
SynData(a, d) ==
  /\ d.state # "none" => \E f \in Frames : d.isn = f.live /\ d.peerIsn = f.peer
  /\ a.tfoSynDataAckedShadow = d.synAcked
  /\ d.state \in {"none", "closed", "syn"} => d.synAcked = FALSE
  /\ d.state \in {"none", "closed"} => a.tfoShadowSynDataEndIn = 0 /\ a.tfoShadowSynDataEndOut = 0
  /\ d.state = "syn" /\ d.role = "client" =>
       /\ a.tfoShadowSynDataEndIn = 0
       /\ a.tfoShadowSynDataEndOut = IF d.synData = 0 THEN 0 ELSE Add(d.isn, 1 + d.synData)
  /\ d.state = "syn" /\ d.role = "server" =>
       /\ a.tfoShadowSynDataEndOut = 0
       /\ a.tfoShadowSynDataEndIn = IF d.peerSyn = 0 THEN 0 ELSE Add(d.peerIsn, 1 + d.peerSyn)

-----------------------------------------------------------------------------
(* What changes, and what does not.                                        *)

SameFrame(a, b) ==
  a.relSequenceIn = b.relSequenceIn /\ a.relSequenceOut = b.relSequenceOut /\ a.scriptIsnOut = b.scriptIsnOut
SameClocks(a, b) == a.peerTS = b.peerTS /\ a.scriptOutTsVals = b.scriptOutTsVals
SameShadows(a, b) ==
  /\ a.tfoShadowSynDataEndOut = b.tfoShadowSynDataEndOut /\ a.tfoShadowSynDataEndIn = b.tfoShadowSynDataEndIn
  /\ a.tfoSynDataAckedShadow = b.tfoSynDataAckedShadow
SameWriteSeq(a, b) ==
  /\ a.txTsWriteSeq = b.txTsWriteSeq /\ a.txTsOptIdBase = b.txTsOptIdBase
  /\ a.timestampingFlags = b.timestampingFlags
SameSent(a, b) == a.pendingTxSchedSnd = b.pendingTxSchedSnd
SameAcked(a, b) == a.pendingTxAck = b.pendingTxAck
SameQueue(a, b) == a.txTimestampQueue = b.txTimestampQueue
SamePackets(a, b) == a.receivedPackets = b.receivedPackets

SameConn(d, e) == d.conn = e.conn /\ d.role = e.role /\ d.isn = e.isn /\ d.scriptIsn = e.scriptIsn /\ d.peerIsn = e.peerIsn
SameState(d, e) == d.state = e.state /\ d.synSeen = e.synSeen
SameSizes(d, e) == d.wrote = e.wrote /\ d.sent = e.sent /\ d.stampedTo = e.stampedTo
SameSyn(d, e) == d.synData = e.synData /\ d.peerSyn = e.peerSyn /\ d.received = e.received /\ d.synAcked = e.synAcked
SameTimes(d, e) == d.known = e.known /\ d.clock = e.clock /\ d.lastTs = e.lastTs
SameWritten(d, e) == d.writes = e.writes /\ d.base = e.base

LEMMA FrameKept ==
  ASSUME NEW a, NEW b, NEW d, NEW e, Frame(a, d), SameFrame(b, a), SamePackets(b, a), SameConn(e, d), SameState(e, d)
  PROVE  Frame(b, e)
BY DEF Frame, Awaits, SameFrame, SamePackets, SameConn, SameState

LEMMA ClocksKept ==
  ASSUME NEW a, NEW b, NEW d, NEW e, Clocks(a, d), SameClocks(b, a), SameTimes(e, d)
  PROVE  Clocks(b, e)
BY DEF Clocks, SameClocks, SameTimes

LEMMA WritesKept ==
  ASSUME NEW a, NEW b, NEW d, NEW e, Writes(a, d), SameWriteSeq(b, a), SameWritten(e, d), e.wrote = d.wrote
  PROVE  Writes(b, e)
BY DEF Writes, SameWriteSeq, SameWritten

LEMMA StampingKept ==
  ASSUME NEW a, NEW b, NEW d, NEW e, Stamping(a, d), SameWriteSeq(b, a), SameWritten(e, d), SameSizes(e, d),
         SameSent(b, a), SameAcked(b, a), SameQueue(b, a), e.stamps = d.stamps
  PROVE  Stamping(b, e)
BY DEF Stamping, Waits, SameWriteSeq, SameWritten, SameSizes, SameSent, SameAcked, SameQueue

LEMMA SynDataKept ==
  ASSUME NEW a, NEW b, NEW d, NEW e, SynData(a, d), SameShadows(b, a), SameConn(e, d), e.state = d.state,
         e.synData = d.synData, e.peerSyn = d.peerSyn, e.synAcked = d.synAcked
  PROVE  SynData(b, e)
BY DEF SynData, SameShadows, SameConn

\* What the app makes of a segment of the DUT.
Arrived(a, seg, b) ==
  /\ IsApp(b) /\ b.over = a.over /\ SameFrame(b, a) /\ SameWriteSeq(b, a) /\ SameAcked(b, a)
  /\ b.scriptOutTsVals = a.scriptOutTsVals /\ b.peerTS = seg.options.ts.val
  /\ b.pendingTxSchedSnd = IF seg.len = 0 THEN a.pendingTxSchedSnd ELSE SentSweep(a, seg).kept
  /\ b.txTimestampQueue = IF seg.len = 0 THEN a.txTimestampQueue ELSE SentSweep(a, seg).stamps
  /\ b.receivedPackets = IF seg.conn # dut.conn THEN a.receivedPackets ELSE Append(a.receivedPackets, seg)
  /\ b.tfoShadowSynDataEndIn = a.tfoShadowSynDataEndIn
  /\ b.tfoShadowSynDataEndOut = IF seg.syn /\ ~seg.ack /\ seg.len > 0
                                THEN Add(seg.seq, 1 + seg.len) ELSE a.tfoShadowSynDataEndOut
  /\ b.tfoSynDataAckedShadow = IF /\ seg.syn /\ seg.ack /\ a.tfoShadowSynDataEndIn # 0
                                  /\ ~SeqLess(seg.ackNo, a.tfoShadowSynDataEndIn)
                               THEN TRUE ELSE a.tfoSynDataAckedShadow

LEMMA ArrivedFacts ==
  ASSUME NEW a, IsApp(a), NEW seg, "ts" \in DOMAIN seg.options
  PROVE  Arrived(a, seg, SocketDataArrived(a, seg))
<1> DEFINE b == SocketDataArrived(a, seg)
           u == RecordTxTimestampSend(a, seg)
           v == [u EXCEPT !.peerTS = seg.options.ts.val]
           w == ShadowOut(v, seg)
<1>1. /\ IsApp(u) /\ u.over = a.over /\ SameFrame(u, a) /\ SameWriteSeq(u, a) /\ SameAcked(u, a) /\ SameShadows(u, a)
      /\ u.scriptOutTsVals = a.scriptOutTsVals /\ SamePackets(u, a)
      /\ u.pendingTxSchedSnd = IF seg.len = 0 THEN a.pendingTxSchedSnd ELSE SentSweep(a, seg).kept
      /\ u.txTimestampQueue = IF seg.len = 0 THEN a.txTimestampQueue ELSE SentSweep(a, seg).stamps
  BY DEF RecordTxTimestampSend, IsApp, AppNames, SameFrame, SameWriteSeq, SameAcked, SameShadows, SamePackets
<1> HIDE DEF u
<1>2. /\ IsApp(v) /\ v.over = u.over /\ SameFrame(v, u) /\ SameWriteSeq(v, u) /\ SameAcked(v, u) /\ SameShadows(v, u)
      /\ v.scriptOutTsVals = u.scriptOutTsVals /\ SamePackets(v, u) /\ SameSent(v, u) /\ SameQueue(v, u)
      /\ v.peerTS = seg.options.ts.val
  BY <1>1 DEF IsApp, AppNames, SameFrame, SameWriteSeq, SameAcked, SameShadows, SamePackets, SameSent, SameQueue
<1>3. b = IF seg.conn # dut.conn THEN w ELSE [w EXCEPT !.receivedPackets = Append(@, seg)]
  BY DEF SocketDataArrived, u
<1> HIDE DEF v, b
<1>4. /\ IsApp(w) /\ w.over = v.over /\ SameFrame(w, v) /\ SameWriteSeq(w, v) /\ SameAcked(w, v)
      /\ SameClocks(w, v) /\ SamePackets(w, v) /\ SameSent(w, v) /\ SameQueue(w, v)
      /\ w.tfoShadowSynDataEndIn = v.tfoShadowSynDataEndIn
      /\ w.tfoShadowSynDataEndOut = IF seg.syn /\ ~seg.ack /\ seg.len > 0
                                    THEN Add(seg.seq, 1 + seg.len) ELSE v.tfoShadowSynDataEndOut
      /\ w.tfoSynDataAckedShadow = IF /\ seg.syn /\ seg.ack /\ v.tfoShadowSynDataEndIn # 0
                                      /\ ~SeqLess(seg.ackNo, v.tfoShadowSynDataEndIn)
                                   THEN TRUE ELSE v.tfoSynDataAckedShadow
  <2>1. CASE ~seg.syn
    BY <1>2, <2>1 DEF ShadowOut, SameFrame, SameWriteSeq, SameAcked, SameClocks, SamePackets, SameSent, SameQueue
  <2>2. CASE seg.syn /\ ~seg.ack
    BY <1>2, <2>2 DEF ShadowOut, IsApp, AppNames, SameFrame, SameWriteSeq, SameAcked, SameClocks, SamePackets, SameSent,
                      SameQueue
  <2>3. CASE seg.syn /\ seg.ack
    BY <1>2, <2>3 DEF ShadowOut, IsApp, AppNames, SameFrame, SameWriteSeq, SameAcked, SameClocks, SamePackets, SameSent,
                      SameQueue
  <2> QED BY <2>1, <2>2, <2>3
<1> HIDE DEF w
<1>5. /\ IsApp(b) /\ b.over = w.over /\ SameFrame(b, w) /\ SameWriteSeq(b, w) /\ SameAcked(b, w)
      /\ SameClocks(b, w) /\ SameSent(b, w) /\ SameQueue(b, w) /\ SameShadows(b, w)
      /\ b.receivedPackets = IF seg.conn # dut.conn THEN w.receivedPackets ELSE Append(w.receivedPackets, seg)
  BY <1>3, <1>4 DEF IsApp, AppNames, SameFrame, SameWriteSeq, SameAcked, SameClocks, SameSent, SameQueue, SameShadows
<1>6. SameFrame(b, a) /\ SameWriteSeq(b, a) /\ SameAcked(b, a)
  BY <1>1, <1>2, <1>4, <1>5 DEF SameFrame, SameWriteSeq, SameAcked
<1>7. b.scriptOutTsVals = a.scriptOutTsVals /\ b.peerTS = seg.options.ts.val /\ b.over = a.over
  BY <1>1, <1>2, <1>4, <1>5 DEF SameClocks
<1>8. b.pendingTxSchedSnd = u.pendingTxSchedSnd /\ b.txTimestampQueue = u.txTimestampQueue
  BY <1>1, <1>2, <1>4, <1>5 DEF SameSent, SameQueue
<1>9. b.receivedPackets = IF seg.conn # dut.conn THEN a.receivedPackets ELSE Append(a.receivedPackets, seg)
  BY <1>1, <1>2, <1>4, <1>5 DEF SamePackets
<1>10. SameShadows(v, a) /\ SameShadows(b, w)
  BY <1>1, <1>2, <1>5 DEF SameShadows
<1>11. Arrived(a, seg, b)
  BY <1>1, <1>4, <1>5, <1>6, <1>7, <1>8, <1>9, <1>10 DEF Arrived, SameShadows
<1> QED BY <1>11 DEF b

\* What it makes of a segment that the script injects.
Injected(a, seg, b) ==
  /\ IsApp(b) /\ b.over = a.over /\ SameWriteSeq(b, a) /\ SameSent(b, a) /\ SameClocks(b, a) /\ SamePackets(b, a)
  /\ b.relSequenceOut = a.relSequenceOut /\ b.scriptIsnOut = a.scriptIsnOut
  /\ b.relSequenceIn = IF seg.syn THEN seg.seq ELSE a.relSequenceIn
  /\ b.pendingTxAck = IF seg.ack /\ ~seg.syn THEN AckedSweep(a, seg.ackNo).kept ELSE a.pendingTxAck
  /\ b.txTimestampQueue = IF seg.ack /\ ~seg.syn THEN AckedSweep(a, seg.ackNo).stamps ELSE a.txTimestampQueue
  /\ b.tfoShadowSynDataEndOut = a.tfoShadowSynDataEndOut
  /\ b.tfoShadowSynDataEndIn = IF seg.syn /\ ~seg.ack /\ seg.len > 0
                               THEN Add(seg.seq, 1 + seg.len) ELSE a.tfoShadowSynDataEndIn
  /\ b.tfoSynDataAckedShadow =
       IF /\ seg.syn /\ seg.ack /\ a.tfoShadowSynDataEndOut # 0
          /\ ~SeqLess(Sub(Add(seg.ackNo, a.relSequenceOut), a.scriptIsnOut), a.tfoShadowSynDataEndOut)
       THEN TRUE ELSE a.tfoSynDataAckedShadow

LEMMA InjectedFacts ==
  ASSUME NEW a, IsApp(a), NEW seg
  PROVE  Injected(a, seg, Injecting(a, seg))
<1> DEFINE b == Injecting(a, seg)
           u == IF seg.syn THEN [a EXCEPT !.relSequenceIn = seg.seq] ELSE a
           v == ShadowIn(u, seg)
<1>1. /\ IsApp(u) /\ u.over = a.over /\ SameWriteSeq(u, a) /\ SameSent(u, a) /\ SameAcked(u, a) /\ SameQueue(u, a)
      /\ SameClocks(u, a) /\ SamePackets(u, a) /\ SameShadows(u, a)
      /\ u.relSequenceOut = a.relSequenceOut /\ u.scriptIsnOut = a.scriptIsnOut
      /\ u.relSequenceIn = IF seg.syn THEN seg.seq ELSE a.relSequenceIn
  BY DEF IsApp, AppNames, SameWriteSeq, SameSent, SameAcked, SameQueue, SameClocks, SamePackets, SameShadows
<1>2. b = IF seg.ack /\ ~seg.syn THEN RecordTxTimestampAck(v, seg.ackNo) ELSE v
  BY DEF Injecting
<1> HIDE DEF u, b
<1>3. /\ IsApp(v) /\ v.over = u.over /\ SameFrame(v, u) /\ SameWriteSeq(v, u) /\ SameSent(v, u) /\ SameAcked(v, u)
      /\ SameQueue(v, u) /\ SameClocks(v, u) /\ SamePackets(v, u)
      /\ v.tfoShadowSynDataEndOut = u.tfoShadowSynDataEndOut
      /\ v.tfoShadowSynDataEndIn = IF seg.syn /\ ~seg.ack /\ seg.len > 0
                                   THEN Add(seg.seq, 1 + seg.len) ELSE u.tfoShadowSynDataEndIn
      /\ v.tfoSynDataAckedShadow =
           IF /\ seg.syn /\ seg.ack /\ u.tfoShadowSynDataEndOut # 0
              /\ ~SeqLess(Sub(Add(seg.ackNo, u.relSequenceOut), u.scriptIsnOut), u.tfoShadowSynDataEndOut)
           THEN TRUE ELSE u.tfoSynDataAckedShadow
  <2>1. CASE ~seg.syn
    BY <1>1, <2>1 DEF ShadowIn, SameFrame, SameWriteSeq, SameAcked, SameClocks, SamePackets, SameSent, SameQueue
  <2>2. CASE seg.syn /\ ~seg.ack
    BY <1>1, <2>2 DEF ShadowIn, IsApp, AppNames, SameFrame, SameWriteSeq, SameAcked, SameClocks, SamePackets, SameSent,
                      SameQueue
  <2>3. CASE seg.syn /\ seg.ack
    BY <1>1, <2>3 DEF ShadowIn, IsApp, AppNames, SameFrame, SameWriteSeq, SameAcked, SameClocks, SamePackets, SameSent,
                      SameQueue
  <2> QED BY <2>1, <2>2, <2>3
<1> HIDE DEF v
<1>4. /\ IsApp(b) /\ b.over = v.over /\ SameFrame(b, v) /\ SameWriteSeq(b, v) /\ SameSent(b, v) /\ SameClocks(b, v)
      /\ SamePackets(b, v) /\ SameShadows(b, v)
      /\ b.pendingTxAck = IF seg.ack /\ ~seg.syn THEN AckedSweep(v, seg.ackNo).kept ELSE v.pendingTxAck
      /\ b.txTimestampQueue = IF seg.ack /\ ~seg.syn THEN AckedSweep(v, seg.ackNo).stamps ELSE v.txTimestampQueue
  BY <1>2, <1>3 DEF RecordTxTimestampAck, IsApp, AppNames, SameFrame, SameWriteSeq, SameSent, SameClocks, SamePackets,
                    SameShadows
<1>5. AckedSweep(v, seg.ackNo) = AckedSweep(a, seg.ackNo) /\ SameAcked(v, a) /\ SameQueue(v, a)
  BY <1>1, <1>3 DEF AckedSweep, SameQueue, SameAcked, SameWriteSeq
<1>6. SameWriteSeq(b, a) /\ SameSent(b, a) /\ SameClocks(b, a) /\ SamePackets(b, a) /\ b.over = a.over
  BY <1>1, <1>3, <1>4 DEF SameWriteSeq, SameSent, SameClocks, SamePackets
<1>7. /\ b.relSequenceOut = a.relSequenceOut /\ b.scriptIsnOut = a.scriptIsnOut
      /\ b.relSequenceIn = IF seg.syn THEN seg.seq ELSE a.relSequenceIn
  BY <1>1, <1>3, <1>4 DEF SameFrame
<1>8. /\ b.pendingTxAck = IF seg.ack /\ ~seg.syn THEN AckedSweep(a, seg.ackNo).kept ELSE a.pendingTxAck
      /\ b.txTimestampQueue = IF seg.ack /\ ~seg.syn THEN AckedSweep(a, seg.ackNo).stamps ELSE a.txTimestampQueue
  BY <1>4, <1>5 DEF SameAcked, SameQueue
<1>9. SameShadows(b, v) /\ SameShadows(u, a)
  BY <1>1, <1>4
<1>10. Injected(a, seg, b)
  BY <1>1, <1>3, <1>4, <1>6, <1>7, <1>8, <1>9 DEF Injected, SameShadows
<1> QED BY <1>10 DEF b
-----------------------------------------------------------------------------
(* Sends and acknowledgements.                                             *)

\* Nothing is due for bytes that were out before.
LEMMA NothingDue ==
  ASSUME Good(app, dut), NEW from \in Int, NEW to \in Int, to <= from, NEW types
  PROVE  Due(from, to, types) = dut.stamps
<1> DEFINE n == Len(dut.writes)
<1>1. n \in Nat /\ \A i \in 1 .. n : dut.writes[i] \in 0 .. MaxWritten
  BY LenProperties, ElementOfSeq DEF Good, Writes
<1>2. PICK d : /\ Gathers(d, n, dut.stamps, DueAt(dut.writes, from, to), StampsAt(dut.writes, dut.base, types))
               /\ Due(from, to, types) = d[n]
  BY <1>1, DueGathers
<1>3. ASSUME NEW i \in 1 .. n
      PROVE  i \notin DueAt(dut.writes, from, to)
  <2>1. dut.writes[i] \in Int
    BY <1>1
  <2> QED BY <2>1 DEF DueAt
<1>4. n \in 0 .. n
  BY <1>1
<1> HIDE DEF n
<1>5. d[n] = dut.stamps
  BY <1>1, <1>2, <1>3, <1>4, GatherNone
<1> QED BY <1>2, <1>5

\* A sweep takes the stamps that are due.
LEMMA SweepRight ==
  ASSUME Good(app, dut), NEW kinds, NEW types \in Seq(Types), app.timestampingFlags \cap kinds = {} => types = <<>>,
         NEW done \in Int, NEW to \in Int, NEW waiting, Waits(app, dut, waiting, kinds, done),
         NEW bytes, \A w \in 0 .. MaxWritten : w > done => (w \in bytes <=> w <= to)
  PROVE  /\ Sweep(app.txTimestampQueue, waiting, bytes, types).stamps = Due(done, to, types)
         /\ Waits(app, dut, Sweep(app.txTimestampQueue, waiting, bytes, types).kept, kinds, IF to > done THEN to ELSE done)
         /\ Due(done, to, types) \in Seq(Stamp)
<1> DEFINE n == Len(dut.writes)
           t == StampsAt(dut.writes, dut.base, types)
           S == DueAt(dut.writes, done, to)
           until == IF to > done THEN to ELSE done
<1>1. dut.writes \in Seq(0 .. MaxWritten) /\ Ascending(dut.writes) /\ dut.base \in 0 .. dut.wrote
  BY DEF Good, Writes
<1>2. n \in Nat /\ \A i \in 1 .. n : dut.writes[i] \in 0 .. MaxWritten
  BY <1>1, LenProperties, ElementOfSeq
<1>3. dut.base \in Int
  BY <1>1
<1>4. PICK d : Gathers(d, n, dut.stamps, S, t) /\ Due(done, to, types) = d[n]
  BY <1>2, DueGathers
<1>5. dut.stamps \in Seq(Stamp) /\ app.txTimestampQueue = dut.stamps
  BY DEF Good, Stamping
<1>6. ASSUME NEW i \in 1 .. n
      PROVE  t[i] \in Seq(Stamp) /\ (types = <<>> => t[i] = <<>>)
  <2>1. dut.writes[i] - dut.base - 1 \in Int
    BY <1>2, <1>3
  <2>2. t[i] = StampsOf(dut.writes[i] - dut.base - 1, types)
    BY DEF StampsAt
  <2> QED BY <2>1, <2>2, StampsOfTypes
<1> HIDE DEF n, t, S
<1>7. d[n] \in Seq(Stamp) /\ (types = <<>> => d[n] = dut.stamps)
  <2>1. /\ d[n] \in Seq(Stamp)
        /\ (\A i \in 1 .. n : t[i] = <<>>) => d[n] = dut.stamps
    BY <1>2, <1>4, <1>5, <1>6, GatherTypes
  <2> QED BY <1>6, <2>1
<1>8. CASE app.timestampingFlags \cap kinds = {}
  <2>1. waiting = <<>> /\ types = <<>>
    BY <1>8 DEF Waits
  <2>2. Sweep(app.txTimestampQueue, waiting, bytes, types) = [stamps |-> app.txTimestampQueue, kept |-> <<>>]
    BY <2>1, SweepNothing
  <2> QED BY <1>4, <1>5, <1>7, <1>8, <2>1, <2>2 DEF Waits
<1>9. CASE app.timestampingFlags \cap kinds # {}
  <2>1. Waiting(waiting, dut.writes, dut.base, done)
    BY <1>9 DEF Waits
  <2>2. Gathers(d, Len(dut.writes), app.txTimestampQueue, DueAt(dut.writes, done, to), StampsAt(dut.writes, dut.base, types))
    BY <1>4, <1>5 DEF n, S, t
  <2>3. /\ Sweep(app.txTimestampQueue, waiting, bytes, types).stamps = d[Len(dut.writes)]
        /\ Waiting(Sweep(app.txTimestampQueue, waiting, bytes, types).kept, dut.writes, dut.base, until)
    BY <1>1, <1>3, <2>1, <2>2, SweepWaiting
  <2> HIDE DEF until
  <2>4. Waits(app, dut, Sweep(app.txTimestampQueue, waiting, bytes, types).kept, kinds, until)
    BY <1>9, <2>3 DEF Waits
  <2> QED BY <1>4, <1>7, <2>3, <2>4 DEF n, until
<1> QED BY <1>8, <1>9

\* Of the bytes that are not out yet, a segment carries those up to its end.
LEMMA CarriedRight ==
  ASSUME NEW from \in 1 .. MaxWritten + 1, NEW to \in from .. MaxWritten + 1, NEW sent \in Int, from <= sent + 1,
         NEW w \in 0 .. MaxWritten, w > sent
  PROVE  w \in Carried(from, to - from) <=> w <= to - 1
<1>1. Modulus \in Nat /\ Half \in Nat /\ Modulus = 2 * Half /\ MaxWritten \in Nat /\ MaxWritten + 1 < Half
  BY Bounds
<1>2. /\ w \in 0 .. Half /\ w < Half /\ from \in 0 .. Half /\ from < Half
      /\ to \in 0 .. Half /\ to < Half /\ to - from \in 0 .. Half /\ to - from < Half
  BY <1>1
<1>3. w \in Numbers /\ from \in Numbers /\ to - from \in Numbers
  BY <1>1, <1>2 DEF Numbers
<1>4. Add(from, to - from) = to
  <2>1. Add(from, to - from) = IF from + (to - from) < Modulus THEN from + (to - from) ELSE from + (to - from) - Modulus
    BY <1>3, AddCases
  <2> QED BY <1>1, <1>2, <2>1
<1>5. (SeqGE(w, from) <=> w >= from) /\ (SeqLess(w, to) <=> w < to)
  BY <1>2, InOrder
<1>6. w \in Carried(from, to - from) <=> w >= from /\ w < to
  BY <1>3, <1>4, <1>5 DEF Carried, Numbers
<1>7. (w >= from /\ w < to) <=> w <= to - 1
  BY <1>1
<1> QED BY <1>6, <1>7

\* An acknowledgement covers the bytes before its number.
LEMMA CoveredRight ==
  ASSUME NEW upTo \in 0 .. MaxWritten, NEW w \in 0 .. MaxWritten
  PROVE  w \in Covered(1 + upTo) <=> w <= upTo
<1>1. Modulus \in Nat /\ Half \in Nat /\ Modulus = 2 * Half /\ MaxWritten \in Nat /\ MaxWritten + 1 < Half
  BY Bounds
<1>2. w + 1 \in 0 .. Half /\ w + 1 < Half /\ 1 + upTo \in 0 .. Half /\ 1 + upTo < Half
  BY <1>1
<1>3. w \in Numbers /\ 1 \in Numbers
  BY <1>1, <1>2 DEF Numbers
<1>4. Add(w, 1) = w + 1
  <2>1. Add(w, 1) = IF w + 1 < Modulus THEN w + 1 ELSE w + 1 - Modulus
    BY <1>3, AddCases
  <2> QED BY <1>1, <1>2, <2>1
<1>5. SeqGE(1 + upTo, w + 1) <=> 1 + upTo >= w + 1
  BY <1>2, InOrder
<1>6. w \in Covered(1 + upTo) <=> 1 + upTo >= w + 1
  BY <1>3, <1>4, <1>5 DEF Covered, Numbers
<1>7. 1 + upTo >= w + 1 <=> w <= upTo
  OBVIOUS
<1> QED BY <1>6, <1>7

\* The stamps of a segment with the bytes from .. to - 1.
LEMMA SentRight ==
  ASSUME Good(app, dut), NEW from \in 1 .. MaxWritten + 1, NEW to \in from .. MaxWritten + 1, from <= dut.sent + 1,
         NEW seg, seg.len = to - from, RelStart(app, seg) = from, from = to => to - 1 <= dut.sent
  PROVE  LET due == Due(dut.sent, to - 1, SendTypes(app.timestampingFlags))
         IN /\ (IF seg.len = 0 THEN app.txTimestampQueue ELSE SentSweep(app, seg).stamps) = due
            /\ Waits(app, dut, IF seg.len = 0 THEN app.pendingTxSchedSnd ELSE SentSweep(app, seg).kept,
                     {"SCHED", "SND"}, IF to - 1 > dut.sent THEN to - 1 ELSE dut.sent)
            /\ due \in Seq(Stamp)
<1> DEFINE types == SendTypes(app.timestampingFlags)
           kinds == {"SCHED", "SND"}
           end == to - 1
           bytes == Carried(from, seg.len)
<1>1. dut.sent \in Int /\ end \in Int
  <2>1. dut.wrote \in 0 .. MaxWritten /\ dut.sent \in 0 .. dut.wrote /\ MaxWritten \in Nat
    BY Bounds DEF Good, Numbered
  <2> QED BY <2>1
<1>2. types \in Seq(Types) /\ (app.timestampingFlags \cap kinds = {} => types = <<>>)
  BY TypesOfFlags
<1>3. Waits(app, dut, app.pendingTxSchedSnd, kinds, dut.sent)
  BY DEF Good, Stamping
<1>4. \A w \in 0 .. MaxWritten : w > dut.sent => (w \in bytes <=> w <= end)
  BY <1>1, CarriedRight
<1>5. SentSweep(app, seg) = Sweep(app.txTimestampQueue, app.pendingTxSchedSnd, bytes, types)
  BY DEF SentSweep
<1> HIDE DEF types, kinds, bytes
<1>6. CASE from # to
  <2>1. seg.len # 0
    BY <1>6
  <2> HIDE DEF end
  <2> DEFINE waiting == app.pendingTxSchedSnd
             done == dut.sent
             swept == Sweep(app.txTimestampQueue, waiting, bytes, types)
  <2>2. /\ done \in Int /\ Waits(app, dut, waiting, kinds, done)
        /\ \A w \in 0 .. MaxWritten : w > done => (w \in bytes <=> w <= end)
    BY <1>1, <1>3, <1>4
  <2> HIDE DEF waiting, done
  <2>3. /\ swept.stamps = Due(done, end, types)
        /\ Waits(app, dut, swept.kept, kinds, IF end > done THEN end ELSE done)
        /\ Due(done, end, types) \in Seq(Stamp)
    BY <1>1, <1>2, <2>2, SweepRight
  <2> QED BY <1>5, <2>1, <2>3 DEF end, types, kinds, waiting, done
<1>7. CASE from = to
  <2>1. seg.len = 0 /\ end <= dut.sent
    BY <1>7
  <2> HIDE DEF end
  <2>2. Due(dut.sent, end, types) = dut.stamps
    BY <1>1, <2>1, NothingDue
  <2>3. dut.stamps \in Seq(Stamp) /\ app.txTimestampQueue = dut.stamps
    BY DEF Good, Stamping
  <2>4. ~(end > dut.sent)
    BY <1>1, <2>1
  <2> QED BY <1>3, <2>1, <2>2, <2>3, <2>4 DEF end, types, kinds
<1> QED BY <1>6, <1>7

\* The stamps of an acknowledgement of the bytes up to upTo.
LEMMA AckedRight ==
  ASSUME Good(app, dut), NEW upTo \in 0 .. MaxWritten
  PROVE  LET due == Due(dut.stampedTo, upTo, AckTypes(app.timestampingFlags))
         IN /\ AckedSweep(app, 1 + upTo).stamps = due
            /\ Waits(app, dut, AckedSweep(app, 1 + upTo).kept, {"ACK"}, IF upTo > dut.stampedTo THEN upTo ELSE dut.stampedTo)
            /\ due \in Seq(Stamp)
<1> DEFINE types == AckTypes(app.timestampingFlags)
           kinds == {"ACK"}
           bytes == Covered(1 + upTo)
<1>1. dut.stampedTo \in Int /\ upTo \in Int
  <2>1. /\ dut.wrote \in 0 .. MaxWritten /\ dut.sent \in 0 .. dut.wrote /\ dut.stampedTo \in 0 .. dut.sent
        /\ MaxWritten \in Nat
    BY Bounds DEF Good, Numbered
  <2> QED BY <2>1
<1>2. types \in Seq(Types) /\ (app.timestampingFlags \cap kinds = {} => types = <<>>)
  BY TypesOfFlags
<1>3. Waits(app, dut, app.pendingTxAck, kinds, dut.stampedTo)
  BY DEF Good, Stamping
<1>4. \A w \in 0 .. MaxWritten : w > dut.stampedTo => (w \in bytes <=> w <= upTo)
  BY CoveredRight
<1>5. AckedSweep(app, 1 + upTo) = Sweep(app.txTimestampQueue, app.pendingTxAck, bytes, types)
  BY DEF AckedSweep
<1> HIDE DEF types, kinds, bytes
<1> DEFINE waiting == app.pendingTxAck
           done == dut.stampedTo
           swept == Sweep(app.txTimestampQueue, waiting, bytes, types)
<1>6. /\ done \in Int /\ Waits(app, dut, waiting, kinds, done)
      /\ \A w \in 0 .. MaxWritten : w > done => (w \in bytes <=> w <= upTo)
  BY <1>1, <1>3, <1>4
<1> HIDE DEF waiting, done
<1>7. /\ swept.stamps = Due(done, upTo, types)
      /\ Waits(app, dut, swept.kept, kinds, IF upTo > done THEN upTo ELSE done)
      /\ Due(done, upTo, types) \in Seq(Stamp)
  BY <1>1, <1>2, <1>6, SweepRight
<1> QED BY <1>5, <1>7 DEF types, kinds, waiting, done

-----------------------------------------------------------------------------
(* Comparisons.                                                            *)

LEMMA ScriptedOptions ==
  ASSUME NEW v \in Nat \ {0}, NEW e \in Nat
  PROVE  /\ LET o == [mss |-> 1, ts |-> [val |-> v, ecr |-> e]]
            IN Scripted(o) = [mss |-> 1, ts |-> [val |-> v + 50, ecr |-> e]]
         /\ LET o == [sack |-> 2, ts |-> [val |-> v, ecr |-> e]]
            IN Scripted(o) = [sack |-> 2, ts |-> [val |-> v + 50, ecr |-> e]]
BY DEF Scripted, Skew

\* Of the options of a SYN as a script may have them, only the right ones match.
LEMMA SynOptionsRight ==
  ASSUME Habits = {}, NEW v \in Nat \ {0}, NEW e \in Nat,
         NEW live, live = [mss |-> 1, ts |-> [val |-> v, ecr |-> e]], NEW s, s = Scripted(live),
         NEW o, o \in {s} \cup OtherOptions(s)
  PROVE  CompareOptions(o, live) <=> o = s
<1>1. s = [mss |-> 1, ts |-> [val |-> v + 50, ecr |-> e]]
  BY ScriptedOptions
<1>2. DOMAIN s = {"mss", "ts"} /\ DOMAIN live = {"mss", "ts"} /\ s.mss = 1 /\ live.mss = 1
  BY <1>1
<1>3. s.ts = [val |-> v + 50, ecr |-> e] /\ live.ts.ecr = e
  BY <1>1
<1>4. CASE o = s
  <2>1. s.ts.ecr = e
    BY <1>3
  <2>2. \A kind \in DOMAIN s : CompareOption(kind, s[kind], live[kind])
    BY <1>2, <1>3, <2>1 DEF CompareOption
  <2> QED BY <1>2, <1>4, <2>2 DEF CompareOptions
<1>5. ASSUME NEW kind \in DOMAIN s, o = Without(s, kind)
      PROVE  ~CompareOptions(o, live) /\ o # s
  <2>1. DOMAIN o = DOMAIN s \ {kind}
    BY <1>5 DEF Without
  <2>2. DOMAIN o # DOMAIN s /\ DOMAIN o # {}
    BY <1>2, <2>1
  <2> QED BY <1>2, <2>2 DEF CompareOptions
<1>6. CASE o = [s EXCEPT !.ts.ecr = @ + 1]
  <2>1. o.ts.ecr = e + 1 /\ s.ts.ecr = e /\ "ts" \in DOMAIN o
    BY <1>2, <1>3, <1>6
  <2>2. e + 1 # e
    OBVIOUS
  <2>3. ~CompareOption("ts", o.ts, live.ts)
    BY <1>3, <2>1, <2>2 DEF CompareOption
  <2>4. ~CompareOptions(o, live)
    BY <2>1, <2>3 DEF CompareOptions
  <2>5. o # s
    BY <2>1, <2>2
  <2> QED BY <2>4, <2>5
<1>7. CASE o = [s EXCEPT !.mss = 2]
  <2>1. o.mss = 2 /\ "mss" \in DOMAIN o
    BY <1>2, <1>7
  <2>2. ~CompareOption("mss", o.mss, live.mss)
    BY <1>2, <2>1 DEF CompareOption
  <2>3. ~CompareOptions(o, live)
    BY <2>1, <2>2 DEF CompareOptions
  <2> QED BY <1>2, <2>1, <2>3
<1>8. \/ o = s \/ (\E kind \in DOMAIN s : o = Without(s, kind))
      \/ o = [s EXCEPT !.ts.ecr = @ + 1] \/ o = [s EXCEPT !.mss = 2]
  <2>1. "sack" \notin DOMAIN s
    BY <1>2
  <2> QED BY <2>1 DEF OtherOptions
<1> QED BY <1>4, <1>5, <1>6, <1>7, <1>8

LEMMA DataOptionsRight ==
  ASSUME Habits = {}, NEW v \in Nat \ {0}, NEW e \in Nat,
         NEW live, live = [sack |-> 2, ts |-> [val |-> v, ecr |-> e]], NEW s, s = Scripted(live),
         NEW o, o \in {s} \cup OtherOptions(s)
  PROVE  CompareOptions(o, live) <=> o = s
<1>1. s = [sack |-> 2, ts |-> [val |-> v + 50, ecr |-> e]]
  BY ScriptedOptions
<1>2. DOMAIN s = {"sack", "ts"} /\ DOMAIN live = {"sack", "ts"}
  BY <1>1
<1>3. s.ts = [val |-> v + 50, ecr |-> e] /\ live.ts.ecr = e
  BY <1>1
<1>4. CASE o = s
  <2>1. s.ts.ecr = e
    BY <1>3
  <2>2. \A kind \in DOMAIN s : CompareOption(kind, s[kind], live[kind])
    BY <1>2, <1>3, <2>1 DEF CompareOption
  <2> QED BY <1>2, <1>4, <2>2 DEF CompareOptions
<1>5. ASSUME NEW kind \in DOMAIN s, o = Without(s, kind)
      PROVE  ~CompareOptions(o, live) /\ o # s
  <2>1. DOMAIN o = DOMAIN s \ {kind}
    BY <1>5 DEF Without
  <2>2. DOMAIN o # DOMAIN s /\ DOMAIN o # {}
    BY <1>2, <2>1
  <2> QED BY <1>2, <2>2 DEF CompareOptions
<1>6. CASE o = [s EXCEPT !.ts.ecr = @ + 1]
  <2>1. o.ts.ecr = e + 1 /\ s.ts.ecr = e /\ "ts" \in DOMAIN o
    BY <1>2, <1>3, <1>6
  <2>2. e + 1 # e
    OBVIOUS
  <2>3. ~CompareOption("ts", o.ts, live.ts)
    BY <1>3, <2>1, <2>2 DEF CompareOption
  <2>4. ~CompareOptions(o, live)
    BY <2>1, <2>3 DEF CompareOptions
  <2>5. o # s
    BY <2>1, <2>2
  <2> QED BY <2>4, <2>5
<1>7. \/ o = s \/ (\E kind \in DOMAIN s : o = Without(s, kind))
      \/ o = [s EXCEPT !.ts.ecr = @ + 1]
  <2>1. "mss" \notin DOMAIN s
    BY <1>2
  <2> QED BY <2>1 DEF OtherOptions
<1> QED BY <1>4, <1>5, <1>6, <1>7

LEMMA OptionsRight ==
  ASSUME Habits = {}, NEW live \in OptionSets, NEW o, o \in {Scripted(live)} \cup OtherOptions(Scripted(live))
  PROVE  CompareOptions(o, live) <=> o = Scripted(live)
BY SynOptionsRight, DataOptionsRight DEF OptionSets

LEMMA OptionFacts ==
  ASSUME NEW live \in OptionSets
  PROVE  /\ "ts" \in DOMAIN live /\ "ts" \in DOMAIN Scripted(live)
         /\ live.ts.val \in Nat \ {0} /\ Scripted(live).ts.val = live.ts.val + 50
<1>1. PICK v \in Nat \ {0}, e \in Nat :
        live = [mss |-> 1, ts |-> [val |-> v, ecr |-> e]] \/ live = [sack |-> 2, ts |-> [val |-> v, ecr |-> e]]
  BY DEF OptionSets
<1>2. \/ Scripted(live) = [mss |-> 1, ts |-> [val |-> v + 50, ecr |-> e]]
      \/ Scripted(live) = [sack |-> 2, ts |-> [val |-> v + 50, ecr |-> e]]
  BY <1>1, ScriptedOptions
<1>3. "ts" \in DOMAIN live /\ live.ts = [val |-> v, ecr |-> e]
  BY <1>1
<1>4. "ts" \in DOMAIN Scripted(live) /\ Scripted(live).ts = [val |-> v + 50, ecr |-> e]
  BY <1>2
<1> QED BY <1>3, <1>4

\* A record of a segment, with any options of a set.
Shaped(O) == [conn : Int, syn : BOOLEAN, ack : BOOLEAN, len : Int, seq : Numbers, ackNo : Numbers, options : O]

LEMMA ScriptedSegment ==
  ASSUME Good(app, dut), NEW live \in Segments, NEW seg, seg = InScript(live)
  PROVE  /\ seg \in Shaped({Scripted(live.options)})
         /\ seg.syn = live.syn /\ seg.ack = live.ack /\ seg.options = Scripted(live.options)
         /\ seg.seq = IF live.syn THEN dut.scriptIsn ELSE Sub(live.seq, dut.isn)
         /\ seg.ackNo = IF live.ack /\ ~live.syn THEN Sub(live.ackNo, dut.peerIsn) ELSE live.ackNo
<1>1. /\ live.syn \in BOOLEAN /\ live.ack \in BOOLEAN /\ live.conn \in Int /\ live.len \in Int
      /\ live.seq \in Numbers /\ live.ackNo \in Numbers /\ live.options \in OptionSets
      /\ dut.isn \in Numbers /\ dut.scriptIsn \in Numbers /\ dut.peerIsn \in Numbers
  BY DEF Segments, Good, Numbered
<1>2. Sub(live.seq, dut.isn) \in Numbers /\ Sub(live.ackNo, dut.peerIsn) \in Numbers
  BY <1>1, SubCases
<1> DEFINE q == IF live.syn THEN dut.scriptIsn ELSE Sub(live.seq, dut.isn)
           k == IF live.ack /\ ~live.syn THEN Sub(live.ackNo, dut.peerIsn) ELSE live.ackNo
           o == Scripted(live.options)
<1>3. q \in Numbers /\ k \in Numbers
  BY <1>1, <1>2
<1>4. seg = [live EXCEPT !.seq = q, !.ackNo = k, !.options = o]
  BY DEF InScript
<1> HIDE DEF q, k, o
<1>5. /\ seg \in Shaped({o}) /\ seg.syn = live.syn /\ seg.ack = live.ack /\ seg.options = o
      /\ seg.seq = q /\ seg.ackNo = k
  BY <1>3, <1>4 DEF Shaped, Segments
<1> QED BY <1>5 DEF q, k, o

\* What an expectation may be.
LEMMA VariantFacts ==
  ASSUME NEW o, NEW seg \in Shaped({o}), NEW stored \in Variants(seg)
  PROVE  /\ stored \in Shaped({o} \cup OtherOptions(o)) /\ stored.syn = seg.syn
         /\ stored.conn = seg.conn /\ stored.len = seg.len
<1> DEFINE O == {o} \cup OtherOptions(o)
<1>1. /\ seg.syn \in BOOLEAN /\ seg.ack \in BOOLEAN /\ seg.conn \in Int /\ seg.len \in Int
      /\ seg.seq \in Numbers /\ seg.ackNo \in Numbers /\ seg.options = o
  BY DEF Shaped
<1>2. 1 \in Numbers
  BY Bounds DEF Numbers
<1>3. Add(seg.seq, 1) \in Numbers /\ Add(seg.ackNo, 1) \in Numbers
  BY <1>1, <1>2, AddCases
<1>4. seg \in Shaped(O)
  BY DEF Shaped
<1>5. o \in O
  OBVIOUS
<1>6. \/ stored = seg \/ stored = [seg EXCEPT !.seq = Add(@, 1)] \/ stored = [seg EXCEPT !.ackNo = Add(@, 1)]
      \/ stored = [seg EXCEPT !.ack = ~@] \/ \E p \in OtherOptions(o) : stored = [seg EXCEPT !.options = p]
  BY <1>1 DEF Variants
<1> HIDE DEF O
<1>7. CASE stored = seg
  BY <1>4, <1>7 DEF O
<1>8. CASE stored = [seg EXCEPT !.seq = Add(@, 1)]
  BY <1>3, <1>4, <1>8 DEF Shaped, O
<1>9. CASE stored = [seg EXCEPT !.ackNo = Add(@, 1)]
  BY <1>3, <1>4, <1>9 DEF Shaped, O
<1>10. CASE stored = [seg EXCEPT !.ack = ~@]
  BY <1>4, <1>10 DEF Shaped, O
<1>11. ASSUME NEW p \in OtherOptions(o), stored = [seg EXCEPT !.options = p]
       PROVE  stored \in Shaped(O) /\ stored.syn = seg.syn /\ stored.conn = seg.conn /\ stored.len = seg.len
  <2>1. p \in O
    BY DEF O
  <2> QED BY <1>4, <1>11, <2>1 DEF Shaped
<1> QED BY <1>6, <1>7, <1>8, <1>9, <1>10, <1>11 DEF O

\* Two segments of a connection are the same if their fields are.
LEMMA SameFields ==
  ASSUME NEW O, NEW seg \in Shaped(O), NEW stored \in Shaped(O),
         stored.syn = seg.syn, stored.conn = seg.conn, stored.len = seg.len
  PROVE  /\ stored = seg <=> /\ stored.ack = seg.ack /\ stored.ackNo = seg.ackNo
                             /\ stored.options = seg.options /\ stored.seq = seg.seq
         /\ Same(stored, seg) <=> /\ stored.ack = seg.ack /\ stored.ackNo = seg.ackNo
                                  /\ stored.options = seg.options /\ (seg.syn \/ stored.seq = seg.seq)
<1> DEFINE t == [seg EXCEPT !.seq = stored.seq]
<1>1. t \in Shaped(O) /\ t.seq = stored.seq /\ t.syn = seg.syn /\ t.conn = seg.conn /\ t.len = seg.len
      /\ t.ack = seg.ack /\ t.ackNo = seg.ackNo /\ t.options = seg.options
  BY DEF Shaped
<1>2. ASSUME NEW x \in Shaped(O), NEW y \in Shaped(O), x.conn = y.conn, x.syn = y.syn, x.ack = y.ack, x.len = y.len,
             x.seq = y.seq, x.ackNo = y.ackNo, x.options = y.options
      PROVE  x = y
  BY <1>2 DEF Shaped
<1> HIDE DEF t
<1>3. stored = seg <=> /\ stored.ack = seg.ack /\ stored.ackNo = seg.ackNo
                       /\ stored.options = seg.options /\ stored.seq = seg.seq
  BY <1>2
<1>4. stored = t <=> /\ stored.ack = seg.ack /\ stored.ackNo = seg.ackNo /\ stored.options = seg.options
  BY <1>1, <1>2
<1>5. Same(stored, seg) <=> stored = seg \/ (seg.syn /\ stored = t)
  BY DEF Same, t
<1>6. seg.syn \in BOOLEAN
  BY DEF Shaped
<1> QED BY <1>3, <1>4, <1>5, <1>6

\* An expectation matches if, and only if, it is the segment as the script has it.
LEMMA CompareRight ==
  ASSUME Habits = {}, Good(app, dut), NEW live, Awaits(live, dut), NEW seg, seg = InScript(live),
         NEW stored \in Variants(seg), NEW a, a.relSequenceIn = app.relSequenceIn,
         a.relSequenceOut = IF stored.syn THEN live.seq ELSE app.relSequenceOut,
         a.scriptIsnOut = IF stored.syn THEN stored.seq ELSE app.scriptIsnOut
  PROVE  CompareTcpHeader(a, stored, live) <=> Same(stored, seg)
<1> DEFINE o == Scripted(live.options)
           O == {o} \cup OtherOptions(o)
<1>1. live \in Segments /\ (live.syn => live.seq = dut.isn)
      /\ (~live.syn => live.ack /\ dut.synSeen /\ dut.state = "open")
  BY DEF Awaits
<1>2. /\ live.syn \in BOOLEAN /\ live.ack \in BOOLEAN /\ live.seq \in Numbers /\ live.ackNo \in Numbers
      /\ live.options \in OptionSets
  BY <1>1 DEF Segments
<1>3. dut.isn \in Numbers /\ dut.scriptIsn \in Numbers /\ dut.peerIsn \in Numbers
  BY DEF Good, Numbered
<1>4. /\ seg \in Shaped({o}) /\ seg.syn = live.syn /\ seg.ack = live.ack /\ seg.options = o
      /\ seg.seq = IF live.syn THEN dut.scriptIsn ELSE Sub(live.seq, dut.isn)
      /\ seg.ackNo = IF live.ack /\ ~live.syn THEN Sub(live.ackNo, dut.peerIsn) ELSE live.ackNo
  BY <1>1, ScriptedSegment
<1> HIDE DEF o
<1>5. /\ stored \in Shaped(O) /\ stored.syn = seg.syn /\ stored.conn = seg.conn /\ stored.len = seg.len
  BY <1>4, VariantFacts
<1>6. seg \in Shaped(O)
  BY <1>4 DEF Shaped
<1> HIDE DEF O
<1>7. /\ stored.seq \in Numbers /\ stored.ackNo \in Numbers /\ stored.options \in O
      /\ stored.ack \in BOOLEAN /\ seg.seq \in Numbers /\ seg.ackNo \in Numbers
  BY <1>5, <1>6 DEF Shaped
<1>8. CompareOptions(stored.options, live.options) <=> stored.options = seg.options
  BY <1>2, <1>4, <1>7, OptionsRight DEF o, O
<1>9. Same(stored, seg) <=> /\ stored.ack = seg.ack /\ stored.ackNo = seg.ackNo
                            /\ stored.options = seg.options /\ (seg.syn \/ stored.seq = seg.seq)
  BY <1>5, <1>6, SameFields
<1>10. CASE live.syn
  <2>1. stored.syn /\ stored.syn = live.syn /\ a.relSequenceOut = live.seq /\ a.scriptIsnOut = stored.seq
    BY <1>4, <1>5, <1>10
  <2>2. Sub(Add(stored.seq, live.seq), stored.seq) = live.seq
    <3>1. Add(stored.seq, live.seq) = Add(live.seq, stored.seq)
      BY <1>2, <1>7, AddAndSub
    <3> QED BY <1>2, <1>7, <3>1, AddAndSub
  <2>3. Add(stored.ackNo, 0) = stored.ackNo /\ seg.ackNo = live.ackNo
    BY <1>4, <1>7, <1>10, AddAndSub
  <2>4. live.seq = Sub(Add(stored.seq, a.relSequenceOut), IF stored.syn THEN a.scriptIsnOut ELSE 0)
    BY <2>1, <2>2
  <2>5. live.ackNo = Add(stored.ackNo, IF stored.ack /\ ~stored.syn THEN a.relSequenceIn ELSE 0)
          <=> stored.ackNo = seg.ackNo
    BY <2>1, <2>3
  <2> QED BY <1>4, <1>8, <1>9, <1>10, <2>1, <2>4, <2>5 DEF CompareTcpHeader
<1>11. CASE ~live.syn
  <2>1. /\ ~stored.syn /\ stored.syn = live.syn /\ live.ack /\ seg.ack /\ dut.synSeen /\ dut.state = "open"
        /\ a.relSequenceOut = app.relSequenceOut /\ a.relSequenceIn = app.relSequenceIn
    BY <1>1, <1>4, <1>5, <1>11
  <2>2. app.relSequenceOut = dut.isn /\ app.relSequenceIn = dut.peerIsn
    BY <2>1 DEF Good, Frame
  <2>3. seg.seq = Sub(live.seq, dut.isn) /\ seg.ackNo = Sub(live.ackNo, dut.peerIsn)
    BY <1>4, <1>11, <2>1
  <2>4. live.seq = Add(stored.seq, dut.isn) <=> stored.seq = seg.seq
    BY <1>2, <1>3, <1>7, <2>3, AddAndSub
  <2>5. live.ackNo = Add(stored.ackNo, dut.peerIsn) <=> stored.ackNo = seg.ackNo
    BY <1>2, <1>3, <1>7, <2>3, AddAndSub
  <2>6. Sub(Add(stored.seq, a.relSequenceOut), IF stored.syn THEN a.scriptIsnOut ELSE 0) = Add(stored.seq, dut.isn)
    <3>1. Add(stored.seq, dut.isn) \in Numbers
      BY <1>3, <1>7, AddCases
    <3>2. Sub(Add(stored.seq, dut.isn), 0) = Add(stored.seq, dut.isn)
      BY <3>1, AddAndSub
    <3> QED BY <2>1, <2>2, <3>2
  <2>7. CASE stored.ack
    <3>1. Add(stored.ackNo, IF stored.ack /\ ~stored.syn THEN a.relSequenceIn ELSE 0) = Add(stored.ackNo, dut.peerIsn)
      BY <2>1, <2>2, <2>7
    <3>2. stored.ack = live.ack /\ stored.ack = seg.ack
      BY <1>2, <1>4, <1>7, <2>1, <2>7
    <3> QED BY <1>4, <1>8, <1>9, <1>11, <2>1, <2>4, <2>5, <2>6, <3>1, <3>2 DEF CompareTcpHeader
  <2>8. CASE ~stored.ack
    <3>1. stored.ack # live.ack /\ stored.ack # seg.ack
      BY <2>1, <2>8
    <3> QED BY <1>9, <3>1 DEF CompareTcpHeader
  <2> QED BY <2>7, <2>8
<1> QED BY <1>10, <1>11


-----------------------------------------------------------------------------
(* The steps of the script.                                                *)

LEMMA SocketKept ==
  ASSUME Good(app, dut), NEW role, NEW frame \in Frames, SyscallSocket(role, frame)
  PROVE  FramesAgree' /\ Good(app', dut')
<1>1. FramesAgree'
  BY DEF SyscallSocket, Quiet, FramesAgree
<1>2. /\ IsApp(app') /\ app'.peerTS = app.peerTS /\ app'.scriptOutTsVals = app.scriptOutTsVals
      /\ app'.txTsWriteSeq = 1 /\ app'.timestampingFlags = {} /\ app'.pendingTxSchedSnd = <<>>
      /\ app'.pendingTxAck = <<>> /\ app'.txTimestampQueue = <<>> /\ app'.receivedPackets = <<>>
  BY DEF SyscallSocket, Fresh, Good, IsApp, AppNames
<1>3. /\ IsDut(dut') /\ dut'.conn = dut.conn + 1 /\ dut'.isn = frame.live /\ dut'.scriptIsn = frame.script
      /\ dut'.peerIsn = frame.peer /\ dut'.state = "closed" /\ dut'.synSeen = FALSE /\ dut'.known = {}
      /\ dut'.clock = dut.clock /\ dut'.lastTs = dut.lastTs /\ dut'.writes = <<>> /\ dut'.stamps = <<>>
  BY DEF SyscallSocket, Good, IsDut, DutNames
<1>4. /\ dut'.wrote = 0 /\ dut'.sent = 0 /\ dut'.acked = 0 /\ dut'.stampedTo = 0 /\ dut'.synData = 0
      /\ dut'.peerSyn = 0 /\ dut'.received = 0 /\ dut'.base = 0
  BY DEF SyscallSocket, Good, IsDut, DutNames
<1>5. frame.live \in Numbers /\ frame.script \in Numbers /\ frame.peer \in Numbers
  BY FramesAssumption DEF Numbers
<1>6. Numbered(dut')
  <2>1. dut.conn \in Nat /\ dut.clock \in Nat \ {0} /\ dut.lastTs \in Nat
    BY DEF Good, Numbered
  <2>2. MaxWritten \in Nat
    BY Bounds
  <2> QED BY <1>3, <1>4, <1>5, <2>1, <2>2 DEF Numbered
<1>7. Frame(app', dut')
  <2>1. Len(<<>>) = 0 /\ <<>> \in Seq(Segments)
    OBVIOUS
  <2> QED BY <1>2, <1>3, <2>1 DEF Frame
<1>8. Clocks(app', dut')
  BY <1>2, <1>3 DEF Good, Clocks
<1>9. Writes(app', dut')
  <2>1. Len(<<>>) = 0 /\ <<>> \in Seq(0 .. MaxWritten)
    OBVIOUS
  <2>2. Ascending(<<>>)
    BY <2>1 DEF Ascending
  <2> QED BY <1>2, <1>3, <1>4, <2>1, <2>2 DEF Writes
<1>10. Stamping(app', dut')
  BY <1>2, <1>3 DEF Stamping, Waits
<1> QED BY <1>1, <1>2, <1>3, <1>6, <1>7, <1>8, <1>9, <1>10 DEF Good

LEMMA TimestampingKept ==
  ASSUME Good(app, dut), NEW flags \in FlagSets, SetTimestamping(flags)
  PROVE  FramesAgree' /\ Good(app', dut')
<1>1. FramesAgree'
  BY DEF SetTimestamping, Quiet, FramesAgree
<1>2. /\ IsApp(app') /\ SameFrame(app', app) /\ SameClocks(app', app) /\ SamePackets(app', app)
      /\ SameSent(app', app) /\ SameAcked(app', app) /\ SameQueue(app', app)
      /\ app'.txTsWriteSeq = app.txTsWriteSeq /\ app'.txTsOptIdBase = app.txTsWriteSeq
      /\ app'.timestampingFlags = flags
  BY DEF SetTimestamping, Good, IsApp, AppNames, SameFrame, SameClocks, SamePackets, SameSent, SameAcked, SameQueue
<1>3. /\ IsDut(dut') /\ SameConn(dut', dut) /\ SameState(dut', dut) /\ SameSizes(dut', dut) /\ SameSyn(dut', dut)
      /\ SameTimes(dut', dut) /\ dut'.writes = dut.writes /\ dut'.base = dut.wrote /\ dut'.stamps = dut.stamps
      /\ dut'.acked = dut.acked
  BY DEF SetTimestamping, Good, IsDut, DutNames, SameConn, SameState, SameSizes, SameSyn, SameTimes
<1>4. Numbered(dut')
  BY <1>3 DEF Good, Numbered, SameConn, SameSizes, SameSyn, SameTimes
<1>5. Frame(app', dut') /\ Clocks(app', dut')
  BY <1>2, <1>3, FrameKept, ClocksKept DEF Good
<1>6. dut.writes = <<>> /\ app.timestampingFlags = {}
  BY DEF SetTimestamping, Good, Writes
<1>7. Writes(app', dut')
  <2>1. Len(<<>>) = 0 /\ <<>> \in Seq(0 .. MaxWritten)
    OBVIOUS
  <2>2. Ascending(<<>>)
    BY <2>1 DEF Ascending
  <2>3. app.txTsWriteSeq = dut.wrote + 1
    BY DEF Good, Writes
  <2>4. dut'.wrote = dut.wrote /\ dut.wrote \in 0 .. dut.wrote
    BY <1>3, Bounds DEF SameSizes, Good, Numbered
  <2> QED BY <1>2, <1>3, <1>6, <2>1, <2>2, <2>3, <2>4 DEF Writes
<1>8. app.pendingTxSchedSnd = <<>> /\ app.pendingTxAck = <<>>
  BY <1>6 DEF Good, Stamping, Waits
<1>9. ASSUME NEW base, NEW done
      PROVE  Waiting(<<>>, <<>>, base, done)
  <2>1. Len(<<>>) = 0 /\ <<>> \in Seq(Pending)
    OBVIOUS
  <2>2. 0 \in 0 .. 0 /\ 0 = 0 - 0
    OBVIOUS
  <2> QED BY <2>1, <2>2 DEF Waiting
<1>10. Stamping(app', dut')
  <2>1. flags \subseteq Types
    BY FramesAssumption DEF Types
  <2>2. /\ Waits(app', dut', app'.pendingTxSchedSnd, {"SCHED", "SND"}, dut'.sent)
        /\ Waits(app', dut', app'.pendingTxAck, {"ACK"}, dut'.stampedTo)
    BY <1>2, <1>3, <1>6, <1>8, <1>9 DEF Waits, SameSent, SameAcked
  <2>3. dut'.stamps \in Seq(Stamp) /\ app'.txTimestampQueue = dut'.stamps
    BY <1>2, <1>3 DEF Good, Stamping, SameQueue
  <2> QED BY <1>2, <2>1, <2>2, <2>3 DEF Stamping
<1> QED BY <1>1, <1>2, <1>3, <1>4, <1>5, <1>7, <1>10 DEF Good

\* A write waits for its stamps.
LEMMA WaitingAppend ==
  ASSUME NEW writes \in Seq(0 .. MaxWritten), NEW base \in Int, NEW done \in Int, NEW waiting,
         Waiting(waiting, writes, base, done), NEW w \in 0 .. MaxWritten, w > done
  PROVE  Waiting(Append(waiting, Entry(w, base)), Append(writes, w), base, done)
<1> DEFINE n == Len(writes)
           e == Entry(w, base)
           longer == Append(writes, w)
           queue == Append(waiting, e)
<1>1. n \in Nat /\ Len(longer) = n + 1 /\ longer[n + 1] = w /\ \A i \in 1 .. n : longer[i] = writes[i]
  BY LenProperties, AppendProperties
<1>2. PICK k \in 0 .. n :
        /\ Len(waiting) = n - k
        /\ \A i \in 1 .. k : writes[i] <= done
        /\ \A i \in k + 1 .. n : writes[i] > done
        /\ \A j \in 1 .. n - k : waiting[j] = Entry(writes[k + j], base)
  BY DEF Waiting
<1>3. waiting \in Seq(Pending)
  BY DEF Waiting
<1>4. e \in Pending
  <2>1. w - base - 1 \in Int
    <3>1. MaxWritten \in Nat
      BY Bounds
    <3> QED BY <3>1
  <2> QED BY <2>1 DEF Entry, Pending
<1> HIDE DEF e
<1>5. queue \in Seq(Pending) /\ Len(queue) = Len(waiting) + 1 /\ queue[Len(waiting) + 1] = e
      /\ \A j \in 1 .. Len(waiting) : queue[j] = waiting[j]
  BY <1>3, <1>4, AppendProperties
<1> HIDE DEF n, longer, queue
<1> DEFINE m == n - k
<1>6. m \in Nat /\ k \in Nat /\ k + m = n /\ Len(waiting) = m
  BY <1>1, <1>2
<1> HIDE DEF m
<1>7. k \in 0 .. n + 1 /\ Len(queue) = (n + 1) - k /\ (n + 1) - k = m + 1
  BY <1>1, <1>5, <1>6
<1>8. \A i \in 1 .. k : longer[i] <= done
  <2> TAKE i \in 1 .. k
  <2>1. i \in 1 .. n
    BY <1>6
  <2> QED BY <1>1, <1>2, <2>1
<1>9. \A i \in k + 1 .. n + 1 : longer[i] > done
  <2> TAKE i \in k + 1 .. n + 1
  <2>1. i = n + 1 \/ (i \in k + 1 .. n /\ i \in 1 .. n)
    BY <1>1, <1>6
  <2>2. CASE i = n + 1
    BY <1>1, <2>2
  <2>3. CASE i \in k + 1 .. n /\ i \in 1 .. n
    <3>1. longer[i] = writes[i] /\ writes[i] > done
      BY <1>1, <1>2, <2>3
    <3> QED BY <3>1
  <2> QED BY <2>1, <2>2, <2>3
<1>10. \A j \in 1 .. (n + 1) - k : queue[j] = Entry(longer[k + j], base)
  <2> TAKE j \in 1 .. (n + 1) - k
  <2>1. j = m + 1 \/ j \in 1 .. m
    BY <1>6, <1>7
  <2>2. CASE j = m + 1
    <3>1. k + j = n + 1
      BY <1>6, <2>2
    <3> QED BY <1>1, <1>5, <1>6, <2>2, <3>1 DEF e
  <2>3. CASE j \in 1 .. m
    <3>1. k + j \in 1 .. n
      BY <1>6, <2>3
    <3>2. j \in 1 .. n - k
      BY <2>3 DEF m
    <3>3. queue[j] = waiting[j] /\ waiting[j] = Entry(writes[k + j], base) /\ longer[k + j] = writes[k + j]
      BY <1>1, <1>2, <1>5, <1>6, <2>3, <3>1, <3>2
    <3> QED BY <3>3
  <2> QED BY <2>1, <2>2, <2>3
<1>11. \E c \in 0 .. Len(longer) :
         /\ Len(queue) = Len(longer) - c
         /\ \A i \in 1 .. c : longer[i] <= done
         /\ \A i \in c + 1 .. Len(longer) : longer[i] > done
         /\ \A j \in 1 .. Len(longer) - c : queue[j] = Entry(longer[c + j], base)
  BY <1>1, <1>7, <1>8, <1>9, <1>10
<1>12. Waiting(queue, longer, base, done)
  BY <1>5, <1>11 DEF Waiting
<1> QED BY <1>12 DEF queue, longer, e

\* The entry of a write.
LEMMA EntryRight ==
  ASSUME Good(app, dut), NEW n \in 1 .. 2, dut.wrote + n <= MaxWritten
  PROVE  /\ Add(app.txTsWriteSeq, n) = dut.wrote + n + 1
         /\ Sub(Add(app.txTsWriteSeq, n), 1) = dut.wrote + n
         /\ app.timestampingFlags # {} => Sub(dut.wrote + n, app.txTsOptIdBase) = (dut.wrote + n) - dut.base - 1
<1>1. Modulus \in Nat /\ Half \in Nat /\ Modulus = 2 * Half /\ MaxWritten \in Nat /\ MaxWritten + 1 < Half
  BY Bounds
<1>2. /\ app.txTsWriteSeq = dut.wrote + 1 /\ dut.base \in 0 .. dut.wrote
      /\ app.timestampingFlags # {} => app.txTsOptIdBase = dut.base + 1
  BY DEF Good, Writes
<1>3. dut.wrote \in 0 .. MaxWritten
  BY DEF Good, Numbered
<1> DEFINE first == dut.wrote + 1
           written == dut.wrote + n
           next == dut.wrote + n + 1
           base == dut.base + 1
<1>4. /\ first + n = next /\ next - 1 = written /\ written - base = written - dut.base - 1
      /\ next < Modulus /\ next >= 1 /\ written >= base
  BY <1>1, <1>2, <1>3
<1>5. first \in Numbers /\ n \in Numbers /\ 1 \in Numbers /\ written \in Numbers /\ base \in Numbers /\ next \in Numbers
  BY <1>1, <1>2, <1>3 DEF Numbers
<1>6. app.txTsWriteSeq = first /\ (app.timestampingFlags # {} => app.txTsOptIdBase = base)
  BY <1>2
<1> HIDE DEF first, written, next, base
<1>7. Add(first, n) = next
  BY <1>4, <1>5, AddCases
<1>8. Sub(next, 1) = written
  BY <1>4, <1>5, SubCases
<1>9. Sub(written, base) = written - dut.base - 1
  BY <1>4, <1>5, SubCases
<1>10. Add(app.txTsWriteSeq, n) = next /\ Sub(Add(app.txTsWriteSeq, n), 1) = written
  BY <1>6, <1>7, <1>8
<1>11. app.timestampingFlags # {} => Sub(written, app.txTsOptIdBase) = written - dut.base - 1
  BY <1>6, <1>9
<1> QED BY <1>10, <1>11 DEF written, next

LEMMA WriteKept ==
  ASSUME Good(app, dut), NEW n \in 1 .. 2, SyscallWrite(n)
  PROVE  FramesAgree' /\ Good(app', dut')
<1> DEFINE flags == app.timestampingFlags
           written == dut.wrote + n
           entry == [key |-> Sub(Sub(Add(app.txTsWriteSeq, n), 1), app.txTsOptIdBase),
                     lastByteSeq |-> Sub(Add(app.txTsWriteSeq, n), 1)]
<1>1. FramesAgree'
  BY DEF SyscallWrite, Quiet, FramesAgree
<1>2. /\ IsApp(app') /\ SameFrame(app', app) /\ SameClocks(app', app) /\ SamePackets(app', app) /\ SameQueue(app', app)
      /\ app'.txTsOptIdBase = app.txTsOptIdBase /\ app'.timestampingFlags = flags
      /\ app'.txTsWriteSeq = Add(app.txTsWriteSeq, n)
      /\ app'.pendingTxSchedSnd = IF {"SCHED", "SND"} \cap flags # {}
                                  THEN Append(app.pendingTxSchedSnd, entry) ELSE app.pendingTxSchedSnd
      /\ app'.pendingTxAck = IF {"ACK"} \cap flags # {} THEN Append(app.pendingTxAck, entry) ELSE app.pendingTxAck
  BY DEF SyscallWrite, RecordTxTimestampWrite, Good, IsApp, AppNames, SameFrame, SameClocks, SamePackets, SameQueue
<1>3. /\ IsDut(dut') /\ SameConn(dut', dut) /\ SameState(dut', dut) /\ SameSyn(dut', dut) /\ SameTimes(dut', dut)
      /\ dut'.wrote = written /\ dut'.sent = dut.sent /\ dut'.acked = dut.acked /\ dut'.stampedTo = dut.stampedTo
      /\ dut'.writes = (IF flags = {} THEN dut.writes ELSE Append(dut.writes, written))
      /\ dut'.base = dut.base /\ dut'.stamps = dut.stamps
  BY DEF SyscallWrite, Good, IsDut, DutNames, SameConn, SameState, SameSyn, SameTimes
<1>4. dut.wrote + n <= MaxWritten
  BY DEF SyscallWrite
<1>5. /\ dut.wrote \in 0 .. MaxWritten /\ dut.sent \in 0 .. dut.wrote /\ dut.stampedTo \in 0 .. dut.sent /\ MaxWritten \in Nat
  BY Bounds DEF Good, Numbered
<1>6. /\ written \in 0 .. MaxWritten /\ written > dut.wrote /\ written > dut.sent /\ written > dut.stampedTo
      /\ dut.sent \in 0 .. written
  BY <1>4, <1>5
<1>7. Numbered(dut')
  BY <1>3, <1>5, <1>6 DEF Good, Numbered, SameConn, SameSyn, SameTimes
<1>8. Frame(app', dut') /\ Clocks(app', dut')
  BY <1>2, <1>3, FrameKept, ClocksKept DEF Good
<1>9. /\ Add(app.txTsWriteSeq, n) = written + 1
      /\ flags # {} => entry = Entry(written, dut.base)
  <2>1. /\ Add(app.txTsWriteSeq, n) = dut.wrote + n + 1
        /\ Sub(Add(app.txTsWriteSeq, n), 1) = dut.wrote + n
        /\ app.timestampingFlags # {} => Sub(dut.wrote + n, app.txTsOptIdBase) = (dut.wrote + n) - dut.base - 1
    BY <1>4, EntryRight
  <2>2. ASSUME flags # {}
        PROVE  entry = Entry(written, dut.base)
    <3>1. Sub(dut.wrote + n, app.txTsOptIdBase) = (dut.wrote + n) - dut.base - 1
      BY <2>1, <2>2
    <3> QED BY <2>1, <3>1 DEF Entry
  <2> QED BY <2>1, <2>2
<1>10. /\ dut.base \in 0 .. dut.wrote /\ dut.writes \in Seq(0 .. MaxWritten) /\ Ascending(dut.writes)
       /\ \A i \in 1 .. Len(dut.writes) : dut.base < dut.writes[i] /\ dut.writes[i] <= dut.wrote
       /\ flags # {} => app.txTsOptIdBase = dut.base + 1
       /\ flags = {} => dut.writes = <<>>
  BY DEF Good, Writes
<1> HIDE DEF written, entry, flags
<1>11. CASE flags = {}
  <2>1. dut'.writes = <<>> /\ Len(<<>>) = 0 /\ <<>> \in Seq(0 .. MaxWritten)
    BY <1>3, <1>10, <1>11
  <2>2. Ascending(<<>>)
    BY DEF Ascending
  <2>3. dut.base \in 0 .. written
    BY <1>5, <1>6, <1>10
  <2>4. Writes(app', dut')
    <3>1. /\ dut'.base \in 0 .. dut'.wrote /\ app'.txTsWriteSeq = dut'.wrote + 1
          /\ app'.timestampingFlags = {}
      BY <1>2, <1>3, <1>9, <1>11, <2>3
    <3>2. dut'.writes \in Seq(0 .. MaxWritten) /\ Ascending(dut'.writes) /\ \A i \in 1 .. Len(dut'.writes) : FALSE
      BY <2>1, <2>2
    <3> QED BY <2>1, <3>1, <3>2 DEF Writes
  <2>5. app.pendingTxSchedSnd = <<>> /\ app.pendingTxAck = <<>>
    BY <1>11 DEF Good, Stamping, Waits, flags
  <2>6. app'.pendingTxSchedSnd = <<>> /\ app'.pendingTxAck = <<>> /\ flags \subseteq Types
    BY <1>2, <1>11, <2>5
  <2>7. dut'.stamps \in Seq(Stamp) /\ app'.txTimestampQueue = dut'.stamps
    BY <1>2, <1>3 DEF Good, Stamping, SameQueue
  <2>8. Stamping(app', dut')
    BY <1>2, <1>11, <2>6, <2>7 DEF Stamping, Waits
  <2> QED BY <1>1, <1>2, <1>3, <1>7, <1>8, <2>4, <2>8 DEF Good
<1>12. CASE flags # {}
  <2> DEFINE w == Append(dut.writes, written)
             N == Len(dut.writes)
  <2>1. N \in Nat /\ \A i \in 1 .. N : dut.writes[i] \in 0 .. MaxWritten
    BY <1>10, LenProperties, ElementOfSeq
  <2>2. w \in Seq(0 .. MaxWritten) /\ Len(w) = N + 1 /\ w[N + 1] = written /\ \A i \in 1 .. N : w[i] = dut.writes[i]
    BY <1>6, <1>10, AppendProperties
  <2>3. dut'.writes = w
    BY <1>3, <1>12
  <2> HIDE DEF w
  <2>4. \A i \in 1 .. N + 1 : i = N + 1 \/ i \in 1 .. N
    BY <2>1
  <2>5. \A i \in 1 .. N : dut.base < dut.writes[i] /\ dut.writes[i] <= dut.wrote
    BY <1>10
  <2>6. \A i, j \in 1 .. N : i < j => dut.writes[i] < dut.writes[j]
    BY <1>10 DEF Ascending
  <2> HIDE DEF N
  <2>7. Ascending(w)
    <3> SUFFICES ASSUME NEW i \in 1 .. N + 1, NEW j \in 1 .. N + 1, i < j PROVE w[i] < w[j]
      BY <2>2 DEF Ascending
    <3>1. i \in 1 .. N
      BY <2>1
    <3>2. CASE j \in 1 .. N
      <4>1. dut.writes[i] < dut.writes[j]
        BY <2>6, <3>1, <3>2
      <4> QED BY <2>2, <3>1, <3>2, <4>1
    <3>3. CASE j = N + 1
      <4>1. dut.writes[i] \in 0 .. MaxWritten /\ dut.writes[i] <= dut.wrote
        BY <2>1, <2>5, <3>1
      <4>2. dut.writes[i] < written
        BY <1>5, <1>6, <4>1
      <4> QED BY <2>2, <3>1, <3>3, <4>2
    <3> QED BY <2>4, <3>2, <3>3
  <2>8. \A i \in 1 .. N + 1 : dut.base < w[i] /\ w[i] <= written
    <3> TAKE i \in 1 .. N + 1
    <3>1. CASE i = N + 1
      <4>1. dut.base < written /\ written <= written
        BY <1>5, <1>6, <1>10
      <4> QED BY <2>2, <3>1, <4>1
    <3>2. CASE i \in 1 .. N
      <4>1. dut.writes[i] \in 0 .. MaxWritten /\ dut.base < dut.writes[i] /\ dut.writes[i] <= dut.wrote
        BY <2>1, <2>5, <3>2
      <4>2. dut.writes[i] <= written
        BY <1>5, <1>6, <4>1
      <4> QED BY <2>2, <3>2, <4>1, <4>2
    <3> QED BY <2>4, <3>1, <3>2
  <2>9. dut.base \in 0 .. written
    BY <1>5, <1>6, <1>10
  <2>10. Writes(app', dut')
    BY <1>2, <1>3, <1>9, <1>10, <1>12, <2>2, <2>3, <2>7, <2>8, <2>9 DEF Writes
  <2>11. ASSUME NEW kinds, NEW waiting, NEW done \in Int, Waits(app, dut, waiting, kinds, done), written > done
         PROVE  Waits(app', dut', IF kinds \cap flags # {} THEN Append(waiting, entry) ELSE waiting, kinds, done)
    <3>1. CASE flags \cap kinds = {}
      <4>1. waiting = <<>>
        BY <2>11, <3>1 DEF Waits, flags
      <4> QED BY <1>2, <3>1, <4>1 DEF Waits
    <3>2. CASE flags \cap kinds # {}
      <4> DEFINE b == dut.base
      <4>1. Waiting(waiting, dut.writes, b, done) /\ b \in Int
        BY <1>10, <2>11, <3>2 DEF Waits, flags
      <4> HIDE DEF b
      <4>2. Waiting(Append(waiting, Entry(written, b)), Append(dut.writes, written), b, done)
        BY <1>6, <1>10, <2>11, <4>1, WaitingAppend
      <4>3. Waiting(Append(waiting, entry), dut'.writes, dut'.base, done)
        BY <1>3, <1>9, <1>12, <4>2 DEF b
      <4>4. kinds \cap flags # {}
        BY <3>2
      <4> QED BY <1>2, <3>2, <4>3, <4>4 DEF Waits
    <3> QED BY <3>1, <3>2
  <2>12. /\ Waits(app, dut, app.pendingTxSchedSnd, {"SCHED", "SND"}, dut.sent)
         /\ Waits(app, dut, app.pendingTxAck, {"ACK"}, dut.stampedTo) /\ flags \subseteq Types
    BY DEF Good, Stamping, flags
  <2>13. dut.sent \in Int /\ dut.stampedTo \in Int
    BY <1>5
  <2>14. /\ Waits(app', dut', app'.pendingTxSchedSnd, {"SCHED", "SND"}, dut'.sent)
         /\ Waits(app', dut', app'.pendingTxAck, {"ACK"}, dut'.stampedTo)
    <3> DEFINE sched == app.pendingTxSchedSnd
               acks == app.pendingTxAck
               s == dut.sent
               t == dut.stampedTo
    <3>1. /\ Waits(app, dut, sched, {"SCHED", "SND"}, s) /\ Waits(app, dut, acks, {"ACK"}, t)
          /\ s \in Int /\ t \in Int /\ written > s /\ written > t
      BY <1>6, <2>12, <2>13
    <3>2. /\ app'.pendingTxSchedSnd = IF {"SCHED", "SND"} \cap flags # {} THEN Append(sched, entry) ELSE sched
          /\ app'.pendingTxAck = IF {"ACK"} \cap flags # {} THEN Append(acks, entry) ELSE acks
          /\ dut'.sent = s /\ dut'.stampedTo = t
      BY <1>2, <1>3
    <3> HIDE DEF sched, acks, s, t
    <3>3. /\ Waits(app', dut', IF {"SCHED", "SND"} \cap flags # {} THEN Append(sched, entry) ELSE sched, {"SCHED", "SND"}, s)
          /\ Waits(app', dut', IF {"ACK"} \cap flags # {} THEN Append(acks, entry) ELSE acks, {"ACK"}, t)
      BY <2>11, <3>1
    <3> QED BY <3>2, <3>3
  <2>15. dut'.stamps \in Seq(Stamp) /\ app'.txTimestampQueue = dut'.stamps
    BY <1>2, <1>3 DEF Good, Stamping, SameQueue
  <2>16. Stamping(app', dut')
    BY <1>2, <2>12, <2>14, <2>15 DEF Stamping
  <2> QED BY <1>1, <1>2, <1>3, <1>7, <1>8, <2>10, <2>16 DEF Good
<1> QED BY <1>11, <1>12

\* A stamp is taken.
LEMMA RecvErrQueueKept ==
  ASSUME Good(app, dut), SyscallRecvErrQueue
  PROVE  FramesAgree' /\ Good(app', dut')
<1>1. dut.stamps \in Seq(Stamp) /\ app.txTimestampQueue = dut.stamps /\ dut.stamps # <<>>
  BY DEF Good, Stamping, SyscallRecvErrQueue
<1>2. FramesAgree'
  BY <1>1 DEF SyscallRecvErrQueue, FramesAgree
<1>3. /\ IsApp(app') /\ SameFrame(app', app) /\ SameClocks(app', app) /\ SamePackets(app', app)
      /\ SameWriteSeq(app', app) /\ SameSent(app', app) /\ SameAcked(app', app)
      /\ app'.txTimestampQueue = Tail(app.txTimestampQueue)
  BY DEF SyscallRecvErrQueue, Good, IsApp, AppNames, SameFrame, SameClocks, SamePackets, SameWriteSeq, SameSent, SameAcked
<1>4. /\ IsDut(dut') /\ SameConn(dut', dut) /\ SameState(dut', dut) /\ SameSizes(dut', dut) /\ SameSyn(dut', dut)
      /\ SameTimes(dut', dut) /\ SameWritten(dut', dut) /\ dut'.acked = dut.acked
      /\ dut'.stamps = IF dut.stamps = <<>> THEN dut.stamps ELSE Tail(dut.stamps)
  BY DEF SyscallRecvErrQueue, Good, IsDut, DutNames, SameConn, SameState, SameSizes, SameSyn, SameTimes, SameWritten
<1>5. Numbered(dut')
  BY <1>4 DEF Good, Numbered, SameConn, SameSizes, SameSyn, SameTimes
<1>6. Frame(app', dut') /\ Clocks(app', dut')
  BY <1>3, <1>4, FrameKept, ClocksKept DEF Good
<1>7. Writes(app', dut')
  BY <1>3, <1>4, WritesKept DEF Good, SameSizes
<1>8. dut'.stamps \in Seq(Stamp) /\ app'.txTimestampQueue = dut'.stamps
  <2>1. dut'.stamps = Tail(dut.stamps)
    BY <1>1, <1>4
  <2>2. Tail(dut.stamps) \in Seq(Stamp)
    BY <1>1
  <2> QED BY <1>1, <1>3, <2>1, <2>2
<1>9. Stamping(app', dut')
  BY <1>3, <1>4, <1>8 DEF Good, Stamping, Waits, SameWriteSeq, SameSent, SameAcked, SameSizes, SameWritten
<1> QED BY <1>2, <1>3, <1>4, <1>5, <1>6, <1>7, <1>9 DEF Good

\* An error quotes what it means.
LEMMA IcmpErrorKept ==
  ASSUME Good(app, dut), IcmpError
  PROVE  FramesAgree' /\ Good(app', dut')
<1>1. app.relSequenceOut = dut.isn
  BY DEF IcmpError, Good, Frame
<1>2. dut.isn \in Numbers
  BY DEF Good, Numbered
<1>3. dut.sent \in Numbers
  <2>1. dut.wrote \in 0 .. MaxWritten /\ dut.sent \in 0 .. dut.wrote
    BY DEF Good, Numbered
  <2> QED BY <2>1, Bounds DEF Numbers
<1>4. Add(dut.sent, dut.isn) = Add(dut.isn, dut.sent)
  BY <1>2, <1>3, AddAndSub
<1>5. Quoted(app, dut.sent) = Add(dut.isn, dut.sent)
  BY <1>1, <1>4 DEF Quoted
<1>6. FramesAgree'
  BY <1>5 DEF IcmpError, FramesAgree
<1> QED BY <1>6 DEF IcmpError

\* A segment is compared: the verdict is right, and what is learnt of it, if
\* the script goes on, is the segment's.
LEMMA OutboundKept ==
  ASSUME Habits = {}, Good(app, dut), RunOutbound
  PROVE  FramesAgree' /\ (~app'.over => Good(app', dut'))
<1> DEFINE live == Head(app.receivedPackets)
           seg == InScript(live)
           taken == [app EXCEPT !.receivedPackets = Tail(@)]
<1>1. PICK stored \in Variants(seg) :
        LET a == Captured(taken, stored, live)
            matches == CompareTcpHeader(a, stored, live)
        IN /\ last' = [did |-> [matches |-> matches], is |-> [matches |-> Same(stored, seg)]]
           /\ app' = [Learnt(a, stored) EXCEPT !.over = ~matches \/ stored # seg]
           /\ dut' = [dut EXCEPT !.synSeen = @ \/ live.syn,
                                 !.known = IF "ts" \in DOMAIN stored.options
                                           THEN @ \cup {stored.options.ts.val} ELSE @]
  BY DEF RunOutbound
<1> DEFINE a == Captured(taken, stored, live)
           b == Learnt(a, stored)
           matches == CompareTcpHeader(a, stored, live)
           same == Same(stored, seg)
<1>2. /\ IsApp(a) /\ SameClocks(a, app) /\ SameWriteSeq(a, app) /\ SameSent(a, app) /\ SameAcked(a, app)
      /\ SameQueue(a, app) /\ a.receivedPackets = Tail(app.receivedPackets)
      /\ a.relSequenceIn = app.relSequenceIn
      /\ a.relSequenceOut = IF stored.syn THEN live.seq ELSE app.relSequenceOut
      /\ a.scriptIsnOut = IF stored.syn THEN stored.seq ELSE app.scriptIsnOut
  <2>1. /\ IsApp(taken) /\ SameClocks(taken, app) /\ SameWriteSeq(taken, app) /\ SameSent(taken, app)
        /\ SameAcked(taken, app) /\ SameQueue(taken, app) /\ taken.receivedPackets = Tail(app.receivedPackets)
        /\ SameFrame(taken, app)
    BY DEF Good, IsApp, AppNames, SameClocks, SameWriteSeq, SameSent, SameAcked, SameQueue, SameFrame
  <2> HIDE DEF taken, live, seg
  <2>2. /\ IsApp(a) /\ SameClocks(a, taken) /\ SameWriteSeq(a, taken) /\ SameSent(a, taken) /\ SameAcked(a, taken)
        /\ SameQueue(a, taken) /\ a.receivedPackets = taken.receivedPackets
        /\ a.relSequenceIn = taken.relSequenceIn
        /\ a.relSequenceOut = IF stored.syn THEN live.seq ELSE taken.relSequenceOut
        /\ a.scriptIsnOut = IF stored.syn THEN stored.seq ELSE taken.scriptIsnOut
    BY <2>1 DEF Captured, IsApp, AppNames, SameClocks, SameWriteSeq, SameSent, SameAcked, SameQueue
  <2> HIDE DEF a
  <2> QED BY <2>1, <2>2 DEF SameClocks, SameWriteSeq, SameSent, SameAcked, SameQueue, SameFrame
<1> HIDE DEF taken, a
<1>3. app.receivedPackets \in Seq(Segments) /\ Len(app.receivedPackets) \in Nat /\ Len(app.receivedPackets) > 0
  BY LenProperties, EmptySeq DEF RunOutbound, Good, Frame
<1>4. live = app.receivedPackets[1] /\ Awaits(live, dut)
  BY <1>3 DEF Good, Frame
<1>5. live \in Segments
  BY <1>4 DEF Awaits
<1> HIDE DEF live
<1>6. matches <=> same
  BY <1>2, <1>4, CompareRight
<1>7. matches \in BOOLEAN /\ same \in BOOLEAN
  BY DEF CompareTcpHeader, Same
<1>8. last' = [did |-> [matches |-> matches], is |-> [matches |-> same]]
  BY <1>1 DEF a
<1>9. app' = [b EXCEPT !.over = ~matches \/ stored # seg]
  BY <1>1 DEF a
<1> HIDE DEF matches, same
<1>10. FramesAgree'
  <2>1. matches = same
    BY <1>6, <1>7
  <2> QED BY <1>8, <2>1 DEF FramesAgree
<1>11. /\ IsApp(b) /\ SameFrame(b, a) /\ SameWriteSeq(b, a) /\ SameSent(b, a) /\ SameAcked(b, a)
       /\ SameQueue(b, a) /\ SamePackets(b, a) /\ b.peerTS = a.peerTS
       /\ b.scriptOutTsVals = IF "ts" \in DOMAIN stored.options
                              THEN a.scriptOutTsVals \cup {stored.options.ts.val} ELSE a.scriptOutTsVals
  BY <1>2 DEF Learnt, IsApp, AppNames, SameFrame, SameWriteSeq, SameSent, SameAcked, SameQueue, SamePackets
<1> HIDE DEF b
<1>12. /\ IsApp(app') /\ SameFrame(app', b) /\ SameWriteSeq(app', b) /\ SameSent(app', b) /\ SameAcked(app', b)
       /\ SameQueue(app', b) /\ SamePackets(app', b) /\ SameClocks(app', b)
       /\ app'.over = (~matches \/ stored # seg)
  BY <1>9, <1>11 DEF IsApp, AppNames, SameFrame, SameWriteSeq, SameSent, SameAcked, SameQueue, SamePackets, SameClocks
<1>13. /\ IsDut(dut') /\ SameConn(dut', dut) /\ SameSizes(dut', dut) /\ SameSyn(dut', dut) /\ SameWritten(dut', dut)
       /\ dut'.stamps = dut.stamps /\ dut'.acked = dut.acked /\ dut'.clock = dut.clock /\ dut'.lastTs = dut.lastTs
       /\ dut'.state = dut.state /\ dut'.synSeen = (dut.synSeen \/ live.syn)
       /\ dut'.known = IF "ts" \in DOMAIN stored.options THEN dut.known \cup {stored.options.ts.val} ELSE dut.known
  BY <1>1 DEF Good, IsDut, DutNames, SameConn, SameSizes, SameSyn, SameWritten
<1> SUFFICES ASSUME ~app'.over PROVE Good(app', dut')
  BY <1>10
<1>14. stored = seg
  BY <1>12
<1>15. /\ seg.syn = live.syn /\ seg.options = Scripted(live.options)
       /\ seg.seq = IF live.syn THEN dut.scriptIsn ELSE Sub(live.seq, dut.isn)
  BY <1>5, ScriptedSegment
<1>16. /\ "ts" \in DOMAIN seg.options /\ live.options.ts.val \in Nat \ {0}
       /\ seg.options.ts.val = live.options.ts.val + 50
  <2>1. live.options \in OptionSets
    BY <1>5 DEF Segments
  <2> QED BY <1>15, <2>1, OptionFacts
<1> HIDE DEF seg
<1>17. Numbered(dut')
  BY <1>13 DEF Good, Numbered, SameConn, SameSizes, SameSyn
<1>18. Frame(app', dut')
  <2>1. /\ app'.relSequenceIn = app.relSequenceIn
        /\ app'.relSequenceOut = IF live.syn THEN live.seq ELSE app.relSequenceOut
        /\ app'.scriptIsnOut = IF live.syn THEN dut.scriptIsn ELSE app.scriptIsnOut
        /\ app'.receivedPackets = Tail(app.receivedPackets)
    BY <1>2, <1>11, <1>12, <1>14, <1>15 DEF SameFrame, SamePackets
  <2>2. live.syn => live.seq = dut.isn
    BY <1>4 DEF Awaits
  <2>3. dut'.synSeen => app'.relSequenceOut = dut'.isn /\ app'.scriptIsnOut = dut'.scriptIsn
    BY <1>13, <2>1, <2>2 DEF Good, Frame, SameConn
  <2>4. (dut'.role = "server" /\ dut'.state = "syn") \/ dut'.state = "open" => app'.relSequenceIn = dut'.peerIsn
    BY <1>13, <2>1 DEF Good, Frame, SameConn
  <2>5. /\ app'.receivedPackets \in Seq(Segments) /\ Len(app'.receivedPackets) = Len(app.receivedPackets) - 1
        /\ \A i \in 1 .. Len(app.receivedPackets) - 1 : app'.receivedPackets[i] = app.receivedPackets[i + 1]
    BY <1>3, <2>1
  <2>6. ASSUME NEW i \in 1 .. Len(app'.receivedPackets)
        PROVE  Awaits(app'.receivedPackets[i], dut')
    <3>1. i + 1 \in 1 .. Len(app.receivedPackets) /\ app'.receivedPackets[i] = app.receivedPackets[i + 1]
      BY <1>3, <2>5
    <3>2. Awaits(app.receivedPackets[i + 1], dut)
      BY <3>1 DEF Good, Frame
    <3> QED BY <1>13, <3>1, <3>2 DEF Awaits, SameConn
  <2> QED BY <2>3, <2>4, <2>5, <2>6 DEF Frame
<1>19. Clocks(app', dut')
  <2> DEFINE v == seg.options.ts.val
  <2>1. v \in Nat /\ v > Bogus + 1
    BY <1>16 DEF Bogus
  <2>2. /\ app'.peerTS = app.peerTS /\ app'.scriptOutTsVals = app.scriptOutTsVals \cup {v}
        /\ dut'.known = dut.known \cup {v} /\ dut'.lastTs = dut.lastTs
    BY <1>2, <1>11, <1>12, <1>13, <1>14, <1>16 DEF SameClocks
  <2> HIDE DEF v
  <2>3. /\ app.peerTS = dut.lastTs /\ dut.known \subseteq app.scriptOutTsVals
        /\ \A x \in app.scriptOutTsVals : x \in Nat /\ x > Bogus + 1
    BY DEF Good, Clocks
  <2> QED BY <2>1, <2>2, <2>3 DEF Clocks
<1>20. SameWriteSeq(app', app) /\ SameSent(app', app) /\ SameAcked(app', app) /\ SameQueue(app', app)
  BY <1>2, <1>11, <1>12 DEF SameWriteSeq, SameSent, SameAcked, SameQueue
<1>21. Writes(app', dut')
  BY <1>13, <1>20, WritesKept DEF Good, SameSizes
<1>22. Stamping(app', dut')
  BY <1>13, <1>20, StampingKept DEF Good
<1> QED BY <1>12, <1>13, <1>17, <1>18, <1>19, <1>21, <1>22 DEF Good

\* The packets that wait do not care for what a handshake changes.
LEMMA HandshakeFrame ==
  ASSUME Frame(app, dut), NEW a, NEW e, SamePackets(a, app), SameConn(e, dut), e.synSeen = dut.synSeen,
         dut.state # "open", e.synSeen => a.relSequenceOut = app.relSequenceOut /\ a.scriptIsnOut = app.scriptIsnOut,
         (e.role = "server" /\ e.state = "syn") \/ e.state = "open" => a.relSequenceIn = e.peerIsn
  PROVE  Frame(a, e)
BY DEF Frame, Awaits, SamePackets, SameConn

LEMMA PeerSynKept ==
  ASSUME Good(app, dut), NEW n \in 0 .. 1, PeerSyn(n)
  PROVE  FramesAgree' /\ Good(app', dut')
<1> DEFINE seg == [syn |-> TRUE, ack |-> FALSE, seq |-> dut.peerIsn, ackNo |-> 0, len |-> n, sack |-> 0, ecr |-> 0]
<1>1. FramesAgree'
  BY DEF PeerSyn, Quiet, FramesAgree
<1>2. app' = Injecting(app, seg)
  BY DEF PeerSyn
<1>3. seg.syn /\ ~seg.ack /\ seg.seq = dut.peerIsn
  OBVIOUS
<1> HIDE DEF seg
<1>4. IsApp(app)
  BY DEF Good
<1>5. /\ IsApp(app') /\ SameWriteSeq(app', app) /\ SameSent(app', app) /\ SameClocks(app', app) /\ SamePackets(app', app)
      /\ app'.relSequenceOut = app.relSequenceOut /\ app'.scriptIsnOut = app.scriptIsnOut
      /\ app'.relSequenceIn = dut.peerIsn /\ SameAcked(app', app) /\ SameQueue(app', app)
  <2>1. Injected(app, seg, app')
    BY <1>2, <1>4, InjectedFacts
  <2> QED BY <1>3, <2>1 DEF Injected, SameAcked, SameQueue
<1>6. /\ IsDut(dut') /\ SameConn(dut', dut) /\ SameSizes(dut', dut) /\ SameTimes(dut', dut) /\ SameWritten(dut', dut)
      /\ dut'.stamps = dut.stamps /\ dut'.acked = dut.acked /\ dut'.synSeen = dut.synSeen /\ dut'.state = "syn"
      /\ dut'.synData = dut.synData /\ dut'.received = dut.received /\ dut'.peerSyn = n
  BY DEF PeerSyn, Good, IsDut, DutNames, SameConn, SameSizes, SameTimes, SameWritten
<1>7. Numbered(dut')
  BY <1>6 DEF Good, Numbered, SameConn, SameSizes, SameTimes
<1>8. Frame(app', dut')
  <2>1. dut.state # "open" /\ app'.relSequenceIn = dut'.peerIsn
    BY <1>5, <1>6 DEF PeerSyn, SameConn
  <2>2. Frame(app, dut)
    BY DEF Good
  <2> QED BY <1>5, <1>6, <2>1, <2>2, HandshakeFrame
<1>9. Clocks(app', dut') /\ Writes(app', dut') /\ Stamping(app', dut')
  BY <1>5, <1>6, ClocksKept, WritesKept, StampingKept DEF Good, SameSizes
<1> QED BY <1>1, <1>5, <1>6, <1>7, <1>8, <1>9 DEF Good

LEMMA PeerSynAckKept ==
  ASSUME Good(app, dut), NEW k \in 0 .. MaxWritten, PeerSynAck(k)
  PROVE  FramesAgree' /\ Good(app', dut')
<1> DEFINE ackNo == Add(dut.scriptIsn, 1 + k)
           seg == [syn |-> TRUE, ack |-> TRUE, seq |-> dut.peerIsn, ackNo |-> ackNo, len |-> 0, sack |-> 0, ecr |-> 0]
           live == Rebased(app', seg)
<1>1. /\ app' = Injecting(app, seg)
      /\ last' = [did |-> [seq |-> live.seq, ackNo |-> live.ackNo, sack |-> live.sack, ecr |-> live.ecr],
                  is |-> [seq |-> dut.peerIsn, ackNo |-> Add(dut.isn, 1 + k), sack |-> dut.isn, ecr |-> 0]]
  BY DEF PeerSynAck, RunInbound
<1> HIDE DEF ackNo
<1>2. /\ live.seq = dut.peerIsn /\ live.ackNo = Sub(Add(ackNo, app'.relSequenceOut), app'.scriptIsnOut)
      /\ live.sack = Add(0, app'.relSequenceOut) /\ live.ecr = 0
  BY DEF Rebased, Echo
<1>3. seg.syn /\ seg.ack /\ seg.seq = dut.peerIsn
  OBVIOUS
<1> HIDE DEF seg, live
<1>4. IsApp(app)
  BY DEF Good
<1>5. /\ IsApp(app') /\ SameWriteSeq(app', app) /\ SameSent(app', app) /\ SameClocks(app', app) /\ SamePackets(app', app)
      /\ app'.relSequenceOut = app.relSequenceOut /\ app'.scriptIsnOut = app.scriptIsnOut
      /\ app'.relSequenceIn = dut.peerIsn /\ SameAcked(app', app) /\ SameQueue(app', app)
  <2>1. Injected(app, seg, app')
    BY <1>1, <1>4, InjectedFacts
  <2> QED BY <1>3, <2>1 DEF Injected, SameAcked, SameQueue
<1>6. /\ IsDut(dut') /\ SameConn(dut', dut) /\ SameSizes(dut', dut) /\ SameTimes(dut', dut) /\ SameWritten(dut', dut)
      /\ dut'.stamps = dut.stamps /\ dut'.acked = k /\ dut'.synSeen = dut.synSeen /\ dut'.state = "open"
      /\ dut'.synData = dut.synData /\ dut'.received = dut.received /\ dut'.peerSyn = dut.peerSyn
  BY DEF PeerSynAck, Good, IsDut, DutNames, SameConn, SameSizes, SameTimes, SameWritten
<1>7. app.relSequenceOut = dut.isn /\ app.scriptIsnOut = dut.scriptIsn
  BY DEF PeerSynAck, Good, Frame
<1>8. dut.isn \in Numbers /\ dut.scriptIsn \in Numbers
  BY DEF Good, Numbered
<1>9. FramesAgree'
  <2>1. 1 + k \in Numbers /\ 0 \in Numbers
    BY Bounds DEF Numbers
  <2>2. Sub(Add(ackNo, dut.isn), dut.scriptIsn) = Add(dut.isn, 1 + k)
    BY <1>8, <2>1, Rebase DEF ackNo
  <2>3. Add(0, dut.isn) = dut.isn
    BY <1>8, <2>1, AddAndSub
  <2>4. live.seq = dut.peerIsn /\ live.ackNo = Add(dut.isn, 1 + k) /\ live.sack = dut.isn /\ live.ecr = 0
    BY <1>2, <1>5, <1>7, <2>2, <2>3
  <2> QED BY <1>1, <2>4 DEF FramesAgree
<1>10. Numbered(dut')
  BY <1>6 DEF Good, Numbered, SameConn, SameSizes, SameTimes
<1>11. Frame(app', dut')
  <2>1. dut.state # "open" /\ app'.relSequenceIn = dut'.peerIsn
    BY <1>5, <1>6 DEF PeerSynAck, SameConn
  <2>2. Frame(app, dut)
    BY DEF Good
  <2> QED BY <1>5, <1>6, <2>1, <2>2, HandshakeFrame
<1>12. Clocks(app', dut') /\ Writes(app', dut') /\ Stamping(app', dut')
  BY <1>5, <1>6, ClocksKept, WritesKept, StampingKept DEF Good, SameSizes
<1> QED BY <1>5, <1>6, <1>9, <1>10, <1>11, <1>12 DEF Good

LEMMA PeerAckKept ==
  ASSUME Good(app, dut), NEW upTo \in 0 .. MaxWritten, NEW ecr, NEW data \in 0 .. 1, PeerAck(upTo, ecr, data)
  PROVE  FramesAgree' /\ Good(app', dut')
<1> DEFINE seg == [syn |-> FALSE, ack |-> TRUE, seq |-> 1 + dut.received, ackNo |-> 1 + upTo, len |-> data,
                   sack |-> 1 + dut.sent, ecr |-> ecr]
           live == Rebased(app', seg)
           until == IF upTo > dut.stampedTo THEN upTo ELSE dut.stampedTo
           due == Due(dut.stampedTo, upTo, AckTypes(app.timestampingFlags))
           echo == IF ecr \in {0, Bogus} THEN ecr ELSE dut.lastTs
<1>1. /\ app' = Injecting(app, seg)
      /\ last' = [did |-> [seq |-> live.seq, ackNo |-> live.ackNo, sack |-> live.sack, ecr |-> live.ecr],
                  is |-> [seq |-> Add(dut.peerIsn, 1 + dut.received), ackNo |-> Add(dut.isn, 1 + upTo),
                          sack |-> Add(dut.isn, 1 + dut.sent), ecr |-> echo]]
  BY DEF PeerAck, RunInbound
<1>2. /\ live.seq = Add(1 + dut.received, app'.relSequenceIn) /\ live.ackNo = Sub(Add(1 + upTo, app'.relSequenceOut), 0)
      /\ live.sack = Add(1 + dut.sent, app'.relSequenceOut) /\ live.ecr = Echo(app', ecr)
  BY DEF Rebased
<1>3. ~seg.syn /\ seg.ack /\ seg.ackNo = 1 + upTo
  OBVIOUS
<1> HIDE DEF seg, live, until, due, echo
<1>4. IsApp(app)
  BY DEF Good
<1>5. /\ IsApp(app') /\ SameWriteSeq(app', app) /\ SameSent(app', app) /\ SameClocks(app', app) /\ SamePackets(app', app)
      /\ app'.relSequenceOut = app.relSequenceOut /\ app'.scriptIsnOut = app.scriptIsnOut
      /\ app'.relSequenceIn = app.relSequenceIn
      /\ app'.pendingTxAck = AckedSweep(app, 1 + upTo).kept /\ app'.txTimestampQueue = AckedSweep(app, 1 + upTo).stamps
  <2>1. Injected(app, seg, app')
    BY <1>1, <1>4, InjectedFacts
  <2> QED BY <1>3, <2>1 DEF Injected
<1>6. /\ IsDut(dut') /\ SameConn(dut', dut) /\ SameState(dut', dut) /\ SameTimes(dut', dut) /\ SameWritten(dut', dut)
      /\ dut'.wrote = dut.wrote /\ dut'.sent = dut.sent /\ dut'.stampedTo = until /\ dut'.acked = upTo
      /\ dut'.stamps = due /\ dut'.synData = dut.synData /\ dut'.peerSyn = dut.peerSyn
      /\ dut'.received = dut.received + data
  BY DEF PeerAck, Good, IsDut, DutNames, SameConn, SameState, SameTimes, SameWritten, until, due
<1>7. /\ MaxWritten \in Nat /\ dut.wrote \in 0 .. MaxWritten /\ dut.sent \in 0 .. dut.wrote
      /\ dut.stampedTo \in 0 .. dut.sent /\ dut.acked \in 0 .. MaxWritten /\ dut.received \in 0 .. 1
      /\ dut.isn \in Numbers /\ dut.peerIsn \in Numbers
  BY Bounds DEF Good, Numbered
<1>8. upTo \in dut.acked .. dut.sent /\ dut.received + data <= 1
  BY DEF PeerAck
<1>9. upTo <= dut.sent
  BY <1>7, <1>8
<1>10. app.relSequenceOut = dut.isn /\ app.relSequenceIn = dut.peerIsn
  BY DEF PeerAck, Good, Frame
<1>11. Echo(app', ecr) = echo
  <2>1. ecr \in {0} \cup (IF dut.known = {} THEN {} ELSE dut.known \cup {Bogus})
    BY DEF PeerAck
  <2>2. /\ app.peerTS = dut.lastTs /\ dut.known \subseteq app.scriptOutTsVals
        /\ \A v \in app.scriptOutTsVals : v \in Nat /\ v > Bogus + 1
    BY DEF Good, Clocks
  <2>3. app'.peerTS = app.peerTS /\ app'.scriptOutTsVals = app.scriptOutTsVals
    BY <1>5 DEF SameClocks
  <2>4. CASE ecr = 0
    BY <2>4 DEF Echo, echo
  <2>5. CASE ecr = Bogus /\ dut.known # {}
    <3>1. Bogus \notin app.scriptOutTsVals /\ app.scriptOutTsVals # {} /\ Bogus # 0
      BY <2>2, <2>5 DEF Bogus
    <3> QED BY <2>3, <2>5, <3>1 DEF Echo, echo
  <2>6. CASE ecr \in dut.known
    <3>1. ecr \in app.scriptOutTsVals /\ ecr # 0 /\ ecr # Bogus
      BY <2>2, <2>6 DEF Bogus
    <3> QED BY <2>2, <2>3, <3>1 DEF Echo, echo
  <2> QED BY <2>1, <2>4, <2>5, <2>6
<1>12. FramesAgree'
  <2> DEFINE r == 1 + dut.received
             s == 1 + dut.sent
             u == 1 + upTo
  <2>1. r \in Numbers /\ s \in Numbers /\ u \in Numbers
    BY <1>7, Bounds DEF Numbers
  <2>2. live.seq = Add(r, dut.peerIsn) /\ live.ackNo = Sub(Add(u, dut.isn), 0) /\ live.sack = Add(s, dut.isn)
    BY <1>2, <1>5, <1>10
  <2>3. last'.is = [seq |-> Add(dut.peerIsn, r), ackNo |-> Add(dut.isn, u), sack |-> Add(dut.isn, s), ecr |-> echo]
    BY <1>1
  <2>4. last'.did = [seq |-> live.seq, ackNo |-> live.ackNo, sack |-> live.sack, ecr |-> live.ecr]
    BY <1>1
  <2> HIDE DEF r, s, u
  <2>5. Add(r, dut.peerIsn) = Add(dut.peerIsn, r) /\ Add(s, dut.isn) = Add(dut.isn, s) /\ Add(u, dut.isn) = Add(dut.isn, u)
    BY <1>7, <2>1, AddAndSub
  <2>6. Sub(Add(dut.isn, u), 0) = Add(dut.isn, u)
    <3>1. Add(dut.isn, u) \in Numbers
      BY <1>7, <2>1, AddCases
    <3> QED BY <3>1, AddAndSub
  <2>7. live.ecr = echo
    BY <1>2, <1>11
  <2> QED BY <2>2, <2>3, <2>4, <2>5, <2>6, <2>7 DEF FramesAgree
<1>13. /\ AckedSweep(app, 1 + upTo).stamps = due
       /\ Waits(app, dut, AckedSweep(app, 1 + upTo).kept, {"ACK"}, until)
       /\ due \in Seq(Stamp)
  BY AckedRight DEF due, until
<1>14. until \in 0 .. dut.sent
  BY <1>7, <1>9 DEF until
<1>15. Numbered(dut')
  <2>1. dut.received + data \in 0 .. 1
    BY <1>7, <1>8
  <2> QED BY <1>6, <1>14, <2>1 DEF Good, Numbered, SameConn, SameTimes
<1>16. Frame(app', dut') /\ Clocks(app', dut') /\ Writes(app', dut')
  <2>1. SameFrame(app', app)
    BY <1>5 DEF SameFrame
  <2> QED BY <1>5, <1>6, <2>1, FrameKept, ClocksKept, WritesKept DEF Good
<1>17. Stamping(app', dut')
  <2>1. /\ app.timestampingFlags \subseteq Types
        /\ Waits(app, dut, app.pendingTxSchedSnd, {"SCHED", "SND"}, dut.sent)
    BY DEF Good, Stamping
  <2>2. /\ Waits(app', dut', app'.pendingTxSchedSnd, {"SCHED", "SND"}, dut'.sent)
        /\ Waits(app', dut', app'.pendingTxAck, {"ACK"}, dut'.stampedTo)
    BY <1>5, <1>6, <1>13, <2>1 DEF Waits, SameWriteSeq, SameSent, SameWritten
  <2> QED BY <1>5, <1>6, <1>13, <2>1, <2>2 DEF Stamping, SameWriteSeq
<1> QED BY <1>5, <1>6, <1>12, <1>15, <1>16, <1>17 DEF Good

-----------------------------------------------------------------------------
(* The steps of the DUT.                                                   *)

LEMMA EmitsFacts ==
  ASSUME NEW seg, "ts" \in DOMAIN seg.options, NEW e, IsDut(e), Emits(seg, e)
  PROVE  /\ FramesAgree' /\ app' = SocketDataArrived(app, seg) /\ IsDut(dut')
         /\ SameConn(dut', e) /\ SameState(dut', e) /\ SameSizes(dut', e) /\ SameSyn(dut', e) /\ SameWritten(dut', e)
         /\ dut'.stamps = e.stamps /\ dut'.acked = e.acked /\ dut'.known = e.known
         /\ dut'.clock = e.clock + 1 /\ dut'.lastTs = dut.clock
<1>1. FramesAgree' /\ app' = SocketDataArrived(app, seg)
  BY DEF Emits, Quiet, FramesAgree
<1>2. /\ IsDut(dut') /\ SameConn(dut', e) /\ SameState(dut', e) /\ SameSizes(dut', e) /\ SameSyn(dut', e)
      /\ SameWritten(dut', e) /\ dut'.stamps = e.stamps /\ dut'.acked = e.acked /\ dut'.known = e.known
      /\ dut'.clock = e.clock + 1 /\ dut'.lastTs = dut.clock
  BY DEF Emits, IsDut, DutNames, SameConn, SameState, SameSizes, SameSyn, SameWritten
<1> QED BY <1>1, <1>2

\* The DUT's step before its clock ticks: what does not change with a segment.
SameOnEmit(e, d) ==
  SameConn(e, d) /\ SameWritten(e, d) /\ SameTimes(e, d) /\ e.wrote = d.wrote /\ e.stampedTo = d.stampedTo

\* The app takes a segment of the current connection, with the bytes from ..
\* to - 1.
LEMMA EmitsKept ==
  ASSUME Good(app, dut), NEW e, IsDut(e), Numbered(e), Frame(app, e), SameOnEmit(e, dut),
         NEW seg, Awaits(seg, e), seg.options.ts.val = dut.clock, seg.conn = dut.conn,
         NEW from \in 1 .. MaxWritten + 1, NEW to \in from .. MaxWritten + 1, from <= dut.sent + 1,
         from = to => to - 1 <= dut.sent, seg.len = to - from, RelStart(app, seg) = from,
         e.sent = IF to - 1 > dut.sent THEN to - 1 ELSE dut.sent,
         e.stamps = Due(dut.sent, to - 1, SendTypes(app.timestampingFlags)),
         Emits(seg, e)
  PROVE  FramesAgree' /\ Good(app', dut')
<1> DEFINE due == Due(dut.sent, to - 1, SendTypes(app.timestampingFlags))
           until == IF to - 1 > dut.sent THEN to - 1 ELSE dut.sent
           kept == IF seg.len = 0 THEN app.pendingTxSchedSnd ELSE SentSweep(app, seg).kept
           stamps == IF seg.len = 0 THEN app.txTimestampQueue ELSE SentSweep(app, seg).stamps
<1>1. seg \in Segments
  BY DEF Awaits
<1>2. "ts" \in DOMAIN seg.options
  <2>1. seg.options \in OptionSets
    BY <1>1 DEF Segments
  <2> QED BY <2>1, OptionFacts
<1>3. /\ FramesAgree' /\ app' = SocketDataArrived(app, seg) /\ IsDut(dut')
      /\ SameConn(dut', e) /\ SameState(dut', e) /\ SameSizes(dut', e) /\ SameSyn(dut', e) /\ SameWritten(dut', e)
      /\ dut'.stamps = e.stamps /\ dut'.acked = e.acked /\ dut'.known = e.known
      /\ dut'.clock = e.clock + 1 /\ dut'.lastTs = dut.clock
  BY <1>2, EmitsFacts
<1>4. stamps = due /\ Waits(app, dut, kept, {"SCHED", "SND"}, until) /\ due \in Seq(Stamp)
  BY SentRight
<1>5. IsApp(app)
  BY DEF Good
<1>6. Arrived(app, seg, app')
  BY <1>2, <1>3, <1>5, ArrivedFacts
<1>7. /\ IsApp(app') /\ SameFrame(app', app) /\ SameWriteSeq(app', app) /\ SameAcked(app', app)
      /\ app'.scriptOutTsVals = app.scriptOutTsVals /\ app'.peerTS = dut.clock
      /\ app'.pendingTxSchedSnd = kept /\ app'.txTimestampQueue = stamps
      /\ app'.receivedPackets = Append(app.receivedPackets, seg)
  BY <1>6 DEF Arrived
<1> HIDE DEF due, kept, stamps
<1>8. Numbered(dut')
  <2>1. e.clock + 1 \in Nat \ {0} /\ dut.clock \in Nat
    BY DEF Good, Numbered, SameOnEmit, SameTimes
  <2> QED BY <1>3, <2>1 DEF Numbered, SameConn, SameSizes, SameSyn
<1>9. Frame(app', dut')
  <2>1. /\ app.receivedPackets \in Seq(Segments) /\ Len(app.receivedPackets) \in Nat
        /\ \A i \in 1 .. Len(app.receivedPackets) : Awaits(app.receivedPackets[i], e)
    BY LenProperties DEF Frame
  <2>2. /\ app'.receivedPackets \in Seq(Segments) /\ Len(app'.receivedPackets) = Len(app.receivedPackets) + 1
        /\ app'.receivedPackets[Len(app.receivedPackets) + 1] = seg
        /\ \A i \in 1 .. Len(app.receivedPackets) : app'.receivedPackets[i] = app.receivedPackets[i]
    BY <1>1, <1>7, <2>1, AppendProperties
  <2>3. ASSUME NEW i \in 1 .. Len(app'.receivedPackets)
        PROVE  Awaits(app'.receivedPackets[i], e)
    <3>1. i = Len(app.receivedPackets) + 1 \/ i \in 1 .. Len(app.receivedPackets)
      BY <2>1, <2>2
    <3> QED BY <2>1, <2>2, <3>1
  <2>4. ASSUME NEW p, Awaits(p, e)
        PROVE  Awaits(p, dut')
    BY <1>3, <2>4 DEF Awaits, SameConn, SameState
  <2>5. /\ dut'.synSeen => app'.relSequenceOut = dut'.isn /\ app'.scriptIsnOut = dut'.scriptIsn
        /\ (dut'.role = "server" /\ dut'.state = "syn") \/ dut'.state = "open" => app'.relSequenceIn = dut'.peerIsn
    BY <1>3, <1>7 DEF Frame, SameFrame, SameConn, SameState
  <2> QED BY <2>2, <2>3, <2>4, <2>5 DEF Frame
<1>10. Clocks(app', dut')
  BY <1>3, <1>7 DEF Good, Clocks, SameOnEmit, SameTimes
<1>11. Writes(app', dut')
  <2>1. SameWritten(dut', dut) /\ dut'.wrote = dut.wrote
    BY <1>3 DEF SameOnEmit, SameWritten, SameSizes
  <2> QED BY <1>7, <2>1, WritesKept DEF Good
<1>12. Stamping(app', dut')
  <2>1. app.timestampingFlags \subseteq Types /\ Waits(app, dut, app.pendingTxAck, {"ACK"}, dut.stampedTo)
    BY DEF Good, Stamping
  <2>2. dut'.writes = dut.writes /\ dut'.base = dut.base /\ dut'.stampedTo = dut.stampedTo /\ dut'.sent = until
        /\ dut'.stamps = due
    BY <1>3 DEF SameOnEmit, SameWritten, SameSizes, due
  <2>3. /\ Waits(app', dut', app'.pendingTxSchedSnd, {"SCHED", "SND"}, dut'.sent)
        /\ Waits(app', dut', app'.pendingTxAck, {"ACK"}, dut'.stampedTo)
    BY <1>4, <1>7, <2>1, <2>2 DEF Waits, SameWriteSeq, SameAcked
  <2> QED BY <1>4, <1>7, <2>1, <2>2, <2>3 DEF Stamping, SameWriteSeq
<1> QED BY <1>3, <1>7, <1>8, <1>9, <1>10, <1>11, <1>12 DEF Good

\* The options of a segment that the DUT sends.
LEMMA LiveOptions ==
  ASSUME Good(app, dut), NEW options \in SynOptions \cup DataOptions
  PROVE  options \in OptionSets /\ options.ts.val = dut.clock
<1> DEFINE v == dut.clock
           r == dut.received
<1>1. v \in Nat \ {0} /\ r \in Nat
  BY DEF Good, Numbered
<1>2. options = [mss |-> 1, ts |-> [val |-> v, ecr |-> r]] \/ options = [sack |-> 2, ts |-> [val |-> v, ecr |-> r]]
  BY DEF SynOptions, DataOptions, TimestampOption
<1> HIDE DEF v, r
<1>3. options \in OptionSets
  BY <1>1, <1>2 DEF OptionSets
<1>4. options.ts.val = v
  BY <1>2
<1> QED BY <1>3, <1>4 DEF v

LEMMA DutSynKept ==
  ASSUME Good(app, dut), NEW n \in 0 .. MaxWritten, NEW options \in SynOptions, DutSyn(n, options)
  PROVE  FramesAgree' /\ Good(app', dut')
<1> DEFINE seg == Segment(TRUE, FALSE, 1, 1 + n, options)
           sent == IF n > dut.sent THEN n ELSE dut.sent
           synData == IF dut.state = "closed" THEN n ELSE dut.synData
           stamps == Due(dut.sent, n, SendTypes(app.timestampingFlags))
           e == [dut EXCEPT !.state = "syn", !.sent = sent, !.synData = synData, !.stamps = stamps]
<1>1. Emits(seg, e)
  BY DEF DutSyn
<1>2. n \in 0 .. dut.wrote /\ dut.role = "client" /\ dut.state # "open"
  BY DEF DutSyn
<1>3. /\ MaxWritten \in Nat /\ dut.wrote \in 0 .. MaxWritten /\ dut.sent \in 0 .. dut.wrote
      /\ dut.stampedTo \in 0 .. dut.sent
  BY Bounds DEF Good, Numbered
<1>4. sent \in 0 .. dut.wrote /\ dut.stampedTo \in 0 .. sent /\ (1 + n) - 1 = n
  BY <1>2, <1>3
<1>5. synData \in 0 .. MaxWritten
  BY DEF Good, Numbered
<1>6. /\ seg = [conn |-> dut.conn, syn |-> TRUE, ack |-> FALSE, len |-> 1 + n - 1, seq |-> dut.isn, ackNo |-> 0,
                options |-> options]
  BY DEF Segment
<1>7. options \in OptionSets /\ options.ts.val = dut.clock
  BY LiveOptions
<1> HIDE DEF seg, sent, synData, stamps
<1>8. /\ IsDut(e) /\ SameOnEmit(e, dut) /\ e.sent = sent /\ e.stamps = stamps /\ e.state = "syn" /\ e.synSeen = dut.synSeen
      /\ e.synData = synData /\ e.peerSyn = dut.peerSyn /\ e.received = dut.received /\ e.acked = dut.acked
  BY DEF Good, IsDut, DutNames, SameOnEmit, SameConn, SameWritten, SameTimes
<1> HIDE DEF e
<1>9. Numbered(e)
  BY <1>4, <1>5, <1>8 DEF Good, Numbered, SameOnEmit, SameConn, SameTimes
<1>10. Frame(app, e)
  <2>1. Frame(app, dut) /\ SamePackets(app, app) /\ SameConn(e, dut) /\ e.role # "server" /\ e.state = "syn"
    BY <1>2, <1>8 DEF Good, SamePackets, SameOnEmit, SameConn
  <2> QED BY <1>2, <1>8, <2>1, HandshakeFrame
<1>11. Awaits(seg, e)
  <2>1. dut.conn \in Int /\ dut.isn \in Numbers /\ 0 \in Numbers /\ 1 + n - 1 \in Int
    BY <1>3, Bounds DEF Good, Numbered, Numbers
  <2>2. seg \in Segments
    BY <1>6, <1>7, <2>1 DEF Segments
  <2> QED BY <1>6, <1>8, <2>2 DEF Awaits, SameOnEmit, SameConn
<1>12. seg.conn = dut.conn /\ seg.options.ts.val = dut.clock /\ seg.len = (1 + n) - 1 /\ RelStart(app, seg) = 1
  BY <1>6, <1>7 DEF RelStart
<1> DEFINE to == 1 + n
<1>13. /\ 1 \in 1 .. MaxWritten + 1 /\ to \in 1 .. MaxWritten + 1 /\ 1 <= dut.sent + 1
       /\ (1 = to => to - 1 <= dut.sent) /\ to - 1 = n
  BY <1>2, <1>3
<1>14. seg.len = to - 1
  BY <1>12
<1> HIDE DEF to
<1>15. e.sent = (IF to - 1 > dut.sent THEN to - 1 ELSE dut.sent)
  BY <1>8, <1>13 DEF sent
<1>16. e.stamps = Due(dut.sent, to - 1, SendTypes(app.timestampingFlags))
  BY <1>8, <1>13 DEF stamps
<1> QED BY <1>1, <1>8, <1>9, <1>10, <1>11, <1>12, <1>13, <1>14, <1>15, <1>16, EmitsKept

\* The segment's number and options, as any segment's.
LEMMA AckNumbers ==
  ASSUME Good(app, dut), NEW n \in 0 .. 1
  PROVE  Add(dut.peerIsn, 1 + n) \in Numbers
<1>1. 1 + n \in Numbers
  BY Bounds DEF Numbers
<1>2. dut.peerIsn \in Numbers
  BY DEF Good, Numbered
<1> QED BY <1>1, <1>2, AddCases

LEMMA DutSynAckKept ==
  ASSUME Good(app, dut), NEW good \in BOOLEAN, NEW options \in SynOptions, DutSynAck(good, options)
  PROVE  FramesAgree' /\ Good(app', dut')
<1> DEFINE received == IF good THEN dut.peerSyn ELSE 0
           d == [dut EXCEPT !.received = received]
           e == [d EXCEPT !.state = "open", !.synAcked = d.received > 0]
           s == Segment(TRUE, TRUE, 1, 1, options)
           seg == [s EXCEPT !.ackNo = Add(dut.peerIsn, 1 + d.received)]
           ackNo == Add(dut.peerIsn, 1 + received)
           synAcked == received > 0
<1>1. Emits(seg, e)
  BY DEF DutSynAck
<1>2. dut.role = "server" /\ dut.state = "syn"
  BY DEF DutSynAck
<1>3. received \in 0 .. 1
  BY DEF Good, Numbered
<1>4. ackNo \in Numbers
  <2> HIDE DEF received
  <2> QED BY <1>3, AckNumbers
<1>5. s = [conn |-> dut.conn, syn |-> TRUE, ack |-> TRUE, len |-> 0, seq |-> dut.isn,
           ackNo |-> Add(dut.peerIsn, 1 + dut.received), options |-> options]
  BY DEF Segment
<1>6. options \in OptionSets /\ options.ts.val = dut.clock
  BY LiveOptions
<1>7. d.received = received
  BY DEF Good, IsDut, DutNames
<1>8. e = [dut EXCEPT !.received = received, !.state = "open", !.synAcked = synAcked]
  <2> HIDE DEF received
  <2> QED BY <1>7 DEF Good, IsDut, DutNames
<1>9. seg = [conn |-> dut.conn, syn |-> TRUE, ack |-> TRUE, len |-> 0, seq |-> dut.isn, ackNo |-> ackNo,
             options |-> options]
  <2> DEFINE k == Add(dut.peerIsn, 1 + dut.received)
             t == [conn |-> dut.conn, syn |-> TRUE, ack |-> TRUE, len |-> 0, seq |-> dut.isn, ackNo |-> k,
                   options |-> options]
  <2>1. seg = [t EXCEPT !.ackNo = ackNo]
    <3> HIDE DEF received, d, s
    <3> QED BY <1>5, <1>7
  <2> HIDE DEF k, ackNo, seg
  <2> QED BY <2>1
<1> HIDE DEF received, d, e, s, seg, ackNo, synAcked
<1>10. /\ IsDut(e) /\ SameOnEmit(e, dut) /\ e.sent = dut.sent /\ e.stamps = dut.stamps /\ e.state = "open"
       /\ e.synSeen = dut.synSeen /\ e.synData = dut.synData /\ e.peerSyn = dut.peerSyn /\ e.received = received
       /\ e.acked = dut.acked
  BY <1>8 DEF Good, IsDut, DutNames, SameOnEmit, SameConn, SameWritten, SameTimes
<1>11. Numbered(e)
  BY <1>3, <1>10 DEF Good, Numbered, SameOnEmit, SameConn, SameTimes
<1>12. Frame(app, e)
  <2>1. Frame(app, dut) /\ SamePackets(app, app) /\ SameConn(e, dut) /\ app.relSequenceIn = dut.peerIsn /\ e.peerIsn = dut.peerIsn
    BY <1>2, <1>10 DEF Good, Frame, SamePackets, SameOnEmit, SameConn
  <2> QED BY <1>2, <1>10, <2>1, HandshakeFrame
<1>13. Awaits(seg, e)
  <2>1. dut.conn \in Int /\ dut.isn \in Numbers /\ 0 \in Int
    BY DEF Good, Numbered
  <2>2. seg \in Segments
    BY <1>4, <1>6, <1>9, <2>1 DEF Segments
  <2> QED BY <1>9, <1>10, <2>2 DEF Awaits, SameOnEmit, SameConn
<1>14. seg.conn = dut.conn /\ seg.options.ts.val = dut.clock /\ seg.len = 1 - 1 /\ RelStart(app, seg) = 1
  BY <1>6, <1>9 DEF RelStart
<1>15. dut.sent \in Int /\ dut.sent >= 0 /\ MaxWritten \in Nat
  <2>1. dut.wrote \in 0 .. MaxWritten /\ dut.sent \in 0 .. dut.wrote
    BY DEF Good, Numbered
  <2> QED BY <2>1, Bounds
<1>16. 1 \in 1 .. MaxWritten + 1 /\ 1 <= dut.sent + 1 /\ 1 - 1 <= dut.sent /\ ~(1 - 1 > dut.sent)
  BY <1>15
<1>17. e.sent = (IF 1 - 1 > dut.sent THEN 1 - 1 ELSE dut.sent)
  BY <1>10, <1>16
<1>18. e.stamps = Due(dut.sent, 1 - 1, SendTypes(app.timestampingFlags))
  <2>1. 1 - 1 \in Int
    OBVIOUS
  <2>2. Due(dut.sent, 1 - 1, SendTypes(app.timestampingFlags)) = dut.stamps
    BY <1>15, <1>16, <2>1, NothingDue
  <2> QED BY <1>10, <2>2
<1> QED BY <1>1, <1>10, <1>11, <1>12, <1>13, <1>14, <1>16, <1>17, <1>18, EmitsKept

LEMMA DutSegmentKept ==
  ASSUME Good(app, dut), NEW from \in 1 .. MaxWritten + 1, NEW to \in 1 .. MaxWritten + 1, NEW options \in DataOptions,
         DutSegment(from, to, options)
  PROVE  FramesAgree' /\ Good(app', dut')
<1> DEFINE seg == Segment(FALSE, TRUE, from, to, options)
           sent == IF to - 1 > dut.sent THEN to - 1 ELSE dut.sent
           stamps == Due(dut.sent, to - 1, SendTypes(app.timestampingFlags))
           e == [dut EXCEPT !.sent = sent, !.stamps = stamps]
           seq == Add(dut.isn, from)
           ackNo == Add(dut.peerIsn, 1 + dut.received)
<1>1. Emits(seg, e)
  BY DEF DutSegment
<1>2. /\ from \in (dut.acked + 1) .. (dut.sent + 1) /\ to \in from .. (dut.wrote + 1)
      /\ (from = to => from = dut.sent + 1)
  BY DEF DutSegment
<1>3. dut.state = "open" /\ dut.synSeen
  BY DEF DutSegment
<1>4. /\ MaxWritten \in Nat /\ dut.wrote \in 0 .. MaxWritten /\ dut.sent \in 0 .. dut.wrote
      /\ dut.stampedTo \in 0 .. dut.sent /\ dut.acked \in 0 .. MaxWritten /\ dut.received \in 0 .. 1
      /\ dut.isn \in Numbers /\ dut.peerIsn \in Numbers
  BY Bounds DEF Good, Numbered
<1>5. /\ from <= dut.sent + 1 /\ to \in from .. MaxWritten + 1 /\ (from = to => to - 1 <= dut.sent)
      /\ sent \in 0 .. dut.wrote /\ dut.stampedTo \in 0 .. sent
  BY <1>2, <1>4
<1>6. from \in Numbers
  BY <1>4, Bounds DEF Numbers
<1>7. seq \in Numbers /\ ackNo \in Numbers
  BY <1>4, <1>6, AddCases, AckNumbers
<1>8. seg = [conn |-> dut.conn, syn |-> FALSE, ack |-> TRUE, len |-> to - from, seq |-> seq, ackNo |-> ackNo,
             options |-> options]
  BY DEF Segment
<1>9. options \in OptionSets /\ options.ts.val = dut.clock
  BY LiveOptions
<1>10. app.relSequenceOut = dut.isn /\ Sub(seq, dut.isn) = from
  <2>1. app.relSequenceOut = dut.isn
    BY <1>3 DEF Good, Frame
  <2>2. Add(from, dut.isn) = seq /\ Sub(Add(from, dut.isn), dut.isn) = from
    BY <1>4, <1>6, AddAndSub
  <2> QED BY <2>1, <2>2
<1> HIDE DEF seg, sent, stamps, seq, ackNo
<1>11. /\ IsDut(e) /\ SameOnEmit(e, dut) /\ e.sent = sent /\ e.stamps = stamps /\ e.state = dut.state
       /\ e.synSeen = dut.synSeen /\ SameSyn(e, dut) /\ e.acked = dut.acked
  BY DEF Good, IsDut, DutNames, SameOnEmit, SameConn, SameWritten, SameTimes, SameSyn
<1> HIDE DEF e
<1>12. Numbered(e)
  BY <1>5, <1>11 DEF Good, Numbered, SameOnEmit, SameConn, SameTimes, SameSyn
<1>13. Frame(app, e)
  BY <1>11, FrameKept DEF Good, SameFrame, SamePackets, SameOnEmit, SameState
<1>14. Awaits(seg, e)
  <2>1. dut.conn \in Int /\ to - from \in Int
    BY <1>4 DEF Good, Numbered
  <2>2. seg \in Segments
    BY <1>7, <1>8, <1>9, <2>1 DEF Segments
  <2> QED BY <1>3, <1>8, <1>11, <2>2 DEF Awaits
<1>15. seg.conn = dut.conn /\ seg.options.ts.val = dut.clock /\ seg.len = to - from /\ RelStart(app, seg) = from
  BY <1>8, <1>9, <1>10 DEF RelStart
<1>16. e.sent = (IF to - 1 > dut.sent THEN to - 1 ELSE dut.sent)
  BY <1>11 DEF sent
<1>17. e.stamps = Due(dut.sent, to - 1, SendTypes(app.timestampingFlags))
  BY <1>11 DEF stamps
<1> QED BY <1>1, <1>5, <1>11, <1>12, <1>13, <1>14, <1>15, <1>16, <1>17, EmitsKept

\* A segment of the last connection, while nothing waits to be sent.
LEMMA StragglerKept ==
  ASSUME Habits = {}, Good(app, dut), NEW options \in DataOptions, Straggler(options)
  PROVE  FramesAgree' /\ Good(app', dut')
<1> DEFINE seg == [conn |-> dut.conn - 1, syn |-> FALSE, ack |-> TRUE, len |-> 1, seq |-> Add(dut.oldIsn, 1),
                   ackNo |-> 0, options |-> options]
<1>1. Emits(seg, dut) /\ app.pendingTxSchedSnd = <<>>
  BY DEF Straggler
<1>2. options \in OptionSets /\ options.ts.val = dut.clock
  BY LiveOptions
<1>3. dut.conn \in Nat
  BY DEF Good, Numbered
<1>4. /\ seg.conn = dut.conn - 1 /\ seg.len = 1 /\ seg.options = options
  OBVIOUS
<1> HIDE DEF seg
<1>5. "ts" \in DOMAIN seg.options /\ seg.options.ts.val = dut.clock /\ seg.conn # dut.conn /\ seg.len # 0
  BY <1>2, <1>3, <1>4, OptionFacts
<1>6. IsApp(app) /\ IsDut(dut)
  BY DEF Good
<1>7. /\ FramesAgree' /\ app' = SocketDataArrived(app, seg) /\ IsDut(dut')
      /\ SameConn(dut', dut) /\ SameState(dut', dut) /\ SameSizes(dut', dut) /\ SameSyn(dut', dut) /\ SameWritten(dut', dut)
      /\ dut'.stamps = dut.stamps /\ dut'.acked = dut.acked /\ dut'.known = dut.known
      /\ dut'.clock = dut.clock + 1 /\ dut'.lastTs = dut.clock
  BY <1>1, <1>5, <1>6, EmitsFacts
<1>8. Arrived(app, seg, app')
  BY <1>5, <1>6, <1>7, ArrivedFacts
<1>9. SentSweep(app, seg) = [stamps |-> app.txTimestampQueue, kept |-> <<>>]
  BY <1>1, SweepNothing DEF SentSweep
<1>10. /\ IsApp(app') /\ SameFrame(app', app) /\ SameWriteSeq(app', app) /\ SameAcked(app', app)
       /\ app'.scriptOutTsVals = app.scriptOutTsVals /\ app'.peerTS = dut.clock /\ SamePackets(app', app)
       /\ SameSent(app', app) /\ SameQueue(app', app)
  BY <1>1, <1>5, <1>8, <1>9 DEF Arrived, SamePackets, SameSent, SameQueue
<1>11. Numbered(dut')
  <2>1. dut.clock + 1 \in Nat \ {0} /\ dut.clock \in Nat
    BY DEF Good, Numbered
  <2> QED BY <1>7, <2>1 DEF Good, Numbered, SameConn, SameSizes, SameSyn
<1>12. Frame(app', dut') /\ Writes(app', dut') /\ Stamping(app', dut')
  BY <1>7, <1>10, FrameKept, WritesKept, StampingKept DEF Good, SameSizes
<1>13. Clocks(app', dut')
  BY <1>7, <1>10 DEF Good, Clocks
<1> QED BY <1>7, <1>10, <1>11, <1>12, <1>13 DEF Good


-----------------------------------------------------------------------------
(* The invariant.                                                          *)

LEMMA InitInv ==
  ASSUME Init
  PROVE  IInv
<1>1. FramesAgree
  BY DEF Init, FramesAgree
<1>2. /\ IsApp(app) /\ app.peerTS = 0 /\ app.scriptOutTsVals = {} /\ app.txTsWriteSeq = 1
      /\ app.timestampingFlags = {} /\ app.pendingTxSchedSnd = <<>> /\ app.pendingTxAck = <<>>
      /\ app.txTimestampQueue = <<>> /\ app.receivedPackets = <<>>
  BY DEF Init, IsApp, AppNames
<1>3. /\ IsDut(dut) /\ dut.conn = 0 /\ dut.isn = 0 /\ dut.scriptIsn = 0 /\ dut.peerIsn = 0 /\ dut.state = "none"
      /\ dut.synSeen = FALSE /\ dut.known = {} /\ dut.clock = 1 /\ dut.lastTs = 0 /\ dut.writes = <<>> /\ dut.stamps = <<>>
  BY DEF Init, IsDut, DutNames
<1>4. /\ dut.wrote = 0 /\ dut.sent = 0 /\ dut.acked = 0 /\ dut.stampedTo = 0 /\ dut.synData = 0
      /\ dut.peerSyn = 0 /\ dut.received = 0 /\ dut.base = 0
  BY DEF Init
<1>5. Numbered(dut)
  <2>1. MaxWritten \in Nat /\ 0 \in Numbers
    BY Bounds DEF Numbers
  <2> QED BY <1>3, <1>4, <2>1 DEF Numbered
<1>6. Len(<<>>) = 0 /\ <<>> \in Seq(Segments) /\ <<>> \in Seq(0 .. MaxWritten) /\ <<>> \in Seq(Stamp)
  OBVIOUS
<1>7. Frame(app, dut)
  BY <1>2, <1>3, <1>6 DEF Frame
<1>8. Clocks(app, dut)
  BY <1>2, <1>3 DEF Clocks
<1>9. Writes(app, dut)
  <2>1. Ascending(<<>>)
    BY <1>6 DEF Ascending
  <2> QED BY <1>2, <1>3, <1>4, <1>6, <2>1 DEF Writes
<1>10. Stamping(app, dut)
  BY <1>2, <1>3, <1>6 DEF Stamping, Waits
<1> QED BY <1>1, <1>2, <1>3, <1>5, <1>7, <1>8, <1>9, <1>10 DEF IInv, Good

LEMMA NextInv ==
  ASSUME Habits = {}, IInv, [Next]_vars
  PROVE  IInv'
<1>1. CASE Next
  <2>1. Running
    BY <1>1 DEF Next, Script, Stack, SyscallSocket, SetTimestamping, SyscallWrite, SyscallRecvErrQueue, RunOutbound,
                PeerSyn, PeerSynAck, PeerAck, IcmpError, DutSyn, DutSynAck, DutSegment, Straggler, Emits
  <2>2. Good(app, dut)
    BY <2>1 DEF IInv
  <2>3. SUFFICES FramesAgree' /\ (~app'.over => Good(app', dut'))
    BY DEF IInv, Running
  <2>4. CASE Script
    <3>1. CASE \E role \in {"client", "server"}, frame \in Frames : SyscallSocket(role, frame)
      BY <2>2, <3>1, SocketKept
    <3>2. CASE \E flags \in FlagSets : SetTimestamping(flags)
      BY <2>2, <3>2, TimestampingKept
    <3>3. CASE \E n \in 1 .. 2 : SyscallWrite(n)
      BY <2>2, <3>3, WriteKept
    <3>4. CASE SyscallRecvErrQueue
      BY <2>2, <3>4, RecvErrQueueKept
    <3>5. CASE RunOutbound
      BY <2>2, <3>5, OutboundKept
    <3>6. CASE \E n \in 0 .. 1 : PeerSyn(n)
      BY <2>2, <3>6, PeerSynKept
    <3>7. CASE \E k \in 0 .. MaxWritten : PeerSynAck(k)
      BY <2>2, <3>7, PeerSynAckKept
    <3>8. CASE \E upTo \in 0 .. MaxWritten, ecr \in {0} \cup dut.known \cup {Bogus}, data \in 0 .. 1 :
                 PeerAck(upTo, ecr, data)
      BY <2>2, <3>8, PeerAckKept
    <3>9. CASE IcmpError
      BY <2>2, <3>9, IcmpErrorKept
    <3> QED BY <2>4, <3>1, <3>2, <3>3, <3>4, <3>5, <3>6, <3>7, <3>8, <3>9 DEF Script
  <2>5. CASE Stack
    <3>1. CASE \E options \in SynOptions, n \in 0 .. MaxWritten : DutSyn(n, options)
      BY <2>2, <3>1, DutSynKept
    <3>2. CASE \E options \in SynOptions, good \in BOOLEAN : DutSynAck(good, options)
      BY <2>2, <3>2, DutSynAckKept
    <3>3. CASE \E options \in DataOptions, from, to \in 1 .. MaxWritten + 1 : DutSegment(from, to, options)
      BY <2>2, <3>3, DutSegmentKept
    <3>4. CASE \E options \in DataOptions : Straggler(options)
      BY <2>2, <3>4, StragglerKept
    <3> QED BY <2>5, <3>1, <3>2, <3>3, <3>4 DEF Stack
  <2> QED BY <1>1, <2>4, <2>5 DEF Next
<1>2. CASE UNCHANGED vars
  BY <1>2 DEF vars, IInv, FramesAgree, Running
<1> QED BY <1>1, <1>2

\* Where the app translates a segment, the segment is about the bytes and the
\* timestamps that the script means, and an expectation matches if, and only
\* if, it is the segment: for any initial sequence numbers of the DUT, of the
\* script and of the peer, on every connection of a script.
THEOREM AlwaysFramesAgree ==
  ASSUME Habits = {}
  PROVE  Spec => []FramesAgree
<1>1. IInv => FramesAgree
  BY DEF IInv
<1> QED BY InitInv, NextInv, <1>1, PTL DEF Spec

\* The stamps in the error queue are those of the bytes that the DUT sent, and
\* that were acknowledged, since the script asked for timestamps, in order.
THEOREM AlwaysStampsDue ==
  ASSUME Habits = {}
  PROVE  Spec => []StampsDue
<1>1. IInv => StampsDue
  BY DEF IInv, Good, Stamping, StampsDue
<1> QED BY InitInv, NextInv, <1>1, PTL DEF Spec

-----------------------------------------------------------------------------
(* The data of a SYN.                                                      *)

\* 0 stands for no SYN data: where a SYN's data ends at number 0, the app takes
\* it for none.
DataEndsNotAtZero ==
  \A f \in Frames : Add(f.peer, 2) # 0 /\ \A n \in 1 .. MaxWritten : Add(f.live, 1 + n) # 0

LEMMA SocketSyn ==
  ASSUME Good(app, dut), NEW role, NEW frame \in Frames, SyscallSocket(role, frame)
  PROVE  SynData(app', dut')
<1>1. app'.tfoShadowSynDataEndOut = 0 /\ app'.tfoShadowSynDataEndIn = 0 /\ app'.tfoSynDataAckedShadow = FALSE
  BY DEF SyscallSocket, Fresh, Good, IsApp, AppNames
<1>2. dut'.state = "closed" /\ dut'.synAcked = FALSE /\ dut'.isn = frame.live /\ dut'.peerIsn = frame.peer
  BY DEF SyscallSocket, Good, IsDut, DutNames
<1> QED BY <1>1, <1>2 DEF SynData

\* The steps that have nothing to do with a SYN.
LEMMA OtherSyn ==
  ASSUME Good(app, dut), SynData(app, dut),
         \/ \E flags \in FlagSets : SetTimestamping(flags)
         \/ \E n \in 1 .. 2 : SyscallWrite(n)
         \/ SyscallRecvErrQueue
         \/ IcmpError
  PROVE  SynData(app', dut')
<1>1. SameShadows(app', app)
  BY DEF SetTimestamping, SyscallWrite, RecordTxTimestampWrite, SyscallRecvErrQueue, IcmpError, Good, IsApp, AppNames,
         SameShadows
<1>2. /\ SameConn(dut', dut) /\ dut'.state = dut.state /\ dut'.synData = dut.synData /\ dut'.peerSyn = dut.peerSyn
      /\ dut'.synAcked = dut.synAcked
  BY DEF SetTimestamping, SyscallWrite, SyscallRecvErrQueue, IcmpError, Good, IsDut, DutNames, SameConn
<1> QED BY <1>1, <1>2, SynDataKept

LEMMA OutboundSyn ==
  ASSUME Good(app, dut), SynData(app, dut), RunOutbound
  PROVE  SynData(app', dut')
<1> DEFINE live == Head(app.receivedPackets)
           taken == [app EXCEPT !.receivedPackets = Tail(@)]
<1>1. PICK stored :
        LET a == Captured(taken, stored, live)
            matches == CompareTcpHeader(a, stored, live)
        IN /\ app' = [Learnt(a, stored) EXCEPT !.over = ~matches \/ stored # InScript(live)]
           /\ dut' = [dut EXCEPT !.synSeen = @ \/ live.syn,
                                 !.known = IF "ts" \in DOMAIN stored.options
                                           THEN @ \cup {stored.options.ts.val} ELSE @]
  BY DEF RunOutbound
<1> DEFINE a == Captured(taken, stored, live)
           b == Learnt(a, stored)
           over == ~CompareTcpHeader(a, stored, live) \/ stored # InScript(live)
<1>2. app' = [b EXCEPT !.over = over]
  BY <1>1
<1>3. IsApp(taken) /\ SameShadows(taken, app)
  BY DEF Good, IsApp, AppNames, SameShadows
<1>4. IsApp(a) /\ SameShadows(a, taken)
  <2> HIDE DEF taken, live
  <2> QED BY <1>3 DEF Captured, IsApp, AppNames, SameShadows
<1> HIDE DEF taken, a
<1>5. IsApp(b) /\ SameShadows(b, a)
  BY <1>4 DEF Learnt, IsApp, AppNames, SameShadows
<1> HIDE DEF b, over
<1>6. SameShadows(app', b)
  BY <1>2, <1>5 DEF IsApp, AppNames, SameShadows
<1>7. SameShadows(app', app)
  BY <1>3, <1>4, <1>5, <1>6 DEF SameShadows
<1>8. /\ SameConn(dut', dut) /\ dut'.state = dut.state /\ dut'.synData = dut.synData /\ dut'.peerSyn = dut.peerSyn
      /\ dut'.synAcked = dut.synAcked
  BY <1>1 DEF Good, IsDut, DutNames, SameConn
<1> QED BY <1>7, <1>8, SynDataKept

LEMMA PeerSynSyn ==
  ASSUME Good(app, dut), SynData(app, dut), NEW n \in 0 .. 1, PeerSyn(n)
  PROVE  SynData(app', dut')
<1> DEFINE seg == [syn |-> TRUE, ack |-> FALSE, seq |-> dut.peerIsn, ackNo |-> 0, len |-> n, sack |-> 0, ecr |-> 0]
<1>1. app' = Injecting(app, seg) /\ dut.role = "server" /\ dut.state = "closed"
  BY DEF PeerSyn
<1>2. seg.syn /\ ~seg.ack /\ seg.seq = dut.peerIsn /\ seg.len = n
  OBVIOUS
<1> HIDE DEF seg
<1>3. Injected(app, seg, app')
  BY <1>1, InjectedFacts DEF Good
<1>4. /\ app'.tfoShadowSynDataEndOut = app.tfoShadowSynDataEndOut
      /\ app'.tfoShadowSynDataEndIn = IF n > 0 THEN Add(dut.peerIsn, 1 + n) ELSE app.tfoShadowSynDataEndIn
      /\ app'.tfoSynDataAckedShadow = app.tfoSynDataAckedShadow
  BY <1>2, <1>3 DEF Injected
<1>5. app.tfoShadowSynDataEndOut = 0 /\ app.tfoShadowSynDataEndIn = 0
      /\ app.tfoSynDataAckedShadow = FALSE /\ dut.synAcked = FALSE
  BY <1>1 DEF SynData
<1>6. /\ SameConn(dut', dut) /\ dut'.state = "syn" /\ dut'.peerSyn = n /\ dut'.synAcked = dut.synAcked
  BY DEF PeerSyn, Good, IsDut, DutNames, SameConn
<1>7. app'.tfoShadowSynDataEndIn = IF n = 0 THEN 0 ELSE Add(dut.peerIsn, 1 + n)
  <2>1. n = 0 \/ n > 0
    OBVIOUS
  <2> QED BY <1>4, <1>5, <2>1
<1>8. \E f \in Frames : dut'.isn = f.live /\ dut'.peerIsn = f.peer
  BY <1>1, <1>6 DEF SynData, SameConn
<1>9. dut'.role = "server" /\ dut'.peerIsn = dut.peerIsn
  BY <1>1, <1>6 DEF SameConn
<1> QED BY <1>4, <1>5, <1>6, <1>7, <1>8, <1>9 DEF SynData

LEMMA PeerSynAckSyn ==
  ASSUME DataEndsNotAtZero, Good(app, dut), SynData(app, dut), NEW k \in 0 .. MaxWritten, PeerSynAck(k)
  PROVE  SynData(app', dut')
<1> DEFINE ackNo == Add(dut.scriptIsn, 1 + k)
           seg == [syn |-> TRUE, ack |-> TRUE, seq |-> dut.peerIsn, ackNo |-> ackNo, len |-> 0, sack |-> 0, ecr |-> 0]
           end == app.tfoShadowSynDataEndOut
           n == dut.synData
           synAcked == k > 0
<1>1. app' = Injecting(app, seg) /\ dut.role = "client" /\ dut.state = "syn" /\ dut.synSeen /\ k \in {0, n}
  BY DEF PeerSynAck, RunInbound
<1>2. seg.syn /\ seg.ack /\ seg.ackNo = ackNo
  OBVIOUS
<1>3. /\ SameConn(dut', dut) /\ dut'.state = "open" /\ dut'.synAcked = synAcked
  BY DEF PeerSynAck, Good, IsDut, DutNames, SameConn
<1> HIDE DEF seg, ackNo
<1>4. Injected(app, seg, app')
  BY <1>1, InjectedFacts DEF Good
<1>5. app.relSequenceOut = dut.isn /\ app.scriptIsnOut = dut.scriptIsn
  BY <1>1 DEF Good, Frame
<1>6. /\ dut.isn \in Numbers /\ dut.scriptIsn \in Numbers /\ n \in 0 .. MaxWritten /\ MaxWritten \in Nat
      /\ Half \in Nat /\ MaxWritten + 1 < Half
  BY Bounds DEF Good, Numbered
<1>7. 1 + k \in Numbers
  BY <1>6, Bounds DEF Numbers
<1>8. Sub(Add(ackNo, dut.isn), dut.scriptIsn) = Add(dut.isn, 1 + k)
  BY <1>6, <1>7, Rebase DEF ackNo
<1>9. app'.tfoSynDataAckedShadow = IF end # 0 /\ ~SeqLess(Add(dut.isn, 1 + k), end) THEN TRUE ELSE app.tfoSynDataAckedShadow
  BY <1>2, <1>4, <1>5, <1>8 DEF Injected
<1>10. app.tfoSynDataAckedShadow = FALSE
  BY <1>1 DEF SynData
<1>11. end = IF n = 0 THEN 0 ELSE Add(dut.isn, 1 + n)
  BY <1>1 DEF SynData
<1>12. \E f \in Frames : dut.isn = f.live /\ dut.peerIsn = f.peer
  BY <1>1 DEF SynData
<1> HIDE DEF end, n
<1>13. end # 0 /\ ~SeqLess(Add(dut.isn, 1 + k), end) <=> synAcked
  <2>1. CASE n = 0
    BY <1>1, <1>11, <2>1
  <2>2. CASE n # 0
    <3>1. n \in 1 .. MaxWritten
      BY <1>6, <2>2
    <3>2. end = Add(dut.isn, 1 + n) /\ end # 0
      BY <1>11, <1>12, <2>2, <3>1 DEF DataEndsNotAtZero
    <3>3. 1 + k \in 0 .. Half /\ 1 + n \in 0 .. Half /\ 1 + k < Half /\ 1 + n < Half
      BY <1>6
    <3>4. SeqLess(Add(dut.isn, 1 + k), Add(dut.isn, 1 + n)) <=> 1 + k < 1 + n
      <4> DEFINE x == 1 + k
                 y == 1 + n
      <4>1. x \in 0 .. Half /\ y \in 0 .. Half /\ x < Half /\ y < Half
        BY <3>3
      <4> HIDE DEF x, y
      <4>2. SeqLess(Add(dut.isn, x), Add(dut.isn, y)) <=> x < y
        BY <1>6, <4>1, InOrderFrom
      <4> QED BY <4>2 DEF x, y
    <3>5. 1 + k < 1 + n <=> ~synAcked
      BY <1>1, <1>6, <3>1
    <3> QED BY <3>2, <3>4, <3>5
  <2> QED BY <2>1, <2>2
<1>14. app'.tfoSynDataAckedShadow = synAcked
  <2>1. synAcked \in BOOLEAN
    OBVIOUS
  <2> HIDE DEF synAcked
  <2> QED BY <1>9, <1>10, <1>13, <2>1
<1> HIDE DEF synAcked
<1> QED BY <1>3, <1>12, <1>14 DEF SynData, SameConn

LEMMA PeerAckSyn ==
  ASSUME Good(app, dut), SynData(app, dut), NEW upTo, NEW ecr, NEW data, PeerAck(upTo, ecr, data)
  PROVE  SynData(app', dut')
<1> DEFINE seg == [syn |-> FALSE, ack |-> TRUE, seq |-> 1 + dut.received, ackNo |-> 1 + upTo, len |-> data,
                   sack |-> 1 + dut.sent, ecr |-> ecr]
<1>1. app' = Injecting(app, seg)
  BY DEF PeerAck, RunInbound
<1>2. ~seg.syn
  OBVIOUS
<1> HIDE DEF seg
<1>3. Injected(app, seg, app')
  BY <1>1, InjectedFacts DEF Good
<1>4. SameShadows(app', app)
  BY <1>2, <1>3 DEF Injected, SameShadows
<1>5. /\ SameConn(dut', dut) /\ dut'.state = dut.state /\ dut'.synData = dut.synData /\ dut'.peerSyn = dut.peerSyn
      /\ dut'.synAcked = dut.synAcked
  BY DEF PeerAck, Good, IsDut, DutNames, SameConn
<1> QED BY <1>4, <1>5, SynDataKept

LEMMA DutSynSyn ==
  ASSUME Good(app, dut), SynData(app, dut), NEW n \in 0 .. MaxWritten, NEW options \in SynOptions, DutSyn(n, options)
  PROVE  SynData(app', dut')
<1> DEFINE seg == Segment(TRUE, FALSE, 1, 1 + n, options)
           synData == IF dut.state = "closed" THEN n ELSE dut.synData
           sent == IF n > dut.sent THEN n ELSE dut.sent
           stamps == Due(dut.sent, n, SendTypes(app.timestampingFlags))
           e == [dut EXCEPT !.state = "syn", !.sent = sent, !.synData = synData, !.stamps = stamps]
<1>1. Emits(seg, e)
  BY DEF DutSyn
<1>2. dut.role = "client" /\ (dut.state = "closed" \/ (dut.state = "syn" /\ n = 0))
  BY DEF DutSyn
<1>3. n \in Int /\ 1 + n - 1 = n
  BY Bounds
<1>4. seg.syn /\ ~seg.ack /\ seg.len = n /\ seg.seq = dut.isn /\ seg.options = options
  BY <1>3 DEF Segment
<1> HIDE DEF seg, synData, sent, stamps
<1>5. /\ IsDut(e) /\ SameConn(e, dut) /\ e.state = "syn" /\ e.synData = synData /\ e.synAcked = dut.synAcked
  BY DEF Good, IsDut, DutNames, SameConn
<1> HIDE DEF e
<1>6. "ts" \in DOMAIN seg.options /\ IsApp(app)
  BY <1>4, LiveOptions, OptionFacts DEF Good
<1>7. app' = SocketDataArrived(app, seg) /\ SameConn(dut', e) /\ SameState(dut', e) /\ SameSyn(dut', e)
  BY <1>1, <1>5, <1>6, EmitsFacts
<1>8. Arrived(app, seg, app')
  BY <1>6, <1>7, ArrivedFacts
<1>9. /\ app'.tfoShadowSynDataEndIn = app.tfoShadowSynDataEndIn
      /\ app'.tfoShadowSynDataEndOut = IF n > 0 THEN Add(dut.isn, 1 + n) ELSE app.tfoShadowSynDataEndOut
      /\ app'.tfoSynDataAckedShadow = app.tfoSynDataAckedShadow
  BY <1>4, <1>8 DEF Arrived
<1>10. /\ app.tfoShadowSynDataEndIn = 0 /\ app.tfoSynDataAckedShadow = FALSE /\ dut.synAcked = FALSE
       /\ app.tfoShadowSynDataEndOut = IF dut.state = "closed" \/ dut.synData = 0 THEN 0 ELSE Add(dut.isn, 1 + dut.synData)
  BY <1>2 DEF SynData
<1>11. app'.tfoShadowSynDataEndOut = IF synData = 0 THEN 0 ELSE Add(dut.isn, 1 + synData)
  <2>1. CASE dut.state = "closed"
    <3>1. synData = n /\ app.tfoShadowSynDataEndOut = 0
      BY <1>10, <2>1 DEF synData
    <3>2. n = 0 \/ n > 0
      BY Bounds
    <3> QED BY <1>9, <3>1, <3>2
  <2>2. CASE dut.state = "syn" /\ n = 0
    <3>1. synData = dut.synData
      BY <2>2 DEF synData
    <3> QED BY <1>9, <1>10, <2>2, <3>1
  <2> QED BY <1>2, <2>1, <2>2
<1>12. \E f \in Frames : dut'.isn = f.live /\ dut'.peerIsn = f.peer
  BY <1>2, <1>5, <1>7 DEF SynData, SameConn
<1>13. dut'.state = "syn" /\ dut'.role = "client" /\ dut'.isn = dut.isn /\ dut'.synData = synData /\ dut'.synAcked = FALSE
  BY <1>2, <1>5, <1>7, <1>10 DEF SameConn, SameState, SameSyn
<1> QED BY <1>9, <1>10, <1>11, <1>12, <1>13 DEF SynData

LEMMA DutSynAckSyn ==
  ASSUME DataEndsNotAtZero, Good(app, dut), SynData(app, dut), NEW good \in BOOLEAN, NEW options \in SynOptions,
         DutSynAck(good, options)
  PROVE  SynData(app', dut')
<1> DEFINE received == IF good THEN dut.peerSyn ELSE 0
           d == [dut EXCEPT !.received = received]
           synAcked == received > 0
           e == [d EXCEPT !.state = "open", !.synAcked = d.received > 0]
           s == Segment(TRUE, TRUE, 1, 1, options)
           seg == [s EXCEPT !.ackNo = Add(dut.peerIsn, 1 + d.received)]
           end == app.tfoShadowSynDataEndIn
<1>1. Emits(seg, e) /\ dut.role = "server" /\ dut.state = "syn"
  BY DEF DutSynAck
<1>2. d.received = received
  BY DEF Good, IsDut, DutNames
<1>3. s.syn /\ s.ack /\ s.len = 0 /\ s.options = options /\ DOMAIN s = {"conn", "syn", "ack", "len", "seq", "ackNo", "options"}
  BY DEF Segment
<1>4. seg.syn /\ seg.ack /\ seg.options = options /\ seg.ackNo = Add(dut.peerIsn, 1 + received)
  <2> HIDE DEF received, d, s
  <2> QED BY <1>2, <1>3
<1>5. received \in 0 .. 1 /\ dut.peerSyn \in 0 .. 1 /\ (received # 0 => received = dut.peerSyn)
  BY DEF Good, Numbered
<1>6. e = [dut EXCEPT !.received = received, !.state = "open", !.synAcked = synAcked]
  <2> HIDE DEF received
  <2> QED BY <1>2 DEF Good, IsDut, DutNames
<1> HIDE DEF received, d, s, seg, synAcked, e
<1>7. IsDut(e) /\ SameConn(e, dut) /\ e.state = "open" /\ e.synAcked = synAcked
  BY <1>6 DEF Good, IsDut, DutNames, SameConn
<1>8. "ts" \in DOMAIN seg.options /\ IsApp(app)
  BY <1>4, LiveOptions, OptionFacts DEF Good
<1>9. app' = SocketDataArrived(app, seg) /\ SameConn(dut', e) /\ SameState(dut', e) /\ SameSyn(dut', e)
  BY <1>1, <1>7, <1>8, EmitsFacts
<1>10. Arrived(app, seg, app')
  BY <1>8, <1>9, ArrivedFacts
<1>11. app'.tfoSynDataAckedShadow =
         IF end # 0 /\ ~SeqLess(Add(dut.peerIsn, 1 + received), end) THEN TRUE ELSE app.tfoSynDataAckedShadow
  BY <1>4, <1>10 DEF Arrived
<1>12. /\ app.tfoSynDataAckedShadow = FALSE /\ end = IF dut.peerSyn = 0 THEN 0 ELSE Add(dut.peerIsn, 1 + dut.peerSyn)
       /\ \E f \in Frames : dut.isn = f.live /\ dut.peerIsn = f.peer
  BY <1>1 DEF SynData
<1> HIDE DEF end
<1>13. end # 0 /\ ~SeqLess(Add(dut.peerIsn, 1 + received), end) <=> synAcked
  <2>1. CASE dut.peerSyn = 0
    <3>1. received = 0
      BY <1>5, <2>1
    <3> QED BY <1>12, <2>1, <3>1 DEF synAcked
  <2>2. CASE dut.peerSyn = 1
    <3>1. end = Add(dut.peerIsn, 2) /\ end # 0
      BY <1>12, <2>2 DEF DataEndsNotAtZero
    <3> DEFINE x == 1 + received
               y == 1 + 1
    <3>2. x \in 0 .. Half /\ y \in 0 .. Half /\ x < Half /\ y < Half /\ y = 2
      BY <1>5, Bounds
    <3>3. dut.peerIsn \in Numbers
      BY DEF Good, Numbered
    <3>4. x < y <=> ~(received > 0)
      BY <1>5
    <3> HIDE DEF x, y
    <3>5. SeqLess(Add(dut.peerIsn, x), Add(dut.peerIsn, y)) <=> x < y
      BY <3>2, <3>3, InOrderFrom
    <3> QED BY <3>1, <3>2, <3>4, <3>5 DEF x, synAcked
  <2> QED BY <1>5, <2>1, <2>2
<1>14. app'.tfoSynDataAckedShadow = synAcked
  <2>1. synAcked \in BOOLEAN
    BY DEF synAcked
  <2> QED BY <1>11, <1>12, <1>13, <2>1
<1>15. dut'.state = "open" /\ dut'.synAcked = synAcked /\ dut'.isn = dut.isn /\ dut'.peerIsn = dut.peerIsn
  BY <1>7, <1>9 DEF SameConn, SameState, SameSyn
<1> QED BY <1>12, <1>14, <1>15 DEF SynData

\* The DUT sends a segment that is no SYN.
EmitsData(seg, e, options) ==
  /\ Emits(seg, e) /\ ~seg.syn /\ seg.options = options
  /\ IsDut(e) /\ SameConn(e, dut) /\ SameState(e, dut) /\ SameSyn(e, dut)

LEMMA SegmentSyn ==
  ASSUME Good(app, dut), SynData(app, dut), NEW options \in DataOptions,
         (\E from, to \in 1 .. MaxWritten + 1 : DutSegment(from, to, options)) \/ Straggler(options)
  PROVE  SynData(app', dut')
<1>1. \E seg, e : EmitsData(seg, e, options)
  <2>1. ASSUME NEW from \in 1 .. MaxWritten + 1, NEW to \in 1 .. MaxWritten + 1, DutSegment(from, to, options)
        PROVE  \E seg, e : EmitsData(seg, e, options)
    <3> DEFINE segment == Segment(FALSE, TRUE, from, to, options)
               sent == IF to - 1 > dut.sent THEN to - 1 ELSE dut.sent
               stamps == Due(dut.sent, to - 1, SendTypes(app.timestampingFlags))
               d == [dut EXCEPT !.sent = sent, !.stamps = stamps]
    <3>1. Emits(segment, d)
      BY <2>1 DEF DutSegment
    <3>2. ~segment.syn /\ segment.options = options
      BY DEF Segment
    <3> HIDE DEF segment, sent, stamps
    <3>3. IsDut(d) /\ SameConn(d, dut) /\ SameState(d, dut) /\ SameSyn(d, dut)
      BY DEF Good, IsDut, DutNames, SameConn, SameState, SameSyn
    <3> HIDE DEF d
    <3>4. EmitsData(segment, d, options)
      BY <3>1, <3>2, <3>3 DEF EmitsData
    <3> QED BY <3>4
  <2>2. ASSUME Straggler(options)
        PROVE  \E seg, e : EmitsData(seg, e, options)
    <3> DEFINE segment == [conn |-> dut.conn - 1, syn |-> FALSE, ack |-> TRUE, len |-> 1, seq |-> Add(dut.oldIsn, 1),
                       ackNo |-> 0, options |-> options]
    <3>1. Emits(segment, dut)
      BY <2>2 DEF Straggler
    <3>2. ~segment.syn /\ segment.options = options
      OBVIOUS
    <3> HIDE DEF segment
    <3>3. IsDut(dut) /\ SameConn(dut, dut) /\ SameState(dut, dut) /\ SameSyn(dut, dut)
      BY DEF Good, SameConn, SameState, SameSyn
    <3>4. EmitsData(segment, dut, options)
      BY <3>1, <3>2, <3>3 DEF EmitsData
    <3> QED BY <3>4
  <2> QED BY <2>1, <2>2
<1>2. PICK seg, e : EmitsData(seg, e, options)
  BY <1>1
<1>3. "ts" \in DOMAIN seg.options /\ IsApp(app)
  BY <1>2, LiveOptions, OptionFacts DEF Good, EmitsData
<1>4. app' = SocketDataArrived(app, seg) /\ SameConn(dut', e) /\ SameState(dut', e) /\ SameSyn(dut', e)
  BY <1>2, <1>3, EmitsFacts DEF EmitsData
<1>5. Arrived(app, seg, app')
  BY <1>3, <1>4, ArrivedFacts
<1>6. SameShadows(app', app)
  BY <1>2, <1>5 DEF EmitsData, Arrived, SameShadows
<1>7. /\ SameConn(dut', dut) /\ dut'.state = dut.state /\ dut'.synData = dut.synData /\ dut'.peerSyn = dut.peerSyn
      /\ dut'.synAcked = dut.synAcked
  BY <1>2, <1>4 DEF EmitsData, SameConn, SameState, SameSyn
<1> QED BY <1>6, <1>7, SynDataKept

SynInv == Running => SynData(app, dut)

LEMMA InitSyn ==
  ASSUME Init
  PROVE  SynInv
BY DEF Init, SynInv, SynData

LEMMA NextSyn ==
  ASSUME DataEndsNotAtZero, IInv, SynInv, [Next]_vars
  PROVE  SynInv'
<1>1. CASE Next
  <2>1. Running
    BY <1>1 DEF Next, Script, Stack, SyscallSocket, SetTimestamping, SyscallWrite, SyscallRecvErrQueue, RunOutbound,
                PeerSyn, PeerSynAck, PeerAck, IcmpError, DutSyn, DutSynAck, DutSegment, Straggler, Emits
  <2>2. Good(app, dut) /\ SynData(app, dut)
    BY <2>1 DEF IInv, SynInv
  <2>3. SUFFICES SynData(app', dut')
    BY DEF SynInv
  <2>4. CASE Script
    <3>1. CASE \E role \in {"client", "server"}, frame \in Frames : SyscallSocket(role, frame)
      BY <2>2, <3>1, SocketSyn
    <3>2. CASE \/ \E flags \in FlagSets : SetTimestamping(flags)
               \/ \E n \in 1 .. 2 : SyscallWrite(n)
               \/ SyscallRecvErrQueue
               \/ IcmpError
      BY <2>2, <3>2, OtherSyn
    <3>3. CASE RunOutbound
      BY <2>2, <3>3, OutboundSyn
    <3>4. CASE \E n \in 0 .. 1 : PeerSyn(n)
      BY <2>2, <3>4, PeerSynSyn
    <3>5. CASE \E k \in 0 .. MaxWritten : PeerSynAck(k)
      BY <2>2, <3>5, PeerSynAckSyn
    <3>6. CASE \E upTo \in 0 .. MaxWritten, ecr \in {0} \cup dut.known \cup {Bogus}, data \in 0 .. 1 :
                 PeerAck(upTo, ecr, data)
      BY <2>2, <3>6, PeerAckSyn
    <3> QED BY <2>4, <3>1, <3>2, <3>3, <3>4, <3>5, <3>6 DEF Script
  <2>5. CASE Stack
    <3>1. CASE \E options \in SynOptions, n \in 0 .. MaxWritten : DutSyn(n, options)
      BY <2>2, <3>1, DutSynSyn
    <3>2. CASE \E options \in SynOptions, good \in BOOLEAN : DutSynAck(good, options)
      BY <2>2, <3>2, DutSynAckSyn
    <3>3. CASE \E options \in DataOptions : (\E from, to \in 1 .. MaxWritten + 1 : DutSegment(from, to, options))
                                             \/ Straggler(options)
      BY <2>2, <3>3, SegmentSyn
    <3> QED BY <2>5, <3>1, <3>2, <3>3 DEF Stack
  <2> QED BY <1>1, <2>4, <2>5 DEF Next
<1>2. CASE UNCHANGED vars
  BY <1>2 DEF vars, SynInv, Running
<1> QED BY <1>1, <1>2

\* tcpi_options says that SYN data were acknowledged when they were, of the
\* DUT's SYN and of the peer's, where no SYN's data ends at number 0.
THEOREM AlwaysSynDataKnown ==
  ASSUME Habits = {}, DataEndsNotAtZero
  PROVE  Spec => []SynDataKnown
<1>1. SynInv => SynDataKnown
  BY DEF SynInv, SynData, SynDataKnown
<1>2. IInv /\ SynInv /\ [Next]_vars => (IInv /\ SynInv)'
  BY NextInv, NextSyn
<1> QED BY InitInv, InitSyn, <1>1, <1>2, PTL DEF Spec
==============================================================================
