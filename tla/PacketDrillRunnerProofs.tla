----------------------- MODULE PacketDrillRunnerProofs -----------------------
(***************************************************************************)
(* Proofs about the event loop of PacketDrillApp, for any scripts.         *)
(*                                                                         *)
(* The invariant is a conjunction of what holds of the script (which event *)
(* is next, what is waited for, what was met), of the queue of what came   *)
(* in (in order, read from its head, every byte accounted for) and of the  *)
(* reason why no event is scheduled.  A handler is an operator on the      *)
(* record of the app, and what it keeps is a lemma about this operator;    *)
(* an action of the loop then follows from the lemma of its handler.  The  *)
(* loops of the code (a read over the queue, the slices that were          *)
(* captured) are functions along the queue: that these exist, and what     *)
(* they keep from one packet to the next, is shown first.                  *)
(***************************************************************************)
EXTENDS PacketDrillRunner, FiniteSetTheorems, SequenceTheorems, WellFoundedInduction, TLAPS

\* A nonempty set of naturals has a least element.
LEMMA LeastNatural ==
  ASSUME NEW S \in SUBSET Nat, S # {}
  PROVE  \E x \in S : \A y \in S : x <= y
<1> DEFINE R == {ss \in Nat \X Nat : ss[1] < ss[2]}
<1>1. IsWellFoundedOn(R, Nat)
  BY NatLessThanWellFounded DEF OpToRel
<1> HIDE DEF R
<1>2. PICK x \in S : \A y \in S : ~ (<<y, x>> \in R)
  BY <1>1, WFMin
<1>3. \A y \in S : x <= y
  <2> TAKE y \in S
  <2>1. ~ (<<y, x>> \in R) /\ x \in Nat /\ y \in Nat
    BY <1>2
  <2>2. ~(y < x)
    BY <2>1 DEF R
  <2> QED BY <2>1, <2>2
<1> QED BY <1>3

-----------------------------------------------------------------------------
(* The inductive invariant, part by part, of a record s of the app.        *)

Packets == [app : BOOLEAN, id : Nat, at : Nat, size : Nat, seq : Nat, fin : BOOLEAN, number : Nat]
Expectations == [seq : Nat, size : Nat, fin : BOOLEAN, type : {"any", "range", "relative"},
                 time : Nat, end : Nat]

Parts == [id : Nat, offset : Int]
Aggregates == [fin : BOOLEAN, remaining : Nat, nextSeq : Nat]

\* Every event up to the counter has run, the one it points to if no timer runs.
Counted(s) == s.ran = s.eventCounter + (IF s.eventTimer = Off THEN 1 ELSE 0)

\* A code block waits exactly as long as a status is on its way.
Asking(s) == s.codeEventPending <=> s.statusRequest # "off"

\* The segments sent are m; the packets that wait have come in this order.
InOrder(q, s, m) ==
  /\ \A i, j \in DOMAIN q : i < j => q[i].id < q[j].id
  /\ \A i \in DOMAIN q : q[i].id \in 1 .. s.arrivals
  /\ \A i, j \in CapturedIn(q) : i < j => q[i].number < q[j].number
  /\ \A i \in CapturedIn(q) : q[i].number <= m /\ \A k \in DOMAIN s.compared : s.compared[k] < q[i].number
Ordered(s, m) ==
  /\ InOrder(s.receivedPackets, s, m)
  /\ Ascending(s.compared) /\ \A k \in DOMAIN s.compared : s.compared[k] <= m

\* No segment waits for the script when the script waits for one.
NoneHeldBack(s) == s.outboundPackets # <<>> \/ Aggregating(s) => CapturedIn(s.receivedPackets) = {}

\* How many of the first n events are of a kind.
Ran(kind, n) == Cardinality({k \in 1 .. n : script.events[k].kind = kind})
One(condition) == IF condition THEN 1 ELSE 0

\* What is not met yet is what the script waits for, one thing at a time; d and
\* c count the outbound and the code event that is about to run.
OneAtATime(s, d, c) ==
  ~s.slipped =>
    /\ s.eventTimer # Off => Settled(s) /\ d = 0 /\ c = 0
    /\ s.codeEventPending => s.outboundPackets = <<>> /\ ~Aggregating(s) /\ d = 0
    /\ s.met + Len(s.outboundPackets) + One(Aggregating(s)) + d = Ran("out", s.ran)
    /\ s.executed + Len(s.codeBlockBuffer) + One(s.codeEventPending) + c = Ran("code", s.ran)

\* What it means that the script is complete.
Over(s, d, c) ==
  s.scriptComplete =>
    /\ s.eventCounter = LastEvent /\ s.eventTimer = Off /\ d = 0 /\ c = 0
    /\ s.outboundPackets = <<>> /\ ~s.codeEventPending /\ s.codeBlockBuffer = <<>>
    /\ ~s.slipped => ~Aggregating(s)

Names == {"eventCounter", "eventTimer", "eventTime", "outboundPackets", "receivedPackets", "partialRead",
          "msgArrived", "recvFromSet", "expectedMessageSize", "socketOptionsArrived", "codeEventPending",
          "statusRequest", "pendingCode", "codeBlockBuffer", "aggExpectedOutbound", "pollDeferred", "poll",
          "peerClosedSeen", "peerFinPending", "connErrorSeen", "scriptComplete", "error", "arrivals", "ran", "compared", "met",
          "consumed", "executed", "slipped"}
IsApp(s) == DOMAIN s = Names

ScriptTypes(s) ==
  /\ s.eventCounter \in 0 .. LastEvent /\ s.eventTimer \in Nat \cup {Off}
  /\ s.outboundPackets \in Seq(Expectations) /\ s.aggExpectedOutbound \in Aggregates
  /\ s.codeBlockBuffer \in Seq(BOOLEAN) /\ s.pendingCode \in BOOLEAN
  /\ s.ran \in Nat /\ s.met \in Nat /\ s.executed \in Nat

\* The members that follow the script.
ScriptInv(s, n, d, c) ==
  /\ IsApp(s) /\ ScriptTypes(s) /\ s.error = "" /\ s.ran = n
  /\ Counted(s) /\ Asking(s) /\ OneAtATime(s, d, c) /\ Over(s, d, c)

\* The reason why no event is scheduled; a is what the app asked the stack for.
Held(s, a) == \/ script.protocol # "tcp" /\ s.recvFromSet
              \/ script.protocol = "sctp" /\ (a > 0 \/ ~s.socketOptionsArrived)
Moving(s, a) ==
  s.eventTimer = Off =>
    \/ s.scriptComplete \/ s.outboundPackets # <<>> \/ Aggregating(s) \/ s.codeEventPending
    \/ s.eventCounter < LastEvent /\ Held(s, a)

\* Only the first message of the stream is read in part.
ReadInOrder(q, part) ==
  \A i, j \in DOMAIN q : q[i].app /\ q[j].app /\ i < j => q[j].id # part.id

\* The members that hold what came in: m segments were sent, and b bytes were
\* given to the app.
QueueInv(s, m, b) ==
  /\ s.receivedPackets \in Seq(Packets) /\ s.partialRead \in Parts /\ s.arrivals \in Nat
  /\ s.compared \in Seq(Nat) /\ s.consumed \in Int /\ s.expectedMessageSize \in Int
  /\ s.partialRead.id <= s.arrivals /\ Ordered(s, m)
  /\ script.protocol # "tcp" => CapturedIn(s.receivedPackets) = {}
  /\ ReadsOneWay =>
       /\ ReadInOrder(s.receivedPackets, s.partialRead)
       /\ Uses("recvfrom") => s.partialRead.id = 0
       /\ s.recvFromSet /\ ~Uses("recvfrom") => s.expectedMessageSize \in Nat
       /\ s.consumed + AvailableAppBytes(s) = b

AppInv(s, n, m, b) == ScriptInv(s, n, 0, 0) /\ QueueInv(s, m, b) /\ NoneHeldBack(s)

\* A step of the app ends in an error, or keeps what holds of it.
Keeps(t, n, m, b) == Counted(t) /\ t.ran = n /\ (t.error = "" => AppInv(t, n, m, b))

\* The bytes that were given to the app, those that it has read included.
Given == Injected(app.ran) - Total(inFlight, Len(inFlight))

IInv ==
  /\ script \in Scripts /\ now \in Nat /\ inFlight \in Seq(Nat \ {0}) /\ asked \in Nat /\ sent \in Nat
  /\ sndNxt \in Nat
  /\ Keeps(app, app.ran, sent, Given)
  /\ Running => Moving(app, asked)

-----------------------------------------------------------------------------
(* Sums of sequences of numbers.                                           *)

\* What holds at 0 and goes on from each number to the next holds up to n.
LEMMA UpTo ==
  ASSUME NEW n \in Nat, NEW G, 0 \in G, \A k \in 1 .. n : k - 1 \in G => k \in G
  PROVE  \A k \in 0 .. n : k \in G
<1> DEFINE Bad == (0 .. n) \ G
<1>1. Bad \in SUBSET Nat
  OBVIOUS
<1> SUFFICES ASSUME Bad # {} PROVE FALSE
  OBVIOUS
<1>2. PICK k \in Bad : \A j \in Bad : k <= j
  <2> HIDE DEF Bad
  <2> QED BY <1>1, LeastNatural
<1>3. k \in 1 .. n /\ k - 1 \in 0 .. n
  OBVIOUS
<1>4. k - 1 \in G
  BY <1>2, <1>3
<1> QED BY <1>3, <1>4

\* f[i] is the sum of the first i numbers.
Adds(f, numbers, n) ==
  /\ f = [i \in 0 .. n |-> f[i]] /\ f[0] = 0
  /\ \A i \in 1 .. n : f[i] = f[i - 1] + numbers[i]

Integers(numbers, n) == \A i \in 1 .. n : numbers[i] \in Int

\* The recursion of Total has a solution, for any number of terms.
LEMMA AddsExist ==
  ASSUME NEW n \in Nat, NEW numbers
  PROVE  \E f : Adds(f, numbers, n)
<1> DEFINE G == {k \in 0 .. n : \E f : Adds(f, numbers, k)}
<1>1. 0 \in G
  <2>1. Adds([i \in 0 .. 0 |-> 0], numbers, 0)
    BY DEF Adds
  <2> QED BY <2>1
<1>2. ASSUME NEW k \in 1 .. n, k - 1 \in G
      PROVE  k \in G
  <2>1. PICK f : Adds(f, numbers, k - 1)
    BY <1>2
  <2> DEFINE next == [i \in 0 .. k |-> IF i < k THEN f[i] ELSE f[k - 1] + numbers[k]]
  <2>2. \A i \in 0 .. k - 1 : next[i] = f[i]
    OBVIOUS
  <2>3. next[k] = f[k - 1] + numbers[k] /\ next = [i \in 0 .. k |-> next[i]]
    OBVIOUS
  <2> HIDE DEF next
  <2>4. ASSUME NEW i \in 1 .. k PROVE next[i] = next[i - 1] + numbers[i]
    <3>1. i - 1 \in 0 .. k - 1
      OBVIOUS
    <3>2. CASE i = k
      BY <2>2, <2>3, <3>1, <3>2
    <3>3. CASE i < k
      <4>1. i \in 1 .. k - 1 /\ i \in 0 .. k - 1
        BY <3>3
      <4>2. f[i] = f[i - 1] + numbers[i]
        BY <2>1, <4>1 DEF Adds
      <4> QED BY <2>2, <3>1, <4>1, <4>2
    <3> QED BY <3>2, <3>3
  <2>5. next[0] = 0
    BY <2>1, <2>2 DEF Adds
  <2>6. Adds(next, numbers, k)
    BY <2>3, <2>4, <2>5 DEF Adds
  <2> QED BY <2>6
<1> HIDE DEF G
<1>3. n \in 0 .. n
  OBVIOUS
<1>4. n \in G
  BY <1>1, <1>2, <1>3, UpTo
<1> QED BY <1>4 DEF G

\* The total is the last of these sums, and its own recurrence.
LEMMA TotalAdds ==
  ASSUME NEW n \in Nat, NEW numbers
  PROVE  \E f : Adds(f, numbers, n) /\ Total(numbers, n) = f[n]
<1> DEFINE Sums(f) == f = [i \in 0 .. n |-> IF i = 0 THEN 0 ELSE f[i - 1] + numbers[i]]
<1>1. PICK g : Adds(g, numbers, n)
  BY AddsExist
<1>2. Sums(g)
  <2>1. \A i \in 0 .. n : g[i] = IF i = 0 THEN 0 ELSE g[i - 1] + numbers[i]
    BY <1>1 DEF Adds
  <2>2. g = [i \in 0 .. n |-> g[i]]
    BY <1>1 DEF Adds
  <2> QED BY <2>1, <2>2
<1>3. PICK f : f = (CHOOSE h : Sums(h)) /\ Sums(f)
  BY <1>2
<1>4. Total(numbers, n) = f[n]
  BY <1>3 DEF Total
<1>5. Adds(f, numbers, n)
  <2> DEFINE h == [i \in 0 .. n |-> IF i = 0 THEN 0 ELSE f[i - 1] + numbers[i]]
  <2>1. /\ h = [i \in 0 .. n |-> h[i]] /\ h[0] = 0
        /\ \A i \in 1 .. n : h[i] = f[i - 1] + numbers[i]
    OBVIOUS
  <2>2. f = h
    BY <1>3
  <2> HIDE DEF h
  <2> QED BY <2>1, <2>2 DEF Adds
<1> QED BY <1>4, <1>5

\* Sums of integers are integers.
LEMMA AddsInteger ==
  ASSUME NEW n \in Nat, NEW numbers, Integers(numbers, n), NEW f, Adds(f, numbers, n)
  PROVE  \A i \in 0 .. n : f[i] \in Int
<1> DEFINE G == {k \in 0 .. n : f[k] \in Int}
<1>1. 0 \in G
  BY DEF Adds
<1>2. ASSUME NEW k \in 1 .. n, k - 1 \in G PROVE k \in G
  <2>1. f[k] = f[k - 1] + numbers[k] /\ numbers[k] \in Int /\ f[k - 1] \in Int /\ k \in 0 .. n
    <3>1. \A i \in 1 .. n : f[i] = f[i - 1] + numbers[i]
      BY DEF Adds
    <3> QED BY <1>2, <3>1 DEF Integers
  <2> QED BY <2>1
<1> HIDE DEF G
<1>3. \A k \in 0 .. n : k \in G
  BY <1>1, <1>2, UpTo
<1> QED BY <1>3 DEF G

\* It has no other: a longer one agrees with a shorter one.
LEMMA AddsSame ==
  ASSUME NEW n \in Nat, NEW numbers, NEW f, Adds(f, numbers, n), NEW m \in 0 .. n,
         NEW g, Adds(g, numbers, m)
  PROVE  \A i \in 0 .. m : f[i] = g[i]
<1> DEFINE G == {k \in 0 .. m : f[k] = g[k]}
<1>1. 0 \in G
  BY DEF Adds
<1>2. ASSUME NEW k \in 1 .. m, k - 1 \in G PROVE k \in G
  <2>1. k \in 1 .. n /\ k \in 0 .. m
    OBVIOUS
  <2>2. f[k] = f[k - 1] + numbers[k] /\ g[k] = g[k - 1] + numbers[k] /\ f[k - 1] = g[k - 1]
    BY <1>2, <2>1 DEF Adds
  <2> QED BY <2>1, <2>2
<1> HIDE DEF G
<1>3. m \in Nat
  OBVIOUS
<1>4. \A k \in 0 .. m : k \in G
  BY <1>1, <1>2, <1>3, UpTo
<1> QED BY <1>4 DEF G

\* The sum of no numbers.
LEMMA TotalZero ==
  ASSUME NEW numbers
  PROVE  Total(numbers, 0) = 0
<1>1. PICK f : Adds(f, numbers, 0) /\ Total(numbers, 0) = f[0]
  BY TotalAdds
<1> QED BY <1>1 DEF Adds

\* The sum of one number more.
LEMMA TotalStep ==
  ASSUME NEW n \in Nat \ {0}, NEW numbers
  PROVE  Total(numbers, n) = Total(numbers, n - 1) + numbers[n]
<1>1. n \in Nat /\ n - 1 \in Nat /\ n - 1 \in 0 .. n /\ n - 1 \in 0 .. n - 1 /\ n \in 1 .. n
  OBVIOUS
<1>2. PICK f : Adds(f, numbers, n) /\ Total(numbers, n) = f[n]
  BY <1>1, TotalAdds
<1>3. PICK g : Adds(g, numbers, n - 1) /\ Total(numbers, n - 1) = g[n - 1]
  BY <1>1, TotalAdds
<1>4. f[n - 1] = g[n - 1]
  BY <1>1, <1>2, <1>3, AddsSame
<1> QED BY <1>1, <1>2, <1>3, <1>4 DEF Adds

\* The sum of integers is one.
LEMMA TotalInteger ==
  ASSUME NEW n \in Nat, NEW numbers, Integers(numbers, n)
  PROVE  Total(numbers, n) \in Int
<1>1. PICK f : Adds(f, numbers, n) /\ Total(numbers, n) = f[n]
  BY TotalAdds
<1>2. n \in 0 .. n
  OBVIOUS
<1> QED BY <1>1, <1>2, AddsInteger

\* And so are the sums on the way.
LEMMA IntegersUpTo ==
  ASSUME NEW n \in Nat, NEW numbers, Integers(numbers, n)
  PROVE  \A k \in 0 .. n : k \in Nat /\ Integers(numbers, k) /\ Total(numbers, k) \in Int
<1> TAKE k \in 0 .. n
<1>1. k \in Nat /\ Integers(numbers, k)
  BY DEF Integers
<1> QED BY <1>1, TotalInteger

\* Numbers that are the same after the first m add up to the same from there.
LEMMA TotalAgree ==
  ASSUME NEW n \in Nat, NEW m \in 0 .. n, NEW f, NEW g, Integers(f, n), Integers(g, n),
         \A i \in m + 1 .. n : f[i] = g[i]
  PROVE  Total(f, n) - Total(f, m) = Total(g, n) - Total(g, m)
<1> DEFINE G == {k \in 0 .. n : k >= m => Total(f, k) - Total(f, m) = Total(g, k) - Total(g, m)}
<1>1. \A k \in 0 .. n : Total(f, k) \in Int /\ Total(g, k) \in Int
  BY IntegersUpTo
<1>2. 0 \in G
  <2>1. 0 >= m => m = 0
    OBVIOUS
  <2>2. Total(f, 0) = 0 /\ Total(g, 0) = 0
    BY TotalZero
  <2> QED BY <2>1, <2>2
<1>3. ASSUME NEW k \in 1 .. n, k - 1 \in G PROVE k \in G
  <2>1. k \in Nat \ {0} /\ k - 1 \in 0 .. n /\ k \in 0 .. n
    OBVIOUS
  <2>2. Total(f, k) = Total(f, k - 1) + f[k] /\ Total(g, k) = Total(g, k - 1) + g[k]
    BY <2>1, TotalStep
  <2>3. CASE k > m
    <3>1. f[k] = g[k] /\ f[k] \in Int /\ k - 1 >= m
      BY <2>3 DEF Integers
    <3>2. Total(f, k - 1) - Total(f, m) = Total(g, k - 1) - Total(g, m)
      BY <1>3, <3>1
    <3> QED BY <1>1, <2>1, <2>2, <3>1, <3>2
  <2>4. CASE k = m
    <3>1. Total(f, k) - Total(f, m) = 0 /\ Total(g, k) - Total(g, m) = 0
      BY <1>1, <2>1, <2>4
    <3> QED BY <2>1, <3>1
  <2>5. CASE k < m
    BY <2>1, <2>5
  <2> QED BY <2>3, <2>4, <2>5
<1> HIDE DEF G
<1>4. n \in 0 .. n /\ n >= m
  OBVIOUS
<1>5. n \in G
  BY <1>2, <1>3, <1>4, UpTo
<1> QED BY <1>4, <1>5 DEF G

\* The same numbers have the same sum.
LEMMA TotalSame ==
  ASSUME NEW n \in Nat, NEW f, NEW g, Integers(f, n), Integers(g, n), \A i \in 1 .. n : f[i] = g[i]
  PROVE  Total(f, n) = Total(g, n)
<1>1. 0 \in 0 .. n /\ 0 + 1 = 1 /\ Total(f, 0) = 0 /\ Total(g, 0) = 0
  BY TotalZero
<1>2. Total(f, n) \in Int /\ Total(g, n) \in Int
  BY TotalInteger
<1>3. Total(f, n) - Total(f, 0) = Total(g, n) - Total(g, 0)
  BY <1>1, TotalAgree
<1> QED BY <1>1, <1>2, <1>3

\* g is f without its k-th number.
Leaves(f, g, n, k) == \A i \in 1 .. n - 1 : g[i] = IF i < k THEN f[i] ELSE f[i + 1]

\* A number that is left out is missing from the sum.
LEMMA TotalWithout ==
  ASSUME NEW n \in Nat, NEW f, NEW g, Integers(f, n), NEW k \in 1 .. n, Leaves(f, g, n, k)
  PROVE  Integers(g, n - 1) /\ Total(g, n - 1) = Total(f, n) - f[k]
<1>1. n - 1 \in Nat /\ f[k] \in Int
  BY DEF Integers
<1>2. Integers(g, n - 1)
  <2> SUFFICES ASSUME NEW i \in 1 .. n - 1 PROVE g[i] \in Int
    BY DEF Integers
  <2>1. i \in 1 .. n /\ i + 1 \in 1 .. n
    OBVIOUS
  <2> QED BY <2>1 DEF Integers, Leaves
<1>3. \A j \in 0 .. n : Total(f, j) \in Int
  BY IntegersUpTo
<1>4. \A j \in 0 .. n - 1 : Total(g, j) \in Int
  BY <1>1, <1>2, IntegersUpTo
<1> DEFINE G == {j \in 0 .. n - 1 : Total(g, j) = IF j < k THEN Total(f, j) ELSE Total(f, j + 1) - f[k]}
<1>5. 0 \in G
  BY <1>1, TotalZero
<1>6. ASSUME NEW j \in 1 .. n - 1, j - 1 \in G PROVE j \in G
  <2>1. /\ j \in Nat \ {0} /\ j \in 0 .. n /\ j - 1 \in 0 .. n - 1 /\ j + 1 \in Nat \ {0} /\ j + 1 \in 0 .. n
        /\ j \in 0 .. n - 1 /\ j + 1 - 1 = j /\ j - 1 + 1 = j
    OBVIOUS
  <2>2. /\ Total(g, j) = Total(g, j - 1) + g[j] /\ Total(f, j) = Total(f, j - 1) + f[j]
        /\ Total(f, j + 1) = Total(f, j) + f[j + 1]
    <3>1. Total(f, j + 1) = Total(f, j + 1 - 1) + f[j + 1]
      BY <2>1, TotalStep
    <3> QED BY <2>1, <3>1, TotalStep
  <2>3. g[j] = IF j < k THEN f[j] ELSE f[j + 1]
    BY DEF Leaves
  <2>4. f[j] \in Int /\ f[j + 1] \in Int
    <3>1. j \in 1 .. n /\ j + 1 \in 1 .. n
      OBVIOUS
    <3> QED BY <3>1 DEF Integers
  <2>5. /\ Total(g, j) \in Int /\ Total(g, j - 1) \in Int /\ Total(f, j) \in Int /\ Total(f, j - 1) \in Int
        /\ Total(f, j + 1) \in Int
    <3>1. j - 1 \in 0 .. n
      OBVIOUS
    <3> QED BY <1>3, <1>4, <2>1, <3>1
  <2>6. Total(g, j - 1) = IF j - 1 < k THEN Total(f, j - 1) ELSE Total(f, j) - f[k]
    BY <1>6, <2>1
  <2>7. CASE j < k
    BY <2>1, <2>2, <2>3, <2>5, <2>6, <2>7
  <2>8. CASE j = k
    BY <1>1, <2>1, <2>2, <2>3, <2>4, <2>5, <2>6, <2>8
  <2>9. CASE j > k
    <3>1. ~(j - 1 < k) /\ ~(j < k)
      BY <2>9
    <3> QED BY <1>1, <2>1, <2>2, <2>3, <2>4, <2>5, <2>6, <3>1
  <2> QED BY <2>7, <2>8, <2>9
<1>7. \A j \in 0 .. n - 1 : j \in G
  <2> HIDE DEF G
  <2> QED BY <1>1, <1>5, <1>6, UpTo
<1>8. n - 1 \in 0 .. n - 1 /\ n - 1 + 1 = n
  OBVIOUS
<1>9. Total(g, n - 1) = IF n - 1 < k THEN Total(f, n - 1) ELSE Total(f, n) - f[k]
  BY <1>7, <1>8
<1>10. CASE n - 1 < k
  <2>1. k = n
    BY <1>10
  <2>2. n \in Nat \ {0} /\ n - 1 \in 0 .. n /\ n \in 0 .. n
    OBVIOUS
  <2>3. Total(f, n) = Total(f, n - 1) + f[n] /\ Total(f, n) \in Int /\ Total(f, n - 1) \in Int
    BY <1>3, <2>2, TotalStep
  <2> QED BY <1>1, <1>2, <1>9, <1>10, <2>1, <2>3
<1> QED BY <1>2, <1>9, <1>10

\* A sequence without one of its elements.
LEMMA Spliced ==
  ASSUME NEW S, NEW s \in Seq(S), NEW i \in Nat, NEW n \in Nat, n = Len(s), i \in 1 .. n
  PROVE  LET t == SubSeq(s, 1, i - 1) \o SubSeq(s, i + 1, Len(s))
         IN /\ t \in Seq(S) /\ Len(t) = n - 1
            /\ \A j \in 1 .. n - 1 : t[j] = IF j < i THEN s[j] ELSE s[j + 1]
<1> DEFINE before == SubSeq(s, 1, i - 1)
           after == SubSeq(s, i + 1, n)
           t == before \o after
<1>1. \A j \in 1 .. n : s[j] \in S
  OBVIOUS
<1>2. /\ before \in Seq(S) /\ Len(before) = i - 1
      /\ \A j \in 1 .. i - 1 : before[j] = s[j]
  <2>1. \A j \in 1 .. i - 1 : s[j] \in S
    BY <1>1
  <2>2. /\ before \in Seq(S) /\ Len(before) = IF 1 <= i - 1 THEN i - 1 - 1 + 1 ELSE 0
        /\ \A j \in 1 .. i - 1 - 1 + 1 : before[j] = s[1 + j - 1]
    BY <2>1, SubSeqProperties
  <2> HIDE DEF before
  <2> QED BY <2>2
<1>3. /\ after \in Seq(S) /\ Len(after) = n - i
      /\ \A j \in 1 .. n - i : after[j] = s[i + j]
  <2>1. \A j \in i + 1 .. n : s[j] \in S
    BY <1>1
  <2>2. /\ after \in Seq(S) /\ Len(after) = IF i + 1 <= n THEN n - (i + 1) + 1 ELSE 0
        /\ \A j \in 1 .. n - (i + 1) + 1 : after[j] = s[(i + 1) + j - 1]
    BY <2>1, SubSeqProperties
  <2> HIDE DEF after
  <2>3. ASSUME NEW j \in 1 .. n - i PROVE after[j] = s[i + j]
    <3>1. j \in 1 .. n - (i + 1) + 1 /\ (i + 1) + j - 1 = i + j
      OBVIOUS
    <3> QED BY <2>2, <3>1
  <2> QED BY <2>2, <2>3
<1> HIDE DEF before, after
<1>4. /\ t \in Seq(S) /\ Len(t) = Len(before) + Len(after)
      /\ \A j \in 1 .. Len(before) + Len(after) :
           t[j] = IF j <= Len(before) THEN before[j] ELSE after[j - Len(before)]
  BY <1>2, <1>3, ConcatProperties
<1>5. Len(before) + Len(after) = n - 1
  BY <1>2, <1>3
<1> HIDE DEF t
<1>6. ASSUME NEW j \in 1 .. n - 1
      PROVE  t[j] = IF j < i THEN s[j] ELSE s[j + 1]
  <2>1. CASE j < i
    BY <1>2, <1>4, <1>5, <2>1
  <2>2. CASE j >= i
    <3>1. j - (i - 1) \in 1 .. n - i /\ i + (j - (i - 1)) = j + 1
      BY <2>2
    <3>2. t[j] = after[j - (i - 1)]
      BY <1>2, <1>4, <1>5, <2>2
    <3>3. after[j - (i - 1)] = s[i + (j - (i - 1))]
      BY <1>3, <3>1
    <3> QED BY <2>2, <3>1, <3>2, <3>3
  <2> QED BY <2>1, <2>2
<1> QED BY <1>4, <1>5, <1>6 DEF t, before, after

-----------------------------------------------------------------------------
(* The bytes that are unread.                                              *)

UnreadOf(part, q) == [i \in DOMAIN q |-> Unread(part, q[i])]

\* What a packet has to be read: nothing, all or the rest.
LEMMA UnreadInteger ==
  ASSUME NEW part \in Parts, NEW p \in Packets
  PROVE  /\ Unread(part, p) \in Int
         /\ ~p.app => Unread(part, p) = 0
         /\ p.app /\ p.id # part.id => Unread(part, p) = p.size
         /\ p.app /\ p.id = part.id => Unread(part, p) = p.size - part.offset
BY DEF Unread, OffsetOf, Parts, Packets

\* A queue seen as the numbers of its unread bytes.
LEMMA UnreadFacts ==
  ASSUME NEW part \in Parts, NEW q \in Seq(Packets)
  PROVE  /\ Len(q) \in Nat /\ DOMAIN q = 1 .. Len(q)
         /\ \A i \in 1 .. Len(q) : q[i] \in Packets /\ UnreadOf(part, q)[i] = Unread(part, q[i])
         /\ Integers(UnreadOf(part, q), Len(q))
         /\ UnreadBytes(part, q) = Total(UnreadOf(part, q), Len(q))
         /\ UnreadBytes(part, q) \in Int
<1>1. Len(q) \in Nat /\ DOMAIN q = 1 .. Len(q) /\ \A i \in 1 .. Len(q) : q[i] \in Packets
  OBVIOUS
<1>2. \A i \in 1 .. Len(q) : UnreadOf(part, q)[i] = Unread(part, q[i])
  BY <1>1 DEF UnreadOf
<1>3. Integers(UnreadOf(part, q), Len(q))
  BY <1>1, <1>2, UnreadInteger DEF Integers
<1>4. UnreadBytes(part, q) = Total(UnreadOf(part, q), Len(q))
  BY DEF UnreadBytes, UnreadOf
<1> QED BY <1>1, <1>2, <1>3, <1>4, TotalInteger

\* An empty queue has nothing to be read.
LEMMA UnreadEmpty ==
  ASSUME NEW part \in Parts
  PROVE  UnreadBytes(part, <<>>) = 0
<1>1. <<>> \in Seq(Packets) /\ Len(<<>>) = 0
  OBVIOUS
<1> QED BY <1>1, UnreadFacts, TotalZero

\* A packet that arrives brings its unread bytes.
LEMMA UnreadAppend ==
  ASSUME NEW part \in Parts, NEW q \in Seq(Packets), NEW p \in Packets
  PROVE  UnreadBytes(part, Append(q, p)) = UnreadBytes(part, q) + Unread(part, p)
<1> DEFINE n == Len(q)
           r == Append(q, p)
           f == UnreadOf(part, q)
           g == UnreadOf(part, r)
<1>1. /\ n \in Nat /\ r \in Seq(Packets) /\ Len(r) = n + 1 /\ r[n + 1] = p
      /\ \A i \in 1 .. n : r[i] = q[i]
  OBVIOUS
<1> HIDE DEF r
<1>2. /\ \A i \in 1 .. n : f[i] = Unread(part, q[i])
      /\ Integers(f, n) /\ UnreadBytes(part, q) = Total(f, n)
  BY UnreadFacts
<1>3. /\ \A i \in 1 .. n + 1 : g[i] = Unread(part, r[i])
      /\ Integers(g, n + 1) /\ UnreadBytes(part, r) = Total(g, n + 1)
  BY <1>1, UnreadFacts
<1> HIDE DEF n, f, g
<1>4. Integers(g, n) /\ \A i \in 1 .. n : f[i] = g[i]
  <2>1. \A i \in 1 .. n : i \in 1 .. n + 1
    BY <1>1
  <2> QED BY <1>1, <1>2, <1>3, <2>1 DEF Integers
<1>5. Total(f, n) = Total(g, n)
  BY <1>1, <1>2, <1>4, TotalSame
<1>6. n + 1 \in Nat \ {0} /\ n + 1 - 1 = n /\ n + 1 \in 1 .. n + 1
  BY <1>1
<1>7. Total(g, n + 1) = Total(g, n) + g[n + 1]
  <2>1. Total(g, n + 1) = Total(g, n + 1 - 1) + g[n + 1]
    BY <1>1, <1>6, TotalStep
  <2> QED BY <1>6, <2>1
<1> QED BY <1>1, <1>2, <1>3, <1>5, <1>6, <1>7 DEF r

\* A packet that is taken out takes its unread bytes along.
LEMMA UnreadLeaves ==
  ASSUME NEW part \in Parts, NEW q \in Seq(Packets), NEW k \in 1 .. Len(q), NEW r \in Seq(Packets),
         Len(r) = Len(q) - 1, Leaves(q, r, Len(q), k)
  PROVE  UnreadBytes(part, r) = UnreadBytes(part, q) - Unread(part, q[k])
<1> DEFINE n == Len(q)
           f == UnreadOf(part, q)
           g == UnreadOf(part, r)
<1>1. /\ n \in Nat /\ \A i \in 1 .. n : f[i] = Unread(part, q[i])
      /\ Integers(f, n) /\ UnreadBytes(part, q) = Total(f, n)
  BY UnreadFacts
<1>2. /\ \A i \in 1 .. n - 1 : g[i] = Unread(part, r[i])
      /\ UnreadBytes(part, r) = Total(g, n - 1)
  BY UnreadFacts
<1>3. Leaves(q, r, n, k) /\ k \in 1 .. n
  OBVIOUS
<1> HIDE DEF n, f, g
<1>4. Leaves(f, g, n, k)
  <2> SUFFICES ASSUME NEW i \in 1 .. n - 1 PROVE g[i] = IF i < k THEN f[i] ELSE f[i + 1]
    BY DEF Leaves
  <2>1. i \in 1 .. n /\ i + 1 \in 1 .. n
    BY <1>1
  <2> QED BY <1>1, <1>2, <1>3, <2>1 DEF Leaves
<1> QED BY <1>1, <1>2, <1>3, <1>4, TotalWithout

\* Captured segments have nothing to be read.
LEMMA UnreadNone ==
  ASSUME NEW part \in Parts, NEW q \in Seq(Packets), \A i \in DOMAIN q : ~q[i].app
  PROVE  UnreadBytes(part, q) = 0
<1> DEFINE n == Len(q)
           f == UnreadOf(part, q)
           G == {k \in 0 .. n : Total(f, k) = 0}
<1>1. /\ n \in Nat /\ \A i \in 1 .. n : f[i] = 0
      /\ UnreadBytes(part, q) = Total(f, n)
  <2>1. \A i \in 1 .. n : q[i] \in Packets /\ ~q[i].app /\ f[i] = Unread(part, q[i])
    BY UnreadFacts
  <2> QED BY <2>1, UnreadFacts, UnreadInteger
<1> HIDE DEF n, f
<1>2. 0 \in G
  BY <1>1, TotalZero
<1>3. ASSUME NEW k \in 1 .. n, k - 1 \in G PROVE k \in G
  <2>1. k \in Nat \ {0} /\ k \in 0 .. n /\ f[k] = 0
    BY <1>1
  <2>2. Total(f, k) = Total(f, k - 1) + f[k] /\ Total(f, k - 1) = 0
    BY <1>3, <2>1, TotalStep
  <2> QED BY <2>1, <2>2
<1> HIDE DEF G
<1>4. n \in 0 .. n
  BY <1>1
<1>5. n \in G
  BY <1>1, <1>2, <1>3, <1>4, UpTo
<1> QED BY <1>1, <1>5 DEF G

-----------------------------------------------------------------------------
(* Queues that lose some of their packets.                                 *)

\* k has the packets of q at some of its first n places, in their order.
Chosen(k, q, n) ==
  \E e \in [1 .. Len(k) -> 1 .. n] :
    /\ \A a, b \in 1 .. Len(k) : a < b => e[a] < e[b]
    /\ \A a \in 1 .. Len(k) : k[a] = q[e[a]]

\* What is left of a queue without its k-th packet.
LEMMA WithoutFacts ==
  ASSUME NEW S, NEW q \in Seq(S), NEW k \in 1 .. Len(q)
  PROVE  /\ Without(q, k) \in Seq(S) /\ Len(Without(q, k)) = Len(q) - 1
         /\ Leaves(q, Without(q, k), Len(q), k)
<1> DEFINE t == SubSeq(q, 1, k - 1) \o SubSeq(q, k + 1, Len(q))
           n == Len(q)
<1>1. k \in Nat /\ n \in Nat
  OBVIOUS
<1>2. /\ t \in Seq(S) /\ Len(t) = n - 1
      /\ \A j \in 1 .. n - 1 : t[j] = IF j < k THEN q[j] ELSE q[j + 1]
  BY <1>1, Spliced
<1>3. Without(q, k) = t
  BY DEF Without
<1> HIDE DEF t
<1> QED BY <1>2, <1>3 DEF Leaves

\* The tail of a queue is what is left without the first packet.
LEMMA TailLeaves ==
  ASSUME NEW S, NEW q \in Seq(S), q # <<>>
  PROVE  /\ 1 \in 1 .. Len(q) /\ Head(q) = q[1]
         /\ Tail(q) \in Seq(S) /\ Len(Tail(q)) = Len(q) - 1
         /\ Leaves(q, Tail(q), Len(q), 1)
<1>1. /\ 1 \in 1 .. Len(q) /\ Head(q) = q[1]
      /\ Tail(q) \in Seq(S) /\ Len(Tail(q)) = Len(q) - 1
      /\ \A i \in 1 .. Len(q) - 1 : Tail(q)[i] = q[i + 1]
  OBVIOUS
<1> QED BY <1>1 DEF Leaves

\* What is left is a choice of the packets in their order.
LEMMA LeavesChosen ==
  ASSUME NEW q \in Seq(Packets), NEW k \in 1 .. Len(q), NEW r \in Seq(Packets),
         Len(r) = Len(q) - 1, Leaves(q, r, Len(q), k)
  PROVE  Chosen(r, q, Len(q))
<1> DEFINE n == Len(q)
           e == [a \in 1 .. n - 1 |-> IF a < k THEN a ELSE a + 1]
<1>1. n \in Nat /\ k \in 1 .. n
  OBVIOUS
<1>2. e \in [1 .. n - 1 -> 1 .. n] /\ \A a, b \in 1 .. n - 1 : a < b => e[a] < e[b]
  BY <1>1
<1>3. \A a \in 1 .. n - 1 : r[a] = q[e[a]]
  BY DEF Leaves
<1> HIDE DEF e
<1> QED BY <1>2, <1>3 DEF Chosen

\* What holds of the packets in their order holds of those that are left.
LEMMA ChosenKeeps ==
  ASSUME NEW q \in Seq(Packets), NEW r \in Seq(Packets), Chosen(r, q, Len(q)),
         NEW s, NEW m
  PROVE  /\ InOrder(q, s, m) => InOrder(r, s, m)
         /\ CapturedIn(q) = {} => CapturedIn(r) = {}
         /\ \A part : ReadInOrder(q, part) => ReadInOrder(r, part)
<1>1. PICK e \in [1 .. Len(r) -> 1 .. Len(q)] :
        /\ \A a, b \in 1 .. Len(r) : a < b => e[a] < e[b]
        /\ \A a \in 1 .. Len(r) : r[a] = q[e[a]]
  BY DEF Chosen
<1>2. /\ DOMAIN r = 1 .. Len(r) /\ DOMAIN q = 1 .. Len(q)
      /\ \A a \in DOMAIN r : e[a] \in DOMAIN q /\ r[a] = q[e[a]]
      /\ \A a, b \in DOMAIN r : a < b => e[a] < e[b]
  BY <1>1
<1>3. \A a \in CapturedIn(r) : a \in DOMAIN r /\ e[a] \in CapturedIn(q)
  BY <1>2 DEF CapturedIn
<1>4. InOrder(q, s, m) => InOrder(r, s, m)
  BY <1>2, <1>3 DEF InOrder
<1>5. CapturedIn(q) = {} => CapturedIn(r) = {}
  BY <1>3
<1>6. \A part : ReadInOrder(q, part) => ReadInOrder(r, part)
  BY <1>2 DEF ReadInOrder
<1> QED BY <1>4, <1>5, <1>6

\* The first captured packet of a queue.
LEMMA FirstFacts ==
  ASSUME NEW q \in Seq(Packets), CapturedIn(q) # {}
  PROVE  LET k == FirstCaptured(q)
         IN /\ k \in CapturedIn(q) /\ k \in 1 .. Len(q) /\ k \in DOMAIN q /\ q[k] \in Packets /\ ~q[k].app
            /\ \A j \in CapturedIn(q) : k <= j
<1>1. CapturedIn(q) \in SUBSET Nat /\ DOMAIN q = 1 .. Len(q)
  BY DEF CapturedIn
<1>2. \E k \in CapturedIn(q) : \A j \in CapturedIn(q) : k <= j
  BY <1>1, LeastNatural
<1>3. FirstCaptured(q) \in CapturedIn(q) /\ \A j \in CapturedIn(q) : FirstCaptured(q) <= j
  BY <1>2 DEF FirstCaptured
<1> QED BY <1>1, <1>3 DEF CapturedIn

-----------------------------------------------------------------------------
(* Reading the stream.                                                     *)

Acc(left, kept, part) == [left |-> left, kept |-> kept, part |-> part]

\* f[i] is what a read of count bytes has left and kept after the first i packets.
Takes(f, q, n, count, part) ==
  /\ f = [i \in 0 .. n |-> f[i]] /\ f[0] = Acc(count, <<>>, part)
  /\ \A i \in 1 .. n : f[i] = TakeFrom(f[i - 1], q[i])

\* The recursion of a read has a solution.
LEMMA TakesExist ==
  ASSUME NEW n \in Nat, NEW q, NEW count, NEW part
  PROVE  \E f : Takes(f, q, n, count, part)
<1> DEFINE G == {k \in 0 .. n : \E f : Takes(f, q, k, count, part)}
<1>1. 0 \in G
  <2> DEFINE f == [i \in 0 .. 0 |-> Acc(count, <<>>, part)]
  <2>1. f = [i \in 0 .. 0 |-> f[i]] /\ f[0] = Acc(count, <<>>, part)
    OBVIOUS
  <2> HIDE DEF f
  <2>2. Takes(f, q, 0, count, part)
    BY <2>1 DEF Takes
  <2> QED BY <2>2
<1>2. ASSUME NEW k \in 1 .. n, k - 1 \in G
      PROVE  k \in G
  <2>1. PICK f : Takes(f, q, k - 1, count, part)
    BY <1>2
  <2> DEFINE last == TakeFrom(f[k - 1], q[k])
             next == [i \in 0 .. k |-> IF i < k THEN f[i] ELSE last]
  <2>2. \A i \in 0 .. k - 1 : next[i] = f[i]
    OBVIOUS
  <2>3. next[k] = last /\ next = [i \in 0 .. k |-> next[i]]
    <3> HIDE DEF last
    <3> QED OBVIOUS
  <2> HIDE DEF next
  <2>4. ASSUME NEW i \in 1 .. k PROVE next[i] = TakeFrom(next[i - 1], q[i])
    <3>1. i - 1 \in 0 .. k - 1
      OBVIOUS
    <3>2. CASE i = k
      BY <2>2, <2>3, <3>1, <3>2
    <3>3. CASE i < k
      <4>1. i \in 1 .. k - 1 /\ i \in 0 .. k - 1
        BY <3>3
      <4>2. f[i] = TakeFrom(f[i - 1], q[i])
        BY <2>1, <4>1 DEF Takes
      <4> QED BY <2>2, <3>1, <4>1, <4>2
    <3> QED BY <3>2, <3>3
  <2>5. next[0] = Acc(count, <<>>, part)
    BY <2>1, <2>2 DEF Takes
  <2>6. Takes(next, q, k, count, part)
    BY <2>3, <2>4, <2>5 DEF Takes
  <2> QED BY <2>6
<1> HIDE DEF G
<1>3. n \in 0 .. n
  OBVIOUS
<1>4. n \in G
  BY <1>1, <1>2, <1>3, UpTo
<1> QED BY <1>4 DEF G

\* What the last packet leaves is what the read leaves behind.
Rest(s, rest, count) == [s EXCEPT !.receivedPackets = rest.kept, !.partialRead = rest.part,
                                  !.msgArrived = rest.kept # <<>>, !.consumed = @ + count]

\* What it is for the whole queue is what ConsumeAppBytes leaves.
LEMMA ConsumeTakes ==
  ASSUME NEW s, NEW count, Len(s.receivedPackets) \in Nat
  PROVE  LET q == s.receivedPackets
         IN \E f : Takes(f, q, Len(q), count, s.partialRead) /\ ConsumeAppBytes(s, count) = Rest(s, f[Len(q)], count)
<1> DEFINE q == s.receivedPackets
           n == Len(q)
           part == s.partialRead
           First == [left |-> count, kept |-> <<>>, part |-> part]
           Read(f) == f = [i \in 0 .. n |-> IF i = 0 THEN First ELSE TakeFrom(f[i - 1], q[i])]
<1>1. PICK g : Takes(g, q, n, count, part)
  BY TakesExist
<1>2. Read(g)
  <2>1. ASSUME NEW i \in 0 .. n
        PROVE  g[i] = IF i = 0 THEN First ELSE TakeFrom(g[i - 1], q[i])
    <3>1. First = Acc(count, <<>>, part)
      BY DEF Acc
    <3> HIDE DEF First, n, q, part
    <3>2. CASE i = 0
      BY <1>1, <3>1, <3>2 DEF Takes
    <3>3. CASE i # 0
      <4>1. i \in 1 .. n
        BY <3>3
      <4> QED BY <1>1, <3>3, <4>1 DEF Takes
    <3> QED BY <3>2, <3>3
  <2>2. g = [i \in 0 .. n |-> g[i]]
    BY <1>1 DEF Takes
  <2> HIDE DEF First
  <2> QED BY <2>1, <2>2
<1>3. PICK f : f = (CHOOSE h : Read(h)) /\ Read(f)
  BY <1>2
<1>4. ConsumeAppBytes(s, count) = Rest(s, f[n], count)
  BY <1>3 DEF ConsumeAppBytes, Rest
<1>5. Takes(f, q, n, count, part)
  <2> DEFINE h == [i \in 0 .. n |-> IF i = 0 THEN First ELSE TakeFrom(f[i - 1], q[i])]
  <2>1. /\ h = [i \in 0 .. n |-> h[i]] /\ h[0] = First
        /\ \A i \in 1 .. n : h[i] = TakeFrom(f[i - 1], q[i])
    <3> HIDE DEF First
    <3> QED OBVIOUS
  <2>2. f = h
    BY <1>3
  <2>3. First = Acc(count, <<>>, part)
    BY DEF Acc
  <2> HIDE DEF h, First
  <2> QED BY <2>1, <2>2, <2>3 DEF Takes
<1> QED BY <1>4, <1>5

IsAcc(acc) == /\ acc = Acc(acc.left, acc.kept, acc.part)
              /\ acc.left \in Int /\ acc.kept \in Seq(Packets) /\ acc.part \in Parts

\* The fields of the state of a read, and their types.
LEMMA AccFields ==
  ASSUME NEW left, NEW kept, NEW part
  PROVE  LET acc == Acc(left, kept, part)
         IN /\ acc.left = left /\ acc.kept = kept /\ acc.part = part
            /\ left \in Int /\ kept \in Seq(Packets) /\ part \in Parts => IsAcc(acc)
BY DEF Acc, IsAcc

\* What one packet does to a read.
LEMMA TakeFromFacts ==
  ASSUME NEW left \in Int, NEW kept \in Seq(Packets), NEW part \in Parts, NEW p \in Packets
  PROVE  LET t == TakeFrom(Acc(left, kept, part), p)
             unread == Unread(part, p)
         IN /\ IsAcc(t) /\ unread \in Int
            /\ \/ (~p.app \/ left = 0) /\ t = Acc(left, Append(kept, p), part)
               \/ /\ p.app /\ left # 0 /\ unread <= left /\ p.id = part.id
                  /\ t = Acc(left - unread, kept, NoPacket)
               \/ /\ p.app /\ left # 0 /\ unread <= left /\ p.id # part.id
                  /\ t = Acc(left - unread, kept, part)
               \/ /\ p.app /\ left # 0 /\ unread > left
                  /\ t = Acc(0, Append(kept, p), [id |-> p.id, offset |-> p.size - unread + left])
<1> DEFINE unread == Unread(part, p)
           acc == Acc(left, kept, part)
           t == TakeFrom(acc, p)
           some == [id |-> p.id, offset |-> p.size - unread + left]
<1>1. acc.left = left /\ acc.kept = kept /\ acc.part = part
  BY AccFields
<1>2. unread \in Int /\ Append(kept, p) \in Seq(Packets) /\ NoPacket \in Parts /\ left - unread \in Int
  BY UnreadInteger DEF NoPacket, Parts
<1>3. some \in Parts
  BY <1>2 DEF Parts, Packets
<1>4. CASE ~p.app \/ left = 0
  <2>1. t = Acc(left, Append(kept, p), part)
    BY <1>1, <1>4 DEF TakeFrom, Acc
  <2> HIDE DEF t
  <2>2. IsAcc(t)
    BY <1>2, <2>1, AccFields
  <2> QED BY <1>2, <1>4, <2>1, <2>2 DEF t
<1>5. CASE p.app /\ left # 0 /\ unread <= left /\ p.id = part.id
  <2>1. t = Acc(left - unread, kept, NoPacket)
    BY <1>1, <1>5 DEF TakeFrom, Acc
  <2> HIDE DEF t, unread
  <2>2. IsAcc(t)
    BY <1>2, <2>1, AccFields
  <2> QED BY <1>2, <1>5, <2>1, <2>2 DEF t, unread
<1>6. CASE p.app /\ left # 0 /\ unread <= left /\ p.id # part.id
  <2>1. t = Acc(left - unread, kept, part)
    BY <1>1, <1>6 DEF TakeFrom, Acc
  <2> HIDE DEF t, unread
  <2>2. IsAcc(t)
    BY <1>2, <2>1, AccFields
  <2> QED BY <1>2, <1>6, <2>1, <2>2 DEF t, unread
<1>7. CASE p.app /\ left # 0 /\ unread > left
  <2>1. t = Acc(0, Append(kept, p), some)
    BY <1>1, <1>2, <1>7 DEF TakeFrom, Acc
  <2> HIDE DEF t, some
  <2>2. 0 \in Int
    OBVIOUS
  <2>3. IsAcc(t)
    BY <1>2, <1>3, <2>1, <2>2, AccFields
  <2> HIDE DEF unread
  <2> QED BY <1>2, <1>7, <2>1, <2>3 DEF t, unread, some
<1>8. unread <= left \/ unread > left
  BY <1>2
<1> QED BY <1>4, <1>5, <1>6, <1>7, <1>8

Took(acc, p, t) ==
  LET unread == Unread(acc.part, p)
  IN \/ (~p.app \/ acc.left = 0) /\ t.left = acc.left /\ t.kept = Append(acc.kept, p) /\ t.part = acc.part
     \/ /\ p.app /\ acc.left # 0 /\ unread <= acc.left /\ t.left = acc.left - unread /\ t.kept = acc.kept
        /\ \/ p.id = acc.part.id /\ t.part = NoPacket
           \/ p.id # acc.part.id /\ t.part = acc.part
     \/ /\ p.app /\ acc.left # 0 /\ unread > acc.left /\ t.left = 0 /\ t.kept = Append(acc.kept, p)
        /\ t.part = [id |-> p.id, offset |-> p.size - unread + acc.left]

\* The same of what one packet leaves.
LEMMA TakeFromFields ==
  ASSUME NEW acc, IsAcc(acc), NEW p \in Packets
  PROVE  IsAcc(TakeFrom(acc, p)) /\ Took(acc, p, TakeFrom(acc, p))
<1> DEFINE left == acc.left
           kept == acc.kept
           part == acc.part
           unread == Unread(part, p)
           some == [id |-> p.id, offset |-> p.size - unread + left]
<1>1. left \in Int /\ kept \in Seq(Packets) /\ part \in Parts /\ acc = Acc(left, kept, part)
  BY DEF IsAcc
<1> DEFINE t == TakeFrom(acc, p)
<1> HIDE DEF left, kept, part, unread, t, some
<1>2. /\ IsAcc(t)
      /\ \/ (~p.app \/ left = 0) /\ t = Acc(left, Append(kept, p), part)
         \/ /\ p.app /\ left # 0 /\ unread <= left /\ p.id = part.id
            /\ t = Acc(left - unread, kept, NoPacket)
         \/ /\ p.app /\ left # 0 /\ unread <= left /\ p.id # part.id
            /\ t = Acc(left - unread, kept, part)
         \/ /\ p.app /\ left # 0 /\ unread > left
            /\ t = Acc(0, Append(kept, p), some)
  <2>1. t = TakeFrom(Acc(left, kept, part), p)
    BY <1>1 DEF t
  <2> QED BY <1>1, <2>1, TakeFromFacts DEF unread, some
<1>3. \A a, b, c : t = Acc(a, b, c) => t.left = a /\ t.kept = b /\ t.part = c
  BY AccFields
<1>4. \/ (~p.app \/ left = 0) /\ t.left = left /\ t.kept = Append(kept, p) /\ t.part = part
      \/ /\ p.app /\ left # 0 /\ unread <= left /\ p.id = part.id
         /\ t.left = left - unread /\ t.kept = kept /\ t.part = NoPacket
      \/ /\ p.app /\ left # 0 /\ unread <= left /\ p.id # part.id
         /\ t.left = left - unread /\ t.kept = kept /\ t.part = part
      \/ /\ p.app /\ left # 0 /\ unread > left
         /\ t.left = 0 /\ t.kept = Append(kept, p) /\ t.part = some
  BY <1>2, <1>3
<1>5. Took(acc, p, t)
  BY <1>4, Zenon DEF Took, left, kept, part, unread, some
<1> QED BY <1>2, <1>5 DEF t

\* The next packet is kept, or it is not.
LEMMA ChosenStep ==
  ASSUME NEW q \in Seq(Packets), NEW i \in 1 .. Len(q), NEW k \in Seq(Packets), Chosen(k, q, i - 1)
  PROVE  Chosen(k, q, i) /\ Chosen(Append(k, q[i]), q, i)
<1> DEFINE n == Len(k)
           r == Append(k, q[i])
<1>1. PICK e \in [1 .. n -> 1 .. i - 1] :
        /\ \A a, b \in 1 .. n : a < b => e[a] < e[b]
        /\ \A a \in 1 .. n : k[a] = q[e[a]]
  BY DEF Chosen
<1>2. n \in Nat /\ i \in Nat /\ \A a \in 1 .. n : e[a] \in 1 .. i /\ e[a] \in Nat /\ e[a] < i
  <2>1. n \in Nat /\ i \in Nat
    OBVIOUS
  <2> HIDE DEF n
  <2> QED BY <1>1, <2>1
<1>3. Chosen(k, q, i)
  <2>1. e \in [1 .. n -> 1 .. i]
    BY <1>1, <1>2
  <2> QED BY <1>1, <2>1 DEF Chosen
<1>4. Len(r) = n + 1 /\ r[n + 1] = q[i] /\ \A a \in 1 .. n : r[a] = k[a]
  OBVIOUS
<1> HIDE DEF n, r
<1> DEFINE d == [a \in 1 .. n + 1 |-> IF a <= n THEN e[a] ELSE i]
<1>5. /\ \A a \in 1 .. n : d[a] = e[a]
      /\ d[n + 1] = i
      /\ \A a \in 1 .. n + 1 : a \in 1 .. n \/ a = n + 1
  BY <1>2
<1>6. d \in [1 .. n + 1 -> 1 .. i]
  BY <1>2
<1> HIDE DEF d
<1>7. \A a, b \in 1 .. n + 1 : a < b => d[a] < d[b]
  <2> SUFFICES ASSUME NEW a \in 1 .. n + 1, NEW b \in 1 .. n + 1, a < b PROVE d[a] < d[b]
    OBVIOUS
  <2>1. a \in 1 .. n /\ d[a] = e[a]
    BY <1>2, <1>5
  <2>2. CASE b = n + 1
    BY <1>2, <1>5, <2>1, <2>2
  <2>3. CASE b \in 1 .. n
    BY <1>1, <1>5, <2>1, <2>3
  <2> QED BY <1>5, <2>2, <2>3
<1>8. \A a \in 1 .. n + 1 : r[a] = q[d[a]]
  BY <1>1, <1>4, <1>5
<1>9. Chosen(r, q, i)
  BY <1>4, <1>6, <1>7, <1>8 DEF Chosen
<1> QED BY <1>3, <1>9 DEF r

\* What is kept at any time is typed and in order.
LEMMA TakesKeep ==
  ASSUME NEW q \in Seq(Packets), NEW count \in Int, NEW part \in Parts,
         NEW f, Takes(f, q, Len(q), count, part)
  PROVE  \A i \in 0 .. Len(q) : IsAcc(f[i]) /\ Chosen(f[i].kept, q, i)
<1> DEFINE n == Len(q)
           G == {i \in 0 .. n : IsAcc(f[i]) /\ Chosen(f[i].kept, q, i)}
<1>1. n \in Nat /\ \A i \in 1 .. n : q[i] \in Packets
  OBVIOUS
<1>2. 0 \in G
  <2>1. f[0] = Acc(count, <<>>, part) /\ <<>> \in Seq(Packets)
    BY DEF Takes
  <2>2. IsAcc(Acc(count, <<>>, part)) /\ Acc(count, <<>>, part).kept = <<>>
    <3> DEFINE none == <<>>
    <3>1. none \in Seq(Packets)
      OBVIOUS
    <3> HIDE DEF none
    <3>2. IsAcc(Acc(count, none, part)) /\ Acc(count, none, part).kept = none
      BY <3>1, AccFields
    <3> QED BY <3>2 DEF none
  <2>3. Chosen(<<>>, q, 0)
    <3>1. 1 .. Len(<<>>) = {} /\ [a \in {} |-> 0] \in [{} -> 1 .. 0]
      OBVIOUS
    <3> QED BY <3>1 DEF Chosen
  <2>4. 0 \in 0 .. n
    BY <1>1
  <2> QED BY <2>1, <2>2, <2>3, <2>4
<1>3. ASSUME NEW i \in 1 .. n, i - 1 \in G PROVE i \in G
  <2> DEFINE acc == f[i - 1]
  <2>1. IsAcc(acc) /\ Chosen(acc.kept, q, i - 1)
    BY <1>3
  <2>2. f[i] = TakeFrom(acc, q[i]) /\ i \in 0 .. n
    <3>1. \A j \in 1 .. n : f[j] = TakeFrom(f[j - 1], q[j])
      BY DEF Takes
    <3> QED BY <1>1, <3>1
  <2>3. /\ acc.left \in Int /\ acc.kept \in Seq(Packets) /\ acc.part \in Parts
        /\ acc = Acc(acc.left, acc.kept, acc.part)
    BY <2>1 DEF IsAcc
  <2>4. Chosen(acc.kept, q, i) /\ Chosen(Append(acc.kept, q[i]), q, i)
    BY <2>1, <2>3, ChosenStep
  <2> HIDE DEF acc
  <2>5. IsAcc(f[i]) /\ Took(acc, q[i], f[i])
    BY <1>1, <2>1, <2>2, TakeFromFields
  <2>6. f[i].kept = acc.kept \/ f[i].kept = Append(acc.kept, q[i])
    BY <2>5 DEF Took
  <2> QED BY <2>2, <2>4, <2>5, <2>6
<1> HIDE DEF G
<1>4. \A i \in 0 .. n : i \in G
  BY <1>1, <1>2, <1>3, UpTo
<1> QED BY <1>4 DEF G

Distinct(q) == /\ \A i, j \in DOMAIN q : i < j => q[i].id < q[j].id
               /\ \A i \in DOMAIN q : q[i].id > 0
NoApp(q) == \A i \in DOMAIN q : ~q[i].app

\* How far a read of count bytes has come after the first i packets of q.
Reads(acc, i, q, part, count) ==
  /\ acc.left \in Nat
  /\ acc.left # 0 => NoApp(acc.kept)
  /\ \A j \in i + 1 .. Len(q) : Unread(acc.part, q[j]) = Unread(part, q[j])
  /\ \A j \in i + 1 .. Len(q), k \in 1 .. Len(q) : k < j /\ q[k].app /\ q[j].app => q[j].id # acc.part.id
  /\ count - acc.left + UnreadBytes(acc.part, acc.kept) = Total(UnreadOf(part, q), i)
  /\ ReadInOrder(acc.kept, acc.part)

\* A queue with no data has nothing to be read.
LEMMA UnreadNoApp ==
  ASSUME NEW q \in Seq(Packets), NoApp(q), NEW p \in Packets, NEW part \in Parts
  PROVE  /\ UnreadBytes(part, q) = 0 /\ UnreadBytes(part, Append(q, p)) = Unread(part, p)
         /\ ReadInOrder(q, part) /\ ReadInOrder(Append(q, p), part)
         /\ ~p.app => NoApp(Append(q, p))
<1>1. UnreadBytes(part, q) = 0
  BY UnreadNone DEF NoApp
<1>2. UnreadBytes(part, Append(q, p)) = Unread(part, p)
  BY <1>1, UnreadAppend, UnreadInteger
<1>3. ReadInOrder(q, part)
  BY DEF NoApp, ReadInOrder
<1> DEFINE n == Len(q)
           r == Append(q, p)
<1>4. n \in Nat /\ DOMAIN q = 1 .. n /\ DOMAIN r = 1 .. n + 1 /\ r[n + 1] = p /\ \A i \in 1 .. n : r[i] = q[i]
  OBVIOUS
<1> HIDE DEF n, r
<1>5. ReadInOrder(r, part)
  <2> SUFFICES ASSUME NEW i \in 1 .. n + 1, NEW j \in 1 .. n + 1, r[i].app, r[j].app, i < j PROVE FALSE
    BY <1>4 DEF ReadInOrder
  <2>1. i \in 1 .. n
    BY <1>4
  <2> QED BY <1>4, <2>1 DEF NoApp
<1>6. ~p.app => NoApp(r)
  <2> SUFFICES ASSUME ~p.app, NEW i \in 1 .. n + 1 PROVE ~r[i].app
    BY <1>4 DEF NoApp
  <2>1. i \in 1 .. n \/ i = n + 1
    BY <1>4
  <2> QED BY <1>4, <2>1 DEF NoApp
<1> QED BY <1>1, <1>2, <1>3, <1>5, <1>6 DEF r

\* A read starts with all that it asks for.
LEMMA ReadsStart ==
  ASSUME NEW q \in Seq(Packets), NEW count \in Nat, NEW part \in Parts, ReadInOrder(q, part),
         NEW acc, acc = Acc(count, <<>>, part)
  PROVE  Reads(acc, 0, q, part, count)
<1>1. acc.left = count /\ acc.kept = <<>> /\ acc.part = part
  BY DEF Acc
<1>2. UnreadBytes(part, <<>>) = 0 /\ Total(UnreadOf(part, q), 0) = 0
  BY UnreadEmpty, TotalZero
<1>3. NoApp(<<>>) /\ ReadInOrder(<<>>, part)
  BY DEF NoApp, ReadInOrder
<1>4. \A j \in 0 + 1 .. Len(q), k \in 1 .. Len(q) : k < j /\ q[k].app /\ q[j].app => q[j].id # part.id
  BY DEF ReadInOrder
<1> QED BY <1>1, <1>2, <1>3, <1>4 DEF Reads

\* One packet of the queue moves a read on: the four cases of TakeFrom.
LEMMA ReadsStep ==
  ASSUME NEW q \in Seq(Packets), Distinct(q), NEW count \in Nat, NEW part \in Parts, NEW i \in 1 .. Len(q),
         NEW acc, IsAcc(acc), Chosen(acc.kept, q, i - 1), Reads(acc, i - 1, q, part, count),
         NEW t, IsAcc(t), Took(acc, q[i], t)
  PROVE  Reads(t, i, q, part, count)
<1> DEFINE n == Len(q)
           p == q[i]
           left == acc.left
           kept == acc.kept
           old == acc.part
           unread == Unread(old, p)
           U == UnreadOf(part, q)
<1>1. n \in Nat /\ i \in Nat /\ i \in 1 .. n /\ \A j \in 1 .. n : q[j] \in Packets
  OBVIOUS
<1>2. /\ left \in Nat /\ kept \in Seq(Packets) /\ old \in Parts
      /\ t.left \in Int /\ t.kept \in Seq(Packets) /\ t.part \in Parts
  BY DEF IsAcc, Reads
<1>3. /\ left # 0 => NoApp(kept)
      /\ \A j \in i .. n : Unread(old, q[j]) = Unread(part, q[j])
      /\ \A j \in i .. n, k \in 1 .. n : k < j /\ q[k].app /\ q[j].app => q[j].id # old.id
      /\ count - left + UnreadBytes(old, kept) = Total(U, i - 1)
      /\ ReadInOrder(kept, old)
  <2>1. i - 1 + 1 = i
    BY <1>1
  <2> QED BY <2>1 DEF Reads
<1>4. p \in Packets /\ unread \in Int /\ UnreadBytes(old, kept) \in Int
  BY <1>1, <1>2, UnreadInteger, UnreadFacts
<1>5. Total(U, i) = Total(U, i - 1) + unread /\ Total(U, i - 1) \in Int
  <2>1. i \in i .. n /\ i \in Nat \ {0} /\ i - 1 \in 0 .. n
    BY <1>1
  <2>2. U[i] = Unread(part, p) /\ Integers(U, n)
    BY <1>1, UnreadFacts
  <2>3. Total(U, i - 1) \in Int
    BY <1>1, <2>1, <2>2, IntegersUpTo
  <2>4. Total(U, i) = Total(U, i - 1) + U[i]
    BY <2>1, TotalStep
  <2>5. unread = Unread(part, p)
    BY <1>3, <2>1
  <2> QED BY <2>2, <2>3, <2>4, <2>5
<1>6. \A j \in i + 1 .. n : j \in i .. n /\ j \in 1 .. n /\ i < j
  BY <1>1
<1>7. \A j \in i + 1 .. n : q[j].id # p.id /\ q[j].id # 0 /\ q[j] \in Packets
  <2>1. DOMAIN q = 1 .. n
    OBVIOUS
  <2>2. \A j \in i + 1 .. n : p.id < q[j].id /\ q[j].id > 0 /\ p.id \in Nat /\ q[j].id \in Nat
    BY <1>1, <1>6, <2>1 DEF Distinct, Packets
  <2> QED BY <1>1, <1>6, <2>2
<1> HIDE DEF n, p, left, kept, old, unread, U
<1>8. CASE ~p.app
  <2>1. t.left = left /\ t.kept = Append(kept, p) /\ t.part = old
    BY <1>8 DEF Took, p, left, kept, old
  <2>2. unread = 0 /\ UnreadBytes(old, Append(kept, p)) = UnreadBytes(old, kept)
    BY <1>2, <1>4, <1>8, UnreadAppend, UnreadInteger DEF unread
  <2>3. left # 0 => NoApp(Append(kept, p))
    BY <1>2, <1>3, <1>4, <1>8, UnreadNoApp
  <2>4. ReadInOrder(Append(kept, p), old)
    <3> DEFINE m == Len(kept)
               r == Append(kept, p)
    <3>1. m \in Nat /\ DOMAIN kept = 1 .. m /\ DOMAIN r = 1 .. m + 1 /\ r[m + 1] = p /\ \A a \in 1 .. m : r[a] = kept[a]
      BY <1>2
    <3> HIDE DEF m, r
    <3> SUFFICES ASSUME NEW a \in 1 .. m + 1, NEW b \in 1 .. m + 1, r[a].app, r[b].app, a < b PROVE r[b].id # old.id
      BY <3>1 DEF ReadInOrder, r
    <3>2. a \in 1 .. m /\ b \in 1 .. m
      BY <1>8, <3>1
    <3> QED BY <1>3, <3>1, <3>2 DEF ReadInOrder
  <2>5. /\ \A j \in i + 1 .. n : Unread(old, q[j]) = Unread(part, q[j])
        /\ \A j \in i + 1 .. n, k \in 1 .. n : k < j /\ q[k].app /\ q[j].app => q[j].id # old.id
    BY <1>3, <1>6
  <2>6. count - t.left + UnreadBytes(t.part, t.kept) = Total(U, i)
    BY <1>3, <1>4, <1>5, <2>1, <2>2
  <2> QED BY <1>2, <2>1, <2>3, <2>4, <2>5, <2>6 DEF Reads, n, U
<1>9. CASE p.app /\ left = 0
  <2>1. t.left = left /\ t.kept = Append(kept, p) /\ t.part = old
    BY <1>9 DEF Took, p, left, kept, old
  <2>2. UnreadBytes(old, Append(kept, p)) = UnreadBytes(old, kept) + unread
    BY <1>2, <1>4, UnreadAppend DEF unread
  <2>4. ReadInOrder(Append(kept, p), old)
    <3> DEFINE m == Len(kept)
               r == Append(kept, p)
    <3>1. m \in Nat /\ DOMAIN kept = 1 .. m /\ DOMAIN r = 1 .. m + 1 /\ r[m + 1] = p /\ \A a \in 1 .. m : r[a] = kept[a]
      BY <1>2
    <3>0. PICK e \in [1 .. m -> 1 .. i - 1] : \A a \in 1 .. m : kept[a] = q[e[a]]
      BY DEF Chosen, kept
    <3> HIDE DEF m, r
    <3> SUFFICES ASSUME NEW a \in 1 .. m + 1, NEW b \in 1 .. m + 1, r[a].app, r[b].app, a < b PROVE r[b].id # old.id
      BY <3>1 DEF ReadInOrder, r
    <3>2. a \in 1 .. m
      BY <3>1
    <3>3. CASE b \in 1 .. m
      BY <1>3, <3>1, <3>2, <3>3 DEF ReadInOrder
    <3>4. CASE b = m + 1
      <4>1. q[e[a]].app /\ e[a] \in 1 .. n /\ e[a] < i
        <5>1. e[a] \in 1 .. i - 1 /\ kept[a] = q[e[a]] /\ r[a] = kept[a]
          BY <3>0, <3>1, <3>2
        <5> QED BY <1>1, <5>1
      <4>2. i \in i .. n /\ q[i].app /\ r[b] = q[i]
        BY <1>1, <1>9, <3>1, <3>4 DEF p
      <4> QED BY <1>3, <4>1, <4>2
    <3> QED BY <3>1, <3>3, <3>4
  <2>5. /\ \A j \in i + 1 .. n : Unread(old, q[j]) = Unread(part, q[j])
        /\ \A j \in i + 1 .. n, k \in 1 .. n : k < j /\ q[k].app /\ q[j].app => q[j].id # old.id
    BY <1>3, <1>6
  <2>6. count - t.left + UnreadBytes(t.part, t.kept) = Total(U, i)
    BY <1>2, <1>3, <1>4, <1>5, <2>1, <2>2
  <2> QED BY <1>2, <1>9, <2>1, <2>4, <2>5, <2>6 DEF Reads, n, U
<1>10. CASE p.app /\ left # 0 /\ unread <= left
  <2>1. t.left = left - unread /\ t.kept = kept /\ (t.part = old \/ (t.part = NoPacket /\ p.id = old.id))
    <3>1. /\ ~(unread > left) /\ p.app /\ left # 0
          /\ Took(acc, p, t)
      BY <1>2, <1>4, <1>10 DEF p
    <3>2. t.left = left - unread /\ t.kept = kept /\ ((p.id = old.id /\ t.part = NoPacket) \/ (p.id # old.id /\ t.part = old))
      BY <3>1, Zenon DEF Took, left, kept, old, unread
    <3> QED BY <3>2
  <2>2. NoApp(kept) /\ UnreadBytes(old, kept) = 0 /\ UnreadBytes(t.part, kept) = 0 /\ ReadInOrder(kept, t.part)
    BY <1>2, <1>3, <1>4, <1>10, UnreadNoApp
  <2>3. NoPacket.id = 0
    BY DEF NoPacket
  <2>4. ASSUME NEW j \in i + 1 .. n PROVE Unread(t.part, q[j]) = Unread(part, q[j])
    <3>1. Unread(old, q[j]) = Unread(part, q[j])
      BY <1>3, <1>6
    <3>2. CASE t.part = NoPacket /\ p.id = old.id
      BY <1>2, <1>7, <2>3, <3>1, <3>2, UnreadInteger
    <3> QED BY <2>1, <3>1, <3>2
  <2>5. \A j \in i + 1 .. n, k \in 1 .. n : k < j /\ q[k].app /\ q[j].app => q[j].id # t.part.id
    BY <1>3, <1>6, <1>7, <2>1, <2>3
  <2>6. count - t.left + UnreadBytes(t.part, t.kept) = Total(U, i)
    BY <1>2, <1>3, <1>4, <1>5, <2>1, <2>2
  <2>7. t.left \in Nat
    BY <1>2, <1>4, <1>10, <2>1
  <2> QED BY <2>1, <2>2, <2>4, <2>5, <2>6, <2>7 DEF Reads, n, U
<1>11. CASE p.app /\ left # 0 /\ unread > left
  <2>1. /\ t.left = 0 /\ t.kept = Append(kept, p)
        /\ t.part = [id |-> p.id, offset |-> p.size - unread + left]
    BY <1>2, <1>4, <1>11 DEF Took, p, left, kept, old, unread
  <2>2. t.part.id = p.id /\ t.part.offset = p.size - unread + left
    BY <2>1
  <2>3. /\ UnreadBytes(old, kept) = 0 /\ UnreadBytes(t.part, Append(kept, p)) = Unread(t.part, p)
        /\ ReadInOrder(Append(kept, p), t.part)
    BY <1>2, <1>3, <1>4, <1>11, UnreadNoApp
  <2>4. Unread(t.part, p) = unread - left
    <3>1. p.size \in Int
      BY <1>4 DEF Packets
    <3>2. Unread(t.part, p) = p.size - t.part.offset
      BY <1>2, <1>4, <1>11, <2>2, UnreadInteger
    <3> QED BY <1>2, <1>4, <2>2, <3>1, <3>2
  <2>5. ASSUME NEW j \in i + 1 .. n PROVE Unread(t.part, q[j]) = Unread(part, q[j])
    <3>1. Unread(old, q[j]) = Unread(part, q[j]) /\ q[j] \in Packets /\ q[j].id # p.id
      BY <1>3, <1>6, <1>7
    <3>2. CASE ~q[j].app
      BY <1>2, <3>1, <3>2, UnreadInteger
    <3>3. CASE q[j].app
      <4>1. i \in 1 .. n /\ q[i].app /\ i < j /\ j \in i .. n
        BY <1>1, <1>6, <1>11 DEF p
      <4>2. q[j].id # old.id
        BY <1>3, <3>3, <4>1
      <4> QED BY <1>2, <2>2, <3>1, <3>3, <4>2, UnreadInteger
    <3> QED BY <3>2, <3>3
  <2>6. \A j \in i + 1 .. n, k \in 1 .. n : k < j /\ q[k].app /\ q[j].app => q[j].id # t.part.id
    BY <1>7, <2>2
  <2>7. count - t.left + UnreadBytes(t.part, t.kept) = Total(U, i)
    BY <1>2, <1>3, <1>4, <1>5, <2>1, <2>3, <2>4
  <2> QED BY <2>1, <2>3, <2>5, <2>6, <2>7 DEF Reads, n, U
<1>12. p.app = FALSE \/ p.app = TRUE
  BY <1>4 DEF Packets
<1> QED BY <1>2, <1>4, <1>8, <1>9, <1>10, <1>11, <1>12

\* The packet that is read in part was that before, or is one of the queue.
LEMMA PartKnown ==
  ASSUME NEW q \in Seq(Packets), NEW count \in Int, NEW part \in Parts,
         NEW f, Takes(f, q, Len(q), count, part),
         NEW last \in Nat, part.id <= last, \A j \in DOMAIN q : q[j].id <= last
  PROVE  f[Len(q)].part.id <= last
<1> DEFINE n == Len(q)
           G == {i \in 0 .. n : f[i].part.id <= last}
<1>1. n \in Nat /\ n \in 0 .. n /\ \A i \in 1 .. n : q[i] \in Packets /\ q[i].id <= last
  OBVIOUS
<1>2. 0 \in G
  <2>1. f[0] = Acc(count, <<>>, part)
    BY DEF Takes
  <2>2. f[0].part = part
    BY <2>1 DEF Acc
  <2>3. 0 \in 0 .. n
    BY <1>1
  <2> QED BY <2>2, <2>3
<1>3. ASSUME NEW i \in 1 .. n, i - 1 \in G PROVE i \in G
  <2>1. i \in 0 .. n /\ i - 1 \in 0 .. n /\ q[i] \in Packets
    BY <1>1
  <2>2. f[i] = TakeFrom(f[i - 1], q[i])
    BY DEF Takes
  <2>3. IsAcc(f[i - 1])
    BY <2>1, TakesKeep
  <2>4. Took(f[i - 1], q[i], f[i])
    BY <2>1, <2>2, <2>3, TakeFromFields
  <2>5. f[i].part = f[i - 1].part \/ f[i].part = NoPacket \/ f[i].part.id = q[i].id
    BY <2>4 DEF Took
  <2>6. f[i - 1].part.id <= last /\ q[i].id <= last /\ NoPacket.id <= last
    BY <1>1, <1>3 DEF NoPacket
  <2>7. f[i].part.id <= last
    BY <2>5, <2>6
  <2> QED BY <2>1, <2>7
<1> HIDE DEF G
<1>4. n \in G
  BY <1>1, <1>2, <1>3, UpTo
<1> QED BY <1>4 DEF G

\* A read takes from the stream what it asks for, if that much is there.
LEMMA ConsumeFacts ==
  ASSUME NEW s, NEW count \in Int, s.receivedPackets \in Seq(Packets), s.partialRead \in Parts
  PROVE  LET q == s.receivedPackets
         IN \E kept \in Seq(Packets), part \in Parts :
              /\ ConsumeAppBytes(s, count) = [s EXCEPT !.receivedPackets = kept, !.partialRead = part,
                                                       !.msgArrived = kept # <<>>, !.consumed = @ + count]
              /\ Chosen(kept, q, Len(q))
              /\ Distinct(q) /\ ReadInOrder(q, s.partialRead) /\ count >= 0 /\ count <= AvailableAppBytes(s) =>
                   /\ UnreadBytes(part, kept) = AvailableAppBytes(s) - count
                   /\ ReadInOrder(kept, part)
              /\ \A last \in Nat :
                   s.partialRead.id <= last /\ (\A j \in DOMAIN q : q[j].id <= last) => part.id <= last
<1> DEFINE q == s.receivedPackets
           n == Len(q)
           old == s.partialRead
           U == UnreadOf(old, q)
<1>1. n \in Nat /\ n \in 0 .. n /\ \A i \in 1 .. n : q[i] \in Packets
  OBVIOUS
<1>2. PICK f : Takes(f, q, n, count, old) /\ ConsumeAppBytes(s, count) = Rest(s, f[n], count)
  BY <1>1, ConsumeTakes
<1>3. \A i \in 0 .. n : IsAcc(f[i]) /\ Chosen(f[i].kept, q, i)
  BY <1>2, TakesKeep
<1> DEFINE kept == f[n].kept
           part == f[n].part
<1>4. kept \in Seq(Packets) /\ part \in Parts /\ Chosen(kept, q, n) /\ IsAcc(f[n])
  BY <1>1, <1>3 DEF IsAcc
<1>5. ConsumeAppBytes(s, count) = [s EXCEPT !.receivedPackets = kept, !.partialRead = part,
                                            !.msgArrived = kept # <<>>, !.consumed = @ + count]
  BY <1>2 DEF Rest
<1>6. AvailableAppBytes(s) = Total(U, n) /\ Total(U, n) \in Int
  BY UnreadFacts, TotalInteger DEF AvailableAppBytes
<1>7. ASSUME Distinct(q), ReadInOrder(q, old), count >= 0, count <= AvailableAppBytes(s)
      PROVE  UnreadBytes(part, kept) = AvailableAppBytes(s) - count /\ ReadInOrder(kept, part)
  <2> DEFINE G == {i \in 0 .. n : Reads(f[i], i, q, old, count)}
  <2>1. count \in Nat
    BY <1>7
  <2>2. 0 \in G
    <3>1. f[0] = Acc(count, <<>>, old) /\ 0 \in 0 .. n
      BY <1>1, <1>2 DEF Takes
    <3>2. Reads(f[0], 0, q, old, count)
      BY <1>7, <2>1, <3>1, ReadsStart
    <3> QED BY <3>1, <3>2
  <2>3. ASSUME NEW i \in 1 .. n, i - 1 \in G PROVE i \in G
    <3>1. i \in 0 .. n /\ i - 1 \in 0 .. n /\ q[i] \in Packets
      BY <1>1
    <3>2. f[i] = TakeFrom(f[i - 1], q[i])
      BY <1>2 DEF Takes
    <3>3. IsAcc(f[i - 1]) /\ Chosen(f[i - 1].kept, q, i - 1) /\ IsAcc(f[i]) /\ Reads(f[i - 1], i - 1, q, old, count)
      BY <1>3, <2>3, <3>1
    <3>4. Took(f[i - 1], q[i], f[i])
      BY <3>1, <3>2, <3>3, TakeFromFields
    <3>5. Reads(f[i], i, q, old, count)
      BY <1>7, <2>1, <3>3, <3>4, ReadsStep
    <3> QED BY <3>1, <3>5
  <2>4. n \in G
    <3> HIDE DEF G
    <3> QED BY <1>1, <2>2, <2>3, UpTo
  <2> DEFINE left == f[n].left
  <2>5. /\ left \in Nat /\ (left # 0 => NoApp(kept)) /\ ReadInOrder(kept, part)
        /\ count - left + UnreadBytes(part, kept) = Total(U, n)
    BY <2>4 DEF Reads
  <2>6. left # 0 => UnreadBytes(part, kept) = 0
    BY <1>4, <2>5, UnreadNone DEF NoApp
  <2>7. UnreadBytes(part, kept) \in Int
    BY <1>4, UnreadFacts
  <2> HIDE DEF left, kept, part, U
  <2> QED BY <1>6, <1>7, <2>1, <2>5, <2>6, <2>7
<1>8. \A last \in Nat : old.id <= last /\ (\A j \in DOMAIN q : q[j].id <= last) => part.id <= last
  BY <1>2, PartKnown
<1> HIDE DEF kept, part
<1> QED BY <1>4, <1>5, <1>7, <1>8

-----------------------------------------------------------------------------
(* Going on with the script.                                               *)

\* The events of a script are numbered from 0 to LastEvent.
LEMMA EventFacts ==
  ASSUME script \in Scripts
  PROVE  /\ LastEvent \in Nat /\ LastEvent + 1 = Len(script.events) /\ DOMAIN script.events = 1 .. LastEvent + 1
         /\ \A k \in 0 .. LastEvent : Event(k) \in Events /\ k + 1 \in DOMAIN script.events
         /\ \A k \in 1 .. LastEvent + 1 : script.events[k] \in Events
         /\ script.protocol \in {"tcp", "udp", "sctp"}
<1>1. script.events \in Seq(Events) \ {<<>>} /\ script.protocol \in {"tcp", "udp", "sctp"}
  BY ScriptsAssumption
<1> DEFINE es == script.events
<1>2. /\ Len(es) \in Nat \ {0} /\ DOMAIN es = 1 .. Len(es) /\ \A k \in 1 .. Len(es) : es[k] \in Events
  BY <1>1
<1> HIDE DEF es
<1>3. LastEvent = Len(es) - 1 /\ \A k : Event(k) = es[k + 1]
  BY DEF LastEvent, Event, es
<1> HIDE DEF LastEvent, Event
<1>4. LastEvent \in Nat /\ LastEvent + 1 = Len(es) /\ \A k \in 0 .. LastEvent : k + 1 \in 1 .. Len(es)
  BY <1>2, <1>3
<1> QED BY <1>1, <1>2, <1>3, <1>4 DEF es

\* The members of the script are the same, or at least the stream's.
SameScript(s, t) ==
  /\ IsApp(t) /\ t.eventCounter = s.eventCounter /\ t.eventTimer = s.eventTimer
  /\ t.outboundPackets = s.outboundPackets /\ t.aggExpectedOutbound = s.aggExpectedOutbound
  /\ t.codeEventPending = s.codeEventPending /\ t.statusRequest = s.statusRequest
  /\ t.codeBlockBuffer = s.codeBlockBuffer /\ t.pendingCode = s.pendingCode /\ t.scriptComplete = s.scriptComplete
  /\ t.error = s.error /\ t.ran = s.ran /\ t.met = s.met /\ t.executed = s.executed /\ t.slipped = s.slipped
SameQueue(s, t) ==
  /\ t.receivedPackets = s.receivedPackets /\ t.partialRead = s.partialRead /\ t.arrivals = s.arrivals
  /\ t.compared = s.compared /\ t.consumed = s.consumed /\ t.expectedMessageSize = s.expectedMessageSize
  /\ t.recvFromSet = s.recvFromSet
SameExpected(s, t) ==
  /\ t.outboundPackets = s.outboundPackets /\ t.aggExpectedOutbound = s.aggExpectedOutbound
  /\ t.codeEventPending = s.codeEventPending /\ t.ran = s.ran /\ t.pendingCode = s.pendingCode

\* What holds of the script holds if its members are the same.
LEMMA ScriptSame ==
  ASSUME NEW s, NEW t, NEW n, NEW d, NEW c, ScriptInv(s, n, d, c), SameScript(s, t)
  PROVE  ScriptInv(t, n, d, c)
<1>1. IsApp(t) /\ ScriptTypes(t) /\ t.error = "" /\ t.ran = n /\ Counted(t) /\ Asking(t)
  BY DEF ScriptInv, SameScript, ScriptTypes, Counted, Asking
<1>2. (Settled(t) <=> Settled(s)) /\ (Aggregating(t) <=> Aggregating(s))
  BY DEF SameScript, Settled, Aggregating
<1>3. One(Aggregating(t)) = One(Aggregating(s)) /\ One(t.codeEventPending) = One(s.codeEventPending)
  BY <1>2 DEF One, SameScript
<1>4. OneAtATime(t, d, c)
  <2>1. OneAtATime(s, d, c)
    BY DEF ScriptInv
  <2> QED BY <1>2, <1>3, <2>1 DEF OneAtATime, SameScript
<1>5. Over(t, d, c)
  BY <1>2 DEF ScriptInv, Over, SameScript
<1> QED BY <1>1, <1>4, <1>5 DEF ScriptInv

\* And what holds of the queue.
LEMMA QueueSame ==
  ASSUME NEW s, NEW t, NEW m, NEW b, QueueInv(s, m, b), SameQueue(s, t)
  PROVE  QueueInv(t, m, b)
<1>1. Ordered(t, m)
  BY DEF QueueInv, SameQueue, Ordered, InOrder
<1>2. AvailableAppBytes(t) = AvailableAppBytes(s)
  BY DEF SameQueue, AvailableAppBytes
<1> QED BY <1>1, <1>2 DEF QueueInv, SameQueue

\* An error stops the simulation and leaves the counter and the queue alone.
LEMMA ThrowFacts ==
  ASSUME NEW s, IsApp(s), NEW what, what # ""
  PROVE  LET t == Throw(s, what)
         IN /\ t.error # "" /\ t.ran = s.ran /\ (Counted(s) => Counted(t))
            /\ t.receivedPackets = s.receivedPackets
            /\ \A n, m, b : Counted(s) /\ s.ran = n => Keeps(t, n, m, b)
<1> DEFINE t == Throw(s, what)
<1>1. /\ t.error = what /\ t.ran = s.ran /\ t.eventCounter = s.eventCounter /\ t.eventTimer = s.eventTimer
      /\ t.receivedPackets = s.receivedPackets
  BY DEF Throw, IsApp, Names
<1> HIDE DEF t
<1>2. Counted(s) => Counted(t)
  BY <1>1 DEF Counted
<1> QED BY <1>1, <1>2 DEF Keeps, t

\* To advance schedules the next event and touches nothing that came in.
LEMMA AdvanceFacts ==
  ASSUME script \in Scripts, now \in Nat, NEW s, NEW n, ScriptInv(s, n, 0, 0)
  PROVE  LET t == Advance(s)
         IN /\ ScriptInv(t, n, 0, 0) /\ SameQueue(s, t) /\ SameExpected(s, t)
            /\ t.socketOptionsArrived = s.socketOptionsArrived
            /\ t.scriptComplete = s.scriptComplete
            /\ t.eventTimer = Off => t = s /\ s.eventCounter = LastEvent
            /\ Advances(s) => t.eventTimer # Off
            /\ ~Advances(s) => t = s
<1> DEFINE t == Advance(s)
<1>1. /\ IsApp(s) /\ ScriptTypes(s) /\ s.error = "" /\ s.ran = n
      /\ Counted(s) /\ Asking(s) /\ OneAtATime(s, 0, 0) /\ Over(s, 0, 0)
  BY DEF ScriptInv
<1>2. s.eventCounter \in 0 .. LastEvent /\ LastEvent \in Nat
  BY <1>1, EventFacts DEF ScriptTypes
<1>3. CASE ~Advances(s)
  <2>1. t = s
    BY <1>3 DEF Advance
  <2>2. s.eventTimer = Off => s.eventCounter = LastEvent
    <3> HIDE DEF LastEvent
    <3> QED BY <1>2, <1>3 DEF Advances
  <2> HIDE DEF t
  <2> QED BY <1>3, <2>1, <2>2 DEF t, SameQueue, SameExpected
<1>4. CASE Advances(s)
  <2>1. s.eventTimer = Off /\ s.eventCounter + 1 \in 0 .. LastEvent
    <3> HIDE DEF LastEvent
    <3> QED BY <1>2, <1>4 DEF Advances
  <2> DEFINE u == [s EXCEPT !.eventCounter = @ + 1, !.slipped = @ \/ ~Settled(s)]
             at == now + Event(u.eventCounter).wait
  <2>2. t = [u EXCEPT !.eventTimer = at, !.eventTime = at]
    BY <1>4 DEF Advance, ScheduleEvent
  <2>3. /\ IsApp(u) /\ u.eventCounter = s.eventCounter + 1 /\ (u.slipped <=> (s.slipped \/ ~Settled(s)))
        /\ SameQueue(s, u) /\ SameExpected(s, u) /\ u.socketOptionsArrived = s.socketOptionsArrived
        /\ u.scriptComplete = s.scriptComplete /\ u.statusRequest = s.statusRequest
        /\ u.codeBlockBuffer = s.codeBlockBuffer /\ u.error = s.error /\ u.met = s.met /\ u.executed = s.executed
    BY <1>1 DEF IsApp, Names, SameQueue, SameExpected
  <2> HIDE DEF u
  <2>4. at \in Nat /\ at # Off
    <3>1. Event(u.eventCounter) \in Events
      BY <2>1, <2>3, EventFacts
    <3>2. Event(u.eventCounter).wait \in Nat
      BY <3>1 DEF Events
    <3> HIDE DEF Event
    <3> QED BY <3>2 DEF Off
  <2> HIDE DEF at, t
  <2>5. /\ IsApp(t) /\ t.eventCounter = u.eventCounter /\ t.slipped = u.slipped
        /\ t.eventTimer = at
        /\ SameQueue(u, t) /\ SameExpected(u, t) /\ t.socketOptionsArrived = u.socketOptionsArrived
        /\ t.scriptComplete = u.scriptComplete /\ t.statusRequest = u.statusRequest
        /\ t.codeBlockBuffer = u.codeBlockBuffer /\ t.error = u.error /\ t.met = u.met /\ t.executed = u.executed
    BY <2>2, <2>3 DEF IsApp, Names, SameQueue, SameExpected
  <2>6. SameQueue(s, t) /\ SameExpected(s, t) /\ t.socketOptionsArrived = s.socketOptionsArrived
    BY <2>3, <2>5 DEF SameQueue, SameExpected
  <2>7. /\ t.eventCounter = s.eventCounter + 1 /\ (t.slipped <=> (s.slipped \/ ~Settled(s)))
        /\ t.scriptComplete = s.scriptComplete /\ t.statusRequest = s.statusRequest
        /\ t.codeBlockBuffer = s.codeBlockBuffer /\ t.error = "" /\ t.met = s.met /\ t.executed = s.executed
        /\ t.eventTimer \in Nat /\ t.eventTimer # Off
    BY <1>1, <2>3, <2>4, <2>5
  <2>8. (Settled(t) <=> Settled(s)) /\ (Aggregating(t) <=> Aggregating(s))
    BY <2>6 DEF SameExpected, Settled, Aggregating
  <2>9. One(Aggregating(t)) = One(Aggregating(s)) /\ One(t.codeEventPending) = One(s.codeEventPending)
    BY <2>6, <2>8 DEF One, SameExpected
  <2>10. ScriptTypes(t)
    BY <1>1, <2>1, <2>6, <2>7 DEF ScriptTypes, SameExpected
  <2>11. Counted(t) /\ Asking(t) /\ t.ran = n
    <3> HIDE DEF LastEvent
    <3>1. s.ran = s.eventCounter + 1
      BY <1>1, <2>1 DEF Counted
    <3>2. t.ran = s.ran
      BY <2>6 DEF SameExpected
    <3>3. Asking(t)
      BY <1>1, <2>6, <2>7 DEF Asking, SameExpected
    <3>4. t.eventCounter + 0 = s.eventCounter + 1
      <4>1. t.eventCounter = s.eventCounter + 1
        BY <2>7
      <4>2. s.eventCounter \in Nat
        BY <1>2
      <4> QED BY <4>1, <4>2
    <3> QED BY <1>1, <2>7, <3>1, <3>2, <3>3, <3>4 DEF Counted
  <2>12. OneAtATime(t, 0, 0)
    BY <1>1, <2>6, <2>7, <2>8, <2>9 DEF OneAtATime, SameExpected, Settled
  <2>13. ~s.scriptComplete
    <3>1. s.eventCounter < LastEvent
      BY <1>4 DEF Advances
    <3>2. s.scriptComplete => s.eventCounter = LastEvent
      BY <1>1 DEF Over
    <3> HIDE DEF LastEvent
    <3> QED BY <1>2, <3>1, <3>2
  <2>14. Over(t, 0, 0)
    BY <2>7, <2>13 DEF Over
  <2>15. ScriptInv(t, n, 0, 0)
    BY <2>5, <2>7, <2>10, <2>11, <2>12, <2>14 DEF ScriptInv
  <2> QED BY <1>4, <2>6, <2>7, <2>15 DEF t
<1> QED BY <1>3, <1>4

\* A script that is completed is over, if it waits for nothing.
LEMMA CompleteFacts ==
  ASSUME script \in Scripts, NEW s, NEW n, ScriptInv(s, n, 0, 0), Finished(s), ~s.slipped => ~Aggregating(s)
  PROVE  LET t == Complete(s)
         IN /\ Counted(t) /\ t.ran = n /\ t.receivedPackets = s.receivedPackets
            /\ t.error = "" => /\ ScriptInv(t, n, 0, 0) /\ SameQueue(s, t) /\ SameExpected(s, t)
                               /\ t.scriptComplete
<1> DEFINE u == ExecuteCodeBlocks(s)
           t == Complete(s)
<1>1. /\ IsApp(s) /\ ScriptTypes(s) /\ s.error = "" /\ s.ran = n
      /\ Counted(s) /\ Asking(s) /\ OneAtATime(s, 0, 0) /\ Over(s, 0, 0)
  BY DEF ScriptInv
<1>2. CASE \E i \in DOMAIN s.codeBlockBuffer : ~s.codeBlockBuffer[i]
  <2>1. u = Throw(s, "assertion")
    BY <1>2 DEF ExecuteCodeBlocks
  <2>2. u.error # "" /\ Counted(u) /\ u.ran = n /\ u.receivedPackets = s.receivedPackets
    <3>1. "assertion" # ""
      OBVIOUS
    <3> HIDE DEF u
    <3> QED BY <1>1, <2>1, <3>1, ThrowFacts
  <2>3. t = u
    <3> HIDE DEF u
    <3> QED BY <2>2 DEF Complete, u
  <2> HIDE DEF u, t
  <2> QED BY <2>2, <2>3 DEF t
<1>3. CASE ~ \E i \in DOMAIN s.codeBlockBuffer : ~s.codeBlockBuffer[i]
  <2> DEFINE v == [s EXCEPT !.executed = @ + Len(s.codeBlockBuffer), !.codeBlockBuffer = <<>>]
             w == [v EXCEPT !.scriptComplete = TRUE]
  <2>1. u = v
    BY <1>3 DEF ExecuteCodeBlocks
  <2>2. /\ IsApp(v) /\ v.executed = s.executed + Len(s.codeBlockBuffer) /\ v.codeBlockBuffer = <<>>
        /\ SameQueue(s, v) /\ SameExpected(s, v) /\ v.eventCounter = s.eventCounter /\ v.eventTimer = s.eventTimer
        /\ v.statusRequest = s.statusRequest /\ v.error = "" /\ v.met = s.met /\ v.slipped = s.slipped
    BY <1>1 DEF IsApp, Names, SameQueue, SameExpected
  <2>3. t = w
    <3> HIDE DEF u, v
    <3> QED BY <2>1, <2>2 DEF Complete, u
  <2> HIDE DEF u, v, t
  <2>4. /\ IsApp(w) /\ w.scriptComplete /\ w.executed = v.executed /\ w.codeBlockBuffer = v.codeBlockBuffer
        /\ SameQueue(v, w) /\ SameExpected(v, w) /\ w.eventCounter = v.eventCounter /\ w.eventTimer = v.eventTimer
        /\ w.statusRequest = v.statusRequest /\ w.error = v.error /\ w.met = v.met /\ w.slipped = v.slipped
    BY <2>2 DEF IsApp, Names, SameQueue, SameExpected
  <2> HIDE DEF w
  <2>5. /\ IsApp(t) /\ t.scriptComplete /\ t.executed = s.executed + Len(s.codeBlockBuffer)
        /\ t.codeBlockBuffer = <<>> /\ t.eventCounter = s.eventCounter /\ t.eventTimer = s.eventTimer
        /\ t.statusRequest = s.statusRequest /\ t.error = "" /\ t.met = s.met /\ t.slipped = s.slipped
    BY <2>2, <2>3, <2>4
  <2>6. SameQueue(s, t) /\ SameExpected(s, t)
    BY <2>2, <2>3, <2>4 DEF SameQueue, SameExpected
  <2>7. /\ t.outboundPackets = s.outboundPackets /\ t.aggExpectedOutbound = s.aggExpectedOutbound
        /\ t.codeEventPending = s.codeEventPending /\ t.ran = s.ran /\ t.pendingCode = s.pendingCode
    BY <2>6 DEF SameExpected
  <2>8. (Settled(t) <=> Settled(s)) /\ (Aggregating(t) <=> Aggregating(s))
    BY <2>7 DEF Settled, Aggregating
  <2>9. One(Aggregating(t)) = One(Aggregating(s)) /\ One(t.codeEventPending) = One(s.codeEventPending)
    BY <2>7, <2>8 DEF One
  <2>10. /\ Len(s.codeBlockBuffer) \in Nat /\ s.executed \in Nat
         /\ t.executed = s.executed + Len(s.codeBlockBuffer) /\ t.executed \in Nat
         /\ t.codeBlockBuffer \in Seq(BOOLEAN) /\ Len(t.codeBlockBuffer) = 0
    <3>1. s.codeBlockBuffer \in Seq(BOOLEAN) /\ s.executed \in Nat
      BY <1>1 DEF ScriptTypes
    <3>2. t.executed = s.executed + Len(s.codeBlockBuffer) /\ t.codeBlockBuffer = <<>>
      BY <2>5
    <3>3. <<>> \in Seq(BOOLEAN) /\ Len(<<>>) = 0
      OBVIOUS
    <3>4. Len(s.codeBlockBuffer) \in Nat
      BY <3>1
    <3>5. t.codeBlockBuffer \in Seq(BOOLEAN) /\ Len(t.codeBlockBuffer) = 0
      BY <3>2, <3>3
    <3> QED BY <3>1, <3>2, <3>4, <3>5
  <2>11. ScriptTypes(t)
    <3>1. /\ t.eventCounter = s.eventCounter /\ t.eventTimer = s.eventTimer /\ t.met = s.met
          /\ t.outboundPackets = s.outboundPackets /\ t.aggExpectedOutbound = s.aggExpectedOutbound /\ t.ran = s.ran
          /\ t.pendingCode = s.pendingCode
      BY <2>5, <2>7
    <3> QED BY <1>1, <2>10, <3>1 DEF ScriptTypes
  <2>12. t.executed + Len(t.codeBlockBuffer) = s.executed + Len(s.codeBlockBuffer)
    BY <2>10
  <2>13. Counted(t) /\ Asking(t) /\ t.ran = n
    BY <1>1, <2>5, <2>7 DEF Counted, Asking
  <2>14. OneAtATime(t, 0, 0)
    BY <1>1, <2>5, <2>7, <2>8, <2>9, <2>12 DEF OneAtATime
  <2>15. Over(t, 0, 0)
    <3>1. s.eventCounter \in 0 .. LastEvent /\ LastEvent \in Nat
      BY <1>1, EventFacts DEF ScriptTypes
    <3>2. s.eventCounter >= LastEvent /\ ~s.codeEventPending /\ s.outboundPackets = <<>> /\ s.eventTimer = Off
      BY DEF Finished
    <3>3. s.eventCounter = LastEvent
      <4> HIDE DEF LastEvent
      <4> QED BY <3>1, <3>2
    <3> QED BY <2>5, <2>7, <2>8, <3>2, <3>3 DEF Over
  <2>16. ScriptInv(t, n, 0, 0)
    BY <2>5, <2>11, <2>13, <2>14, <2>15 DEF ScriptInv
  <2>17. t.receivedPackets = s.receivedPackets
    BY <2>6 DEF SameQueue
  <2> QED BY <2>5, <2>6, <2>13, <2>16, <2>17 DEF t
<1> QED BY <1>2, <1>3

\* Nothing is scheduled and the script is not complete: it waits for a segment or
\* a status.
Waiting(t) == /\ t.eventTimer = Off
              /\ t.scriptComplete \/ t.outboundPackets # <<>> \/ Aggregating(t) \/ t.codeEventPending

\* The script goes on or is over, when nothing it waits for is left behind.
LEMMA AdvanceOrCompleteFacts ==
  ASSUME script \in Scripts, now \in Nat, NEW s, NEW n, ScriptInv(s, n, 0, 0), ~s.slipped => ~Aggregating(s)
  PROVE  LET t == AdvanceOrComplete(s)
         IN /\ Counted(t) /\ t.ran = n /\ t.receivedPackets = s.receivedPackets
            /\ t.error = "" => /\ ScriptInv(t, n, 0, 0) /\ SameQueue(s, t) /\ SameExpected(s, t)
                               /\ t.eventTimer = Off => Waiting(t)
<1> DEFINE t == AdvanceOrComplete(s)
<1>1. /\ Counted(s) /\ s.ran = n /\ s.error = "" /\ s.eventCounter \in 0 .. LastEvent
  BY DEF ScriptInv, ScriptTypes
<1>2. CASE Advances(s)
  <2>1. t = Advance(s)
    BY <1>2 DEF AdvanceOrComplete
  <2> DEFINE u == Advance(s)
  <2>2. ScriptInv(u, n, 0, 0) /\ SameQueue(s, u) /\ SameExpected(s, u) /\ u.eventTimer # Off
    BY <1>2, AdvanceFacts
  <2> HIDE DEF t, u
  <2>3. Counted(u) /\ u.ran = n /\ u.receivedPackets = s.receivedPackets
    BY <2>2 DEF ScriptInv, SameQueue
  <2> QED BY <2>1, <2>2, <2>3 DEF t, u
<1>3. CASE ~Advances(s) /\ Finished(s)
  <2>1. t = Complete(s)
    BY <1>3 DEF AdvanceOrComplete
  <2> DEFINE u == Complete(s)
  <2>2. /\ Counted(u) /\ u.ran = n /\ u.receivedPackets = s.receivedPackets
        /\ u.error = "" => /\ ScriptInv(u, n, 0, 0) /\ SameQueue(s, u) /\ SameExpected(s, u)
                           /\ u.scriptComplete
    BY <1>3, CompleteFacts
  <2> HIDE DEF t, u
  <2> QED BY <2>1, <2>2 DEF t, u, Waiting
<1>4. CASE ~Advances(s) /\ ~Finished(s)
  <2>1. t = s
    BY <1>4 DEF AdvanceOrComplete
  <2> HIDE DEF t
  <2>2. SameQueue(s, t) /\ SameExpected(s, t)
    BY <2>1 DEF SameQueue, SameExpected
  <2>3. LastEvent \in Nat
    BY EventFacts
  <2>4. s.eventTimer = Off => s.codeEventPending \/ s.outboundPackets # <<>>
    <3>1. s.eventCounter < LastEvent \/ s.eventCounter >= LastEvent
      <4> HIDE DEF LastEvent
      <4>1. s.eventCounter \in 0 .. LastEvent
        BY <1>1
      <4> QED BY <2>3, <4>1
    <3> QED BY <1>4, <3>1, Zenon DEF Advances, Finished
  <2> QED BY <1>1, <2>1, <2>2, <2>4 DEF t, Waiting
<1> QED BY <1>2, <1>3, <1>4

-----------------------------------------------------------------------------
(* Segments against expectations.                                          *)

\* Everything of the script but what is waited for is the same.
SameButWaits(s, t) ==
  /\ IsApp(t) /\ t.eventCounter = s.eventCounter /\ t.eventTimer = s.eventTimer
  /\ t.codeEventPending = s.codeEventPending /\ t.statusRequest = s.statusRequest
  /\ t.codeBlockBuffer = s.codeBlockBuffer /\ t.pendingCode = s.pendingCode /\ t.scriptComplete = s.scriptComplete
  /\ t.error = s.error /\ t.ran = s.ran /\ t.executed = s.executed
Waits(t) == t.outboundPackets \in Seq(Expectations) /\ t.aggExpectedOutbound \in Aggregates /\ t.met \in Nat
Sum3(t, d) == t.met + Len(t.outboundPackets) + One(Aggregating(t)) + d

\* What is waited for changes hands; the sum of met and expected stays.
LEMMA WaitsChange ==
  ASSUME NEW s, NEW t, NEW n, NEW d, NEW c, ScriptInv(s, n, d, c), SameButWaits(s, t), Waits(t), NEW e,
         s.slipped => t.slipped,
         ~t.slipped => /\ Sum3(t, e) = Sum3(s, d)
                       /\ s.eventTimer # Off => t.outboundPackets = <<>> /\ ~Aggregating(t) /\ e = 0
                       /\ s.codeEventPending => t.outboundPackets = <<>> /\ ~Aggregating(t) /\ e = 0,
         s.scriptComplete => t.outboundPackets = <<>> /\ e = 0 /\ (~t.slipped => ~Aggregating(t))
  PROVE  ScriptInv(t, n, e, c)
<1>1. /\ IsApp(s) /\ ScriptTypes(s) /\ s.error = "" /\ s.ran = n
      /\ Counted(s) /\ Asking(s) /\ OneAtATime(s, d, c) /\ Over(s, d, c)
  BY DEF ScriptInv
<1>2. IsApp(t) /\ ScriptTypes(t)
  BY <1>1 DEF SameButWaits, Waits, ScriptTypes
<1>3. t.error = "" /\ t.ran = n /\ Counted(t) /\ Asking(t)
  BY <1>1 DEF SameButWaits, Counted, Asking
<1>4. OneAtATime(t, e, c)
  <2> SUFFICES ASSUME ~t.slipped
               PROVE  /\ t.eventTimer # Off => Settled(t) /\ e = 0 /\ c = 0
                      /\ t.codeEventPending => t.outboundPackets = <<>> /\ ~Aggregating(t) /\ e = 0
                      /\ Sum3(t, e) = Ran("out", t.ran)
                      /\ t.executed + Len(t.codeBlockBuffer) + One(t.codeEventPending) + c = Ran("code", t.ran)
    BY DEF OneAtATime, Sum3
  <2>1. /\ s.eventTimer # Off => Settled(s) /\ c = 0
        /\ Sum3(s, d) = Ran("out", s.ran)
        /\ s.executed + Len(s.codeBlockBuffer) + One(s.codeEventPending) + c = Ran("code", s.ran)
    BY <1>1 DEF OneAtATime, Sum3
  <2>2. s.eventTimer # Off => ~t.codeEventPending
    BY <2>1 DEF Settled, SameButWaits
  <2>3. /\ t.eventTimer = s.eventTimer /\ t.codeEventPending = s.codeEventPending /\ t.ran = s.ran
        /\ t.executed = s.executed /\ t.codeBlockBuffer = s.codeBlockBuffer
    BY DEF SameButWaits
  <2>4. Sum3(t, e) = Sum3(s, d)
    OBVIOUS
  <2>5. t.eventTimer # Off => Settled(t) /\ e = 0 /\ c = 0
    BY <2>1, <2>2, <2>3 DEF Settled
  <2> QED BY <2>1, <2>3, <2>4, <2>5
<1>5. Over(t, e, c)
  BY <1>1 DEF Over, SameButWaits
<1> QED BY <1>2, <1>3, <1>4, <1>5 DEF ScriptInv

Segment(g) == g.seq \in Nat /\ g.size \in Nat /\ g.fin \in BOOLEAN /\ g.number \in Nat

\* Of the segments sent, g comes after all that was compared, before all that
\* is kept.
Follows(s, g, m) ==
  /\ g.number <= m /\ \A k \in DOMAIN s.compared : s.compared[k] < g.number
  /\ \A i \in CapturedIn(s.receivedPackets) : g.number < s.receivedPackets[i].number

SameButCompared(s, t, g) ==
  /\ t.receivedPackets = s.receivedPackets /\ t.partialRead = s.partialRead /\ t.arrivals = s.arrivals
  /\ t.compared = Append(s.compared, g.number) /\ t.consumed = s.consumed
  /\ t.expectedMessageSize = s.expectedMessageSize /\ t.recvFromSet = s.recvFromSet

\* A segment that is compared is the latest so far.
LEMMA ComparedKeeps ==
  ASSUME NEW s, NEW t, NEW m \in Nat, NEW b, QueueInv(s, m, b), NEW g, Segment(g), Follows(s, g, m),
         SameButCompared(s, t, g)
  PROVE  QueueInv(t, m, b)
<1> DEFINE old == s.compared
           new == t.compared
           k == Len(old)
           q == s.receivedPackets
           v == g.number
<1>1. old \in Seq(Nat) /\ v \in Nat /\ new = Append(old, v) /\ q \in Seq(Packets) /\ t.receivedPackets = q
  BY DEF QueueInv, Segment, SameButCompared
<1>2. /\ k \in Nat /\ DOMAIN old = 1 .. k /\ DOMAIN new = 1 .. k + 1 /\ new[k + 1] = v
      /\ \A i \in 1 .. k : new[i] = old[i] /\ old[i] \in Nat
      /\ new \in Seq(Nat)
  <2> HIDE DEF old, v
  <2> QED BY <1>1 DEF k
<1>3. /\ Ascending(old) /\ (\A i \in 1 .. k : old[i] <= m) /\ InOrder(q, s, m)
      /\ v <= m /\ (\A i \in 1 .. k : old[i] < v)
      /\ \A i \in CapturedIn(q) : v < q[i].number
  BY <1>2 DEF QueueInv, Ordered, Follows
<1> HIDE DEF old, new, k, v
<1>4. \A i \in 1 .. k + 1 : i \in 1 .. k \/ i = k + 1
  BY <1>2
<1>5. Ascending(new)
  <2> SUFFICES ASSUME NEW i \in 1 .. k + 1, NEW j \in 1 .. k + 1, i < j PROVE new[i] < new[j]
    BY <1>2 DEF Ascending
  <2>1. i \in 1 .. k
    BY <1>2
  <2>2. CASE j = k + 1
    BY <1>2, <1>3, <2>1, <2>2
  <2>3. CASE j \in 1 .. k
    BY <1>2, <1>3, <2>1, <2>3 DEF Ascending
  <2> QED BY <1>4, <2>2, <2>3
<1>6. \A i \in 1 .. k + 1 : new[i] <= m
  BY <1>2, <1>3, <1>4
<1>7. \A i \in CapturedIn(q) : \A j \in 1 .. k + 1 : new[j] < q[i].number
  <2> SUFFICES ASSUME NEW i \in CapturedIn(q), NEW j \in 1 .. k + 1 PROVE new[j] < q[i].number
    OBVIOUS
  <2>1. v < q[i].number
    BY <1>3
  <2>2. CASE j \in 1 .. k
    <3>1. old[j] < q[i].number
      BY <1>2, <1>3, <2>2 DEF InOrder, old
    <3> QED BY <1>2, <2>2, <3>1
  <2> QED BY <1>2, <1>4, <2>1, <2>2
<1>8. t.arrivals = s.arrivals
  BY DEF SameButCompared
<1>9. InOrder(q, t, m)
  BY <1>2, <1>3, <1>7, <1>8 DEF InOrder, new
<1>10. Ordered(t, m)
  BY <1>1, <1>2, <1>5, <1>6, <1>9 DEF Ordered, new
<1>11. AvailableAppBytes(t) = AvailableAppBytes(s)
  BY DEF SameButCompared, AvailableAppBytes
<1>12. t.compared \in Seq(Nat)
  BY <1>2 DEF new
<1> HIDE DEF q
<1> QED BY <1>10, <1>11, <1>12 DEF QueueInv, SameButCompared

Compared(s, t, n, m, b) ==
  /\ Counted(t) /\ t.ran = n /\ t.receivedPackets = s.receivedPackets
  /\ t.error = "" => /\ ScriptInv(t, n, 0, 0) /\ QueueInv(t, m, b) /\ t.outboundPackets = s.outboundPackets
                     /\ t.eventTimer = Off => Waiting(t)

\* A super-segment that is being met counts as one.
LEMMA OneFacts ==
  ASSUME NEW s
  PROVE  /\ One(Aggregating(s)) \in Nat
         /\ Aggregating(s) => One(Aggregating(s)) = 1
         /\ ~Aggregating(s) => One(Aggregating(s)) = 0
BY DEF One

\* A comparison that fails.
LEMMA ComparedThrow ==
  ASSUME NEW s, NEW n, NEW d, NEW c, ScriptInv(s, n, d, c), NEW what, what # "",
         NEW r, s.receivedPackets = r.receivedPackets, NEW m, NEW b
  PROVE  Compared(r, Throw(s, what), n, m, b)
<1>1. IsApp(s) /\ Counted(s) /\ s.ran = n
  BY DEF ScriptInv
<1> DEFINE t == Throw(s, what)
<1>2. t.error # "" /\ t.ran = s.ran /\ Counted(t) /\ t.receivedPackets = s.receivedPackets
  BY <1>1, ThrowFacts
<1> HIDE DEF t
<1> QED BY <1>1, <1>2 DEF Compared, t

\* A comparison that succeeds and lets the script go on.
LEMMA ComparedAdvance ==
  ASSUME script \in Scripts, now \in Nat, NEW r, NEW s, NEW n, NEW m, NEW b,
         ScriptInv(s, n, 0, 0), QueueInv(s, m, b), ~s.slipped => ~Aggregating(s),
         s.receivedPackets = r.receivedPackets, s.outboundPackets = r.outboundPackets
  PROVE  Compared(r, AdvanceOrComplete(s), n, m, b)
<1> DEFINE t == AdvanceOrComplete(s)
<1>1. /\ Counted(t) /\ t.ran = n /\ t.receivedPackets = s.receivedPackets
      /\ t.error = "" => /\ ScriptInv(t, n, 0, 0) /\ SameQueue(s, t) /\ SameExpected(s, t)
                         /\ t.eventTimer = Off => Waiting(t)
  BY AdvanceOrCompleteFacts
<1> HIDE DEF t
<1>2. t.error = "" => QueueInv(t, m, b)
  BY <1>1, QueueSame
<1>3. t.error = "" => t.outboundPackets = r.outboundPackets
  BY <1>1 DEF SameExpected
<1> QED BY <1>1, <1>2, <1>3 DEF Compared, t

\* A segment is compared with an expectation: refused, a first slice or all of it.
LEMMA StartFacts ==
  ASSUME script \in Scripts, now \in Nat, NEW s, NEW n, NEW m \in Nat, NEW b, NEW x \in Expectations,
         NEW g, Segment(g), Follows(s, g, m),
         ScriptInv(s, n, 1, 0), QueueInv(s, m, b), ~s.slipped => ~Aggregating(s)
  PROVE  Compared(s, StartOutboundComparison(s, x, g), n, m, b)
<1> DEFINE u == [s EXCEPT !.compared = Append(@, g.number)]
           t == StartOutboundComparison(s, x, g)
<1>1. /\ IsApp(s) /\ ScriptTypes(s) /\ s.error = "" /\ s.ran = n
      /\ Counted(s) /\ OneAtATime(s, 1, 0) /\ Over(s, 1, 0)
  BY DEF ScriptInv
<1>2. s.met \in Nat /\ s.outboundPackets \in Seq(Expectations) /\ s.aggExpectedOutbound \in Aggregates
  BY <1>1 DEF ScriptTypes
<1>3. s.met \in Nat /\ Len(s.outboundPackets) \in Nat
  <2>1. Len(s.outboundPackets) \in Nat
    BY <1>2
  <2> QED BY <1>2, <2>1
<1>4. x.size \in Nat /\ x.fin \in BOOLEAN /\ g.size \in Nat /\ g.seq \in Nat
  BY DEF Expectations, Segment
<1>5. /\ IsApp(u) /\ SameButCompared(s, u, g) /\ SameButWaits(s, u) /\ u.slipped = s.slipped
      /\ u.outboundPackets = s.outboundPackets /\ u.aggExpectedOutbound = s.aggExpectedOutbound /\ u.met = s.met
  BY <1>1 DEF IsApp, Names, SameButCompared, SameButWaits
<1>6. "datagram" # ""
  OBVIOUS
<1>7. ~s.slipped => s.eventTimer = Off /\ ~s.codeEventPending
  <2>1. 1 # 0
    OBVIOUS
  <2> QED BY <1>1, <2>1, Zenon DEF OneAtATime
<1>8. ~s.scriptComplete
  <2>1. 1 # 0
    OBVIOUS
  <2> QED BY <1>1, <2>1, Zenon DEF Over
<1>9. CASE t = Throw(s, "datagram")
  BY <1>6, <1>9, ComparedThrow
<1>10. CASE x.size > g.size /\ CompareDatagram(x, g, TRUE)
  <2> DEFINE some == [fin |-> x.fin, remaining |-> x.size - g.size, nextSeq |-> g.seq + g.size]
             w == [u EXCEPT !.aggExpectedOutbound = some]
  <2>1. t = w
    BY <1>10 DEF StartOutboundComparison
  <2>2. some \in Aggregates /\ some # NoAggregate
    BY <1>4, <1>10 DEF Aggregates, NoAggregate
  <2> HIDE DEF u, some, t
  <2>3. /\ IsApp(w) /\ w.aggExpectedOutbound = some
        /\ w.receivedPackets = u.receivedPackets /\ w.partialRead = u.partialRead /\ w.arrivals = u.arrivals
        /\ w.compared = u.compared /\ w.consumed = u.consumed /\ w.expectedMessageSize = u.expectedMessageSize
        /\ w.recvFromSet = u.recvFromSet
        /\ w.outboundPackets = u.outboundPackets /\ w.met = u.met /\ w.slipped = u.slipped
        /\ SameButWaits(u, w)
    BY <1>5 DEF IsApp, Names, SameButWaits
  <2> HIDE DEF w
  <2>4. SameButCompared(s, w, g) /\ SameButWaits(s, w) /\ w.slipped = s.slipped
    BY <1>5, <2>3 DEF SameButCompared, SameButWaits
  <2>5. w.outboundPackets = s.outboundPackets /\ w.met = s.met /\ Aggregating(w)
    BY <1>5, <2>2, <2>3 DEF Aggregating
  <2>6. Waits(w)
    BY <1>2, <2>2, <2>3, <2>5 DEF Waits
  <2>7. ~w.slipped => Sum3(w, 0) = Sum3(s, 1)
    <3>1. ~w.slipped => One(Aggregating(w)) = 1 /\ One(Aggregating(s)) = 0
      BY <2>4, <2>5, OneFacts
    <3>2. w.met = s.met /\ w.outboundPackets = s.outboundPackets
      BY <2>5
    <3> QED BY <1>3, <3>1, <3>2 DEF Sum3
  <2>8. ScriptInv(w, n, 0, 0)
    BY <1>7, <1>8, <2>4, <2>6, <2>7, WaitsChange
  <2>9. QueueInv(w, m, b)
    BY <2>4, ComparedKeeps
  <2>10. Counted(w) /\ w.ran = n
    BY <2>8 DEF ScriptInv
  <2>11. w.eventTimer = Off => Waiting(w)
    BY <2>5 DEF Waiting
  <2>12. w.receivedPackets = s.receivedPackets
    BY <2>4 DEF SameButCompared
  <2> QED BY <2>1, <2>5, <2>8, <2>9, <2>10, <2>11, <2>12 DEF Compared, t
<1>11. CASE ~(x.size > g.size) /\ ~(x.size < g.size \/ ~CompareDatagram(x, g, FALSE))
  <2> DEFINE w == [u EXCEPT !.met = @ + 1]
  <2>1. t = AdvanceOrComplete(w)
    BY <1>11 DEF StartOutboundComparison
  <2> HIDE DEF u, t
  <2>3. /\ IsApp(w) /\ w.aggExpectedOutbound = u.aggExpectedOutbound
        /\ w.receivedPackets = u.receivedPackets /\ w.partialRead = u.partialRead /\ w.arrivals = u.arrivals
        /\ w.compared = u.compared /\ w.consumed = u.consumed /\ w.expectedMessageSize = u.expectedMessageSize
        /\ w.recvFromSet = u.recvFromSet
        /\ w.outboundPackets = u.outboundPackets /\ w.met = u.met + 1 /\ w.slipped = u.slipped
        /\ SameButWaits(u, w)
    BY <1>5 DEF IsApp, Names, SameButWaits
  <2> HIDE DEF w
  <2>4. SameButCompared(s, w, g) /\ SameButWaits(s, w) /\ w.slipped = s.slipped
    BY <1>5, <2>3 DEF SameButCompared, SameButWaits
  <2>5. /\ w.outboundPackets = s.outboundPackets /\ w.met = s.met + 1 /\ (Aggregating(w) <=> Aggregating(s))
        /\ w.aggExpectedOutbound = s.aggExpectedOutbound
    BY <1>5, <2>3 DEF Aggregating
  <2>6. Waits(w)
    BY <1>2, <2>5 DEF Waits
  <2>7. ~w.slipped => Sum3(w, 0) = Sum3(s, 1)
    <3>1. One(Aggregating(w)) = One(Aggregating(s)) /\ One(Aggregating(s)) \in Nat
      BY <2>5, OneFacts
    <3> QED BY <1>3, <2>5, <3>1 DEF Sum3
  <2>8. ScriptInv(w, n, 0, 0)
    BY <1>7, <1>8, <2>4, <2>6, <2>7, WaitsChange
  <2>9. QueueInv(w, m, b)
    BY <2>4, ComparedKeeps
  <2>10. ~w.slipped => ~Aggregating(w)
    BY <2>4, <2>5
  <2>11. w.receivedPackets = s.receivedPackets
    BY <2>4 DEF SameButCompared
  <2>12. Compared(s, AdvanceOrComplete(w), n, m, b)
    BY <2>5, <2>8, <2>9, <2>10, <2>11, ComparedAdvance
  <2> QED BY <2>1, <2>12 DEF t
<1>12. \/ t = Throw(s, "datagram")
       \/ x.size > g.size /\ CompareDatagram(x, g, TRUE)
       \/ ~(x.size > g.size) /\ ~(x.size < g.size \/ ~CompareDatagram(x, g, FALSE))
  BY DEF StartOutboundComparison
<1> QED BY <1>9, <1>10, <1>11, <1>12

\* The next slice of a super-segment is compared: refused, one more or the last.
LEMMA ContinueFacts ==
  ASSUME script \in Scripts, now \in Nat, NEW s, NEW n, NEW m \in Nat, NEW b,
         NEW g, Segment(g), Follows(s, g, m),
         ScriptInv(s, n, 0, 0), QueueInv(s, m, b), Aggregating(s)
  PROVE  Compared(s, ContinueOutboundAggregation(s, g), n, m, b)
<1> DEFINE u == [s EXCEPT !.compared = Append(@, g.number)]
           agg == s.aggExpectedOutbound
           t == ContinueOutboundAggregation(s, g)
<1>1. /\ IsApp(s) /\ ScriptTypes(s) /\ s.error = "" /\ s.ran = n
      /\ Counted(s) /\ OneAtATime(s, 0, 0) /\ Over(s, 0, 0)
  BY DEF ScriptInv
<1>2. s.met \in Nat /\ s.outboundPackets \in Seq(Expectations) /\ agg \in Aggregates
  BY <1>1 DEF ScriptTypes
<1>3. s.met \in Nat /\ Len(s.outboundPackets) \in Nat
  <2>1. Len(s.outboundPackets) \in Nat
    BY <1>2
  <2> QED BY <1>2, <2>1
<1>4. agg.remaining \in Nat /\ agg.nextSeq \in Nat /\ g.size \in Nat /\ DOMAIN agg = {"fin", "remaining", "nextSeq"}
  BY <1>2 DEF Aggregates, Segment
<1>5. /\ IsApp(u) /\ SameButCompared(s, u, g) /\ SameButWaits(s, u) /\ u.slipped = s.slipped
      /\ u.outboundPackets = s.outboundPackets /\ u.aggExpectedOutbound = agg /\ u.met = s.met
  BY <1>1 DEF IsApp, Names, SameButCompared, SameButWaits
<1>6. "datagram" # ""
  OBVIOUS
<1>7. ~s.slipped => s.eventTimer = Off /\ ~s.codeEventPending
  BY <1>1 DEF OneAtATime, Settled
<1>8. s.scriptComplete => s.slipped /\ s.outboundPackets = <<>>
  BY <1>1 DEF Over
<1>9. CASE t = Throw(s, "datagram")
  BY <1>6, <1>9, ComparedThrow
<1> DEFINE goes == ~(g.size = 0 \/ g.seq # agg.nextSeq \/ g.size > agg.remaining)
<1>10. CASE goes /\ g.size < agg.remaining
  <2> DEFINE w == [u EXCEPT !.aggExpectedOutbound.remaining = @ - g.size,
                            !.aggExpectedOutbound.nextSeq = @ + g.size]
             some == w.aggExpectedOutbound
  <2>1. t = w
    BY <1>10 DEF ContinueOutboundAggregation
  <2> HIDE DEF u, t, agg
  <2>3. /\ IsApp(w) /\ some = [agg EXCEPT !.remaining = @ - g.size, !.nextSeq = @ + g.size]
        /\ w.receivedPackets = u.receivedPackets /\ w.partialRead = u.partialRead /\ w.arrivals = u.arrivals
        /\ w.compared = u.compared /\ w.consumed = u.consumed /\ w.expectedMessageSize = u.expectedMessageSize
        /\ w.recvFromSet = u.recvFromSet
        /\ w.outboundPackets = u.outboundPackets /\ w.met = u.met /\ w.slipped = u.slipped
        /\ SameButWaits(u, w)
    BY <1>4, <1>5 DEF IsApp, Names, SameButWaits
  <2> HIDE DEF w
  <2>2. some \in Aggregates /\ some # NoAggregate
    <3>0. some = [agg EXCEPT !.remaining = @ - g.size, !.nextSeq = @ + g.size]
      BY <2>3
    <3>3. agg.remaining - g.size \in Nat /\ agg.nextSeq + g.size \in Nat
      BY <1>4, <1>10
    <3> HIDE DEF some
    <3>1. some.remaining = agg.remaining - g.size /\ some \in Aggregates
      BY <1>2, <3>0, <3>3 DEF Aggregates
    <3>2. agg.remaining - g.size # 0 /\ NoAggregate.remaining = 0
      BY <1>4, <1>10 DEF NoAggregate
    <3> QED BY <3>1, <3>2
  <2>4. SameButCompared(s, w, g) /\ SameButWaits(s, w) /\ w.slipped = s.slipped
    BY <1>5, <2>3 DEF SameButCompared, SameButWaits
  <2>5. w.outboundPackets = s.outboundPackets /\ w.met = s.met /\ Aggregating(w)
    BY <1>5, <2>2, <2>3 DEF Aggregating
  <2>6. Waits(w)
    BY <1>2, <2>2, <2>3, <2>5 DEF Waits
  <2>7. Sum3(w, 0) = Sum3(s, 0)
    <3>1. One(Aggregating(w)) = 1 /\ One(Aggregating(s)) = 1
      BY <2>5, OneFacts
    <3>2. w.met = s.met /\ w.outboundPackets = s.outboundPackets
      BY <2>5
    <3> QED BY <1>3, <3>1, <3>2 DEF Sum3
  <2>8. ScriptInv(w, n, 0, 0)
    BY <1>7, <1>8, <2>4, <2>5, <2>6, <2>7, WaitsChange
  <2>9. QueueInv(w, m, b)
    BY <2>4, ComparedKeeps
  <2>10. Counted(w) /\ w.ran = n
    BY <2>8 DEF ScriptInv
  <2>11. w.eventTimer = Off => Waiting(w)
    BY <2>5 DEF Waiting
  <2>12. w.receivedPackets = s.receivedPackets
    BY <2>4 DEF SameButCompared
  <2> QED BY <2>1, <2>5, <2>8, <2>9, <2>10, <2>11, <2>12 DEF Compared, t
<1>11. CASE goes /\ ~(g.size < agg.remaining) /\ agg.fin # g.fin
  <2> DEFINE w == [u EXCEPT !.aggExpectedOutbound = NoAggregate]
  <2>1. t = Throw(w, "datagram")
    BY <1>11 DEF ContinueOutboundAggregation
  <2> HIDE DEF u, t
  <2>2. /\ IsApp(w) /\ w.eventCounter = u.eventCounter /\ w.eventTimer = u.eventTimer /\ w.ran = u.ran
        /\ w.receivedPackets = u.receivedPackets
    BY <1>5 DEF IsApp, Names
  <2> HIDE DEF w
  <2>3. Counted(w) /\ w.ran = n /\ w.receivedPackets = s.receivedPackets
    BY <1>1, <1>5, <2>2 DEF Counted, SameButWaits, SameButCompared
  <2>4. t.error # "" /\ t.ran = w.ran /\ Counted(t) /\ t.receivedPackets = w.receivedPackets
    BY <1>6, <2>1, <2>2, <2>3, ThrowFacts
  <2> QED BY <2>3, <2>4 DEF Compared, t
<1>12. CASE goes /\ ~(g.size < agg.remaining) /\ agg.fin = g.fin
  <2> DEFINE w == [u EXCEPT !.aggExpectedOutbound = NoAggregate, !.met = @ + 1]
  <2>1. t = AdvanceOrComplete(w)
    BY <1>12 DEF ContinueOutboundAggregation
  <2> HIDE DEF u, t
  <2>3. /\ IsApp(w) /\ w.aggExpectedOutbound = NoAggregate
        /\ w.receivedPackets = u.receivedPackets /\ w.partialRead = u.partialRead /\ w.arrivals = u.arrivals
        /\ w.compared = u.compared /\ w.consumed = u.consumed /\ w.expectedMessageSize = u.expectedMessageSize
        /\ w.recvFromSet = u.recvFromSet
        /\ w.outboundPackets = u.outboundPackets /\ w.met = u.met + 1 /\ w.slipped = u.slipped
        /\ SameButWaits(u, w)
    BY <1>5 DEF IsApp, Names, SameButWaits
  <2> HIDE DEF w
  <2>4. SameButCompared(s, w, g) /\ SameButWaits(s, w) /\ w.slipped = s.slipped
    BY <1>5, <2>3 DEF SameButCompared, SameButWaits
  <2>5. w.outboundPackets = s.outboundPackets /\ w.met = s.met + 1
    BY <1>5, <2>3
  <2>6. ~Aggregating(w)
    BY <2>3 DEF Aggregating
  <2>7. Waits(w)
    <3>1. NoAggregate \in Aggregates
      BY DEF NoAggregate, Aggregates
    <3> QED BY <1>2, <2>3, <2>5, <3>1 DEF Waits
  <2>8. Sum3(w, 0) = Sum3(s, 0)
    <3> DEFINE len == Len(s.outboundPackets)
    <3>1. One(Aggregating(w)) = 0 /\ One(Aggregating(s)) = 1
      BY <2>6, OneFacts
    <3>2. Sum3(w, 0) = (s.met + 1) + len + 0 + 0
      BY <2>5, <3>1 DEF Sum3
    <3>3. Sum3(s, 0) = s.met + len + 1 + 0
      BY <3>1 DEF Sum3
    <3>4. s.met \in Nat /\ len \in Nat
      BY <1>3
    <3> HIDE DEF len
    <3> QED BY <3>2, <3>3, <3>4
  <2>9. ScriptInv(w, n, 0, 0)
    BY <1>7, <1>8, <2>4, <2>5, <2>6, <2>7, <2>8, WaitsChange
  <2>10. QueueInv(w, m, b)
    BY <2>4, ComparedKeeps
  <2>11. w.receivedPackets = s.receivedPackets
    BY <2>4 DEF SameButCompared
  <2>12. Compared(s, AdvanceOrComplete(w), n, m, b)
    BY <2>5, <2>6, <2>9, <2>10, <2>11, ComparedAdvance
  <2> QED BY <2>1, <2>12 DEF t
<1>13. t = Throw(s, "datagram") \/ goes
  BY DEF ContinueOutboundAggregation
<1> QED BY <1>9, <1>10, <1>11, <1>12, <1>13

-----------------------------------------------------------------------------
(* Captured segments.                                                      *)

TakeOut(s, k) == [s EXCEPT !.receivedPackets = Without(@, k)]

\* The first captured segment, once taken out, comes before all that stay.
LEMMA TakenOut ==
  ASSUME NEW s, NEW n, NEW d, NEW c, ScriptInv(s, n, d, c), NEW m, NEW b, QueueInv(s, m, b),
         CapturedIn(s.receivedPackets) # {},
         NEW k, k = FirstCaptured(s.receivedPackets), NEW r, r = TakeOut(s, k)
  PROVE  LET g == s.receivedPackets[k]
         IN /\ ScriptInv(r, n, d, c) /\ QueueInv(r, m, b) /\ Segment(g) /\ Follows(r, g, m)
            /\ r.slipped = s.slipped /\ r.outboundPackets = s.outboundPackets
            /\ (Aggregating(r) <=> Aggregating(s))
            /\ Len(r.receivedPackets) = Len(s.receivedPackets) - 1
<1> DEFINE q == s.receivedPackets
           w == Without(q, k)
           g == q[k]
           l == Len(q)
<1>1. q \in Seq(Packets) /\ InOrder(q, s, m) /\ s.partialRead \in Parts
  BY DEF QueueInv, Ordered
<1>2. /\ k \in CapturedIn(q) /\ k \in 1 .. l /\ g \in Packets /\ ~g.app
      /\ \A j \in CapturedIn(q) : k <= j
  BY <1>1, FirstFacts
<1>3. w \in Seq(Packets) /\ Len(w) = l - 1 /\ Leaves(q, w, l, k)
  <2> HIDE DEF w
  <2> QED BY <1>1, <1>2, WithoutFacts DEF w
<1>4. /\ IsApp(r) /\ r.receivedPackets = w /\ r.partialRead = s.partialRead /\ r.arrivals = s.arrivals
      /\ r.compared = s.compared /\ r.consumed = s.consumed /\ r.expectedMessageSize = s.expectedMessageSize
      /\ r.recvFromSet = s.recvFromSet /\ SameScript(s, r)
  <2>1. IsApp(s)
    BY DEF ScriptInv
  <2> HIDE DEF w
  <2> QED BY <2>1 DEF IsApp, Names, SameScript, TakeOut, w
<1>5. ScriptInv(r, n, d, c)
  BY <1>4, ScriptSame
<1>6. /\ r.slipped = s.slipped /\ r.outboundPackets = s.outboundPackets
      /\ (Aggregating(r) <=> Aggregating(s))
  BY <1>4 DEF SameScript, Aggregating
<1>7. Segment(g)
  BY <1>2 DEF Segment, Packets
<1>8. /\ InOrder(w, s, m) /\ (CapturedIn(q) = {} => CapturedIn(w) = {})
      /\ \A part : ReadInOrder(q, part) => ReadInOrder(w, part)
  <2> HIDE DEF w, q, l
  <2>1. Chosen(w, q, l)
    BY <1>1, <1>2, <1>3, LeavesChosen DEF l
  <2> QED BY <1>1, <1>3, <2>1, ChosenKeeps DEF l
<1>9. UnreadBytes(s.partialRead, w) = UnreadBytes(s.partialRead, q)
  <2> HIDE DEF w, q, l, g
  <2>1. UnreadBytes(s.partialRead, w) = UnreadBytes(s.partialRead, q) - Unread(s.partialRead, g)
    BY <1>1, <1>2, <1>3, UnreadLeaves DEF l, g
  <2>2. Unread(s.partialRead, g) = 0 /\ UnreadBytes(s.partialRead, q) \in Int
    BY <1>1, <1>2, UnreadInteger, UnreadFacts
  <2> QED BY <2>1, <2>2
<1>10. Follows(r, g, m)
  <2>1. g.number <= m /\ \A i \in DOMAIN s.compared : s.compared[i] < g.number
    BY <1>1, <1>2 DEF InOrder
  <2>2. l \in Nat /\ DOMAIN q = 1 .. l /\ DOMAIN w = 1 .. l - 1
    BY <1>1, <1>3
  <2> HIDE DEF w, l
  <2>3. ASSUME NEW i \in CapturedIn(w) PROVE g.number < w[i].number
    <3>1. i \in 1 .. l - 1 /\ ~w[i].app
      BY <2>2 DEF CapturedIn
    <3>2. CASE i < k
      <4>1. w[i] = q[i] /\ i \in 1 .. l
        BY <1>3, <2>2, <3>1, <3>2 DEF Leaves
      <4>2. i \in CapturedIn(q)
        BY <2>2, <3>1, <4>1 DEF CapturedIn
      <4> QED BY <1>2, <3>1, <3>2, <4>2
    <3>3. CASE i >= k
      <4>1. w[i] = q[i + 1] /\ i + 1 \in 1 .. l /\ k < i + 1
        BY <1>2, <1>3, <2>2, <3>1, <3>3 DEF Leaves
      <4>2. i + 1 \in CapturedIn(q)
        BY <2>2, <3>1, <4>1 DEF CapturedIn
      <4> QED BY <1>1, <1>2, <4>1, <4>2 DEF InOrder
    <3> QED BY <1>2, <3>1, <3>2, <3>3
  <2> QED BY <1>4, <2>1, <2>3 DEF Follows
<1>11. InOrder(w, r, m)
  <2> HIDE DEF w
  <2> QED BY <1>4, <1>8 DEF InOrder
<1> HIDE DEF w, g
<1>12. Ordered(r, m)
  BY <1>4, <1>11 DEF QueueInv, Ordered
<1>13. AvailableAppBytes(r) = AvailableAppBytes(s)
  BY <1>4, <1>9 DEF AvailableAppBytes
<1>14. QueueInv(r, m, b)
  BY <1>3, <1>4, <1>8, <1>12, <1>13 DEF QueueInv
<1> QED BY <1>3, <1>4, <1>5, <1>6, <1>7, <1>10, <1>14 DEF g

OutboundBack(s) == s.outboundPackets # <<>> => CapturedIn(s.receivedPackets) = {}
Draining(s, n, m, b) ==
  /\ Counted(s) /\ s.ran = n
  /\ s.error = "" => ScriptInv(s, n, 0, 0) /\ QueueInv(s, m, b) /\ OutboundBack(s)
NoError(s) == s.error = ""
DrainsOn(s) == Aggregating(s) /\ CapturedIn(s.receivedPackets) # {} /\ s.error = ""

\* A captured slice is compared, one fewer is left.
LEMMA DrainSliceFacts ==
  ASSUME script \in Scripts, now \in Nat, NEW s, NEW n, NEW m \in Nat, NEW b, Draining(s, n, m, b)
  PROVE  LET t == DrainSlice(s)
         IN /\ Draining(t, n, m, b)
            /\ ~DrainsOn(s) => t = s
            /\ DrainsOn(s) /\ t.error = "" => Len(t.receivedPackets) = Len(s.receivedPackets) - 1
<1> DEFINE t == DrainSlice(s)
<1>1. CASE ~DrainsOn(s)
  <2>1. t = s
    BY <1>1 DEF DrainsOn, DrainSlice
  <2> HIDE DEF t
  <2> QED BY <1>1, <2>1 DEF t
<1>2. CASE DrainsOn(s)
  <2> DEFINE q == s.receivedPackets
             k == FirstCaptured(q)
             r == [s EXCEPT !.receivedPackets = Without(@, k)]
             g == q[k]
  <2>1. t = ContinueOutboundAggregation(r, g)
    BY <1>2 DEF DrainsOn, DrainSlice
  <2>2. CapturedIn(q) # {} /\ Aggregating(s)
    BY <1>2 DEF DrainsOn
  <2>3. ScriptInv(s, n, 0, 0) /\ QueueInv(s, m, b) /\ OutboundBack(s)
    BY <1>2 DEF DrainsOn, Draining
  <2>4. s.outboundPackets = <<>>
    BY <2>2, <2>3 DEF OutboundBack
  <2>0. k = FirstCaptured(s.receivedPackets) /\ r = TakeOut(s, k)
    BY DEF TakeOut
  <2> HIDE DEF k, r, t
  <2>5. /\ ScriptInv(r, n, 0, 0) /\ QueueInv(r, m, b) /\ Segment(g) /\ Follows(r, g, m)
        /\ r.outboundPackets = s.outboundPackets
        /\ (Aggregating(r) <=> Aggregating(s))
        /\ Len(r.receivedPackets) = Len(q) - 1
    BY <2>0, <2>2, <2>3, TakenOut
  <2> HIDE DEF q, g
  <2>6. Compared(r, t, n, m, b)
    BY <2>1, <2>2, <2>5, ContinueFacts
  <2>7. /\ Counted(t) /\ t.ran = n /\ t.receivedPackets = r.receivedPackets
        /\ t.error = "" => /\ ScriptInv(t, n, 0, 0) /\ QueueInv(t, m, b) /\ t.outboundPackets = <<>>
    BY <2>4, <2>5, <2>6 DEF Compared
  <2>8. Draining(t, n, m, b)
    BY <2>7 DEF Draining, OutboundBack
  <2> QED BY <1>2, <2>5, <2>7, <2>8 DEF t, q
<1> QED BY <1>1, <1>2

Drains(f, s, n) == /\ f = [i \in 0 .. n |-> f[i]] /\ f[0] = s
                   /\ \A i \in 1 .. n : f[i] = DrainSlice(f[i - 1])

\* The recursion of the loop over the captured slices has a solution.
LEMMA DrainsExist ==
  ASSUME NEW n \in Nat, NEW s
  PROVE  \E f : Drains(f, s, n)
<1> DEFINE G == {k \in 0 .. n : \E f : Drains(f, s, k)}
<1>1. 0 \in G
  <2> DEFINE f == [i \in 0 .. 0 |-> s]
  <2>1. f = [i \in 0 .. 0 |-> f[i]] /\ f[0] = s
    OBVIOUS
  <2> HIDE DEF f
  <2>2. Drains(f, s, 0)
    BY <2>1 DEF Drains
  <2> QED BY <2>2
<1>2. ASSUME NEW k \in 1 .. n, k - 1 \in G
      PROVE  k \in G
  <2>1. PICK f : Drains(f, s, k - 1)
    BY <1>2
  <2> DEFINE last == DrainSlice(f[k - 1])
             next == [i \in 0 .. k |-> IF i < k THEN f[i] ELSE last]
  <2>2. \A i \in 0 .. k - 1 : next[i] = f[i]
    OBVIOUS
  <2>3. next[k] = last /\ next = [i \in 0 .. k |-> next[i]]
    <3> HIDE DEF last
    <3> QED OBVIOUS
  <2> HIDE DEF next
  <2>4. ASSUME NEW i \in 1 .. k PROVE next[i] = DrainSlice(next[i - 1])
    <3>1. i - 1 \in 0 .. k - 1
      OBVIOUS
    <3>2. CASE i = k
      BY <2>2, <2>3, <3>1, <3>2
    <3>3. CASE i < k
      <4>1. i \in 1 .. k - 1 /\ i \in 0 .. k - 1
        BY <3>3
      <4>2. f[i] = DrainSlice(f[i - 1])
        BY <2>1, <4>1 DEF Drains
      <4> QED BY <2>2, <3>1, <4>1, <4>2
    <3> QED BY <3>2, <3>3
  <2>5. next[0] = s
    BY <2>1, <2>2 DEF Drains
  <2>6. Drains(next, s, k)
    BY <2>3, <2>4, <2>5 DEF Drains
  <2> QED BY <2>6
<1> HIDE DEF G
<1>3. n \in 0 .. n
  OBVIOUS
<1>4. n \in G
  BY <1>1, <1>2, <1>3, UpTo
<1> QED BY <1>4 DEF G

\* What it is after the last round is what DrainSlices returns.
LEMMA DrainsIs ==
  ASSUME NEW s, Len(s.receivedPackets) \in Nat
  PROVE  LET n == Len(s.receivedPackets) IN \E f : Drains(f, s, n) /\ DrainSlices(s) = f[n]
<1> DEFINE n == Len(s.receivedPackets)
           Drain(f) == f = [i \in 0 .. n |-> IF i = 0 THEN s ELSE DrainSlice(f[i - 1])]
<1>1. PICK g : Drains(g, s, n)
  BY DrainsExist
<1>2. Drain(g)
  <2>1. ASSUME NEW i \in 0 .. n
        PROVE  g[i] = IF i = 0 THEN s ELSE DrainSlice(g[i - 1])
    <3> HIDE DEF n
    <3>2. CASE i = 0
      BY <1>1, <3>2 DEF Drains
    <3>3. CASE i # 0
      <4>1. i \in 1 .. n
        BY <3>3
      <4> QED BY <1>1, <3>3, <4>1 DEF Drains
    <3> QED BY <3>2, <3>3
  <2>2. g = [i \in 0 .. n |-> g[i]]
    BY <1>1 DEF Drains
  <2> HIDE DEF n
  <2> QED BY <2>1, <2>2
<1>3. PICK f : f = (CHOOSE h : Drain(h)) /\ Drain(f)
  BY <1>2
<1>4. DrainSlices(s) = f[n]
  BY <1>3 DEF DrainSlices
<1>5. Drains(f, s, n)
  <2> DEFINE F(i) == IF i = 0 THEN s ELSE DrainSlice(f[i - 1])
             h == [i \in 0 .. n |-> F(i)]
  <2>1. /\ h = [i \in 0 .. n |-> h[i]] /\ h[0] = s
        /\ \A i \in 1 .. n : h[i] = DrainSlice(f[i - 1])
    <3>1. F(0) = s /\ \A i \in 1 .. n : F(i) = DrainSlice(f[i - 1])
      OBVIOUS
    <3>2. 0 \in 0 .. n /\ \A i \in 1 .. n : i \in 0 .. n
      OBVIOUS
    <3> HIDE DEF n, F
    <3>3. h = [i \in 0 .. n |-> h[i]] /\ h[0] = F(0) /\ \A i \in 1 .. n : h[i] = F(i)
      BY <3>2
    <3> QED BY <3>1, <3>3
  <2>2. f = h
    BY <1>3
  <2> HIDE DEF h
  <2> QED BY <2>1, <2>2 DEF Drains
<1> QED BY <1>4, <1>5

\* Nothing that could go into the super-segment is left behind.
LEMMA DrainSlicesFacts ==
  ASSUME script \in Scripts, now \in Nat, NEW s, NEW n, NEW m \in Nat, NEW b, Draining(s, n, m, b),
         s.receivedPackets \in Seq(Packets)
  PROVE  Keeps(DrainSlices(s), n, m, b)
<1> DEFINE q == s.receivedPackets
           l == Len(q)
<1>1. l \in Nat
  OBVIOUS
<1>2. PICK f : Drains(f, s, l) /\ DrainSlices(s) = f[l]
  BY <1>1, DrainsIs
<1> HIDE DEF l
<1> DEFINE G == {i \in 0 .. l : /\ Draining(f[i], n, m, b)
                                /\ DrainsOn(f[i]) => Len(f[i].receivedPackets) <= l - i}
<1>3. 0 \in G
  <2>1. f[0] = s
    BY <1>2 DEF Drains
  <2>2. Len(s.receivedPackets) <= l - 0
    BY <1>1 DEF l
  <2> QED BY <1>1, <2>1, <2>2
<1>4. ASSUME NEW i \in 1 .. l, i - 1 \in G PROVE i \in G
  <2> DEFINE r == f[i - 1]
             t == f[i]
  <2>1. t = DrainSlice(r) /\ i \in 0 .. l
    <3>1. \A j \in 1 .. l : f[j] = DrainSlice(f[j - 1])
      BY <1>2 DEF Drains
    <3> QED BY <1>1, <3>1
  <2>2. Draining(r, n, m, b) /\ (DrainsOn(r) => Len(r.receivedPackets) <= l - (i - 1))
    BY <1>4
  <2> HIDE DEF r, t
  <2>3. /\ Draining(t, n, m, b)
        /\ ~DrainsOn(r) => t = r
        /\ DrainsOn(r) /\ t.error = "" => Len(t.receivedPackets) = Len(r.receivedPackets) - 1
    BY <2>1, <2>2, DrainSliceFacts
  <2>4. DrainsOn(t) => Len(t.receivedPackets) <= l - i
    <3> SUFFICES ASSUME DrainsOn(t) PROVE Len(t.receivedPackets) <= l - i
      OBVIOUS
    <3>1. DrainsOn(r) /\ t.error = ""
      BY <2>3 DEF DrainsOn
    <3>2. r.receivedPackets \in Seq(Packets)
      <4>1. r.error = ""
        BY <3>1 DEF DrainsOn
      <4> QED BY <2>2, <4>1 DEF Draining, QueueInv
    <3>3. Len(r.receivedPackets) \in Nat
      BY <3>2
    <3>4. Len(t.receivedPackets) = Len(r.receivedPackets) - 1 /\ Len(r.receivedPackets) <= l - (i - 1)
      BY <2>2, <2>3, <3>1
    <3> QED BY <1>1, <3>3, <3>4
  <2> QED BY <2>1, <2>3, <2>4 DEF t
<1>5. l \in G
  <2> HIDE DEF G
  <2>1. l \in 0 .. l
    BY <1>1
  <2> QED BY <1>1, <1>3, <1>4, <2>1, UpTo
<1> DEFINE t == f[l]
<1>6. Draining(t, n, m, b) /\ (DrainsOn(t) => Len(t.receivedPackets) <= l - l)
  BY <1>5
<1> HIDE DEF t
<1>7. NoError(t) => CapturedIn(t.receivedPackets) = {} \/ ~Aggregating(t)
  <2> SUFFICES ASSUME NoError(t), DrainsOn(t) PROVE FALSE
    BY DEF DrainsOn, NoError
  <2>1. t.receivedPackets \in Seq(Packets)
    BY <1>6 DEF Draining, QueueInv, NoError
  <2>2. DOMAIN t.receivedPackets = 1 .. Len(t.receivedPackets) /\ Len(t.receivedPackets) \in Nat
    BY <2>1
  <2>3. DOMAIN t.receivedPackets = {}
    BY <1>1, <1>6, <2>2
  <2>4. CapturedIn(t.receivedPackets) = {}
    BY <2>3 DEF CapturedIn
  <2> QED BY <2>4 DEF DrainsOn
<1>8. t.error = "" => NoneHeldBack(t)
  BY <1>6, <1>7 DEF Draining, OutboundBack, NoneHeldBack, NoError
<1> QED BY <1>2, <1>6, <1>8 DEF Keeps, AppInv, Draining, t

\* An expected segment keeps what holds: it waits, or a captured one is compared.
LEMMA RunOutboundFacts ==
  ASSUME script \in Scripts, now \in Nat, NEW s, NEW n, NEW m \in Nat, NEW b, NEW e \in Events,
         ScriptInv(s, n, 1, 0), QueueInv(s, m, b), NoneHeldBack(s)
  PROVE  Keeps(RunOutbound(s, e), n, m, b)
<1> DEFINE q == s.receivedPackets
           k == FirstCaptured(q)
           x == Expectation(e)
           t == RunOutbound(s, e)
<1>1. IsApp(s) /\ ScriptTypes(s) /\ s.ran = n /\ Counted(s)
  BY DEF ScriptInv
<1>2. s.met \in Nat /\ s.outboundPackets \in Seq(Expectations) /\ s.aggExpectedOutbound \in Aggregates
  BY <1>1 DEF ScriptTypes
<1>3. x \in Expectations
  <2>1. e.seq \in Nat /\ e.size \in Nat /\ e.fin \in BOOLEAN /\ e.type \in {"any", "range", "relative"} /\ e.slack \in Nat
    BY DEF Events
  <2>2. now + e.slack \in Nat
    BY <2>1
  <2> QED BY <2>1, <2>2 DEF Expectation, Expectations
<1>4. ~s.scriptComplete /\ (~s.slipped => s.eventTimer = Off /\ ~s.codeEventPending)
  <2>1. 1 # 0
    OBVIOUS
  <2>2. Over(s, 1, 0) /\ OneAtATime(s, 1, 0)
    BY DEF ScriptInv
  <2> QED BY <2>1, <2>2, Zenon DEF Over, OneAtATime
<1> HIDE DEF x
<1>5. CASE CapturedIn(q) = {}
  <2> DEFINE w == [s EXCEPT !.outboundPackets = Append(@, x)]
  <2>1. t = w
    BY <1>5 DEF RunOutbound, x
  <2>2. /\ IsApp(w) /\ SameQueue(s, w) /\ SameButWaits(s, w) /\ w.slipped = s.slipped
        /\ w.outboundPackets = Append(s.outboundPackets, x)
        /\ w.aggExpectedOutbound = s.aggExpectedOutbound /\ w.met = s.met
    BY <1>1 DEF IsApp, Names, SameQueue, SameButWaits
  <2> HIDE DEF w, t
  <2>3. Waits(w)
    <3>1. Append(s.outboundPackets, x) \in Seq(Expectations)
      BY <1>2, <1>3
    <3> QED BY <1>2, <2>2, <3>1 DEF Waits
  <2>4. Sum3(w, 0) = Sum3(s, 1)
    <3> DEFINE len == Len(s.outboundPackets)
               one == One(Aggregating(s))
    <3>1. len \in Nat /\ Len(w.outboundPackets) = len + 1
      <4>1. w.outboundPackets = Append(s.outboundPackets, x)
        BY <2>2
      <4> QED BY <1>2, <1>3, <4>1
    <3>2. One(Aggregating(w)) = one /\ one \in Nat
      <4>1. Aggregating(w) <=> Aggregating(s)
        BY <2>2 DEF Aggregating
      <4> QED BY <4>1, OneFacts
    <3>3. w.met = s.met /\ s.met \in Nat
      BY <1>2, <2>2
    <3> HIDE DEF len, one
    <3>4. Sum3(w, 0) = s.met + (len + 1) + one + 0
      BY <3>1, <3>2, <3>3 DEF Sum3
    <3>5. Sum3(s, 1) = s.met + len + one + 1
      BY DEF Sum3, len, one
    <3> QED BY <3>1, <3>2, <3>3, <3>4, <3>5
  <2>5. ScriptInv(w, n, 0, 0)
    BY <1>4, <2>2, <2>3, <2>4, WaitsChange
  <2>6. QueueInv(w, m, b)
    BY <2>2, QueueSame
  <2>7. NoneHeldBack(w)
    BY <1>5, <2>2 DEF NoneHeldBack, SameQueue
  <2>8. Counted(w) /\ w.ran = n
    BY <2>5 DEF ScriptInv
  <2> QED BY <2>1, <2>5, <2>6, <2>7, <2>8 DEF Keeps, AppInv, t
<1>6. CASE CapturedIn(q) # {} /\ ~VerifyTime(x, q[k].at)
  <2>1. t = Throw(s, "time")
    BY <1>6 DEF RunOutbound, x
  <2>2. "time" # ""
    OBVIOUS
  <2> HIDE DEF t
  <2> QED BY <1>1, <2>1, <2>2, ThrowFacts DEF t
<1>7. CASE CapturedIn(q) # {} /\ VerifyTime(x, q[k].at)
  <2> DEFINE r == TakeOut(s, k)
             u == StartOutboundComparison(r, x, q[k])
  <2>1. t = DrainSlices(u)
    BY <1>7 DEF RunOutbound, TakeOut, x
  <2>2. k = FirstCaptured(s.receivedPackets) /\ r = TakeOut(s, k) /\ CapturedIn(s.receivedPackets) # {}
    BY <1>7
  <2> HIDE DEF k, r, t
  <2>3. /\ ScriptInv(r, n, 1, 0) /\ QueueInv(r, m, b) /\ Segment(q[k]) /\ Follows(r, q[k], m)
        /\ r.slipped = s.slipped /\ r.outboundPackets = s.outboundPackets
        /\ (Aggregating(r) <=> Aggregating(s))
    BY <2>2, TakenOut
  <2>4. ~Aggregating(s) /\ s.outboundPackets = <<>>
    BY <1>7 DEF NoneHeldBack
  <2> HIDE DEF u
  <2>5. Compared(r, u, n, m, b)
    BY <1>3, <2>3, <2>4, StartFacts DEF u
  <2>6. Draining(u, n, m, b)
    BY <2>3, <2>4, <2>5 DEF Compared, Draining, OutboundBack
  <2>7. u.receivedPackets \in Seq(Packets)
    BY <2>3, <2>5 DEF Compared, QueueInv
  <2>8. Keeps(DrainSlices(u), n, m, b)
    BY <2>6, <2>7, DrainSlicesFacts
  <2> QED BY <2>1, <2>8 DEF t
<1> QED BY <1>5, <1>6, <1>7

-----------------------------------------------------------------------------
(* The calls that read.                                                    *)

\* What a call may do to the app without more to be said.
Leaves1(s, t) ==
  /\ SameScript(s, t) /\ t.receivedPackets = s.receivedPackets /\ t.partialRead = s.partialRead
  /\ t.arrivals = s.arrivals /\ t.compared = s.compared /\ t.consumed = s.consumed

\* A read of n bytes waits for data, or does not wait any longer.
LEMMA BlockKeeps ==
  ASSUME NEW s, NEW t, NEW n, NEW m, NEW b, AppInv(s, n, m, b), Leaves1(s, t),
         t.expectedMessageSize \in Int,
         t.recvFromSet /\ ~Uses("recvfrom") => t.expectedMessageSize \in Nat \/ ~ReadsOneWay
  PROVE  AppInv(t, n, m, b) /\ Keeps(t, n, m, b)
<1>1. ScriptInv(t, n, 0, 0)
  BY ScriptSame DEF AppInv, Leaves1
<1>2. Ordered(t, m)
  BY DEF AppInv, QueueInv, Leaves1, Ordered, InOrder
<1>3. AvailableAppBytes(t) = AvailableAppBytes(s)
  BY DEF Leaves1, AvailableAppBytes
<1>4. QueueInv(t, m, b)
  <2>1. QueueInv(s, m, b)
    BY DEF AppInv
  <2> QED BY <1>2, <1>3, <2>1 DEF QueueInv, Leaves1
<1>5. NoneHeldBack(t)
  BY DEF AppInv, NoneHeldBack, Aggregating, Leaves1, SameScript
<1>6. AppInv(t, n, m, b)
  BY <1>1, <1>4, <1>5 DEF AppInv
<1> QED BY <1>6 DEF Keeps, AppInv, ScriptInv

\* To do nothing keeps what holds.
LEMMA KeepsSame ==
  ASSUME NEW s, NEW n, NEW m, NEW b, AppInv(s, n, m, b)
  PROVE  Keeps(s, n, m, b)
BY DEF Keeps, AppInv, ScriptInv

\* And so does to stop with an error.
LEMMA KeepsThrow ==
  ASSUME NEW s, NEW n, NEW m, NEW b, AppInv(s, n, m, b), NEW what, what # ""
  PROVE  Keeps(Throw(s, what), n, m, b)
<1>1. IsApp(s) /\ Counted(s) /\ s.ran = n
  BY DEF AppInv, ScriptInv
<1> QED BY <1>1, ThrowFacts

\* A read that finds too little waits for l bytes.
LEMMA BlocksFacts ==
  ASSUME NEW s, NEW n, NEW m, NEW b, AppInv(s, n, m, b), NEW l \in Int,
         ~Uses("recvfrom") => l \in Nat \/ ~ReadsOneWay
  PROVE  Keeps(Blocks(s, l), n, m, b) /\ Keeps(BlocksOnNothing(s, l), n, m, b)
<1>1. IsApp(s)
  BY DEF AppInv, ScriptInv
<1> DEFINE t == Blocks(s, l)
           u == BlocksOnNothing(s, l)
<1>2. Leaves1(s, t) /\ t.expectedMessageSize = l
  BY <1>1 DEF Blocks, Leaves1, SameScript, IsApp, Names
<1>3. Leaves1(s, u) /\ u.expectedMessageSize = l
  BY <1>1 DEF BlocksOnNothing, Leaves1, SameScript, IsApp, Names
<1> HIDE DEF t, u
<1>4. Keeps(t, n, m, b)
  BY <1>2, BlockKeeps
<1>5. Keeps(u, n, m, b)
  BY <1>3, BlockKeeps
<1> QED BY <1>4, <1>5 DEF t, u

\* count bytes are read off the stream.
LEMMA ConsumeKeeps ==
  ASSUME NEW s, NEW n, NEW m, NEW b, AppInv(s, n, m, b), NEW count \in Int,
         ReadsOneWay => count >= 0 /\ count <= AvailableAppBytes(s) /\ ~Uses("recvfrom")
  PROVE  LET t == ConsumeAppBytes(s, count)
         IN /\ AppInv(t, n, m, b) /\ Keeps(t, n, m, b)
            /\ t.expectedMessageSize = s.expectedMessageSize /\ t.recvFromSet = s.recvFromSet
            /\ SameScript(s, t) /\ t.socketOptionsArrived = s.socketOptionsArrived
            /\ AvailableAppBytes(t) \in Int
<1> DEFINE q == s.receivedPackets
           old == s.partialRead
           l == Len(q)
           t == ConsumeAppBytes(s, count)
<1>1. ScriptInv(s, n, 0, 0) /\ QueueInv(s, m, b) /\ NoneHeldBack(s) /\ IsApp(s)
  BY DEF AppInv, ScriptInv
<1>2. /\ q \in Seq(Packets) /\ old \in Parts /\ s.arrivals \in Nat /\ s.consumed \in Int /\ s.compared \in Seq(Nat)
      /\ s.expectedMessageSize \in Int /\ InOrder(q, s, m)
      /\ Ascending(s.compared) /\ \A k \in DOMAIN s.compared : s.compared[k] <= m
  BY <1>1 DEF QueueInv, Ordered
<1>3. PICK kept \in Seq(Packets), part \in Parts :
        /\ t = [s EXCEPT !.receivedPackets = kept, !.partialRead = part,
                         !.msgArrived = kept # <<>>, !.consumed = @ + count]
        /\ Chosen(kept, q, l)
        /\ Distinct(q) /\ ReadInOrder(q, old) /\ count >= 0 /\ count <= AvailableAppBytes(s) =>
             /\ UnreadBytes(part, kept) = AvailableAppBytes(s) - count
             /\ ReadInOrder(kept, part)
        /\ \A last \in Nat :
             old.id <= last /\ (\A j \in DOMAIN q : q[j].id <= last) => part.id <= last
  BY <1>2, ConsumeFacts
<1>4. /\ t.receivedPackets = kept /\ t.partialRead = part /\ t.consumed = s.consumed + count
      /\ t.arrivals = s.arrivals /\ t.compared = s.compared /\ t.expectedMessageSize = s.expectedMessageSize
      /\ t.recvFromSet = s.recvFromSet /\ t.socketOptionsArrived = s.socketOptionsArrived /\ SameScript(s, t)
  BY <1>1, <1>3 DEF SameScript, IsApp, Names
<1> HIDE DEF t
<1>5. Distinct(q)
  <2>1. \A i \in DOMAIN q : q[i].id \in 1 .. s.arrivals
    BY <1>2 DEF InOrder
  <2> QED BY <1>2, <2>1 DEF InOrder, Distinct
<1>6. InOrder(kept, s, m) /\ (CapturedIn(q) = {} => CapturedIn(kept) = {})
  BY <1>2, <1>3, ChosenKeeps
<1>7. Ordered(t, m)
  BY <1>2, <1>4, <1>6 DEF Ordered, InOrder
<1>8. AvailableAppBytes(t) = UnreadBytes(part, kept) /\ UnreadBytes(part, kept) \in Int
  BY <1>4, UnreadFacts DEF AvailableAppBytes
<1>9. AvailableAppBytes(s) \in Int
  BY <1>2, UnreadFacts DEF AvailableAppBytes
<1>10. ASSUME ReadsOneWay
       PROVE  /\ ReadInOrder(kept, part) /\ ~Uses("recvfrom")
              /\ t.recvFromSet => t.expectedMessageSize \in Nat
              /\ t.consumed + AvailableAppBytes(t) = b
  <2>1. /\ ReadInOrder(q, old) /\ s.consumed + AvailableAppBytes(s) = b
        /\ s.recvFromSet /\ ~Uses("recvfrom") => s.expectedMessageSize \in Nat
    BY <1>1, <1>10 DEF QueueInv
  <2>2. count >= 0 /\ count <= AvailableAppBytes(s) /\ ~Uses("recvfrom")
    BY <1>10
  <2>3. UnreadBytes(part, kept) = AvailableAppBytes(s) - count /\ ReadInOrder(kept, part)
    BY <1>3, <1>5, <2>1, <2>2
  <2>4. t.consumed + AvailableAppBytes(t) = b
    BY <1>2, <1>4, <1>8, <1>9, <2>1, <2>3
  <2> QED BY <1>4, <2>1, <2>2, <2>3, <2>4
<1>11. script.protocol # "tcp" => CapturedIn(kept) = {}
  BY <1>1, <1>6 DEF QueueInv
<1>12. t.consumed \in Int
  BY <1>2, <1>4
<1>13. t.partialRead.id <= t.arrivals
  <2>1. \A j \in DOMAIN q : q[j].id <= s.arrivals
    <3>1. \A j \in DOMAIN q : q[j].id \in 1 .. s.arrivals
      BY <1>2 DEF InOrder
    <3> QED BY <1>2, <3>1
  <2>2. old.id <= s.arrivals
    BY <1>1 DEF QueueInv
  <2> QED BY <1>2, <1>3, <1>4, <2>1, <2>2
<1>14. QueueInv(t, m, b)
  BY <1>2, <1>4, <1>7, <1>10, <1>11, <1>12, <1>13 DEF QueueInv
<1>15. ScriptInv(t, n, 0, 0)
  BY <1>1, <1>4, ScriptSame
<1>16. NoneHeldBack(t)
  BY <1>1, <1>4, <1>6 DEF NoneHeldBack, Aggregating, SameScript
<1>17. AppInv(t, n, m, b)
  BY <1>14, <1>15, <1>16 DEF AppInv
<1>18. Keeps(t, n, m, b)
  BY <1>17, KeepsSame
<1> QED BY <1>4, <1>8, <1>17, <1>18 DEF t

\* A read() without bytes drops an expectation, and with it the script slips.
LEMMA ReadOfNothingFacts ==
  ASSUME NEW s, NEW n, NEW m, NEW b, AppInv(s, n, m, b)
  PROVE  Keeps(ReadOfNothing(s), n, m, b)
<1> DEFINE t == ReadOfNothing(s)
           out == s.outboundPackets
<1>1. ScriptInv(s, n, 0, 0) /\ QueueInv(s, m, b) /\ NoneHeldBack(s) /\ IsApp(s) /\ ScriptTypes(s)
  BY DEF AppInv, ScriptInv
<1>2. CASE ~s.msgArrived
  <2>1. t = [s EXCEPT !.expectedMessageSize = 0]
    BY <1>2 DEF ReadOfNothing
  <2>2. Leaves1(s, t) /\ t.expectedMessageSize = 0
    BY <1>1, <2>1 DEF Leaves1, SameScript, IsApp, Names
  <2> HIDE DEF t
  <2> QED BY <2>2, BlockKeeps DEF t
<1>3. CASE s.msgArrived
  <2> DEFINE rest == IF out = <<>> THEN out ELSE Tail(out)
             slips == s.slipped \/ out # <<>>
  <2>1. t = [s EXCEPT !.msgArrived = FALSE, !.expectedMessageSize = 0, !.outboundPackets = rest, !.slipped = slips]
    BY <1>3 DEF ReadOfNothing
  <2>2. out \in Seq(Expectations) /\ s.aggExpectedOutbound \in Aggregates /\ s.met \in Nat
    BY <1>1 DEF ScriptTypes
  <2>3. rest \in Seq(Expectations)
    BY <2>2
  <2> HIDE DEF t, rest, slips
  <2>4. /\ IsApp(t) /\ t.outboundPackets = rest /\ t.slipped = slips /\ SameButWaits(s, t) /\ t.met = s.met
        /\ t.aggExpectedOutbound = s.aggExpectedOutbound /\ t.expectedMessageSize = 0 /\ t.recvFromSet = s.recvFromSet
        /\ t.receivedPackets = s.receivedPackets /\ t.partialRead = s.partialRead
        /\ t.arrivals = s.arrivals /\ t.compared = s.compared /\ t.consumed = s.consumed
    BY <1>1, <2>1 DEF SameButWaits, IsApp, Names
  <2>5. Waits(t)
    BY <2>2, <2>3, <2>4 DEF Waits
  <2>6. Aggregating(t) <=> Aggregating(s)
    BY <2>4 DEF Aggregating
  <2>7. (s.slipped => slips) /\ (~slips => ~s.slipped /\ rest = out /\ out = <<>>)
    BY DEF slips, rest
  <2>8. ~t.slipped => Sum3(t, 0) = Sum3(s, 0)
    BY <2>4, <2>6, <2>7 DEF Sum3, One
  <2>9. OneAtATime(s, 0, 0) /\ Over(s, 0, 0)
    BY <1>1 DEF ScriptInv
  <2>10. ~t.slipped => /\ s.eventTimer # Off => t.outboundPackets = <<>> /\ ~Aggregating(t) /\ 0 = 0
                       /\ s.codeEventPending => t.outboundPackets = <<>> /\ ~Aggregating(t) /\ 0 = 0
    BY <2>4, <2>6, <2>7, <2>9 DEF OneAtATime, Settled
  <2>11. s.scriptComplete => t.outboundPackets = <<>> /\ 0 = 0 /\ (~t.slipped => ~Aggregating(t))
    BY <2>4, <2>6, <2>7, <2>9 DEF Over, rest
  <2>12. s.slipped => t.slipped
    BY <2>4, <2>7
  <2>13. ScriptInv(t, n, 0, 0)
    BY <1>1, <2>4, <2>5, <2>8, <2>10, <2>11, <2>12, WaitsChange
  <2>14. Ordered(t, m)
    BY <1>1, <2>4 DEF QueueInv, Ordered, InOrder
  <2>15. AvailableAppBytes(t) = AvailableAppBytes(s)
    BY <2>4 DEF AvailableAppBytes
  <2>16. QueueInv(t, m, b)
    BY <1>1, <2>4, <2>14, <2>15 DEF QueueInv
  <2>17. NoneHeldBack(t)
    BY <1>1, <2>4, <2>6 DEF NoneHeldBack, rest
  <2>18. AppInv(t, n, m, b)
    BY <2>13, <2>16, <2>17 DEF AppInv
  <2> QED BY <2>18, KeepsSame DEF t
<1> QED BY <1>2, <1>3

\* A step that touches neither the script nor the queue keeps what holds.
LEMMA UntouchedKeeps ==
  ASSUME NEW s, NEW t, NEW n, NEW m, NEW b, AppInv(s, n, m, b), SameScript(s, t), SameQueue(s, t)
  PROVE  AppInv(t, n, m, b) /\ Keeps(t, n, m, b)
<1>1. ScriptInv(t, n, 0, 0) /\ QueueInv(t, m, b)
  BY ScriptSame, QueueSame DEF AppInv
<1>2. NoneHeldBack(t)
  BY DEF AppInv, NoneHeldBack, Aggregating, SameScript, SameQueue
<1>3. AppInv(t, n, m, b)
  BY <1>1, <1>2 DEF AppInv
<1> QED BY <1>3, KeepsSame

\* The numbers in the line of a call.
LEMMA Calls ==
  ASSUME NEW e \in Events
  PROVE  /\ e.result \in Int /\ e.count \in Nat /\ (e.result = -1 \/ e.result \in Nat)
         /\ e.wait \in Nat /\ e.size \in Nat /\ e.slack \in Nat
BY DEF Events

\* read() keeps what holds of the app.
LEMMA SyscallReadFacts ==
  ASSUME NEW s, NEW n, NEW m, NEW b, AppInv(s, n, m, b), NEW e \in Events
  PROVE  Keeps(SyscallRead(s, e), n, m, b)
<1> DEFINE avail == AvailableAppBytes(s)
           t == SyscallRead(s, e)
<1>1. e.result \in Int /\ (e.result = -1 \/ e.result \in Nat)
  BY Calls
<1>2. avail \in Int
  <2>1. s.receivedPackets \in Seq(Packets) /\ s.partialRead \in Parts
    BY DEF AppInv, QueueInv
  <2> QED BY <2>1, UnreadFacts DEF AvailableAppBytes
<1>3. CASE t = s
  BY <1>3, KeepsSame
<1>4. CASE t = ReadOfNothing(s)
  BY <1>4, ReadOfNothingFacts
<1>5. CASE e.result # -1 /\ (t = Blocks(s, e.result) \/ t = BlocksOnNothing(s, e.result))
  <2> HIDE DEF t
  <2> QED BY <1>1, <1>5, BlocksFacts DEF t
<1>6. CASE t = Throw(s, "length")
  <2>1. "length" # ""
    OBVIOUS
  <2> HIDE DEF t
  <2> QED BY <1>6, <2>1, KeepsThrow DEF t
<1>7. CASE /\ e.result # -1 /\ script.protocol = "tcp" /\ ~(avail < e.result)
           /\ t = [ConsumeAppBytes(s, e.result) EXCEPT !.expectedMessageSize = e.result]
  <2> DEFINE u == ConsumeAppBytes(s, e.result)
  <2>1. t = [u EXCEPT !.expectedMessageSize = e.result]
    BY <1>7
  <2>2. ReadsOneWay => ~Uses("recvfrom")
    BY <1>7 DEF ReadsOneWay
  <2>3. e.result >= 0 /\ e.result <= avail
    <3>1. e.result # -1 /\ ~(avail < e.result)
      BY <1>7
    <3> HIDE DEF avail
    <3> QED BY <1>1, <1>2, <3>1
  <2>4. AppInv(u, n, m, b)
    <3> HIDE DEF u
    <3> QED BY <1>1, <2>2, <2>3, ConsumeKeeps DEF u
  <2> HIDE DEF u, t
  <2>5. IsApp(u)
    BY <2>4 DEF AppInv, ScriptInv
  <2>6. Leaves1(u, t) /\ t.expectedMessageSize = e.result
    BY <2>1, <2>5 DEF Leaves1, SameScript, IsApp, Names
  <2>7. e.result \in Nat
    BY <1>1, <2>3
  <2> QED BY <2>4, <2>6, <2>7, BlockKeeps DEF t
<1>8. \/ t = s \/ t = ReadOfNothing(s)
      \/ e.result # -1 /\ (t = Blocks(s, e.result) \/ t = BlocksOnNothing(s, e.result))
      \/ t = Throw(s, "length")
      \/ /\ e.result # -1 /\ script.protocol = "tcp" /\ ~(avail < e.result)
         /\ t = [ConsumeAppBytes(s, e.result) EXCEPT !.expectedMessageSize = e.result]
  BY Zenon DEF SyscallRead
<1> QED BY <1>3, <1>4, <1>5, <1>6, <1>7, <1>8

\* recvmsg() keeps what holds of the app.
LEMMA SyscallRecvMsgFacts ==
  ASSUME NEW s, NEW n, NEW m, NEW b, AppInv(s, n, m, b), NEW e \in Events, Uses("recvmsg")
  PROVE  Keeps(SyscallRecvMsg(s, e), n, m, b)
<1> DEFINE avail == AvailableAppBytes(s)
           t == SyscallRecvMsg(s, e)
<1>1. e.result \in Int
  BY Calls
<1>2. avail \in Int
  <2>1. s.receivedPackets \in Seq(Packets) /\ s.partialRead \in Parts
    BY DEF AppInv, QueueInv
  <2> QED BY <2>1, UnreadFacts DEF AvailableAppBytes
<1>3. CASE t = s
  BY <1>3, KeepsSame
<1>4. CASE ~(e.result < 0) /\ (t = Blocks(s, e.result) \/ t = BlocksOnNothing(s, e.result))
  <2>1. e.result \in Nat
    BY <1>1, <1>4
  <2> HIDE DEF t
  <2> QED BY <1>1, <1>4, <2>1, BlocksFacts DEF t
<1>5. CASE /\ ~(e.result < 0) /\ ~(avail < e.result)
           /\ LET u == ConsumeAppBytes(s, e.result)
                  v == [u EXCEPT !.msgArrived = AvailableAppBytes(u) > 0, !.recvFromSet = FALSE]
              IN t = v \/ t = Throw(v, "inq")
  <2> DEFINE u == ConsumeAppBytes(s, e.result)
             some == AvailableAppBytes(u) > 0
             v == [u EXCEPT !.msgArrived = some, !.recvFromSet = FALSE]
  <2>1. t = v \/ t = Throw(v, "inq")
    BY <1>5
  <2>2. ReadsOneWay => ~Uses("recvfrom")
    BY DEF ReadsOneWay
  <2>3. e.result >= 0 /\ e.result <= avail
    <3>1. ~(e.result < 0) /\ ~(avail < e.result)
      BY <1>5
    <3> HIDE DEF avail
    <3> QED BY <1>1, <1>2, <3>1
  <2>4. AppInv(u, n, m, b)
    <3> HIDE DEF u
    <3> QED BY <1>1, <2>2, <2>3, ConsumeKeeps DEF u
  <2> HIDE DEF u, t, some
  <2>5. IsApp(u) /\ u.expectedMessageSize \in Int
    BY <2>4 DEF AppInv, ScriptInv, QueueInv
  <2>6. Leaves1(u, v) /\ v.expectedMessageSize = u.expectedMessageSize /\ ~v.recvFromSet
    BY <2>5 DEF Leaves1, SameScript, IsApp, Names
  <2> HIDE DEF v
  <2>7. AppInv(v, n, m, b) /\ Keeps(v, n, m, b)
    BY <2>4, <2>5, <2>6, BlockKeeps
  <2>8. "inq" # ""
    OBVIOUS
  <2>9. Keeps(Throw(v, "inq"), n, m, b)
    BY <2>7, <2>8, KeepsThrow
  <2> QED BY <2>1, <2>7, <2>9 DEF t
<1>6. \/ t = s
      \/ ~(e.result < 0) /\ (t = Blocks(s, e.result) \/ t = BlocksOnNothing(s, e.result))
      \/ /\ ~(e.result < 0) /\ ~(avail < e.result)
         /\ LET u == ConsumeAppBytes(s, e.result)
                v == [u EXCEPT !.msgArrived = AvailableAppBytes(u) > 0, !.recvFromSet = FALSE]
            IN t = v \/ t = Throw(v, "inq")
  BY Zenon DEF SyscallRecvMsg
<1> QED BY <1>3, <1>4, <1>5, <1>6

\* splice() keeps what holds of the app.
LEMMA SyscallSpliceFacts ==
  ASSUME NEW s, NEW n, NEW m, NEW b, AppInv(s, n, m, b), NEW e \in Events, Uses("splice")
  PROVE  Keeps(SyscallSplice(s, e), n, m, b)
<1> DEFINE avail == AvailableAppBytes(s)
           readable == IF avail < e.count THEN avail ELSE e.count
           t == SyscallSplice(s, e)
<1>1. e.result \in Int /\ e.count \in Int
  BY Calls
<1>2. avail \in Int
  <2>1. s.receivedPackets \in Seq(Packets) /\ s.partialRead \in Parts
    BY DEF AppInv, QueueInv
  <2> QED BY <2>1, UnreadFacts DEF AvailableAppBytes
<1>3. CASE t = s
  BY <1>3, KeepsSame
<1>4. CASE ~(e.result < 0) /\ t = Blocks(s, e.result)
  <2>1. e.result \in Nat
    BY <1>1, <1>4
  <2> HIDE DEF t
  <2> QED BY <1>1, <1>4, <2>1, BlocksFacts DEF t
<1>5. CASE ~(e.result < 0) /\ readable = e.result /\ t = ConsumeAppBytes(s, e.result)
  <2>2. ReadsOneWay => ~Uses("recvfrom")
    BY DEF ReadsOneWay
  <2>3. e.result >= 0 /\ e.result <= avail
    <3>1. ~(e.result < 0) /\ readable = e.result
      BY <1>5
    <3> HIDE DEF avail
    <3> QED BY <1>1, <1>2, <3>1
  <2> HIDE DEF t
  <2> QED BY <1>1, <1>5, <2>2, <2>3, ConsumeKeeps DEF t
<1>6. CASE t = Throw(s, "length")
  <2>1. "length" # ""
    OBVIOUS
  <2> HIDE DEF t
  <2> QED BY <1>6, <2>1, KeepsThrow DEF t
<1>7. \/ t = s \/ (~(e.result < 0) /\ t = Blocks(s, e.result))
      \/ (~(e.result < 0) /\ readable = e.result /\ t = ConsumeAppBytes(s, e.result))
      \/ t = Throw(s, "length")
  BY Zenon DEF SyscallSplice
<1> QED BY <1>3, <1>4, <1>5, <1>6, <1>7

-----------------------------------------------------------------------------
(* The other calls.                                                        *)

\* A packet leaves the head of the queue.
LEMMA HeadFacts ==
  ASSUME NEW s, NEW m, NEW b, QueueInv(s, m, b), s.receivedPackets # <<>>
  PROVE  LET q == s.receivedPackets
         IN /\ Head(q) \in Packets /\ Tail(q) \in Seq(Packets)
            /\ UnreadBytes(s.partialRead, Tail(q)) = AvailableAppBytes(s) - Unread(s.partialRead, Head(q))
            /\ InOrder(Tail(q), s, m)
            /\ CapturedIn(q) = {} => CapturedIn(Tail(q)) = {} /\ Head(q).app
            /\ ReadInOrder(q, s.partialRead) => ReadInOrder(Tail(q), s.partialRead)
            /\ Head(q).id # 0
<1> DEFINE q == s.receivedPackets
           part == s.partialRead
           r == Tail(q)
<1>1. q \in Seq(Packets) /\ part \in Parts /\ s.arrivals \in Nat /\ InOrder(q, s, m)
  BY DEF QueueInv, Ordered
<1>2. q # <<>>
  OBVIOUS
<1>3. AvailableAppBytes(s) = UnreadBytes(part, q)
  BY DEF AvailableAppBytes
<1>4. \A i \in DOMAIN q : q[i].id \in 1 .. s.arrivals
  BY <1>1 DEF InOrder
<1> HIDE DEF q, part
<1>5. /\ 1 \in 1 .. Len(q) /\ Head(q) = q[1] /\ r \in Seq(Packets) /\ Len(r) = Len(q) - 1
      /\ Leaves(q, r, Len(q), 1)
  BY <1>1, <1>2, TailLeaves
<1>6. 1 \in DOMAIN q /\ q[1] \in Packets
  BY <1>1, <1>5
<1> HIDE DEF r
<1>7. UnreadBytes(part, r) = UnreadBytes(part, q) - Unread(part, q[1])
  BY <1>1, <1>5, UnreadLeaves
<1>8. Chosen(r, q, Len(q))
  BY <1>1, <1>5, LeavesChosen
<1>9. /\ InOrder(r, s, m) /\ (CapturedIn(q) = {} => CapturedIn(r) = {})
      /\ (ReadInOrder(q, part) => ReadInOrder(r, part))
  <2>1. InOrder(r, s, m) /\ (CapturedIn(q) = {} => CapturedIn(r) = {})
    BY <1>1, <1>5, <1>8, ChosenKeeps
  <2>2. ReadInOrder(q, part) => ReadInOrder(r, part)
    BY <1>1, <1>5, <1>8, ChosenKeeps
  <2> QED BY <2>1, <2>2
<1>10. q[1].id # 0
  <2>1. q[1].id \in 1 .. s.arrivals
    BY <1>4, <1>6
  <2> QED BY <1>1, <2>1
<1>11. CapturedIn(q) = {} => q[1].app
  BY <1>6 DEF CapturedIn
<1> QED BY <1>3, <1>5, <1>6, <1>7, <1>9, <1>10, <1>11 DEF q, part, r

\* recvfrom() takes the message at the head of the queue.
LEMMA SyscallRecvFromFacts ==
  ASSUME NEW s, NEW n, NEW m, NEW b, AppInv(s, n, m, b), NEW e \in Events, Uses("recvfrom")
  PROVE  Keeps(SyscallRecvFrom(s, e), n, m, b)
<1> DEFINE q == s.receivedPackets
           t == SyscallRecvFrom(s, e)
<1>1. e.result \in Int
  BY Calls
<1>2. IsApp(s) /\ ScriptInv(s, n, 0, 0) /\ QueueInv(s, m, b) /\ NoneHeldBack(s)
  BY DEF AppInv, ScriptInv
<1>3. CASE t = BlocksOnNothing(s, e.result)
  <2> HIDE DEF t
  <2> QED BY <1>1, <1>3, BlocksFacts DEF t
<1>4. CASE t = Throw(s, "empty") \/ t = Throw(s, "length")
  <2>1. "length" # "" /\ "empty" # ""
    OBVIOUS
  <2>2. Keeps(Throw(s, "length"), n, m, b)
    BY <2>1, KeepsThrow
  <2>3. Keeps(Throw(s, "empty"), n, m, b)
    BY <2>1, KeepsThrow
  <2> HIDE DEF t
  <2> QED BY <1>4, <2>2, <2>3 DEF t
<1>5. CASE /\ q # <<>> /\ Head(q).size = e.result
           /\ t = [s EXCEPT !.receivedPackets = Tail(@), !.msgArrived = FALSE, !.recvFromSet = FALSE,
                            !.consumed = @ + e.result]
  <2> DEFINE r == Tail(q)
  <2>1. /\ Head(q) \in Packets /\ r \in Seq(Packets)
        /\ UnreadBytes(s.partialRead, r) = AvailableAppBytes(s) - Unread(s.partialRead, Head(q))
        /\ InOrder(r, s, m)
        /\ CapturedIn(q) = {} => CapturedIn(r) = {} /\ Head(q).app
        /\ ReadInOrder(q, s.partialRead) => ReadInOrder(r, s.partialRead)
        /\ Head(q).id # 0
    BY <1>2, <1>5, HeadFacts
  <2>2. /\ t.receivedPackets = r /\ SameScript(s, t) /\ ~t.recvFromSet /\ t.consumed = s.consumed + e.result
        /\ t.arrivals = s.arrivals /\ t.compared = s.compared /\ t.partialRead = s.partialRead
        /\ t.expectedMessageSize = s.expectedMessageSize
    BY <1>2, <1>5 DEF SameScript, IsApp, Names
  <2> HIDE DEF r, t
  <2>3. Ordered(t, m)
    <3>1. Ordered(s, m)
      BY <1>2 DEF QueueInv
    <3> QED BY <2>1, <2>2, <3>1 DEF Ordered, InOrder
  <2>4. s.partialRead \in Parts /\ s.receivedPackets \in Seq(Packets) /\ s.consumed \in Int
    BY <1>2 DEF QueueInv
  <2>5. AvailableAppBytes(t) = UnreadBytes(s.partialRead, r) /\ AvailableAppBytes(s) \in Int
    BY <2>2, <2>4, UnreadFacts DEF AvailableAppBytes
  <2>6. ASSUME ReadsOneWay
        PROVE  /\ ReadInOrder(r, s.partialRead) /\ s.partialRead.id = 0
               /\ t.consumed + AvailableAppBytes(t) = b
    <3>1. script.protocol = "udp"
      BY <2>6 DEF ReadsOneWay
    <3>2. script.protocol # "tcp"
      BY <3>1
    <3>3. CapturedIn(q) = {}
      BY <1>2, <3>2 DEF QueueInv
    <3>4. /\ s.partialRead.id = 0 /\ ReadInOrder(q, s.partialRead)
          /\ s.consumed + AvailableAppBytes(s) = b
      BY <1>2, <2>6 DEF QueueInv
    <3>5. Unread(s.partialRead, Head(q)) = Head(q).size
      BY <2>1, <2>4, <3>3, <3>4, UnreadInteger
    <3>6. Head(q).size = e.result
      BY <1>5
    <3>7. t.consumed = s.consumed + e.result
      BY <2>2
    <3>8. UnreadBytes(s.partialRead, r) = AvailableAppBytes(s) - Unread(s.partialRead, Head(q))
      BY <2>1
    <3>9. t.consumed + AvailableAppBytes(t) = b
      BY <1>1, <2>4, <2>5, <3>4, <3>5, <3>6, <3>7, <3>8
    <3> QED BY <2>1, <3>4, <3>9
  <2>7. t.consumed \in Int /\ (script.protocol # "tcp" => CapturedIn(r) = {})
    <3>1. t.consumed = s.consumed + e.result
      BY <2>2
    <3>2. t.consumed \in Int
      BY <1>1, <2>4, <3>1
    <3> QED BY <1>2, <2>1, <3>2 DEF QueueInv
  <2>8. QueueInv(t, m, b)
    <3>1. /\ s.arrivals \in Nat /\ s.compared \in Seq(Nat) /\ s.expectedMessageSize \in Int
          /\ s.partialRead.id <= s.arrivals
      BY <1>2 DEF QueueInv
    <3> QED BY <2>1, <2>2, <2>3, <2>4, <2>6, <2>7, <3>1 DEF QueueInv
  <2>9. ScriptInv(t, n, 0, 0)
    BY <1>2, <2>2, ScriptSame
  <2>10. NoneHeldBack(t)
    BY <1>2, <2>1, <2>2 DEF NoneHeldBack, Aggregating, SameScript
  <2>11. AppInv(t, n, m, b)
    BY <2>8, <2>9, <2>10 DEF AppInv
  <2> QED BY <2>11, KeepsSame DEF t
<1>6. \/ t = BlocksOnNothing(s, e.result)
      \/ t = Throw(s, "empty") \/ t = Throw(s, "length")
      \/ /\ q # <<>> /\ Head(q).size = e.result
         /\ t = [s EXCEPT !.receivedPackets = Tail(@), !.msgArrived = FALSE, !.recvFromSet = FALSE,
                          !.consumed = @ + e.result]
  BY Zenon DEF SyscallRecvFrom
<1> QED BY <1>3, <1>4, <1>5, <1>6

\* A poll, the flags of the connection and a code block that starts.
LEMMA PollFacts ==
  ASSUME NEW s, IsApp(s)
  PROVE  LET t == CheckDeferredPollNow(s)
         IN /\ SameScript(s, t) /\ SameQueue(s, t)
            /\ t.socketOptionsArrived = s.socketOptionsArrived /\ t.msgArrived = s.msgArrived
<1> DEFINE t == CheckDeferredPollNow(s)
           u == [s EXCEPT !.pollDeferred = FALSE]
<1>1. t = s \/ t = u
  BY Zenon DEF CheckDeferredPollNow
<1>2. SameScript(s, u) /\ SameQueue(s, u) /\ u.socketOptionsArrived = s.socketOptionsArrived /\ u.msgArrived = s.msgArrived
  BY DEF SameScript, SameQueue, IsApp, Names
<1>3. SameScript(s, s) /\ SameQueue(s, s)
  BY DEF SameScript, SameQueue
<1> HIDE DEF t, u
<1> QED BY <1>1, <1>2, <1>3 DEF t

\* poll() keeps what holds of the app.
LEMMA SyscallPollFacts ==
  ASSUME NEW s, NEW n, NEW m, NEW b, AppInv(s, n, m, b), NEW e
  PROVE  Keeps(SyscallPoll(s, e), n, m, b)
<1> DEFINE t == SyscallPoll(s, e)
<1>1. IsApp(s)
  BY DEF AppInv, ScriptInv
<1>2. t = s \/ \E p : t = [s EXCEPT !.pollDeferred = TRUE, !.poll = p]
  BY Zenon DEF SyscallPoll
<1>3. ASSUME NEW p, t = [s EXCEPT !.pollDeferred = TRUE, !.poll = p]
      PROVE  SameScript(s, t) /\ SameQueue(s, t)
  BY <1>1, <1>3 DEF SameScript, SameQueue, IsApp, Names
<1> HIDE DEF t
<1>4. CASE t = s
  BY <1>4, KeepsSame DEF t
<1>5. CASE \E p : t = [s EXCEPT !.pollDeferred = TRUE, !.poll = p]
  <2>1. SameScript(s, t) /\ SameQueue(s, t)
    BY <1>3, <1>5
  <2> QED BY <2>1, UntouchedKeeps DEF t
<1> QED BY <1>2, <1>4, <1>5

\* An injected packet keeps what holds of the app; its bytes are in flight.
LEMMA RunInboundFacts ==
  ASSUME NEW s, NEW n, NEW m, NEW b, AppInv(s, n, m, b), NEW e
  PROVE  Keeps(RunInbound(s, e), n, m, b)
<1> DEFINE u == [s EXCEPT !.peerClosedSeen = TRUE]
           t == CheckDeferredPollNow(u)
<1>1. IsApp(s)
  BY DEF AppInv, ScriptInv
<1>2. IsApp(u) /\ SameScript(s, u) /\ SameQueue(s, u)
  BY <1>1 DEF SameScript, SameQueue, IsApp, Names
<1> HIDE DEF u
<1>3. AppInv(u, n, m, b)
  BY <1>2, UntouchedKeeps
<1>4. SameScript(u, t) /\ SameQueue(u, t)
  BY <1>2, PollFacts
<1>5. Keeps(t, n, m, b)
  BY <1>3, <1>4, UntouchedKeeps
<1>6. RunInbound(s, e) = t \/ RunInbound(s, e) = s
  BY Zenon DEF RunInbound, u
<1>7. Keeps(s, n, m, b)
  BY KeepsSame
<1> QED BY <1>5, <1>6, <1>7

-----------------------------------------------------------------------------
(* An event and what follows it.                                           *)

\* To advance keeps what holds of the app.
LEMMA AdvanceKeeps ==
  ASSUME script \in Scripts, now \in Nat, NEW s, NEW n, NEW m, NEW b, AppInv(s, n, m, b)
  PROVE  LET t == Advance(s)
         IN /\ AppInv(t, n, m, b) /\ Keeps(t, n, m, b) /\ SameExpected(s, t)
            /\ t.eventTimer = Off => t = s /\ s.eventCounter = LastEvent
<1> DEFINE t == Advance(s)
<1>1. ScriptInv(s, n, 0, 0) /\ QueueInv(s, m, b) /\ NoneHeldBack(s)
  BY DEF AppInv
<1>2. /\ ScriptInv(t, n, 0, 0) /\ SameQueue(s, t) /\ SameExpected(s, t)
      /\ t.eventTimer = Off => t = s /\ s.eventCounter = LastEvent
  BY <1>1, AdvanceFacts
<1> HIDE DEF t
<1>3. QueueInv(t, m, b)
  BY <1>1, <1>2, QueueSame
<1>4. NoneHeldBack(t)
  BY <1>1, <1>2 DEF NoneHeldBack, Aggregating, SameQueue, SameExpected
<1>5. AppInv(t, n, m, b)
  BY <1>2, <1>3, <1>4 DEF AppInv
<1> QED BY <1>2, <1>5, KeepsSame DEF t

\* To complete the script keeps what holds of the app.
LEMMA CompleteKeeps ==
  ASSUME script \in Scripts, NEW s, NEW n, NEW m, NEW b, AppInv(s, n, m, b), Finished(s),
         ~s.slipped => ~Aggregating(s)
  PROVE  LET t == Complete(s) IN Keeps(t, n, m, b) /\ (t.error = "" => t.scriptComplete)
<1> DEFINE t == Complete(s)
<1>1. ScriptInv(s, n, 0, 0) /\ QueueInv(s, m, b) /\ NoneHeldBack(s)
  BY DEF AppInv
<1>2. /\ Counted(t) /\ t.ran = n
      /\ t.error = "" => /\ ScriptInv(t, n, 0, 0) /\ SameQueue(s, t) /\ SameExpected(s, t)
                         /\ t.scriptComplete
  BY <1>1, CompleteFacts
<1> HIDE DEF t
<1>3. ASSUME t.error = "" PROVE AppInv(t, n, m, b)
  <2>1. ScriptInv(t, n, 0, 0) /\ SameQueue(s, t) /\ SameExpected(s, t)
    BY <1>2, <1>3
  <2>2. QueueInv(t, m, b)
    BY <1>1, <2>1, QueueSame
  <2>3. NoneHeldBack(t)
    BY <1>1, <2>1 DEF NoneHeldBack, Aggregating, SameQueue, SameExpected
  <2> QED BY <2>1, <2>2, <2>3 DEF AppInv
<1> QED BY <1>2, <1>3 DEF Keeps, t

\* A code block that starts asks for a status.
CodeStarts(s, holds) == [s EXCEPT !.codeEventPending = TRUE, !.statusRequest = "timer", !.pendingCode = holds]

\* A code block that starts waits for its status and is no longer to be counted.
LEMMA CodeFacts ==
  ASSUME NEW s, NEW n, NEW m, NEW b, ScriptInv(s, n, 0, 1), QueueInv(s, m, b), NoneHeldBack(s),
         ~s.slipped => Settled(s), NEW holds \in BOOLEAN
  PROVE  Keeps(CodeStarts(s, holds), n, m, b)
<1> DEFINE t == CodeStarts(s, holds)
<1>1. IsApp(s) /\ ScriptTypes(s) /\ Counted(s) /\ OneAtATime(s, 0, 1) /\ Over(s, 0, 1) /\ s.ran = n
  BY DEF ScriptInv
<1>2. /\ IsApp(t) /\ SameQueue(s, t) /\ t.eventCounter = s.eventCounter /\ t.eventTimer = s.eventTimer
      /\ t.outboundPackets = s.outboundPackets /\ t.aggExpectedOutbound = s.aggExpectedOutbound
      /\ t.codeEventPending /\ t.statusRequest = "timer" /\ t.codeBlockBuffer = s.codeBlockBuffer
      /\ t.scriptComplete = s.scriptComplete /\ t.error = s.error /\ t.ran = s.ran /\ t.met = s.met
      /\ t.executed = s.executed /\ t.slipped = s.slipped /\ t.pendingCode = holds
  BY <1>1 DEF CodeStarts, SameQueue, IsApp, Names
<1> HIDE DEF t
<1>3. 1 # 0
  OBVIOUS
<1>4. ~s.scriptComplete /\ (~s.slipped => s.eventTimer = Off)
  BY <1>1, <1>3, Zenon DEF Over, OneAtATime
<1>5. ScriptTypes(t)
  BY <1>1, <1>2 DEF ScriptTypes
<1>6. Counted(t) /\ Asking(t) /\ t.error = "" /\ t.ran = n
  <2>1. Asking(t)
    BY <1>2 DEF Asking
  <2>2. s.error = ""
    BY DEF ScriptInv
  <2> QED BY <1>1, <1>2, <2>1, <2>2 DEF Counted
<1>7. Aggregating(t) <=> Aggregating(s)
  BY <1>2 DEF Aggregating
<1>8. ASSUME ~s.slipped
      PROVE  /\ s.outboundPackets = <<>> /\ ~Aggregating(s) /\ ~s.codeEventPending /\ s.eventTimer = Off
             /\ s.met + Len(s.outboundPackets) + One(Aggregating(s)) + 0 = Ran("out", s.ran)
             /\ s.executed + Len(s.codeBlockBuffer) + One(s.codeEventPending) + 1 = Ran("code", s.ran)
  BY <1>1, <1>4, <1>8, Zenon DEF OneAtATime, Settled
<1>9. ASSUME ~s.slipped
      PROVE  /\ t.met + Len(t.outboundPackets) + One(Aggregating(t)) + 0 = Ran("out", t.ran)
             /\ t.executed + Len(t.codeBlockBuffer) + One(t.codeEventPending) + 0 = Ran("code", t.ran)
  <2>1. One(Aggregating(t)) = One(Aggregating(s))
    BY <1>7 DEF One
  <2>2. One(s.codeEventPending) = 0 /\ One(t.codeEventPending) = 1
    BY <1>2, <1>8, <1>9 DEF One
  <2>3. s.met + Len(s.outboundPackets) + One(Aggregating(s)) + 0 = Ran("out", s.ran)
    BY <1>8, <1>9
  <2>4. s.executed + Len(s.codeBlockBuffer) + 0 + 1 = Ran("code", s.ran)
    BY <1>8, <1>9, <2>2
  <2>5. s.executed \in Nat /\ Len(s.codeBlockBuffer) \in Nat
    <3>1. s.executed \in Nat /\ s.codeBlockBuffer \in Seq(BOOLEAN)
      BY <1>1 DEF ScriptTypes
    <3> QED BY <3>1
  <2>6. /\ t.met = s.met /\ t.outboundPackets = s.outboundPackets /\ t.ran = s.ran
        /\ t.executed = s.executed /\ t.codeBlockBuffer = s.codeBlockBuffer
    BY <1>2
  <2>7. s.executed + Len(s.codeBlockBuffer) + 1 + 0 = Ran("code", s.ran)
    BY <2>4, <2>5
  <2> QED BY <2>1, <2>2, <2>3, <2>6, <2>7
<1>10. OneAtATime(t, 0, 0)
  BY <1>2, <1>7, <1>8, <1>9, Zenon DEF OneAtATime
<1>11. Over(t, 0, 0)
  BY <1>2, <1>4 DEF Over
<1>12. ScriptInv(t, n, 0, 0)
  BY <1>2, <1>5, <1>6, <1>10, <1>11 DEF ScriptInv
<1>13. QueueInv(t, m, b) /\ NoneHeldBack(t)
  <2>1. NoneHeldBack(t)
    BY <1>2, <1>7 DEF NoneHeldBack, SameQueue
  <2> QED BY <1>2, <2>1, QueueSame
<1>14. AppInv(t, n, m, b)
  BY <1>12, <1>13 DEF AppInv
<1> QED BY <1>14, KeepsSame DEF t

\* What an event of the script does.
LEMMA RunEventFacts ==
  ASSUME script \in Scripts, now \in Nat, NEW s, NEW n, NEW m \in Nat, NEW b, NEW e \in Events, Uses(e.kind),
         ScriptInv(s, n, One(e.kind = "out"), One(e.kind = "code")), QueueInv(s, m, b), NoneHeldBack(s),
         ~s.slipped => Settled(s)
  PROVE  Keeps(RunEvent(s, e), n, m, b)
<1> DEFINE t == RunEvent(s, e)
<1>1. CASE e.kind = "out"
  <2>1. t = RunOutbound(s, e)
    BY <1>1 DEF RunEvent
  <2>2. ScriptInv(s, n, 1, 0)
    <3>1. One(e.kind = "out") = 1 /\ One(e.kind = "code") = 0
      BY <1>1 DEF One
    <3> QED BY <3>1
  <2> HIDE DEF t
  <2> QED BY <2>1, <2>2, RunOutboundFacts DEF t
<1>2. CASE e.kind = "code"
  <2>1. t = CodeStarts(s, e.holds)
    BY <1>2 DEF RunEvent, CodeStarts
  <2>2. ScriptInv(s, n, 0, 1)
    <3>1. One(e.kind = "out") = 0 /\ One(e.kind = "code") = 1
      BY <1>2 DEF One
    <3> QED BY <3>1
  <2>3. e.holds \in BOOLEAN
    BY DEF Events
  <2> HIDE DEF t
  <2> QED BY <2>1, <2>2, <2>3, CodeFacts DEF t
<1>3. CASE e.kind # "out" /\ e.kind # "code"
  <2>1. AppInv(s, n, m, b)
    <3>1. One(e.kind = "out") = 0 /\ One(e.kind = "code") = 0
      BY <1>3 DEF One
    <3> QED BY <3>1 DEF AppInv
  <2>2. CASE e.kind = "in"
    <3>1. t = RunInbound(s, e)
      BY <2>2 DEF RunEvent
    <3> HIDE DEF t
    <3> QED BY <2>1, <3>1, RunInboundFacts DEF t
  <2>3. CASE e.kind = "read"
    <3>1. t = SyscallRead(s, e)
      BY <2>3 DEF RunEvent
    <3> HIDE DEF t
    <3> QED BY <2>1, <3>1, SyscallReadFacts DEF t
  <2>4. CASE e.kind = "recvmsg"
    <3>1. t = SyscallRecvMsg(s, e) /\ Uses("recvmsg")
      BY <2>4 DEF RunEvent
    <3> HIDE DEF t
    <3> QED BY <2>1, <3>1, SyscallRecvMsgFacts DEF t
  <2>5. CASE e.kind = "recvfrom"
    <3>1. t = SyscallRecvFrom(s, e) /\ Uses("recvfrom")
      BY <2>5 DEF RunEvent
    <3> HIDE DEF t
    <3> QED BY <2>1, <3>1, SyscallRecvFromFacts DEF t
  <2>6. CASE e.kind = "splice"
    <3>1. t = SyscallSplice(s, e) /\ Uses("splice")
      BY <2>6 DEF RunEvent
    <3> HIDE DEF t
    <3> QED BY <2>1, <3>1, SyscallSpliceFacts DEF t
  <2>7. CASE e.kind = "poll"
    <3>1. t = SyscallPoll(s, e)
      BY <2>7 DEF RunEvent
    <3> HIDE DEF t
    <3> QED BY <2>1, <3>1, SyscallPollFacts DEF t
  <2>8. CASE e.kind = "command"
    <3>1. t = Advance(s)
      BY <2>8 DEF RunEvent
    <3> HIDE DEF t
    <3> QED BY <2>1, <3>1, AdvanceKeeps DEF t
  <2>9. CASE e.kind = "call"
    <3>1. t = s
      BY <2>9 DEF RunEvent
    <3> HIDE DEF t
    <3> QED BY <2>1, <3>1, KeepsSame DEF t
  <2>10. e.kind \in {"in", "out", "read", "recvmsg", "recvfrom", "splice", "poll", "command", "code", "call"}
    BY DEF Events
  <2> QED BY <1>3, <2>2, <2>3, <2>4, <2>5, <2>6, <2>7, <2>8, <2>9, <2>10
<1> QED BY <1>1, <1>2, <1>3

\* The script goes on, is complete or waits for something of the stack.
LEMMA AfterEventFacts ==
  ASSUME script \in Scripts, now \in Nat, NEW s, NEW n, NEW m, NEW b, Keeps(s, n, m, b), NEW a
  PROVE  LET t == AfterEvent(s) IN Keeps(t, n, m, b) /\ (t.error = "" => Moving(t, a))
<1> DEFINE u == IF MayGoOn(s) THEN Advance(s) ELSE s
           t == AfterEvent(s)
<1>1. CASE s.error # ""
  <2>1. t = s
    BY <1>1 DEF AfterEvent
  <2> HIDE DEF t
  <2> QED BY <1>1, <2>1 DEF t
<1>2. CASE s.error = ""
  <2>1. AppInv(s, n, m, b)
    BY <1>2 DEF Keeps
  <2>2. /\ AppInv(u, n, m, b) /\ Keeps(u, n, m, b)
        /\ MayGoOn(s) => SameExpected(s, u) /\ (u.eventTimer = Off => u = s /\ s.eventCounter = LastEvent)
        /\ ~MayGoOn(s) => u = s
    <3>1. CASE MayGoOn(s)
      <4>1. u = Advance(s)
        BY <3>1
      <4> HIDE DEF u
      <4> QED BY <2>1, <3>1, <4>1, AdvanceKeeps
    <3>2. CASE ~MayGoOn(s)
      <4>1. u = s
        BY <3>2
      <4> HIDE DEF u
      <4> QED BY <2>1, <3>2, <4>1, KeepsSame
    <3> HIDE DEF u
    <3> QED BY <3>1, <3>2
  <2>3. t = IF Finished(u) /\ ~Aggregating(u) THEN Complete(u) ELSE u
    BY <1>2, Zenon DEF AfterEvent
  <2> HIDE DEF u, t
  <2>4. CASE Finished(u) /\ ~Aggregating(u)
    <3> DEFINE w == Complete(u)
    <3>1. Keeps(w, n, m, b) /\ (w.error = "" => w.scriptComplete)
      BY <2>2, <2>4, CompleteKeeps
    <3>2. t = w
      BY <2>3, <2>4
    <3> HIDE DEF w
    <3> QED BY <3>1, <3>2 DEF Moving, t
  <2>5. CASE ~(Finished(u) /\ ~Aggregating(u))
    <3>1. t = u
      BY <2>3, <2>5
    <3>2. u.eventCounter \in 0 .. LastEvent /\ LastEvent \in Nat
      BY <2>2, EventFacts DEF AppInv, ScriptInv, ScriptTypes
    <3>3. u.eventCounter < LastEvent \/ u.eventCounter >= LastEvent
      <4> HIDE DEF LastEvent
      <4> QED BY <3>2
    <3>4. \/ u.eventTimer # Off \/ u.codeEventPending \/ u.outboundPackets # <<>> \/ Aggregating(u)
          \/ u.eventCounter < LastEvent
      BY <2>5, <3>3, Zenon DEF Finished
    <3>5. ASSUME u.eventTimer = Off, ~(u.codeEventPending \/ u.outboundPackets # <<>> \/ Aggregating(u))
          PROVE  u.eventCounter < LastEvent /\ Held(u, a)
      <4>1. u.eventCounter < LastEvent
        BY <3>4, <3>5
      <4>2. ~MayGoOn(s)
        <5>1. ~(u.eventCounter = LastEvent)
          <6> HIDE DEF LastEvent
          <6> QED BY <3>2, <4>1
        <5> QED BY <2>2, <3>5, <5>1
      <4>3. u = s /\ Settled(s)
        BY <2>2, <3>5, <4>2 DEF Settled
      <4>4. \/ script.protocol = "sctp" /\ ~s.socketOptionsArrived
            \/ s.recvFromSet /\ script.protocol # "tcp"
        BY <4>2, <4>3 DEF MayGoOn
      <4>5. Held(u, a)
        BY <4>3, <4>4, Zenon DEF Held
      <4> QED BY <4>1, <4>5
    <3>6. Moving(u, a)
      BY <3>5 DEF Moving
    <3> QED BY <2>2, <3>1, <3>6 DEF t
  <2> QED BY <2>4, <2>5
<1> QED BY <1>1, <1>2

-----------------------------------------------------------------------------
(* What the environment holds: the bytes in flight, and the events that ran. *)

Flights == Seq(Nat \ {0})

\* The bytes in flight are positive numbers.
LEMMA FlightFacts ==
  ASSUME NEW q \in Flights
  PROVE  /\ Len(q) \in Nat /\ Integers(q, Len(q)) /\ Total(q, Len(q)) \in Int
         /\ \A i \in 1 .. Len(q) : q[i] \in Nat \ {0}
<1>1. Len(q) \in Nat /\ \A i \in 1 .. Len(q) : q[i] \in Nat \ {0}
  BY DEF Flights
<1>2. Integers(q, Len(q))
  BY <1>1 DEF Integers
<1> QED BY <1>1, <1>2, TotalInteger

\* What is injected is in flight.
LEMMA FlightAppend ==
  ASSUME NEW q \in Flights, NEW x \in Nat \ {0}
  PROVE  LET r == Append(q, x) IN r \in Flights /\ Total(r, Len(r)) = Total(q, Len(q)) + x
<1> DEFINE r == Append(q, x)
           n == Len(q)
<1>1. r \in Flights /\ n \in Nat /\ Len(r) = n + 1 /\ r[n + 1] = x /\ \A i \in 1 .. n : r[i] = q[i]
  BY DEF Flights
<1> HIDE DEF r
<1>2. Integers(q, n) /\ Integers(r, n + 1)
  BY <1>1, FlightFacts
<1> HIDE DEF n
<1>3. Integers(r, n)
  BY <1>1, <1>2 DEF Integers
<1>4. Total(r, n) = Total(q, n)
  BY <1>1, <1>2, <1>3, TotalSame
<1>5. n + 1 \in Nat \ {0} /\ n + 1 - 1 = n
  BY <1>1
<1>6. Total(r, n + 1) = Total(r, n + 1 - 1) + r[n + 1]
  BY <1>1, <1>5, TotalStep
<1>7. Total(r, n + 1) = Total(q, n) + x
  BY <1>1, <1>4, <1>5, <1>6
<1>8. r \in Flights /\ Total(r, Len(r)) = Total(q, Len(q)) + x
  BY <1>1, <1>7 DEF n
<1> QED BY <1>8 DEF r

\* What is delivered whole is no longer in flight.
LEMMA FlightTail ==
  ASSUME NEW q \in Flights, q # <<>>
  PROVE  /\ Tail(q) \in Flights /\ Head(q) \in Nat \ {0}
         /\ Total(Tail(q), Len(Tail(q))) = Total(q, Len(q)) - Head(q)
<1> DEFINE r == Tail(q)
           n == Len(q)
<1>1. /\ 1 \in 1 .. n /\ Head(q) = q[1] /\ r \in Flights /\ Len(r) = n - 1
      /\ Leaves(q, r, n, 1)
  BY TailLeaves DEF Flights
<1> HIDE DEF r
<1>2. Integers(q, n) /\ n \in Nat /\ q[1] \in Nat \ {0}
  BY <1>1, FlightFacts
<1> HIDE DEF n
<1>3. Total(r, n - 1) = Total(q, n) - q[1]
  BY <1>1, <1>2, TotalWithout
<1> QED BY <1>1, <1>2, <1>3 DEF r, n

\* Nor is what is delivered in part.
LEMMA FlightDrop ==
  ASSUME NEW q \in Flights, q # <<>>, NEW x \in 1 .. Head(q)
  PROVE  LET r == Drop(q, x) IN r \in Flights /\ Total(r, Len(r)) = Total(q, Len(q)) - x
<1> DEFINE r == Drop(q, x)
           n == Len(q)
<1>1. CASE Head(q) = x
  <2>1. r = Tail(q)
    BY <1>1 DEF Drop
  <2> HIDE DEF r
  <2> QED BY <1>1, <2>1, FlightTail DEF r
<1>2. CASE Head(q) # x
  <2>1. r = <<Head(q) - x>> \o Tail(q)
    BY <1>2 DEF Drop
  <2>2. /\ n \in Nat \ {0} /\ Head(q) = q[1] /\ q[1] \in Nat \ {0} /\ Tail(q) \in Flights /\ Len(Tail(q)) = n - 1
        /\ \A i \in 1 .. n - 1 : Tail(q)[i] = q[i + 1]
    BY DEF Flights
  <2>3. Head(q) - x \in Nat \ {0}
    BY <1>2, <2>2
  <2> DEFINE f == <<Head(q) - x>>
             g == Tail(q)
  <2>4. f \in Flights /\ Len(f) = 1 /\ f[1] = Head(q) - x
    BY <2>3 DEF Flights
  <2>5. g \in Flights /\ Len(g) = n - 1 /\ \A i \in 1 .. n - 1 : g[i] = q[i + 1]
    BY <2>2
  <2> HIDE DEF f, g, r
  <2>6. r \in Flights /\ Len(r) = n /\ r[1] = f[1] /\ \A i \in 2 .. n : r[i] = g[i - 1]
    <3>1. r = f \o g
      BY <2>1 DEF f, g
    <3>2. r \in Flights /\ Len(r) = Len(f) + Len(g)
      BY <2>4, <2>5, <3>1, ConcatProperties DEF Flights
    <3>3. \A i \in 1 .. Len(f) + Len(g) : r[i] = IF i <= Len(f) THEN f[i] ELSE g[i - Len(f)]
      <4>1. f \in Seq(Nat \ {0}) /\ g \in Seq(Nat \ {0})
        BY <2>4, <2>5 DEF Flights
      <4>2. \A i \in 1 .. Len(f) + Len(g) : (f \o g)[i] = IF i <= Len(f) THEN f[i] ELSE g[i - Len(f)]
        BY <4>1, ConcatProperties
      <4> QED BY <3>1, <4>2
    <3>4. r[1] = f[1] /\ \A i \in 2 .. n : r[i] = g[i - 1]
      BY <2>2, <2>4, <2>5, <3>3
    <3>5. Len(r) = n
      BY <2>2, <2>4, <2>5, <3>2
    <3> QED BY <3>2, <3>4, <3>5
  <2>7. \A i \in 1 + 1 .. n : r[i] = q[i]
    <3> SUFFICES ASSUME NEW i \in 1 + 1 .. n PROVE r[i] = q[i]
      OBVIOUS
    <3>1. i \in 2 .. n /\ i - 1 \in 1 .. n - 1 /\ i - 1 + 1 = i
      BY <2>2
    <3> QED BY <2>5, <2>6, <3>1
  <2>8. Integers(q, n) /\ Integers(r, n)
    BY <2>6, FlightFacts
  <2> HIDE DEF n
  <2>9. 1 \in 0 .. n
    BY <2>2
  <2>10. Total(r, n) - Total(r, 1) = Total(q, n) - Total(q, 1)
    BY <2>2, <2>7, <2>8, <2>9, TotalAgree
  <2>11. Total(r, 1) = r[1] /\ Total(q, 1) = q[1]
    <3>1. 1 \in Nat \ {0} /\ 1 - 1 = 0
      OBVIOUS
    <3>2. Total(r, 1) = Total(r, 1 - 1) + r[1] /\ Total(q, 1) = Total(q, 1 - 1) + q[1]
      BY <3>1, TotalStep
    <3>3. Total(r, 0) = 0 /\ Total(q, 0) = 0
      BY TotalZero
    <3>4. r[1] \in Int /\ q[1] \in Int
      BY <2>2, <2>4, <2>6
    <3> QED BY <3>1, <3>2, <3>3, <3>4
  <2>12. Total(r, n) \in Int /\ Total(q, n) \in Int
    BY <2>2, <2>8, TotalInteger
  <2>13. Total(r, n) = Total(q, n) - x
    <3>1. x \in Int /\ q[1] \in Int
      BY <2>2
    <3>2. r[1] = q[1] - x
      BY <2>2, <2>4, <2>6
    <3> QED BY <2>10, <2>11, <2>12, <3>1, <3>2
  <2>14. r \in Flights /\ Total(r, Len(r)) = Total(q, Len(q)) - x
    BY <2>6, <2>13 DEF n
  <2> QED BY <2>14 DEF r
<1> QED BY <1>1, <1>2

\* One more event has injected its bytes and counts as one of its kind.
LEMMA InjectedStep ==
  ASSUME script \in Scripts, NEW n \in 0 .. LastEvent
  PROVE  /\ Injected(n) \in Int
         /\ Injected(n + 1) = Injected(n) + InjectedBy(Event(n)) /\ InjectedBy(Event(n)) \in Nat
<1>1. LastEvent \in Nat /\ n \in Nat
  BY EventFacts
<1>2. \A k \in 1 .. LastEvent + 1 : InjectedBy(script.events[k]) \in Nat
  <2>1. \A k \in 1 .. LastEvent + 1 : script.events[k] \in Events
    BY EventFacts
  <2>2. \A e \in Events : InjectedBy(e) \in Nat
    BY DEF Events, InjectedBy
  <2> QED BY <2>1, <2>2
<1> DEFINE f == [k \in 1 .. n |-> InjectedBy(script.events[k])]
           g == [k \in 1 .. n + 1 |-> InjectedBy(script.events[k])]
<1>3. Injected(n) = Total(f, n) /\ Injected(n + 1) = Total(g, n + 1)
  BY DEF Injected
<1>4. \A k \in 1 .. n + 1 : k \in 1 .. LastEvent + 1
  <2> HIDE DEF LastEvent
  <2> QED BY <1>1
<1>5. /\ \A k \in 1 .. n : k \in 1 .. n + 1 /\ f[k] = g[k]
      /\ \A k \in 1 .. n + 1 : g[k] \in Nat
      /\ n + 1 \in 1 .. n + 1 /\ g[n + 1] = InjectedBy(script.events[n + 1])
  BY <1>1, <1>2, <1>4
<1> HIDE DEF f, g
<1>6. Integers(g, n) /\ Integers(f, n)
  BY <1>5 DEF Integers
<1>7. Total(f, n) = Total(g, n) /\ Total(f, n) \in Int
  BY <1>1, <1>5, <1>6, TotalSame, TotalInteger
<1>8. n + 1 \in Nat \ {0} /\ n + 1 - 1 = n
  BY <1>1
<1>9. Total(g, n + 1) = Total(g, n + 1 - 1) + g[n + 1]
  BY <1>8, TotalStep
<1>10. Event(n) = script.events[n + 1]
  BY DEF Event
<1>11. InjectedBy(Event(n)) \in Nat
  BY <1>5, <1>10
<1> QED BY <1>3, <1>5, <1>7, <1>8, <1>9, <1>10, <1>11

\* One more event counts as one of its kind.
LEMMA RanStep ==
  ASSUME script \in Scripts, NEW n \in 0 .. LastEvent, NEW kind
  PROVE  Ran(kind, n) \in Nat /\ Ran(kind, n + 1) = Ran(kind, n) + One(Event(n).kind = kind)
<1> DEFINE S == {k \in 1 .. n : script.events[k].kind = kind}
           T == {k \in 1 .. n + 1 : script.events[k].kind = kind}
<1>1. n \in Nat
  BY EventFacts
<1>2. Ran(kind, n) = Cardinality(S) /\ Ran(kind, n + 1) = Cardinality(T)
  BY DEF Ran
<1>3. IsFiniteSet(S)
  <2>1. IsFiniteSet(1 .. n)
    BY <1>1, FS_Interval
  <2> QED BY <2>1, FS_Subset
<1>4. Cardinality(S) \in Nat
  BY <1>3, FS_CardinalityType
<1>5. Event(n) = script.events[n + 1] /\ ~(n + 1 \in 1 .. n)
  BY <1>1 DEF Event
<1>6. CASE Event(n).kind = kind
  <2>1. T = S \cup {n + 1} /\ ~(n + 1 \in S)
    BY <1>1, <1>5, <1>6
  <2> HIDE DEF S, T
  <2>2. Cardinality(T) = Cardinality(S) + 1
    BY <1>3, <2>1, FS_AddElement
  <2> QED BY <1>2, <1>4, <1>6, <2>2 DEF One
<1>7. CASE Event(n).kind # kind
  <2>1. T = S
    <3>1. \A k \in 1 .. n + 1 : k \in 1 .. n \/ k = n + 1
      BY <1>1
    <3>2. \A k \in 1 .. n : k \in 1 .. n + 1
      BY <1>1
    <3> QED BY <1>5, <1>7, <3>1, <3>2
  <2> HIDE DEF S, T
  <2> QED BY <1>2, <1>4, <1>7, <2>1 DEF One
<1> QED BY <1>6, <1>7

\* Before the first event nothing was injected and none has run.
LEMMA NothingYet ==
  /\ Injected(0) = 0 /\ \A kind : Ran(kind, 0) = 0
<1>1. \A kind : {k \in 1 .. 0 : script.events[k].kind = kind} = {}
  OBVIOUS
<1>2. \A kind : Ran(kind, 0) = 0
  BY <1>1, FS_EmptySet DEF Ran
<1> QED BY <1>2, TotalZero DEF Injected

-----------------------------------------------------------------------------
(* The steps.                                                              *)

\* What an action has to show.
LEMMA InvKept ==
  ASSUME script \in Scripts, script' = script, now' \in Nat, inFlight' \in Flights, asked' \in Nat, sent' \in Nat,
         sndNxt' \in Nat, NEW n, NEW b, Keeps(app', n, sent', b),
         Injected(n) - Total(inFlight', Len(inFlight')) = b,
         app'.error = "" => Moving(app', asked')
  PROVE  IInv'
<1>1. app'.ran = n
  BY DEF Keeps
<1>2. \A k : Injected(k)' = Injected(k)
  BY DEF Injected
<1>3. Given' = b
  <2>1. Given' = Injected(app.ran)' - Total(inFlight', Len(inFlight'))
    BY DEF Given
  <2>2. Injected(app.ran)' = Injected(app'.ran)
    BY DEF Injected
  <2> QED BY <1>1, <2>1, <2>2
<1>4. Keeps(app, app.ran, sent, Given)'
  <2>1. ScriptInv(app', n, 0, 0) <=> ScriptInv(app, app.ran, 0, 0)'
    BY <1>1 DEF ScriptInv, ScriptTypes, OneAtATime, Over, Ran, LastEvent
  <2>2. QueueInv(app', sent', b) <=> QueueInv(app, sent, Given)'
    BY <1>3 DEF QueueInv, ReadsOneWay, Uses
  <2> QED BY <1>1, <2>1, <2>2 DEF Keeps, AppInv
<1>5. Running' => Moving(app, asked)'
  BY DEF Running, Moving, Held, LastEvent
<1> QED BY <1>4, <1>5 DEF IInv, Flights

\* What the invariant says while the app runs.
LEMMA InvFacts ==
  ASSUME IInv, Running
  PROVE  /\ script \in Scripts /\ now \in Nat /\ inFlight \in Flights /\ asked \in Nat /\ sent \in Nat /\ sndNxt \in Nat
         /\ AppInv(app, app.ran, sent, Given) /\ Moving(app, asked) /\ IsApp(app)
         /\ ScriptInv(app, app.ran, 0, 0) /\ QueueInv(app, sent, Given) /\ NoneHeldBack(app)
BY DEF IInv, Running, Flights, Keeps, AppInv, ScriptInv

\* The bytes given to the app are a number.
LEMMA GivenInteger ==
  ASSUME IInv, Running
  PROVE  /\ Given \in Int /\ Injected(app.ran) \in Int /\ Total(inFlight, Len(inFlight)) \in Int
         /\ Injected(app.ran) - Total(inFlight, Len(inFlight)) = Given
<1>1. script \in Scripts /\ inFlight \in Flights /\ ScriptInv(app, app.ran, 0, 0)
  BY InvFacts
<1>2. Counted(app) /\ app.eventCounter \in 0 .. LastEvent /\ app.ran \in Nat
  BY <1>1 DEF ScriptInv, ScriptTypes
<1>3. Total(inFlight, Len(inFlight)) \in Int
  BY <1>1, FlightFacts
<1>4. app.ran \in 0 .. LastEvent \/ \E k \in 0 .. LastEvent : app.ran = k + 1
  BY <1>2 DEF Counted
<1>5. Injected(app.ran) \in Int
  BY <1>1, <1>4, InjectedStep
<1> QED BY <1>3, <1>5 DEF Given

\* The stream and the reason to wait are as they were.
LEMMA InvStays ==
  ASSUME IInv, Running, script' = script, now' \in Nat, inFlight' = inFlight, asked' = asked, sent' = sent,
         sndNxt' = sndNxt, Keeps(app', app.ran, sent, Given), app'.error = "" => Moving(app', asked)
  PROVE  IInv'
<1>1. /\ script \in Scripts /\ inFlight \in Flights /\ asked \in Nat /\ sent \in Nat /\ sndNxt \in Nat
      /\ Injected(app.ran) - Total(inFlight, Len(inFlight)) = Given
  BY InvFacts, GivenInteger
<1>2. /\ inFlight' \in Flights /\ asked' \in Nat /\ sent' \in Nat /\ sndNxt' \in Nat
      /\ Keeps(app', app.ran, sent', Given) /\ (app'.error = "" => Moving(app', asked'))
      /\ Injected(app.ran) - Total(inFlight', Len(inFlight')) = Given
  BY <1>1
<1> QED BY <1>1, <1>2, InvKept

\* The reason to wait is the same if what it looks at is.
LEMMA MovingSame ==
  ASSUME NEW s, NEW t, SameScript(s, t), t.recvFromSet = s.recvFromSet,
         t.socketOptionsArrived = s.socketOptionsArrived, NEW a, Moving(s, a)
  PROVE  Moving(t, a)
BY DEF SameScript, Moving, Held, Aggregating

\* After an advance there is an event to come, or the reason is the old one.
LEMMA MovingAdvance ==
  ASSUME script \in Scripts, now \in Nat, NEW s, NEW n, NEW m, NEW b, AppInv(s, n, m, b),
         NEW r, NEW a, Moving(r, a), SameScript(r, s), NEW c
  PROVE  Keeps(Advance(s), n, m, b) /\ Moving(Advance(s), c)
<1> DEFINE t == Advance(s)
<1>1. Keeps(t, n, m, b) /\ (t.eventTimer = Off => t = s /\ s.eventCounter = LastEvent)
  BY AdvanceKeeps
<1> HIDE DEF t
<1>2. LastEvent \in Nat
  BY EventFacts
<1>3. ~(LastEvent < LastEvent)
  <2> HIDE DEF LastEvent
  <2> QED BY <1>2
<1>4. ASSUME t.eventTimer = Off
      PROVE  s.scriptComplete \/ s.outboundPackets # <<>> \/ Aggregating(s) \/ s.codeEventPending
  <2>1. t = s /\ s.eventCounter = LastEvent
    BY <1>1, <1>4
  <2>2. r.eventTimer = Off /\ r.eventCounter = LastEvent
    BY <1>4, <2>1 DEF SameScript
  <2>3. r.scriptComplete \/ r.outboundPackets # <<>> \/ Aggregating(r) \/ r.codeEventPending
    BY <1>3, <2>2 DEF Moving
  <2> QED BY <2>3 DEF SameScript, Aggregating
<1>5. Moving(t, c)
  BY <1>1, <1>4 DEF Moving
<1> QED BY <1>1, <1>5 DEF t

\* A script that stays the same twice stays the same.
LEMMA SameTransitive ==
  ASSUME NEW r, NEW s, NEW t, SameScript(r, s), SameScript(s, t)
  PROVE  SameScript(r, t)
BY DEF SameScript

\* An event starts: the timer has fired.
StartEvent(s) == [s EXCEPT !.eventTimer = Off, !.ran = @ + 1]

\* An event that starts is the next one; outbound and code events are to be counted.
LEMMA EventStarts ==
  ASSUME script \in Scripts, NEW s, NEW n, NEW m, NEW b, AppInv(s, n, m, b), s.eventTimer # Off,
         NEW e, e = Event(s.eventCounter)
  PROVE  LET t == StartEvent(s)
         IN /\ n = s.eventCounter /\ n \in 0 .. LastEvent /\ e \in Events /\ Uses(e.kind)
            /\ ScriptInv(t, n + 1, One(e.kind = "out"), One(e.kind = "code")) /\ QueueInv(t, m, b)
            /\ NoneHeldBack(t) /\ (~t.slipped => Settled(t))
<1> DEFINE t == StartEvent(s)
           d == One(e.kind = "out")
           c == One(e.kind = "code")
<1>1. /\ IsApp(s) /\ ScriptTypes(s) /\ s.error = "" /\ s.ran = n
      /\ Counted(s) /\ Asking(s) /\ OneAtATime(s, 0, 0) /\ Over(s, 0, 0) /\ QueueInv(s, m, b) /\ NoneHeldBack(s)
  BY DEF AppInv, ScriptInv
<1>2. n = s.eventCounter /\ n \in 0 .. LastEvent /\ n \in Nat
  <2>1. s.eventCounter \in 0 .. LastEvent /\ LastEvent \in Nat /\ s.ran = s.eventCounter + 0
    BY <1>1, EventFacts DEF ScriptTypes, Counted
  <2>2. s.ran = n
    BY <1>1
  <2> HIDE DEF LastEvent
  <2> QED BY <2>1, <2>2
<1>3. e = Event(n) /\ e \in Events /\ Uses(e.kind)
  <2>1. e = Event(n)
    BY <1>2
  <2>2. Event(n) \in Events /\ n + 1 \in DOMAIN script.events
    BY <1>2, EventFacts
  <2>3. Event(n) = script.events[n + 1]
    BY DEF Event
  <2> HIDE DEF Event
  <2> QED BY <2>1, <2>2, <2>3 DEF Uses
<1>4. /\ IsApp(t) /\ SameQueue(s, t) /\ t.eventTimer = Off /\ t.ran = s.ran + 1
      /\ t.eventCounter = s.eventCounter /\ t.outboundPackets = s.outboundPackets
      /\ t.aggExpectedOutbound = s.aggExpectedOutbound /\ t.codeEventPending = s.codeEventPending
      /\ t.statusRequest = s.statusRequest /\ t.codeBlockBuffer = s.codeBlockBuffer
      /\ t.scriptComplete = s.scriptComplete /\ t.error = s.error /\ t.met = s.met /\ t.executed = s.executed
      /\ t.slipped = s.slipped /\ t.pendingCode = s.pendingCode
  BY <1>1 DEF StartEvent, SameQueue, IsApp, Names
<1> HIDE DEF t
<1>5. t.ran = n + 1 /\ t.ran \in Nat /\ t.ran = t.eventCounter + 1
  <2>1. t.ran = s.ran + 1 /\ s.ran = n /\ t.eventCounter = s.eventCounter
    BY <1>1, <1>4
  <2> QED BY <1>2, <2>1
<1>6. ~s.scriptComplete /\ (~s.slipped => Settled(s))
  BY <1>1, Zenon DEF Over, OneAtATime
<1>7. (Aggregating(t) <=> Aggregating(s)) /\ (Settled(t) <=> Settled(s))
  BY <1>4 DEF Aggregating, Settled
<1>8. ScriptTypes(t)
  BY <1>1, <1>4, <1>5 DEF ScriptTypes
<1>9. Counted(t)
  BY <1>4, <1>5 DEF Counted
<1>10. Asking(t) /\ t.error = ""
  BY <1>1, <1>4 DEF Asking
<1>11. /\ Ran("out", n + 1) = Ran("out", n) + d /\ Ran("code", n + 1) = Ran("code", n) + c
       /\ d \in Nat /\ c \in Nat
  <2>1. d \in Nat /\ c \in Nat
    BY DEF One
  <2> HIDE DEF Event
  <2> QED BY <1>2, <1>3, <2>1, RanStep
<1>12. /\ One(Aggregating(t)) = One(Aggregating(s)) /\ One(t.codeEventPending) = One(s.codeEventPending)
       /\ One(Aggregating(s)) \in Nat /\ One(s.codeEventPending) \in Nat
  BY <1>4, <1>7 DEF One
<1> HIDE DEF d, c
<1>13. ASSUME ~s.slipped
       PROVE  /\ t.met + Len(t.outboundPackets) + One(Aggregating(t)) + d = Ran("out", t.ran)
              /\ t.executed + Len(t.codeBlockBuffer) + One(t.codeEventPending) + c = Ran("code", t.ran)
  <2>1. /\ s.met + Len(s.outboundPackets) + One(Aggregating(s)) + 0 = Ran("out", n)
        /\ s.executed + Len(s.codeBlockBuffer) + One(s.codeEventPending) + 0 = Ran("code", n)
    BY <1>1, <1>13, Zenon DEF OneAtATime
  <2>2. s.met \in Nat /\ s.executed \in Nat /\ Len(s.outboundPackets) \in Nat /\ Len(s.codeBlockBuffer) \in Nat
    <3>1. /\ s.met \in Nat /\ s.executed \in Nat /\ s.outboundPackets \in Seq(Expectations)
          /\ s.codeBlockBuffer \in Seq(BOOLEAN)
      BY <1>1 DEF ScriptTypes
    <3> QED BY <3>1
  <2>3. /\ t.met = s.met /\ t.outboundPackets = s.outboundPackets /\ t.executed = s.executed
        /\ t.codeBlockBuffer = s.codeBlockBuffer
    BY <1>4
  <2>4. /\ s.met + Len(s.outboundPackets) + One(Aggregating(s)) + d = Ran("out", n + 1)
        /\ s.executed + Len(s.codeBlockBuffer) + One(s.codeEventPending) + c = Ran("code", n + 1)
    BY <1>11, <1>12, <2>1, <2>2
  <2> QED BY <1>5, <1>12, <2>3, <2>4
<1>14. OneAtATime(t, d, c)
  <2>1. ~t.slipped => ~s.slipped
    BY <1>4
  <2>2. ~t.slipped => /\ t.eventTimer # Off => Settled(t) /\ d = 0 /\ c = 0
                      /\ t.codeEventPending => t.outboundPackets = <<>> /\ ~Aggregating(t) /\ d = 0
    BY <1>4, <1>6, <1>7 DEF Settled
  <2> QED BY <1>13, <2>1, <2>2, Zenon DEF OneAtATime
<1>15. Over(t, d, c)
  BY <1>4, <1>6 DEF Over
<1>16. ScriptInv(t, n + 1, d, c)
  BY <1>4, <1>5, <1>8, <1>9, <1>10, <1>14, <1>15 DEF ScriptInv
<1>17. QueueInv(t, m, b)
  BY <1>1, <1>4, QueueSame
<1>18. NoneHeldBack(t)
  BY <1>1, <1>4, <1>7 DEF NoneHeldBack, SameQueue
<1> QED BY <1>2, <1>3, <1>4, <1>6, <1>7, <1>16, <1>17, <1>18 DEF t, d, c

\* The timer of the next event.
LEMMA HandleEventStep ==
  ASSUME IInv, HandleEvent
  PROVE  IInv'
<1> DEFINE e == Event(app.eventCounter)
           n == app.ran
           s == StartEvent(app)
           b == Given
<1>1. /\ script \in Scripts /\ now \in Nat /\ inFlight \in Flights /\ asked \in Nat /\ sent \in Nat /\ sndNxt \in Nat
      /\ AppInv(app, n, sent, b)
  BY InvFacts DEF HandleEvent
<1>2. /\ app' = AfterEvent(RunEvent(s, e)) /\ app.eventTimer = now
      /\ inFlight' = IF e.kind = "in" /\ e.size > 0 THEN Append(inFlight, e.size) ELSE inFlight
      /\ script' = script /\ now' = now /\ sent' = sent /\ sndNxt' = sndNxt
  BY DEF HandleEvent, StartEvent
<1>3. asked' \in Nat
  <2>1. e \in Events
    <3>1. app.eventCounter \in 0 .. LastEvent
      BY <1>1 DEF AppInv, ScriptInv, ScriptTypes
    <3> QED BY <1>1, <3>1, EventFacts
  <2>2. asked' = e.count \/ (e.result > 0 /\ asked' = e.result) \/ asked' = asked
    BY Zenon DEF HandleEvent, AsksSctp
  <2> HIDE DEF e
  <2>3. e.count \in Nat /\ (e.result = -1 \/ e.result \in Nat)
    BY <2>1, Calls
  <2> QED BY <1>1, <2>2, <2>3
<1>4. app.eventTimer # Off
  BY <1>1, <1>2 DEF Off
<1>5. e = Event(app.eventCounter)
  OBVIOUS
<1> HIDE DEF e, n, b
<1>6. /\ n = app.eventCounter /\ n \in 0 .. LastEvent /\ e \in Events /\ Uses(e.kind)
      /\ ScriptInv(s, n + 1, One(e.kind = "out"), One(e.kind = "code")) /\ QueueInv(s, sent, b)
      /\ NoneHeldBack(s) /\ (~s.slipped => Settled(s))
  BY <1>1, <1>4, <1>5, EventStarts
<1> HIDE DEF s
<1>7. Keeps(RunEvent(s, e), n + 1, sent, b)
  BY <1>1, <1>6, RunEventFacts
<1>8. Keeps(app', n + 1, sent, b) /\ (app'.error = "" => Moving(app', asked'))
  BY <1>1, <1>2, <1>7, AfterEventFacts
<1>9. /\ Injected(n) \in Int /\ Injected(n + 1) = Injected(n) + InjectedBy(e) /\ InjectedBy(e) \in Nat
  BY <1>1, <1>5, <1>6, InjectedStep
<1>10. /\ inFlight' \in Flights /\ Total(inFlight', Len(inFlight')) = Total(inFlight, Len(inFlight)) + InjectedBy(e)
       /\ Total(inFlight, Len(inFlight)) \in Int
  <2>1. e.size \in Nat
    BY <1>6, Calls
  <2>2. Total(inFlight, Len(inFlight)) \in Int
    BY <1>1, FlightFacts
  <2>3. CASE e.kind = "in" /\ e.size > 0
    <3>1. inFlight' = Append(inFlight, e.size) /\ InjectedBy(e) = e.size
      BY <1>2, <2>3 DEF InjectedBy
    <3>2. e.size \in Nat \ {0}
      BY <2>1, <2>3
    <3>3. /\ Append(inFlight, e.size) \in Flights
          /\ Total(Append(inFlight, e.size), Len(Append(inFlight, e.size))) = Total(inFlight, Len(inFlight)) + e.size
      BY <1>1, <3>2, FlightAppend
    <3> QED BY <2>2, <3>1, <3>3
  <2>4. CASE ~(e.kind = "in" /\ e.size > 0)
    <3>1. inFlight' = inFlight /\ InjectedBy(e) = 0
      <4>1. e.kind = "in" => e.size = 0
        BY <2>1, <2>4
      <4> QED BY <1>2, <2>4, <4>1 DEF InjectedBy
    <3> QED BY <1>1, <2>2, <3>1
  <2> QED BY <2>3, <2>4
<1>11. Injected(n + 1) - Total(inFlight', Len(inFlight')) = b
  <2>1. Injected(n) - Total(inFlight, Len(inFlight)) = b
    BY DEF n, b, Given
  <2> QED BY <1>9, <1>10, <2>1
<1>12. now' \in Nat /\ sent' \in Nat /\ sndNxt' \in Nat /\ Keeps(app', n + 1, sent', b)
  BY <1>1, <1>2, <1>8
<1> QED BY <1>1, <1>2, <1>3, <1>8, <1>10, <1>11, <1>12, InvKept

\* The request for a status goes out.
AskStatus(s) == [s EXCEPT !.statusRequest = "asked"]

\* A request that went out is still pending.
LEMMA AskStatusFacts ==
  ASSUME NEW s, NEW n, NEW m, NEW b, AppInv(s, n, m, b), s.statusRequest = "timer", NEW a, Moving(s, a)
  PROVE  Keeps(AskStatus(s), n, m, b) /\ Moving(AskStatus(s), a)
<1> DEFINE t == AskStatus(s)
<1>1. /\ IsApp(s) /\ ScriptTypes(s) /\ s.error = "" /\ s.ran = n
      /\ Counted(s) /\ Asking(s) /\ OneAtATime(s, 0, 0) /\ Over(s, 0, 0) /\ QueueInv(s, m, b) /\ NoneHeldBack(s)
  BY DEF AppInv, ScriptInv
<1>2. /\ IsApp(t) /\ SameQueue(s, t) /\ t.eventCounter = s.eventCounter /\ t.eventTimer = s.eventTimer
      /\ t.outboundPackets = s.outboundPackets /\ t.aggExpectedOutbound = s.aggExpectedOutbound
      /\ t.codeEventPending = s.codeEventPending /\ t.statusRequest = "asked" /\ t.codeBlockBuffer = s.codeBlockBuffer
      /\ t.scriptComplete = s.scriptComplete /\ t.error = s.error /\ t.ran = s.ran /\ t.met = s.met
      /\ t.executed = s.executed /\ t.slipped = s.slipped /\ t.pendingCode = s.pendingCode
      /\ t.socketOptionsArrived = s.socketOptionsArrived
  BY <1>1 DEF AskStatus, SameQueue, IsApp, Names
<1> HIDE DEF t
<1>3. Asking(t) /\ t.error = "" /\ t.ran = n
  <2>1. "timer" # "off" /\ "asked" # "off"
    OBVIOUS
  <2> QED BY <1>1, <1>2, <2>1 DEF Asking
<1>4. (Aggregating(t) <=> Aggregating(s)) /\ (Settled(t) <=> Settled(s))
  BY <1>2 DEF Aggregating, Settled
<1>5. One(Aggregating(t)) = One(Aggregating(s)) /\ One(t.codeEventPending) = One(s.codeEventPending)
  BY <1>2, <1>4 DEF One
<1>6. ScriptTypes(t) /\ Counted(t)
  BY <1>1, <1>2 DEF ScriptTypes, Counted
<1>7. OneAtATime(t, 0, 0)
  BY <1>1, <1>2, <1>4, <1>5 DEF OneAtATime
<1>8. Over(t, 0, 0)
  BY <1>1, <1>2, <1>4 DEF Over
<1>9. ScriptInv(t, n, 0, 0)
  BY <1>2, <1>3, <1>6, <1>7, <1>8 DEF ScriptInv
<1>10. QueueInv(t, m, b) /\ NoneHeldBack(t)
  <2>1. NoneHeldBack(t)
    BY <1>1, <1>2, <1>4 DEF NoneHeldBack, SameQueue
  <2> QED BY <1>1, <1>2, <2>1, QueueSame
<1>11. Keeps(t, n, m, b)
  BY <1>9, <1>10, KeepsSame DEF AppInv
<1>12. Moving(t, a)
  BY <1>2, <1>4 DEF Moving, Held, SameQueue
<1> QED BY <1>11, <1>12 DEF t

\* Its answer comes back.
Answered(s) == [s EXCEPT !.statusRequest = "off", !.codeEventPending = FALSE,
                         !.codeBlockBuffer = Append(@, s.pendingCode)]

\* A code block that was waited for is in the buffer.
LEMMA AnsweredFacts ==
  ASSUME NEW s, NEW n, NEW m, NEW b, AppInv(s, n, m, b), s.codeEventPending
  PROVE  LET t == Answered(s) IN AppInv(t, n, m, b) /\ (~t.slipped => ~Aggregating(t))
<1> DEFINE t == Answered(s)
           buffer == s.codeBlockBuffer
<1>1. /\ IsApp(s) /\ ScriptTypes(s) /\ s.error = "" /\ s.ran = n
      /\ Counted(s) /\ Asking(s) /\ OneAtATime(s, 0, 0) /\ Over(s, 0, 0) /\ QueueInv(s, m, b) /\ NoneHeldBack(s)
  BY DEF AppInv, ScriptInv
<1>2. /\ IsApp(t) /\ SameQueue(s, t) /\ t.eventCounter = s.eventCounter /\ t.eventTimer = s.eventTimer
      /\ t.outboundPackets = s.outboundPackets /\ t.aggExpectedOutbound = s.aggExpectedOutbound
      /\ ~t.codeEventPending /\ t.statusRequest = "off" /\ t.codeBlockBuffer = Append(buffer, s.pendingCode)
      /\ t.scriptComplete = s.scriptComplete /\ t.error = s.error /\ t.ran = s.ran /\ t.met = s.met
      /\ t.executed = s.executed /\ t.slipped = s.slipped /\ t.pendingCode = s.pendingCode
  BY <1>1 DEF Answered, SameQueue, IsApp, Names
<1> HIDE DEF t
<1>3. Asking(t) /\ t.error = "" /\ t.ran = n
  BY <1>1, <1>2 DEF Asking
<1>4. Aggregating(t) <=> Aggregating(s)
  BY <1>2 DEF Aggregating
<1>5. buffer \in Seq(BOOLEAN) /\ s.executed \in Nat /\ s.pendingCode \in BOOLEAN
  BY <1>1 DEF ScriptTypes
<1>6. t.codeBlockBuffer \in Seq(BOOLEAN) /\ Len(t.codeBlockBuffer) = Len(buffer) + 1 /\ Len(buffer) \in Nat
  <2>1. Append(buffer, s.pendingCode) \in Seq(BOOLEAN) /\ Len(Append(buffer, s.pendingCode)) = Len(buffer) + 1
    BY <1>5
  <2>2. Len(buffer) \in Nat
    BY <1>5
  <2> QED BY <1>2, <2>1, <2>2
<1> HIDE DEF buffer
<1>7. ScriptTypes(t) /\ Counted(t)
  BY <1>1, <1>2, <1>6 DEF ScriptTypes, Counted
<1>8. ~s.scriptComplete
  BY <1>1 DEF Over
<1>9. ASSUME ~s.slipped
      PROVE  /\ ~(s.eventTimer # Off) /\ s.outboundPackets = <<>> /\ ~Aggregating(s)
             /\ s.met + Len(s.outboundPackets) + One(Aggregating(s)) + 0 = Ran("out", s.ran)
             /\ s.executed + Len(s.codeBlockBuffer) + One(s.codeEventPending) + 0 = Ran("code", s.ran)
  BY <1>1, <1>9, Zenon DEF OneAtATime, Settled
<1>10. ASSUME ~s.slipped
       PROVE  /\ t.met + Len(t.outboundPackets) + One(Aggregating(t)) + 0 = Ran("out", t.ran)
              /\ t.executed + Len(t.codeBlockBuffer) + One(t.codeEventPending) + 0 = Ran("code", t.ran)
  <2>1. One(Aggregating(t)) = One(Aggregating(s))
    BY <1>4 DEF One
  <2>2. One(s.codeEventPending) = 1 /\ One(t.codeEventPending) = 0
    BY <1>2 DEF One
  <2>3. s.met + Len(s.outboundPackets) + One(Aggregating(s)) + 0 = Ran("out", s.ran)
    BY <1>9, <1>10
  <2>4. s.executed + Len(buffer) + 1 + 0 = Ran("code", s.ran)
    BY <1>9, <1>10, <2>2 DEF buffer
  <2>5. t.met = s.met /\ t.outboundPackets = s.outboundPackets /\ t.ran = s.ran /\ t.executed = s.executed
    BY <1>2
  <2>6. s.executed + (Len(buffer) + 1) + 0 + 0 = Ran("code", s.ran)
    BY <1>5, <1>6, <2>4
  <2> QED BY <1>6, <2>1, <2>2, <2>3, <2>5, <2>6
<1>11. OneAtATime(t, 0, 0)
  BY <1>2, <1>4, <1>9, <1>10, Zenon DEF OneAtATime
<1>12. Over(t, 0, 0)
  BY <1>2, <1>8 DEF Over
<1>13. ScriptInv(t, n, 0, 0)
  BY <1>2, <1>3, <1>7, <1>11, <1>12 DEF ScriptInv
<1>14. QueueInv(t, m, b) /\ NoneHeldBack(t)
  <2>1. NoneHeldBack(t)
    BY <1>1, <1>2, <1>4 DEF NoneHeldBack, SameQueue
  <2> QED BY <1>1, <1>2, <2>1, QueueSame
<1> QED BY <1>2, <1>4, <1>9, <1>13, <1>14 DEF AppInv, t

\* A callback that goes on keeps what holds and leaves a reason to wait.
LEMMA AdvanceOrCompleteKeeps ==
  ASSUME script \in Scripts, now \in Nat, NEW s, NEW n, NEW m, NEW b, AppInv(s, n, m, b),
         ~s.slipped => ~Aggregating(s), NEW a
  PROVE  LET t == AdvanceOrComplete(s) IN Keeps(t, n, m, b) /\ (t.error = "" => Moving(t, a))
<1> DEFINE t == AdvanceOrComplete(s)
<1>1. ScriptInv(s, n, 0, 0) /\ QueueInv(s, m, b) /\ NoneHeldBack(s)
  BY DEF AppInv
<1>2. /\ Counted(t) /\ t.ran = n
      /\ t.error = "" => /\ ScriptInv(t, n, 0, 0) /\ SameQueue(s, t) /\ SameExpected(s, t)
                         /\ t.eventTimer = Off => Waiting(t)
  BY <1>1, AdvanceOrCompleteFacts
<1> HIDE DEF t
<1>3. ASSUME t.error = "" PROVE AppInv(t, n, m, b) /\ Moving(t, a)
  <2>1. ScriptInv(t, n, 0, 0) /\ SameQueue(s, t) /\ SameExpected(s, t) /\ (t.eventTimer = Off => Waiting(t))
    BY <1>2, <1>3
  <2>2. QueueInv(t, m, b)
    BY <1>1, <2>1, QueueSame
  <2>3. NoneHeldBack(t)
    BY <1>1, <2>1 DEF NoneHeldBack, Aggregating, SameQueue, SameExpected
  <2>4. Moving(t, a)
    BY <2>1 DEF Moving, Waiting
  <2> QED BY <2>1, <2>2, <2>3, <2>4 DEF AppInv
<1> QED BY <1>2, <1>3 DEF Keeps, t

\* The timer of the STATUS request.
LEMMA StatusTimerStep ==
  ASSUME IInv, StatusTimer
  PROVE  IInv'
<1>1. Running /\ app.statusRequest = "timer"
  BY DEF StatusTimer
<1>2. /\ AppInv(app, app.ran, sent, Given) /\ Moving(app, asked) /\ now \in Nat
  BY <1>1, InvFacts
<1>3. app' = AskStatus(app) /\ UNCHANGED <<script, now, inFlight, asked, sent, sndNxt>>
  BY DEF StatusTimer, AskStatus
<1>4. Keeps(app', app.ran, sent, Given) /\ Moving(app', asked)
  BY <1>1, <1>2, <1>3, AskStatusFacts
<1> QED BY <1>1, <1>2, <1>3, <1>4, InvStays

\* The answer to a STATUS request.
LEMMA StatusArrivesStep ==
  ASSUME IInv, StatusArrives
  PROVE  IInv'
<1> DEFINE t == Answered(app)
<1>1. Running /\ app.codeEventPending
  BY DEF StatusArrives
<1>2. AppInv(app, app.ran, sent, Given) /\ now \in Nat /\ script \in Scripts
  BY <1>1, InvFacts
<1>3. app' = AdvanceOrComplete(t) /\ UNCHANGED <<script, now, inFlight, asked, sent, sndNxt>>
  BY DEF StatusArrives, Answered
<1>4. AppInv(t, app.ran, sent, Given) /\ (~t.slipped => ~Aggregating(t))
  BY <1>1, <1>2, AnsweredFacts
<1> HIDE DEF t
<1>5. Keeps(app', app.ran, sent, Given) /\ (app'.error = "" => Moving(app', asked))
  BY <1>2, <1>3, <1>4, AdvanceOrCompleteKeeps
<1> QED BY <1>1, <1>2, <1>3, <1>5, InvStays

\* The end of the window of a poll.
LEMMA PollTimerStep ==
  ASSUME IInv, PollTimer
  PROVE  IInv'
<1> DEFINE t == [app EXCEPT !.pollDeferred = FALSE]
<1>1. Running /\ app' = EvaluateDeferredPoll(app) /\ UNCHANGED <<script, now, inFlight, asked, sent, sndNxt>>
  BY DEF PollTimer
<1>2. /\ AppInv(app, app.ran, sent, Given) /\ Moving(app, asked) /\ now \in Nat /\ IsApp(app)
  BY <1>1, InvFacts
<1>3. SameScript(app, t) /\ SameQueue(app, t) /\ t.socketOptionsArrived = app.socketOptionsArrived
  BY <1>2 DEF SameScript, SameQueue, IsApp, Names
<1>4. app' = t \/ app' = Throw(t, "poll")
  BY <1>1, Zenon DEF EvaluateDeferredPoll
<1> HIDE DEF t
<1>5. AppInv(t, app.ran, sent, Given) /\ Keeps(t, app.ran, sent, Given)
  BY <1>2, <1>3, UntouchedKeeps
<1>6. Moving(t, asked)
  BY <1>2, <1>3, MovingSame DEF SameQueue
<1>7. "poll" # ""
  OBVIOUS
<1>8. Keeps(Throw(t, "poll"), app.ran, sent, Given)
  BY <1>5, <1>7, KeepsThrow
<1>9. Throw(t, "poll").error # ""
  BY <1>3, <1>7, ThrowFacts DEF SameScript
<1>10. Keeps(app', app.ran, sent, Given) /\ (app'.error = "" => Moving(app', asked))
  BY <1>4, <1>5, <1>6, <1>8, <1>9
<1> QED BY <1>1, <1>2, <1>10, InvStays

\* The end of the stream.
LEMMA PeerClosesStep ==
  ASSUME IInv, PeerCloses
  PROVE  IInv'
<1> DEFINE t == [app EXCEPT !.peerFinPending = TRUE, !.peerClosedSeen = TRUE]
<1>1. Running /\ app' = t /\ UNCHANGED <<script, now, inFlight, asked, sent, sndNxt>>
  BY DEF PeerCloses
<1>2. /\ AppInv(app, app.ran, sent, Given) /\ Moving(app, asked) /\ now \in Nat /\ IsApp(app)
  BY <1>1, InvFacts
<1>3. SameScript(app, t) /\ SameQueue(app, t) /\ t.socketOptionsArrived = app.socketOptionsArrived
  BY <1>2 DEF SameScript, SameQueue, IsApp, Names
<1> HIDE DEF t
<1>4. Keeps(t, app.ran, sent, Given)
  BY <1>2, <1>3, UntouchedKeeps
<1>5. Moving(t, asked)
  BY <1>2, <1>3, MovingSame DEF SameQueue
<1> QED BY <1>1, <1>2, <1>4, <1>5, InvStays

\* A connection that fails.
LEMMA SocketFailsStep ==
  ASSUME IInv, SocketFails
  PROVE  IInv'
<1> DEFINE u == [app EXCEPT !.connErrorSeen = TRUE]
           t == CheckDeferredPollNow(u)
<1>1. Running /\ app' = t /\ UNCHANGED <<script, now, inFlight, asked, sent, sndNxt>>
  BY DEF SocketFails
<1>2. /\ AppInv(app, app.ran, sent, Given) /\ Moving(app, asked) /\ now \in Nat /\ IsApp(app)
  BY <1>1, InvFacts
<1>3. SameScript(app, u) /\ SameQueue(app, u) /\ u.socketOptionsArrived = app.socketOptionsArrived /\ IsApp(u)
  BY <1>2 DEF SameScript, SameQueue, IsApp, Names
<1> HIDE DEF u
<1>4. SameScript(u, t) /\ SameQueue(u, t) /\ t.socketOptionsArrived = u.socketOptionsArrived
  BY <1>3, PollFacts
<1> HIDE DEF t
<1>5. AppInv(u, app.ran, sent, Given)
  BY <1>2, <1>3, UntouchedKeeps
<1>6. Keeps(t, app.ran, sent, Given)
  BY <1>4, <1>5, UntouchedKeeps
<1>7. Moving(u, asked)
  BY <1>2, <1>3, MovingSame DEF SameQueue
<1>8. Moving(t, asked)
  BY <1>4, <1>7, MovingSame DEF SameQueue
<1> QED BY <1>1, <1>2, <1>6, <1>8, InvStays

\* The socket options of SCTP.
LEMMA OptionsArriveStep ==
  ASSUME IInv, OptionsArrive
  PROVE  IInv'
<1> DEFINE u == [app EXCEPT !.socketOptionsArrived = TRUE]
<1>1. Running /\ app' = Advance(u) /\ UNCHANGED <<script, now, inFlight, asked, sent, sndNxt>>
  BY DEF OptionsArrive
<1>2. /\ AppInv(app, app.ran, sent, Given) /\ Moving(app, asked) /\ now \in Nat /\ IsApp(app) /\ script \in Scripts
  BY <1>1, InvFacts
<1>3. SameScript(app, u) /\ SameQueue(app, u)
  BY <1>2 DEF SameScript, SameQueue, IsApp, Names
<1> HIDE DEF u
<1>4. AppInv(u, app.ran, sent, Given)
  BY <1>2, <1>3, UntouchedKeeps
<1>5. Keeps(app', app.ran, sent, Given) /\ Moving(app', asked)
  BY <1>1, <1>2, <1>3, <1>4, MovingAdvance
<1> QED BY <1>1, <1>2, <1>5, InvStays

\* Time that passes.
LEMMA TickStep ==
  ASSUME IInv, Tick
  PROVE  IInv'
<1>1. Running /\ now' = now + 1 /\ UNCHANGED <<script, app, inFlight, asked, sent, sndNxt>>
  BY DEF Tick
<1>2. /\ AppInv(app, app.ran, sent, Given) /\ Moving(app, asked) /\ now \in Nat
  BY <1>1, InvFacts
<1>3. Keeps(app, app.ran, sent, Given)
  BY <1>2, KeepsSame
<1>4. now' \in Nat
  BY <1>1, <1>2
<1> QED BY <1>1, <1>2, <1>3, <1>4, InvStays

\* A message is announced.
LEMMA SctpNotifiesStep ==
  ASSUME IInv, SctpNotifies
  PROVE  IInv'
<1> DEFINE t == [app EXCEPT !.msgArrived = TRUE, !.recvFromSet = FALSE]
<1>1. /\ Running /\ script.protocol = "sctp" /\ inFlight # <<>> /\ asked = 0 /\ app' = t
      /\ asked' = (IF app.recvFromSet THEN Head(inFlight) ELSE asked)
      /\ UNCHANGED <<script, now, inFlight, sent, sndNxt>>
  BY DEF SctpNotifies
<1>2. /\ AppInv(app, app.ran, sent, Given) /\ Moving(app, asked) /\ now \in Nat /\ IsApp(app) /\ script \in Scripts
      /\ inFlight \in Flights /\ asked \in Nat /\ sent \in Nat /\ sndNxt \in Nat
  BY <1>1, InvFacts
<1>3. /\ Leaves1(app, t) /\ t.expectedMessageSize = app.expectedMessageSize /\ ~t.recvFromSet
      /\ t.socketOptionsArrived = app.socketOptionsArrived
  BY <1>2 DEF Leaves1, SameScript, IsApp, Names
<1>4. app.expectedMessageSize \in Int
  BY <1>2 DEF AppInv, QueueInv
<1> HIDE DEF t
<1>5. Keeps(t, app.ran, sent, Given)
  BY <1>2, <1>3, <1>4, BlockKeeps
<1>6. Head(inFlight) \in Nat \ {0}
  BY <1>1, <1>2, FlightTail
<1>7. asked' \in Nat /\ (app.recvFromSet => asked' > 0)
  BY <1>1, <1>2, <1>6
<1>8. Moving(t, asked')
  <2>1. SameScript(app, t)
    BY <1>3 DEF Leaves1
  <2>2. ~(asked > 0)
    BY <1>1
  <2>3. Held(app, asked) => Held(t, asked')
    BY <1>1, <1>3, <1>7, <2>2 DEF Held
  <2> QED BY <1>2, <2>1, <2>3 DEF Moving, SameScript, Aggregating
<1>9. Injected(app.ran) - Total(inFlight', Len(inFlight')) = Given
  BY <1>1, GivenInteger
<1>10. /\ now' \in Nat /\ inFlight' \in Flights /\ sent' \in Nat /\ sndNxt' \in Nat /\ script' = script
       /\ Keeps(app', app.ran, sent', Given) /\ (app'.error = "" => Moving(app', asked'))
  BY <1>1, <1>2, <1>5, <1>8
<1> QED BY <1>2, <1>7, <1>9, <1>10, InvKept

-----------------------------------------------------------------------------
(* What the stack delivers.                                                *)

\* Data of x bytes that arrive are queued behind all the rest.
LEMMA QueuedFacts ==
  ASSUME script \in Scripts, now \in Nat, NEW s, NEW n, NEW m, NEW b, AppInv(s, n, m, b), NEW x \in Nat
  PROVE  LET t == QueuedData(s, x)
         IN /\ AppInv(t, n, m, b + x) /\ SameScript(s, t) /\ IsApp(t)
            /\ t.recvFromSet = s.recvFromSet /\ t.expectedMessageSize = s.expectedMessageSize
<1> DEFINE q == s.receivedPackets
           part == s.partialRead
           p == [app |-> TRUE, id |-> s.arrivals + 1, at |-> now, size |-> x, seq |-> 0, fin |-> FALSE, number |-> 0]
           r == Append(q, p)
           t == QueuedData(s, x)
<1>1. ScriptInv(s, n, 0, 0) /\ QueueInv(s, m, b) /\ NoneHeldBack(s) /\ IsApp(s)
  BY DEF AppInv, ScriptInv
<1>2. /\ q \in Seq(Packets) /\ part \in Parts /\ s.arrivals \in Nat /\ s.consumed \in Int /\ s.compared \in Seq(Nat)
      /\ s.expectedMessageSize \in Int /\ InOrder(q, s, m) /\ part.id <= s.arrivals /\ part.id \in Nat
      /\ Ascending(s.compared) /\ \A k \in DOMAIN s.compared : s.compared[k] <= m
  BY <1>1 DEF QueueInv, Ordered, Parts
<1>3. p \in Packets
  <2>1. s.arrivals + 1 \in Nat
    BY <1>2
  <2> QED BY <2>1 DEF Packets
<1>4. p.app /\ p.id = s.arrivals + 1 /\ p.size = x
  OBVIOUS
<1>5. t = [s EXCEPT !.arrivals = @ + 1, !.msgArrived = TRUE, !.receivedPackets = r]
  BY DEF QueuedData
<1> HIDE DEF p, t
<1>6. /\ r \in Seq(Packets) /\ DOMAIN q = 1 .. Len(q) /\ DOMAIN r = 1 .. Len(q) + 1 /\ r[Len(q) + 1] = p
      /\ Len(q) \in Nat /\ \A i \in 1 .. Len(q) : r[i] = q[i]
  BY <1>2, <1>3
<1> HIDE DEF r
<1>7. /\ t.receivedPackets = r /\ t.arrivals = s.arrivals + 1 /\ t.partialRead = part /\ t.compared = s.compared
      /\ t.consumed = s.consumed /\ t.expectedMessageSize = s.expectedMessageSize /\ t.recvFromSet = s.recvFromSet
      /\ SameScript(s, t) /\ IsApp(t)
  BY <1>1, <1>5 DEF SameScript, IsApp, Names
<1> HIDE DEF q
<1>8. \A i \in DOMAIN r : (i \in DOMAIN q /\ r[i] = q[i]) \/ (i = Len(q) + 1 /\ r[i] = p)
  BY <1>6
<1>9. CapturedIn(r) = CapturedIn(q)
  <2>1. \A i \in DOMAIN q : i \in DOMAIN r /\ r[i] = q[i]
    BY <1>6
  <2>2. \A i \in DOMAIN r : ~r[i].app => i \in DOMAIN q /\ r[i] = q[i]
    BY <1>4, <1>8
  <2> QED BY <2>1, <2>2 DEF CapturedIn
<1>10. \A i \in CapturedIn(q) : i \in DOMAIN q /\ r[i] = q[i]
  BY <1>6 DEF CapturedIn
<1>11. InOrder(r, t, m)
  <2>1. \A i \in DOMAIN r : r[i].id \in 1 .. s.arrivals + 1
    <3>1. \A i \in DOMAIN q : q[i].id \in 1 .. s.arrivals
      BY <1>2 DEF InOrder
    <3>2. \A k \in 1 .. s.arrivals : k \in 1 .. s.arrivals + 1
      BY <1>2
    <3>3. s.arrivals + 1 \in 1 .. s.arrivals + 1
      BY <1>2
    <3> QED BY <1>4, <1>8, <3>1, <3>2, <3>3
  <2>2. ASSUME NEW i \in DOMAIN r, NEW j \in DOMAIN r, i < j PROVE r[i].id < r[j].id
    <3>1. \A k \in DOMAIN q : q[k].id \in 1 .. s.arrivals
      BY <1>2 DEF InOrder
    <3>2. i \in DOMAIN q /\ r[i] = q[i]
      BY <1>6, <1>8, <2>2
    <3>3. CASE j \in DOMAIN q /\ r[j] = q[j]
      BY <1>2, <2>2, <3>2, <3>3 DEF InOrder
    <3>4. CASE r[j] = p
      <4>1. q[i].id \in 1 .. s.arrivals
        BY <3>1, <3>2
      <4> QED BY <1>2, <1>4, <3>2, <3>4, <4>1
    <3> QED BY <1>8, <3>3, <3>4
  <2>3. \A i, j \in CapturedIn(r) : i < j => r[i].number < r[j].number
    BY <1>2, <1>9, <1>10 DEF InOrder
  <2>4. \A i \in CapturedIn(r) : r[i].number <= m /\ \A k \in DOMAIN s.compared : s.compared[k] < r[i].number
    BY <1>2, <1>9, <1>10 DEF InOrder
  <2> QED BY <1>7, <2>1, <2>2, <2>3, <2>4 DEF InOrder
<1>12. Ordered(t, m)
  BY <1>2, <1>7, <1>11 DEF Ordered
<1>13. AvailableAppBytes(t) = AvailableAppBytes(s) + x /\ AvailableAppBytes(s) \in Int
  <2>1. p.id # part.id
    BY <1>2, <1>4
  <2>2. Unread(part, p) = x
    BY <1>2, <1>3, <1>4, <2>1, UnreadInteger
  <2>3. UnreadBytes(part, r) = UnreadBytes(part, q) + Unread(part, p)
    BY <1>2, <1>3, UnreadAppend DEF r
  <2>4. UnreadBytes(part, q) \in Int
    BY <1>2, UnreadFacts
  <2> QED BY <1>7, <2>2, <2>3, <2>4 DEF AvailableAppBytes, q
<1>14. ASSUME ReadsOneWay
       PROVE  /\ ReadInOrder(r, part) /\ s.consumed + AvailableAppBytes(t) = b + x
              /\ (Uses("recvfrom") => part.id = 0)
              /\ (s.recvFromSet /\ ~Uses("recvfrom") => s.expectedMessageSize \in Nat)
  <2>1. /\ ReadInOrder(q, part) /\ s.consumed + AvailableAppBytes(s) = b
        /\ (Uses("recvfrom") => part.id = 0)
        /\ (s.recvFromSet /\ ~Uses("recvfrom") => s.expectedMessageSize \in Nat)
    BY <1>1, <1>14 DEF QueueInv, q
  <2>2. s.consumed + AvailableAppBytes(t) = b + x
    BY <1>2, <1>13, <2>1
  <2>3. ReadInOrder(r, part)
    <3> SUFFICES ASSUME NEW i \in DOMAIN r, NEW j \in DOMAIN r, r[i].app, r[j].app, i < j PROVE r[j].id # part.id
      BY DEF ReadInOrder
    <3>1. i \in DOMAIN q /\ r[i] = q[i]
      BY <1>6, <1>8
    <3>2. CASE j \in DOMAIN q /\ r[j] = q[j]
      BY <2>1, <3>1, <3>2 DEF ReadInOrder
    <3>3. CASE r[j] = p
      BY <1>2, <1>4, <3>3
    <3> QED BY <1>8, <3>2, <3>3
  <2> QED BY <2>1, <2>2, <2>3
<1>15. part.id <= s.arrivals + 1 /\ s.arrivals + 1 \in Nat
  BY <1>2
<1>16. script.protocol # "tcp" => CapturedIn(r) = {}
  BY <1>1, <1>9 DEF QueueInv, q
<1>17. QueueInv(t, m, b + x)
  BY <1>2, <1>6, <1>7, <1>12, <1>14, <1>15, <1>16 DEF QueueInv
<1>18. ScriptInv(t, n, 0, 0)
  BY <1>1, <1>7, ScriptSame
<1>19. NoneHeldBack(t)
  BY <1>1, <1>7, <1>9 DEF NoneHeldBack, Aggregating, SameScript, q
<1> QED BY <1>7, <1>17, <1>18, <1>19 DEF AppInv, t

\* A message of x bytes is handed over to a read that waits for it.
LEMMA HandedFacts ==
  ASSUME NEW s, NEW t, NEW n, NEW m, NEW b, AppInv(s, n, m, b), NEW x \in Nat,
         SameScript(s, t), t.receivedPackets = s.receivedPackets, t.partialRead = s.partialRead,
         t.arrivals = s.arrivals, t.compared = s.compared, t.consumed = s.consumed + x,
         t.expectedMessageSize = s.expectedMessageSize, ~t.recvFromSet
  PROVE  AppInv(t, n, m, b + x)
<1>1. ScriptInv(s, n, 0, 0) /\ QueueInv(s, m, b) /\ NoneHeldBack(s)
  BY DEF AppInv
<1>2. /\ s.receivedPackets \in Seq(Packets) /\ s.partialRead \in Parts /\ s.arrivals \in Nat
      /\ s.compared \in Seq(Nat) /\ s.consumed \in Int /\ s.expectedMessageSize \in Int
      /\ s.partialRead.id <= s.arrivals /\ Ordered(s, m)
      /\ (script.protocol # "tcp" => CapturedIn(s.receivedPackets) = {})
  BY <1>1 DEF QueueInv
<1>3. Ordered(t, m)
  BY <1>2 DEF Ordered, InOrder
<1>4. AvailableAppBytes(t) = AvailableAppBytes(s) /\ AvailableAppBytes(s) \in Int
  BY <1>2, UnreadFacts DEF AvailableAppBytes
<1>5. ReadsOneWay => /\ ReadInOrder(s.receivedPackets, s.partialRead) /\ (Uses("recvfrom") => s.partialRead.id = 0)
                     /\ t.consumed + AvailableAppBytes(t) = b + x
  <2>1. ReadsOneWay => s.consumed + AvailableAppBytes(s) = b
    BY <1>1 DEF QueueInv
  <2>2. ReadsOneWay => t.consumed + AvailableAppBytes(t) = b + x
    BY <1>2, <1>4, <2>1
  <2> QED BY <1>1, <2>2 DEF QueueInv
<1>6. t.consumed \in Int
  BY <1>2
<1>7. QueueInv(t, m, b + x)
  BY <1>2, <1>3, <1>5, <1>6 DEF QueueInv
<1>8. ScriptInv(t, n, 0, 0)
  BY <1>1, ScriptSame
<1>9. NoneHeldBack(t)
  BY <1>1 DEF NoneHeldBack, Aggregating, SameScript
<1> QED BY <1>7, <1>8, <1>9 DEF AppInv

\* Part of the TCP stream arrives, a waiting read may take it.
LEMMA TcpDataFacts ==
  ASSUME script \in Scripts, script.protocol = "tcp", now \in Nat, NEW s, NEW n, NEW m, NEW b, AppInv(s, n, m, b),
         NEW x \in Nat, NEW a, Moving(s, a), NEW c
  PROVE  Keeps(TcpData(s, x), n, m, b + x) /\ Moving(TcpData(s, x), c)
<1> DEFINE v == QueuedData(s, x)
           t == CheckDeferredPollNow(v)
           w == [t EXCEPT !.recvFromSet = FALSE]
           count == t.expectedMessageSize
           u == IF t.recvFromSet THEN ConsumeAppBytes(w, count) ELSE t
<1>1. TcpData(s, x) = IF t.recvFromSet /\ AvailableAppBytes(t) < count THEN t ELSE Advance(u)
  BY DEF TcpData
<1>2. AppInv(v, n, m, b + x) /\ SameScript(s, v) /\ IsApp(v)
  BY QueuedFacts
<1> HIDE DEF v
<1>3. SameScript(v, t) /\ SameQueue(v, t)
  BY <1>2, PollFacts
<1> HIDE DEF t
<1>4. AppInv(t, n, m, b + x) /\ Keeps(t, n, m, b + x) /\ SameScript(s, t) /\ IsApp(t)
  BY <1>2, <1>3, UntouchedKeeps, SameTransitive DEF SameScript
<1>5. CASE t.recvFromSet /\ AvailableAppBytes(t) < count
  <2>1. TcpData(s, x) = t
    BY <1>1, <1>5
  <2>2. Moving(t, c)
    <3>1. ~Held(s, a)
      BY DEF Held
    <3> QED BY <1>4, <3>1 DEF Moving, SameScript, Aggregating
  <2> QED BY <1>4, <2>1, <2>2
<1>6. CASE ~t.recvFromSet
  <2>1. TcpData(s, x) = Advance(t)
    BY <1>1, <1>6
  <2>2. Keeps(Advance(t), n, m, b + x) /\ Moving(Advance(t), c)
    BY <1>4, MovingAdvance
  <2> QED BY <2>1, <2>2
<1>7. CASE t.recvFromSet /\ ~(AvailableAppBytes(t) < count)
  <2>1. TcpData(s, x) = Advance(u) /\ u = ConsumeAppBytes(w, count)
    BY <1>1, <1>7
  <2>2. Leaves1(t, w) /\ w.expectedMessageSize = t.expectedMessageSize /\ ~w.recvFromSet
    BY <1>4 DEF Leaves1, SameScript, IsApp, Names
  <2>3. QueueInv(t, m, b + x)
    BY <1>4 DEF AppInv
  <2>4. count \in Int /\ t.receivedPackets \in Seq(Packets) /\ t.partialRead \in Parts
    BY <2>3 DEF QueueInv
  <2> HIDE DEF w
  <2>5. AppInv(w, n, m, b + x) /\ SameScript(t, w)
    BY <1>4, <2>2, <2>4, BlockKeeps DEF Leaves1
  <2>6. AvailableAppBytes(w) = AvailableAppBytes(t) /\ AvailableAppBytes(t) \in Int
    BY <2>2, <2>4, UnreadFacts DEF AvailableAppBytes, Leaves1
  <2>7. ReadsOneWay => ~Uses("recvfrom")
    BY DEF ReadsOneWay
  <2>8. ReadsOneWay => count \in Nat
    BY <1>7, <2>3, <2>7 DEF QueueInv
  <2> HIDE DEF count
  <2>9. ReadsOneWay => count >= 0 /\ count <= AvailableAppBytes(w) /\ ~Uses("recvfrom")
    <3>1. ~(AvailableAppBytes(t) < count)
      BY <1>7
    <3>2. count <= AvailableAppBytes(w)
      BY <2>4, <2>6, <3>1 DEF count
    <3>3. ReadsOneWay => count >= 0
      BY <2>8
    <3> QED BY <2>7, <3>2, <3>3
  <2>10. count \in Int
    BY <2>4 DEF count
  <2> HIDE DEF u
  <2>11. AppInv(u, n, m, b + x) /\ SameScript(w, u)
    BY <2>1, <2>5, <2>9, <2>10, ConsumeKeeps
  <2>12. SameScript(s, u)
    BY <1>4, <2>5, <2>11, SameTransitive
  <2>13. Keeps(Advance(u), n, m, b + x) /\ Moving(Advance(u), c)
    BY <2>11, <2>12, MovingAdvance
  <2> QED BY <2>1, <2>13
<1> QED BY <1>5, <1>6, <1>7

\* A datagram arrives, for a call that waits or for the queue.
LEMMA UdpDataFacts ==
  ASSUME script \in Scripts, now \in Nat, NEW s, NEW n, NEW m, NEW b, AppInv(s, n, m, b),
         NEW x \in Nat, NEW a, Moving(s, a), NEW c
  PROVE  LET t == UdpData(s, x) IN Keeps(t, n, m, b + x) /\ (t.error = "" => Moving(t, c))
<1> DEFINE t == UdpData(s, x)
           v == QueuedData(s, x)
           w == [s EXCEPT !.recvFromSet = FALSE, !.msgArrived = FALSE]
           u == [w EXCEPT !.consumed = @ + x]
<1>1. IsApp(s) /\ Counted(s) /\ s.ran = n
  BY DEF AppInv, ScriptInv
<1>2. \/ t = Throw(s, "time") \/ t = Advance(v) \/ t = Throw(w, "length") \/ t = Advance(u)
  BY Zenon DEF UdpData
<1>3. AppInv(v, n, m, b + x) /\ SameScript(s, v)
  BY QueuedFacts
<1>4. /\ IsApp(w) /\ SameScript(s, w) /\ w.receivedPackets = s.receivedPackets /\ w.partialRead = s.partialRead
      /\ w.arrivals = s.arrivals /\ w.compared = s.compared /\ w.consumed = s.consumed
      /\ w.expectedMessageSize = s.expectedMessageSize /\ ~w.recvFromSet
  BY <1>1 DEF SameScript, IsApp, Names
<1> HIDE DEF v, w
<1>5. /\ SameScript(w, u) /\ u.receivedPackets = w.receivedPackets /\ u.partialRead = w.partialRead
      /\ u.arrivals = w.arrivals /\ u.compared = w.compared /\ u.consumed = w.consumed + x
      /\ u.expectedMessageSize = w.expectedMessageSize /\ ~u.recvFromSet
  BY <1>4 DEF SameScript, IsApp, Names
<1> HIDE DEF u
<1>6. SameScript(s, u)
  BY <1>4, <1>5, SameTransitive
<1>7. AppInv(u, n, m, b + x)
  BY <1>4, <1>5, <1>6, HandedFacts
<1>8. Keeps(Advance(v), n, m, b + x) /\ Moving(Advance(v), c)
  BY <1>3, MovingAdvance
<1>9. Keeps(Advance(u), n, m, b + x) /\ Moving(Advance(u), c)
  BY <1>6, <1>7, MovingAdvance
<1>10. "time" # "" /\ "length" # ""
  OBVIOUS
<1>11. Keeps(Throw(s, "time"), n, m, b + x) /\ Throw(s, "time").error # ""
  BY <1>1, <1>10, ThrowFacts
<1>12. Counted(w) /\ w.ran = n
  BY <1>1, <1>4 DEF SameScript, Counted
<1>13. Keeps(Throw(w, "length"), n, m, b + x) /\ Throw(w, "length").error # ""
  BY <1>4, <1>10, <1>12, ThrowFacts
<1> HIDE DEF t
<1> QED BY <1>2, <1>8, <1>9, <1>11, <1>13 DEF t

\* A message arrives for the call that asked for it.
LEMMA SctpDataFacts ==
  ASSUME script \in Scripts, now \in Nat, NEW s, NEW n, NEW m, NEW b, AppInv(s, n, m, b),
         NEW x \in Nat, NEW a, Moving(s, a), NEW c
  PROVE  LET t == SctpData(s, x) IN Keeps(t, n, m, b + x) /\ (t.error = "" => Moving(t, c))
<1> DEFINE t == SctpData(s, x)
           u == [s EXCEPT !.msgArrived = FALSE, !.recvFromSet = FALSE, !.consumed = @ + x]
<1>1. IsApp(s) /\ Counted(s) /\ s.ran = n
  BY DEF AppInv, ScriptInv
<1>2. \/ t = Throw(s, "time") \/ t = Throw(s, "length") \/ t = Advance(u)
  BY Zenon DEF SctpData
<1>3. /\ SameScript(s, u) /\ u.receivedPackets = s.receivedPackets /\ u.partialRead = s.partialRead
      /\ u.arrivals = s.arrivals /\ u.compared = s.compared /\ u.consumed = s.consumed + x
      /\ u.expectedMessageSize = s.expectedMessageSize /\ ~u.recvFromSet
  BY <1>1 DEF SameScript, IsApp, Names
<1> HIDE DEF u
<1>4. AppInv(u, n, m, b + x)
  BY <1>3, HandedFacts
<1>5. Keeps(Advance(u), n, m, b + x) /\ Moving(Advance(u), c)
  BY <1>3, <1>4, MovingAdvance
<1>6. "time" # "" /\ "length" # ""
  OBVIOUS
<1>7. Keeps(Throw(s, "time"), n, m, b + x) /\ Throw(s, "time").error # ""
  BY <1>1, <1>6, ThrowFacts
<1>8. Keeps(Throw(s, "length"), n, m, b + x) /\ Throw(s, "length").error # ""
  BY <1>1, <1>6, ThrowFacts
<1> HIDE DEF t
<1> QED BY <1>2, <1>5, <1>7, <1>8 DEF t

\* TCP delivers part of what is in flight.
LEMMA DataArrivesStep ==
  ASSUME IInv, NEW x \in 1 .. 3, DataArrives(x)
  PROVE  IInv'
<1>1. /\ Running /\ script.protocol = "tcp" /\ inFlight # <<>> /\ x \in 1 .. Head(inFlight)
      /\ app' = TcpData(app, x) /\ inFlight' = Drop(inFlight, x) /\ asked' = 0
      /\ UNCHANGED <<script, now, sent, sndNxt>>
  BY DEF DataArrives
<1>2. /\ AppInv(app, app.ran, sent, Given) /\ Moving(app, asked) /\ now \in Nat /\ script \in Scripts
      /\ inFlight \in Flights /\ sent \in Nat /\ sndNxt \in Nat
  BY <1>1, InvFacts
<1>3. x \in Nat
  OBVIOUS
<1>4. Keeps(app', app.ran, sent, Given + x) /\ Moving(app', asked')
  BY <1>1, <1>2, <1>3, TcpDataFacts
<1>5. inFlight' \in Flights /\ Total(inFlight', Len(inFlight')) = Total(inFlight, Len(inFlight)) - x
  BY <1>1, <1>2, FlightDrop
<1>6. Injected(app.ran) - Total(inFlight', Len(inFlight')) = Given + x
  BY <1>1, <1>3, <1>5, GivenInteger
<1>7. now' \in Nat /\ sent' \in Nat /\ sndNxt' \in Nat /\ asked' \in Nat /\ script' = script /\ Keeps(app', app.ran, sent', Given + x)
  BY <1>1, <1>2, <1>4
<1> QED BY <1>2, <1>4, <1>5, <1>6, <1>7, InvKept

\* UDP delivers a datagram.
LEMMA DatagramArrivesStep ==
  ASSUME IInv, DatagramArrives
  PROVE  IInv'
<1> DEFINE x == Head(inFlight)
<1>1. /\ Running /\ inFlight # <<>> /\ app' = UdpData(app, x) /\ inFlight' = Tail(inFlight)
      /\ UNCHANGED <<script, now, asked, sent, sndNxt>>
  BY DEF DatagramArrives
<1>2. /\ AppInv(app, app.ran, sent, Given) /\ Moving(app, asked) /\ now \in Nat /\ script \in Scripts
      /\ inFlight \in Flights /\ sent \in Nat /\ sndNxt \in Nat /\ asked \in Nat
  BY <1>1, InvFacts
<1>3. x \in Nat /\ inFlight' \in Flights /\ Total(inFlight', Len(inFlight')) = Total(inFlight, Len(inFlight)) - x
  BY <1>1, <1>2, FlightTail
<1> HIDE DEF x
<1>4. Keeps(app', app.ran, sent, Given + x) /\ (app'.error = "" => Moving(app', asked'))
  BY <1>1, <1>2, <1>3, UdpDataFacts
<1>5. Injected(app.ran) - Total(inFlight', Len(inFlight')) = Given + x
  BY <1>1, <1>3, GivenInteger
<1>6. now' \in Nat /\ sent' \in Nat /\ sndNxt' \in Nat /\ asked' \in Nat /\ script' = script /\ Keeps(app', app.ran, sent', Given + x)
  BY <1>1, <1>2, <1>4
<1> QED BY <1>2, <1>3, <1>4, <1>5, <1>6, InvKept

\* SCTP hands over a message.
LEMMA MessageArrivesStep ==
  ASSUME IInv, MessageArrives
  PROVE  IInv'
<1> DEFINE x == Head(inFlight)
<1>1. /\ Running /\ inFlight # <<>> /\ app' = SctpData(app, x) /\ inFlight' = Tail(inFlight) /\ asked' = 0
      /\ UNCHANGED <<script, now, sent, sndNxt>>
  BY DEF MessageArrives
<1>2. /\ AppInv(app, app.ran, sent, Given) /\ Moving(app, asked) /\ now \in Nat /\ script \in Scripts
      /\ inFlight \in Flights /\ sent \in Nat /\ sndNxt \in Nat /\ asked \in Nat
  BY <1>1, InvFacts
<1>3. x \in Nat /\ inFlight' \in Flights /\ Total(inFlight', Len(inFlight')) = Total(inFlight, Len(inFlight)) - x
  BY <1>1, <1>2, FlightTail
<1> HIDE DEF x
<1>4. Keeps(app', app.ran, sent, Given + x) /\ (app'.error = "" => Moving(app', asked'))
  BY <1>1, <1>2, <1>3, SctpDataFacts
<1>5. Injected(app.ran) - Total(inFlight', Len(inFlight')) = Given + x
  BY <1>1, <1>3, GivenInteger
<1>6. now' \in Nat /\ sent' \in Nat /\ sndNxt' \in Nat /\ asked' \in Nat /\ script' = script /\ Keeps(app', app.ran, sent', Given + x)
  BY <1>1, <1>2, <1>4
<1> QED BY <1>2, <1>3, <1>4, <1>5, <1>6, InvKept

-----------------------------------------------------------------------------
(* What the stack sends.                                                   *)

\* One more segment was sent.
LEMMA SentMore ==
  ASSUME NEW s, NEW n, NEW m \in Nat, NEW b, AppInv(s, n, m, b)
  PROVE  AppInv(s, n, m + 1, b) /\ QueueInv(s, m + 1, b)
<1>1. QueueInv(s, m, b) /\ Ordered(s, m) /\ s.receivedPackets \in Seq(Packets) /\ s.compared \in Seq(Nat)
  BY DEF AppInv, QueueInv
<1> DEFINE q == s.receivedPackets
<1>2. /\ \A i \in CapturedIn(q) : q[i].number <= m + 1 /\ \A k \in DOMAIN s.compared : s.compared[k] < q[i].number
      /\ \A k \in DOMAIN s.compared : s.compared[k] <= m + 1
  <2>1. \A i \in CapturedIn(q) : q[i].number \in Nat
    <3>1. \A i \in CapturedIn(q) : q[i] \in Packets
      BY <1>1 DEF CapturedIn
    <3> QED BY <3>1 DEF Packets
  <2>2. \A k \in DOMAIN s.compared : s.compared[k] \in Nat
    BY <1>1
  <2>3. /\ \A i \in CapturedIn(q) : q[i].number <= m /\ \A k \in DOMAIN s.compared : s.compared[k] < q[i].number
        /\ \A k \in DOMAIN s.compared : s.compared[k] <= m
    BY <1>1 DEF Ordered, InOrder
  <2> HIDE DEF q
  <2> QED BY <2>1, <2>2, <2>3
<1>3. Ordered(s, m + 1)
  BY <1>1, <1>2 DEF Ordered, InOrder
<1>4. QueueInv(s, m + 1, b)
  BY <1>1, <1>3 DEF QueueInv
<1> QED BY <1>4 DEF AppInv

\* A segment that is kept is the last that was sent.
LEMMA CapturedFacts ==
  ASSUME script \in Scripts, script.protocol = "tcp", now \in Nat, NEW s, NEW n, NEW m \in Nat, NEW b,
         AppInv(s, n, m, b), s.outboundPackets = <<>>, ~Aggregating(s),
         NEW g, Segment(g), g.number = m + 1
  PROVE  LET t == Captured(s, g) IN Keeps(t, n, m + 1, b) /\ SameScript(s, t)
<1> DEFINE q == s.receivedPackets
           part == s.partialRead
           p == [app |-> FALSE, id |-> s.arrivals + 1, at |-> now, size |-> g.size, seq |-> g.seq, fin |-> g.fin,
                 number |-> g.number]
           r == Append(q, p)
           t == Captured(s, g)
<1>1. ScriptInv(s, n, 0, 0) /\ QueueInv(s, m, b) /\ QueueInv(s, m + 1, b) /\ IsApp(s)
  BY SentMore DEF AppInv, ScriptInv
<1>2. /\ q \in Seq(Packets) /\ part \in Parts /\ s.arrivals \in Nat /\ s.consumed \in Int /\ s.compared \in Seq(Nat)
      /\ s.expectedMessageSize \in Int /\ InOrder(q, s, m + 1) /\ InOrder(q, s, m) /\ part.id <= s.arrivals
      /\ part.id \in Nat
  BY <1>1 DEF QueueInv, Ordered, Parts
<1>3. p \in Packets
  <2>1. s.arrivals + 1 \in Nat
    BY <1>2
  <2> QED BY <2>1 DEF Packets, Segment
<1>4. ~p.app /\ p.id = s.arrivals + 1 /\ p.number = m + 1
  OBVIOUS
<1>5. t = [s EXCEPT !.arrivals = @ + 1, !.receivedPackets = r]
  BY DEF Captured
<1> HIDE DEF p, t
<1>6. /\ r \in Seq(Packets) /\ DOMAIN q = 1 .. Len(q) /\ DOMAIN r = 1 .. Len(q) + 1 /\ r[Len(q) + 1] = p
      /\ Len(q) \in Nat /\ \A i \in 1 .. Len(q) : r[i] = q[i]
  BY <1>2, <1>3
<1> HIDE DEF r
<1>7. /\ t.receivedPackets = r /\ t.arrivals = s.arrivals + 1 /\ t.partialRead = part /\ t.compared = s.compared
      /\ t.consumed = s.consumed /\ t.expectedMessageSize = s.expectedMessageSize /\ t.recvFromSet = s.recvFromSet
      /\ SameScript(s, t) /\ IsApp(t)
  BY <1>1, <1>5 DEF SameScript, IsApp, Names
<1> HIDE DEF q
<1>8. \A i \in DOMAIN r : (i \in DOMAIN q /\ r[i] = q[i]) \/ (i = Len(q) + 1 /\ r[i] = p)
  BY <1>6
<1>9. \A i \in CapturedIn(r) : (i \in CapturedIn(q) /\ i \in DOMAIN q /\ r[i] = q[i]) \/ (i = Len(q) + 1 /\ r[i] = p)
  BY <1>8 DEF CapturedIn
<1>10. \A i \in CapturedIn(q) : q[i].number \in Nat /\ q[i].number <= m
  <2>1. \A i \in CapturedIn(q) : q[i].number <= m
    BY <1>2 DEF InOrder
  <2>2. \A i \in CapturedIn(q) : q[i] \in Packets
    BY <1>2 DEF CapturedIn, q
  <2> QED BY <2>1, <2>2 DEF Packets
<1>11. InOrder(r, t, m + 1)
  <2>1. \A i \in DOMAIN r : r[i].id \in 1 .. s.arrivals + 1
    <3>1. \A i \in DOMAIN q : q[i].id \in 1 .. s.arrivals
      BY <1>2 DEF InOrder
    <3>2. \A k \in 1 .. s.arrivals : k \in 1 .. s.arrivals + 1
      BY <1>2
    <3>3. s.arrivals + 1 \in 1 .. s.arrivals + 1
      BY <1>2
    <3> QED BY <1>4, <1>8, <3>1, <3>2, <3>3
  <2>2. ASSUME NEW i \in DOMAIN r, NEW j \in DOMAIN r, i < j PROVE r[i].id < r[j].id
    <3>1. \A k \in DOMAIN q : q[k].id \in 1 .. s.arrivals
      BY <1>2 DEF InOrder
    <3>2. i \in DOMAIN q /\ r[i] = q[i]
      BY <1>6, <1>8, <2>2
    <3>3. CASE j \in DOMAIN q /\ r[j] = q[j]
      BY <1>2, <2>2, <3>2, <3>3 DEF InOrder
    <3>4. CASE r[j] = p
      <4>1. q[i].id \in 1 .. s.arrivals
        BY <3>1, <3>2
      <4> QED BY <1>2, <1>4, <3>2, <3>4, <4>1
    <3> QED BY <1>8, <3>3, <3>4
  <2>3. ASSUME NEW i \in CapturedIn(r), NEW j \in CapturedIn(r), i < j PROVE r[i].number < r[j].number
    <3>1. j \in 1 .. Len(q) + 1 /\ i \in 1 .. Len(q) + 1
      BY <1>6 DEF CapturedIn
    <3>2. i # Len(q) + 1
      BY <1>6, <2>3, <3>1
    <3>3. i \in CapturedIn(q) /\ r[i] = q[i]
      BY <1>9, <3>2
    <3>4. CASE j \in CapturedIn(q) /\ r[j] = q[j]
      BY <1>2, <2>3, <3>3, <3>4 DEF InOrder
    <3>5. CASE r[j] = p
      <4>1. q[i].number \in Nat /\ q[i].number <= m
        BY <1>10, <3>3
      <4> QED BY <1>4, <3>3, <3>5, <4>1
    <3> QED BY <1>9, <3>4, <3>5
  <2>4. ASSUME NEW i \in CapturedIn(r)
        PROVE  r[i].number <= m + 1 /\ \A k \in DOMAIN s.compared : s.compared[k] < r[i].number
    <3>1. CASE i \in CapturedIn(q) /\ r[i] = q[i]
      BY <1>2, <3>1 DEF InOrder
    <3>2. CASE r[i] = p
      <4>1. \A k \in DOMAIN s.compared : s.compared[k] <= m /\ s.compared[k] \in Nat
        BY <1>1, <1>2 DEF QueueInv, Ordered
      <4>2. \A k \in DOMAIN s.compared : s.compared[k] < m + 1
        BY <4>1
      <4> QED BY <1>4, <3>2, <4>2
    <3> QED BY <1>9, <3>1, <3>2
  <2> QED BY <1>7, <2>1, <2>2, <2>3, <2>4 DEF InOrder
<1>12. Ordered(t, m + 1)
  BY <1>1, <1>7, <1>11 DEF Ordered, QueueInv
<1>13. AvailableAppBytes(t) = AvailableAppBytes(s)
  <2>1. Unread(part, p) = 0
    BY <1>2, <1>3, <1>4, UnreadInteger
  <2>2. UnreadBytes(part, r) = UnreadBytes(part, q) + Unread(part, p)
    BY <1>2, <1>3, UnreadAppend DEF r
  <2>3. UnreadBytes(part, q) \in Int
    BY <1>2, UnreadFacts
  <2> QED BY <1>7, <2>1, <2>2, <2>3 DEF AvailableAppBytes, q
<1>14. ReadsOneWay => ReadInOrder(r, part)
  <2> SUFFICES ASSUME ReadsOneWay, NEW i \in DOMAIN r, NEW j \in DOMAIN r, r[i].app, r[j].app, i < j
               PROVE r[j].id # part.id
    BY DEF ReadInOrder
  <2>1. ReadInOrder(q, part)
    BY <1>1 DEF QueueInv, q
  <2>2. i \in DOMAIN q /\ r[i] = q[i] /\ j \in DOMAIN q /\ r[j] = q[j]
    BY <1>4, <1>8
  <2> QED BY <2>1, <2>2 DEF ReadInOrder
<1>15. part.id <= s.arrivals + 1 /\ s.arrivals + 1 \in Nat
  BY <1>2
<1>16. QueueInv(t, m + 1, b)
  <2>1. ReadsOneWay => /\ s.consumed + AvailableAppBytes(s) = b
                       /\ (Uses("recvfrom") => part.id = 0)
                       /\ (s.recvFromSet /\ ~Uses("recvfrom") => s.expectedMessageSize \in Nat)
    BY <1>1 DEF QueueInv
  <2> QED BY <1>2, <1>6, <1>7, <1>12, <1>13, <1>14, <1>15, <2>1 DEF QueueInv
<1>17. ScriptInv(t, n, 0, 0)
  BY <1>1, <1>7, ScriptSame
<1>18. NoneHeldBack(t)
  BY <1>7 DEF NoneHeldBack, Aggregating, SameScript
<1>19. Keeps(t, n, m + 1, b)
  BY <1>16, <1>17, <1>18, KeepsSame DEF AppInv
<1> QED BY <1>7, <1>19 DEF t

\* What was compared is kept as it should be when nothing else is captured.
LEMMA ComparedIsKept ==
  ASSUME NEW s, NEW t, NEW n, NEW m, NEW b, Compared(s, t, n, m, b), CapturedIn(s.receivedPackets) = {}, NEW a
  PROVE  Keeps(t, n, m, b) /\ (t.error = "" => Moving(t, a))
<1>1. ASSUME t.error = "" PROVE AppInv(t, n, m, b) /\ Moving(t, a)
  <2>1. ScriptInv(t, n, 0, 0) /\ QueueInv(t, m, b) /\ (t.eventTimer = Off => Waiting(t))
    BY <1>1 DEF Compared
  <2>2. NoneHeldBack(t)
    BY DEF Compared, NoneHeldBack
  <2>3. Moving(t, a)
    BY <2>1 DEF Moving, Waiting
  <2> QED BY <2>1, <2>2, <2>3 DEF AppInv
<1> QED BY <1>1 DEF Compared, Keeps

\* An expectation is taken off the queue to be compared.
LEMMA ExpectedFacts ==
  ASSUME script \in Scripts, now \in Nat, NEW s, NEW n, NEW m \in Nat, NEW b,
         AppInv(s, n, m, b), s.outboundPackets # <<>>, ~Aggregating(s),
         NEW g, Segment(g), g.number = m + 1, NEW a
  PROVE  LET t == Expected(s, g) IN Keeps(t, n, m + 1, b) /\ (t.error = "" => Moving(t, a))
<1> DEFINE out == s.outboundPackets
           x == Head(out)
           u == [s EXCEPT !.outboundPackets = Tail(@)]
           t == Expected(s, g)
<1>1. /\ ScriptInv(s, n, 0, 0) /\ QueueInv(s, m + 1, b) /\ QueueInv(s, m, b) /\ IsApp(s) /\ NoneHeldBack(s)
      /\ ScriptTypes(s) /\ OneAtATime(s, 0, 0) /\ Over(s, 0, 0) /\ Counted(s) /\ s.ran = n
  BY SentMore DEF AppInv, ScriptInv
<1>2. out \in Seq(Expectations) /\ out # <<>> /\ s.aggExpectedOutbound \in Aggregates /\ s.met \in Nat
  BY <1>1 DEF ScriptTypes
<1>3. x \in Expectations /\ Tail(out) \in Seq(Expectations) /\ Len(out) = Len(Tail(out)) + 1 /\ Len(Tail(out)) \in Nat
  <2> HIDE DEF out
  <2>1. x \in Expectations /\ Tail(out) \in Seq(Expectations) /\ Len(Tail(out)) = Len(out) - 1 /\ Len(out) \in Nat \ {0}
    BY <1>2
  <2> QED BY <2>1
<1>4. CapturedIn(s.receivedPackets) = {}
  BY <1>1 DEF NoneHeldBack
<1>5. t = Throw(s, "time") \/ t = StartOutboundComparison(u, x, g)
  BY Zenon DEF Expected
<1>6. /\ IsApp(u) /\ SameQueue(s, u) /\ SameButWaits(s, u) /\ u.outboundPackets = Tail(out) /\ u.met = s.met
      /\ u.aggExpectedOutbound = s.aggExpectedOutbound /\ u.slipped = s.slipped
  BY <1>1 DEF SameQueue, SameButWaits, IsApp, Names
<1> HIDE DEF u, x, t
<1>7. Aggregating(u) <=> Aggregating(s)
  BY <1>6 DEF Aggregating
<1>8. Waits(u)
  BY <1>2, <1>3, <1>6 DEF Waits
<1>9. Sum3(u, 1) = Sum3(s, 0)
  <2>1. One(Aggregating(u)) = One(Aggregating(s)) /\ One(Aggregating(s)) \in Nat
    BY <1>7, OneFacts DEF One
  <2>2. Len(s.outboundPackets) = Len(u.outboundPackets) + 1 /\ Len(u.outboundPackets) \in Nat
    BY <1>3, <1>6
  <2>3. u.met = s.met /\ s.met \in Nat
    BY <1>2, <1>6
  <2> QED BY <2>1, <2>2, <2>3 DEF Sum3
<1>10. /\ ~s.scriptComplete
       /\ ~s.slipped => ~(s.eventTimer # Off) /\ ~s.codeEventPending
  BY <1>1, <1>2, Zenon DEF Over, OneAtATime, Settled
<1>11. ScriptInv(u, n, 1, 0)
  BY <1>1, <1>6, <1>8, <1>9, <1>10, WaitsChange
<1>12. QueueInv(u, m + 1, b)
  BY <1>1, <1>6, QueueSame
<1>13. Follows(u, g, m + 1)
  <2>1. \A k \in DOMAIN s.compared : s.compared[k] < g.number
    <3>1. \A k \in DOMAIN s.compared : s.compared[k] <= m /\ s.compared[k] \in Nat
      BY <1>1 DEF QueueInv, Ordered
    <3> QED BY <3>1
  <2>2. g.number <= m + 1
    OBVIOUS
  <2> QED BY <1>4, <1>6, <2>1, <2>2 DEF Follows, SameQueue
<1>14. m + 1 \in Nat
  OBVIOUS
<1>15. ~u.slipped => ~Aggregating(u)
  BY <1>7
<1>16. CASE t = StartOutboundComparison(u, x, g)
  <2>1. Compared(u, StartOutboundComparison(u, x, g), n, m + 1, b)
    BY <1>3, <1>11, <1>12, <1>13, <1>14, <1>15, StartFacts DEF x
  <2>2. CapturedIn(u.receivedPackets) = {}
    BY <1>4, <1>6 DEF SameQueue
  <2>3. Keeps(t, n, m + 1, b) /\ (t.error = "" => Moving(t, a))
    BY <1>16, <2>1, <2>2, ComparedIsKept
  <2> QED BY <2>3 DEF t
<1>17. CASE t = Throw(s, "time")
  <2>1. "time" # ""
    OBVIOUS
  <2>2. Keeps(t, n, m + 1, b) /\ t.error # ""
    BY <1>1, <1>17, <2>1, ThrowFacts
  <2> QED BY <2>2 DEF t
<1> QED BY <1>5, <1>16, <1>17

\* The stack sends a segment: it continues a super-segment, is kept or compared.
LEMMA TunPacketFacts ==
  ASSUME script \in Scripts, script.protocol = "tcp", now \in Nat, NEW s, NEW n, NEW m \in Nat, NEW b,
         AppInv(s, n, m, b), NEW a, Moving(s, a), NEW g, Segment(g), g.number = m + 1,
         NEW t \in TunPacket(s, g)
  PROVE  Keeps(t, n, m + 1, b) /\ (t.error = "" => Moving(t, a))
<1>1. /\ ScriptInv(s, n, 0, 0) /\ QueueInv(s, m + 1, b) /\ QueueInv(s, m, b) /\ IsApp(s) /\ NoneHeldBack(s)
      /\ Counted(s) /\ s.ran = n /\ AppInv(s, n, m + 1, b)
  BY SentMore DEF AppInv, ScriptInv
<1>2. CASE Aggregating(s)
  <2>1. t = ContinueOutboundAggregation(s, g)
    BY <1>2 DEF TunPacket
  <2>2. CapturedIn(s.receivedPackets) = {}
    BY <1>1, <1>2 DEF NoneHeldBack
  <2>3. Follows(s, g, m + 1)
    <3>1. \A k \in DOMAIN s.compared : s.compared[k] <= m /\ s.compared[k] \in Nat
      BY <1>1 DEF QueueInv, Ordered
    <3>2. \A k \in DOMAIN s.compared : s.compared[k] < g.number
      BY <3>1
    <3>3. g.number <= m + 1
      OBVIOUS
    <3> QED BY <2>2, <3>2, <3>3 DEF Follows
  <2>4. m + 1 \in Nat
    OBVIOUS
  <2>5. Compared(s, t, n, m + 1, b)
    BY <1>1, <1>2, <2>1, <2>3, <2>4, ContinueFacts
  <2> QED BY <2>2, <2>5, ComparedIsKept
<1>3. CASE ~Aggregating(s) /\ s.outboundPackets = <<>>
  <2>1. t \in Unexpected(s, g)
    BY <1>3 DEF TunPacket
  <2>2. t = Captured(s, g) \/ t = Throw(s, "time") \/ t = s
    BY <2>1 DEF Unexpected
  <2>3. CASE t = Captured(s, g)
    <3>1. Keeps(t, n, m + 1, b) /\ SameScript(s, t)
      BY <1>3, <2>3, CapturedFacts
    <3>2. t.recvFromSet = s.recvFromSet /\ t.socketOptionsArrived = s.socketOptionsArrived
      BY <1>1, <2>3 DEF Captured, IsApp, Names
    <3> QED BY <3>1, <3>2, MovingSame
  <2>4. CASE t = Throw(s, "time")
    <3>1. "time" # ""
      OBVIOUS
    <3> QED BY <1>1, <2>4, <3>1, ThrowFacts
  <2>5. CASE t = s
    BY <1>1, <2>5, KeepsSame
  <2> QED BY <2>2, <2>3, <2>4, <2>5
<1>4. CASE ~Aggregating(s) /\ s.outboundPackets # <<>>
  <2>1. t = Expected(s, g)
    BY <1>4 DEF TunPacket
  <2> QED BY <1>4, <2>1, ExpectedFacts
<1> QED BY <1>2, <1>3, <1>4

\* The stack under test sends a segment.
LEMMA SegmentSentStep ==
  ASSUME IInv, NEW seq \in Nat, NEW size \in Nat, NEW fin \in BOOLEAN, SegmentSent(seq, size, fin)
  PROVE  IInv'
<1> DEFINE g == [seq |-> seq, size |-> size, fin |-> fin, number |-> sent + 1]
<1>1. /\ Running /\ script.protocol = "tcp" /\ app' \in TunPacket(app, g) /\ sent' = sent + 1
      /\ sndNxt' = (IF seq = sndNxt THEN seq + size ELSE sndNxt)
      /\ UNCHANGED <<script, now, inFlight, asked>>
  BY DEF SegmentSent
<1>2. /\ AppInv(app, app.ran, sent, Given) /\ Moving(app, asked) /\ now \in Nat /\ script \in Scripts
      /\ inFlight \in Flights /\ sent \in Nat /\ sndNxt \in Nat /\ asked \in Nat
  BY <1>1, InvFacts
<1>3. Segment(g) /\ g.number = sent + 1
  BY <1>2 DEF Segment
<1> HIDE DEF g
<1>4. Keeps(app', app.ran, sent + 1, Given) /\ (app'.error = "" => Moving(app', asked))
  BY <1>1, <1>2, <1>3, TunPacketFacts
<1>5. Injected(app.ran) - Total(inFlight', Len(inFlight')) = Given
  BY <1>1, GivenInteger
<1>6. /\ now' \in Nat /\ sent' \in Nat /\ sndNxt' \in Nat /\ asked' \in Nat /\ script' = script /\ inFlight' \in Flights
      /\ Keeps(app', app.ran, sent', Given) /\ (app'.error = "" => Moving(app', asked'))
  <2>1. sent' \in Nat /\ sndNxt' \in Nat
    BY <1>1, <1>2
  <2> QED BY <1>1, <1>2, <1>4, <2>1
<1> QED BY <1>2, <1>5, <1>6, InvKept

-----------------------------------------------------------------------------
(* The invariant holds, and what it implies.                               *)

\* The invariant holds when the script was parsed and its first event is scheduled.
LEMMA InitInv ==
  ASSUME Init
  PROVE  IInv
<1> DEFINE s == Initial
<1>1. script \in Scripts /\ now = 0 /\ app = s /\ inFlight = <<>> /\ asked = 0 /\ sent = 0 /\ sndNxt = 1
  BY DEF Init
<1>2. LastEvent \in Nat /\ Event(0) \in Events
  <2>1. LastEvent \in Nat /\ \A k \in 0 .. LastEvent : Event(k) \in Events
    BY <1>1, EventFacts
  <2> HIDE DEF LastEvent, Event
  <2> QED BY <2>1
<1>3. Event(0).wait \in Nat
  BY <1>2 DEF Events
<1>4. /\ s.eventCounter = 0 /\ s.eventTimer = Event(0).wait /\ s.expectedMessageSize = 0
      /\ s.arrivals = 0 /\ s.ran = 0 /\ s.met = 0 /\ s.consumed = 0 /\ s.executed = 0
  <2> HIDE DEF Event
  <2> QED BY DEF Initial
<1>5. /\ s.outboundPackets = <<>> /\ s.receivedPackets = <<>> /\ s.codeBlockBuffer = <<>> /\ s.compared = <<>>
       /\ s.partialRead = NoPacket /\ s.aggExpectedOutbound = NoAggregate
  <2> HIDE DEF Event
  <2> QED BY DEF Initial
<1>6. /\ ~s.recvFromSet /\ ~s.codeEventPending /\ s.pendingCode = TRUE /\ ~s.scriptComplete /\ ~s.slipped
       /\ s.statusRequest = "off" /\ s.error = ""
  <2> HIDE DEF Event
  <2> QED BY DEF Initial
<1>7. IsApp(s)
  <2> HIDE DEF Event
  <2> QED BY DEF Initial, IsApp, Names
<1> HIDE DEF s
<1>8. s.eventTimer \in Nat /\ s.eventTimer # Off
  BY <1>3, <1>4 DEF Off
<1>9. ~Aggregating(s) /\ Settled(s) /\ Asking(s)
  BY <1>5, <1>6 DEF Aggregating, Settled, Asking
<1>10. NoAggregate \in Aggregates /\ NoPacket \in Parts /\ NoPacket.id = 0
  BY DEF NoAggregate, Aggregates, NoPacket, Parts
<1>11. /\ <<>> \in Seq(Expectations) /\ <<>> \in Seq(Packets) /\ <<>> \in Seq(BOOLEAN) /\ <<>> \in Seq(Nat)
      /\ <<>> \in Flights /\ Len(<<>>) = 0 /\ DOMAIN <<>> = {}
  BY DEF Flights
<1>12. ScriptTypes(s)
  <2>1. s.eventCounter \in 0 .. LastEvent
    <3> HIDE DEF LastEvent
    <3> QED BY <1>2, <1>4
  <2>2. s.eventTimer \in Nat \cup {Off}
    BY <1>8
  <2>3. /\ s.outboundPackets \in Seq(Expectations) /\ s.aggExpectedOutbound \in Aggregates
        /\ s.codeBlockBuffer \in Seq(BOOLEAN)
    BY <1>10, <1>11, <1>5, Zenon
  <2>4. s.pendingCode \in BOOLEAN
    BY <1>6
  <2>5. s.ran \in Nat /\ s.met \in Nat /\ s.executed \in Nat
    BY <1>4
  <2> QED BY <2>1, <2>2, <2>3, <2>4, <2>5, Zenon DEF ScriptTypes
<1>13. Counted(s)
  BY <1>4, <1>8 DEF Counted
<1>14. OneAtATime(s, 0, 0)
  <2>1. One(Aggregating(s)) = 0 /\ One(s.codeEventPending) = 0
    BY <1>9, <1>6 DEF One
  <2>2. Len(s.outboundPackets) = 0 /\ Len(s.codeBlockBuffer) = 0
    BY <1>11, <1>5
  <2>3. Ran("out", s.ran) = 0 /\ Ran("code", s.ran) = 0
    BY <1>4, NothingYet
  <2>4. /\ s.met + Len(s.outboundPackets) + One(Aggregating(s)) + 0 = Ran("out", s.ran)
        /\ s.executed + Len(s.codeBlockBuffer) + One(s.codeEventPending) + 0 = Ran("code", s.ran)
    <3>1. s.met = 0 /\ s.executed = 0
      BY <1>4
    <3> QED BY <2>1, <2>2, <2>3, <3>1
  <2> QED BY <1>9, <1>5, <1>6, <2>4 DEF OneAtATime
<1>15. ScriptInv(s, 0, 0, 0)
  BY <1>4, <1>9, <1>12, <1>13, <1>14, <1>6, <1>7, Zenon DEF ScriptInv, Over
<1>16. CapturedIn(<<>>) = {}
  BY <1>11 DEF CapturedIn
<1>17. Ordered(s, 0)
  BY <1>11, <1>16, <1>5 DEF Ordered, InOrder, Ascending
<1>18. AvailableAppBytes(s) = 0
  BY <1>10, <1>5, UnreadEmpty DEF AvailableAppBytes
<1>19. QueueInv(s, 0, 0)
  <2>1. ReadInOrder(s.receivedPackets, s.partialRead)
    BY <1>11, <1>5 DEF ReadInOrder
  <2>2. s.partialRead.id = 0 /\ s.arrivals = 0 /\ s.consumed = 0 /\ s.expectedMessageSize = 0
    BY <1>4, <1>10, <1>5
  <2>3. s.consumed + AvailableAppBytes(s) = 0 /\ s.partialRead.id <= s.arrivals
    BY <1>18, <2>2
  <2>4. /\ s.receivedPackets \in Seq(Packets) /\ s.partialRead \in Parts /\ s.compared \in Seq(Nat)
        /\ CapturedIn(s.receivedPackets) = {}
    BY <1>10, <1>11, <1>16, <1>5, Zenon
  <2>5. s.arrivals \in Nat /\ s.consumed \in Int /\ s.expectedMessageSize \in Int
    BY <2>2
  <2>6. ~s.recvFromSet
    BY <1>6
  <2> QED BY <1>17, <2>1, <2>2, <2>3, <2>4, <2>5, <2>6, Zenon DEF QueueInv
<1>20. AppInv(s, 0, 0, 0)
  BY <1>9, <1>15, <1>16, <1>19, <1>5, Zenon DEF AppInv, NoneHeldBack
<1>21. Given = 0
  <2>1. Injected(app.ran) = 0
    BY <1>1, <1>4, NothingYet
  <2>2. Total(inFlight, Len(inFlight)) = 0
    BY <1>1, <1>11, TotalZero
  <2> QED BY <2>1, <2>2 DEF Given
<1>22. Keeps(app, app.ran, sent, Given)
  BY <1>1, <1>4, <1>20, <1>21, KeepsSame
<1>23. Moving(app, asked)
  BY <1>1, <1>8 DEF Moving
<1>24. now \in Nat /\ asked \in Nat /\ sent \in Nat /\ sndNxt \in Nat /\ inFlight \in Seq(Nat \ {0})
  BY <1>1, <1>11 DEF Flights
<1> QED BY <1>1, <1>22, <1>23, <1>24 DEF IInv

\* Every handler of the app and every act of the stack keeps it.
LEMMA NextInv ==
  ASSUME IInv, [Next]_vars
  PROVE  IInv'
<1>1. CASE HandleEvent
  BY <1>1, HandleEventStep
<1>2. CASE StatusTimer
  BY <1>2, StatusTimerStep
<1>3. CASE PollTimer
  BY <1>3, PollTimerStep
<1>4. CASE Tick
  BY <1>4, TickStep
<1>5. ASSUME NEW x \in 1 .. 3, DataArrives(x) PROVE IInv'
  BY <1>5, DataArrivesStep
<1>6. CASE DatagramArrives
  BY <1>6, DatagramArrivesStep
<1>7. CASE SctpNotifies
  BY <1>7, SctpNotifiesStep
<1>8. CASE MessageArrives
  BY <1>8, MessageArrivesStep
<1>9. CASE OptionsArrive
  BY <1>9, OptionsArriveStep
<1>10. CASE SocketFails
  BY <1>10, SocketFailsStep
<1>11. CASE StatusArrives
  BY <1>11, StatusArrivesStep
<1>12. ASSUME NEW size \in 0 .. 2, NEW fin \in BOOLEAN, SegmentSent(sndNxt, size, fin) PROVE IInv'
  <2>1. size \in Nat /\ sndNxt \in Nat
    BY DEF IInv
  <2> QED BY <1>12, <2>1, SegmentSentStep
<1>13. CASE SegmentSent(1, 1, FALSE)
  <2>1. 1 \in Nat /\ FALSE \in BOOLEAN
    OBVIOUS
  <2> QED BY <1>13, <2>1, SegmentSentStep
<1>15. CASE PeerCloses
  BY <1>15, PeerClosesStep
<1>14. CASE UNCHANGED vars
  <2>1. /\ script' = script /\ now' = now /\ app' = app /\ inFlight' = inFlight /\ asked' = asked
        /\ sent' = sent /\ sndNxt' = sndNxt
    BY <1>14 DEF vars
  <2>2. Keeps(app', app.ran, sent', Given) /\ Injected(app.ran) - Total(inFlight', Len(inFlight')) = Given
    BY <2>1 DEF IInv, Given
  <2>3. app'.error = "" => Moving(app', asked')
    BY <2>1 DEF IInv, Running
  <2>4. /\ script \in Scripts /\ now' \in Nat /\ inFlight' \in Flights /\ asked' \in Nat /\ sent' \in Nat
        /\ sndNxt' \in Nat
    BY <2>1 DEF IInv, Flights
  <2> QED BY <2>1, <2>2, <2>3, <2>4, InvKept
<1> QED BY <1>1, <1>2, <1>3, <1>4, <1>5, <1>6, <1>7, <1>8, <1>9, <1>10, <1>11, <1>12, <1>13, <1>14,
           <1>15 DEF Next, Timers, Stack

(* The inductive invariant of the event loop: it holds of any script, with *)
(* any protocol, number of events, latency and tolerance.                  *)
THEOREM Inductive == Spec => []IInv
<1>1. Init => IInv
  BY InitInv
<1>2. IInv /\ [Next]_vars => IInv'
  BY NextInv
<1> QED BY <1>1, <1>2, PTL DEF Spec

(* Each event runs once and in its turn: no callback moves the counter over *)
(* an event that is still scheduled (PacketDrillApp.cc:263-295, 590-612).  *)
THEOREM AlwaysEachEventRuns == Spec => []EachEventRuns
<1>1. IInv => EachEventRuns
  BY DEF IInv, Keeps, Counted, EachEventRuns
<1> QED BY <1>1, Inductive, PTL

(* Segments are compared in the order in which they were sent, whether      *)
(* they came before or after the script expected them, and none is kept    *)
(* back while the script waits for one (PacketDrillApp.cc:448-488,         *)
(* 1015-1060).                                                             *)
THEOREM AlwaysComparedInOrder == Spec => []ComparedInOrder
<1>1. ASSUME IInv PROVE ComparedInOrder
  <2> SUFFICES ASSUME Running
               PROVE  LET q == app.receivedPackets
                      IN /\ Ascending(app.compared)
                         /\ \A j \in CapturedIn(q) :
                              /\ \A i \in DOMAIN app.compared : app.compared[i] < q[j].number
                              /\ \A k \in CapturedIn(q) : j < k => q[j].number < q[k].number
                         /\ app.outboundPackets # <<>> \/ Aggregating(app) => CapturedIn(q) = {}
    BY DEF ComparedInOrder
  <2>1. Ordered(app, sent) /\ NoneHeldBack(app)
    BY <1>1, InvFacts DEF QueueInv
  <2> QED BY <2>1 DEF Ordered, InOrder, NoneHeldBack
<1> QED BY <1>1, Inductive, PTL

(* A script that is complete has met all its expectations and run all its  *)
(* code blocks, unless it slipped past one it was waiting for              *)
(* (PacketDrillApp.h:270-278, PacketDrillApp.cc:1274-1293).                *)
THEOREM AlwaysCompleteMeansMet == Spec => []CompleteMeansMet
<1>1. ASSUME IInv PROVE CompleteMeansMet
  <2> SUFFICES ASSUME app.scriptComplete, Running, ~app.slipped
               PROVE  /\ app.met = Cardinality(Outbounds) /\ app.executed = Cardinality(Codes)
                      /\ app.ran = Len(script.events)
    BY DEF CompleteMeansMet
  <2> DEFINE es == script.events
             n == Len(es)
  <2>1. /\ script \in Scripts /\ Counted(app) /\ OneAtATime(app, 0, 0) /\ Over(app, 0, 0) /\ ScriptTypes(app)
    BY <1>1, InvFacts DEF ScriptInv
  <2>2. LastEvent \in Nat /\ LastEvent + 1 = n /\ DOMAIN es = 1 .. LastEvent + 1
    BY <2>1, EventFacts
  <2>3. /\ app.eventCounter = LastEvent /\ app.eventTimer = Off /\ app.outboundPackets = <<>>
        /\ ~app.codeEventPending /\ app.codeBlockBuffer = <<>> /\ ~Aggregating(app)
    BY <2>1, Zenon DEF Over
  <2> HIDE DEF LastEvent
  <2>4. app.ran = n
    <3>1. app.ran = app.eventCounter + 1
      BY <2>1, <2>3 DEF Counted
    <3>2. app.eventCounter = LastEvent
      BY <2>3
    <3> QED BY <2>2, <3>1, <3>2
  <2>5. /\ app.met + Len(app.outboundPackets) + One(Aggregating(app)) + 0 = Ran("out", app.ran)
        /\ app.executed + Len(app.codeBlockBuffer) + One(app.codeEventPending) + 0 = Ran("code", app.ran)
    BY <2>1, Zenon DEF OneAtATime
  <2>6. /\ Len(app.outboundPackets) = 0 /\ Len(app.codeBlockBuffer) = 0
        /\ One(Aggregating(app)) = 0 /\ One(app.codeEventPending) = 0
    BY <2>3 DEF One
  <2>7. app.met \in Nat /\ app.executed \in Nat
    BY <2>1 DEF ScriptTypes
  <2>8. app.met = Ran("out", n) /\ app.executed = Ran("code", n)
    BY <2>4, <2>5, <2>6, <2>7
  <2>9. DOMAIN es = 1 .. n
    BY <2>2
  <2>10. Ran("out", n) = Cardinality(Outbounds) /\ Ran("code", n) = Cardinality(Codes)
    BY <2>9 DEF Ran, Outbounds, Codes
  <2> QED BY <2>4, <2>8, <2>10
<1> QED BY <1>1, Inductive, PTL

(* The bytes that were injected are read, queued or in flight, for any     *)
(* sizes of the reads and the messages (PacketDrillApp.cc:503-552).        *)
THEOREM AlwaysStreamAccounted == Spec => []StreamAccounted
<1>1. ASSUME IInv PROVE StreamAccounted
  <2> SUFFICES ASSUME Running, ReadsOneWay
               PROVE  Injected(app.ran) = app.consumed + AvailableAppBytes(app) + Total(inFlight, Len(inFlight))
    BY DEF StreamAccounted
  <2>1. QueueInv(app, sent, Given)
    BY <1>1, InvFacts
  <2>2. app.consumed + AvailableAppBytes(app) = Given
    BY <2>1 DEF QueueInv
  <2> QED BY <1>1, <2>2, GivenInteger
<1> QED BY <1>1, Inductive, PTL

(* A script that stops is complete or waits for the stack: no callback     *)
(* forgets to schedule the next event (PacketDrillApp.cc:1252-1293).       *)
THEOREM AlwaysStopsForAReason == Spec => []StopsForAReason
<1>1. ASSUME IInv PROVE StopsForAReason
  <2> SUFFICES ASSUME Running, NoTimer(app), app.statusRequest = "off"
               PROVE  app.scriptComplete \/ WaitsForStack
    BY DEF StopsForAReason
  <2>1. Moving(app, asked) /\ Asking(app)
    BY <1>1, InvFacts DEF ScriptInv
  <2>2. app.eventTimer = Off /\ ~app.codeEventPending
    BY <2>1 DEF NoTimer, Asking
  <2> QED BY <2>1, <2>2, Zenon DEF Moving, Held, WaitsForStack
<1> QED BY <1>1, Inductive, PTL

=============================================================================
