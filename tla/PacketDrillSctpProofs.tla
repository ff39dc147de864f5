----------------------- MODULE PacketDrillSctpProofs -----------------------
(***************************************************************************)
(* Theorems about PacketDrillSctp, for all TSNs, any number of DATA chunks *)
(* and of requests, and a script that has none of the Habits: a chunk is   *)
(* accepted exactly if it is the one that the script means.                *)
(***************************************************************************)
EXTENDS PacketDrillSctp, TLAPS

-----------------------------------------------------------------------------
(* Remainders.                                                             *)

LEMMA Remainder ==
  ASSUME NEW M \in Nat, M # 0, NEW v \in Int
  PROVE  (v % M) \in 0 .. M - 1 /\ \E q \in Int : v % M = v - M * q
<1>1. v \div M \in Int /\ (v % M) \in 0 .. M - 1
  OBVIOUS
<1>2. v % M = v - (M * (v \div M))
  OBVIOUS
<1> QED
  BY <1>1, <1>2

LEMMA NoMultipleBelow ==
  ASSUME NEW M \in Nat, M # 0, NEW d \in Int, -M < M * d, M * d < M
  PROVE  d = 0
<1>1. d >= 1 => M * d >= M
  OBVIOUS
<1>2. d <= -1 => M * d <= -M
  OBVIOUS
<1> QED
  BY <1>1, <1>2

LEMMA Multiples ==
  ASSUME NEW M \in Int, NEW p \in Int, NEW q \in Int
  PROVE  M * p \in Int /\ M * (p + q) = M * p + M * q /\ M * (-q) = -(M * q)
OBVIOUS

LEMMA RemainderUnique ==
  ASSUME NEW M \in Nat, M # 0, NEW q \in Int, NEW r \in 0 .. M - 1, NEW v \in Int, v = M * q + r
  PROVE  v % M = r
<1>1. PICK p \in Int : v % M = v - M * p /\ (v % M) \in 0 .. M - 1
  BY Remainder
<1>2. M * (p - q) = r - (v % M)
  BY <1>1
<1>3. p - q = 0
  BY <1>1, <1>2, NoMultipleBelow
<1> QED
  BY <1>1, <1>2, <1>3

(* Numbers that differ by a multiple of M have the same remainder.         *)
LEMMA Congruent ==
  ASSUME NEW M \in Nat, M # 0, NEW s \in Int, NEW t \in Int, NEW q \in Int, t = s + M * q
  PROVE  t % M = s % M
<1>1. PICK p \in Int : s % M = s - M * p /\ (s % M) \in 0 .. M - 1
  BY Remainder
<1> DEFINE r == s % M
           k == p + q
<1>2. r \in 0 .. M - 1 /\ r = s - M * p
  BY <1>1
<1>3. k \in Int
  BY <1>1
<1> HIDE DEF r
<1>4. M * (p + q) = M * p + M * q /\ M * p \in Int /\ M * q \in Int
  BY <1>1, Multiples
<1>5. t = M * k + r
  BY <1>2, <1>4
<1> HIDE DEF k
<1>6. t % M = r
  <2>1. r \in 0 .. M - 1
    BY <1>2
  <2> QED
    BY ONLY M \in Nat, M # 0, t \in Int, <1>3, <1>5, <2>1, RemainderUnique
<1> QED
  BY <1>6 DEF r

LEMMA AddRemainder ==
  ASSUME NEW M \in Nat, M # 0, NEW a \in Int, NEW b \in Int
  PROVE  ((a % M) + b) % M = (a + b) % M
<1>1. PICK q \in Int : a % M = a - M * q /\ (a % M) \in 0 .. M - 1
  BY Remainder
<1> DEFINE r == a % M
           s == r + b
           t == a + b
<1>2. r \in Int /\ r = a - M * q /\ M * q \in Int
  BY <1>1
<1> HIDE DEF r
<1>3. s \in Int /\ t \in Int /\ t = s + M * q
  BY <1>2
<1> HIDE DEF s, t
<1>4. t % M = s % M
  BY <1>1, <1>3, Congruent
<1> QED
  BY <1>4 DEF r, s, t

-----------------------------------------------------------------------------
(* TSNs.                                                                   *)

Tsns == 0 .. Modulus - 1

LEMMA ModulusType == Modulus \in Nat /\ Modulus > 7 /\ Modulus # 0
BY NumberAssumption DEF PeerTsn

LEMMA AddType == ASSUME NEW a \in Int, NEW b \in Int PROVE Add(a, b) \in Tsns /\ Sub(a, b) \in Tsns
<1>1. ASSUME NEW v \in Int PROVE (v % Modulus) \in 0 .. Modulus - 1
  BY ModulusType
<1>2. a + b \in Int /\ a - b \in Int
  OBVIOUS
<1> QED
  BY <1>1, <1>2 DEF Add, Sub, Tsns

LEMMA AddSmall == ASSUME NEW a \in Int, NEW b \in Int, a + b \in Tsns PROVE Add(a, b) = a + b
BY ModulusType DEF Add, Tsns

LEMMA SubSmall == ASSUME NEW a \in Int, NEW b \in Int, a - b \in Tsns PROVE Sub(a, b) = a - b
BY ModulusType DEF Sub, Tsns

LEMMA AddOther == ASSUME NEW a \in Nat PROVE Add(a, 1) # a
BY ModulusType DEF Add

LEMMA AddAdd == ASSUME NEW a \in Int, NEW b \in Int, NEW c \in Int PROVE Add(Add(a, b), c) = Add(a + b, c)
<1> DEFINE s == a + b
<1>1. s \in Int
  OBVIOUS
<1> HIDE DEF s
<1>2. ((s % Modulus) + c) % Modulus = (s + c) % Modulus
  BY <1>1, ModulusType, AddRemainder
<1> QED
  BY <1>2 DEF s, Add

(* A number of the script is moved to the DUT's by the difference of the   *)
(* initial TSNs.                                                           *)
LEMMA Moved ==
  ASSUME NEW m \in Int, NEW s \in Int, NEW t \in Int
  PROVE  Add(Add(s, m), Sub(t, s)) = Add(t, m)
<1> DEFINE a == s + m
           d == t - s
           e == d % Modulus
<1>1. a \in Int /\ d \in Int /\ a + d = t + m /\ e = Sub(t, s)
  BY DEF Sub
<1>2. e \in Int
  BY <1>1, ModulusType, Remainder
<1> HIDE DEF a, d
<1>3. ((a % Modulus) + e) % Modulus = (a + e) % Modulus
  BY <1>1, <1>2, ModulusType, AddRemainder
<1>4. ((d % Modulus) + a) % Modulus = (d + a) % Modulus
  BY <1>1, ModulusType, AddRemainder
<1>5. a + e = (d % Modulus) + a /\ d + a = t + m
  BY <1>1, <1>2
<1> QED
  BY <1>1, <1>3, <1>4, <1>5 DEF a, Add

LEMMA MovedFirst ==
  ASSUME NEW s \in Tsns, NEW t \in Tsns
  PROVE  Add(s, Sub(t, s)) = t
<1>1. Add(s, 0) = s /\ Add(t, 0) = t
  BY AddSmall, ModulusType DEF Tsns
<1>2. s \in Int /\ t \in Int
  BY ModulusType DEF Tsns
<1> QED
  BY <1>1, <1>2, Moved

(* How the script writes a live TSN.                                       *)
Own(x) == Add(Sub(x, dut.tsn), dut.scriptTsn)

LEMMA OwnMoved ==
  ASSUME NEW x \in Tsns, dut.tsn \in Int, dut.scriptTsn \in Int
  PROVE  /\ Own(x) \in Tsns
         /\ Add(Own(x), Sub(dut.tsn, dut.scriptTsn)) = x
         /\ Add(Add(Own(x), 1), Sub(dut.tsn, dut.scriptTsn)) # x
<1> DEFINE t == dut.tsn
           s == dut.scriptTsn
           m == x - t
<1>1. s \in Int /\ t \in Int /\ x \in Nat /\ m \in Int /\ t + m = x
  BY ModulusType DEF Tsns
<1>2. Own(x) = Add(s, m)
  <2>1. Own(x) = ((m % Modulus) + s) % Modulus
    BY DEF Own, Add, Sub
  <2> HIDE DEF m, s
  <2>2. ((m % Modulus) + s) % Modulus = (m + s) % Modulus
    BY <1>1, ModulusType, AddRemainder
  <2> QED
    BY <1>1, <2>1, <2>2 DEF Add
<1> HIDE DEF m, t, s
<1>3. Add(Add(s, m), Sub(t, s)) = Add(t, m)
  BY <1>1, Moved
<1>4. Add(t, m) = x
  BY <1>1, AddSmall
<1>5. Add(Add(s, m), 1) = Add(s, m + 1)
  <2>1. Add(Add(s, m), 1) = Add(s + m, 1)
    BY <1>1, AddAdd
  <2> QED
    BY <1>1, <2>1 DEF Add
<1>6. Add(Add(s, m + 1), Sub(t, s)) = Add(t, m + 1)
  BY <1>1, Moved
<1>7. Add(t, m + 1) = Add(x, 1)
  BY <1>1 DEF Add
<1>8. Add(x, 1) # x
  BY <1>1, AddOther
<1> QED
  BY <1>1, <1>2, <1>3, <1>4, <1>5, <1>6, <1>7, <1>8, AddType DEF s, t

(* The script's number for the next TSN of the DUT, which may have wrapped *)
(* round.                                                                  *)
LEMMA OwnNext ==
  ASSUME dut.tsn \in Tsns, dut.scriptTsn \in ScriptTsns, dut.sent \in 0 .. MaxData, dut.sent > 0
  PROVE  /\ NextTsn \in Tsns
         /\ Own(NextTsn) = dut.scriptTsn + dut.sent
         /\ Own(NextTsn) # 0 /\ Add(Own(NextTsn), 1) # 0
         /\ Add(dut.scriptTsn, dut.sent) = dut.scriptTsn + dut.sent
<1> DEFINE t == dut.tsn
           s == dut.scriptTsn
           n == dut.sent
<1>1. s \in Int /\ t \in Int /\ n \in Nat /\ s + n \in Tsns /\ s + n + 1 \in Tsns /\ s + n > 0
  BY ModulusType, NumberAssumption DEF Tsns
<1>2. NextTsn = Add(t, n)
  BY DEF NextTsn
<1>3. Own(NextTsn) = Add(Sub(Add(t, n), t), s)
  BY <1>2 DEF Own
<1> HIDE DEF t, s, n
<1>4. Sub(Add(t, n), t) = Add(t + n, -t)
  <2> DEFINE u == Add(t, n)
  <2>1. u \in Int /\ -t \in Int
    BY <1>1, AddType DEF Tsns
  <2>2. Add(u, -t) = Add(t + n, -t)
    BY <1>1, <2>1, AddAdd
  <2> HIDE DEF u
  <2>3. Sub(u, t) = Add(u, -t)
    <3>1. u - t = u + (-t)
      BY <1>1, <2>1
    <3> QED
      BY ONLY <3>1 DEF Sub, Add
  <2> QED
    BY <2>2, <2>3 DEF u
<1>5. Add(Add(t + n, -t), s) = Add(t + n + (-t), s)
  BY <1>1, AddAdd
<1>6. Add(t + n + (-t), s) = s + n
  BY <1>1, AddSmall
<1>7. Add(s + n, 1) = s + n + 1 /\ Add(s, n) = s + n
  BY <1>1, AddSmall
<1> QED
  BY <1>1, <1>2, <1>3, <1>4, <1>5, <1>6, <1>7, AddType DEF s, n

-----------------------------------------------------------------------------
(* The invariant.                                                          *)

AppFields == {"localVTag", "peerVTag", "localDiffTsn", "initLocalTsn", "peerStreams", "peerCookie",
              "seqNumMap", "peerHeartbeatTime", "error", "over"}

StreamCounts == [os : {1, 2}, is : {1, 2}]

DutRecords ==
  [role : {"client", "server"}, tsn : Tsns, scriptTsn : ScriptTsns,
   state : {"closed", "wait", "answered", "echoed", "open", "init", "cookie", "acking", "shutdown",
            "complete", "gone", "acked"},
   peerTag : {0, PeerTag}, peerStreams : StreamCounts, sent : 0 .. MaxData, peerData : {0, 1}, heartbeat : {0, 1},
   requests : 0 .. MaxRequests, numbered : SUBSET (0 .. MaxRequests - 1), peerRequest : {0, PeerRequest}]

(* The peer's tag is the one that was injected.                            *)
Tagged == app.localVTag = dut.peerTag

(* The DUT's tag and TSNs are known from its INIT or INIT_ACK on.          *)
Known ==
  dut.state \notin {"closed", "init"} =>
    app.peerVTag = DutTag /\ app.localDiffTsn = Sub(dut.tsn, dut.scriptTsn)

(* The streams of an injected INIT and the cookie of an INIT_ACK are kept  *)
(* until they are used.                                                    *)
Kept ==
  /\ dut.state = "init" => app.peerStreams = dut.peerStreams
  /\ dut.state = "cookie" => app.peerCookie = "cookie"

(* The requests that the script has a number for are mapped to the live    *)
(* ones, all others are free.                                              *)
Numbered ==
  \A k \in 0 .. MaxRequests - 1 :
    Mapped(app, ScriptRequest + k) = IF k \in dut.numbered THEN FirstRequest + k ELSE 0

Live == DOMAIN app = AppFields /\ dut \in DutRecords /\ Tagged /\ Known /\ Kept /\ Numbered

Inv == ChunksAgree /\ RequestsApart /\ app.error = "" /\ app.over \in BOOLEAN /\ (Running => Live)

-----------------------------------------------------------------------------
(* The comparison, field by field.                                         *)

Types == {"INIT", "INIT_ACK", "DATA", "SACK", "SHUTDOWN", "REQUEST", "PLAIN", "RESPONSE", "HEARTBEAT",
          "ABORT", "SHUTDOWN_COMPLETE", "COOKIE_ECHO", "COOKIE_ACK", "SHUTDOWN_ACK"}

(* What a field of the script with the value v stands for.                 *)
Translated(a, type, live, f, v) ==
  IF f \in Shifted(type) THEN Add(v, a.localDiffTsn)
  ELSE IF type = "INIT_ACK" /\ f = "os" THEN Lower(v, a.peerStreams.is)
  ELSE IF type = "INIT_ACK" /\ f = "is" THEN Lower(v, a.peerStreams.os)
  ELSE IF f = "gaps" THEN {Add(g, live.fields.cum) : g \in v}
  ELSE v

(* What no comparison looks at.                                            *)
Never(type) ==
  CASE type \in {"INIT", "INIT_ACK"} -> {"tag"}
    [] type = "DATA" -> {"ubit"}
    [] type \in {"REQUEST", "PLAIN"} -> {"number", "answers"}
    [] OTHER -> {}

(* The app has the DUT's numbers.                                          *)
Ready(a, type) ==
  /\ a.localDiffTsn = Sub(dut.tsn, dut.scriptTsn)
  /\ type = "INIT_ACK" => a.peerStreams = dut.peerStreams

Faithful(a, type, live, mine) ==
  /\ DOMAIN mine = DOMAIN live.fields
  /\ \A f \in DOMAIN mine \ Never(type) : Translated(a, type, live, f, mine[f]) = live.fields[f]
  /\ \A f \in DOMAIN mine \ Defined(type) : Translated(a, type, live, f, Wrong(f, mine[f])) # live.fields[f]

LEMMA DutTypes ==
  ASSUME dut \in DutRecords
  PROVE  /\ dut.tsn \in Tsns /\ dut.scriptTsn \in Tsns /\ dut.scriptTsn \in ScriptTsns
         /\ dut.tsn \in Int /\ dut.scriptTsn \in Int /\ dut.sent \in 0 .. MaxData /\ dut.sent \in Nat
         /\ dut.peerStreams.os \in {1, 2} /\ dut.peerStreams.is \in {1, 2} /\ dut.peerTag \in {0, 3} /\ dut.peerData \in {0, 1}
         /\ dut.peerRequest \in Nat /\ dut.numbered \subseteq 0 .. MaxRequests - 1
         /\ PeerCum \in {4, 5} /\ NextTsn \in Tsns
<1>1. /\ dut.tsn \in Tsns /\ dut.scriptTsn \in ScriptTsns /\ dut.sent \in 0 .. MaxData /\ dut.sent \in Nat
      /\ dut.peerStreams.os \in {1, 2} /\ dut.peerStreams.is \in {1, 2} /\ dut.peerTag \in {0, 3} /\ dut.peerData \in {0, 1}
      /\ dut.peerRequest \in {0, PeerRequest} /\ dut.numbered \subseteq 0 .. MaxRequests - 1
  BY DEF DutRecords, PeerTag, StreamCounts
<1>2. dut.scriptTsn \in Tsns /\ dut.tsn \in Int /\ dut.scriptTsn \in Int
  BY <1>1, NumberAssumption, ModulusType DEF Tsns
<1>3. PeerRequest \in Nat
  BY NumberAssumption DEF PeerRequest, ScriptRequest
<1>4. PeerCum \in {4, 5}
  BY <1>1 DEF PeerCum, PeerTsn
<1>5. NextTsn \in Tsns
  BY <1>1, <1>2, AddType DEF NextTsn
<1> QED
  BY <1>1, <1>2, <1>3, <1>4, <1>5

LEMMA SetupFaithful ==
  ASSUME Habits = {}, dut \in DutRecords, NEW type \in {"INIT", "INIT_ACK"}, NEW k \in Nat, NEW live,
         live.fields = LiveFields(type, k), NEW a, Ready(a, type)
  PROVE  Faithful(a, type, live, ScriptFields(type, live.fields))
<1> DEFINE mine == ScriptFields(type, live.fields)
<1>1. mine = [tag |-> ScriptTag, tsn |-> dut.scriptTsn, os |-> 2, is |-> 2]
  BY DEF ScriptFields
<1>2. live.fields = [tag |-> DutTag, tsn |-> dut.tsn,
                    os |-> IF type = "INIT" THEN 2 ELSE Lower(2, dut.peerStreams.is),
                    is |-> IF type = "INIT" THEN 2 ELSE Lower(2, dut.peerStreams.os)]
  BY DEF LiveFields
<1>3. Add(dut.scriptTsn, a.localDiffTsn) = dut.tsn
  BY DutTypes, MovedFirst DEF Ready
<1>4. /\ Shifted(type) = {"tsn"} /\ Never(type) = {"tag"} /\ Defined(type) = {"tag", "tsn"}
      /\ Wrong("os", 2) = 0 /\ Wrong("is", 2) = 0
  BY DEF Shifted, Never, Defined, Wrong
<1>5. dut.peerStreams.os \in {1, 2} /\ dut.peerStreams.is \in {1, 2} /\ (type = "INIT_ACK" => a.peerStreams = dut.peerStreams)
  BY DutTypes DEF Ready
<1> HIDE DEF mine
<1>6. DOMAIN mine = DOMAIN live.fields /\ DOMAIN mine = {"tag", "tsn", "os", "is"}
  BY <1>1, <1>2
<1>7. Translated(a, type, live, "tsn", mine["tsn"]) = live.fields["tsn"]
  BY <1>1, <1>2, <1>3, <1>4 DEF Translated
<1>8. \A f \in {"os", "is"} : Translated(a, type, live, f, mine[f]) = live.fields[f]
  BY <1>1, <1>2, <1>4, <1>5 DEF Translated
<1>9. \A f \in {"os", "is"} : Translated(a, type, live, f, Wrong(f, mine[f])) # live.fields[f]
  BY <1>1, <1>2, <1>4, <1>5 DEF Translated, Lower
<1> QED
  BY <1>4, <1>6, <1>7, <1>8, <1>9 DEF Faithful, mine

LEMMA DataFaithful ==
  ASSUME Habits = {}, dut \in DutRecords, NEW k \in Nat, NEW live,
         live.fields = LiveFields("DATA", k), NEW a, Ready(a, "DATA")
  PROVE  Faithful(a, "DATA", live, ScriptFields("DATA", live.fields))
<1> DEFINE mine == ScriptFields("DATA", live.fields)
<1>1. live.fields = [tsn |-> NextTsn, ssn |-> dut.sent, ubit |-> 0]
  BY DEF LiveFields
<1>2. mine = [tsn |-> Own(NextTsn), ssn |-> dut.sent, ubit |-> 0]
  BY <1>1 DEF ScriptFields, Own
<1>3. Shifted("DATA") = {"tsn"} /\ Never("DATA") = {"ubit"} /\ Defined("DATA") = {"ubit"}
  BY DEF Shifted, Never, Defined
<1>4. Add(Own(NextTsn), a.localDiffTsn) = NextTsn /\ Add(Add(Own(NextTsn), 1), a.localDiffTsn) # NextTsn
  BY DutTypes, OwnMoved DEF Ready
<1>5. Add(dut.sent, 1) # dut.sent
  BY DutTypes, AddOther
<1> HIDE DEF mine
<1>6. DOMAIN mine = DOMAIN live.fields /\ DOMAIN mine = {"tsn", "ssn", "ubit"}
  BY <1>1, <1>2
<1>7. Translated(a, "DATA", live, "tsn", mine["tsn"]) = live.fields["tsn"]
  BY <1>1, <1>2, <1>3, <1>4 DEF Translated
<1>8. Translated(a, "DATA", live, "tsn", Wrong("tsn", mine["tsn"])) # live.fields["tsn"]
  BY <1>1, <1>2, <1>3, <1>4 DEF Translated, Wrong
<1>9. Translated(a, "DATA", live, "ssn", mine["ssn"]) = live.fields["ssn"]
  BY <1>1, <1>2, <1>3 DEF Translated
<1>10. Translated(a, "DATA", live, "ssn", Wrong("ssn", mine["ssn"])) # live.fields["ssn"]
  BY <1>1, <1>2, <1>3, <1>5 DEF Translated, Wrong
<1> QED
  BY <1>3, <1>6, <1>7, <1>8, <1>9, <1>10 DEF Faithful, mine

LEMMA SackFaithful ==
  ASSUME Habits = {}, dut \in DutRecords, NEW k \in Nat, NEW live, live.fields = LiveFields("SACK", k), NEW a
  PROVE  Faithful(a, "SACK", live, ScriptFields("SACK", live.fields))
<1> DEFINE mine == ScriptFields("SACK", live.fields)
           gap == Sub(PeerCum + 2, PeerCum)
<1>1. live.fields = [cum |-> PeerCum, gaps |-> {PeerCum + 2}, dups |-> {PeerTsn}]
  BY DEF LiveFields
<1>2. mine = [cum |-> PeerCum, gaps |-> {gap}, dups |-> {PeerTsn}]
  <2> DEFINE right == live.fields
             gaps == {Sub(g, right.cum) : g \in right.gaps}
  <2>1. gaps = {gap}
    BY <1>1
  <2>2. mine = [right EXCEPT !.gaps = gaps]
    BY <1>1 DEF ScriptFields
  <2>3. right = [cum |-> PeerCum, gaps |-> {PeerCum + 2}, dups |-> {PeerTsn}]
    BY <1>1
  <2> HIDE DEF mine, gap, gaps, right
  <2> QED
    BY <2>1, <2>2, <2>3
<1>3. Shifted("SACK") = {} /\ Never("SACK") = {} /\ Defined("SACK") = {}
  BY DEF Shifted, Never, Defined
<1>4. Add(gap, PeerCum) = PeerCum + 2
  <2>1. PeerCum \in {4, 5} /\ 7 < Modulus /\ Modulus \in Int
    BY DutTypes, ModulusType
  <2>2. gap = 2
    BY <2>1, SubSmall DEF Tsns
  <2> HIDE DEF gap
  <2>3. Add(2, PeerCum) = 2 + PeerCum
    BY <2>1, AddSmall DEF Tsns
  <2> QED
    BY <2>1, <2>2, <2>3
<1>5. Add(PeerCum, 1) # PeerCum
  BY DutTypes, AddOther
<1> HIDE DEF mine, gap
<1>6. DOMAIN mine = DOMAIN live.fields /\ DOMAIN mine = {"cum", "gaps", "dups"}
  BY <1>1, <1>2
<1>7. /\ Translated(a, "SACK", live, "cum", mine["cum"]) = live.fields["cum"]
      /\ Translated(a, "SACK", live, "dups", mine["dups"]) = live.fields["dups"]
  BY <1>1, <1>2, <1>3 DEF Translated
<1>8. Translated(a, "SACK", live, "gaps", mine["gaps"]) = live.fields["gaps"]
  <2>1. Translated(a, "SACK", live, "gaps", mine["gaps"]) = {Add(g, live.fields.cum) : g \in {gap}}
    BY <1>2, <1>3 DEF Translated
  <2>2. live.fields.cum = PeerCum /\ live.fields["gaps"] = {PeerCum + 2}
    BY <1>1
  <2> QED
    BY <1>4, <2>1, <2>2
<1>9. /\ Translated(a, "SACK", live, "cum", Wrong("cum", mine["cum"])) # live.fields["cum"]
      /\ Translated(a, "SACK", live, "dups", Wrong("dups", mine["dups"])) # live.fields["dups"]
  BY <1>1, <1>2, <1>3, <1>5 DEF Translated, Wrong
<1>10. Translated(a, "SACK", live, "gaps", Wrong("gaps", mine["gaps"])) # live.fields["gaps"]
  BY <1>1, <1>3 DEF Translated, Wrong
<1> QED
  BY <1>3, <1>6, <1>7, <1>8, <1>9, <1>10 DEF Faithful, mine

LEMMA RequestFaithful ==
  ASSUME Habits = {}, dut \in DutRecords, NEW k \in Nat, NEW live,
         live.fields = LiveFields("REQUEST", k), NEW a, Ready(a, "REQUEST")
  PROVE  Faithful(a, "REQUEST", live, ScriptFields("REQUEST", live.fields))
<1> DEFINE mine == ScriptFields("REQUEST", live.fields)
           x == Sub(NextTsn, 1)
<1>1. live.fields = [number |-> FirstRequest + k, answers |-> dut.peerRequest, last |-> x]
  BY DEF LiveFields
<1>2. mine = [number |-> FirstRequest + k - FirstRequest + ScriptRequest, answers |-> dut.peerRequest, last |-> Own(x)]
  <2> DEFINE right == live.fields
             number == right.number - FirstRequest + ScriptRequest
             first == Own(right.last)
  <2>1. mine = [right EXCEPT !.number = number, !.last = first]
    BY DEF ScriptFields, Own
  <2>2. number = FirstRequest + k - FirstRequest + ScriptRequest /\ first = Own(x)
    BY <1>1 DEF FirstRequest, ScriptRequest
  <2>3. right = [number |-> FirstRequest + k, answers |-> dut.peerRequest, last |-> x]
    BY <1>1
  <2> HIDE DEF mine, number, first, right
  <2> QED
    BY <2>1, <2>2, <2>3
<1>3. /\ Shifted("REQUEST") = {"last"} /\ Never("REQUEST") = {"number", "answers"}
      /\ Defined("REQUEST") = {"number", "answers"}
  BY DEF Shifted, Never, Defined
<1>4. x \in Tsns
  BY DutTypes, AddType DEF Tsns
<1> HIDE DEF x
<1>5. Add(Own(x), a.localDiffTsn) = x /\ Add(Add(Own(x), 1), a.localDiffTsn) # x
  BY <1>4, DutTypes, OwnMoved DEF Ready
<1> HIDE DEF mine
<1>6. DOMAIN mine = DOMAIN live.fields /\ DOMAIN mine = {"number", "answers", "last"}
  BY <1>1, <1>2
<1>7. Translated(a, "REQUEST", live, "last", mine["last"]) = live.fields["last"]
  BY <1>1, <1>2, <1>3, <1>5 DEF Translated
<1>8. Translated(a, "REQUEST", live, "last", Wrong("last", mine["last"])) # live.fields["last"]
  BY <1>1, <1>2, <1>3, <1>5 DEF Translated, Wrong
<1> QED
  BY <1>3, <1>6, <1>7, <1>8 DEF Faithful, mine

LEMMA ResponseFaithful ==
  ASSUME Habits = {}, dut \in DutRecords, NEW k \in Nat, NEW live,
         live.fields = LiveFields("RESPONSE", k), NEW a, Ready(a, "RESPONSE")
  PROVE  Faithful(a, "RESPONSE", live, ScriptFields("RESPONSE", live.fields))
<1> DEFINE mine == ScriptFields("RESPONSE", live.fields)
<1>1. live.fields = [number |-> dut.peerRequest, sender |-> NextTsn, receiver |-> PeerCum + 1]
  BY DEF LiveFields
<1>2. mine = [number |-> dut.peerRequest, sender |-> Own(NextTsn), receiver |-> PeerCum + 1]
  BY <1>1 DEF ScriptFields, Own
<1>3. Shifted("RESPONSE") = {"sender"} /\ Never("RESPONSE") = {} /\ Defined("RESPONSE") = {}
  BY DEF Shifted, Never, Defined
<1>4. Add(Own(NextTsn), a.localDiffTsn) = NextTsn /\ Add(Add(Own(NextTsn), 1), a.localDiffTsn) # NextTsn
  BY DutTypes, OwnMoved DEF Ready
<1>5. Add(dut.peerRequest, 1) # dut.peerRequest /\ Add(PeerCum + 1, 1) # PeerCum + 1
  BY DutTypes, AddOther
<1> HIDE DEF mine
<1>6. DOMAIN mine = DOMAIN live.fields /\ DOMAIN mine = {"number", "sender", "receiver"}
  BY <1>1, <1>2
<1>7. /\ Translated(a, "RESPONSE", live, "number", mine["number"]) = live.fields["number"]
      /\ Translated(a, "RESPONSE", live, "sender", mine["sender"]) = live.fields["sender"]
      /\ Translated(a, "RESPONSE", live, "receiver", mine["receiver"]) = live.fields["receiver"]
  BY <1>1, <1>2, <1>3, <1>4 DEF Translated
<1>8. /\ Translated(a, "RESPONSE", live, "number", Wrong("number", mine["number"])) # live.fields["number"]
      /\ Translated(a, "RESPONSE", live, "sender", Wrong("sender", mine["sender"])) # live.fields["sender"]
      /\ Translated(a, "RESPONSE", live, "receiver", Wrong("receiver", mine["receiver"])) # live.fields["receiver"]
  BY <1>1, <1>2, <1>3, <1>4, <1>5 DEF Translated, Wrong
<1> QED
  BY <1>3, <1>6, <1>7, <1>8 DEF Faithful, mine

(* The other chunks are for the script what they are for the DUT.          *)
LEMMA PlainFaithful ==
  ASSUME Habits = {}, dut \in DutRecords, NEW k \in Nat, NEW live, NEW a,
         NEW type \in Types \ {"INIT", "INIT_ACK", "DATA", "SACK", "REQUEST", "RESPONSE"},
         live.fields = LiveFields(type, k)
  PROVE  Faithful(a, type, live, ScriptFields(type, live.fields))
<1> DEFINE mine == ScriptFields(type, live.fields)
<1>1. Shifted(type) = {}
  BY DEF Shifted, Types
<1>2. CASE type = "SHUTDOWN"
  <2>1. live.fields = [cum |-> PeerCum] /\ mine = live.fields
    BY <1>2 DEF LiveFields, ScriptFields
  <2>2. Add(PeerCum, 1) # PeerCum
    BY DutTypes, AddOther
  <2> QED
    BY <1>1, <1>2, <2>1, <2>2 DEF Faithful, Translated, Wrong
<1>3. CASE type = "PLAIN"
  <2>1. live.fields = [number |-> FirstRequest + k]
    BY <1>3 DEF LiveFields
  <2>2. mine = [number |-> FirstRequest + k - FirstRequest + ScriptRequest]
    BY <1>3, <2>1 DEF ScriptFields, FirstRequest, ScriptRequest
  <2>3. Never(type) = {"number", "answers"} /\ Defined(type) = {"number"}
    BY <1>3 DEF Never, Defined
  <2> QED
    BY <2>1, <2>2, <2>3 DEF Faithful
<1>4. CASE type \in {"ABORT", "SHUTDOWN_COMPLETE"}
  <2>1. live.fields = [tbit |-> k] /\ mine = live.fields
    BY <1>4 DEF LiveFields, ScriptFields
  <2>2. Add(k, 1) # k
    BY AddOther
  <2> QED
    BY <1>1, <1>4, <2>1, <2>2 DEF Faithful, Translated, Wrong
<1>5. CASE type \in {"HEARTBEAT", "COOKIE_ECHO", "COOKIE_ACK", "SHUTDOWN_ACK"}
  <2>1. live.fields \in {[time |-> 1], [none |-> 0]} /\ mine = live.fields
    BY <1>5 DEF LiveFields, ScriptFields
  <2>2. Defined(type) = {"time", "none"}
    BY <1>5 DEF Defined
  <2> QED
    BY <1>1, <1>5, <2>1, <2>2 DEF Faithful, Translated
<1> QED
  BY <1>2, <1>3, <1>4, <1>5 DEF Types

LEMMA AllFaithful ==
  ASSUME Habits = {}, dut \in DutRecords, NEW type \in Types, NEW k \in Nat, NEW live,
         live.fields = LiveFields(type, k), NEW a, Ready(a, type)
  PROVE  Faithful(a, type, live, ScriptFields(type, live.fields))
BY SetupFaithful, DataFaithful, SackFaithful, RequestFaithful, ResponseFaithful, PlainFaithful DEF Types

-----------------------------------------------------------------------------
(* What the script expects.                                                *)

LEMMA Built ==
  ASSUME NEW type, NEW fields, NEW any
  PROVE  LET stored == Build(Chunk(type, fields), any)
         IN /\ stored.type = type /\ DOMAIN stored.fields = DOMAIN fields
            /\ type \notin {"ABORT", "SHUTDOWN_COMPLETE"} => stored.noCheck = any
            /\ any = {} => stored.noCheck = {}
            /\ \A f \in DOMAIN fields : stored.fields[f] = IF f \in any THEN Zero(f) ELSE fields[f]
BY DEF Build, Chunk

(* It expects the live chunk, one field of it perhaps left open, ...       *)
Right(e, type, mine, any) ==
  /\ e[2] = TRUE /\ e[1] = Build(Chunk(type, mine), any)
  /\ any = {} \/ \E f \in DOMAIN mine \cap LeftOpen(type) : any = {f}

(* ... or has one field wrong, ...                                         *)
WrongField(e, type, mine, f) ==
  /\ e[2] = FALSE /\ e[1] = Build(Chunk(type, [mine EXCEPT ![f] = Wrong(f, mine[f])]), {})
  /\ f \in DOMAIN mine \ Defined(type)

(* ... or takes the request for an earlier one.                            *)
WrongRequest(e, type, mine, k, j) ==
  /\ e[2] = FALSE /\ e[1] = Build(Chunk(type, [mine EXCEPT !.number = ScriptRequest + j]), {})
  /\ type \in {"REQUEST", "PLAIN"} /\ j \in dut.numbered \ {k}

LEMMA ExpectationCases ==
  ASSUME NEW type, NEW k, NEW right, NEW e \in Expectations(type, k, right)
  PROVE  LET mine == ScriptFields(type, right)
         IN \/ \E any : Right(e, type, mine, any)
            \/ \E f : WrongField(e, type, mine, f)
            \/ \E j : WrongRequest(e, type, mine, k, j)
<1> DEFINE mine == ScriptFields(type, right)
<1>1. CASE e \in {<<Build(Chunk(type, mine), any), TRUE>> : any \in {{}} \cup {{f} : f \in DOMAIN mine \cap LeftOpen(type)}}
  <2> HIDE DEF mine
  <2>1. PICK any \in {{}} \cup {{f} : f \in DOMAIN mine \cap LeftOpen(type)} : e = <<Build(Chunk(type, mine), any), TRUE>>
    BY <1>1
  <2>2. Right(e, type, mine, any)
    BY <2>1 DEF Right
  <2> QED
    BY <2>2 DEF mine
<1>2. CASE e \in {<<Build(Chunk(type, [mine EXCEPT ![f] = Wrong(f, @)]), {}), FALSE>> : f \in DOMAIN mine \ Defined(type)}
  <2> HIDE DEF mine
  <2>1. PICK f \in DOMAIN mine \ Defined(type) : e = <<Build(Chunk(type, [mine EXCEPT ![f] = Wrong(f, mine[f])]), {}), FALSE>>
    BY <1>2
  <2>2. WrongField(e, type, mine, f)
    BY <2>1 DEF WrongField
  <2> QED
    BY <2>2 DEF mine
<1>3. CASE e \in {<<Build(Chunk(type, [mine EXCEPT !.number = n]), {}), FALSE>> : n \in Misnumbered(type, k)}
  <2> HIDE DEF mine
  <2>1. PICK n \in Misnumbered(type, k) : e = <<Build(Chunk(type, [mine EXCEPT !.number = n]), {}), FALSE>>
    BY <1>3
  <2>2. type \in {"REQUEST", "PLAIN"} /\ \E j \in dut.numbered \ {k} : n = ScriptRequest + j
    BY <2>1 DEF Misnumbered
  <2>3. PICK j \in dut.numbered \ {k} : n = ScriptRequest + j
    BY <2>2
  <2>4. WrongRequest(e, type, mine, k, j)
    BY <2>1, <2>2, <2>3 DEF WrongRequest
  <2> QED
    BY <2>4 DEF mine
<1> QED
  BY <1>1, <1>2, <1>3 DEF Expectations

LEMMA ExpectedTranslates ==
  ASSUME NEW a, NEW stored, NEW live, NEW f
  PROVE  Expected(a, stored, live, f) = Translated(a, stored.type, live, f, stored.fields[f])
<1>1. f = "gaps" => Gaps(stored, live) = {Add(g, live.fields.cum) : g \in stored.fields[f]}
  BY DEF Gaps
<1> QED
  BY <1>1 DEF Expected, Translated

LEMMA UncheckedNever ==
  ASSUME Habits = {}, NEW stored
  PROVE  /\ Never(stored.type) \subseteq Unchecked(stored)
         /\ \A f \in Never(stored.type) : f \in Defined(stored.type) \/ (stored.type = "PLAIN" /\ f = "answers")
         /\ stored.type # "RESPONSE" \/ stored.fields.sender # 0 => Unchecked(stored) = Never(stored.type)
<1> DEFINE type == stored.type
           sender == stored.fields.sender
<1>1. Unchecked(stored) = CASE type \in {"INIT", "INIT_ACK"} -> {"tag"}
                            [] type = "DATA" -> {"ubit"}
                            [] type \in {"REQUEST", "PLAIN"} -> {"number", "answers"}
                            [] type = "RESPONSE" /\ sender = 0 -> {"sender", "receiver"}
                            [] OTHER -> {}
  BY DEF Unchecked
<1>2. Defined(type) = CASE type \in {"INIT", "INIT_ACK"} -> {"tag", "tsn"}
                        [] type = "DATA" -> {"ubit"}
                        [] type = "PLAIN" -> {"number"}
                        [] type = "REQUEST" -> {"number", "answers"}
                        [] type \in {"HEARTBEAT", "COOKIE_ECHO", "COOKIE_ACK", "SHUTDOWN_ACK"} -> {"time", "none"}
                        [] OTHER -> {}
  BY DEF Defined
<1> HIDE DEF type, sender
<1>3. CASE type \in {"INIT", "INIT_ACK"}
  BY <1>1, <1>2, <1>3 DEF Never, type
<1>4. CASE type = "DATA"
  BY <1>1, <1>2, <1>4 DEF Never, type
<1>5. CASE type = "PLAIN"
  BY <1>1, <1>2, <1>5 DEF Never, type
<1>6. CASE type = "REQUEST"
  BY <1>1, <1>2, <1>6 DEF Never, type
<1>7. CASE type \notin {"INIT", "INIT_ACK", "DATA", "PLAIN", "REQUEST"}
  <2>1. Never(type) = {}
    BY <1>7 DEF Never
  <2>2. type # "RESPONSE" \/ sender # 0 => Unchecked(stored) = {}
    BY <1>1, <1>7
  <2> QED
    BY <2>1, <2>2 DEF type, sender
<1> QED
  BY <1>3, <1>4, <1>5, <1>6, <1>7, Zenon

LEMMA OpenOrNot ==
  ASSUME Habits = {}, NEW type
  PROVE  /\ type \in {"ABORT", "SHUTDOWN_COMPLETE"} => LeftOpen(type) = {}
         /\ type \in {"INIT", "INIT_ACK"} => "tsn" \notin LeftOpen(type) /\ "tsn" \in Defined(type)
         /\ type = "REQUEST" => "answers" \notin LeftOpen(type) /\ {"answers", "number"} \subseteq Defined(type)
         /\ type = "PLAIN" => LeftOpen(type) = {} /\ "number" \in Defined(type)
BY DEF LeftOpen, Defined, Wildcards, DataWildcards, InitWildcards, InitAckWildcards, SackWildcards,
       ShutdownWildcards, FlagWildcards, OutgoingRequestWildcards, PlainRequestWildcards, ResponseWildcards

(* What is right agrees, and a wrong field does not.                       *)
LEMMA RightAgrees ==
  ASSUME Habits = {}, NEW type, NEW live, NEW a, NEW mine, NEW e, NEW any,
         Faithful(a, type, live, mine), Right(e, type, mine, any)
  PROVE  FieldsAgree(a, e[1], live)
<1> DEFINE stored == e[1]
<1>1. stored.type = type /\ DOMAIN stored.fields = DOMAIN mine /\ stored.noCheck = any
  <2>1. type \in {"ABORT", "SHUTDOWN_COMPLETE"} => any = {}
    BY OpenOrNot DEF Right
  <2>2. stored = Build(Chunk(type, mine), any)
    BY DEF Right
  <2> HIDE DEF stored
  <2>3. stored.type = type /\ DOMAIN stored.fields = DOMAIN mine
    BY <2>2, Built
  <2>4. CASE any = {}
    BY <2>2, <2>3, <2>4, Built
  <2>5. CASE type \notin {"ABORT", "SHUTDOWN_COMPLETE"}
    BY <2>2, <2>3, <2>5, Built
  <2> QED
    BY <2>1, <2>4, <2>5
<1>2. ASSUME NEW f \in DOMAIN mine \ any PROVE stored.fields[f] = mine[f]
  BY Built DEF Right
<1>3. ASSUME NEW f \in DOMAIN stored.fields \ (stored.noCheck \cup Unchecked(stored))
      PROVE  Expected(a, stored, live, f) = live.fields[f]
  <2>1. f \in DOMAIN mine \ Never(type) /\ f \notin any
    BY <1>1, <1>3, UncheckedNever
  <2>2. stored.fields[f] = mine[f]
    BY <1>2, <2>1
  <2>3. Expected(a, stored, live, f) = Translated(a, type, live, f, mine[f])
    BY <1>1, <2>2, ExpectedTranslates
  <2> QED
    BY <2>1, <2>3 DEF Faithful
<1> HIDE DEF stored
<1>4. FieldsAgree(a, stored, live)
  BY <1>3 DEF FieldsAgree
<1> QED
  BY <1>4 DEF stored

LEMMA WrongDisagrees ==
  ASSUME Habits = {}, NEW type, NEW live, NEW a, NEW mine, NEW e, NEW f,
         Faithful(a, type, live, mine), WrongField(e, type, mine, f),
         type = "RESPONSE" => "sender" \in DOMAIN mine /\ mine["sender"] # 0 /\ Add(mine["sender"], 1) # 0,
         type = "PLAIN" => "answers" \notin DOMAIN mine
  PROVE  ~FieldsAgree(a, e[1], live)
<1> DEFINE stored == e[1]
           wrong == [mine EXCEPT ![f] = Wrong(f, mine[f])]
<1>1. f \in DOMAIN mine /\ f \notin Defined(type)
  BY DEF WrongField
<1>2. wrong = [g \in DOMAIN mine |-> IF g = f THEN Wrong(f, mine[f]) ELSE mine[g]]
  OBVIOUS
<1>3. stored = Build(Chunk(type, wrong), {})
  BY DEF WrongField
<1> HIDE DEF stored, wrong
<1>4. stored.type = type /\ DOMAIN stored.fields = DOMAIN mine /\ stored.noCheck = {}
  BY <1>2, <1>3, Built
<1>5. \A g \in DOMAIN mine : stored.fields[g] = IF g = f THEN Wrong(f, mine[f]) ELSE mine[g]
  BY <1>2, <1>3, Built
<1>6. type = "RESPONSE" => stored.fields["sender"] # 0
  BY <1>5 DEF Wrong
<1>7. f \notin Unchecked(stored)
  BY <1>1, <1>4, <1>6, UncheckedNever
<1>8. Expected(a, stored, live, f) = Translated(a, type, live, f, Wrong(f, mine[f]))
  BY <1>1, <1>4, <1>5, ExpectedTranslates
<1>9. Expected(a, stored, live, f) # live.fields[f]
  BY <1>1, <1>8 DEF Faithful
<1>10. ~FieldsAgree(a, stored, live)
  BY <1>1, <1>4, <1>7, <1>9 DEF FieldsAgree
<1> QED
  BY <1>10 DEF stored

-----------------------------------------------------------------------------
(* The numbers of requests.                                                *)

LEMMA MapsOne ==
  ASSUME NEW a, DOMAIN a = AppFields, NEW n, NEW v
  PROVE  /\ DOMAIN Maps(a, n, v) = AppFields
         /\ \A f \in AppFields \ {"seqNumMap"} : Maps(a, n, v)[f] = a[f]
         /\ \A m : Mapped(Maps(a, n, v), m) = IF m = n /\ Mapped(a, n) = 0 THEN v ELSE Mapped(a, m)
<1>1. CASE Mapped(a, n) # 0
  BY <1>1 DEF Maps
<1>2. CASE Mapped(a, n) = 0
  <2> DEFINE known == a.seqNumMap
             now == [m \in DOMAIN known \cup {n} |-> IF m = n THEN v ELSE known[m]]
  <2>1. Maps(a, n, v) = [a EXCEPT !.seqNumMap = now]
    BY <1>2 DEF Maps
  <2>2. DOMAIN now = DOMAIN known \cup {n} /\ now[n] = v /\ \A m \in DOMAIN known \ {n} : now[m] = known[m]
    OBVIOUS
  <2> HIDE DEF now, known
  <2>3. /\ DOMAIN Maps(a, n, v) = AppFields /\ Maps(a, n, v).seqNumMap = now
        /\ \A f \in AppFields \ {"seqNumMap"} : Maps(a, n, v)[f] = a[f]
    BY <2>1 DEF AppFields
  <2>4. \A m : Mapped(Maps(a, n, v), m) = IF m \in DOMAIN now THEN now[m] ELSE 0
    BY <2>3 DEF Mapped
  <2>5. \A m : Mapped(a, m) = IF m \in DOMAIN known THEN known[m] ELSE 0
    BY DEF Mapped, known
  <2> QED
    BY <1>2, <2>2, <2>3, <2>4, <2>5
<1> QED
  BY <1>1, <1>2

(* The requests that the script knows after an expectation.                *)
Given(type, stored, k) ==
  IF type \in {"REQUEST", "PLAIN"} /\ "number" \notin stored.noCheck THEN dut.numbered \cup {k} ELSE dut.numbered

NumberedIn(a, numbered) ==
  \A j \in 0 .. MaxRequests - 1 : Mapped(a, ScriptRequest + j) = IF j \in numbered THEN FirstRequest + j ELSE 0

(* An expected request has the number of the live one, or none, or that of *)
(* an earlier one; the number it answers is the peer's own.                *)
NumbersExpected(e, stored, type, right, k) ==
  /\ type = "REQUEST" => stored.fields.answers = dut.peerRequest /\ right.answers = dut.peerRequest
  /\ right.number = FirstRequest + k
  /\ \/ "number" \in stored.noCheck /\ stored.fields.number = 0
     \/ "number" \notin stored.noCheck /\ stored.fields.number = ScriptRequest + k
     \/ /\ e[2] = FALSE /\ "number" \notin stored.noCheck
        /\ \E j \in dut.numbered \ {k} : stored.fields.number = ScriptRequest + j

LEMMA RequestExpected ==
  ASSUME Habits = {}, dut \in DutRecords, NEW type \in {"REQUEST", "PLAIN"}, NEW k \in 0 .. MaxRequests - 1,
         NEW right, right = LiveFields(type, k), NEW e \in Expectations(type, k, right)
  PROVE  e[1].type = type /\ NumbersExpected(e, e[1], type, right, k)
<1> DEFINE mine == ScriptFields(type, right)
           stored == e[1]
<1>1. /\ right.number = FirstRequest + k
      /\ type = "REQUEST" => right.answers = dut.peerRequest
      /\ DOMAIN right = IF type = "REQUEST" THEN {"number", "answers", "last"} ELSE {"number"}
  BY DEF LiveFields
<1>2. mine.number = ScriptRequest + k
  <2>1. mine.number = right.number - FirstRequest + ScriptRequest
    BY <1>1 DEF ScriptFields
  <2> HIDE DEF mine
  <2> QED
    BY <1>1, <2>1 DEF FirstRequest, ScriptRequest
<1>3. DOMAIN mine = DOMAIN right /\ (type = "REQUEST" => mine.answers = dut.peerRequest)
  BY <1>1 DEF ScriptFields
<1> HIDE DEF mine, stored
<1>4. CASE \E any : Right(e, type, mine, any)
  <2>1. PICK any : Right(e, type, mine, any)
    BY <1>4
  <2>2. stored = Build(Chunk(type, mine), any) /\ any \subseteq LeftOpen(type)
    BY <2>1 DEF Right, stored
  <2>3. stored.type = type /\ stored.noCheck = any
    BY <2>2, Built
  <2>4. \A f \in DOMAIN mine : stored.fields[f] = IF f \in any THEN Zero(f) ELSE mine[f]
    BY <2>2, Built
  <2>5. type = "REQUEST" => stored.fields.answers = dut.peerRequest
    BY <1>1, <1>3, <2>2, <2>4, OpenOrNot
  <2>6. stored.fields.number = IF "number" \in any THEN 0 ELSE ScriptRequest + k
    BY <1>1, <1>2, <1>3, <2>4 DEF Zero
  <2> QED
    BY <1>1, <2>3, <2>5, <2>6 DEF stored, NumbersExpected
<1>5. CASE \E f : WrongField(e, type, mine, f)
  <2>1. PICK f : WrongField(e, type, mine, f)
    BY <1>5
  <2> DEFINE wrong == [mine EXCEPT ![f] = Wrong(f, mine[f])]
  <2>2. stored = Build(Chunk(type, wrong), {}) /\ f \notin Defined(type)
    BY <2>1 DEF WrongField, stored
  <2>3. f # "number" /\ (type = "REQUEST" => f # "answers")
    BY <2>2, OpenOrNot
  <2>4. /\ DOMAIN wrong = DOMAIN mine /\ wrong.number = mine.number
        /\ type = "REQUEST" => wrong.answers = mine.answers
    BY <1>1, <1>3, <2>3
  <2> HIDE DEF wrong
  <2>5. stored.type = type /\ stored.noCheck = {} /\ \A g \in DOMAIN wrong : stored.fields[g] = wrong[g]
    BY <2>2, Built
  <2> QED
    BY <1>1, <1>2, <1>3, <2>4, <2>5 DEF stored, NumbersExpected
<1>6. CASE \E j : WrongRequest(e, type, mine, k, j)
  <2>1. PICK j : WrongRequest(e, type, mine, k, j)
    BY <1>6
  <2> DEFINE wrong == [mine EXCEPT !.number = ScriptRequest + j]
  <2>2. stored = Build(Chunk(type, wrong), {}) /\ e[2] = FALSE /\ j \in dut.numbered \ {k}
    BY <2>1 DEF WrongRequest, stored
  <2>3. /\ DOMAIN wrong = DOMAIN mine /\ wrong.number = ScriptRequest + j
        /\ type = "REQUEST" => wrong.answers = mine.answers
    BY <1>1, <1>3
  <2> HIDE DEF wrong
  <2>4. stored.type = type /\ stored.noCheck = {} /\ \A g \in DOMAIN wrong : stored.fields[g] = wrong[g]
    BY <2>2, Built
  <2> QED
    BY <1>1, <1>3, <2>2, <2>3, <2>4 DEF stored, NumbersExpected
<1> QED
  BY <1>4, <1>5, <1>6, ExpectationCases DEF mine

(* A matching request keeps the numbers in order, and no expectation gives *)
(* two requests one number.                                                *)
Remapped(a, b, given, right) ==
  /\ DOMAIN b = AppFields /\ \A f \in AppFields \ {"seqNumMap"} : b[f] = a[f]
  /\ given \in SUBSET (0 .. MaxRequests - 1)
  /\ right = TRUE => NumberedIn(b, given)
  /\ \A i, j \in given : Mapped(b, ScriptRequest + i) = Mapped(b, ScriptRequest + j) => i = j

LEMMA RequestMapped ==
  ASSUME Habits = {}, dut \in DutRecords, NEW type \in Types, NEW live, live.type = type,
         NEW k \in Nat, type \in {"REQUEST", "PLAIN"} => k \in 0 .. MaxRequests - 1,
         live.fields = LiveFields(type, k), NEW e \in Expectations(type, k, live.fields), e[1].type = type,
         NEW a, DOMAIN a = AppFields, NumberedIn(a, dut.numbered)
  PROVE  Remapped(a, MapRequest(a, e[1], live), Given(type, e[1], k), e[2])
<1> DEFINE stored == e[1]
           numbered == Maps(a, stored.fields.number, live.fields.number)
           b == MapRequest(a, stored, live)
           given == Given(type, stored, k)
<1>1. dut.numbered \subseteq 0 .. MaxRequests - 1 /\ MaxRequests \in Nat /\ dut.peerRequest \in {0, ScriptRequest + MaxRequests}
  BY NumberAssumption, DutTypes DEF DutRecords, PeerRequest
<1>2. CASE type \notin {"REQUEST", "PLAIN"}
  <2>1. b = a /\ given = dut.numbered
    BY <1>2 DEF MapRequest, Given
  <2> HIDE DEF b, given
  <2>2. \A i, j \in given : Mapped(b, ScriptRequest + i) = Mapped(b, ScriptRequest + j) => i = j
    BY <1>1, <2>1 DEF NumberedIn, FirstRequest
  <2> QED
    BY <1>1, <2>1, <2>2 DEF b, given, stored, Remapped
<1>3. CASE type \in {"REQUEST", "PLAIN"}
  <2>1. k \in 0 .. MaxRequests - 1
    BY <1>3
  <2>2. /\ type = "REQUEST" => stored.fields.answers = dut.peerRequest /\ live.fields.answers = dut.peerRequest
        /\ live.fields.number = FirstRequest + k
        /\ \/ "number" \in stored.noCheck /\ stored.fields.number = 0
           \/ "number" \notin stored.noCheck /\ stored.fields.number = ScriptRequest + k
           \/ /\ e[2] = FALSE /\ "number" \notin stored.noCheck
              /\ \E j \in dut.numbered \ {k} : stored.fields.number = ScriptRequest + j
    <3>1. NumbersExpected(e, stored, type, live.fields, k)
      BY <1>3, <2>1, RequestExpected
    <3> QED
      BY <3>1 DEF NumbersExpected
  <2>3. /\ DOMAIN numbered = AppFields /\ \A f \in AppFields \ {"seqNumMap"} : numbered[f] = a[f]
        /\ \A m : Mapped(numbered, m) = IF m = stored.fields.number /\ Mapped(a, stored.fields.number) = 0
                                        THEN FirstRequest + k ELSE Mapped(a, m)
    BY <2>2, MapsOne
  <2>4. given = IF "number" \in stored.noCheck THEN dut.numbered ELSE dut.numbered \cup {k}
    BY <1>3 DEF Given
  <2>5. b = IF type = "REQUEST" THEN Maps(numbered, dut.peerRequest, dut.peerRequest) ELSE numbered
    BY <1>3, <2>2 DEF MapRequest
  <2> HIDE DEF numbered, given, b
  <2>6. /\ DOMAIN b = AppFields /\ \A f \in AppFields \ {"seqNumMap"} : b[f] = a[f]
        /\ \A j \in 0 .. MaxRequests - 1 : Mapped(b, ScriptRequest + j) = Mapped(numbered, ScriptRequest + j)
    <3>1. CASE type = "REQUEST"
      <4>1. /\ DOMAIN b = AppFields /\ \A f \in AppFields \ {"seqNumMap"} : b[f] = numbered[f]
            /\ \A m : m # dut.peerRequest => Mapped(b, m) = Mapped(numbered, m)
        BY <2>3, <2>5, <3>1, MapsOne
      <4>2. \A j \in 0 .. MaxRequests - 1 : ScriptRequest + j # dut.peerRequest
        BY <1>1 DEF ScriptRequest
      <4> QED
        BY <2>3, <4>1, <4>2
    <3>2. CASE type # "REQUEST"
      BY <2>3, <2>5, <3>2
    <3> QED
      BY <3>1, <3>2
  <2>7. \A j \in 0 .. MaxRequests - 1 :
          Mapped(b, ScriptRequest + j) = IF ScriptRequest + j = stored.fields.number /\ Mapped(a, stored.fields.number) = 0
                                         THEN FirstRequest + k ELSE Mapped(a, ScriptRequest + j)
    BY <2>3, <2>6
  <2>8. \A j \in 0 .. MaxRequests - 1 : Mapped(a, ScriptRequest + j) = IF j \in dut.numbered THEN FirstRequest + j ELSE 0
    BY DEF NumberedIn
  <2>9. given \subseteq 0 .. MaxRequests - 1 /\ given \subseteq dut.numbered \cup {k}
    BY <1>1, <2>1, <2>4
  <2>10. CASE "number" \in stored.noCheck /\ stored.fields.number = 0
    <3>1. \A j \in 0 .. MaxRequests - 1 : Mapped(b, ScriptRequest + j) = IF j \in given THEN FirstRequest + j ELSE 0
      BY <2>4, <2>7, <2>8, <2>10 DEF ScriptRequest
    <3>2. \A i, j \in given : Mapped(b, ScriptRequest + i) = Mapped(b, ScriptRequest + j) => i = j
      BY <2>9, <3>1 DEF FirstRequest
    <3> QED
      BY <2>6, <2>9, <3>1, <3>2 DEF NumberedIn, b, given, stored, Remapped
  <2>11. CASE "number" \notin stored.noCheck /\ stored.fields.number = ScriptRequest + k
    <3>1. \A j \in 0 .. MaxRequests - 1 : ScriptRequest + j = ScriptRequest + k => j = k
      BY <2>1 DEF ScriptRequest
    <3>2. \A j \in 0 .. MaxRequests - 1 : Mapped(b, ScriptRequest + j) = IF j \in given THEN FirstRequest + j ELSE 0
      BY <2>1, <2>4, <2>7, <2>8, <2>11, <3>1 DEF FirstRequest
    <3>3. \A i, j \in given : Mapped(b, ScriptRequest + i) = Mapped(b, ScriptRequest + j) => i = j
      BY <2>9, <3>2 DEF FirstRequest
    <3> QED
      BY <2>6, <2>9, <3>2, <3>3 DEF NumberedIn, b, given, stored, Remapped
  <2>12. CASE /\ e[2] = FALSE /\ "number" \notin stored.noCheck
              /\ \E j \in dut.numbered \ {k} : stored.fields.number = ScriptRequest + j
    <3>1. PICK i \in dut.numbered \ {k} : stored.fields.number = ScriptRequest + i
      BY <2>12
    <3>2. Mapped(a, ScriptRequest + i) # 0
      BY <1>1, <2>8, <3>1 DEF FirstRequest
    <3>3. \A j \in 0 .. MaxRequests - 1 : Mapped(b, ScriptRequest + j) = IF j \in dut.numbered THEN FirstRequest + j ELSE 0
      BY <2>7, <2>8, <3>1, <3>2
    <3>4. \A h, j \in given : Mapped(b, ScriptRequest + h) = Mapped(b, ScriptRequest + j) => h = j
      BY <2>4, <2>9, <2>12, <3>3 DEF FirstRequest
    <3> QED
      BY <2>6, <2>9, <2>12, <3>4 DEF b, given, stored, Remapped
  <2> QED
    BY <2>2, <2>10, <2>11, <2>12
<1> QED
  BY <1>2, <1>3

-----------------------------------------------------------------------------
(* A chunk of the DUT.                                                     *)

Meant(e, type) ==
  /\ e[1].type = type /\ e[2] \in BOOLEAN
  /\ type \in {"INIT", "INIT_ACK"} => e[1].fields.tsn = dut.scriptTsn

LEMMA TypeExpected ==
  ASSUME Habits = {}, NEW type, NEW k, NEW right, NEW e \in Expectations(type, k, right)
  PROVE  Meant(e, type)
<1> DEFINE mine == ScriptFields(type, right)
<1>1. type \in {"INIT", "INIT_ACK"} => "tsn" \in DOMAIN mine /\ mine["tsn"] = dut.scriptTsn
  BY DEF ScriptFields
<1> HIDE DEF mine
<1>2. CASE \E any : Right(e, type, mine, any)
  <2>1. PICK any : Right(e, type, mine, any)
    BY <1>2
  <2>2. e[1] = Build(Chunk(type, mine), any) /\ any \subseteq LeftOpen(type) /\ e[2] = TRUE
    BY <2>1 DEF Right
  <2>3. e[1].type = type /\ \A f \in DOMAIN mine : e[1].fields[f] = IF f \in any THEN Zero(f) ELSE mine[f]
    BY <2>2, Built
  <2>4. type \in {"INIT", "INIT_ACK"} => "tsn" \notin any
    BY <2>2, OpenOrNot
  <2> QED
    BY <1>1, <2>2, <2>3, <2>4 DEF Meant
<1>3. CASE \E f : WrongField(e, type, mine, f)
  <2>1. PICK f : WrongField(e, type, mine, f)
    BY <1>3
  <2> DEFINE wrong == [mine EXCEPT ![f] = Wrong(f, mine[f])]
  <2>2. e[1] = Build(Chunk(type, wrong), {}) /\ f \notin Defined(type) /\ e[2] = FALSE
    BY <2>1 DEF WrongField
  <2>3. type \in {"INIT", "INIT_ACK"} => f # "tsn"
    BY <2>2, OpenOrNot
  <2>4. type \in {"INIT", "INIT_ACK"} => "tsn" \in DOMAIN wrong /\ wrong["tsn"] = dut.scriptTsn
    BY <1>1, <2>3
  <2> HIDE DEF wrong
  <2>5. e[1].type = type /\ \A g \in DOMAIN wrong : e[1].fields[g] = wrong[g]
    BY <2>2, Built
  <2> QED
    BY <2>2, <2>4, <2>5 DEF Meant
<1>4. CASE \E j : WrongRequest(e, type, mine, k, j)
  <2>1. PICK j : WrongRequest(e, type, mine, k, j)
    BY <1>4
  <2> DEFINE wrong == [mine EXCEPT !.number = ScriptRequest + j]
  <2>2. e[1] = Build(Chunk(type, wrong), {}) /\ type \in {"REQUEST", "PLAIN"} /\ e[2] = FALSE
    BY <2>1 DEF WrongRequest
  <2> HIDE DEF wrong
  <2>3. e[1].type = type
    BY <2>2, Built
  <2> QED
    BY <2>2, <2>3 DEF Meant
<1> QED
  BY <1>2, <1>3, <1>4, ExpectationCases DEF mine

(* Where the DUT sends a chunk of the type.                                *)
SentIn(type) ==
  /\ type = "INIT_ACK" => dut.state = "init"
  /\ type \notin {"INIT", "INIT_ACK"} => dut.state \notin {"closed", "init"}
  /\ type = "RESPONSE" => dut.sent > 0

LearntOf(a, type) ==
  /\ DOMAIN a = AppFields
  /\ a.localVTag = app.localVTag /\ a.seqNumMap = app.seqNumMap /\ a.error = app.error /\ a.over = app.over
  /\ type \in {"INIT", "INIT_ACK"} => a.peerVTag = DutTag
  /\ type \notin {"INIT", "INIT_ACK"} => a.peerVTag = app.peerVTag
  /\ type \notin {"INIT", "INIT_ACK"} => a.localDiffTsn = app.localDiffTsn
  /\ a.localDiffTsn = Sub(dut.tsn, dut.scriptTsn)
  /\ a.peerCookie = IF type = "INIT_ACK" THEN "cookie" ELSE app.peerCookie
  /\ type # "INIT" => a.peerStreams = app.peerStreams

LEMMA Learns ==
  ASSUME Habits = {}, Live, NEW type \in Types, SentIn(type), NEW k \in Nat, NEW live, live.type = type,
         live.fields = LiveFields(type, k), NEW e \in Expectations(type, k, live.fields)
  PROVE  LearntOf(Learnt(Awaited(app, e[1]), live), type)
<1> DEFINE stored == e[1]
           w == Awaited(app, stored)
           a == Learnt(w, live)
<1>1. stored.type = type /\ (type \in {"INIT", "INIT_ACK"} => stored.fields.tsn = dut.scriptTsn)
  <2>1. Meant(e, type)
    BY TypeExpected
  <2> QED
    BY <2>1 DEF Meant
<1>2. DOMAIN app = AppFields
  BY DEF Live
<1> HIDE DEF stored
<1>3. CASE type \notin {"INIT", "INIT_ACK"}
  <2>1. a = app
    BY <1>1, <1>3 DEF Awaited, Learnt
  <2>2. app.localDiffTsn = Sub(dut.tsn, dut.scriptTsn)
    BY <1>3 DEF Live, Known, SentIn
  <2> HIDE DEF a
  <2> QED
    BY <1>2, <1>3, <2>1, <2>2 DEF LearntOf, a, stored
<1>4. CASE type \in {"INIT", "INIT_ACK"}
  <2>1. live.fields.tag = DutTag /\ live.fields.tsn = dut.tsn
    BY <1>4 DEF LiveFields
  <2>2. w = [app EXCEPT !.initLocalTsn = dut.scriptTsn, !.peerVTag = stored.fields.tag]
    BY <1>1, <1>4 DEF Awaited
  <2>3. /\ DOMAIN w = AppFields /\ w.initLocalTsn = dut.scriptTsn
        /\ \A f \in AppFields \ {"initLocalTsn", "peerVTag"} : w[f] = app[f]
    BY <1>2, <2>2 DEF AppFields
  <2> HIDE DEF w
  <2>4. a = [w EXCEPT !.peerVTag = DutTag, !.localDiffTsn = Sub(dut.tsn, dut.scriptTsn),
                      !.peerCookie = IF type = "INIT_ACK" THEN "cookie" ELSE @,
                      !.peerStreams = IF type = "INIT" THEN Streams(live.fields) ELSE @]
    BY <1>4, <2>1, <2>3 DEF Learnt
  <2>5. /\ DOMAIN a = AppFields /\ a.peerVTag = DutTag /\ a.localDiffTsn = Sub(dut.tsn, dut.scriptTsn)
        /\ a.peerCookie = IF type = "INIT_ACK" THEN "cookie" ELSE w.peerCookie
        /\ type # "INIT" => a.peerStreams = w.peerStreams
        /\ \A f \in AppFields \ {"peerVTag", "localDiffTsn", "peerCookie", "peerStreams"} : a[f] = w[f]
    BY <2>3, <2>4 DEF AppFields
  <2> HIDE DEF a
  <2>6. LearntOf(a, type)
    BY <1>4, <2>3, <2>5 DEF LearntOf, AppFields
  <2> QED
    BY <2>6 DEF a, w, stored
<1> QED
  BY <1>3, <1>4

(* The app's verdict is the truth about the chunk.                         *)
LEMMA Matches ==
  ASSUME Habits = {}, Live, NEW type \in Types, SentIn(type), NEW k \in Nat, NEW live, live.type = type,
         type \in {"REQUEST", "PLAIN"} => k \in 0 .. MaxRequests - 1,
         live.fields = LiveFields(type, k), NEW e \in Expectations(type, k, live.fields),
         NEW a, LearntOf(a, type)
  PROVE  CompareSctpPacket(a, e[1], live) <=> e[2] = TRUE /\ TagAgrees(a, live)
<1> DEFINE mine == ScriptFields(type, live.fields)
<1>1. dut \in DutRecords /\ e[1].type = type /\ e[2] \in BOOLEAN
  <2>1. Meant(e, type)
    BY TypeExpected
  <2> QED
    BY <2>1 DEF Meant, Live
<1>2. Faithful(a, type, live, mine)
  <2>1. Ready(a, type)
    BY DEF Ready, LearntOf, Live, Kept, SentIn
  <2> QED
    BY <1>1, <2>1, AllFaithful
<1>3. ASSUME type \in {"REQUEST", "PLAIN"} PROVE NumbersExpected(e, e[1], type, live.fields, k)
  BY <1>1, <1>3, RequestExpected
<1>4. \A j \in 0 .. MaxRequests - 1 : Mapped(a, ScriptRequest + j) = IF j \in dut.numbered THEN FirstRequest + j ELSE 0
  BY DEF LearntOf, Mapped, Live, Numbered
<1>5. CASE \E any : Right(e, type, mine, any)
  <2>1. PICK any : Right(e, type, mine, any)
    BY <1>5
  <2>2. FieldsAgree(a, e[1], live) /\ e[2] = TRUE
    BY <1>2, <2>1, RightAgrees DEF Right
  <2>3. RequestAgrees(a, e[1], live)
    <3>1. CASE type \notin {"REQUEST", "PLAIN"}
      BY <1>1, <3>1 DEF RequestAgrees
    <3>2. CASE type \in {"REQUEST", "PLAIN"}
      BY <1>3, <1>4, <2>2, <3>2 DEF RequestAgrees, NumbersExpected
    <3> QED
      BY <3>1, <3>2
  <2> QED
    BY <1>1, <2>2, <2>3 DEF CompareSctpPacket
<1>6. CASE \E f : WrongField(e, type, mine, f)
  <2>1. PICK f : WrongField(e, type, mine, f)
    BY <1>6
  <2>2. type = "PLAIN" => "answers" \notin DOMAIN mine
    <3>1. type = "PLAIN" => DOMAIN live.fields = {"number"}
      BY DEF LiveFields
    <3> QED
      BY <1>2, <3>1 DEF Faithful
  <2>3. type = "RESPONSE" => "sender" \in DOMAIN mine /\ mine["sender"] # 0 /\ Add(mine["sender"], 1) # 0
    <3>1. type = "RESPONSE" => "sender" \in DOMAIN mine /\ mine["sender"] = Own(NextTsn)
      BY DEF LiveFields, ScriptFields, Own
    <3> HIDE DEF mine
    <3> QED
      BY <1>1, <3>1, DutTypes, OwnNext DEF SentIn
  <2> HIDE DEF mine
  <2>4. ~FieldsAgree(a, e[1], live)
    BY <1>2, <2>1, <2>2, <2>3, WrongDisagrees
  <2>5. e[2] = FALSE
    BY <2>1 DEF WrongField
  <2> QED
    BY <2>4, <2>5 DEF CompareSctpPacket
<1>7. CASE \E j : WrongRequest(e, type, mine, k, j)
  <2> HIDE DEF mine
  <2>1. PICK j : WrongRequest(e, type, mine, k, j)
    BY <1>7
  <2>2. type \in {"REQUEST", "PLAIN"} /\ j \in dut.numbered \ {k} /\ e[2] = FALSE
    BY <2>1 DEF WrongRequest
  <2>3. j \in 0 .. MaxRequests - 1 /\ k \in 0 .. MaxRequests - 1
    BY <1>1, <2>2, DutTypes
  <2>4. e[1].noCheck = {} /\ e[1].fields.number = ScriptRequest + j
    <3> DEFINE wrong == [mine EXCEPT !.number = ScriptRequest + j]
    <3>1. e[1] = Build(Chunk(type, wrong), {})
      BY <2>1 DEF WrongRequest
    <3>2. "number" \in DOMAIN mine
      <4>1. "number" \in DOMAIN live.fields
        BY <2>2 DEF LiveFields
      <4> QED
        BY <1>2, <4>1 DEF Faithful
    <3>3. "number" \in DOMAIN wrong /\ wrong["number"] = ScriptRequest + j
      BY <3>2
    <3> HIDE DEF wrong
    <3> QED
      BY <3>1, <3>3, Built
  <2>5. live.fields.number = FirstRequest + k
    BY <1>3, <2>2 DEF NumbersExpected
  <2>6. ~RequestAgrees(a, e[1], live)
    BY <1>1, <1>4, <2>2, <2>3, <2>4, <2>5 DEF RequestAgrees, FirstRequest
  <2> QED
    BY <2>2, <2>6 DEF CompareSctpPacket
<1> QED
  BY <1>5, <1>6, <1>7, ExpectationCases

(* What is told of a chunk that matched.                                   *)
Told(type, d) ==
  /\ DOMAIN app' = AppFields /\ app'.localVTag = app.localVTag
  /\ dut'.numbered \in SUBSET (0 .. MaxRequests - 1) /\ NumberedIn(app', dut'.numbered)
  /\ app'.peerVTag = IF type \in {"INIT", "INIT_ACK"} THEN DutTag ELSE app.peerVTag
  /\ app'.localDiffTsn = Sub(dut.tsn, dut.scriptTsn)
  /\ app'.peerCookie = IF type = "INIT_ACK" THEN "cookie" ELSE app.peerCookie
  /\ type # "INIT" => app'.peerStreams = app.peerStreams
  /\ dut' = [d EXCEPT !.numbered = dut'.numbered]

LEMMA Outbound ==
  ASSUME Habits = {}, Live, app.error = "", NEW type \in Types, SentIn(type), NEW k \in Nat,
         type \in {"REQUEST", "PLAIN"} => k \in 0 .. MaxRequests - 1,
         NEW d, DOMAIN d = DOMAIN dut, d.numbered = dut.numbered, RunOutbound(type, k, d)
  PROVE  /\ ChunksAgree' /\ RequestsApart' /\ app'.error = "" /\ app'.over \in BOOLEAN
         /\ Running' => Told(type, d)
<1>1. PICK vtag \in {dut.peerTag, 0} :
        LET live == [type |-> type, vtag |-> vtag, fields |-> LiveFields(type, k)]
            tagged == type \in {"INIT", "INIT_ACK", "ABORT"} \/ vtag = dut.peerTag
        IN \E e \in Expectations(type, k, live.fields) :
             LET a == Learnt(Awaited(app, e[1]), live)
                 matches == CompareSctpPacket(a, e[1], live)
             IN /\ last' = [did |-> [matches |-> matches], is |-> [matches |-> e[2] /\ tagged]]
                /\ app' = [HeartbeatSeen(MapRequest(a, e[1], live), live) EXCEPT !.over = ~matches \/ ~e[2]]
                /\ dut' = [d EXCEPT !.numbered = IF type \in {"REQUEST", "PLAIN"} /\ "number" \notin e[1].noCheck
                                                 THEN @ \cup {k} ELSE @]
  BY DEF RunOutbound
<1> DEFINE live == [type |-> type, vtag |-> vtag, fields |-> LiveFields(type, k)]
           tagged == type \in {"INIT", "INIT_ACK", "ABORT"} \/ vtag = dut.peerTag
<1>2. live.type = type /\ live.vtag = vtag /\ live.fields = LiveFields(type, k)
  OBVIOUS
<1> HIDE DEF live
<1>3. PICK e \in Expectations(type, k, live.fields) :
        LET a == Learnt(Awaited(app, e[1]), live)
            matches == CompareSctpPacket(a, e[1], live)
        IN /\ last' = [did |-> [matches |-> matches], is |-> [matches |-> e[2] /\ tagged]]
           /\ app' = [HeartbeatSeen(MapRequest(a, e[1], live), live) EXCEPT !.over = ~matches \/ ~e[2]]
           /\ dut' = [d EXCEPT !.numbered = IF type \in {"REQUEST", "PLAIN"} /\ "number" \notin e[1].noCheck
                                            THEN @ \cup {k} ELSE @]
  BY <1>1 DEF live
<1> DEFINE a == Learnt(Awaited(app, e[1]), live)
           matches == CompareSctpPacket(a, e[1], live)
           b == MapRequest(a, e[1], live)
           c == HeartbeatSeen(b, live)
           given == Given(type, e[1], k)
<1>4. LearntOf(a, type)
  BY <1>2, Learns
<1>5. e[1].type = type /\ e[2] \in BOOLEAN
  <2>1. Meant(e, type)
    BY TypeExpected
  <2> QED
    BY <2>1 DEF Meant
<1>6. /\ last' = [did |-> [matches |-> matches], is |-> [matches |-> e[2] /\ tagged]]
      /\ app' = [c EXCEPT !.over = ~matches \/ ~e[2]]
  BY <1>3
<1>7. dut' = [d EXCEPT !.numbered = given]
  BY <1>3 DEF Given
<1> HIDE DEF a, b, c, given
<1>8. matches <=> e[2] /\ tagged
  <2>1. matches <=> e[2] = TRUE /\ TagAgrees(a, live)
    BY <1>2, <1>4, Matches
  <2>2. TagAgrees(a, live) <=> tagged
    BY <1>2, <1>4 DEF TagAgrees, LearntOf, Live, Tagged
  <2> QED
    BY <1>5, <2>1, <2>2
<1>9. ChunksAgree'
  <2>1. CompareSctpPacket(a, e[1], live) \in BOOLEAN
    BY DEF CompareSctpPacket
  <2>2. CompareSctpPacket(a, e[1], live) = (e[2] /\ tagged)
    BY <1>5, <1>8, <2>1
  <2> QED
    BY <1>6, <2>2 DEF ChunksAgree
<1>10. /\ DOMAIN b = AppFields /\ \A f \in AppFields \ {"seqNumMap"} : b[f] = a[f]
       /\ given \in SUBSET (0 .. MaxRequests - 1)
       /\ e[2] = TRUE => NumberedIn(b, given)
       /\ \A i, j \in given : Mapped(b, ScriptRequest + i) = Mapped(b, ScriptRequest + j) => i = j
  <2>1. DOMAIN a = AppFields /\ NumberedIn(a, dut.numbered)
    BY <1>4 DEF LearntOf, Live, Numbered, NumberedIn, Mapped
  <2> QED
    <3>1. Remapped(a, b, given, e[2])
      BY <1>2, <1>5, <2>1, RequestMapped DEF b, given, Live
    <3> QED
      BY <3>1 DEF Remapped
<1>11. DOMAIN c = AppFields /\ \A f \in AppFields \ {"peerHeartbeatTime"} : c[f] = b[f]
  BY <1>10 DEF c, HeartbeatSeen, AppFields
<1> HIDE DEF matches
<1>12. DOMAIN app' = AppFields /\ \A f \in AppFields \ {"over"} : app'[f] = c[f]
  BY <1>6, <1>11 DEF AppFields
<1>13. app'.over = (~matches \/ ~e[2])
  BY <1>6, <1>11 DEF AppFields
<1>14. dut'.numbered = given /\ dut' = [d EXCEPT !.numbered = dut'.numbered]
  <2>1. "numbered" \in DOMAIN d
    BY DEF Live, DutRecords
  <2> QED
    BY <1>7, <2>1
<1>15. \A f \in AppFields \ {"over", "peerHeartbeatTime"} : app'[f] = b[f]
  BY <1>11, <1>12
<1>16. \A m : Mapped(app', m) = Mapped(b, m)
  BY <1>15 DEF Mapped, AppFields
<1>17. RequestsApart'
  BY <1>10, <1>14, <1>16 DEF RequestsApart, Mapped
<1>18. \A f \in AppFields \ {"over", "peerHeartbeatTime", "seqNumMap"} : app'[f] = a[f]
  BY <1>10, <1>15
<1>19. app'.error = "" /\ app'.over \in BOOLEAN
  BY <1>4, <1>13, <1>18 DEF LearntOf, AppFields
<1>20. ASSUME Running' PROVE Told(type, d)
  <2>1. e[2] = TRUE
    BY <1>5, <1>13, <1>20 DEF Running
  <2>2. NumberedIn(app', dut'.numbered)
    BY <1>10, <1>14, <1>16, <2>1 DEF NumberedIn
  <2>3. /\ app'.localVTag = app.localVTag
        /\ app'.peerVTag = IF type \in {"INIT", "INIT_ACK"} THEN DutTag ELSE app.peerVTag
        /\ app'.localDiffTsn = Sub(dut.tsn, dut.scriptTsn)
        /\ app'.peerCookie = IF type = "INIT_ACK" THEN "cookie" ELSE app.peerCookie
        /\ type # "INIT" => app'.peerStreams = app.peerStreams
    BY <1>4, <1>18 DEF LearntOf, AppFields
  <2> QED
    BY <1>10, <1>12, <1>14, <2>2, <2>3 DEF Told
<1> QED
  BY <1>9, <1>17, <1>19, <1>20

-----------------------------------------------------------------------------
(* A chunk of the peer.                                                    *)

LeftOpenBy(any, type, fields) ==
  /\ any \in {{}} \cup {{f} : f \in (DOMAIN fields \cap LeftOpen(type)) \ {"number"}}
  /\ Injectable(Build(Chunk(type, fields), any))

(* Only RE-CONFIG is injected with wildcards.                              *)
LEMMA NothingOpen ==
  ASSUME Habits = {}, NEW type, type \notin {"REQUEST", "PLAIN", "RESPONSE"}, NEW fields, NEW any,
         LeftOpenBy(any, type, fields)
  PROVE  any = {}
<1> DEFINE chunk == Build(Chunk(type, fields), any)
<1>1. any \subseteq LeftOpen(type)
  BY DEF LeftOpenBy
<1>2. CASE type \in {"ABORT", "SHUTDOWN_COMPLETE"}
  BY <1>1, <1>2, OpenOrNot
<1>3. CASE type \notin {"ABORT", "SHUTDOWN_COMPLETE"}
  <2>1. chunk.type = type /\ chunk.noCheck = any
    BY <1>3, Built
  <2>2. Injectable(chunk)
    BY DEF LeftOpenBy
  <2> HIDE DEF chunk
  <2>3. CASE type \in {"INIT", "INIT_ACK"}
    <3>1. any \cap {"tag", "os", "is"} = {}
      BY <2>1, <2>2, <2>3 DEF Injectable, InitWildcards, InitAckWildcards
    <3>2. LeftOpen(type) = {"os", "is"}
      BY <2>3 DEF LeftOpen, Wildcards, InitWildcards, InitAckWildcards
    <3> QED
      BY <1>1, <3>1, <3>2
  <2>4. CASE type \notin {"INIT", "INIT_ACK"}
    <3>1. any \cap Wildcards(type) = {}
      BY <2>1, <2>2, <2>4 DEF Injectable
    <3>2. LeftOpen(type) \subseteq Wildcards(type)
      BY DEF LeftOpen
    <3> QED
      BY <1>1, <3>1, <3>2
  <2> QED
    BY <2>3, <2>4
<1> QED
  BY <1>2, <1>3

Translates(type, fields, meant) ==
  \A any : LeftOpenBy(any, type, fields) =>
    Rewritten(app, Build(Chunk(type, fields), any)).fields = Build(Chunk(type, meant), any).fields

LEMMA Inbound ==
  ASSUME NEW type, NEW fields, NEW meant, NEW d, RunInbound(type, fields, meant, d),
         type = "INIT" \/ app.peerVTag = DutTag, Translates(type, fields, meant)
  PROVE  /\ ChunksAgree' /\ dut' = d
         /\ \E any : LeftOpenBy(any, type, fields) /\ app' = Injecting(app, Build(Chunk(type, fields), any))
<1>1. PICK any \in {{}} \cup {{f} : f \in (DOMAIN fields \cap LeftOpen(type)) \ {"number"}} :
        LET chunk == Build(Chunk(type, fields), any)
        IN /\ Injectable(chunk)
           /\ last' = [did |-> [fields |-> Rewritten(app, chunk).fields, vtag |-> app.peerVTag],
                       is |-> [fields |-> Build(Chunk(type, meant), any).fields,
                               vtag |-> IF type = "INIT" THEN app.peerVTag ELSE DutTag]]
           /\ app' = Injecting(app, chunk)
           /\ dut' = d
  BY DEF RunInbound
<1> DEFINE chunk == Build(Chunk(type, fields), any)
           sent == Rewritten(app, chunk).fields
           due == Build(Chunk(type, meant), any).fields
<1>2. LeftOpenBy(any, type, fields)
  BY <1>1 DEF LeftOpenBy
<1>3. sent = due
  BY <1>2 DEF Translates
<1>4. last' = [did |-> [fields |-> sent, vtag |-> app.peerVTag],
               is |-> [fields |-> due, vtag |-> IF type = "INIT" THEN app.peerVTag ELSE DutTag]]
  BY <1>1
<1> HIDE DEF sent, due
<1>5. ChunksAgree'
  BY <1>3, <1>4 DEF ChunksAgree
<1> QED
  BY <1>1, <1>2, <1>5

(* Most chunks are sent as the script has them.                            *)
LEMMA SentAsIs ==
  ASSUME NEW type, type \notin {"SACK", "RESPONSE", "REQUEST", "COOKIE_ECHO"}, NEW fields
  PROVE  Translates(type, fields, fields)
<1> SUFFICES ASSUME NEW any, LeftOpenBy(any, type, fields)
             PROVE  Rewritten(app, Build(Chunk(type, fields), any)).fields = Build(Chunk(type, fields), any).fields
  BY DEF Translates
<1> DEFINE chunk == Build(Chunk(type, fields), any)
<1>1. chunk.type = type
  BY Built
<1> HIDE DEF chunk
<1>2. Rewritten(app, chunk) = chunk
  BY <1>1 DEF Rewritten
<1> QED
  BY <1>2 DEF chunk

(* A SACK acknowledges the DUT's TSNs.                                     *)
LEMMA SackTranslates ==
  ASSUME Habits = {}, Live, dut.state \notin {"closed", "init"}, NEW m \in Int
  PROVE  LET Cum(first) == Add(first, m)
         IN Translates("SACK", [cum |-> Cum(dut.scriptTsn), gaps |-> {2}, dups |-> {dut.scriptTsn}],
                       [cum |-> Cum(dut.tsn), gaps |-> {Add(Cum(dut.tsn), 2)}, dups |-> {dut.tsn}])
<1> DEFINE fields == [cum |-> Add(dut.scriptTsn, m), gaps |-> {2}, dups |-> {dut.scriptTsn}]
           meant == [cum |-> Add(dut.tsn, m), gaps |-> {Add(Add(dut.tsn, m), 2)}, dups |-> {dut.tsn}]
<1> SUFFICES ASSUME NEW any, LeftOpenBy(any, "SACK", fields)
             PROVE  Rewritten(app, Build(Chunk("SACK", fields), any)).fields = Build(Chunk("SACK", meant), any).fields
  BY DEF Translates
<1>1. any = {}
  BY NothingOpen
<1> DEFINE chunk == [type |-> "SACK", noCheck |-> {}, fields |-> fields]
<1>2. Build(Chunk("SACK", fields), any) = chunk /\ Build(Chunk("SACK", meant), any).fields = meant
  <2>1. [f \in DOMAIN fields |-> IF f \in {} THEN Zero(f) ELSE fields[f]] = fields
    OBVIOUS
  <2>2. [f \in DOMAIN meant |-> IF f \in {} THEN Zero(f) ELSE meant[f]] = meant
    OBVIOUS
  <2> HIDE DEF fields, meant
  <2> QED
    BY <1>1, <2>1, <2>2 DEF Build, Chunk
<1>3. /\ Add(Add(dut.scriptTsn, m), app.localDiffTsn) = Add(dut.tsn, m)
      /\ Add(dut.scriptTsn, app.localDiffTsn) = dut.tsn
  BY DutTypes, Moved, MovedFirst DEF Live, Known
<1>4. Add(2, Add(dut.tsn, m)) = Add(Add(dut.tsn, m), 2)
  <2>1. Add(dut.tsn, m) \in Int
    <3>1. dut.tsn \in Int
      BY DutTypes DEF Live
    <3>2. Add(dut.tsn, m) \in Tsns
      BY <3>1, AddType
    <3> QED
      BY <3>2, ModulusType DEF Tsns
  <2> DEFINE u == Add(dut.tsn, m)
  <2> HIDE DEF u
  <2>2. u \in Int => 2 + u = u + 2
    OBVIOUS
  <2>3. Add(2, u) = (2 + u) % Modulus /\ Add(u, 2) = (u + 2) % Modulus
    BY DEF Add
  <2> QED
    BY <2>1, <2>2, <2>3 DEF u
<1>5. Rewritten(app, chunk).fields
        = [cum |-> Add(Add(dut.scriptTsn, m), app.localDiffTsn),
           gaps |-> {Add(g, Add(Add(dut.scriptTsn, m), app.localDiffTsn)) : g \in {2}},
           dups |-> {Add(e, app.localDiffTsn) : e \in {dut.scriptTsn}}]
  BY DEF Rewritten, RewrittenSack
<1>6. /\ {Add(g, Add(Add(dut.scriptTsn, m), app.localDiffTsn)) : g \in {2}} = {Add(Add(dut.tsn, m), 2)}
      /\ {Add(e, app.localDiffTsn) : e \in {dut.scriptTsn}} = {dut.tsn}
  BY <1>3, <1>4
<1>7. Rewritten(app, chunk).fields = meant
  BY <1>3, <1>5, <1>6
<1> QED
  BY <1>2, <1>7

LEMMA KnownRequest ==
  ASSUME Live, NEW k \in dut.numbered
  PROVE  /\ k \in 0 .. MaxRequests - 1 /\ Mapped(app, ScriptRequest + k) = FirstRequest + k
         /\ ScriptRequest + k \in DOMAIN app.seqNumMap
         /\ app.seqNumMap[ScriptRequest + k] = FirstRequest + k
<1>1. k \in 0 .. MaxRequests - 1
  BY DEF Live, DutRecords
<1>2. Mapped(app, ScriptRequest + k) = FirstRequest + k /\ FirstRequest + k # 0
  BY <1>1 DEF Live, Numbered, FirstRequest
<1> QED
  BY <1>1, <1>2 DEF Mapped

(* A response names the DUT's request and the TSN it has sent next; either *)
(* may be left out.                                                        *)
LEMMA ResponseTranslates ==
  ASSUME Habits = {}, Live, dut.state \notin {"closed", "init"}, dut.sent > 0, NEW k \in dut.numbered
  PROVE  Translates("RESPONSE", [number |-> ScriptRequest + k, sender |-> PeerTsn, receiver |-> Add(dut.scriptTsn, dut.sent)],
                    [number |-> FirstRequest + k, sender |-> PeerTsn, receiver |-> NextTsn])
<1> DEFINE tsn == Add(dut.scriptTsn, dut.sent)
           fields == [number |-> ScriptRequest + k, sender |-> PeerTsn, receiver |-> tsn]
           meant == [number |-> FirstRequest + k, sender |-> PeerTsn, receiver |-> NextTsn]
<1> SUFFICES ASSUME NEW any, LeftOpenBy(any, "RESPONSE", fields)
             PROVE  Rewritten(app, Build(Chunk("RESPONSE", fields), any)).fields = Build(Chunk("RESPONSE", meant), any).fields
  BY DEF Translates
<1>1. "number" \notin any
  BY DEF LeftOpenBy
<1>2. tsn # 0 /\ Add(tsn, app.localDiffTsn) = NextTsn
  <2>1. tsn = dut.scriptTsn + dut.sent /\ tsn # 0
    BY DutTypes, OwnNext DEF Live
  <2>2. Add(tsn, app.localDiffTsn) = Add(dut.tsn, dut.sent)
    BY DutTypes, Moved DEF Live, Known
  <2> QED
    BY <2>1, <2>2 DEF NextTsn
<1> DEFINE told == [number |-> ScriptRequest + k, sender |-> IF "sender" \in any THEN 0 ELSE PeerTsn,
                    receiver |-> IF "receiver" \in any THEN 0 ELSE tsn]
           due == [number |-> FirstRequest + k, sender |-> IF "sender" \in any THEN 0 ELSE PeerTsn,
                   receiver |-> IF "receiver" \in any THEN 0 ELSE NextTsn]
           chunk == [type |-> "RESPONSE", noCheck |-> any, fields |-> told]
<1> HIDE DEF tsn
<1>3. [f \in DOMAIN fields |-> IF f \in any THEN Zero(f) ELSE fields[f]] = told
  BY <1>1 DEF Zero
<1>4. [f \in DOMAIN meant |-> IF f \in any THEN Zero(f) ELSE meant[f]] = due
  BY <1>1 DEF Zero
<1>5. Mapped(app, ScriptRequest + k) = FirstRequest + k
  BY KnownRequest
<1> HIDE DEF fields, meant
<1>6. Build(Chunk("RESPONSE", fields), any) = chunk /\ Build(Chunk("RESPONSE", meant), any).fields = due
  BY <1>3, <1>4 DEF Build, Chunk
<1>7. Rewritten(app, chunk).fields = due
  <2> DEFINE number == Mapped(app, told.number)
             receiver == IF told.receiver = 0 THEN 0 ELSE Add(told.receiver, app.localDiffTsn)
  <2>1. Rewritten(app, chunk).fields = [told EXCEPT !.number = number, !.receiver = receiver]
    BY DEF Rewritten
  <2>2. number = FirstRequest + k /\ receiver = IF "receiver" \in any THEN 0 ELSE NextTsn
    BY <1>2, <1>5
  <2> HIDE DEF number, receiver
  <2> QED
    BY <2>1, <2>2
<1> QED
  BY <1>6, <1>7

(* A request answers the DUT's.                                            *)
LEMMA RequestTranslates ==
  ASSUME Habits = {}, Live, NEW k \in dut.numbered
  PROVE  Translates("REQUEST", [number |-> PeerRequest, answers |-> ScriptRequest + k, last |-> PeerTsn],
                    [number |-> PeerRequest, answers |-> FirstRequest + k, last |-> PeerTsn])
<1> DEFINE fields == [number |-> PeerRequest, answers |-> ScriptRequest + k, last |-> PeerTsn]
           meant == [number |-> PeerRequest, answers |-> FirstRequest + k, last |-> PeerTsn]
<1> SUFFICES ASSUME NEW any, LeftOpenBy(any, "REQUEST", fields)
             PROVE  Rewritten(app, Build(Chunk("REQUEST", fields), any)).fields = Build(Chunk("REQUEST", meant), any).fields
  BY DEF Translates
<1>1. "number" \notin any /\ "answers" \notin any
  BY OpenOrNot DEF LeftOpenBy
<1> DEFINE told == [number |-> PeerRequest, answers |-> ScriptRequest + k, last |-> IF "last" \in any THEN 0 ELSE PeerTsn]
           due == [number |-> PeerRequest, answers |-> FirstRequest + k, last |-> IF "last" \in any THEN 0 ELSE PeerTsn]
           chunk == [type |-> "REQUEST", noCheck |-> any, fields |-> told]
<1>2. [f \in DOMAIN fields |-> IF f \in any THEN Zero(f) ELSE fields[f]] = told
  BY <1>1 DEF Zero
<1>3. [f \in DOMAIN meant |-> IF f \in any THEN Zero(f) ELSE meant[f]] = due
  BY <1>1 DEF Zero
<1> HIDE DEF fields, meant
<1>4. Build(Chunk("REQUEST", fields), any) = chunk /\ Build(Chunk("REQUEST", meant), any).fields = due
  BY <1>2, <1>3 DEF Build, Chunk
<1>5. Rewritten(app, chunk).fields
        = [told EXCEPT !.answers = IF @ \in DOMAIN app.seqNumMap THEN app.seqNumMap[@] ELSE @]
  BY DEF Rewritten
<1>6. Rewritten(app, chunk).fields = due
  BY <1>5, KnownRequest
<1> QED
  BY <1>4, <1>6

(* The cookie of the INIT_ACK is echoed.                                   *)
LEMMA CookieTranslates ==
  ASSUME Habits = {}, app.peerCookie = "cookie"
  PROVE  Translates("COOKIE_ECHO", [cookie |-> "script"], [cookie |-> "cookie"])
<1> SUFFICES ASSUME NEW any, LeftOpenBy(any, "COOKIE_ECHO", [cookie |-> "script"])
             PROVE  Rewritten(app, Build(Chunk("COOKIE_ECHO", [cookie |-> "script"]), any)).fields
                      = Build(Chunk("COOKIE_ECHO", [cookie |-> "cookie"]), any).fields
  BY DEF Translates
<1>1. any = {}
  BY NothingOpen
<1>2. /\ Build(Chunk("COOKIE_ECHO", [cookie |-> "script"]), any)
           = [type |-> "COOKIE_ECHO", noCheck |-> {}, fields |-> [cookie |-> "script"]]
      /\ Build(Chunk("COOKIE_ECHO", [cookie |-> "cookie"]), any).fields = [cookie |-> "cookie"]
  BY <1>1 DEF Build, Chunk
<1>3. Rewritten(app, [type |-> "COOKIE_ECHO", noCheck |-> {}, fields |-> [cookie |-> "script"]]).fields = [cookie |-> "cookie"]
  BY DEF Rewritten
<1> QED
  BY <1>2, <1>3

-----------------------------------------------------------------------------
(* The steps.                                                              *)

LEMMA LiveApart == ASSUME Live PROVE RequestsApart
BY DEF Live, Numbered, DutRecords, RequestsApart, FirstRequest

(* What a step leaves of the association.                                  *)
Same(d) ==
  /\ d \in DutRecords /\ d.numbered = dut.numbered /\ d.tsn = dut.tsn /\ d.scriptTsn = dut.scriptTsn
  /\ d.state \notin {"closed", "init"}

LEMMA OutboundKeeps ==
  ASSUME Habits = {}, Inv, Running, NEW type \in Types, SentIn(type), NEW k \in Nat,
         type \in {"REQUEST", "PLAIN"} => k \in 0 .. MaxRequests - 1,
         NEW d, Same(d), d.peerTag = dut.peerTag, d.state = "cookie" => type = "INIT_ACK", RunOutbound(type, k, d)
  PROVE  Inv'
<1>1. DOMAIN d = DOMAIN dut
  BY DEF Inv, Live, Same, DutRecords
<1>2. /\ ChunksAgree' /\ RequestsApart' /\ app'.error = "" /\ app'.over \in BOOLEAN
      /\ Running' => Told(type, d)
  BY <1>1, Outbound DEF Inv, Same
<1>3. ASSUME Running' PROVE Live'
  <2>1. Told(type, d)
    BY <1>2, <1>3
  <2>2. /\ dut' \in DutRecords /\ dut'.state = d.state /\ dut'.tsn = dut.tsn /\ dut'.scriptTsn = dut.scriptTsn
        /\ dut'.peerTag = dut.peerTag
    BY <2>1 DEF Told, Same, DutRecords
  <2>3. type \notin {"INIT", "INIT_ACK"} => app.peerVTag = DutTag
    BY DEF Inv, Live, Known, SentIn
  <2>4. Tagged' /\ Known' /\ Kept'
    BY <2>1, <2>2, <2>3 DEF Told, Same, Inv, Live, Tagged, Known, Kept
  <2>5. Numbered'
    BY <2>1 DEF Told, NumberedIn, Numbered, Mapped
  <2> QED
    BY <2>1, <2>2, <2>4, <2>5 DEF Live, Told
<1> QED
  BY <1>2, <1>3 DEF Inv

(* A chunk that is injected on an association that is set up.              *)
LEMMA InboundKeeps ==
  ASSUME Habits = {}, Inv, Running, NEW type, type \notin {"INIT", "INIT_ACK", "COOKIE_ECHO"},
         dut.state \notin {"closed", "init"}, NEW fields, NEW meant, Translates(type, fields, meant),
         NEW d, Same(d), d.peerTag = dut.peerTag, d.state # "cookie", RunInbound(type, fields, meant, d)
  PROVE  Inv'
<1>1. Live
  BY DEF Inv
<1>2. app.peerVTag = DutTag
  BY <1>1 DEF Live, Known
<1>3. ChunksAgree' /\ dut' = d /\ \E any : app' = Injecting(app, Build(Chunk(type, fields), any))
  BY <1>2, Inbound
<1>4. app' = app
  BY <1>3, Built DEF Injecting
<1>5. Live'
  BY <1>1, <1>3, <1>4 DEF Live, Tagged, Known, Kept, Numbered, Mapped, Same
<1>6. RequestsApart'
  BY <1>1, <1>3, <1>4, LiveApart DEF RequestsApart, Mapped, Same
<1> QED
  BY <1>3, <1>4, <1>5, <1>6 DEF Inv

(* The chunks of the handshake that set the app up.                        *)
LEMMA TagInjected ==
  ASSUME Habits = {}, Inv, Running, NEW type \in {"INIT", "INIT_ACK"},
         dut.state = IF type = "INIT" THEN "closed" ELSE "wait",
         NEW streams \in StreamCounts, NEW d, d \in DutRecords, d.numbered = dut.numbered, d.tsn = dut.tsn,
         d.scriptTsn = dut.scriptTsn, d.peerTag = PeerTag,
         type = "INIT" => d.state = "init" /\ d.peerStreams = streams, type = "INIT_ACK" => d.state = "answered",
         RunInbound(type, [tag |-> PeerTag, tsn |-> PeerTsn, os |-> streams.os, is |-> streams.is],
                    [tag |-> PeerTag, tsn |-> PeerTsn, os |-> streams.os, is |-> streams.is], d)
  PROVE  Inv'
<1> DEFINE fields == [tag |-> PeerTag, tsn |-> PeerTsn, os |-> streams.os, is |-> streams.is]
<1>1. Live
  BY DEF Inv
<1>2. type = "INIT" \/ app.peerVTag = DutTag
  BY <1>1 DEF Live, Known
<1>3. Translates(type, fields, fields)
  BY SentAsIs
<1>4. /\ fields.tag = PeerTag /\ fields.os = streams.os /\ fields.is = streams.is
      /\ DOMAIN fields = {"tag", "tsn", "os", "is"}
  OBVIOUS
<1> HIDE DEF fields
<1>5. /\ ChunksAgree' /\ dut' = d
      /\ \E any : LeftOpenBy(any, type, fields) /\ app' = Injecting(app, Build(Chunk(type, fields), any))
  BY <1>2, <1>3, Inbound DEF fields
<1>6. PICK any : LeftOpenBy(any, type, fields) /\ app' = Injecting(app, Build(Chunk(type, fields), any))
  BY <1>5
<1>7. any = {}
  BY <1>6, NothingOpen
<1> DEFINE chunk == Build(Chunk(type, fields), {})
<1>8. chunk.type = type /\ chunk.fields.tag = PeerTag /\ Streams(chunk.fields) = streams
  <2>1. /\ chunk.type = type /\ chunk.fields.tag = PeerTag
        /\ chunk.fields.os = streams.os /\ chunk.fields.is = streams.is
    BY <1>4, Built
  <2> HIDE DEF chunk
  <2>2. streams = [os |-> streams.os, is |-> streams.is]
    BY DEF StreamCounts
  <2> QED
    BY <2>1, <2>2 DEF Streams
<1>9. app' = Injecting(app, chunk)
  BY <1>6, <1>7
<1> HIDE DEF chunk
<1>10. /\ DOMAIN app' = AppFields /\ app'.localVTag = PeerTag
       /\ type = "INIT" => app'.peerStreams = streams
       /\ \A f \in AppFields \ {"localVTag", "peerStreams"} : app'[f] = app[f]
  BY <1>1, <1>8, <1>9 DEF Live, Injecting, AppFields
<1>11. Tagged' /\ Known' /\ Kept'
  BY <1>1, <1>5, <1>10 DEF Live, Tagged, Known, Kept, AppFields
<1>12. \A m : Mapped(app', m) = Mapped(app, m)
  BY <1>10 DEF Mapped, AppFields
<1>13. Numbered'
  BY <1>1, <1>5, <1>12 DEF Live, Numbered, Mapped
<1>14. RequestsApart'
  BY <1>1, <1>5, <1>12, LiveApart DEF RequestsApart, Mapped
<1>15. app'.error = app.error /\ app'.over = app.over
  BY <1>10 DEF AppFields
<1> QED
  BY <1>5, <1>10, <1>11, <1>13, <1>14, <1>15 DEF Inv, Live

LEMMA CookieInjected ==
  ASSUME Habits = {}, Inv, In("cookie"),
         RunInbound("COOKIE_ECHO", [cookie |-> "script"], [cookie |-> "cookie"], To("acking"))
  PROVE  Inv'
<1>1. Live /\ app.peerCookie = "cookie" /\ app.peerVTag = DutTag /\ app.error = ""
  BY DEF Inv, In, Running, Live, Kept, Known
<1>2. /\ ChunksAgree' /\ dut' = To("acking")
      /\ \E any : app' = Injecting(app, Build(Chunk("COOKIE_ECHO", [cookie |-> "script"]), any))
  BY <1>1, CookieTranslates, Inbound
<1>3. app' = [app EXCEPT !.peerCookie = "none", !.error = IF app.peerCookie = "none" THEN "null cookie" ELSE @]
  BY <1>2, Built DEF Injecting
<1>4. DOMAIN app' = AppFields /\ \A f \in AppFields \ {"peerCookie"} : app'[f] = app[f]
  BY <1>1, <1>3 DEF Live, AppFields
<1>5. /\ dut' \in DutRecords /\ dut'.state = "acking" /\ dut'.numbered = dut.numbered /\ dut'.tsn = dut.tsn
      /\ dut'.scriptTsn = dut.scriptTsn /\ dut'.peerTag = dut.peerTag
  BY <1>1, <1>2 DEF Live, DutRecords, To
<1>6. \A m : Mapped(app', m) = Mapped(app, m)
  BY <1>4 DEF Mapped, AppFields
<1>7. Tagged' /\ Known' /\ Kept'
  BY <1>1, <1>4, <1>5 DEF Live, Tagged, Known, Kept, AppFields, In
<1>8. Numbered'
  BY <1>1, <1>5, <1>6 DEF Live, Numbered, Mapped
<1>9. RequestsApart'
  BY <1>1, <1>5, <1>6, LiveApart DEF RequestsApart, Mapped
<1>10. app'.error = app.error /\ app'.over = app.over
  BY <1>4 DEF AppFields
<1> QED
  BY <1>1, <1>2, <1>4, <1>5, <1>7, <1>8, <1>9, <1>10 DEF Inv, Live

LEMMA ToSame ==
  ASSUME Live, NEW state \in {"wait", "answered", "echoed", "open", "cookie", "acking", "shutdown", "complete", "gone", "acked"}
  PROVE  Same(To(state)) /\ To(state).peerTag = dut.peerTag /\ To(state).state = state
BY DEF Live, Same, To, DutRecords

LEMMA SetupInv == ASSUME Habits = {}, Inv, Setup PROVE Inv'
<1> USE DEF In
<1>1. CASE In("closed") /\ dut.role = "client" /\ RunOutbound("INIT", 0, To("wait"))
  BY <1>1, ToSame, OutboundKeeps DEF Inv, Types, SentIn
<1>2. CASE /\ In("wait")
           /\ LET f == [tag |-> PeerTag, tsn |-> PeerTsn, os |-> 2, is |-> 2]
              IN RunInbound("INIT_ACK", f, f, [To("answered") EXCEPT !.peerTag = PeerTag])
  <2> DEFINE d == [To("answered") EXCEPT !.peerTag = PeerTag]
  <2>1. /\ d \in DutRecords /\ d.numbered = dut.numbered /\ d.tsn = dut.tsn /\ d.scriptTsn = dut.scriptTsn
        /\ d.peerTag = PeerTag /\ d.state = "answered"
    BY <1>2 DEF Inv, Live, DutRecords, To
  <2> HIDE DEF d
  <2> DEFINE streams == [os |-> 2, is |-> 2]
  <2>2. streams \in StreamCounts /\ streams.os = 2 /\ streams.is = 2
    BY DEF StreamCounts
  <2> HIDE DEF streams
  <2>3. RunInbound("INIT_ACK", [tag |-> PeerTag, tsn |-> PeerTsn, os |-> streams.os, is |-> streams.is],
                   [tag |-> PeerTag, tsn |-> PeerTsn, os |-> streams.os, is |-> streams.is], d)
    BY <1>2, <2>2 DEF d
  <2> QED
    BY <1>2, <2>1, <2>2, <2>3, TagInjected
<1>3. CASE In("answered") /\ RunOutbound("COOKIE_ECHO", 0, To("echoed"))
  BY <1>3, ToSame, OutboundKeeps DEF Inv, Types, SentIn
<1>4. CASE In("echoed") /\ RunInbound("COOKIE_ACK", [none |-> 0], [none |-> 0], To("open"))
  BY <1>4, ToSame, SentAsIs, InboundKeeps DEF Inv
<1>5. CASE /\ In("closed") /\ dut.role = "server"
           /\ \E streams \in [os : {1, 2}, is : {1, 2}] :
                LET f == [tag |-> PeerTag, tsn |-> PeerTsn, os |-> streams.os, is |-> streams.is]
                IN RunInbound("INIT", f, f, [To("init") EXCEPT !.peerTag = PeerTag, !.peerStreams = streams])
  <2>1. PICK streams \in StreamCounts :
          LET f == [tag |-> PeerTag, tsn |-> PeerTsn, os |-> streams.os, is |-> streams.is]
          IN RunInbound("INIT", f, f, [To("init") EXCEPT !.peerTag = PeerTag, !.peerStreams = streams])
    BY <1>5 DEF StreamCounts
  <2> DEFINE d == [To("init") EXCEPT !.peerTag = PeerTag, !.peerStreams = streams]
  <2>2. /\ d \in DutRecords /\ d.numbered = dut.numbered /\ d.tsn = dut.tsn /\ d.scriptTsn = dut.scriptTsn
        /\ d.peerTag = PeerTag /\ d.state = "init" /\ d.peerStreams = streams
    BY <1>5, <2>1 DEF Inv, Live, DutRecords, To
  <2> HIDE DEF d
  <2> QED
    BY <1>5, <2>1, <2>2, TagInjected DEF d
<1>6. CASE In("init") /\ RunOutbound("INIT_ACK", 0, To("cookie"))
  BY <1>6, ToSame, OutboundKeeps DEF Inv, Types, SentIn
<1>7. CASE /\ In("cookie") \/ (In("acking") /\ "again" \in Habits)
           /\ RunInbound("COOKIE_ECHO", [cookie |-> "script"], [cookie |-> "cookie"], To("acking"))
  BY <1>7, CookieInjected
<1>8. CASE In("acking") /\ RunOutbound("COOKIE_ACK", 0, To("open"))
  BY <1>8, ToSame, OutboundKeeps DEF Inv, Types, SentIn
<1> QED
  BY <1>1, <1>2, <1>3, <1>4, <1>5, <1>6, <1>7, <1>8 DEF Setup

LEMMA TransferInv == ASSUME Habits = {}, Inv, Transfer PROVE Inv'
<1> USE DEF In
<1>1. CASE In("open") /\ dut.sent < MaxData /\ RunOutbound("DATA", 0, [dut EXCEPT !.sent = @ + 1])
  <2> DEFINE d == [dut EXCEPT !.sent = @ + 1]
  <2>1. dut.sent + 1 \in 0 .. MaxData
    <3>1. dut.sent \in 0 .. MaxData /\ MaxData \in Nat
      BY <1>1, NumberAssumption DEF Inv, Live, DutRecords
    <3> QED
      BY <1>1, <3>1
  <2>2. Same(d) /\ d.peerTag = dut.peerTag /\ d.state = "open"
    BY <1>1, <2>1 DEF Inv, Live, Same, DutRecords
  <2> HIDE DEF d
  <2> QED
    BY <1>1, <2>2, OutboundKeeps DEF Types, SentIn, d
<1>2. CASE In("open") /\ dut.peerData > 0 /\ RunOutbound("SACK", 0, dut)
  BY <1>2, OutboundKeeps DEF Inv, Live, Types, SentIn, Same
<1>3. CASE In("open") /\ RunOutbound("HEARTBEAT", 0, [dut EXCEPT !.heartbeat = 1])
  <2> DEFINE d == [dut EXCEPT !.heartbeat = 1]
  <2>1. Same(d) /\ d.peerTag = dut.peerTag /\ d.state = "open"
    BY <1>3 DEF Inv, Live, Same, DutRecords
  <2> HIDE DEF d
  <2> QED
    BY <1>3, <2>1, OutboundKeeps DEF Types, SentIn, d
<1>4. CASE /\ In("open") /\ dut.heartbeat > 0
           /\ RunInbound("HEARTBEAT_ACK", [time |-> HeartbeatAckTime],
                         [time |-> IF "heartbeat" \in Habits THEN dut.heartbeat ELSE 0], dut)
  <2>1. HeartbeatAckTime = IF "heartbeat" \in Habits THEN dut.heartbeat ELSE 0
    BY DEF HeartbeatAckTime
  <2>2. Translates("HEARTBEAT_ACK", [time |-> HeartbeatAckTime],
                   [time |-> IF "heartbeat" \in Habits THEN dut.heartbeat ELSE 0])
    BY <2>1, SentAsIs
  <2> QED
    BY <1>4, <2>2, InboundKeeps DEF Inv, Live, Same
<1>5. CASE /\ In("open") /\ dut.peerData < 1
           /\ LET f == [tsn |-> PeerTsn, ssn |-> 0, ubit |-> 0]
              IN RunInbound("DATA", f, f, [dut EXCEPT !.peerData = 1])
  <2> DEFINE d == [dut EXCEPT !.peerData = 1]
  <2>1. Same(d) /\ d.peerTag = dut.peerTag /\ d.state = "open"
    BY <1>5 DEF Inv, Live, Same, DutRecords
  <2> HIDE DEF d
  <2> QED
    BY <1>5, <2>1, SentAsIs, InboundKeeps DEF d
<1>6. CASE /\ In("open") /\ dut.sent > 0
           /\ LET Cum(first) == Add(first, dut.sent - 1)
              IN RunInbound("SACK", [cum |-> Cum(dut.scriptTsn), gaps |-> {2}, dups |-> {dut.scriptTsn}],
                            [cum |-> Cum(dut.tsn), gaps |-> {Add(Cum(dut.tsn), 2)}, dups |-> {dut.tsn}], dut)
  <2>1. Live /\ dut.state = "open"
    BY <1>6 DEF Inv
  <2> DEFINE m == dut.sent - 1
             fields == [cum |-> Add(dut.scriptTsn, m), gaps |-> {2}, dups |-> {dut.scriptTsn}]
             meant == [cum |-> Add(dut.tsn, m), gaps |-> {Add(Add(dut.tsn, m), 2)}, dups |-> {dut.tsn}]
  <2>2. RunInbound("SACK", fields, meant, dut)
    BY <1>6
  <2>3. m \in Int
    BY <2>1, DutTypes DEF Live
  <2> HIDE DEF m
  <2>4. Translates("SACK", fields, meant)
    BY <2>1, <2>3, SackTranslates
  <2> HIDE DEF fields, meant
  <2> QED
    BY <1>6, <2>1, <2>2, <2>4, InboundKeeps DEF Live, Same
<1> QED
  BY <1>1, <1>2, <1>3, <1>4, <1>5, <1>6 DEF Transfer

LEMMA ReconfigureInv == ASSUME Habits = {}, Inv, Reconfigure PROVE Inv'
<1> USE DEF In
<1>1. CASE /\ In("open")
           /\ \E k \in 0 .. dut.requests :
                k < MaxRequests /\ RunOutbound(Kind(k), k, [dut EXCEPT !.requests = IF k = @ THEN k + 1 ELSE @])
  <2>1. PICK k \in 0 .. dut.requests :
          k < MaxRequests /\ RunOutbound(Kind(k), k, [dut EXCEPT !.requests = IF k = @ THEN k + 1 ELSE @])
    BY <1>1
  <2> DEFINE d == [dut EXCEPT !.requests = IF k = @ THEN k + 1 ELSE @]
  <2>2. dut.requests \in 0 .. MaxRequests /\ MaxRequests \in Nat
    BY <1>1, NumberAssumption DEF Inv, Live, DutRecords
  <2>3. k \in Nat /\ k \in 0 .. MaxRequests - 1 /\ k + 1 \in 0 .. MaxRequests
    BY <2>1, <2>2
  <2>4. Same(d) /\ d.peerTag = dut.peerTag /\ d.state = "open"
    BY <1>1, <2>3 DEF Inv, Live, Same, DutRecords
  <2>5. Kind(k) \in {"REQUEST", "PLAIN"}
    BY DEF Kind
  <2> HIDE DEF d
  <2> QED
    BY <1>1, <2>1, <2>3, <2>4, <2>5, OutboundKeeps DEF Types, SentIn, d
<1>2. CASE /\ In("open") /\ dut.sent > 0
           /\ \E k \in dut.numbered :
                RunInbound("RESPONSE", [number |-> ScriptRequest + k, sender |-> PeerTsn, receiver |-> Add(dut.scriptTsn, dut.sent)],
                           [number |-> FirstRequest + k, sender |-> PeerTsn, receiver |-> NextTsn], dut)
  <2>1. PICK k \in dut.numbered :
          RunInbound("RESPONSE", [number |-> ScriptRequest + k, sender |-> PeerTsn, receiver |-> Add(dut.scriptTsn, dut.sent)],
                     [number |-> FirstRequest + k, sender |-> PeerTsn, receiver |-> NextTsn], dut)
    BY <1>2
  <2>2. Translates("RESPONSE", [number |-> ScriptRequest + k, sender |-> PeerTsn, receiver |-> Add(dut.scriptTsn, dut.sent)],
                   [number |-> FirstRequest + k, sender |-> PeerTsn, receiver |-> NextTsn])
    BY <1>2, ResponseTranslates DEF Inv
  <2> QED
    BY <1>2, <2>1, <2>2, InboundKeeps DEF Inv, Live, Same
<1>3. CASE /\ In("open")
           /\ \E k \in dut.numbered :
                RunInbound("REQUEST", [number |-> PeerRequest, answers |-> ScriptRequest + k, last |-> PeerTsn],
                           [number |-> PeerRequest, answers |-> FirstRequest + k, last |-> PeerTsn],
                           [dut EXCEPT !.peerRequest = PeerRequest])
  <2> DEFINE d == [dut EXCEPT !.peerRequest = PeerRequest]
  <2>1. PICK k \in dut.numbered :
          RunInbound("REQUEST", [number |-> PeerRequest, answers |-> ScriptRequest + k, last |-> PeerTsn],
                     [number |-> PeerRequest, answers |-> FirstRequest + k, last |-> PeerTsn], d)
    BY <1>3
  <2>2. Translates("REQUEST", [number |-> PeerRequest, answers |-> ScriptRequest + k, last |-> PeerTsn],
                   [number |-> PeerRequest, answers |-> FirstRequest + k, last |-> PeerTsn])
    BY <1>3, RequestTranslates DEF Inv
  <2>3. Same(d) /\ d.peerTag = dut.peerTag /\ d.state = "open"
    BY <1>3 DEF Inv, Live, Same, DutRecords
  <2> HIDE DEF d
  <2> QED
    BY <1>3, <2>1, <2>2, <2>3, InboundKeeps
<1>4. CASE In("open") /\ dut.peerRequest > 0 /\ dut.sent > 0 /\ RunOutbound("RESPONSE", 0, dut)
  BY <1>4, OutboundKeeps DEF Inv, Live, Types, SentIn, Same
<1> QED
  BY <1>1, <1>2, <1>3, <1>4 DEF Reconfigure

LEMMA ShutdownInv == ASSUME Habits = {}, Inv, Shutdown PROVE Inv'
<1> USE DEF In
<1>1. CASE In("open") /\ RunOutbound("SHUTDOWN", 0, To("shutdown"))
  BY <1>1, ToSame, OutboundKeeps DEF Inv, Types, SentIn
<1>2. CASE In("shutdown") /\ RunInbound("SHUTDOWN_ACK", [none |-> 0], [none |-> 0], To("complete"))
  BY <1>2, ToSame, SentAsIs, InboundKeeps DEF Inv
<1>3. CASE In("complete") /\ \E k \in {0, 1} : RunOutbound("SHUTDOWN_COMPLETE", k, To("gone"))
  BY <1>3, ToSame, OutboundKeeps DEF Inv, Types, SentIn
<1>4. CASE In("open") /\ \E k \in {0, 1} : RunOutbound("ABORT", k, To("gone"))
  BY <1>4, ToSame, OutboundKeeps DEF Inv, Types, SentIn
<1>5. CASE /\ In("open") /\ dut.sent > 0
           /\ LET cum == Add(dut.scriptTsn, dut.sent - 1)
              IN RunInbound("SHUTDOWN", [cum |-> cum],
                            [cum |-> IF "shutdown" \in Habits THEN Sub(NextTsn, 1) ELSE cum], To("acked"))
  <2> DEFINE cum == Add(dut.scriptTsn, dut.sent - 1)
  <2>1. RunInbound("SHUTDOWN", [cum |-> cum], [cum |-> cum], To("acked"))
    BY <1>5
  <2> HIDE DEF cum
  <2> QED
    BY <1>5, <2>1, ToSame, SentAsIs, InboundKeeps DEF Inv
<1>6. CASE In("acked") /\ RunOutbound("SHUTDOWN_ACK", 0, To("gone"))
  BY <1>6, ToSame, OutboundKeeps DEF Inv, Types, SentIn
<1> QED
  BY <1>1, <1>2, <1>3, <1>4, <1>5, <1>6 DEF Shutdown

LEMMA CloseInv == ASSUME Inv, CloseAllSockets PROVE Inv'
<1>1. Live /\ app.peerVTag = DutTag
  BY DEF CloseAllSockets, Inv, Live, Known
<1>2. app' = [app EXCEPT !.over = TRUE] /\ dut' = dut
  BY DEF CloseAllSockets
<1>3. app'.over = TRUE /\ app'.error = app.error /\ app'.seqNumMap = app.seqNumMap
  BY <1>1, <1>2 DEF Live, AppFields
<1>4. ChunksAgree'
  BY <1>1 DEF CloseAllSockets, ChunksAgree
<1>5. RequestsApart'
  BY <1>2, <1>3 DEF Inv, RequestsApart, Mapped
<1> QED
  BY <1>3, <1>4, <1>5 DEF Inv, Running

LEMMA InitInv == ASSUME Init PROVE Inv
<1>1. DOMAIN app = AppFields /\ app.error = "" /\ app.over = FALSE /\ app.localVTag = 0 /\ app.seqNumMap = Registered
  BY DEF Init, AppFields
<1>2. /\ dut \in DutRecords /\ dut.state = "closed" /\ dut.peerTag = 0 /\ dut.numbered = {}
  <2>1. PICK role \in {"client", "server"}, tsn \in LiveTsns, scriptTsn \in ScriptTsns :
          dut = [role |-> role, tsn |-> tsn, scriptTsn |-> scriptTsn, state |-> "closed", peerTag |-> 0,
                 peerStreams |-> [os |-> 2, is |-> 2], sent |-> 0, peerData |-> 0, heartbeat |-> 0, requests |-> 0, numbered |-> {},
                 peerRequest |-> 0]
    BY DEF Init
  <2>2. tsn \in Tsns /\ 0 \in 0 .. MaxData /\ 0 \in 0 .. MaxRequests
    BY NumberAssumption DEF Tsns
  <2> QED
    BY <2>1, <2>2 DEF DutRecords, StreamCounts
<1>3. \A n : Mapped(app, n) = 0
  BY <1>1 DEF Mapped, Registered
<1>4. Live
  BY <1>1, <1>2, <1>3 DEF Live, Tagged, Known, Kept, Numbered
<1>5. RequestsApart /\ ChunksAgree
  BY <1>2 DEF RequestsApart, ChunksAgree, Init
<1> QED
  BY <1>1, <1>4, <1>5 DEF Inv

LEMMA NextInv == ASSUME Habits = {}, Inv, [Next]_vars PROVE Inv'
<1>1. CASE UNCHANGED vars
  BY <1>1 DEF vars, Inv, ChunksAgree, RequestsApart, Running, Live, Tagged, Known, Kept, Numbered, Mapped
<1> QED
  BY <1>1, SetupInv, TransferInv, ReconfigureInv, ShutdownInv, CloseInv DEF Next

-----------------------------------------------------------------------------
(* The theorems.                                                           *)

(* A script without Habits gets its verdicts right: a live chunk matches   *)
(* what the script expects exactly if it is what the script says, and an   *)
(* injected one carries the DUT's tag, TSNs and numbers of requests, for   *)
(* any initial TSNs (those of the DUT may wrap round) and any number of    *)
(* DATA chunks and requests (PacketDrillApp.cc:913-1089, 4350-4801).      *)
THEOREM ChunksAlwaysAgree == ASSUME Habits = {} PROVE Spec => []ChunksAgree
<1>1. Init => Inv
  BY InitInv
<1>2. Inv /\ [Next]_vars => Inv'
  BY NextInv
<1>3. Inv => ChunksAgree
  BY DEF Inv
<1> QED
  BY <1>1, <1>2, <1>3, PTL DEF Spec

(* The map from the script's numbers of requests to the live ones never    *)
(* takes two requests for one, whatever is sent again, left open by the    *)
(* script or answered by the peer, as long as the peer has numbers of its  *)
(* own.                                                                    *)
THEOREM RequestsAlwaysApart == ASSUME Habits = {} PROVE Spec => []RequestsApart
<1>1. Init => Inv
  BY InitInv
<1>2. Inv /\ [Next]_vars => Inv'
  BY NextInv
<1>3. Inv => RequestsApart
  BY DEF Inv
<1> QED
  BY <1>1, <1>2, <1>3, PTL DEF Spec
=============================================================================
