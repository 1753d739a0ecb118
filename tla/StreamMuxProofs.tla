---------------------------- MODULE StreamMuxProofs ----------------------------
(***************************************************************************)
(* The accounting of streams, for any number of streams, slots and chunks: *)
(* slots and pending entries belong to the round trips that run, and no    *)
(* goroutine of a connection outlives runOnce.  Then the flow of bodies:   *)
(* what the two read loops carry between the request, the local service    *)
(* and the client arrives whole and in order, or the end never arrives.    *)
(***************************************************************************)
EXTENDS StreamMux, TLAPS

Live == {s \in Streams : gpc[s] \in Acquired}
Messages == [s : Streams, t : {"start", "body", "end", "cancel"}]
Places == Acquired \cup {"idle", "over"}

\* The gateway's part of Accounted.
Slots == gpc \in [Streams -> Places] /\ SlotsMatchRoundTrips

\* The agent's part of Accounted.
Goroutines ==
  /\ apc \in [Streams -> Working \cup {"none", "gone"}]
  /\ active = {s \in Streams : apc[s] \in Working}
  /\ toAgent \in Seq(Messages)
  /\ al = Returned => active = {}

-------------------------------------------------------------------------------
(* The way of a stream's body: a link, the hand of the loop that reads it,  *)
(* and the stream's own channel, in either direction.                       *)

Kinds == {"start", "body", "end", "cancel", "rstart", "rbody", "rend", "serr"}
Mail == [s : Streams, t : Kinds]

M(s, t) == [s |-> s, t |-> t]
Has(q, m) == \E i \in 1..Len(q) : q[i] = m
Never(q, after, m) == \A i, j \in 1..Len(q) : i < j /\ q[i] = after => q[j] # m

\* f lists the n places of m in q, in their order.
Marks(f, n, q, m) ==
  /\ \A j, k \in 1..n : j < k => f[j] < f[k]
  /\ \A k \in 1..n : q[f[k]] = m
  /\ \A i \in 1..Len(q) : q[i] = m => \E k \in 1..n : f[k] = i
Counts(q, m, n) == \E f \in [1..n -> 1..Len(q)] : Marks(f, n, q, m)

\* A message of stream s is on its way.
OnTheWay(s, m, chan, hand, lnk) ==
  Has(chan, m) \/ hand = Delivering(M(s, m)) \/ Has(lnk, M(s, m))

\* The messages of a kind that are on their way make up the difference between
\* the a that have arrived and the b that were sent.
InHand(hand, m) == IF hand = Delivering(m) THEN 1 ELSE 0
Whole(s, m, chan, hand, lnk, a, b) ==
  \E i, j \in Nat : /\ Counts(chan, m, i) /\ Counts(lnk, M(s, m), j)
                    /\ b = a + i + InHand(hand, M(s, m)) + j

\* Nothing of the body comes after its end.
EndIsLast(s, body, end, chan, hand, lnk) ==
  /\ Never(chan, end, body)
  /\ Has(chan, end) => hand # Delivering(M(s, body)) /\ ~Has(lnk, M(s, body))
  /\ hand = Delivering(M(s, end)) => ~Has(lnk, M(s, body))
  /\ Never(lnk, M(s, end), M(s, body))

\* http.request.start comes once and first.
StartIsFirst(s) ==
  /\ gpc[s] \in {"idle", "start"} => apc[s] = "none" /\ ~Has(toAgent, M(s, "start"))
  /\ gpc[s] \in {"body", "end"} => apc[s] # "none" \/ Has(toAgent, M(s, "start"))
  /\ Has(toAgent, M(s, "start")) => apc[s] = "none"
  /\ Never(toAgent, M(s, "start"), M(s, "start"))
  /\ \A t \in {"body", "end"} :
       /\ Never(toAgent, M(s, t), M(s, "start"))
       /\ apc[s] = "none" /\ Has(toAgent, M(s, t)) => Has(toAgent, M(s, "start"))

\* Until the agent is told to drop the rest, every chunk the gateway sent is on
\* its way or has reached the local service.
RequestFlow(s) ==
  /\ sdone[s] => apc[s] # "none" /\ ~actx[s]
  /\ EndIsLast(s, "body", "end", chunks[s], al, toAgent)
  /\ eof[s] \/ OnTheWay(s, "end", chunks[s], al, toAgent)
       => gpc[s] \notin {"idle", "start", "body", "end"}
  /\ apc[s] \in Working \cup {"none"} /\ ~sdone[s]
       => Whole(s, "body", chunks[s], al, toAgent, fed[s], sent[s])
  /\ eof[s] => fed[s] = sent[s] \/ ~actx[s]

\* While the session is up and the round trip reads, every chunk of a response
\* that has not failed is on its way or has been passed on.
ResponseFlow(s) ==
  /\ EndIsLast(s, "rbody", "rend", ch[s], rl, toGw)
  /\ OnTheWay(s, "rend", ch[s], rl, toGw) => apc[s] \in {"finish", "gone"}
  /\ apc[s] = "none" => ~Has(toGw, M(s, "rbody"))
  /\ /\ ~done /\ gpc[s] \in {"idle", "start", "body", "end", "read", "write"}
     /\ apc[s] \in {"none", "call", "resp"} \/ OnTheWay(s, "rend", ch[s], rl, toGw)
     => Whole(s, "rbody", ch[s], rl, toGw, got[s], made[s])

Typed ==
  /\ sent \in [Streams -> Nat] /\ fed \in [Streams -> Nat]
  /\ got \in [Streams -> Nat] /\ made \in [Streams -> Nat]
  /\ eof \in [Streams -> BOOLEAN] /\ sdone \in [Streams -> BOOLEAN] /\ actx \in [Streams -> BOOLEAN]
  /\ out \in [Streams -> {"none", "limit", "failed", "canceled", "completed"}]
  /\ chunks \in [Streams -> Seq({"body", "end"})]
  /\ al \in {Reading, Stopped, Returned} \cup {Delivering(m) : m \in [s : Streams, t : {"body", "end"}]}
  /\ toGw \in Seq(Mail)
  /\ ch \in [Streams -> Seq(Kinds)]
  /\ rl \in {Reading, Stopped} \cup {Delivering(m) : m \in Mail}

Flow == Typed /\ \A s \in Streams : StartIsFirst(s) /\ RequestFlow(s) /\ ResponseFlow(s)

\* Adding a message at the back of a queue.
LEMMA QueueAppend ==
  ASSUME NEW S, NEW q \in Seq(S), NEW x \in S, NEW m
  PROVE  /\ Append(q, x) \in Seq(S)
         /\ Has(Append(q, x), m) <=> Has(q, m) \/ x = m
<1> DEFINE n == Len(q)
<1>1. /\ Append(q, x) \in Seq(S) /\ Len(Append(q, x)) = n + 1 /\ n \in Nat
      /\ \A i \in 1..n : Append(q, x)[i] = q[i]
      /\ Append(q, x)[n + 1] = x
  OBVIOUS
<1>2. 1..(n + 1) = (1..n) \cup {n + 1}
  BY <1>1
<1> QED
  BY <1>1, <1>2 DEF Has

\* Taking the message at the front.
LEMMA QueueTail ==
  ASSUME NEW S, NEW q \in Seq(S), q # <<>>, NEW m
  PROVE  /\ Tail(q) \in Seq(S) /\ Head(q) \in S
         /\ Has(q, m) <=> Head(q) = m \/ Has(Tail(q), m)
<1> DEFINE n == Len(q)
<1>1. /\ n \in Nat \ {0} /\ Len(Tail(q)) = n - 1 /\ Head(q) = q[1]
      /\ Tail(q) \in Seq(S) /\ Head(q) \in S
      /\ \A i \in 1..(n - 1) : Tail(q)[i] = q[i + 1]
  OBVIOUS
<1>2. 1..n = {1} \cup (2..n)
  BY <1>1
<1>3. ASSUME NEW i \in 2..n PROVE i - 1 \in 1..(n - 1) /\ Tail(q)[i - 1] = q[i]
  BY <1>1
<1>4. ASSUME NEW i \in 1..(n - 1) PROVE i + 1 \in 1..n /\ Tail(q)[i] = q[i + 1]
  BY <1>1
<1> QED
  BY <1>1, <1>2, <1>3, <1>4, Zenon DEF Has

\* One more message at the back is one more to count.
LEMMA CountsAppend ==
  ASSUME NEW S, NEW q \in Seq(S), NEW x \in S, NEW m, NEW n \in Nat, Counts(q, m, n)
  PROVE  /\ x = m => Counts(Append(q, x), m, n + 1)
         /\ x # m => Counts(Append(q, x), m, n)
<1> DEFINE w == Append(q, x)
           l == Len(q)
<1>1. /\ Len(w) = l + 1 /\ l \in Nat /\ w[l + 1] = x
      /\ \A i \in 1..l : w[i] = q[i]
  OBVIOUS
<1>2. PICK f \in [1..n -> 1..l] : Marks(f, n, q, m)
  BY DEF Counts
<1> HIDE DEF w, l
<1>3. ASSUME x = m PROVE Counts(w, m, n + 1)
  <2> DEFINE g == [k \in 1..(n + 1) |-> IF k = n + 1 THEN l + 1 ELSE f[k]]
  <2>1. g \in [1..(n + 1) -> 1..(l + 1)] /\ g[n + 1] = l + 1 /\ \A k \in 1..n : g[k] = f[k]
    BY <1>1
  <2> HIDE DEF g
  <2>2. ASSUME NEW j \in 1..(n + 1), NEW k \in 1..(n + 1), j < k PROVE g[j] < g[k]
    <3>1. j \in 1..n /\ g[j] = f[j] /\ f[j] \in 1..l
      BY <2>1, <2>2
    <3>2. CASE k = n + 1
      BY <1>1, <2>1, <3>1, <3>2
    <3>3. CASE k # n + 1
      <4>1. k \in 1..n /\ g[k] = f[k]
        BY <2>1, <3>3
      <4> QED
        BY <1>2, <2>2, <3>1, <4>1 DEF Marks
    <3> QED
      BY <3>2, <3>3
  <2>3. ASSUME NEW k \in 1..(n + 1) PROVE w[g[k]] = m
    <3>1. CASE k = n + 1
      BY <1>1, <1>3, <2>1, <3>1
    <3>2. CASE k # n + 1
      <4>1. k \in 1..n /\ g[k] = f[k] /\ f[k] \in 1..l
        BY <2>1, <3>2
      <4>2. q[f[k]] = m
        BY <1>2, <4>1 DEF Marks
      <4> QED
        BY <1>1, <4>1, <4>2
    <3> QED
      BY <3>1, <3>2
  <2>4. ASSUME NEW i \in 1..(l + 1), w[i] = m PROVE \E k \in 1..(n + 1) : g[k] = i
    <3>1. CASE i = l + 1
      BY <2>1, <3>1
    <3>2. CASE i # l + 1
      <4>1. i \in 1..Len(q) /\ q[i] = m
        BY <1>1, <2>4, <3>2 DEF l
      <4>2. PICK k \in 1..n : f[k] = i
        BY <1>2, <4>1 DEF Marks
      <4> QED
        BY <2>1, <4>2
    <3> QED
      BY <3>1, <3>2
  <2>5. Marks(g, n + 1, w, m)
    BY <1>1, <2>2, <2>3, <2>4 DEF Marks
  <2> QED
    BY <1>1, <2>1, <2>5 DEF Counts
<1>4. ASSUME x # m PROVE Counts(w, m, n)
  <2>1. f \in [1..n -> 1..(l + 1)]
    BY <1>1
  <2>2. \A k \in 1..n : w[f[k]] = m
    BY <1>1, <1>2 DEF Marks
  <2>3. ASSUME NEW i \in 1..(l + 1), w[i] = m PROVE \E k \in 1..n : f[k] = i
    <3>1. i \in 1..Len(q) /\ q[i] = m
      BY <1>1, <1>4, <2>3 DEF l
    <3> QED
      BY <1>2, <3>1 DEF Marks
  <2>4. Marks(f, n, w, m)
    BY <1>1, <1>2, <2>2, <2>3 DEF Marks
  <2> QED
    BY <1>1, <2>1, <2>4, Zenon DEF Counts
<1> QED
  BY <1>3, <1>4 DEF w

\* One message less at the front is one less to count.
LEMMA CountsTail ==
  ASSUME NEW S, NEW q \in Seq(S), q # <<>>, NEW m, NEW n \in Nat, Counts(q, m, n)
  PROVE  /\ Head(q) = m => n - 1 \in Nat /\ Counts(Tail(q), m, n - 1)
         /\ Head(q) # m => Counts(Tail(q), m, n)
<1> DEFINE w == Tail(q)
           l == Len(q)
<1>1. /\ Len(w) = l - 1 /\ l \in Nat \ {0} /\ Head(q) = q[1]
      /\ \A i \in 1..(l - 1) : w[i] = q[i + 1]
  OBVIOUS
<1>2. PICK f \in [1..n -> 1..l] : Marks(f, n, q, m)
  BY DEF Counts
<1> HIDE DEF w, l
<1>3. ASSUME q[1] = m PROVE n - 1 \in Nat /\ Counts(w, m, n - 1)
  <2>1. n \in Nat \ {0} /\ f[1] = 1
    <3>1. PICK k \in 1..n : f[k] = 1
      <4>1. 1 \in 1..Len(q)
        BY <1>1 DEF l
      <4> QED
        BY <1>2, <1>3, <4>1 DEF Marks
    <3>2. 1 \in 1..n /\ f[1] \in 1..l
      BY <3>1
    <3>3. k # 1 => 1 < k
      BY <3>1
    <3>4. 1 < k => f[1] < f[k]
      BY <1>2, <3>1, <3>2 DEF Marks
    <3>5. k = 1
      BY <1>1, <3>1, <3>2, <3>3, <3>4
    <3> QED
      BY <3>1, <3>2, <3>5
  <2> DEFINE g == [k \in 1..(n - 1) |-> f[k + 1] - 1]
  <2>2. ASSUME NEW k \in 1..(n - 1) PROVE k + 1 \in 1..n /\ f[k + 1] \in 2..l
    <3>1. 1 \in 1..n /\ k + 1 \in 1..n /\ 1 < k + 1
      BY <2>1
    <3>2. f[1] < f[k + 1] /\ f[k + 1] \in 1..l
      BY <1>2, <3>1 DEF Marks
    <3> QED
      BY <1>1, <2>1, <3>1, <3>2
  <2>3. g \in [1..(n - 1) -> 1..(l - 1)] /\ \A k \in 1..(n - 1) : g[k] = f[k + 1] - 1
    BY <1>1, <2>2
  <2> HIDE DEF g
  <2>4. ASSUME NEW j \in 1..(n - 1), NEW k \in 1..(n - 1), j < k PROVE g[j] < g[k]
    <3>1. j + 1 \in 1..n /\ k + 1 \in 1..n /\ j + 1 < k + 1
      BY <2>1, <2>4
    <3>2. f[j + 1] < f[k + 1] /\ f[j + 1] \in 1..l /\ f[k + 1] \in 1..l
      BY <1>2, <3>1 DEF Marks
    <3>3. f[j + 1] - 1 < f[k + 1] - 1
      BY <1>1, <3>2
    <3> QED
      BY <2>3, <3>3, Zenon
  <2>5. ASSUME NEW k \in 1..(n - 1) PROVE w[g[k]] = m
    <3>1. f[k + 1] - 1 \in 1..(l - 1) /\ (f[k + 1] - 1) + 1 = f[k + 1] /\ k + 1 \in 1..n
      BY <1>1, <2>2
    <3>2. q[f[k + 1]] = m
      BY <1>2, <3>1 DEF Marks
    <3> QED
      BY <1>1, <2>3, <3>1, <3>2, Zenon
  <2>6. ASSUME NEW i \in 1..(l - 1), w[i] = m PROVE \E k \in 1..(n - 1) : g[k] = i
    <3>1. i + 1 \in 1..Len(q) /\ q[i + 1] = m
      BY <1>1, <2>6 DEF l
    <3>2. PICK k \in 1..n : f[k] = i + 1
      BY <1>2, <3>1 DEF Marks
    <3>3. k # 1
      BY <1>1, <2>1, <3>2
    <3>4. k - 1 \in 1..(n - 1) /\ (k - 1) + 1 = k
      BY <2>1, <3>3
    <3>5. g[k - 1] = (i + 1) - 1
      BY <2>3, <3>2, <3>4
    <3>6. (i + 1) - 1 = i
      BY <1>1
    <3> QED
      BY <3>4, <3>5, <3>6
  <2>7. g \in [1..(n - 1) -> 1..Len(w)] /\ n - 1 \in Nat
    <3>1. l - 1 = Len(w) /\ n - 1 \in Nat
      BY <1>1, <2>1
    <3> QED
      BY <2>3, <3>1, Zenon
  <2>8. Marks(g, n - 1, w, m)
    BY <1>1, <2>4, <2>5, <2>6 DEF Marks
  <2> QED
    BY <2>7, <2>8, Zenon DEF Counts
<1>4. ASSUME q[1] # m PROVE Counts(w, m, n)
  <2> DEFINE g == [k \in 1..n |-> f[k] - 1]
  <2>1. ASSUME NEW k \in 1..n PROVE f[k] \in 2..l /\ q[f[k]] = m
    <3>1. f[k] \in 1..l /\ q[f[k]] = m
      BY <1>2 DEF Marks
    <3> QED
      BY <1>1, <1>4, <3>1
  <2>2. g \in [1..n -> 1..(l - 1)] /\ \A k \in 1..n : g[k] = f[k] - 1
    BY <1>1, <2>1
  <2> HIDE DEF g
  <2>3. ASSUME NEW j \in 1..n, NEW k \in 1..n, j < k PROVE g[j] < g[k]
    <3>1. f[j] < f[k] /\ f[j] \in 1..l /\ f[k] \in 1..l
      BY <1>2, <2>3 DEF Marks
    <3> QED
      BY <1>1, <2>2, <3>1
  <2>4. ASSUME NEW k \in 1..n PROVE w[g[k]] = m
    <3>1. f[k] - 1 \in 1..(l - 1) /\ (f[k] - 1) + 1 = f[k] /\ q[f[k]] = m
      BY <1>1, <2>1
    <3> QED
      BY <1>1, <2>2, <3>1, Zenon
  <2>5. ASSUME NEW i \in 1..(l - 1), w[i] = m PROVE \E k \in 1..n : g[k] = i
    <3>1. i + 1 \in 1..Len(q) /\ q[i + 1] = m
      BY <1>1, <2>5 DEF l
    <3>2. PICK k \in 1..n : f[k] = i + 1
      BY <1>2, <3>1 DEF Marks
    <3> QED
      BY <1>1, <2>2, <3>2
  <2>6. Marks(g, n, w, m)
    BY <1>1, <2>3, <2>4, <2>5 DEF Marks
  <2> QED
    BY <1>1, <2>2, <2>6, Zenon DEF Counts
<1> QED
  BY <1>1, <1>3, <1>4 DEF w

\* Where there is none to find there is none to count.
LEMMA CountsNone ==
  ASSUME NEW q, NEW m, NEW n \in Nat, Counts(q, m, n), ~Has(q, m)
  PROVE  n = 0
<1>1. PICK f \in [1..n -> 1..Len(q)] : Marks(f, n, q, m)
  BY DEF Counts
<1>2. ASSUME n # 0 PROVE FALSE
  <2>1. 1 \in 1..n
    BY <1>2
  <2> QED
    BY <1>1, <2>1 DEF Marks, Has
<1> QED
  BY <1>2

\* An empty queue holds none.
LEMMA CountsEmpty == \A m : Counts(<<>>, m, 0)
<1> TAKE m
<1>1. 1..0 = {} /\ 1..Len(<<>>) = {}
  OBVIOUS
<1> DEFINE f == [k \in 1..0 |-> 0]
<1>2. f \in [1..0 -> 1..Len(<<>>)]
  BY <1>1
<1>3. Marks(f, 0, <<>>, m)
  BY <1>1 DEF Marks
<1> QED
  BY <1>2, <1>3, Zenon DEF Counts

\* A message that may not follow another is added only where that one is not
\* queued, and is gone once that one is taken.
LEMMA QueueOrder ==
  ASSUME NEW S, NEW q \in Seq(S), NEW after, NEW m, Never(q, after, m)
  PROVE  /\ \A x \in S : (x = m => ~Has(q, after)) => Never(Append(q, x), after, m)
         /\ q # <<>> => Never(Tail(q), after, m) /\ (Head(q) = after => ~Has(Tail(q), m))
<1>1. ASSUME NEW x \in S, x = m => ~Has(q, after) PROVE Never(Append(q, x), after, m)
  <2> DEFINE w == Append(q, x)
  <2>1. /\ Len(w) = Len(q) + 1 /\ Len(q) \in Nat
        /\ \A i \in 1..Len(q) : w[i] = q[i]
        /\ w[Len(q) + 1] = x
    OBVIOUS
  <2> SUFFICES ASSUME NEW i \in 1..Len(w), NEW j \in 1..Len(w), i < j, w[i] = after, w[j] = m
               PROVE  FALSE
    BY DEF Never
  <2>2. i \in 1..Len(q) /\ q[i] = after
    BY <2>1
  <2>3. CASE j = Len(q) + 1
    BY <1>1, <2>1, <2>2, <2>3 DEF Has
  <2>4. CASE j # Len(q) + 1
    <3>1. j \in 1..Len(q) /\ q[j] = m
      BY <2>1, <2>4
    <3> QED
      BY <2>2, <3>1 DEF Never
  <2> QED
    BY <2>3, <2>4
<1>2. ASSUME q # <<>> PROVE Never(Tail(q), after, m) /\ (Head(q) = after => ~Has(Tail(q), m))
  <2>1. /\ Len(q) \in Nat \ {0} /\ Len(Tail(q)) = Len(q) - 1 /\ Head(q) = q[1]
        /\ \A i \in 1..(Len(q) - 1) : Tail(q)[i] = q[i + 1] /\ i + 1 \in 1..Len(q)
    BY <1>2
  <2>2. Never(Tail(q), after, m)
    BY <2>1 DEF Never
  <2>3. ASSUME Head(q) = after, NEW i \in 1..Len(Tail(q)) PROVE Tail(q)[i] # m
    <3>1. 1 \in 1..Len(q) /\ i + 1 \in 1..Len(q) /\ 1 < i + 1 /\ Tail(q)[i] = q[i + 1] /\ q[1] = after
      BY <2>1, <2>3
    <3> QED
      BY <3>1 DEF Never
  <2> QED
    BY <2>2, <2>3 DEF Has
<1> QED
  BY <1>1, <1>2

\* Two messages are the same when their streams and their kinds are, and a loop
\* that reads has none in hand.
LEMMA MessageParts ==
  /\ \A s, t, s1, t1 : M(s, t) = M(s1, t1) <=> s = s1 /\ t = t1
  /\ \A m, m1 : Delivering(m) = Delivering(m1) <=> m = m1
  /\ \A m : /\ Delivering(m).m = m /\ Delivering(m).at = "deliver"
            /\ Delivering(m) \notin {Reading, Stopped, Returned}
  /\ \A m \in {Reading, Stopped, Returned} : m.at # "deliver"
  /\ \A s, t : M(s, t).s = s /\ M(s, t).t = t
BY DEF M, Delivering, Reading, Stopped, Returned

\* A message is that of a stream and of a kind.
LEMMA SameMessage ==
  ASSUME NEW r, NEW k, NEW s
  PROVE  \A t : M(r, k) = M(s, t) <=> s = r /\ t = k
BY DEF M

\* What is on a link after a message of kind k of stream r has been written to it.
LEMMA QueueWrite ==
  ASSUME NEW q \in Seq(Mail), NEW r, NEW k, M(r, k) \in Mail, NEW s
  PROVE  \A t : Has(Append(q, M(r, k)), M(s, t)) <=> Has(q, M(s, t)) \/ (s = r /\ t = k)
<1>1. \A t : M(r, k) = M(s, t) <=> s = r /\ t = k
  BY SameMessage
<1>2. ASSUME NEW t
      PROVE  Has(Append(q, M(r, k)), M(s, t)) <=> Has(q, M(s, t)) \/ M(r, k) = M(s, t)
  BY QueueAppend, Zenon
<1> QED
  BY <1>1, <1>2, Zenon

\* Writing a message to the link.
LEMMA WriteCarries ==
  ASSUME NEW s, NEW m, NEW chan, NEW hand, NEW lnk \in Seq(Mail), NEW x \in Mail,
         NEW a \in Nat, NEW b \in Nat, Whole(s, m, chan, hand, lnk, a, b)
  PROVE  /\ x = M(s, m) => Whole(s, m, chan, hand, Append(lnk, x), a, b + 1)
         /\ x # M(s, m) => Whole(s, m, chan, hand, Append(lnk, x), a, b)
<1>1. PICK i \in Nat, j \in Nat :
        /\ Counts(chan, m, i) /\ Counts(lnk, M(s, m), j)
        /\ b = a + i + InHand(hand, M(s, m)) + j
  BY DEF Whole
<1>2. /\ x = M(s, m) => Counts(Append(lnk, x), M(s, m), j + 1)
      /\ x # M(s, m) => Counts(Append(lnk, x), M(s, m), j)
  BY <1>1, CountsAppend
<1>3. j + 1 \in Nat /\ b + 1 = a + i + InHand(hand, M(s, m)) + (j + 1)
  BY <1>1 DEF InHand
<1> QED
  BY <1>1, <1>2, <1>3, Zenon DEF Whole

\* A chunk that is written before the end, or an end, keeps the end last.
LEMMA WriteKeepsOrder ==
  ASSUME NEW s, NEW body, NEW end, NEW chan \in Seq(Kinds), NEW hand,
         NEW lnk \in Seq(Mail), NEW x \in Mail,
         EndIsLast(s, body, end, chan, hand, lnk),
         x = M(s, body) => ~OnTheWay(s, end, chan, hand, lnk)
  PROVE  EndIsLast(s, body, end, chan, hand, Append(lnk, x))
<1>1. Has(Append(lnk, x), M(s, body)) <=> Has(lnk, M(s, body)) \/ x = M(s, body)
  BY QueueAppend
<1>2. Never(lnk, M(s, end), M(s, body)) /\ (x = M(s, body) => ~Has(lnk, M(s, end)))
        => Never(Append(lnk, x), M(s, end), M(s, body))
  BY QueueOrder
<1> QED
  BY <1>1, <1>2 DEF EndIsLast, OnTheWay

\* The loop takes a message off the link, to deliver it or to drop it.
LEMMA TakeCarries ==
  ASSUME NEW s, NEW m, NEW chan, NEW lnk \in Seq(Mail), lnk # <<>>,
         NEW hand \in {Reading, Delivering(Head(lnk))}, hand # Reading \/ Head(lnk) # M(s, m),
         NEW a \in Nat, NEW b \in Nat, Whole(s, m, chan, Reading, lnk, a, b)
  PROVE  Whole(s, m, chan, hand, Tail(lnk), a, b)
<1>1. PICK i \in Nat, j \in Nat :
        /\ Counts(chan, m, i) /\ Counts(lnk, M(s, m), j)
        /\ b = a + i + InHand(Reading, M(s, m)) + j
  BY DEF Whole
<1>2. /\ Head(lnk) = M(s, m) => j - 1 \in Nat /\ Counts(Tail(lnk), M(s, m), j - 1)
      /\ Head(lnk) # M(s, m) => Counts(Tail(lnk), M(s, m), j)
  BY <1>1, CountsTail
<1>3. /\ InHand(Reading, M(s, m)) = 0
      /\ Head(lnk) = M(s, m) => InHand(hand, M(s, m)) = 1
      /\ Head(lnk) # M(s, m) => InHand(hand, M(s, m)) = 0
  BY MessageParts DEF InHand
<1>4. Head(lnk) = M(s, m) => b = a + i + InHand(hand, M(s, m)) + (j - 1)
  BY <1>1, <1>2, <1>3
<1>5. Head(lnk) # M(s, m) => b = a + i + InHand(hand, M(s, m)) + j
  BY <1>1, <1>3
<1> QED
  BY <1>1, <1>2, <1>4, <1>5, Zenon DEF Whole

\* Taking a message puts nothing on its way that was not there before.
LEMMA TakeOnTheWay ==
  ASSUME NEW s, NEW m, NEW chan, NEW lnk \in Seq(Mail), lnk # <<>>,
         NEW hand \in {Reading, Delivering(Head(lnk))}
  PROVE  OnTheWay(s, m, chan, hand, Tail(lnk)) => OnTheWay(s, m, chan, Reading, lnk)
<1>1. Has(lnk, M(s, m)) <=> Head(lnk) = M(s, m) \/ Has(Tail(lnk), M(s, m))
  BY QueueTail
<1>2. hand = Delivering(M(s, m)) => Head(lnk) = M(s, m)
  BY MessageParts
<1> QED
  BY <1>1, <1>2 DEF OnTheWay

\* Taking the oldest message off the connection leaves no chunk behind its end.
LEMMA TakeKeepsOrder ==
  ASSUME NEW s, NEW body, NEW end, NEW chan \in Seq(Kinds), NEW lnk \in Seq(Mail), lnk # <<>>,
         NEW hand \in {Reading, Delivering(Head(lnk))},
         EndIsLast(s, body, end, chan, Reading, lnk)
  PROVE  EndIsLast(s, body, end, chan, hand, Tail(lnk))
<1>1. \A m : Has(lnk, m) <=> Head(lnk) = m \/ Has(Tail(lnk), m)
  BY QueueTail
<1>2. Never(lnk, M(s, end), M(s, body))
        => /\ Never(Tail(lnk), M(s, end), M(s, body))
           /\ Head(lnk) = M(s, end) => ~Has(Tail(lnk), M(s, body))
  BY QueueOrder
<1>3. \A m : (hand = Delivering(m) <=> hand # Reading /\ Head(lnk) = m) /\ Reading # Delivering(m)
  BY MessageParts
<1> QED
  BY <1>1, <1>2, <1>3 DEF EndIsLast

\* The loop hands its message to the stream's channel.
LEMMA DeliverCarries ==
  ASSUME NEW m, NEW chan \in Seq(Kinds), NEW lnk, NEW x \in Mail,
         NEW a \in Nat, NEW b \in Nat, Whole(x.s, m, chan, Delivering(x), lnk, a, b)
  PROVE  Whole(x.s, m, Append(chan, x.t), Reading, lnk, a, b)
<1>1. x = M(x.s, x.t) /\ x.t \in Kinds
  BY DEF M, Mail
<1>2. PICK i \in Nat, j \in Nat :
        /\ Counts(chan, m, i) /\ Counts(lnk, M(x.s, m), j)
        /\ b = a + i + InHand(Delivering(x), M(x.s, m)) + j
  BY DEF Whole
<1>3. (Delivering(x) = Delivering(M(x.s, m)) <=> x.t = m) /\ Reading # Delivering(M(x.s, m))
  BY <1>1, MessageParts
<1>4. /\ x.t = m => Counts(Append(chan, x.t), m, i + 1)
      /\ x.t # m => Counts(Append(chan, x.t), m, i)
  BY <1>1, <1>2, CountsAppend
<1>5. /\ x.t = m => b = a + (i + 1) + InHand(Reading, M(x.s, m)) + j
      /\ x.t # m => b = a + i + InHand(Reading, M(x.s, m)) + j
      /\ i + 1 \in Nat
  BY <1>2, <1>3 DEF InHand
<1> QED
  BY <1>2, <1>4, <1>5, Zenon DEF Whole

\* So the message is on its way as before.
LEMMA DeliverOnTheWay ==
  ASSUME NEW m, NEW chan \in Seq(Kinds), NEW lnk, NEW x \in Mail
  PROVE  OnTheWay(x.s, m, Append(chan, x.t), Reading, lnk) <=> OnTheWay(x.s, m, chan, Delivering(x), lnk)
<1>1. x = M(x.s, x.t) /\ x.t \in Kinds
  BY DEF M, Mail
<1>2. (Delivering(x) = Delivering(M(x.s, m)) <=> x.t = m) /\ Reading # Delivering(M(x.s, m))
  BY <1>1, MessageParts
<1>3. Has(Append(chan, x.t), m) <=> Has(chan, m) \/ x.t = m
  BY <1>1, QueueAppend
<1> QED
  BY <1>2, <1>3 DEF OnTheWay

\* Nor does putting the message at hand into the stream's channel.
LEMMA DeliverKeepsOrder ==
  ASSUME NEW body, NEW end, NEW chan \in Seq(Kinds), NEW lnk \in Seq(Mail), NEW x \in Mail,
         EndIsLast(x.s, body, end, chan, Delivering(x), lnk)
  PROVE  EndIsLast(x.s, body, end, Append(chan, x.t), Reading, lnk)
<1>1. x = M(x.s, x.t) /\ x.t \in Kinds
  BY DEF M, Mail
<1>2. \A m : (Delivering(x) = Delivering(M(x.s, m)) <=> x.t = m) /\ Reading # Delivering(M(x.s, m))
  BY <1>1, MessageParts
<1>3. \A m : Has(Append(chan, x.t), m) <=> Has(chan, m) \/ x.t = m
  BY <1>1, QueueAppend
<1>4. Never(chan, end, body) /\ (x.t = body => ~Has(chan, end)) => Never(Append(chan, x.t), end, body)
  BY <1>1, QueueOrder
<1> QED
  BY <1>2, <1>3, <1>4 DEF EndIsLast

\* The loop delivers another stream's message, or gives its message up.
LEMMA DropCarries ==
  ASSUME NEW s, NEW m, NEW chan, NEW lnk, NEW x \in Mail, x.s # s, NEW a, NEW b,
         Whole(s, m, chan, Delivering(x), lnk, a, b)
  PROVE  Whole(s, m, chan, Reading, lnk, a, b)
<1>1. x = M(x.s, x.t)
  BY DEF M, Mail
<1>2. Delivering(x) # Delivering(M(s, m)) /\ Reading # Delivering(M(s, m))
  BY <1>1, MessageParts
<1>3. InHand(Delivering(x), M(s, m)) = InHand(Reading, M(s, m))
  BY <1>2 DEF InHand
<1> QED
  BY <1>3, Zenon DEF Whole

\* Nor does dropping it, and what is still under way was under way before.
LEMMA DropKeepsOrder ==
  ASSUME NEW s, NEW body, NEW end, NEW chan, NEW lnk, NEW x,
         EndIsLast(s, body, end, chan, Delivering(x), lnk)
  PROVE  /\ EndIsLast(s, body, end, chan, Reading, lnk)
         /\ OnTheWay(s, end, chan, Reading, lnk) => OnTheWay(s, end, chan, Delivering(x), lnk)
BY MessageParts DEF EndIsLast, OnTheWay

\* The stream takes a message off its channel.
LEMMA ReadCarries ==
  ASSUME NEW s, NEW m, NEW chan \in Seq(Kinds), chan # <<>>, NEW hand, NEW lnk,
         NEW a \in Nat, NEW b \in Nat, Whole(s, m, chan, hand, lnk, a, b)
  PROVE  /\ Head(chan) = m => Whole(s, m, Tail(chan), hand, lnk, a + 1, b)
         /\ Head(chan) # m => Whole(s, m, Tail(chan), hand, lnk, a, b)
<1>1. PICK i \in Nat, j \in Nat :
        /\ Counts(chan, m, i) /\ Counts(lnk, M(s, m), j)
        /\ b = a + i + InHand(hand, M(s, m)) + j
  BY DEF Whole
<1>2. /\ Head(chan) = m => i - 1 \in Nat /\ Counts(Tail(chan), m, i - 1)
      /\ Head(chan) # m => Counts(Tail(chan), m, i)
  BY <1>1, CountsTail
<1>3. Head(chan) = m => b = (a + 1) + (i - 1) + InHand(hand, M(s, m)) + j
  BY <1>1, <1>2 DEF InHand
<1> QED
  BY <1>1, <1>2, <1>3, Zenon DEF Whole

\* The stream has the message it takes.
LEMMA ReadOnTheWay ==
  ASSUME NEW s, NEW m, NEW chan \in Seq(Kinds), chan # <<>>, NEW hand, NEW lnk
  PROVE  OnTheWay(s, m, chan, hand, lnk)
           <=> OnTheWay(s, m, Tail(chan), hand, lnk) \/ Head(chan) = m
<1>1. Has(chan, m) <=> Head(chan) = m \/ Has(Tail(chan), m)
  BY QueueTail
<1> QED
  BY <1>1 DEF OnTheWay

\* Taking it keeps the end last.
LEMMA ReadKeepsOrder ==
  ASSUME NEW s, NEW body, NEW end, NEW chan \in Seq(Kinds), chan # <<>>,
         NEW hand, NEW lnk, EndIsLast(s, body, end, chan, hand, lnk)
  PROVE  EndIsLast(s, body, end, Tail(chan), hand, lnk)
<1>1. \A m : Has(chan, m) <=> Head(chan) = m \/ Has(Tail(chan), m)
  BY QueueTail
<1>2. Never(chan, end, body) => Never(Tail(chan), end, body)
  BY QueueOrder
<1> QED
  BY <1>1, <1>2 DEF EndIsLast

\* When it is the end, the body has all arrived.
LEMMA EndIsWhole ==
  ASSUME NEW s, NEW body, NEW end, NEW chan \in Seq(Kinds), chan # <<>>, Head(chan) = end, body # end,
         NEW hand, NEW lnk, EndIsLast(s, body, end, chan, hand, lnk),
         NEW a \in Nat, NEW b \in Nat, Whole(s, body, chan, hand, lnk, a, b)
  PROVE  a = b
<1>1. PICK i \in Nat, j \in Nat :
        /\ Counts(chan, body, i) /\ Counts(lnk, M(s, body), j)
        /\ b = a + i + InHand(hand, M(s, body)) + j
  BY DEF Whole
<1>2. \A m : Has(chan, m) <=> Head(chan) = m \/ Has(Tail(chan), m)
  BY QueueTail
<1>3. Never(chan, end, body) => (Head(chan) = end => ~Has(Tail(chan), body))
  BY QueueOrder
<1>4. ~Has(chan, body) /\ Has(chan, end)
  BY <1>2, <1>3 DEF EndIsLast
<1>5. ~Has(lnk, M(s, body)) /\ InHand(hand, M(s, body)) = 0
  BY <1>4 DEF EndIsLast, InHand
<1>6. i = 0
  BY <1>1, <1>4, CountsNone
<1>7. j = 0
  BY <1>1, <1>5, CountsNone
<1> QED
  BY <1>1, <1>5, <1>6, <1>7

\* A message is its stream and its kind.
LEMMA MessageForm ==
  ASSUME NEW q \in Seq(Messages), q # <<>>
  PROVE  LET m == Head(q) IN
         /\ m \in Messages /\ m.s \in Streams /\ m.t \in {"start", "body", "end", "cancel"}
         /\ m = M(m.s, m.t)
<1>1. Head(q) \in Messages
  OBVIOUS
<1>2. \A m \in Messages : m.s \in Streams /\ m.t \in {"start", "body", "end", "cancel"} /\ m = M(m.s, m.t)
  BY DEF Messages, M
<1> QED
  BY <1>1, <1>2

\* What the request's two queues hold are messages like the others.
LEMMA WayTypes ==
  /\ \A q \in Seq(Messages) : q \in Seq(Mail)
  /\ \A q \in Seq({"body", "end"}) : q \in Seq(Kinds)
<1>1. Messages \subseteq Mail
  BY DEF Messages, Mail, Kinds
<1>2. {"body", "end"} \subseteq Kinds
  BY DEF Kinds
<1>3. ASSUME NEW S, NEW T, S \subseteq T, NEW q \in Seq(S) PROVE q \in Seq(T)
  BY <1>3
<1> QED
  BY <1>1, <1>2, <1>3

-------------------------------------------------------------------------------
(* The request *)

\* A step that leaves a stream's messages alone, moves its round trip forward
\* and may cancel its context.
LEMMA RequestCalm ==
  ASSUME NEW s \in Streams, StartIsFirst(s), RequestFlow(s),
         gpc'[s] \in {"idle", "start"} => gpc[s] \in {"idle", "start"},
         gpc'[s] \in {"body", "end"} => gpc[s] \in {"body", "end"},
         apc'[s] = apc[s] \/ (apc[s] \in Working /\ apc'[s] \in Working),
         actx'[s] => actx[s],
         sdone'[s] = sdone[s], chunks'[s] = chunks[s], eof'[s] = eof[s],
         fed'[s] = fed[s], sent'[s] = sent[s], toAgent' = toAgent,
         al' = al \/ {al, al'} \subseteq {Reading, Stopped, Returned}
  PROVE  StartIsFirst(s)' /\ RequestFlow(s)'
<1>1. \A m : al' = Delivering(m) <=> al = Delivering(m)
  BY MessageParts, ZenonT(60)
<1>2. StartIsFirst(s)'
  BY DEF StartIsFirst, Working
<1>3. \A m : OnTheWay(s, m, chunks'[s], al', toAgent') <=> OnTheWay(s, m, chunks[s], al, toAgent)
  BY <1>1, Zenon DEF OnTheWay
<1>4. Whole(s, "body", chunks[s], al, toAgent, fed[s], sent[s])
        => Whole(s, "body", chunks'[s], al', toAgent', fed'[s], sent'[s])
  BY <1>1, ZenonT(60) DEF Whole, InHand
<1>5. EndIsLast(s, "body", "end", chunks[s], al, toAgent)
        => EndIsLast(s, "body", "end", chunks'[s], al', toAgent')
  BY <1>1, Zenon DEF EndIsLast
<1>6. apc'[s] \in Working \cup {"none"} <=> apc[s] \in Working \cup {"none"}
  OBVIOUS
<1>7. apc'[s] = "none" <=> apc[s] = "none"
  BY DEF Working
<1> QED
  BY <1>2, <1>3, <1>4, <1>5, <1>6, <1>7, Zenon DEF RequestFlow

\* What the gateway writes of a request, at which place, and where it goes on.
Writes == {<<"start", "start", "body">>, <<"body", "body", "body">>,
           <<"end", "end", "read">>, <<"cancel", "cancel", "return">>}

\* The parts of these triples.
LEMMA WritesParts ==
  ASSUME NEW w \in Writes
  PROVE  /\ w[1] = w[2] /\ w[1] \in {"start", "body", "end", "cancel"}
         /\ w[1] = "start" \/ w[1] = "body" => w[3] = "body"
         /\ w[1] = "end" => w[3] = "read"
         /\ w[1] = "cancel" => w[3] = "return"
         /\ \A r \in Streams : M(r, w[1]) \in Messages /\ M(r, w[1]) \in Mail
BY DEF Writes, Messages, Mail, Kinds, M

\* A message of the request is written after http.request.start and not after
\* http.request.end.
LEMMA RequestWrite ==
  ASSUME toAgent \in Seq(Messages), Typed, NEW s \in Streams, StartIsFirst(s), RequestFlow(s),
         NEW r \in Streams, NEW w \in Writes, gpc[r] = w[2], toAgent' = Append(toAgent, M(r, w[1])),
         gpc'[s] = (IF s = r THEN w[3] ELSE gpc[s]),
         sent'[s] = sent[s] + (IF s = r /\ w[1] = "body" THEN 1 ELSE 0),
         UNCHANGED <<apc, actx, sdone, chunks, eof, fed, al>>
  PROVE  StartIsFirst(s)' /\ RequestFlow(s)'
<1> DEFINE x == M(r, w[1])
<1>0. /\ w[1] = w[2] /\ w[1] \in {"start", "body", "end", "cancel"}
      /\ w[1] = "start" \/ w[1] = "body" => w[3] = "body"
      /\ w[1] = "end" => w[3] = "read"
      /\ w[1] = "cancel" => w[3] = "return"
  BY WritesParts, Zenon
<1>1. x \in Messages /\ x \in Mail /\ toAgent \in Seq(Mail)
  BY WritesParts, WayTypes, Zenon DEF Typed
<1>2. \A t : x = M(s, t) <=> s = r /\ t = w[1]
  <2> SUFFICES ASSUME NEW t PROVE M(r, w[1]) = M(s, t) <=> s = r /\ t = w[1]
    BY Zenon
  <2> QED
    BY SameMessage
<1>3. \A t : Has(toAgent', M(s, t)) <=> Has(toAgent, M(s, t)) \/ (s = r /\ t = w[1])
  <2>1. \A t : Has(Append(toAgent, M(r, w[1])), M(s, t)) <=> Has(toAgent, M(s, t)) \/ (s = r /\ t = w[1])
    BY <1>1, QueueWrite, Zenon
  <2> QED
    BY <2>1, Zenon
<1>4. StartIsFirst(s)'
  <2>1. \A t \in {"start", "body", "end"} :
          (s = r /\ w[1] = "start" => ~Has(toAgent, M(s, t)))
            => Never(toAgent', M(s, t), M(s, "start"))
    <3> SUFFICES ASSUME NEW t \in {"start", "body", "end"},
                        x = M(s, "start") => ~Has(toAgent, M(s, t))
                 PROVE  Never(Append(toAgent, x), M(s, t), M(s, "start"))
      BY <1>2, ZenonT(30)
    <3>1. Never(toAgent, M(s, t), M(s, "start"))
      BY ZenonT(30) DEF StartIsFirst
    <3> HIDE DEF x
    <3> QED
      BY <1>1, <3>1, QueueOrder, ZenonT(30)
  <2>2. s = r /\ w[1] = "start" => /\ gpc[s] = "start" /\ apc[s] = "none"
                                  /\ \A t \in {"start", "body", "end"} : ~Has(toAgent, M(s, t))
    BY <1>0, Zenon DEF StartIsFirst
  <2>3. \A t \in {"start", "body", "end"} : Never(toAgent', M(s, t), M(s, "start"))
    BY <2>1, <2>2, ZenonT(30)
  <2>4. gpc'[s] \in {"idle", "start"} => apc'[s] = "none" /\ ~Has(toAgent', M(s, "start"))
    BY <1>0, <1>3, Zenon DEF StartIsFirst
  <2>5. gpc'[s] \in {"body", "end"} => apc'[s] # "none" \/ Has(toAgent', M(s, "start"))
    BY <1>0, <1>3, ZenonT(60) DEF StartIsFirst
  <2>6. Has(toAgent', M(s, "start")) => apc'[s] = "none"
    BY <1>3, <2>2, ZenonT(60) DEF StartIsFirst
  <2>7. ASSUME NEW t \in {"body", "end"}, apc'[s] = "none", Has(toAgent', M(s, t))
        PROVE  Has(toAgent', M(s, "start"))
    BY <1>0, <1>3, <2>7, ZenonT(60) DEF StartIsFirst
  <2> QED
    BY <2>3, <2>4, <2>5, <2>6, <2>7, ZenonT(30) DEF StartIsFirst
<1>5. RequestFlow(s)'
  <2>0. /\ chunks[s] \in Seq(Kinds) /\ toAgent \in Seq(Mail) /\ sent[s] \in Nat /\ fed[s] \in Nat
    BY WayTypes, Zenon DEF Typed
  <2>1. \A t : OnTheWay(s, t, chunks[s], al, toAgent')
                 <=> OnTheWay(s, t, chunks[s], al, toAgent) \/ (s = r /\ t = w[1])
    BY <1>3, Zenon DEF OnTheWay
  <2>2. ASSUME Whole(s, "body", chunks[s], al, toAgent, fed[s], sent[s])
        PROVE  Whole(s, "body", chunks[s], al, toAgent', fed[s], sent'[s])
    <3> HIDE DEF x
    <3>1. /\ x = M(s, "body") => Whole(s, "body", chunks[s], al, Append(toAgent, x), fed[s], sent[s] + 1)
          /\ x # M(s, "body") => Whole(s, "body", chunks[s], al, Append(toAgent, x), fed[s], sent[s])
      BY <1>1, <2>0, <2>2, WriteCarries, ZenonT(60)
    <3>2. x = M(s, "body") => sent'[s] = sent[s] + 1
      <4>1. x = M(s, "body") <=> s = r /\ w[1] = "body"
        BY <1>2, ZenonT(60)
      <4> QED
        BY <2>0, <4>1, Zenon
    <3>3. x # M(s, "body") => sent'[s] = sent[s]
      <4>1. x # M(s, "body") => ~(s = r /\ w[1] = "body")
        BY <1>2, Zenon
      <4> QED
        BY <2>0, <4>1
    <3> QED
      BY <3>1, <3>2, <3>3, Zenon DEF x
  <2>3. s = r /\ w[1] = "body" => gpc[s] = "body" /\ ~OnTheWay(s, "end", chunks[s], al, toAgent)
    BY <1>0, Zenon DEF RequestFlow
  <2>4. EndIsLast(s, "body", "end", chunks[s], al, toAgent')
    <3>1. EndIsLast(s, "body", "end", chunks[s], al, toAgent)
      BY DEF RequestFlow
    <3>2. x = M(s, "body") => ~OnTheWay(s, "end", chunks[s], al, toAgent)
      BY <1>2, <2>3, Zenon
    <3> HIDE DEF x
    <3>3. EndIsLast(s, "body", "end", chunks[s], al, Append(toAgent, x))
      BY <1>1, <2>0, <3>1, <3>2, WriteKeepsOrder, ZenonT(60)
    <3> QED
      BY <3>3, Zenon DEF x
  <2>5. eof'[s] \/ OnTheWay(s, "end", chunks'[s], al', toAgent')
          => gpc'[s] \notin {"idle", "start", "body", "end"}
    BY <1>0, <2>1, Zenon DEF RequestFlow
  <2>7. apc'[s] \in Working \cup {"none"} /\ ~sdone'[s]
          => Whole(s, "body", chunks'[s], al', toAgent', fed'[s], sent'[s])
    BY <2>2, ZenonT(60) DEF RequestFlow
  <2>8. eof'[s] => fed'[s] = sent'[s] \/ ~actx'[s]
    <3>1. eof[s] => (fed[s] = sent[s] \/ ~actx[s]) /\ ~(s = r /\ w[1] = "body")
      BY <1>0, Zenon DEF RequestFlow
    <3> QED
      BY <2>0, <3>1
  <2>9. sdone'[s] => apc'[s] # "none" /\ ~actx'[s]
    BY DEF RequestFlow
  <2> QED
    BY <2>4, <2>5, <2>7, <2>8, <2>9 DEF RequestFlow
<1> QED
  BY <1>4, <1>5

\* The agent reads a message off the link: the start of a stream is the first
\* that it sees of it.
LEMMA StartRead ==
  ASSUME toAgent \in Seq(Messages), toAgent # <<>>, NEW s \in Streams, StartIsFirst(s),
         gpc'[s] = gpc[s], toAgent' = Tail(toAgent),
         apc'[s] = IF Head(toAgent) = M(s, "start") THEN "call" ELSE apc[s]
  PROVE  /\ StartIsFirst(s)'
         /\ Head(toAgent) = M(s, "start") => apc[s] = "none"
         /\ \A t \in {"body", "end"} : Head(toAgent) = M(s, t) => apc[s] # "none"
<1>1. \A m : Has(toAgent, m) <=> Head(toAgent) = m \/ Has(toAgent', m)
  BY QueueTail
<1>2. \A t \in {"start", "body", "end"} :
        /\ Never(toAgent', M(s, t), M(s, "start"))
        /\ Head(toAgent) = M(s, t) => ~Has(toAgent', M(s, "start"))
  <2> SUFFICES ASSUME NEW t \in {"start", "body", "end"}
               PROVE  /\ Never(Tail(toAgent), M(s, t), M(s, "start"))
                      /\ Head(toAgent) = M(s, t) => ~Has(Tail(toAgent), M(s, "start"))
    OBVIOUS
  <2>1. Never(toAgent, M(s, t), M(s, "start"))
    BY ZenonT(30) DEF StartIsFirst
  <2> QED
    BY <2>1, QueueOrder
<1>3. \A t, u : M(s, t) = M(s, u) <=> t = u
  BY MessageParts
<1>4. \A t \in {"body", "end"} : Head(toAgent) = M(s, t) => apc[s] # "none"
  BY <1>1, <1>2, <1>3, ZenonT(30) DEF StartIsFirst
<1>5. Head(toAgent) = M(s, "start") => apc[s] = "none" /\ gpc[s] \notin {"idle", "start"}
  BY <1>1, ZenonT(30) DEF StartIsFirst
<1>6. CASE Head(toAgent) = M(s, "start")
  <2>1. apc'[s] = "call" /\ ~Has(toAgent', M(s, "start"))
    BY <1>2, <1>6, ZenonT(30)
  <2>2. StartIsFirst(s)'
    BY <1>2, <1>5, <1>6, <2>1 DEF StartIsFirst
  <2> QED
    BY <1>4, <1>5, <2>2, ZenonT(30)
<1>7. CASE Head(toAgent) # M(s, "start")
  <2>1. apc'[s] = apc[s] /\ (Has(toAgent', M(s, "start")) <=> Has(toAgent, M(s, "start")))
    BY <1>1, <1>7, Zenon
  <2>2. StartIsFirst(s)'
    BY <1>1, <1>2, <2>1 DEF StartIsFirst
  <2> QED
    BY <1>4, <1>7, <2>2
<1> QED
  BY <1>6, <1>7, Zenon

\* serve reads a message: it starts the stream, takes the chunk in hand, drops
\* what belongs to no active stream, or ends the stream's wait for chunks.
LEMMA RequestRead ==
  ASSUME Goroutines, Typed, NEW s \in Streams, StartIsFirst(s), RequestFlow(s), serveRead
  PROVE  StartIsFirst(s)' /\ RequestFlow(s)'
<1>1. PICK m : m = Head(toAgent)
  OBVIOUS
<1>2. /\ toAgent \in Seq(Messages) /\ toAgent # <<>> /\ toAgent' = Tail(toAgent) /\ al = Reading
      /\ UNCHANGED <<gpc, sent, chunks, eof, fed>>
  BY Zenon DEF serveRead, Goroutines, gwStream
<1>3. /\ m \in Messages /\ m.s \in Streams /\ m.t \in {"start", "body", "end", "cancel"}
      /\ m = M(m.s, m.t)
  BY <1>1, <1>2, MessageForm
<1>4. \A t : m = M(s, t) <=> m.s = s /\ m.t = t
  BY <1>3, MessageParts
<1>5. /\ apc \in [Streams -> Working \cup {"none", "gone"}] /\ active = {r \in Streams : apc[r] \in Working}
      /\ sdone \in [Streams -> BOOLEAN] /\ actx \in [Streams -> BOOLEAN]
      /\ chunks[s] \in Seq(Kinds) /\ toAgent \in Seq(Mail)
  BY WayTypes, Zenon DEF Goroutines, Typed
<1> DEFINE Canceled == /\ actx' = [actx EXCEPT ![m.s] = @ /\ m.s \notin active]
                       /\ sdone' = [sdone EXCEPT ![m.s] = @ \/ m.s \in active]
<1>6. /\ apc'[s] = IF m = M(s, "start") THEN "call" ELSE apc[s]
      /\ UNCHANGED <<sdone, actx>> \/ (m.t # "start" /\ Canceled)
      /\ al' \in {Reading, Delivering(Head(toAgent))}
      /\ al' = Reading /\ m.t \in {"body", "end"} => m.s \notin active \/ Canceled
  <2>1. CASE m.t = "start"
    BY <1>1, <1>2, <1>3, <1>4, <1>5, <2>1, Zenon DEF serveRead
  <2>2. CASE /\ m.t \in {"body", "end"} /\ UNCHANGED <<apc, sdone, actx>>
             /\ al' = (IF m.s \in active THEN Delivering(m) ELSE al)
    <3> HIDE DEF Canceled
    <3> QED
      BY <1>1, <1>2, <1>4, <2>2, MessageParts
  <2>3. CASE m.t \in {"cancel", "body"} /\ Canceled /\ UNCHANGED <<apc, al>>
    <3> HIDE DEF Canceled
    <3>2. m # M(s, "start")
      BY <1>4, <2>3
    <3> QED
      BY <1>2, <2>3, <3>2
  <2> QED
    BY <1>1, <2>1, <2>2, <2>3, Zenon DEF serveRead
<1>7. /\ StartIsFirst(s)'
      /\ m = M(s, "start") => apc[s] = "none"
      /\ \A t \in {"body", "end"} : m = M(s, t) => apc[s] # "none"
  <2>1. apc'[s] = IF Head(toAgent) = M(s, "start") THEN "call" ELSE apc[s]
    BY <1>1, <1>6, ZenonT(30)
  <2> QED
    BY <1>1, <1>2, <2>1, StartRead, ZenonT(30)
<1>15. al' \in {Reading, Delivering(Head(toAgent))}
  BY <1>6
<1>16. toAgent # <<>>
  BY <1>2
<1>17. chunks[s] \in Seq(Kinds) /\ toAgent \in Seq(Mail)
  BY <1>5
<1>8. EndIsLast(s, "body", "end", chunks[s], al', toAgent')
  <2>1. EndIsLast(s, "body", "end", chunks[s], Reading, toAgent)
    BY <1>2, Zenon DEF RequestFlow
  <2>2. EndIsLast(s, "body", "end", chunks[s], al', Tail(toAgent))
    BY <1>15, <1>16, <1>17, <2>1, TakeKeepsOrder, ZenonT(30)
  <2> QED
    BY <1>2, <2>2
<1>9. OnTheWay(s, "end", chunks[s], al', Tail(toAgent)) => OnTheWay(s, "end", chunks[s], Reading, toAgent)
  BY <1>15, <1>16, <1>17, TakeOnTheWay, ZenonT(60)
<1>10. ASSUME al' # Reading \/ m # M(s, "body"),
              Whole(s, "body", chunks[s], Reading, toAgent, fed[s], sent[s])
       PROVE  Whole(s, "body", chunks[s], al', Tail(toAgent), fed[s], sent[s])
  <2>1. fed[s] \in Nat /\ sent[s] \in Nat
    BY ZenonT(30) DEF Typed
  <2> QED
    BY <1>1, <1>10, <1>15, <1>16, <1>17, <2>1, TakeCarries, Zenon
<1>18. ASSUME Canceled
       PROVE  /\ sdone'[s] <=> sdone[s] \/ (m.s = s /\ s \in active)
              /\ actx'[s] <=> actx[s] /\ ~(m.s = s /\ s \in active)
  BY <1>3, <1>5, <1>18, Zenon
<1> HIDE DEF Canceled
<1>11. al' = Reading /\ m = M(s, "body") => apc'[s] \notin Working \cup {"none"} \/ sdone'[s]
  <2> SUFFICES ASSUME al' = Reading, m = M(s, "body"), ~sdone'[s]
               PROVE  apc'[s] \notin Working \cup {"none"}
    BY Zenon
  <2>1. m.s = s /\ m.t = "body" /\ m # M(s, "start") /\ apc[s] # "none" /\ apc'[s] = apc[s]
    BY <1>4, <1>6, <1>7, MessageParts, ZenonT(60)
  <2>2. s \notin active
    BY <1>6, <1>18, <2>1, Zenon
  <2> QED
    BY <1>5, <2>1, <2>2, Zenon
<1>12. sdone'[s] => apc'[s] # "none" /\ ~actx'[s]
  <2>1. CASE m.t # "start" /\ Canceled
    <3>1. apc'[s] = apc[s]
      BY <1>4, <1>6, <2>1, Zenon
    <3>2. s \in active => apc[s] # "none"
      BY <1>5 DEF Working
    <3> QED
      BY <1>18, <2>1, <3>1, <3>2, Zenon DEF RequestFlow
  <2>2. CASE UNCHANGED <<sdone, actx>>
    BY <1>6, <1>7, <2>2, Zenon DEF RequestFlow
  <2> QED
    BY <1>6, <2>1, <2>2, Zenon
<1>13. (sdone[s] => sdone'[s]) /\ (actx'[s] => actx[s])
  BY <1>6, <1>18, Zenon
<1>14. apc'[s] \in Working \cup {"none"} => apc[s] \in Working \cup {"none"}
  BY <1>6, <1>7, Zenon
<1> QED
  BY <1>2, <1>7, <1>8, <1>9, <1>10, <1>11, <1>12, <1>13, <1>14, Zenon DEF RequestFlow

\* serve passes the chunk on to its stream, or drops it when the stream is done.
LEMMA RequestDeliver ==
  ASSUME Goroutines, Typed, NEW s \in Streams, StartIsFirst(s), RequestFlow(s),
         deliverActiveStreamChunk
  PROVE  StartIsFirst(s)' /\ RequestFlow(s)'
<1>1. PICK x \in [s : Streams, t : {"body", "end"}] : al = Delivering(x)
  BY MessageParts, ZenonT(60) DEF deliverActiveStreamChunk, Typed
<1>2. al.m = x /\ al' = Reading /\ x.s \in Streams /\ x.t \in {"body", "end"} /\ x \in Mail
  BY <1>1, MessageParts, ZenonT(30) DEF deliverActiveStreamChunk, Mail, Kinds
<1>3. /\ toAgent \in Seq(Mail) /\ chunks[s] \in Seq(Kinds) /\ chunks \in [Streams -> Seq({"body", "end"})]
      /\ UNCHANGED <<gpc, sent, apc, actx, sdone, fed, eof, toAgent>>
  BY WayTypes, ZenonT(30) DEF deliverActiveStreamChunk, Goroutines, Typed, link, gwStream
<1>4. EndIsLast(s, "body", "end", chunks[s], Delivering(x), toAgent)
  BY <1>1, Zenon DEF RequestFlow
<1>5. StartIsFirst(s)'
  BY <1>3, Zenon DEF StartIsFirst
<1>6. x \in Mail /\ toAgent \in Seq(Mail) /\ chunks[s] \in Seq(Kinds)
  BY <1>2, <1>3, Zenon
<1>7. CASE x.s = s /\ chunks'[s] = Append(chunks[s], x.t)
  <2>1. EndIsLast(s, "body", "end", Append(chunks[s], x.t), Reading, toAgent)
    BY <1>4, <1>6, <1>7, DeliverKeepsOrder, Zenon
  <2>2. OnTheWay(s, "end", Append(chunks[s], x.t), Reading, toAgent)
          <=> OnTheWay(s, "end", chunks[s], Delivering(x), toAgent)
    BY <1>6, <1>7, DeliverOnTheWay, Zenon
  <2>3. ASSUME Whole(s, "body", chunks[s], Delivering(x), toAgent, fed[s], sent[s])
        PROVE  Whole(s, "body", Append(chunks[s], x.t), Reading, toAgent, fed[s], sent[s])
    <3>1. fed[s] \in Nat /\ sent[s] \in Nat
      BY DEF Typed
    <3> QED
      BY <1>6, <1>7, <2>3, <3>1, DeliverCarries, Zenon
  <2> QED
    BY <1>1, <1>2, <1>3, <1>5, <1>7, <2>1, <2>2, <2>3, Zenon DEF RequestFlow
<1>8. CASE chunks'[s] = chunks[s] /\ (x.s # s \/ sdone[s])
  <2>1. /\ EndIsLast(s, "body", "end", chunks[s], Reading, toAgent)
        /\ OnTheWay(s, "end", chunks[s], Reading, toAgent)
             => OnTheWay(s, "end", chunks[s], Delivering(x), toAgent)
    BY <1>4, DropKeepsOrder
  <2>2. ASSUME x.s # s, Whole(s, "body", chunks[s], Delivering(x), toAgent, fed[s], sent[s])
        PROVE  Whole(s, "body", chunks[s], Reading, toAgent, fed[s], sent[s])
    BY <1>6, <2>2, DropCarries, Zenon
  <2> QED
    BY <1>1, <1>2, <1>3, <1>5, <1>8, <2>1, <2>2, Zenon DEF RequestFlow
<1>9. \/ chunks' = [chunks EXCEPT ![x.s] = Append(@, x.t)]
      \/ sdone[x.s] /\ chunks' = chunks
  BY <1>2, Zenon DEF deliverActiveStreamChunk
<1> QED
  BY <1>2, <1>3, <1>7, <1>8, <1>9

\* The pump feeds a chunk to the local service, or tells it that the body ended:
\* by then the body has arrived.
LEMMA RequestPump ==
  ASSUME Goroutines, Typed, NEW s \in Streams, StartIsFirst(s), RequestFlow(s), pumpChunk(s)
  PROVE  StartIsFirst(s)' /\ RequestFlow(s)'
<1>1. /\ toAgent \in Seq(Mail) /\ chunks[s] \in Seq(Kinds) /\ chunks \in [Streams -> Seq({"body", "end"})]
      /\ fed \in [Streams -> Nat] /\ sent \in [Streams -> Nat] /\ eof \in [Streams -> BOOLEAN]
  BY WayTypes, Zenon DEF Goroutines, Typed
<1>2. /\ apc[s] \in Working /\ chunks[s] # <<>> /\ ~eof[s] /\ (sdone[s] => ~actx[s])
      /\ chunks'[s] = Tail(chunks[s])
      /\ UNCHANGED <<gpc, sent, apc, actx, sdone, al, toAgent>>
  BY <1>1, Zenon DEF pumpChunk, link, gwStream, Working, RequestFlow
<1>3. Head(chunks[s]) \in {"body", "end"}
  BY <1>1, <1>2
<1>4. /\ eof'[s] <=> Head(chunks[s]) = "end"
      /\ Head(chunks[s]) = "body" => fed'[s] = fed[s] + 1
      /\ Head(chunks[s]) # "body" => fed'[s] = fed[s]
  <2>1. CASE Head(chunks[s]) = "end"
    <3>1. eof' = [eof EXCEPT ![s] = TRUE] /\ fed' = fed
      BY <2>1, Zenon DEF pumpChunk
    <3> QED
      BY <1>1, <2>1, <3>1, Zenon
  <2>2. CASE Head(chunks[s]) = "body"
    <3>1. fed' = [fed EXCEPT ![s] = @ + 1] /\ eof' = eof
      BY <2>2, Zenon DEF pumpChunk
    <3> QED
      BY <1>1, <1>2, <2>2, <3>1, Zenon
  <2> QED
    BY <1>3, <2>1, <2>2, Zenon
<1>5. /\ EndIsLast(s, "body", "end", chunks[s], al, toAgent)
      /\ ~sdone[s] => Whole(s, "body", chunks[s], al, toAgent, fed[s], sent[s])
  BY <1>2, ZenonT(60) DEF RequestFlow
<1>6. chunks[s] \in Seq(Kinds) /\ chunks[s] # <<>>
  BY <1>1, <1>2, ZenonT(60)
<1>7. EndIsLast(s, "body", "end", Tail(chunks[s]), al, toAgent)
  BY <1>5, <1>6, ReadKeepsOrder
<1>8. fed[s] \in Nat /\ sent[s] \in Nat
  BY <1>1, ZenonT(30)
<1>9. OnTheWay(s, "end", chunks[s], al, toAgent)
         <=> OnTheWay(s, "end", Tail(chunks[s]), al, toAgent) \/ Head(chunks[s]) = "end"
  BY <1>6, ReadOnTheWay
<1>10. ASSUME ~sdone[s] PROVE Whole(s, "body", Tail(chunks[s]), al, toAgent, fed'[s], sent[s])
  <2>1. /\ Head(chunks[s]) = "body" => Whole(s, "body", Tail(chunks[s]), al, toAgent, fed[s] + 1, sent[s])
        /\ Head(chunks[s]) # "body" => Whole(s, "body", Tail(chunks[s]), al, toAgent, fed[s], sent[s])
    BY <1>5, <1>6, <1>8, <1>10, ReadCarries, Zenon
  <2> QED
    BY <1>4, <2>1, Zenon
<1>11. ASSUME Head(chunks[s]) = "end", ~sdone[s] PROVE fed'[s] = sent[s]
  <2>1. "body" # "end" /\ fed'[s] = fed[s]
    BY <1>4, <1>11, Zenon
  <2>2. fed[s] = sent[s]
    BY <1>5, <1>6, <1>8, <1>11, <2>1, EndIsWhole
  <2> QED
    BY <2>1, <2>2
<1>12. StartIsFirst(s)'
  BY <1>2, Zenon DEF StartIsFirst
<1> QED
  BY <1>2, <1>4, <1>7, <1>9, <1>10, <1>11, <1>12, ZenonT(60) DEF RequestFlow

\* The goroutine of the stream ends and leaves nothing to read.
LEMMA RequestRemoved ==
  ASSUME Goroutines, Typed, NEW s \in Streams, StartIsFirst(s), RequestFlow(s), removeActiveStream(s)
  PROVE  StartIsFirst(s)' /\ RequestFlow(s)'
<1>1. /\ apc[s] = "finish" /\ apc'[s] = "gone" /\ ~actx'[s] /\ chunks'[s] = <<>> /\ ~eof'[s]
      /\ sdone'[s]
      /\ UNCHANGED <<gpc, sent, al, toAgent>>
  BY DEF removeActiveStream, Goroutines, Typed, link, gwStream
<1>2. \A m : ~Has(<<>>, m)
  BY DEF Has
<1>3. Never(<<>>, "end", "body")
  BY DEF Never
<1>4. EndIsLast(s, "body", "end", <<>>, al, toAgent)
  BY <1>2, <1>3, Zenon DEF RequestFlow, EndIsLast
<1>5. OnTheWay(s, "end", <<>>, al, toAgent) => OnTheWay(s, "end", chunks[s], al, toAgent)
  BY <1>2 DEF OnTheWay
<1>6. StartIsFirst(s)'
  BY <1>1, Zenon DEF StartIsFirst
<1> QED
  BY <1>1, <1>4, <1>5, <1>6, Zenon DEF RequestFlow, Working

\* A round trip writes the next message of its request or only moves on.
LEMMA RoundTripRequest ==
  ASSUME Goroutines, Slots, Typed, NEW s \in Streams, StartIsFirst(s), RequestFlow(s),
         NEW r \in Streams, acquireStream(r) \/ RoundTrip(r) \/ writePublicBody(r)
  PROVE  StartIsFirst(s)' /\ RequestFlow(s)'
<1>1. /\ toAgent \in Seq(Messages) /\ gpc \in [Streams -> Places] /\ sent \in [Streams -> Nat]
  BY Zenon DEF Goroutines, Slots, Typed
<1>2. UNCHANGED <<apc, actx, sdone, chunks, eof, fed, al>>
  BY Zenon DEF acquireStream, RoundTrip, writeRequestStart, writeRequestBody, writeRequestEnd,
         readStreamResponse, writePublicBody, cancelStream, streamRoundTripReturns, agent
<1>3. ASSUME NEW w \in Writes, gpc[r] = w[2], Send(M(r, w[1])), gpc' = [gpc EXCEPT ![r] = w[3]],
             sent' = IF w[1] = "body" THEN [sent EXCEPT ![r] = @ + 1] ELSE sent
      PROVE  StartIsFirst(s)' /\ RequestFlow(s)'
  <2>1. toAgent' = Append(toAgent, M(r, w[1]))
    BY <1>3 DEF Send
  <2>2. gpc'[s] = (IF s = r THEN w[3] ELSE gpc[s])
    BY <1>1, <1>3
  <2>3. sent'[s] = sent[s] + (IF s = r /\ w[1] = "body" THEN 1 ELSE 0)
    BY <1>1, <1>3
  <2> QED
    BY <1>1, <1>2, <1>3, <2>1, <2>2, <2>3, RequestWrite
<1>4. ASSUME NEW p \in Places, gpc' = [gpc EXCEPT ![r] = p], UNCHANGED <<toAgent, sent>>,
             p \in {"idle", "start"} => gpc[r] \in {"idle", "start"},
             p \in {"body", "end"} => gpc[r] \in {"body", "end"}
      PROVE  StartIsFirst(s)' /\ RequestFlow(s)'
  <2>1. /\ gpc'[s] \in {"idle", "start"} => gpc[s] \in {"idle", "start"}
        /\ gpc'[s] \in {"body", "end"} => gpc[s] \in {"body", "end"}
    BY <1>1, <1>4
  <2> QED
    BY <1>2, <1>4, <2>1, RequestCalm, Zenon
<1>5. CASE gpc' = gpc /\ UNCHANGED <<toAgent, sent>>
  BY <1>2, <1>5, RequestCalm, Zenon
<1>6. CASE acquireStream(r)
  <2>1. PICK p \in {"over", "start"} : gpc' = [gpc EXCEPT ![r] = p]
    BY <1>6 DEF acquireStream, Ends, Goto
  <2>2. gpc[r] = "idle" /\ UNCHANGED <<toAgent, sent>> /\ p \in Places
    BY <1>6, Zenon DEF acquireStream, link, Places, Acquired
  <2> QED
    BY <1>4, <2>1, <2>2, ZenonT(60)
<1>7. CASE writeRequestStart(r)
  <2>1. CASE Send(M(r, "start"))
    <3> DEFINE w == <<"start", "start", "body">>
    <3>1. w \in Writes /\ gpc[r] = w[2] /\ Send(M(r, w[1])) /\ sent' = sent /\ w[1] # "body"
          /\ gpc' = [gpc EXCEPT ![r] = w[3]]
      BY <1>7, <2>1 DEF writeRequestStart, Goto, Ends, Writes, Send, SendFails, M
    <3> HIDE DEF w
    <3> QED
      BY <1>3, <3>1, Zenon
  <2>2. CASE SendFails(ctx[r]) /\ Ends(r, "return", ErrorOf(r))
    BY <1>4, <1>7, <2>2, ZenonT(30) DEF writeRequestStart, SendFails, Ends, Goto, Places, Acquired
  <2> QED
    BY <1>7, <2>1, <2>2 DEF writeRequestStart, M
<1>8. CASE writeRequestBody(r)
  <2>1. CASE Send(M(r, "body")) /\ sent' = [sent EXCEPT ![r] = @ + 1] /\ gpc' = gpc
    <3> DEFINE w == <<"body", "body", "body">>
    <3>1. w \in Writes /\ gpc[r] = w[2] /\ Send(M(r, w[1])) /\ w[1] = "body"
          /\ sent' = [sent EXCEPT ![r] = @ + 1] /\ gpc' = [gpc EXCEPT ![r] = w[3]]
      BY <1>1, <1>8, <2>1 DEF writeRequestBody, Writes
    <3> HIDE DEF w
    <3> QED
      BY <1>3, <3>1, Zenon
  <2>2. CASE toAgent' = toAgent /\ sent' = sent /\ \E p \in {"end", "cancel"} : gpc' = [gpc EXCEPT ![r] = p]
    BY <1>4, <1>8, <2>2, Zenon DEF writeRequestBody, Places, Acquired
  <2> QED
    BY <1>8, <2>1, <2>2 DEF writeRequestBody, M, Ends, Goto, SendFails, link
<1>9. CASE writeRequestEnd(r)
  <2>1. CASE Send(M(r, "end")) /\ gpc' = [gpc EXCEPT ![r] = "read"]
    <3> DEFINE w == <<"end", "end", "read">>
    <3>1. w \in Writes /\ gpc[r] = w[2] /\ Send(M(r, w[1])) /\ sent' = sent /\ w[1] # "body"
          /\ gpc' = [gpc EXCEPT ![r] = w[3]]
      BY <1>9, <2>1, ZenonT(30) DEF writeRequestEnd, Writes
    <3> HIDE DEF w
    <3> QED
      BY <1>3, <3>1, Zenon
  <2>2. CASE SendFails(ctx[r]) /\ Ends(r, "return", ErrorOf(r))
    BY <1>4, <1>9, <2>2 DEF writeRequestEnd, SendFails, Ends, Goto, Places, Acquired
  <2> QED
    BY <1>9, <2>1, <2>2, ZenonT(30) DEF writeRequestEnd, M, Goto
<1>10. CASE readStreamResponse(r)
  <2>1. gpc[r] = "read" /\ UNCHANGED <<toAgent, sent>>
    BY <1>10 DEF readStreamResponse, link
  <2>2. gpc' = gpc \/ \E p \in {"return", "cancel", "write"} : gpc' = [gpc EXCEPT ![r] = p]
    BY <1>10 DEF readStreamResponse, Ends, Goto
  <2> QED
    BY <1>4, <1>5, <2>1, <2>2 DEF Places, Acquired
<1>11. CASE cancelStream(r)
  <2>1. CASE Send(M(r, "cancel"))
    <3> DEFINE w == <<"cancel", "cancel", "return">>
    <3>1. w \in Writes /\ gpc[r] = w[2] /\ Send(M(r, w[1])) /\ sent' = sent /\ w[1] # "body"
          /\ gpc' = [gpc EXCEPT ![r] = w[3]]
      BY <1>11, <2>1, ZenonT(30) DEF cancelStream, Goto, Writes
    <3> HIDE DEF w
    <3> QED
      BY <1>3, <3>1, Zenon
  <2>2. CASE SendFails(TRUE)
    BY <1>4, <1>11, <2>2 DEF cancelStream, SendFails, Goto, Places, Acquired
  <2> QED
    BY <1>11, <2>1, <2>2, Zenon DEF cancelStream, M
<1>12. CASE streamRoundTripReturns(r)
  BY <1>4, <1>12, Zenon DEF streamRoundTripReturns, Goto, link, Places
<1>13. CASE writePublicBody(r)
  <2>1. \E p \in {"read", "cancel"} : gpc' = [gpc EXCEPT ![r] = p]
    BY <1>13 DEF writePublicBody, Ends, Goto
  <2>2. UNCHANGED <<toAgent, sent>>
    BY <1>13 DEF writePublicBody, link
  <2> QED
    BY <1>4, <2>1, <2>2, ZenonT(30) DEF Places, Acquired
<1> QED
  BY <1>6, <1>7, <1>8, <1>9, <1>10, <1>11, <1>12, <1>13, Zenon DEF RoundTrip

\* A local call that answers or fails leaves the request's way alone.
LEMMA LocalCallRequest ==
  ASSUME Goroutines, Typed, NEW s \in Streams, StartIsFirst(s), RequestFlow(s),
         NEW r \in Streams, LocalCall(r) \/ pumpChunk(r)
  PROVE  StartIsFirst(s)' /\ RequestFlow(s)'
<1>1. UNCHANGED <<gpc, sent, al, toAgent>>
  BY Zenon DEF LocalCall, writeResponseStart, writeResponseBody, writeResponseEnd, localRequestFails,
         writeStreamError, removeActiveStream, pumpChunk, gwStream, link, Reply, ReplyFails
<1>2. /\ apc \in [Streams -> Working \cup {"none", "gone"}] /\ actx \in [Streams -> BOOLEAN]
      /\ chunks \in [Streams -> Seq({"body", "end"})] /\ eof \in [Streams -> BOOLEAN]
      /\ sdone \in [Streams -> BOOLEAN] /\ fed \in [Streams -> Nat]
  BY Zenon DEF Goroutines, Typed
<1>3. CASE removeActiveStream(r)
  <2>1. CASE s = r
    BY <1>3, <2>1, RequestRemoved, ZenonT(60)
  <2>2. CASE s # r
    <3>1. /\ apc'[s] = apc[s] /\ actx'[s] = actx[s] /\ sdone'[s] = sdone[s]
          /\ chunks'[s] = chunks[s] /\ eof'[s] = eof[s] /\ fed'[s] = fed[s]
      BY <1>2, <1>3, <2>2 DEF removeActiveStream
    <3> QED
      BY <1>1, <3>1, RequestCalm, Zenon
  <2> QED
    BY <2>1, <2>2
<1>4. CASE pumpChunk(r)
  <2>1. CASE s = r
    BY <1>4, <2>1, RequestPump, Zenon
  <2>2. CASE s # r
    <3>1. /\ UNCHANGED <<apc, actx, sdone>>
          /\ chunks'[s] = chunks[s] /\ eof'[s] = eof[s] /\ fed'[s] = fed[s]
      BY <1>2, <1>4, <2>2, ZenonT(60) DEF pumpChunk
    <3> QED
      BY <1>1, <3>1, RequestCalm
  <2> QED
    BY <2>1, <2>2
<1>5. CASE \/ writeResponseStart(r) \/ writeResponseBody(r) \/ writeResponseEnd(r)
           \/ localRequestFails(r) \/ writeStreamError(r)
  <2>1. UNCHANGED <<actx, sdone, chunks, eof, fed>>
    BY <1>5, ZenonT(30) DEF writeResponseStart, writeResponseBody, writeResponseEnd, localRequestFails,
                writeStreamError
  <2>2. apc' = apc \/ (apc[r] \in Working /\ \E l \in Working : apc' = [apc EXCEPT ![r] = l])
    BY <1>5 DEF writeResponseStart, writeResponseBody, writeResponseEnd, localRequestFails,
                writeStreamError, FailsTo, Working
  <2>3. apc'[s] = apc[s] \/ (apc[s] \in Working /\ apc'[s] \in Working)
    BY <1>2, <2>2
  <2> QED
    BY <1>1, <2>1, <2>3, RequestCalm, Zenon
<1> QED
  BY <1>3, <1>4, <1>5 DEF LocalCall

\* No step loses a chunk of a request, of this stream or of another.
LEMMA NextKeepsRequest ==
  ASSUME Goroutines, Slots, Typed, NEW s \in Streams, StartIsFirst(s), RequestFlow(s), [Next]_vars
  PROVE  StartIsFirst(s)' /\ RequestFlow(s)'
<1>1. ASSUME NEW r \in Streams, acquireStream(r) \/ RoundTrip(r) \/ writePublicBody(r)
      PROVE  StartIsFirst(s)' /\ RequestFlow(s)'
  BY <1>1, RoundTripRequest
<1>2. ASSUME NEW r \in Streams, LocalCall(r) \/ pumpChunk(r)
      PROVE  StartIsFirst(s)' /\ RequestFlow(s)'
  BY <1>2, LocalCallRequest, Zenon
<1>3. CASE (\E r \in Streams : CtxDone(r)) \/ ReadLoop \/ keepaliveFails \/ ConnLost \/ UNCHANGED vars
  <2>1. UNCHANGED <<gpc, sent, apc, actx, sdone, chunks, eof, fed, al, toAgent>>
    BY <1>3, Zenon DEF CtxDone, ReadLoop, readLoopRead, deliver, readLoopStops, keepaliveFails, ConnLost,
                link, gwStream, agent, vars
  <2> QED
    BY <2>1, RequestCalm, Zenon
<1>4. CASE serveRead
  BY <1>4, RequestRead
<1>5. CASE deliverActiveStreamChunk
  BY <1>5, RequestDeliver
<1>6. CASE serveStops \/ runOnceReturns
  <2>1. UNCHANGED <<gpc, sent, apc, sdone, chunks, eof, fed, toAgent>>
    BY <1>6, ZenonT(30) DEF serveStops, runOnceReturns, link, gwStream
  <2>2. {al, al'} \subseteq {Reading, Stopped, Returned}
    BY <1>6 DEF serveStops, runOnceReturns
  <2>3. actx'[s] => actx[s]
    BY <1>6 DEF serveStops, runOnceReturns
  <2> QED
    BY <2>1, <2>2, <2>3, RequestCalm, Zenon
<1> QED
  BY <1>1, <1>2, <1>3, <1>4, <1>5, <1>6, ZenonT(30) DEF Next, Serve

-------------------------------------------------------------------------------
(* The response *)

Collecting == {"idle", "start", "body", "end", "read", "write"}
Answering == {"none", "call", "resp"}

\* A step that leaves a stream's answers alone; the round trip may stop
\* collecting, the local call may go on or fail, and the session may end.
LEMMA ResponseCalm ==
  ASSUME NEW s \in Streams, ResponseFlow(s),
         ch'[s] = ch[s], toGw' = toGw,
         rl' = rl \/ {rl, rl'} \subseteq {Reading, Stopped},
         done => done',
         gpc'[s] \in Collecting => gpc[s] \in Collecting /\ got'[s] = got[s],
         apc'[s] = "none" => apc[s] = "none",
         apc'[s] \in Answering => apc[s] \in Answering,
         apc[s] \in {"finish", "gone"} => apc'[s] \in {"finish", "gone"},
         made'[s] = made[s] \/ (apc[s] \in Answering /\ apc'[s] \notin Answering)
  PROVE  ResponseFlow(s)'
<1>1. \A m : rl' = Delivering(m) <=> rl = Delivering(m)
  BY MessageParts, Zenon
<1>2. \A m : OnTheWay(s, m, ch'[s], rl', toGw') <=> OnTheWay(s, m, ch[s], rl, toGw)
  BY <1>1 DEF OnTheWay
<1>3. \A a, b : Whole(s, "rbody", ch[s], rl, toGw, a, b) => Whole(s, "rbody", ch'[s], rl', toGw', a, b)
  BY <1>1, Zenon DEF Whole, InHand
<1>4. EndIsLast(s, "rbody", "rend", ch[s], rl, toGw) => EndIsLast(s, "rbody", "rend", ch'[s], rl', toGw')
  BY <1>1 DEF EndIsLast
<1>5. OnTheWay(s, "rend", ch[s], rl, toGw) => apc[s] \notin Answering
  BY Zenon DEF ResponseFlow, Answering
<1> QED
  BY <1>2, <1>3, <1>4, <1>5, Zenon DEF ResponseFlow, Collecting, Answering

\* What the agent writes of a response, at which place, and where it goes on.
Answers == {<<"rstart", "call", "resp">>, <<"rbody", "resp", "resp">>,
            <<"rend", "resp", "finish">>, <<"serr", "err", "finish">>}

\* What is written is a message.
LEMMA AnswersParts ==
  ASSUME NEW w \in Answers, NEW r \in Streams
  PROVE  M(r, w[1]) \in Mail
BY DEF Answers, Mail, Kinds, M

\* A message of the response is written by a local call that has not ended.
LEMMA ResponseWrite ==
  ASSUME Typed, NEW s \in Streams, ResponseFlow(s),
         NEW r \in Streams, NEW w \in Answers, apc[r] = w[2], toGw' = Append(toGw, M(r, w[1])),
         apc'[s] = (IF s = r THEN w[3] ELSE apc[s]),
         made'[s] = made[s] + (IF s = r /\ w[1] = "rbody" THEN 1 ELSE 0),
         UNCHANGED <<gpc, got, ch, rl, done>>
  PROVE  ResponseFlow(s)'
<1> DEFINE x == M(r, w[1])
<1>0. /\ toGw \in Seq(Mail) /\ ch[s] \in Seq(Kinds) /\ got[s] \in Nat /\ made[s] \in Nat
  BY Zenon DEF Typed, Mail, Kinds
<1>1. x \in Mail
  BY AnswersParts, Zenon
<1>2. \A t : x = M(s, t) <=> s = r /\ t = w[1]
  <2> SUFFICES ASSUME NEW t PROVE M(r, w[1]) = M(s, t) <=> s = r /\ t = w[1]
    BY Zenon
  <2> QED
    BY SameMessage
<1>3. \A t : Has(toGw', M(s, t)) <=> Has(toGw, M(s, t)) \/ (s = r /\ t = w[1])
  <2>1. \A t : Has(Append(toGw, M(r, w[1])), M(s, t)) <=> Has(toGw, M(s, t)) \/ (s = r /\ t = w[1])
    BY <1>0, <1>1, QueueWrite, Zenon
  <2> QED
    BY <2>1, Zenon
<1>4. \A t : OnTheWay(s, t, ch[s], rl, toGw')
               <=> OnTheWay(s, t, ch[s], rl, toGw) \/ (s = r /\ t = w[1])
  BY <1>3, Zenon DEF OnTheWay
<1>5. ASSUME Whole(s, "rbody", ch[s], rl, toGw, got[s], made[s])
      PROVE  Whole(s, "rbody", ch[s], rl, toGw', got[s], made'[s])
  <2> HIDE DEF x
  <2>1. /\ x = M(s, "rbody") => Whole(s, "rbody", ch[s], rl, Append(toGw, x), got[s], made[s] + 1)
        /\ x # M(s, "rbody") => Whole(s, "rbody", ch[s], rl, Append(toGw, x), got[s], made[s])
    BY <1>0, <1>1, <1>5, WriteCarries, Zenon
  <2>2. /\ x = M(s, "rbody") => made'[s] = made[s] + 1
        /\ x # M(s, "rbody") => made'[s] = made[s]
    BY <1>0, <1>2
  <2> QED
    BY <2>1, <2>2, Zenon DEF x
<1>11. /\ w[2] \in {"call", "resp", "err"} /\ w[3] \in {"resp", "finish"}
       /\ w[1] = "rend" => w[3] = "finish"
       /\ w[1] = "rbody" => w[2] = "resp"
  BY DEF Answers
<1>6. s = r => apc[s] \notin {"none", "finish", "gone"} /\ ~OnTheWay(s, "rend", ch[s], rl, toGw)
  <2>1. OnTheWay(s, "rend", ch[s], rl, toGw) => apc[s] \in {"finish", "gone"}
    BY Zenon DEF ResponseFlow
  <2>2. w[2] \notin {"none", "finish", "gone"}
    BY <1>11, Zenon
  <2> QED
    BY <2>1, <2>2, Zenon
<1>7. EndIsLast(s, "rbody", "rend", ch[s], rl, toGw')
  <2>1. EndIsLast(s, "rbody", "rend", ch[s], rl, toGw)
    BY Zenon DEF ResponseFlow
  <2>2. x = M(s, "rbody") => ~OnTheWay(s, "rend", ch[s], rl, toGw)
    BY <1>2, <1>6, Zenon
  <2> HIDE DEF x
  <2>3. EndIsLast(s, "rbody", "rend", ch[s], rl, Append(toGw, x))
    BY <1>0, <1>1, <2>1, <2>2, WriteKeepsOrder, Zenon
  <2> QED
    BY <2>3 DEF x
<1>8. OnTheWay(s, "rend", ch[s], rl, toGw') => apc'[s] \in {"finish", "gone"}
  <2>1. OnTheWay(s, "rend", ch[s], rl, toGw) => s # r /\ apc[s] \in {"finish", "gone"}
    BY <1>6, Zenon DEF ResponseFlow
  <2> QED
    BY <1>4, <1>11, <2>1, Zenon
<1>9. apc'[s] = "none" => ~Has(toGw', M(s, "rbody"))
  <2>1. s = r => apc'[s] # "none"
    BY <1>11
  <2>2. s # r => apc'[s] = apc[s]
    OBVIOUS
  <2>3. apc[s] = "none" => ~Has(toGw, M(s, "rbody"))
    BY Zenon DEF ResponseFlow
  <2> QED
    BY <1>3, <2>1, <2>2, <2>3, Zenon
<1>10. ASSUME ~done, gpc[s] \in Collecting,
              apc'[s] \in Answering \/ OnTheWay(s, "rend", ch[s], rl, toGw')
       PROVE  Whole(s, "rbody", ch[s], rl, toGw', got[s], made'[s])
  <2>1. apc[s] \in Answering \/ OnTheWay(s, "rend", ch[s], rl, toGw)
    BY <1>4, <1>10 DEF Answers, Answering
  <2>2. Whole(s, "rbody", ch[s], rl, toGw, got[s], made[s])
    BY <1>10, <2>1, Zenon DEF ResponseFlow, Collecting, Answering
  <2> QED
    BY <1>5, <2>2, Zenon
<1> QED
  BY <1>7, <1>8, <1>9, <1>10, Zenon DEF ResponseFlow, Collecting, Answering

\* readLoop takes a message off the link, and drops it only when its round trip
\* no longer reads.
LEMMA ResponseRead ==
  ASSUME Slots, Typed, NEW s \in Streams, StartIsFirst(s), ResponseFlow(s), readLoopRead
  PROVE  ResponseFlow(s)'
<1>1. PICK m : m = Head(toGw)
  OBVIOUS
<1>2. /\ toGw \in Seq(Mail) /\ ch[s] \in Seq(Kinds) /\ toGw # <<>> /\ toGw' = Tail(toGw)
      /\ rl = Reading /\ UNCHANGED <<gpc, got, ch, done, apc, made>>
      /\ pending = {r \in Streams : gpc[r] \in Acquired}
  BY DEF readLoopRead, Typed, Slots, SlotsMatchRoundTrips, Mail, Kinds, gwStream, agent
<1>3. rl' = IF m.s \in pending THEN Delivering(m) ELSE Reading
  BY <1>1, <1>2, Zenon DEF readLoopRead
<1>4. rl' \in {Reading, Delivering(Head(toGw))}
  BY <1>1, <1>3, Zenon
<1>5. ASSUME rl' = Reading, NEW t, m = M(s, t) PROVE gpc[s] \notin Acquired
  <2>1. m.s = s /\ m.s \notin pending
    BY <1>3, <1>5, MessageParts, Zenon
  <2> QED
    BY <1>2, <2>1, Zenon
<1>12. toGw \in Seq(Mail) /\ ch[s] \in Seq(Kinds)
  BY <1>2
<1>13. toGw # <<>>
  BY <1>2
<1>6. EndIsLast(s, "rbody", "rend", ch[s], rl', Tail(toGw))
  <2>1. EndIsLast(s, "rbody", "rend", ch[s], Reading, toGw)
    BY <1>2, ZenonT(30) DEF ResponseFlow
  <2> QED
    BY <1>4, <1>12, <1>13, <2>1, TakeKeepsOrder, ZenonT(60)
<1>7. OnTheWay(s, "rend", ch[s], rl', Tail(toGw)) => OnTheWay(s, "rend", ch[s], Reading, toGw)
  <2>1. \A x : Has(Tail(toGw), x) => Has(toGw, x)
    BY <1>12, <1>13, QueueTail
  <2>2. \A x : Head(toGw) = x => Has(toGw, x)
    BY <1>12, <1>13, QueueTail
  <2>3. \A x : rl' = Delivering(x) => Head(toGw) = x
    BY <1>4, MessageParts
  <2> QED
    BY <2>1, <2>2, <2>3, Zenon DEF OnTheWay
<1>8. ASSUME rl' # Reading \/ m # M(s, "rbody"), Whole(s, "rbody", ch[s], Reading, toGw, got[s], made[s])
      PROVE  Whole(s, "rbody", ch[s], rl', Tail(toGw), got[s], made[s])
  <2>1. got[s] \in Nat /\ made[s] \in Nat
    BY DEF Typed
  <2> QED
    BY <1>1, <1>4, <1>8, <1>12, <1>13, <2>1, TakeCarries, Zenon
<1>9. \A x : Has(toGw, x) <=> m = x \/ Has(toGw', x)
  BY <1>1, <1>2, QueueTail, Zenon
<1>10. rl' = Reading /\ m = M(s, "rbody") => gpc[s] \notin Collecting
  <2>1. m = M(s, "rbody") => apc[s] # "none" /\ gpc[s] # "idle"
    BY <1>9, Zenon DEF ResponseFlow, StartIsFirst
  <2> QED
    BY <1>5, <2>1 DEF Collecting, Acquired
<1>11. apc[s] = "none" => ~Has(toGw', M(s, "rbody"))
  BY <1>9, Zenon DEF ResponseFlow
<1> QED
  BY <1>2, <1>6, <1>7, <1>8, <1>10, <1>11, Zenon DEF ResponseFlow, Collecting

\* readLoop passes the message on to its stream, or gives it up when the session ends.
LEMMA ResponseDeliver ==
  ASSUME Typed, NEW s \in Streams, ResponseFlow(s), deliver
  PROVE  ResponseFlow(s)'
<1>1. PICK x \in Mail : rl = Delivering(x)
  BY MessageParts, Zenon DEF deliver, Typed, Mail, Kinds
<1>2. rl.m = x /\ rl' = Reading /\ x.s \in Streams /\ x.t \in Kinds /\ x = M(x.s, x.t)
  BY <1>1, MessageParts, Zenon DEF deliver, M, Mail
<1>3. /\ toGw \in Seq(Mail) /\ ch \in [Streams -> Seq(Kinds)]
      /\ UNCHANGED <<gpc, got, done, apc, made, toGw>>
  BY DEF deliver, Typed, Mail, Kinds, link, gwStream, agent
<1>4. EndIsLast(s, "rbody", "rend", ch[s], Delivering(x), toGw)
  BY <1>1, Zenon DEF ResponseFlow
<1>6. x \in Mail /\ toGw \in Seq(Mail) /\ ch[s] \in Seq(Kinds)
  BY <1>3
<1>7. CASE x.s = s /\ ch'[s] = Append(ch[s], x.t)
  <2>1. EndIsLast(s, "rbody", "rend", Append(ch[s], x.t), Reading, toGw)
    BY <1>4, <1>6, <1>7, DeliverKeepsOrder, Zenon
  <2>2. OnTheWay(s, "rend", Append(ch[s], x.t), Reading, toGw)
          <=> OnTheWay(s, "rend", ch[s], Delivering(x), toGw)
    BY <1>6, <1>7, DeliverOnTheWay, Zenon
  <2>3. ASSUME Whole(s, "rbody", ch[s], Delivering(x), toGw, got[s], made[s])
        PROVE  Whole(s, "rbody", Append(ch[s], x.t), Reading, toGw, got[s], made[s])
    <3>1. got[s] \in Nat /\ made[s] \in Nat
      BY Zenon DEF Typed
    <3> QED
      BY <1>6, <1>7, <2>3, <3>1, DeliverCarries, Zenon
  <2> QED
    BY <1>1, <1>2, <1>3, <1>7, <2>1, <2>2, <2>3, Zenon DEF ResponseFlow
<1>8. CASE ch'[s] = ch[s] /\ (x.s # s \/ done)
  <2>1. /\ EndIsLast(s, "rbody", "rend", ch[s], Reading, toGw)
        /\ OnTheWay(s, "rend", ch[s], Reading, toGw)
             => OnTheWay(s, "rend", ch[s], Delivering(x), toGw)
    BY <1>4, DropKeepsOrder, ZenonT(60)
  <2>2. ASSUME x.s # s, Whole(s, "rbody", ch[s], Delivering(x), toGw, got[s], made[s])
        PROVE  Whole(s, "rbody", ch[s], Reading, toGw, got[s], made[s])
    BY <1>6, <2>2, DropCarries, Zenon
  <2> QED
    BY <1>1, <1>2, <1>3, <1>8, <2>1, <2>2, Zenon DEF ResponseFlow
<1>9. \/ ch' = [ch EXCEPT ![x.s] = Append(@, x.t)]
      \/ done /\ ch' = ch
  BY <1>2 DEF deliver
<1> QED
  BY <1>2, <1>3, <1>7, <1>8, <1>9, Zenon

\* The round trip passes a chunk on; when it reads the end, the session being
\* up, it has passed them all on.
LEMMA ResponsePassed ==
  ASSUME Slots, Typed, NEW s \in Streams, ResponseFlow(s), readStreamResponse(s)
  PROVE  /\ ResponseFlow(s)'
         /\ out'[s] = "completed" /\ out[s] # "completed" /\ ~done => got[s] = made[s]
<1>1. /\ toGw \in Seq(Mail) /\ ch \in [Streams -> Seq(Kinds)] /\ ch[s] \in Seq(Kinds)
      /\ got \in [Streams -> Nat] /\ got[s] \in Nat /\ made[s] \in Nat
      /\ gpc \in [Streams -> Places] /\ out \in [Streams -> {"none", "limit", "failed", "canceled", "completed"}]
  BY Zenon DEF Typed, Slots, Mail, Kinds
<1>2. gpc[s] = "read" /\ UNCHANGED <<toGw, rl, done, apc, made>>
  BY Zenon DEF readStreamResponse, link, agent
<1>3. CASE /\ Ends(s, "cancel", "canceled") \/ Ends(s, "cancel", "failed")
           /\ UNCHANGED <<ch, got>>
  <2>1. gpc'[s] = "cancel" /\ out'[s] # "completed"
    BY <1>1, <1>3 DEF Ends, Goto
  <2> QED
    BY <1>2, <1>3, <2>1, ResponseCalm DEF Collecting
<1>4. CASE ch[s] # <<>> /\ ch' = [ch EXCEPT ![s] = Tail(@)]
  <2>1. ch'[s] = Tail(ch[s]) /\ "rbody" # "rend"
    BY <1>1, <1>4
  <2>2. EndIsLast(s, "rbody", "rend", ch[s], rl, toGw)
    BY ZenonT(60) DEF ResponseFlow
  <2>3. /\ EndIsLast(s, "rbody", "rend", Tail(ch[s]), rl, toGw)
        /\ OnTheWay(s, "rend", ch[s], rl, toGw)
             <=> OnTheWay(s, "rend", Tail(ch[s]), rl, toGw) \/ Head(ch[s]) = "rend"
    <3>1. ch[s] \in Seq(Kinds) /\ ch[s] # <<>>
      BY <1>1, <1>4, Zenon
    <3>2. EndIsLast(s, "rbody", "rend", Tail(ch[s]), rl, toGw)
      BY <2>2, <3>1, ReadKeepsOrder
    <3>3. OnTheWay(s, "rend", ch[s], rl, toGw)
            <=> OnTheWay(s, "rend", Tail(ch[s]), rl, toGw) \/ Head(ch[s]) = "rend"
      BY <3>1, ReadOnTheWay, Zenon
    <3> QED
      BY <3>2, <3>3
  <2>5. ASSUME gpc'[s] \notin Collecting PROVE ResponseFlow(s)'
    BY <1>2, <2>1, <2>3, <2>5, Zenon DEF ResponseFlow, Collecting
  <2>6. ASSUME gpc'[s] \in Collecting, got'[s] = got[s] + (IF Head(ch[s]) = "rbody" THEN 1 ELSE 0)
        PROVE  ResponseFlow(s)'
    <3>1. ASSUME Whole(s, "rbody", ch[s], rl, toGw, got[s], made[s])
          PROVE  Whole(s, "rbody", Tail(ch[s]), rl, toGw, got'[s], made[s])
      <4>1. ch[s] \in Seq(Kinds) /\ ch[s] # <<>> /\ got[s] \in Nat /\ made[s] \in Nat
        BY <1>1, <1>4
      <4>2. /\ Head(ch[s]) = "rbody" => Whole(s, "rbody", Tail(ch[s]), rl, toGw, got[s] + 1, made[s])
            /\ Head(ch[s]) # "rbody" => Whole(s, "rbody", Tail(ch[s]), rl, toGw, got[s], made[s])
        BY <3>1, <4>1, ReadCarries, Zenon
      <4>3. /\ Head(ch[s]) = "rbody" => got'[s] = got[s] + 1
            /\ Head(ch[s]) # "rbody" => got'[s] = got[s]
        BY <2>6, <4>1
      <4> QED
        BY <4>2, <4>3, Zenon
    <3> QED
      BY <1>2, <2>1, <2>3, <2>6, <3>1, Zenon DEF ResponseFlow, Collecting
  <2>7. ASSUME Ends(s, "cancel", "canceled") \/ Ends(s, "cancel", "failed")
        PROVE  gpc'[s] \notin Collecting /\ out'[s] # "completed"
    BY <1>1, <2>7, ZenonT(30) DEF Ends, Goto, Collecting
  <2>9. CASE Head(ch[s]) = "rstart" /\ UNCHANGED <<gpc, out, got>>
    BY <1>1, <1>2, <2>6, <2>9 DEF Collecting
  <2>10. CASE Head(ch[s]) = "rbody" /\ Goto(s, "write") /\ got' = [got EXCEPT ![s] = @ + 1] /\ UNCHANGED out
    <3>1. gpc'[s] = "write" /\ got'[s] = got[s] + 1
      BY <1>1, <2>10 DEF Goto
    <3> QED
      BY <2>6, <2>10, <3>1, Zenon DEF Collecting
  <2>11. CASE Ends(s, "cancel", "failed")
    BY <2>5, <2>7, <2>11, Zenon
  <2>12. CASE Head(ch[s]) = "rend" /\ Ends(s, "return", "completed") /\ UNCHANGED got
    <3>1. gpc'[s] \notin Collecting
      BY <1>1, <2>12, ZenonT(60) DEF Ends, Goto, Collecting
    <3>2. ASSUME ~done PROVE got[s] = made[s]
      <4>1. ch[s] \in Seq(Kinds) /\ ch[s] # <<>> /\ got[s] \in Nat /\ made[s] \in Nat
        BY <1>1, <1>4
      <4>2. OnTheWay(s, "rend", ch[s], rl, toGw)
        BY <2>3, <2>12
      <4>3. Whole(s, "rbody", ch[s], rl, toGw, got[s], made[s])
        BY <1>2, <3>2, <4>2, Zenon DEF ResponseFlow
      <4>4. "rbody" # "rend" /\ Head(ch[s]) = "rend"
        BY <2>1, <2>12, Zenon
      <4> QED
        BY <2>2, <4>1, <4>3, <4>4, EndIsWhole
    <3> QED
      BY <2>5, <3>1, <3>2
  <2>13. \/ Head(ch[s]) = "rstart" /\ UNCHANGED <<gpc, out, got>>
         \/ Head(ch[s]) = "rbody" /\ Goto(s, "write") /\ got' = [got EXCEPT ![s] = @ + 1] /\ UNCHANGED out
         \/ Ends(s, "cancel", "failed") \/ Ends(s, "cancel", "canceled")
         \/ Head(ch[s]) = "rend" /\ Ends(s, "return", "completed") /\ UNCHANGED got
    <3>1. CASE Head(ch[s]) = "rstart"
      BY <3>1 DEF readStreamResponse
    <3>2. CASE Head(ch[s]) = "rbody" /\ started[s]
      BY <3>2 DEF readStreamResponse
    <3>3. CASE Head(ch[s]) = "rend"
      BY <3>3 DEF readStreamResponse
    <3>4. CASE Head(ch[s]) \notin {"rstart", "rend"} /\ ~(Head(ch[s]) = "rbody" /\ started[s])
      BY <3>4 DEF readStreamResponse
    <3> QED
      BY <3>1, <3>2, <3>3, <3>4
  <2>14. CASE Ends(s, "cancel", "canceled")
    BY <2>5, <2>7, <2>14, Zenon
  <2> QED
    BY <2>9, <2>10, <2>11, <2>12, <2>13, <2>14, Zenon
<1> QED
  BY <1>3, <1>4 DEF readStreamResponse

\* The steps of the gateway's round trips.
LEMMA RoundTripResponse ==
  ASSUME Slots, Typed, NEW s \in Streams, ResponseFlow(s),
         NEW r \in Streams, acquireStream(r) \/ RoundTrip(r) \/ writePublicBody(r)
  PROVE  ResponseFlow(s)'
<1>1. /\ gpc \in [Streams -> Places] /\ got \in [Streams -> Nat] /\ ch \in [Streams -> Seq(Kinds)]
  BY Zenon DEF Slots, Typed, Kinds
<1>2. CASE readStreamResponse(r)
  <2>1. CASE s = r
    BY <1>2, <2>1, ResponsePassed, Zenon
  <2>2. CASE s # r
    <3>1. UNCHANGED <<toGw, rl, done, apc, made>>
      BY <1>2 DEF readStreamResponse, link, agent
    <3>2. /\ gpc' = gpc \/ \E l : gpc' = [gpc EXCEPT ![r] = l]
          /\ got' = got \/ \E l : got' = [got EXCEPT ![r] = l]
          /\ ch' = ch \/ ch' = [ch EXCEPT ![r] = Tail(@)]
      BY <1>2, Zenon DEF readStreamResponse, Ends, Goto
    <3>3. gpc'[s] = gpc[s] /\ got'[s] = got[s] /\ ch'[s] = ch[s]
      BY <1>1, <2>2, <3>2, ZenonT(30)
    <3> QED
      BY <3>1, <3>3, ResponseCalm
  <2> QED
    BY <2>1, <2>2
<1>3. CASE ~readStreamResponse(r)
  <2>1. UNCHANGED <<toGw, rl, done, apc, made, ch>>
    BY <1>3, Zenon DEF acquireStream, RoundTrip, writeRequestStart, writeRequestBody, writeRequestEnd,
                writePublicBody, cancelStream, streamRoundTripReturns, Send, SendFails, link, gwSession, agent
  <2>2. \/ gpc' = gpc /\ got' = got
        \/ /\ gpc[r] \in Collecting /\ got' = got
           /\ \E l \in Places : gpc' = [gpc EXCEPT ![r] = l]
        \/ /\ \E l \in {"return", "over"} : gpc' = [gpc EXCEPT ![r] = l]
           /\ got' = got \/ got' = [got EXCEPT ![r] = 0]
    BY <1>3, Zenon DEF acquireStream, RoundTrip, writeRequestStart, writeRequestBody, writeRequestEnd,
                writePublicBody, cancelStream, streamRoundTripReturns, Ends, Goto, Collecting, Places, Acquired
  <2>3. gpc'[s] \in Collecting => gpc[s] \in Collecting /\ got'[s] = got[s]
    BY <1>1, <2>2 DEF Collecting
  <2> QED
    BY <2>1, <2>3, ResponseCalm
<1> QED
  BY <1>2, <1>3

\* The steps of the agent's local calls.
LEMMA LocalCallResponse ==
  ASSUME Goroutines, Typed, NEW s \in Streams, ResponseFlow(s), NEW r \in Streams, LocalCall(r)
  PROVE  ResponseFlow(s)'
<1>1. apc \in [Streams -> Working \cup {"none", "gone"}] /\ made \in [Streams -> Nat]
  BY Zenon DEF Goroutines, Typed
<1>2. UNCHANGED <<gpc, got, ch, rl, done>>
  BY Zenon DEF LocalCall, writeResponseStart, writeResponseBody, writeResponseEnd, localRequestFails,
         writeStreamError, removeActiveStream, gwStream, gwSession
<1>3. ASSUME NEW w \in Answers, apc[r] = w[2], Reply(M(r, w[1])), apc' = [apc EXCEPT ![r] = w[3]],
             made' = IF w[1] = "rbody" THEN [made EXCEPT ![r] = @ + 1] ELSE made
      PROVE  ResponseFlow(s)'
  <2>1. toGw' = Append(toGw, M(r, w[1]))
    BY <1>3 DEF Reply
  <2>2. apc'[s] = (IF s = r THEN w[3] ELSE apc[s])
    BY <1>1, <1>3
  <2>3. made'[s] = made[s] + (IF s = r /\ w[1] = "rbody" THEN 1 ELSE 0)
    BY <1>1, <1>3
  <2> QED
    BY <1>2, <1>3, <2>1, <2>2, <2>3, ResponseWrite
<1>4. ASSUME NEW l \in {"err", "finish", "gone"}, apc' = [apc EXCEPT ![r] = l], toGw' = toGw,
             apc[r] \in {"finish", "gone"} => l \in {"finish", "gone"},
             made' = made \/ (apc[r] \in Answering /\ \E n : made' = [made EXCEPT ![r] = n])
      PROVE  ResponseFlow(s)'
  <2>1. /\ apc'[s] = "none" => apc[s] = "none"
        /\ apc'[s] \in Answering => apc[s] \in Answering
        /\ apc[s] \in {"finish", "gone"} => apc'[s] \in {"finish", "gone"}
        /\ made'[s] = made[s] \/ (apc[s] \in Answering /\ apc'[s] \notin Answering)
    BY <1>1, <1>4 DEF Answering
  <2> QED
    BY <1>2, <1>4, <2>1, ResponseCalm, Zenon
<1>5. \A live : ReplyFails(live) => toGw' = toGw
  BY DEF ReplyFails
<1>6. FailsTo(r) => \E l \in {"err", "finish"} : apc' = [apc EXCEPT ![r] = l]
  BY Zenon DEF FailsTo
<1>7. CASE writeResponseStart(r)
  <2>1. CASE Reply(M(r, "rstart")) /\ apc' = [apc EXCEPT ![r] = "resp"]
    <3> DEFINE w == <<"rstart", "call", "resp">>
    <3>1. w \in Answers /\ apc[r] = w[2] /\ Reply(M(r, w[1])) /\ made' = made /\ w[1] # "rbody"
          /\ apc' = [apc EXCEPT ![r] = w[3]]
      BY <1>7, <2>1, ZenonT(30) DEF writeResponseStart, Answers
    <3> HIDE DEF w
    <3> QED
      BY <1>3, <3>1, Zenon
  <2>2. CASE ReplyFails(actx[r]) /\ FailsTo(r)
    BY <1>4, <1>5, <1>6, <1>7, <2>2 DEF writeResponseStart
  <2> QED
    BY <1>7, <2>1, <2>2 DEF writeResponseStart, M
<1>8. CASE writeResponseBody(r)
  <2>1. CASE Reply(M(r, "rbody")) /\ apc' = apc
    <3> DEFINE w == <<"rbody", "resp", "resp">>
    <3>1. w \in Answers /\ apc[r] = w[2] /\ Reply(M(r, w[1])) /\ w[1] = "rbody"
          /\ made' = [made EXCEPT ![r] = @ + 1] /\ apc' = [apc EXCEPT ![r] = w[3]]
      BY <1>1, <1>8, <2>1 DEF writeResponseBody, Answers
    <3> HIDE DEF w
    <3> QED
      BY <1>3, <3>1, Zenon
  <2>2. CASE ReplyFails(actx[r]) /\ FailsTo(r)
    <3>1. apc[r] = "resp" /\ made' = [made EXCEPT ![r] = made[r] + 1]
      BY <1>8 DEF writeResponseBody
    <3> QED
      BY <1>4, <1>5, <1>6, <2>2, <3>1, Zenon DEF Answering
  <2> QED
    BY <1>8, <2>1, <2>2, Zenon DEF writeResponseBody, M
<1>9. CASE writeResponseEnd(r)
  <2>1. CASE Reply(M(r, "rend"))
    <3> DEFINE w == <<"rend", "resp", "finish">>
    <3>1. w \in Answers /\ apc[r] = w[2] /\ Reply(M(r, w[1])) /\ made' = made /\ w[1] # "rbody"
          /\ apc' = [apc EXCEPT ![r] = w[3]]
      BY <1>9, <2>1, ZenonT(30) DEF writeResponseEnd, Answers
    <3> HIDE DEF w
    <3> QED
      BY <1>3, <3>1, Zenon
  <2>2. CASE ReplyFails(actx[r])
    BY <1>4, <1>5, <1>9, <2>2 DEF writeResponseEnd
  <2> QED
    BY <1>9, <2>1, <2>2, Zenon DEF writeResponseEnd, M
<1>10. CASE localRequestFails(r)
  BY <1>4, <1>6, <1>10, ZenonT(30) DEF localRequestFails, link
<1>11. CASE writeStreamError(r)
  <2>1. CASE Reply(M(r, "serr"))
    <3> DEFINE w == <<"serr", "err", "finish">>
    <3>1. w \in Answers /\ apc[r] = w[2] /\ Reply(M(r, w[1])) /\ made' = made /\ w[1] # "rbody"
          /\ apc' = [apc EXCEPT ![r] = w[3]]
      BY <1>11, <2>1, ZenonT(30) DEF writeStreamError, Answers
    <3> HIDE DEF w
    <3> QED
      BY <1>3, <3>1, Zenon
  <2>2. CASE ReplyFails(actx[r])
    BY <1>4, <1>5, <1>11, <2>2, ZenonT(30) DEF writeStreamError
  <2> QED
    BY <1>11, <2>1, <2>2, ZenonT(30) DEF writeStreamError, M
<1>12. CASE removeActiveStream(r)
  BY <1>4, <1>12 DEF removeActiveStream, link
<1> QED
  BY <1>7, <1>8, <1>9, <1>10, <1>11, <1>12 DEF LocalCall

\* No step loses a chunk of a response while the session is up.
LEMMA NextKeepsResponse ==
  ASSUME Goroutines, Slots, Typed, NEW s \in Streams, StartIsFirst(s), ResponseFlow(s), [Next]_vars
  PROVE  ResponseFlow(s)'
<1>1. ASSUME NEW r \in Streams, acquireStream(r) \/ RoundTrip(r) \/ writePublicBody(r) PROVE ResponseFlow(s)'
  BY <1>1, RoundTripResponse
<1>2. ASSUME NEW r \in Streams, LocalCall(r) PROVE ResponseFlow(s)'
  BY <1>2, LocalCallResponse, ZenonT(30)
<1>3. CASE \/ \E r \in Streams : CtxDone(r) \/ pumpChunk(r)
           \/ ConnLost \/ deliverActiveStreamChunk \/ serveStops \/ runOnceReturns \/ UNCHANGED vars
  <2>1. UNCHANGED <<gpc, got, ch, rl, done, toGw, apc, made>>
    BY <1>3, Zenon DEF CtxDone, pumpChunk, ConnLost, deliverActiveStreamChunk, serveStops, runOnceReturns,
                link, gwStream, gwSession, agent, vars
  <2> QED
    BY <2>1, ResponseCalm, Zenon
<1>4. CASE readLoopRead
  BY <1>4, ResponseRead
<1>5. CASE deliver
  BY <1>5, ResponseDeliver
<1>6. CASE readLoopStops \/ keepaliveFails
  <2>1. UNCHANGED <<gpc, got, ch, toGw, apc, made>> /\ done'
        /\ (rl' = rl \/ {rl, rl'} \subseteq {Reading, Stopped})
    BY <1>6 DEF readLoopStops, keepaliveFails, link, gwStream, agent
  <2> QED
    BY <2>1, ResponseCalm, Zenon
<1>7. CASE serveRead
  <2>1. UNCHANGED <<gpc, got, ch, rl, done, toGw, made>> /\ toAgent \in Seq(Messages) /\ toAgent # <<>>
    BY <1>7, Zenon DEF serveRead, gwStream, gwSession, Goroutines
  <2>2. Head(toAgent) \in Messages /\ (Has(toAgent, M(s, "start")) <=> Head(toAgent) = M(s, "start")
                                                       \/ Has(Tail(toAgent), M(s, "start")))
    BY <2>1, QueueTail
  <2>3. apc'[s] = apc[s] \/ (apc[s] = "none" /\ apc'[s] = "call")
    <3>1. CASE Head(toAgent).t = "start"
      <4>1. apc' = [apc EXCEPT ![Head(toAgent).s] = "call"] /\ apc \in [Streams -> Working \cup {"none", "gone"}]
        BY <1>7, <3>1, ZenonT(60) DEF serveRead, Goroutines
      <4>2. Head(toAgent).s = s => apc[s] = "none"
        BY <2>2, <3>1 DEF StartIsFirst, Messages, M
      <4> QED
        BY <4>1, <4>2
    <3>2. CASE Head(toAgent).t # "start"
      BY <1>7, <3>2, Zenon DEF serveRead
    <3> QED
      BY <3>1, <3>2
  <2> QED
    BY <2>1, <2>3, ResponseCalm, Zenon DEF Answering
<1> QED
  BY <1>1, <1>2, <1>3, <1>4, <1>5, <1>6, <1>7 DEF Next, ReadLoop, Serve

-------------------------------------------------------------------------------
(* The types *)

GatewayTyped ==
  /\ sent \in [Streams -> Nat] /\ got \in [Streams -> Nat]
  /\ out \in [Streams -> {"none", "limit", "failed", "canceled", "completed"}]
  /\ ch \in [Streams -> Seq(Kinds)]
  /\ rl \in {Reading, Stopped} \cup {Delivering(m) : m \in Mail}

AgentTyped ==
  /\ fed \in [Streams -> Nat] /\ made \in [Streams -> Nat]
  /\ eof \in [Streams -> BOOLEAN] /\ sdone \in [Streams -> BOOLEAN] /\ actx \in [Streams -> BOOLEAN]
  /\ chunks \in [Streams -> Seq({"body", "end"})]
  /\ al \in {Reading, Stopped, Returned} \cup {Delivering(m) : m \in [s : Streams, t : {"body", "end"}]}

\* Typed is the gateway's and the agent's part and the link between them.
LEMMA TypedParts == Typed <=> GatewayTyped /\ AgentTyped /\ toGw \in Seq(Mail)
BY Zenon DEF Typed, GatewayTyped, AgentTyped, Mail, Kinds

\* Setting the entry of one stream.
LEMMA PutTyped ==
  ASSUME NEW S, NEW f \in [Streams -> S], NEW s, NEW v \in S
  PROVE  [f EXCEPT ![s] = v] \in [Streams -> S]
BY Zenon

\* The gateway's steps keep its types.
LEMMA NextKeepsGatewayTyped ==
  ASSUME GatewayTyped, toGw \in Seq(Mail), [Next]_vars
  PROVE  GatewayTyped'
<1>1. ASSUME NEW s \in Streams, acquireStream(s) PROVE GatewayTyped'
  BY <1>1, Zenon DEF acquireStream, Ends, GatewayTyped
<1>2. ASSUME NEW s \in Streams,
             writeRequestStart(s) \/ writeRequestEnd(s) \/ writePublicBody(s) \/ cancelStream(s)
      PROVE  GatewayTyped'
  BY <1>2, ZenonT(60) DEF writeRequestStart, writeRequestEnd, writePublicBody, cancelStream, Ends, ErrorOf, GatewayTyped, gwSession
<1>3. ASSUME NEW s \in Streams, writeRequestBody(s) PROVE GatewayTyped'
  <2>1. UNCHANGED <<got, ch, rl>>
    BY <1>3, Zenon DEF writeRequestBody, gwSession
  <2>2. sent' = sent \/ sent' = [sent EXCEPT ![s] = @ + 1]
    BY <1>3, Zenon DEF writeRequestBody
  <2>3. out' = out \/ \E o \in {"canceled", "failed"} : out' = [out EXCEPT ![s] = o]
    BY <1>3, Zenon DEF writeRequestBody, Ends, ErrorOf
  <2>4. sent' \in [Streams -> Nat]
    BY <2>2 DEF GatewayTyped
  <2>5. out' \in [Streams -> {"none", "limit", "failed", "canceled", "completed"}]
    BY <2>3, Zenon DEF GatewayTyped
  <2> QED
    BY <2>1, <2>4, <2>5, Zenon DEF GatewayTyped
<1>4. ASSUME NEW s \in Streams, readStreamResponse(s) PROVE GatewayTyped'
  <2>1. UNCHANGED <<sent, rl>>
    BY <1>4 DEF readStreamResponse
  <2>2. out' = out \/ \E o \in {"canceled", "failed", "completed"} : out' = [out EXCEPT ![s] = o]
    BY <1>4 DEF readStreamResponse, Ends
  <2>3. got' = got \/ got' = [got EXCEPT ![s] = @ + 1]
    BY <1>4 DEF readStreamResponse
  <2>4. ch' = ch \/ (ch[s] # <<>> /\ ch' = [ch EXCEPT ![s] = Tail(@)])
    BY <1>4 DEF readStreamResponse
  <2>5. ch' \in [Streams -> Seq(Kinds)]
    <3>1. CASE ch[s] # <<>> /\ ch' = [ch EXCEPT ![s] = Tail(ch[s])]
      <4>1. ch \in [Streams -> Seq(Kinds)] /\ ch[s] \in Seq(Kinds)
        BY DEF GatewayTyped
      <4>2. Tail(ch[s]) \in Seq(Kinds)
        BY <3>1, <4>1
      <4> QED
        BY <3>1, <4>1, <4>2, PutTyped, Zenon
    <3> QED
      BY <2>4, <3>1 DEF GatewayTyped
  <2>6. got' \in [Streams -> Nat]
    <3>1. got \in [Streams -> Nat] /\ got[s] + 1 \in Nat
      BY DEF GatewayTyped
    <3>2. [got EXCEPT ![s] = got[s] + 1] \in [Streams -> Nat]
      BY <3>1
    <3> QED
      BY <2>3, <3>1, <3>2
  <2>7. out' \in [Streams -> {"none", "limit", "failed", "canceled", "completed"}]
    BY <2>2, Zenon DEF GatewayTyped
  <2> QED
    BY <2>1, <2>5, <2>6, <2>7 DEF GatewayTyped
<1>5. ASSUME NEW s \in Streams, streamRoundTripReturns(s) PROVE GatewayTyped'
  BY <1>5 DEF streamRoundTripReturns, GatewayTyped
<1>6. ASSUME NEW s \in Streams, CtxDone(s) \/ pumpChunk(s) \/ LocalCall(s) PROVE GatewayTyped'
  BY <1>6, Zenon DEF CtxDone, pumpChunk, LocalCall, writeResponseStart, writeResponseBody, writeResponseEnd,
              localRequestFails, writeStreamError, removeActiveStream, GatewayTyped, gwStream, gwSession
<1>7. CASE readLoopRead
  <2>1. UNCHANGED <<sent, got, out, ch>> /\ Head(toGw) \in Mail
        /\ (rl' = rl \/ rl' = Delivering(Head(toGw)))
    BY <1>7 DEF readLoopRead, gwStream
  <2> QED
    BY <2>1 DEF GatewayTyped
<1>8. CASE deliver
  <2>1. PICK x \in Mail : rl = Delivering(x)
    BY <1>8, MessageParts DEF deliver, GatewayTyped
  <2>2. rl.m = x /\ x.s \in Streams /\ x.t \in Kinds
    BY <2>1, MessageParts, Zenon DEF Mail
  <2>3. UNCHANGED <<sent, got, out>> /\ rl' = Reading
        /\ (ch' = ch \/ ch' = [ch EXCEPT ![x.s] = Append(@, x.t)])
    BY <1>8, <2>2 DEF deliver, gwStream
  <2>4. ch' \in [Streams -> Seq(Kinds)]
    <3>1. CASE ch' = [ch EXCEPT ![x.s] = Append(ch[x.s], x.t)]
      <4>1. ch \in [Streams -> Seq(Kinds)] /\ ch[x.s] \in Seq(Kinds)
        BY <2>2 DEF GatewayTyped
      <4>2. Append(ch[x.s], x.t) \in Seq(Kinds)
        BY <2>2, <4>1, QueueAppend, Zenon
      <4> QED
        BY <3>1, <4>1, <4>2, PutTyped, Zenon
    <3> QED
      BY <2>3, <3>1 DEF GatewayTyped
  <2> QED
    BY <2>3, <2>4, Zenon DEF GatewayTyped
<1>9. CASE readLoopStops \/ keepaliveFails \/ ConnLost \/ UNCHANGED vars
  BY <1>9 DEF readLoopStops, keepaliveFails, ConnLost, GatewayTyped, gwStream, gwSession, vars
<1>10. CASE Serve
  BY <1>10, Zenon DEF Serve, serveRead, deliverActiveStreamChunk, serveStops, runOnceReturns, GatewayTyped,
               gwStream, gwSession
<1> QED
  BY <1>1, <1>2, <1>3, <1>4, <1>5, <1>6, <1>7, <1>8, <1>9, <1>10 DEF Next, RoundTrip, ReadLoop

\* The agent's steps keep its types.
LEMMA NextKeepsAgentTyped ==
  ASSUME Goroutines, AgentTyped, toGw \in Seq(Mail), [Next]_vars
  PROVE  AgentTyped' /\ toGw' \in Seq(Mail)
<1>1. ASSUME NEW s \in Streams, acquireStream(s) \/ RoundTrip(s) \/ writePublicBody(s) \/ CtxDone(s)
      PROVE  AgentTyped' /\ toGw' = toGw
  <2>1. UNCHANGED agent /\ toGw' = toGw
    BY <1>1, Zenon DEF acquireStream, RoundTrip, writeRequestStart, writeRequestBody, writeRequestEnd,
                readStreamResponse, writePublicBody, cancelStream, streamRoundTripReturns, CtxDone, Send,
                SendFails, link
  <2> QED
    BY <2>1 DEF AgentTyped, agent
<1>2. ASSUME NEW s \in Streams, pumpChunk(s) PROVE AgentTyped' /\ toGw' = toGw
  <2>1. chunks' \in [Streams -> Seq({"body", "end"})]
    BY <1>2 DEF pumpChunk, AgentTyped
  <2>2. CASE Head(chunks[s]) = "end"
    BY <1>2, <2>1, <2>2, Zenon DEF pumpChunk, AgentTyped, link
  <2>3. CASE Head(chunks[s]) # "end"
    <3>1. /\ fed' = [fed EXCEPT ![s] = @ + 1] /\ fed \in [Streams -> Nat]
          /\ UNCHANGED <<toGw, made, eof, sdone, actx, al>>
      BY <1>2, <2>3, Zenon DEF pumpChunk, AgentTyped, link
    <3>2. fed' \in [Streams -> Nat]
      BY <3>1
    <3> QED
      BY <2>1, <3>1, <3>2, Zenon DEF AgentTyped
  <2> QED
    BY <2>2, <2>3
<1>3. ASSUME NEW s \in Streams, LocalCall(s) PROVE AgentTyped' /\ toGw' \in Seq(Mail)
  <2>1. AgentTyped'
    <3>1. CASE removeActiveStream(s)
      BY <1>3, <3>1 DEF removeActiveStream, AgentTyped
    <3>2. CASE ~removeActiveStream(s)
      <4>1. UNCHANGED <<fed, eof, sdone, actx, chunks, al>> /\ (made' = made \/ made' = [made EXCEPT ![s] = @ + 1])
        BY <1>3, <3>2, Zenon DEF LocalCall, writeResponseStart, writeResponseBody, writeResponseEnd,
                          localRequestFails, writeStreamError
      <4>2. made \in [Streams -> Nat] /\ made[s] + 1 \in Nat
        BY DEF AgentTyped
      <4>3. [made EXCEPT ![s] = made[s] + 1] \in [Streams -> Nat]
        BY <4>2
      <4>4. made' \in [Streams -> Nat]
        BY <4>1, <4>2, <4>3
      <4> QED
        BY <4>1, <4>4 DEF AgentTyped
    <3> QED
      BY <3>1, <3>2
  <2>2. toGw' = toGw \/ \E t \in Kinds : toGw' = Append(toGw, [s |-> s, t |-> t])
    BY <1>3, Zenon DEF LocalCall, writeResponseStart, writeResponseBody, writeResponseEnd, localRequestFails,
                writeStreamError, removeActiveStream, Reply, ReplyFails, link, Kinds
  <2>3. \A t \in Kinds : [s |-> s, t |-> t] \in Mail
    BY DEF Mail
  <2>4. \A x \in Mail : Append(toGw, x) \in Seq(Mail)
    OBVIOUS
  <2>5. toGw' \in Seq(Mail)
    BY <2>2, <2>3, <2>4, Zenon
  <2> QED
    BY <2>1, <2>5
<1>4. CASE ReadLoop \/ keepaliveFails \/ ConnLost \/ UNCHANGED vars
  <2>1. UNCHANGED agent /\ (toGw' = toGw \/ (toGw # <<>> /\ toGw' = Tail(toGw)))
    BY <1>4 DEF ReadLoop, readLoopRead, deliver, readLoopStops, keepaliveFails, ConnLost, link, vars
  <2>2. AgentTyped'
    BY <2>1 DEF AgentTyped, agent
  <2>3. toGw # <<>> => Tail(toGw) \in Seq(Mail)
    BY QueueTail, Zenon
  <2> QED
    BY <2>1, <2>2, <2>3, ZenonT(60)
<1>5. CASE serveRead
  <2>1. PICK m \in Messages : m = Head(toAgent)
    BY <1>5, QueueTail, Zenon DEF serveRead, Goroutines
  <2>2. m.s \in Streams /\ UNCHANGED <<chunks, fed, eof, made, toGw>>
    BY <1>5, <2>1 DEF serveRead, Messages
  <2>3. CASE m.t = "start"
    BY <1>5, <2>1, <2>2, <2>3, Zenon DEF serveRead, AgentTyped
  <2>4. CASE m.t \in {"body", "end"} /\ UNCHANGED <<actx, sdone>> /\ (al' = al \/ al' = Delivering(m))
    <3>1. m \in [s : Streams, t : {"body", "end"}]
      BY <2>4, Zenon DEF Messages
    <3> QED
      BY <2>2, <2>4, <3>1 DEF AgentTyped
  <2>5. CASE /\ actx' = [actx EXCEPT ![m.s] = @ /\ m.s \notin active]
             /\ sdone' = [sdone EXCEPT ![m.s] = @ \/ m.s \in active]
             /\ al' = al
    <3>2. actx' \in [Streams -> BOOLEAN]
      BY <2>5, Zenon DEF AgentTyped
    <3>3. sdone' \in [Streams -> BOOLEAN]
      BY <2>5, Zenon DEF AgentTyped
    <3> QED
      BY <2>2, <2>5, <3>2, <3>3 DEF AgentTyped
  <2> QED
    BY <1>5, <2>1, <2>2, <2>3, <2>4, <2>5, Zenon DEF serveRead
<1>6. CASE deliverActiveStreamChunk
  <2>1. PICK x \in [s : Streams, t : {"body", "end"}] : al = Delivering(x)
    BY <1>6, MessageParts DEF deliverActiveStreamChunk, AgentTyped
  <2>2. al.m = x /\ x.s \in Streams /\ x.t \in {"body", "end"}
    BY <2>1, MessageParts, Zenon
  <2>3. UNCHANGED <<fed, made, eof, sdone, actx, toGw>> /\ al' = Reading
        /\ (chunks' = chunks \/ chunks' = [chunks EXCEPT ![x.s] = Append(@, x.t)])
    BY <1>6, <2>2, Zenon DEF deliverActiveStreamChunk, link
  <2>4. chunks' \in [Streams -> Seq({"body", "end"})]
    <3>1. CASE chunks' = [chunks EXCEPT ![x.s] = Append(chunks[x.s], x.t)]
      <4>1. chunks \in [Streams -> Seq({"body", "end"})] /\ chunks[x.s] \in Seq({"body", "end"})
        BY <2>2, Zenon DEF AgentTyped
      <4>2. Append(chunks[x.s], x.t) \in Seq({"body", "end"})
        BY <2>2, <4>1
      <4> QED
        BY <3>1, <4>1, <4>2, PutTyped, Zenon
    <3> QED
      BY <2>3, <3>1 DEF AgentTyped
  <2> QED
    BY <2>3, <2>4, Zenon DEF AgentTyped
<1>7. CASE serveStops \/ runOnceReturns
  BY <1>7, Zenon DEF serveStops, runOnceReturns, AgentTyped, link
<1> QED
  BY <1>1, <1>2, <1>3, <1>4, <1>5, <1>6, <1>7, ZenonT(30) DEF Next, Serve

-------------------------------------------------------------------------------
(* The agent *)

\* Sending appends a message of a known stream, or nothing.
LEMMA LinkTyped ==
  ASSUME toAgent \in Seq(Messages),
         NEW s \in Streams, NEW t \in {"start", "body", "end", "cancel"}
  PROVE  /\ Send([s |-> s, t |-> t]) => toAgent' \in Seq(Messages)
         /\ \A live : SendFails(live) => toAgent' \in Seq(Messages)
<1>1. [s |-> s, t |-> t] \in Messages
  BY DEF Messages
<1> QED
  BY <1>1 DEF Send, SendFails

\* A step that leaves the agent alone keeps its accounting.
LEMMA AgentUntouched ==
  Goroutines /\ UNCHANGED <<apc, active, al>> /\ toAgent' \in Seq(Messages) => Goroutines'
BY DEF Goroutines

\* A goroutine that goes on working stays counted, and there is none to do so
\* once runOnce has returned.
LEMMA KeepsWorking ==
  ASSUME Goroutines, NEW s \in Streams, apc[s] \in Working,
         NEW l \in Working, apc' = [apc EXCEPT ![s] = l], UNCHANGED <<active, al, toAgent>>
  PROVE  Goroutines'
BY DEF Goroutines

\* The steps of a local call.
LEMMA LocalCallKeepsGoroutines ==
  ASSUME Goroutines, NEW s \in Streams, LocalCall(s)
  PROVE  Goroutines'
<1>1. CASE writeResponseStart(s)
  <2>1. apc[s] \in Working /\ UNCHANGED <<active, al, toAgent>>
    BY <1>1 DEF writeResponseStart, Reply, ReplyFails, Working
  <2>2. PICK l \in Working : apc' = [apc EXCEPT ![s] = l]
    BY <1>1 DEF writeResponseStart, FailsTo, Working
  <2> QED
    BY <2>1, <2>2, KeepsWorking, ZenonT(60)
<1>2. CASE writeResponseBody(s)
  <2>1. apc[s] \in Working /\ UNCHANGED <<active, al, toAgent>>
    BY <1>2, Zenon DEF writeResponseBody, Reply, ReplyFails, Working
  <2>2. apc' = apc \/ \E l \in Working : apc' = [apc EXCEPT ![s] = l]
    BY <1>2, ZenonT(30) DEF writeResponseBody, FailsTo, Working
  <2>3. CASE apc' = apc
    BY <2>1, <2>3, AgentUntouched DEF Goroutines
  <2> QED
    BY <2>1, <2>2, <2>3, KeepsWorking
<1>3. CASE writeResponseEnd(s) \/ writeStreamError(s)
  <2>1. apc[s] \in Working /\ UNCHANGED <<active, al, toAgent>>
    BY <1>3, ZenonT(30) DEF writeResponseEnd, writeStreamError, Reply, ReplyFails, Working
  <2>2. apc' = [apc EXCEPT ![s] = "finish"]
    BY <1>3 DEF writeResponseEnd, writeStreamError
  <2> QED
    BY <2>1, <2>2, KeepsWorking, Zenon DEF Working
<1>4. CASE localRequestFails(s)
  <2>1. apc[s] \in Working /\ UNCHANGED <<active, al, toAgent>>
    BY <1>4 DEF localRequestFails, link, Working
  <2>2. PICK l \in Working : apc' = [apc EXCEPT ![s] = l]
    BY <1>4, Zenon DEF localRequestFails, FailsTo, Working
  <2> QED
    BY <2>1, <2>2, KeepsWorking, Zenon
<1>5. CASE removeActiveStream(s)
  <2>1. /\ apc' = [apc EXCEPT ![s] = "gone"] /\ active' = active \ {s}
        /\ UNCHANGED <<al, toAgent>>
    BY <1>5 DEF removeActiveStream, link
  <2> QED
    BY <2>1 DEF Goroutines, Working
<1> QED
  BY <1>1, <1>2, <1>3, <1>4, <1>5 DEF LocalCall

\* The steps of serve and the return of runOnce.
LEMMA ServeKeepsGoroutines ==
  ASSUME Goroutines, Serve
  PROVE  Goroutines'
<1>1. CASE serveRead
  <2> DEFINE m == Head(toAgent)
  <2>1. m \in Messages /\ toAgent' \in Seq(Messages) /\ al = Reading /\ Reading # Returned
    <3>1. toAgent \in Seq(Messages) /\ toAgent # <<>> /\ toAgent' = Tail(toAgent) /\ al = Reading
      BY <1>1, Zenon DEF serveRead, Goroutines
    <3>2. Head(toAgent) \in Messages /\ Tail(toAgent) \in Seq(Messages)
      BY <3>1, QueueTail, Zenon
    <3>3. Reading # Returned
      BY DEF Reading, Returned
    <3> QED
      BY <3>1, <3>2, <3>3, Zenon
  <2>2. m.s \in Streams
    BY <2>1 DEF Messages
  <2>3. CASE m.t = "start"
    <3>1. /\ apc' = [apc EXCEPT ![m.s] = "call"] /\ active' = active \cup {m.s}
          /\ al' = al
      BY <1>1, <2>3, ZenonT(60) DEF serveRead
    <3> HIDE DEF m
    <3> QED
      BY <2>1, <2>2, <3>1, ZenonT(60) DEF Goroutines, Working
  <2>4. CASE UNCHANGED <<apc, active>> /\ (al' = Delivering(m) \/ al' = al)
    <3>2. Delivering(m) # Returned
      BY ZenonT(60) DEF Delivering, Returned
    <3> HIDE DEF m
    <3> QED
      BY <2>1, <2>4, <3>2, ZenonT(60) DEF Goroutines
  <2> QED
    BY <1>1, <2>3, <2>4, ZenonT(60) DEF serveRead
<1>2. CASE deliverActiveStreamChunk \/ serveStops
  <2>1. UNCHANGED <<apc, active, toAgent>> /\ al' \in {Reading, Stopped}
    BY <1>2 DEF deliverActiveStreamChunk, serveStops, link
  <2>2. Reading # Returned /\ Stopped # Returned
    BY DEF Reading, Stopped, Returned
  <2> QED
    BY <2>1, <2>2, ZenonT(60) DEF Goroutines
<1>3. CASE runOnceReturns
  <2>1. UNCHANGED <<apc, active, toAgent>> /\ \A s \in Streams : apc[s] \notin Working
    BY <1>3 DEF runOnceReturns, link, Working
  <2> QED
    BY <2>1 DEF Goroutines
<1> QED
  BY <1>1, <1>2, <1>3 DEF Serve

\* The gateway only adds well-formed messages to the link.
LEMMA RoundTripKeepsGoroutines ==
  ASSUME Goroutines, NEW s \in Streams, RoundTrip(s)
  PROVE  Goroutines'
<1>0. toAgent \in Seq(Messages)
  BY DEF Goroutines
<1>1. UNCHANGED <<apc, active, al>>
  BY Zenon DEF RoundTrip, writeRequestStart, writeRequestBody, writeRequestEnd, readStreamResponse,
     cancelStream, streamRoundTripReturns, agent
<1>2. \/ \E t \in {"start", "body", "end", "cancel"} : Send([s |-> s, t |-> t])
      \/ \E live : SendFails(live)
      \/ toAgent' = toAgent
  BY Zenon DEF RoundTrip, writeRequestStart, writeRequestBody, writeRequestEnd, readStreamResponse,
     cancelStream, streamRoundTripReturns, link
<1>3. toAgent' \in Seq(Messages)
  BY <1>0, <1>2, LinkTyped
<1> QED
  BY <1>1, <1>3, AgentUntouched

\* No step loses track of a goroutine.
LEMMA NextKeepsGoroutines == Goroutines /\ [Next]_vars => Goroutines'
<1> SUFFICES ASSUME Goroutines, [Next]_vars PROVE Goroutines'
  OBVIOUS
<1>0. toAgent \in Seq(Messages)
  BY DEF Goroutines
<1>1. ASSUME NEW s \in Streams, acquireStream(s) \/ writePublicBody(s) \/ CtxDone(s) \/ pumpChunk(s)
      PROVE  Goroutines'
  BY <1>0, <1>1, AgentUntouched, Zenon DEF acquireStream, writePublicBody, CtxDone, pumpChunk, link, agent
<1>2. ASSUME NEW s \in Streams, RoundTrip(s) PROVE Goroutines'
  BY <1>2, RoundTripKeepsGoroutines
<1>3. ASSUME NEW s \in Streams, LocalCall(s) PROVE Goroutines'
  BY <1>3, LocalCallKeepsGoroutines, ZenonT(60)
<1>4. CASE ReadLoop \/ keepaliveFails \/ ConnLost
  BY <1>0, <1>4, AgentUntouched DEF ReadLoop, readLoopRead, deliver, readLoopStops,
     keepaliveFails, ConnLost, link, agent
<1>5. CASE Serve
  BY <1>5, ServeKeepsGoroutines
<1>6. CASE UNCHANGED vars
  BY <1>0, <1>6, AgentUntouched DEF vars, link, agent
<1> QED
  BY <1>1, <1>2, <1>3, <1>4, <1>5, <1>6 DEF Next

-------------------------------------------------------------------------------
(* The gateway *)

INSTANCE FiniteSetTheorems

\* A round trip that stays between its acquire and its defers keeps its slot.
LEMMA StaysAcquired ==
  ASSUME Slots, NEW s \in Streams, gpc[s] \in Acquired,
         NEW l \in Acquired, gpc' = [gpc EXCEPT ![s] = l],
         UNCHANGED <<slots, pending>>
  PROVE  Slots'
<1>1. l \in Places
  BY DEF Places
<1>2. gpc' \in [Streams -> Places]
  BY <1>1 DEF Slots
<1>3. Live' = Live
  BY DEF Live, Slots
<1> QED
  BY <1>2, <1>3 DEF Slots, SlotsMatchRoundTrips, Live

\* Whatever leaves the places of the round trips alone keeps the slots.
LEMMA SlotsUntouched ==
  Slots /\ UNCHANGED <<gpc, slots, pending>> => Slots'
BY DEF Slots, SlotsMatchRoundTrips, Acquired, Places

\* acquireStream: one more slot for one more round trip, or neither.
LEMMA AcquireKeepsSlots ==
  ASSUME Slots, NEW s \in Streams, acquireStream(s)
  PROVE  Slots'
<1>1. CASE done \/ slots = MaxStreams
  <2>1. gpc' = [gpc EXCEPT ![s] = "over"] /\ UNCHANGED <<slots, pending>>
    BY <1>1 DEF acquireStream, Ends, Goto
  <2>2. gpc' \in [Streams -> Places]
    BY <2>1, ZenonT(30) DEF Slots, Places, Acquired
  <2>3. Live' = Live
    BY <2>1 DEF Live, Slots, acquireStream, Acquired
  <2> QED
    BY <2>1, <2>2, <2>3, Zenon DEF Slots, SlotsMatchRoundTrips, Live
<1>2. CASE ~(done \/ slots = MaxStreams)
  <2>1. /\ gpc' = [gpc EXCEPT ![s] = "start"]
        /\ slots' = slots + 1 /\ pending' = pending \cup {s}
    BY <1>2 DEF acquireStream, Goto
  <2>2. gpc' \in [Streams -> Places]
    BY <2>1, ZenonT(30) DEF Slots, Places, Acquired
  <2>3. Live' = Live \cup {s} /\ s \notin Live
    BY <2>1, ZenonT(30) DEF Live, Slots, acquireStream, Acquired
  <2>4. IsFiniteSet(Live)
    BY StreamMuxAssumption, FS_Subset DEF Live
  <2>5. Cardinality(Live') = Cardinality(Live) + 1
    BY <2>3, <2>4, FS_AddElement, Zenon
  <2>6. slots' = Cardinality(Live') /\ pending' = Live'
    BY <2>1, <2>3, <2>5, Zenon DEF Slots, SlotsMatchRoundTrips, Live
  <2> QED
    BY <2>2, <2>6, Zenon DEF Slots, SlotsMatchRoundTrips, Live
<1> QED
  BY <1>1, <1>2, Zenon

\* The defers of streamRoundTrip: one slot less for one round trip less.
LEMMA ReturnKeepsSlots ==
  ASSUME Slots, NEW s \in Streams, streamRoundTripReturns(s)
  PROVE  Slots'
<1>1. /\ gpc[s] = "return" /\ gpc' = [gpc EXCEPT ![s] = "over"]
      /\ slots' = slots - 1 /\ pending' = pending \ {s}
  BY DEF streamRoundTripReturns, Goto
<1>2. gpc' \in [Streams -> Places]
  BY <1>1 DEF Slots, Places, Acquired
<1>3. Live' = Live \ {s} /\ s \in Live
  BY <1>1, Zenon DEF Live, Slots, Acquired
<1>4. IsFiniteSet(Live)
  BY StreamMuxAssumption, FS_Subset DEF Live
<1>5. Cardinality(Live') = Cardinality(Live) - 1
  BY <1>3, <1>4, FS_RemoveElement, ZenonT(60)
<1>6. slots' = Cardinality(Live') /\ pending' = Live'
  BY <1>1, <1>3, <1>5, Zenon DEF Slots, SlotsMatchRoundTrips, Live
<1> QED
  BY <1>2, <1>6, ZenonT(30) DEF Slots, SlotsMatchRoundTrips, Live

\* Every other step of a round trip moves between places that hold a slot.
LEMMA RoundTripKeepsSlots ==
  ASSUME Slots, NEW s \in Streams, RoundTrip(s)
  PROVE  Slots'
<1>1. CASE writeRequestStart(s)
  <2>1. PICK l \in {"body", "return"} : gpc' = [gpc EXCEPT ![s] = l]
    BY <1>1 DEF writeRequestStart, Ends, Goto
  <2> QED
    BY <1>1, <2>1, StaysAcquired, ZenonT(60) DEF writeRequestStart, gwSession, Acquired
<1>2. CASE writeRequestBody(s)
  <2>1. gpc' = gpc \/ \E l \in {"end", "cancel"} : gpc' = [gpc EXCEPT ![s] = l]
    BY <1>2 DEF writeRequestBody, Ends, Goto
  <2>2. gpc[s] \in Acquired /\ UNCHANGED <<slots, pending>>
    BY <1>2, Zenon DEF writeRequestBody, gwSession, Acquired
  <2> QED
    BY <2>1, <2>2, StaysAcquired, SlotsUntouched, ZenonT(60) DEF Acquired
<1>3. CASE writeRequestEnd(s)
  <2>1. PICK l \in {"read", "return"} : gpc' = [gpc EXCEPT ![s] = l]
    BY <1>3 DEF writeRequestEnd, Ends, Goto
  <2> QED
    BY <1>3, <2>1, StaysAcquired, ZenonT(60) DEF writeRequestEnd, gwSession, Acquired
<1>4. CASE readStreamResponse(s)
  <2>1. gpc' = gpc \/ \E l \in {"return", "cancel", "write"} : gpc' = [gpc EXCEPT ![s] = l]
    BY <1>4 DEF readStreamResponse, Ends, Goto
  <2>2. gpc[s] \in Acquired /\ UNCHANGED <<slots, pending>>
    BY <1>4 DEF readStreamResponse, Acquired
  <2> QED
    BY <2>1, <2>2, StaysAcquired, SlotsUntouched, Zenon DEF Acquired
<1>5. CASE cancelStream(s)
  <2>1. gpc[s] \in Acquired /\ gpc' = [gpc EXCEPT ![s] = "return"] /\ UNCHANGED <<slots, pending>>
    BY <1>5 DEF cancelStream, Goto, gwSession, Acquired
  <2> QED
    BY <2>1, StaysAcquired, ZenonT(60) DEF Acquired
<1>6. CASE streamRoundTripReturns(s)
  BY <1>6, ReturnKeepsSlots
<1> QED
  BY <1>1, <1>2, <1>3, <1>4, <1>5, <1>6, Zenon DEF RoundTrip

\* No step loses or invents a slot.
LEMMA NextKeepsSlots == Slots /\ [Next]_vars => Slots'
<1> SUFFICES ASSUME Slots, [Next]_vars PROVE Slots'
  OBVIOUS
<1>1. ASSUME NEW s \in Streams, acquireStream(s) PROVE Slots'
  BY <1>1, AcquireKeepsSlots
<1>2. ASSUME NEW s \in Streams, RoundTrip(s) PROVE Slots'
  BY <1>2, RoundTripKeepsSlots
<1>8. ASSUME NEW s \in Streams, writePublicBody(s) PROVE Slots'
  <2>1. gpc[s] \in Acquired /\ UNCHANGED <<slots, pending>>
    BY <1>8, Zenon DEF writePublicBody, gwSession, Acquired
  <2>2. PICK l \in {"read", "cancel"} : gpc' = [gpc EXCEPT ![s] = l]
    BY <1>8 DEF writePublicBody, Ends, Goto
  <2> QED
    BY <2>1, <2>2, StaysAcquired, ZenonT(60) DEF Acquired
<1>3. ASSUME NEW s \in Streams, CtxDone(s) \/ pumpChunk(s) PROVE Slots'
  BY <1>3, SlotsUntouched, Zenon DEF CtxDone, pumpChunk, gwStream, gwSession
<1>4. ASSUME NEW s \in Streams, LocalCall(s) PROVE Slots'
  BY <1>4, SlotsUntouched, ZenonT(60) DEF LocalCall, writeResponseStart, writeResponseBody,
     writeResponseEnd, localRequestFails, writeStreamError, removeActiveStream, gwStream, gwSession
<1>5. CASE ReadLoop \/ keepaliveFails \/ ConnLost
  BY <1>5, SlotsUntouched, Zenon DEF ReadLoop, readLoopRead, deliver, readLoopStops, keepaliveFails,
     ConnLost, gwStream, gwSession
<1>6. CASE Serve
  BY <1>6, SlotsUntouched, Zenon DEF Serve, serveRead, deliverActiveStreamChunk, serveStops,
     runOnceReturns, gwStream, gwSession
<1>7. CASE UNCHANGED vars
  BY <1>7, SlotsUntouched, ZenonT(30) DEF vars, gwStream, gwSession
<1> QED
  BY <1>1, <1>2, <1>3, <1>4, <1>5, <1>6, <1>7, <1>8, Zenon DEF Next

-------------------------------------------------------------------------------
\* Accounted is the gateway's and the agent's part together.
LEMMA AccountedParts == Accounted <=> Slots /\ Goroutines
BY DEF Accounted, Slots, Goroutines, Places, Messages

\* A new session and a new agent connection have no streams.
LEMMA InitAccounted == Init => Accounted
<1> SUFFICES ASSUME Init PROVE Accounted
  OBVIOUS
<1>1. Live = {}
  BY DEF Init, Live, Acquired
<1>2. Slots
  BY <1>1, FS_EmptySet, ZenonT(60) DEF Init, Slots, SlotsMatchRoundTrips, Live, Places
<1>3. Goroutines
  BY DEF Init, Goroutines, Working, Reading, Returned
<1> QED
  BY <1>2, <1>3, AccountedParts

\* For any number of streams, slots and chunks, under every interleaving of the
\* round trips, the read loops and the local calls, the accounting is exact.
THEOREM AccountedHolds == Spec => []Accounted
<1>1. Accounted /\ [Next]_vars => Accounted'
  BY AccountedParts, NextKeepsSlots, NextKeepsGoroutines DEF Accounted, Slots, Goroutines,
     Places, Messages
<1> QED
  BY <1>1, InitAccounted, PTL DEF Spec

\* acquireStream and releaseStream pair up: the limit counts what runs.
THEOREM SlotsMatchRoundTripsHolds == Spec => []SlotsMatchRoundTrips
<1>1. Accounted => SlotsMatchRoundTrips
  BY Zenon DEF Accounted
<1> QED
  BY <1>1, AccountedHolds, PTL

\* runOnce leaves no goroutine of its connection behind.
THEOREM NoStreamOutlivesConnectionHolds == Spec => []NoStreamOutlivesConnection
<1>1. Accounted => NoStreamOutlivesConnection
  BY DEF Accounted, NoStreamOutlivesConnection, Returned, Working
<1> QED
  BY <1>1, AccountedHolds, PTL

-------------------------------------------------------------------------------
\* The inductive invariant of the bodies.
FlowInv == Accounted /\ Flow

\* Nothing is on its way at first.
LEMMA InitFlow == Init => Flow
<1> SUFFICES ASSUME Init PROVE Flow
  OBVIOUS
<1>1. Typed
  BY DEF Init, Typed
<1>2. \A m : ~Has(<<>>, m)
  BY DEF Has
<1>3. \A a, m : Never(<<>>, a, m)
  BY DEF Never
<1>4. ASSUME NEW s \in Streams PROVE StartIsFirst(s) /\ RequestFlow(s) /\ ResponseFlow(s)
  <2>1. /\ gpc[s] = "idle" /\ apc[s] = "none" /\ chunks[s] = <<>> /\ ch[s] = <<>> /\ toAgent = <<>>
        /\ toGw = <<>> /\ al = Reading /\ rl = Reading /\ sent[s] = 0 /\ fed[s] = 0
        /\ got[s] = 0 /\ made[s] = 0 /\ ~eof[s] /\ ~sdone[s]
    BY DEF Init
  <2>2. \A b : Whole(s, b, <<>>, Reading, <<>>, 0, 0) /\ ~OnTheWay(s, b, <<>>, Reading, <<>>)
    <3> TAKE b
    <3>1. Reading # Delivering(M(s, b)) /\ InHand(Reading, M(s, b)) = 0
      BY MessageParts DEF InHand
    <3>2. 0 \in Nat /\ 0 = 0 + 0 + InHand(Reading, M(s, b)) + 0
      BY <3>1
    <3>3. Whole(s, b, <<>>, Reading, <<>>, 0, 0)
      BY <3>2, CountsEmpty, Zenon DEF Whole
    <3> QED
      BY <1>2, <3>1, <3>3, Zenon DEF OnTheWay
  <2>3. \A b, e : EndIsLast(s, b, e, <<>>, Reading, <<>>)
    BY <1>2, <1>3, MessageParts, Zenon DEF EndIsLast
  <2> QED
    BY <1>2, <1>3, <2>1, <2>2, <2>3, ZenonT(60) DEF StartIsFirst, RequestFlow, ResponseFlow
<1> QED
  BY <1>1, <1>4, ZenonT(60) DEF Flow

\* The inductive invariant holds of every behaviour.
THEOREM FlowInvHolds == Spec => []FlowInv
<1>1. ASSUME FlowInv, [Next]_vars PROVE Flow'
  <2>1. Slots /\ Goroutines /\ Typed /\ GatewayTyped /\ AgentTyped /\ toGw \in Seq(Mail)
    BY <1>1, AccountedParts, TypedParts DEF FlowInv, Flow
  <2>2. Typed'
    <3>1. GatewayTyped' /\ AgentTyped' /\ toGw' \in Seq(Mail)
      BY <1>1, <2>1, NextKeepsGatewayTyped, NextKeepsAgentTyped, Zenon
    <3> QED
      BY <3>1, Zenon DEF Typed, GatewayTyped, AgentTyped, Mail, Kinds
  <2>3. ASSUME NEW s \in Streams PROVE StartIsFirst(s)' /\ RequestFlow(s)' /\ ResponseFlow(s)'
    <3>1. StartIsFirst(s) /\ RequestFlow(s) /\ ResponseFlow(s)
      BY <1>1 DEF FlowInv, Flow
    <3>2. StartIsFirst(s)' /\ RequestFlow(s)'
      BY <1>1, <2>1, <3>1, NextKeepsRequest, Zenon
    <3>3. ResponseFlow(s)'
      BY <1>1, <2>1, <3>1, NextKeepsResponse, Zenon
    <3> QED
      BY <3>2, <3>3
  <2> QED
    BY <2>2, <2>3 DEF Flow
<1> QED
  BY <1>1, InitFlow, AccountedHolds, PTL DEF Spec, FlowInv

\* Whatever the sizes of the channels and of the link, however many streams share
\* the connection and whenever any of them is cancelled, a local service that
\* reads the end of a request body has read every chunk the gateway sent of it, or
\* its own request is cancelled (Runner.serve, requestBodyFromChunks).
THEOREM RequestBodyIntactHolds == Spec => []RequestBodyIntact
<1>1. FlowInv => RequestBodyIntact
  BY Zenon DEF FlowInv, Flow, RequestFlow, RequestBodyIntact
<1> QED
  BY <1>1, FlowInvHolds, PTL

\* A round trip that completes while the session is up has passed on every chunk
\* of the response: no other stream's full channel or end costs it one.
THEOREM CompletedWhileUpIsIntactHolds == Spec => CompletedWhileUpIsIntact
<1> DEFINE Intact(s) == out[s] # "completed" /\ out'[s] = "completed" /\ ~done => got[s] = made[s]
<1>1. ASSUME FlowInv, [Next]_vars PROVE [\A s \in Streams : Intact(s)]_vars
  <2> SUFFICES ASSUME NEW s \in Streams PROVE Intact(s)
    BY Zenon
  <2>1. Slots /\ Typed /\ ResponseFlow(s) /\ out \in [Streams -> {"none", "limit", "failed", "canceled", "completed"}]
    BY <1>1, AccountedParts, Zenon DEF FlowInv, Flow, Typed
  <2>2. CASE readStreamResponse(s)
    BY <2>1, <2>2, ResponsePassed
  <2>3. ASSUME NEW r \in Streams, readStreamResponse(r), r # s PROVE Intact(s)
    <3>1. out' = out \/ \E o : out' = [out EXCEPT ![r] = o]
      BY <2>3 DEF readStreamResponse, Ends
    <3> QED
      BY <2>1, <2>3, <3>1, Zenon
  <2>4. ASSUME NEW r \in Streams,
               \/ acquireStream(r) \/ writeRequestStart(r) \/ writeRequestBody(r) \/ writeRequestEnd(r)
               \/ writePublicBody(r) \/ cancelStream(r) \/ streamRoundTripReturns(r)
        PROVE  Intact(s)
    <3>1. out' = out \/ \E o \in {"failed", "canceled", "limit"} : out' = [out EXCEPT ![r] = o]
      BY <2>4, Zenon DEF acquireStream, writeRequestStart, writeRequestBody, writeRequestEnd, writePublicBody,
                  cancelStream, streamRoundTripReturns, Ends, ErrorOf
    <3> QED
      BY <2>1, <3>1, Zenon
  <2>5. CASE \/ \E r \in Streams : CtxDone(r) \/ pumpChunk(r) \/ LocalCall(r)
             \/ ReadLoop \/ keepaliveFails \/ ConnLost \/ Serve \/ UNCHANGED vars
    <3>1. out' = out
      BY <2>5, Zenon DEF CtxDone, pumpChunk, LocalCall, writeResponseStart, writeResponseBody, writeResponseEnd,
                  localRequestFails, writeStreamError, removeActiveStream, ReadLoop, readLoopRead, deliver,
                  readLoopStops, keepaliveFails, ConnLost, Serve, serveRead, deliverActiveStreamChunk,
                  serveStops, runOnceReturns, gwStream, vars
    <3> QED
      BY <3>1, Zenon
  <2> QED
    BY <1>1, <2>2, <2>3, <2>4, <2>5, Zenon DEF Next, RoundTrip
<1> QED
  BY <1>1, FlowInvHolds, PTL DEF Spec, CompletedWhileUpIsIntact

===============================================================================

