--------------------------- MODULE SendingProofs ---------------------------
(***************************************************************************)
(* Proofs about Sending, for any protocols, sizes and numbers of messages: *)
(* no queue on the way of a message skips, repeats or reorders anything,   *)
(* and pending_data_size covers all that is on the way.                    *)
(***************************************************************************)
EXTENDS Sending, SequenceTheorems, FiniteSetTheorems, TLAPS

Event == [proto : Protos, pri : Priority, close : BOOLEAN]
Queue == [Priority -> Seq(Nat)]
Counts == [Priority -> Nat]

TypeOK ==
    /\ hand \in Seq(Event) /\ inbox \in [Priority -> Seq(Event)]
    /\ buffer \in [Protos -> Queue] /\ chan \in [Protos -> Queue] /\ writes \in [Protos -> Queue]
    /\ accepted \in [Protos -> Counts] /\ wire \in [Protos -> Counts]
    /\ phase \in [Protos -> {"closed", "open", "dead"}]
    /\ pending \in Int /\ state \in {"Normal", "killed", "ended"}
    /\ sent \in Nat /\ opens \in Nat

\* The messages of a queue q are the numbers from w + 1 to a, in this order.
Ordered(q, w, a) ==
    /\ \A i \in 1..Len(q) : IsMessage(q[i]) => q[i] \in (w + 1)..a
    /\ \A i, j \in 1..Len(q) : i < j /\ IsMessage(q[i]) /\ IsMessage(q[j]) => q[i] < q[j]
    /\ \A n \in (w + 1)..a : \E i \in 1..Len(q) : q[i] = n

\* A live stream with the write buffer w, the channel c and the session's buffer b: the
\* write buffer holds messages only, and starts with the one after the wire.
Live(w, c, b, acc, wi) ==
    \A pri \in Priority :
        /\ wi[pri] <= acc[pri]
        /\ \A i \in 1..Len(w[pri]) : w[pri][i] = wi[pri] + i
        /\ Ordered(w[pri] \o c[pri] \o b[pri], wi[pri], acc[pri])

\* A stream in each of its phases: the channel holds no more than it can, and what is gone
\* leaves nothing behind that a stream opened later would send.
StreamOK(ph, w, c, b, acc, wi) ==
    /\ Size(c) <= ChannelCap
    /\ ph # "open" => w = Empty /\ c = Empty
    /\ ph = "closed" => b = Empty
    /\ ph = "open" => Live(w, c, b, acc, wi)

Streams ==
    \A p \in Protos : StreamOK(phase[p], writes[p], chan[p], buffer[p], accepted[p], wire[p])

-----------------------------------------------------------------------------
(***************************************************************************)
(* Queues                                                                  *)
(***************************************************************************)

\* The empty queue.
LEMMA EmptyQueue ==
    /\ Empty \in Queue /\ Size(Empty) = 0 /\ Empty.high = <<>> /\ Empty.normal = <<>>
    /\ \A pri \in Priority : Empty[pri] = <<>>
BY DEF Empty, Queue, Size, Priority

\* The lanes of a queue.
LEMMA Lanes ==
    ASSUME NEW q \in Queue
    PROVE  /\ q.high \in Seq(Nat) /\ q.normal \in Seq(Nat) /\ q.high = q["high"] /\ q.normal = q["normal"]
           /\ Len(q.high) \in Nat /\ Len(q.normal) \in Nat /\ Size(q) \in Nat
           /\ Size(q) = 0 => q = Empty
<1>1. q.high \in Seq(Nat) /\ q.normal \in Seq(Nat) /\ q.high = q["high"] /\ q.normal = q["normal"]
    BY DEF Queue, Priority
<1>2. Len(q.high) \in Nat /\ Len(q.normal) \in Nat
    BY <1>1
<1> DEFINE a == Len(q.high)
           b == Len(q.normal)
<1>3. Size(q) = a + b
    BY DEF Size
<1> HIDE DEF a, b
<1>5. a \in Nat /\ b \in Nat
    BY <1>2 DEF a, b
<1>6. a + b \in Nat
    BY <1>5
<1>4. ASSUME Size(q) = 0
      PROVE  q = Empty
    <2>0. a + b = 0
        BY <1>3, <1>4
    <2>3. a = 0 /\ b = 0
        BY <1>5, <2>0
    <2>1. Len(q.high) = 0 /\ Len(q.normal) = 0
        BY <2>3 DEF a, b
    <2>2. q["high"] = <<>> /\ q["normal"] = <<>>
        BY <1>1, <2>1
    <2> QED
        BY <2>2 DEF Queue, Priority, Empty
<1> QED
    BY <1>1, <1>2, <1>3, <1>4, <1>6

\* What a bound says.
LEMMA Bounded ==
    \A t \in Nat : \A n \in 0..t : n \in Nat /\ n <= t
OBVIOUS

\* The smaller and the greater of two numbers.
LEMMA MinMax ==
    ASSUME NEW x \in Int, NEW y \in Int
    PROVE  /\ Min({x, y}) = IF x <= y THEN x ELSE y
           /\ Max({x, y}) = IF x >= y THEN x ELSE y
BY DEF Min, Max

\* Where First and Rest cut the lanes of a queue with a and b events.
LEMMA CutPlaces ==
    ASSUME NEW n \in Nat, NEW a \in Nat, NEW b \in Nat, n <= a + b
    PROVE  /\ Min({n, a}) \in 0..a /\ Max({n - a, 0}) \in 0..b
           /\ Min({n, a}) + Max({n - a, 0}) = n
           /\ n <= a => Min({n, a}) = n /\ Max({n - a, 0}) = 0
           /\ n > a => Min({n, a}) = a /\ Max({n - a, 0}) = n - a
<1> DEFINE x == Min({n, a})
           y == Max({n - a, 0})
<1>1. n \in Int /\ a \in Int /\ n - a \in Int /\ 0 \in Int
    OBVIOUS
<1>2. x = IF n <= a THEN n ELSE a
    BY <1>1, MinMax
<1>3. y = IF n - a >= 0 THEN n - a ELSE 0
    BY <1>1, MinMax
<1> HIDE DEF x, y
<1>4. /\ x \in 0..a /\ y \in 0..b /\ x + y = n
      /\ n <= a => x = n /\ y = 0
      /\ n > a => x = a /\ y = n - a
    BY <1>2, <1>3
<1> QED
    BY <1>4 DEF x, y

\* The two parts of a lane that is cut.
LEMMA CutLane ==
    ASSUME NEW s \in Seq(Nat), NEW k \in 0..Len(s)
    PROVE  /\ SubSeq(s, 1, k) \in Seq(Nat) /\ Len(SubSeq(s, 1, k)) = k
           /\ SubSeq(s, k + 1, Len(s)) \in Seq(Nat)
<1>1. Len(s) \in Nat /\ \A i \in 1..Len(s) : s[i] \in Nat
    OBVIOUS
<1>2. SubSeq(s, 1, k) \in Seq(Nat)
    BY <1>1
<1>3. Len(SubSeq(s, 1, k)) = k
    BY <1>1
<1>4. SubSeq(s, k + 1, Len(s)) \in Seq(Nat)
    BY <1>1
<1> QED
    BY <1>2, <1>3, <1>4

\* Nothing of a lane is left when it is cut after its end, or before its start.
LEMMA CutOutside ==
    ASSUME NEW s \in Seq(Nat), NEW i \in Int, NEW j \in Int, j < i
    PROVE  SubSeq(s, i, j) = <<>>
BY SubSeqEmpty

\* First and Rest as cuts of the lanes h and l.
LEMMA CutBoth ==
    ASSUME NEW h \in Seq(Nat), NEW l \in Seq(Nat), NEW n \in Nat, n <= Len(h) + Len(l)
    PROVE  LET x == Min({n, Len(h)})
               y == Max({n - Len(h), 0}) IN
           /\ x \in 0..Len(h) /\ y \in 0..Len(l) /\ x + y = n
           /\ SubSeq(l, 1, n - Len(h)) = SubSeq(l, 1, y)
           /\ SubSeq(h, n + 1, Len(h)) = SubSeq(h, x + 1, Len(h))
<1> DEFINE x == Min({n, Len(h)})
           y == Max({n - Len(h), 0})
           a == Len(h)
           b == Len(l)
<1>1. a \in Nat /\ b \in Nat /\ n <= a + b
    OBVIOUS
<1>2. /\ x \in 0..a /\ y \in 0..b /\ x + y = n
      /\ n <= a => x = n /\ y = 0
      /\ n > a => x = a /\ y = n - a
    <2> HIDE DEF a, b
    <2>1. /\ Min({n, a}) \in 0..a /\ Max({n - a, 0}) \in 0..b
          /\ Min({n, a}) + Max({n - a, 0}) = n
          /\ n <= a => Min({n, a}) = n /\ Max({n - a, 0}) = 0
          /\ n > a => Min({n, a}) = a /\ Max({n - a, 0}) = n - a
        BY <1>1, CutPlaces
    <2> QED
        BY <2>1 DEF a, b
<1> HIDE DEF a, b, x, y
<1>3. SubSeq(l, 1, n - a) = SubSeq(l, 1, y)
    <2>1. CASE n > a
        BY <1>2, <2>1
    <2>2. CASE n <= a
        <3>1. y = 0 /\ n - a \in Int /\ n - a < 1
            BY <1>1, <1>2, <2>2
        <3>2. SubSeq(l, 1, n - a) = <<>>
            BY <3>1, CutOutside
        <3>3. SubSeq(l, 1, 0) = <<>>
            BY CutOutside
        <3> QED
            BY <3>1, <3>2, <3>3
    <2>3. n <= a \/ n > a
        BY <1>1
    <2> QED
        BY <2>1, <2>2, <2>3
<1>4. SubSeq(h, n + 1, a) = SubSeq(h, x + 1, a)
    <2>1. CASE n <= a
        BY <1>2, <2>1
    <2>2. CASE n > a
        <3>1. x = a /\ a < n + 1 /\ a < a + 1 /\ n + 1 \in Int /\ a + 1 \in Int /\ a \in Int
            BY <1>1, <1>2, <2>2
        <3>2. SubSeq(h, n + 1, a) = <<>>
            BY <3>1, CutOutside
        <3>3. SubSeq(h, a + 1, a) = <<>>
            BY <3>1, CutOutside
        <3> QED
            BY <3>1, <3>2, <3>3
    <2>3. n <= a \/ n > a
        BY <1>1
    <2> QED
        BY <2>1, <2>2, <2>3
<1> QED
    BY <1>2, <1>3, <1>4 DEF a, b, x, y

\* First and Rest cut each lane at the same place, and First has as many as it is asked for.
LEMMA FirstRest ==
    ASSUME NEW q \in Queue, NEW n \in 0..Size(q)
    PROVE  /\ First(q, n) \in Queue /\ Rest(q, n) \in Queue /\ Size(First(q, n)) = n
           /\ \A pri \in Priority :
                  LET k == Len(First(q, n)[pri]) IN
                  /\ k \in 0..Len(q[pri])
                  /\ First(q, n)[pri] = SubSeq(q[pri], 1, k)
                  /\ Rest(q, n)[pri] = SubSeq(q[pri], k + 1, Len(q[pri]))
<1> DEFINE h == q.high
           l == q.normal
           x == Min({n, Len(h)})
           y == Max({n - Len(h), 0})
<1>1. h \in Seq(Nat) /\ l \in Seq(Nat) /\ h = q["high"] /\ l = q["normal"]
    BY Lanes
<1>2. n \in Nat /\ n <= Len(h) + Len(l)
    <2> DEFINE t == Size(q)
    <2>1. t \in Nat /\ n \in 0..t /\ t = Len(h) + Len(l)
        BY Lanes DEF Size
    <2> HIDE DEF t
    <2>2. n \in Nat /\ n <= t
        BY <2>1, Bounded, Zenon
    <2> QED
        BY <2>1, <2>2
<1>3. /\ First(q, n) = [high |-> SubSeq(h, 1, x), normal |-> SubSeq(l, 1, n - Len(h))]
      /\ Rest(q, n) = [high |-> SubSeq(h, n + 1, Len(h)), normal |-> SubSeq(l, y + 1, Len(l))]
    BY DEF First, Rest
<1> HIDE DEF h, l
<1>4. /\ x \in 0..Len(h) /\ y \in 0..Len(l) /\ x + y = n
      /\ SubSeq(l, 1, n - Len(h)) = SubSeq(l, 1, y)
      /\ SubSeq(h, n + 1, Len(h)) = SubSeq(h, x + 1, Len(h))
    BY <1>1, <1>2, CutBoth
<1> HIDE DEF x, y
<1> DEFINE h1 == SubSeq(h, 1, x)
           h2 == SubSeq(h, x + 1, Len(h))
           l1 == SubSeq(l, 1, y)
           l2 == SubSeq(l, y + 1, Len(l))
<1>5. First(q, n) = [high |-> h1, normal |-> l1] /\ Rest(q, n) = [high |-> h2, normal |-> l2]
    BY <1>3, <1>4
<1>6. h1 \in Seq(Nat) /\ Len(h1) = x /\ h2 \in Seq(Nat)
    BY <1>1, <1>4, CutLane
<1>7. l1 \in Seq(Nat) /\ Len(l1) = y /\ l2 \in Seq(Nat)
    BY <1>1, <1>4, CutLane
<1> HIDE DEF h1, h2, l1, l2
<1>8. /\ First(q, n)["high"] = h1 /\ First(q, n)["normal"] = l1
      /\ First(q, n).high = h1 /\ First(q, n).normal = l1
      /\ Rest(q, n)["high"] = h2 /\ Rest(q, n)["normal"] = l2
    BY <1>5
<1>9. First(q, n) \in Queue
    <2>1. [high |-> h1, normal |-> l1] \in [{"high", "normal"} -> Seq(Nat)]
        BY <1>6, <1>7
    <2> QED
        BY <1>5, <2>1 DEF Queue, Priority
<1>10. Rest(q, n) \in Queue
    <2>1. [high |-> h2, normal |-> l2] \in [{"high", "normal"} -> Seq(Nat)]
        BY <1>6, <1>7
    <2> QED
        BY <1>5, <2>1 DEF Queue, Priority
<1>11. Size(First(q, n)) = n
    BY <1>4, <1>6, <1>7, <1>8 DEF Size
<1>12. /\ Len(h1) \in 0..Len(q["high"]) /\ h1 = SubSeq(q["high"], 1, Len(h1))
       /\ h2 = SubSeq(q["high"], Len(h1) + 1, Len(q["high"]))
    BY <1>1, <1>4, <1>6 DEF h1, h2
<1>13. /\ Len(l1) \in 0..Len(q["normal"]) /\ l1 = SubSeq(q["normal"], 1, Len(l1))
       /\ l2 = SubSeq(q["normal"], Len(l1) + 1, Len(q["normal"]))
    BY <1>1, <1>4, <1>7 DEF l1, l2
<1> QED
    BY <1>8, <1>9, <1>10, <1>11, <1>12, <1>13 DEF Priority

\* Nothing is between First and Rest.
LEMMA FirstThenRest ==
    ASSUME NEW q \in Queue, NEW n \in 0..Size(q), NEW pri \in Priority
    PROVE  First(q, n)[pri] \o Rest(q, n)[pri] = q[pri]
<1> DEFINE k == Len(First(q, n)[pri])
           b == q[pri]
<1>1. /\ k \in 0..Len(b) /\ First(q, n)[pri] = SubSeq(b, 1, k)
      /\ Rest(q, n)[pri] = SubSeq(b, k + 1, Len(b))
    BY FirstRest
<1>2. b \in Seq(Nat) /\ Len(b) \in Nat
    BY DEF Queue
<1> HIDE DEF k, b
<1>3. 1 \in 1..(Len(b) + 1) /\ k \in (1 - 1)..Len(b) /\ Len(b) \in k..Len(b)
    BY <1>1, <1>2
<1>4. SubSeq(b, 1, k) \o SubSeq(b, k + 1, Len(b)) = SubSeq(b, 1, Len(b))
    BY <1>2, <1>3, ConcatAdjacentSubSeq
<1>5. SubSeq(b, 1, Len(b)) = b
    BY <1>2, SubSeqFull
<1> QED
    BY <1>1, <1>4, <1>5 DEF b

-----------------------------------------------------------------------------
(***************************************************************************)
(* Order                                                                   *)
(***************************************************************************)

\* One more message is accepted.
LEMMA OrderedAppend ==
    ASSUME NEW q \in Seq(Nat), NEW w \in Nat, NEW a \in Nat, w <= a, Ordered(q, w, a)
    PROVE  Ordered(Append(q, a + 1), w, a + 1)
<1> DEFINE r == Append(q, a + 1)
           l == Len(q)
<1>1. /\ l \in Nat /\ Len(r) = l + 1 /\ r[l + 1] = a + 1
      /\ \A i \in 1..l : r[i] = q[i] /\ q[i] \in Nat
    OBVIOUS
<1>2. \A i \in 1..(l + 1) : i \in 1..l \/ i = l + 1
    BY <1>1
<1>3. /\ \A i \in 1..l : IsMessage(q[i]) => q[i] \in (w + 1)..a
      /\ \A i, j \in 1..l : i < j /\ IsMessage(q[i]) /\ IsMessage(q[j]) => q[i] < q[j]
      /\ \A n \in (w + 1)..a : \E i \in 1..l : q[i] = n
    BY DEF Ordered
<1> HIDE DEF r, l
<1>4. \A i \in 1..(l + 1) : IsMessage(r[i]) => r[i] \in (w + 1)..(a + 1)
    BY <1>1, <1>2, <1>3
<1>5. \A i, j \in 1..(l + 1) : i < j /\ IsMessage(r[i]) /\ IsMessage(r[j]) => r[i] < r[j]
    <2> SUFFICES ASSUME NEW i \in 1..(l + 1), NEW j \in 1..(l + 1), i < j,
                        IsMessage(r[i]), IsMessage(r[j])
                 PROVE  r[i] < r[j]
        OBVIOUS
    <2>1. i \in 1..l
        BY <1>1
    <2>2. CASE j \in 1..l
        BY <1>1, <1>3, <2>1, <2>2
    <2>3. CASE j = l + 1
        <3>1. q[i] \in (w + 1)..a /\ r[i] = q[i] /\ r[j] = a + 1
            BY <1>1, <1>3, <2>1, <2>3
        <3> QED
            BY <3>1
    <2> QED
        BY <1>2, <2>2, <2>3
<1>6. \A n \in (w + 1)..(a + 1) : \E i \in 1..(l + 1) : r[i] = n
    <2> SUFFICES ASSUME NEW n \in (w + 1)..(a + 1)
                 PROVE  \E i \in 1..(l + 1) : r[i] = n
        OBVIOUS
    <2>1. CASE n = a + 1
        <3>1. l + 1 \in 1..(l + 1)
            BY <1>1
        <3> QED
            BY <1>1, <2>1, <3>1
    <2>2. CASE n # a + 1
        <3>1. n \in (w + 1)..a
            BY <2>2
        <3>2. PICK i \in 1..l : q[i] = n
            BY <1>3, <3>1
        <3>3. i \in 1..(l + 1) /\ r[i] = n
            BY <1>1, <3>2
        <3> QED
            BY <3>3
    <2> QED
        BY <2>1, <2>2
<1>7. Ordered(r, w, a + 1)
    BY <1>1, <1>4, <1>5, <1>6 DEF Ordered
<1> QED
    BY <1>7 DEF r

\* A close command is queued.
LEMMA OrderedClose ==
    ASSUME NEW q \in Seq(Nat), NEW w \in Nat, NEW a \in Nat, Ordered(q, w, a)
    PROVE  Ordered(Append(q, Close), w, a)
<1> DEFINE r == Append(q, Close)
           l == Len(q)
<1>1. /\ l \in Nat /\ Len(r) = l + 1 /\ r[l + 1] = Close
      /\ \A i \in 1..l : r[i] = q[i]
    OBVIOUS
<1>2. \A i \in 1..(l + 1) : i \in 1..l \/ i = l + 1
    BY <1>1
<1>3. \A i \in 1..l : i \in 1..(l + 1)
    BY <1>1
<1>4. /\ \A i \in 1..l : IsMessage(q[i]) => q[i] \in (w + 1)..a
      /\ \A i, j \in 1..l : i < j /\ IsMessage(q[i]) /\ IsMessage(q[j]) => q[i] < q[j]
      /\ \A n \in (w + 1)..a : \E i \in 1..l : q[i] = n
    BY DEF Ordered
<1>5. ~IsMessage(Close)
    BY DEF IsMessage
<1> HIDE DEF r, l
<1>6. Ordered(r, w, a)
    BY <1>1, <1>2, <1>3, <1>4, <1>5 DEF Ordered
<1> QED
    BY <1>6 DEF r

\* The first k messages go to the wire.
LEMMA OrderedDrop ==
    ASSUME NEW q \in Seq(Nat), NEW w \in Nat, NEW a \in Nat, Ordered(q, w, a),
           NEW k \in 0..Len(q), \A i \in 1..k : q[i] = w + i
    PROVE  Ordered(SubSeq(q, k + 1, Len(q)), w + k, a)
<1> DEFINE r == SubSeq(q, k + 1, Len(q))
           l == Len(q)
           m == l - k
<1>1. /\ l \in Nat /\ k \in Nat /\ k <= l /\ m \in Nat /\ Len(r) = m
      /\ \A i \in 1..m : r[i] = q[k + i] /\ k + i \in 1..l
    OBVIOUS
<1>2. /\ \A i \in 1..l : IsMessage(q[i]) => q[i] \in (w + 1)..a
      /\ \A i, j \in 1..l : i < j /\ IsMessage(q[i]) /\ IsMessage(q[j]) => q[i] < q[j]
      /\ \A n \in (w + 1)..a : \E i \in 1..l : q[i] = n
    BY DEF Ordered
<1>3. m = l - k
    OBVIOUS
<1> HIDE DEF r, l, m
<1>4. ASSUME NEW i \in 1..m, IsMessage(r[i])
      PROVE  r[i] \in ((w + k) + 1)..a
    <2>1. k + i \in 1..l /\ r[i] = q[k + i] /\ q[k + i] \in (w + 1)..a
        BY <1>1, <1>2, <1>4
    <2>2. CASE k = 0
        BY <2>1, <2>2
    <2>3. CASE k > 0
        <3>1. k \in 1..k /\ k \in 1..l /\ k < k + i
            BY <1>1, <2>3
        <3>2. q[k] = w + k /\ IsMessage(q[k])
            BY <2>3, <3>1 DEF IsMessage, Close
        <3>3. q[k] < q[k + i]
            BY <1>2, <1>4, <2>1, <3>1, <3>2
        <3> QED
            BY <1>1, <2>1, <3>2, <3>3, SMTT(40)
    <2> QED
        BY <1>1, <2>2, <2>3
<1>5. ASSUME NEW i \in 1..m, NEW j \in 1..m, i < j, IsMessage(r[i]), IsMessage(r[j])
      PROVE  r[i] < r[j]
    <2>1. k + i < k + j
        BY <1>1, <1>5
    <2> QED
        BY <1>1, <1>2, <1>5, <2>1
<1>6. ASSUME NEW n \in ((w + k) + 1)..a
      PROVE  \E i \in 1..m : r[i] = n
    <2>1. n \in (w + 1)..a
        BY <1>1
    <2>2. PICK i \in 1..l : q[i] = n
        BY <1>2, <2>1
    <2>3. i > k
        <3>1. i \in 1..k => q[i] = w + i
            OBVIOUS
        <3> QED
            BY <1>1, <2>2, <3>1
    <2>4. i - k \in 1..m /\ k + (i - k) = i
        BY <1>1, <1>3, <2>3
    <2> QED
        BY <1>1, <2>2, <2>4
<1>7. Ordered(r, w + k, a)
    BY <1>1, <1>4, <1>5, <1>6 DEF Ordered
<1> QED
    BY <1>7 DEF r, l

\* What follows the first k messages, if it is a message, is the next.
LEMMA OrderedNext ==
    ASSUME NEW q \in Seq(Nat), NEW w \in Nat, NEW a \in Nat, Ordered(q, w, a),
           NEW k \in Nat, k < Len(q), \A i \in 1..k : q[i] = w + i, IsMessage(q[k + 1])
    PROVE  q[k + 1] = w + (k + 1) /\ w + (k + 1) <= a
<1>1. Len(q) \in Nat /\ k + 1 \in 1..Len(q) /\ \A i \in 1..Len(q) : q[i] \in Nat
    OBVIOUS
<1>2. q[k + 1] \in (w + 1)..a
    BY <1>1 DEF Ordered
<1>3. q[k + 1] >= w + (k + 1)
    <2>1. CASE k = 0
        BY <1>2, <2>1
    <2>2. CASE k > 0
        <3>1. k \in 1..k /\ k \in 1..Len(q) /\ k < k + 1
            BY <2>2
        <3>2. q[k] = w + k /\ IsMessage(q[k])
            BY <2>2, <3>1 DEF IsMessage, Close
        <3>3. q[k] < q[k + 1]
            BY <1>1, <3>1, <3>2 DEF Ordered
        <3> QED
            BY <1>1, <3>2, <3>3
    <2> QED
        BY <2>1, <2>2
<1>4. w + (k + 1) \in (w + 1)..a
    BY <1>1, <1>2, <1>3
<1>5. PICK i \in 1..Len(q) : q[i] = w + (k + 1)
    BY <1>4 DEF Ordered
<1>6. i > k
    <2>1. i \in 1..k => q[i] = w + i
        OBVIOUS
    <2> QED
        BY <1>5, <2>1
<1>7. ~(k + 1 < i)
    <2>1. k + 1 < i => q[k + 1] < q[i]
        <3>1. IsMessage(q[i])
            BY <1>5 DEF IsMessage, Close
        <3> QED
            BY <1>1, <3>1 DEF Ordered
    <2> QED
        BY <1>1, <1>3, <1>5, <2>1
<1>8. i = k + 1
    BY <1>6, <1>7
<1> QED
    BY <1>4, <1>5, <1>8

-----------------------------------------------------------------------------
(***************************************************************************)
(* One stream                                                              *)
(***************************************************************************)

\* Concatenation is associative.
LEMMA Associative ==
    ASSUME NEW r \in Seq(Nat), NEW s \in Seq(Nat), NEW t \in Seq(Nat)
    PROVE  (r \o s) \o t = r \o (s \o t)
OBVIOUS

\* Dropping from the first of two sequences.
LEMMA DropFirst ==
    ASSUME NEW s \in Seq(Nat), NEW t \in Seq(Nat), NEW k \in 0..Len(s)
    PROVE  SubSeq(s \o t, k + 1, Len(s \o t)) = SubSeq(s, k + 1, Len(s)) \o t
<1> DEFINE u == SubSeq(s, 1, k)
           v == SubSeq(s, k + 1, Len(s))
<1>1. u \in Seq(Nat) /\ Len(u) = k /\ v \in Seq(Nat)
    BY CutLane
<1>2. s = u \o v
    <2>1. 1 \in 1..(Len(s) + 1) /\ k \in (1 - 1)..Len(s) /\ Len(s) \in k..Len(s)
        OBVIOUS
    <2>2. SubSeq(s, 1, k) \o SubSeq(s, k + 1, Len(s)) = SubSeq(s, 1, Len(s))
        BY <2>1, ConcatAdjacentSubSeq
    <2>3. SubSeq(s, 1, Len(s)) = s
        BY SubSeqFull
    <2> QED
        BY <2>2, <2>3
<1> HIDE DEF u, v
<1> DEFINE q == v \o t
<1>3. s \o t = u \o q /\ q \in Seq(Nat)
    BY <1>1, <1>2, Associative
<1> HIDE DEF q
<1>4. SubSeq(u \o q, Len(u) + 1, Len(u \o q)) = q
    BY <1>1, <1>3
<1>5. SubSeq(s \o t, k + 1, Len(s \o t)) = q
    BY <1>1, <1>3, <1>4
<1> QED
    BY <1>5 DEF q, v

\* Moving the head of the second of two sequences to the end of the first.
LEMMA MoveHead ==
    ASSUME NEW s \in Seq(Nat), NEW t \in Seq(Nat), t # <<>>
    PROVE  /\ Head(t) \in Nat /\ Tail(t) \in Seq(Nat) /\ Append(s, Head(t)) \in Seq(Nat)
           /\ Append(s, Head(t)) \o Tail(t) = s \o t
           /\ Len(Tail(t)) = Len(t) - 1 /\ Len(t) > 0
<1>1. Head(t) \in Nat /\ Tail(t) \in Seq(Nat)
    OBVIOUS
<1>2. Append(s, Head(t)) \in Seq(Nat)
    BY <1>1
<1>3. Append(s, Head(t)) \o Tail(t) = s \o t
    OBVIOUS
<1>4. Len(Tail(t)) = Len(t) - 1 /\ Len(t) > 0
    OBVIOUS
<1> QED
    BY <1>1, <1>2, <1>3, <1>4

\* Where the first of three sequences is.
LEMMA InFirst ==
    ASSUME NEW r \in Seq(Nat), NEW s \in Seq(Nat), NEW t \in Seq(Nat)
    PROVE  LET q == (r \o s) \o t IN
           /\ q \in Seq(Nat) /\ Len(q) = Len(r) + Len(s) + Len(t)
           /\ \A i \in 1..Len(r) : q[i] = r[i]
           /\ s # <<>> => Len(r) < Len(q) /\ q[Len(r) + 1] = Head(s)
OBVIOUS

\* What joins two queues.
LEMMA JoinQueue ==
    ASSUME NEW q \in Queue, NEW r \in Queue
    PROVE  /\ Join(q, r) \in Queue /\ Size(Join(q, r)) = Size(q) + Size(r)
           /\ \A pri \in Priority : Join(q, r)[pri] = q[pri] \o r[pri]
<1> DEFINE h == q.high
           l == q.normal
           g == r.high
           m == r.normal
           j == Join(q, r)
<1>1. h \in Seq(Nat) /\ l \in Seq(Nat) /\ h = q["high"] /\ l = q["normal"]
    BY Lanes
<1>2. g \in Seq(Nat) /\ m \in Seq(Nat) /\ g = r["high"] /\ m = r["normal"]
    BY Lanes
<1>3. \A pri \in Priority : j[pri] = q[pri] \o r[pri]
    BY DEF Join
<1>4. j \in Queue
    <2>1. \A pri \in Priority : q[pri] \o r[pri] \in Seq(Nat)
        BY DEF Queue
    <2> QED
        BY <2>1 DEF Join, Queue
<1>5. j.high = h \o g /\ j.normal = l \o m
    BY <1>1, <1>2, <1>3 DEF Priority
<1>6. Size(q) = Len(h) + Len(l) /\ Size(r) = Len(g) + Len(m) /\ Size(j) = Len(j.high) + Len(j.normal)
    BY DEF Size
<1> HIDE DEF h, l, g, m, j
<1>7. Len(h \o g) = Len(h) + Len(g) /\ Len(l \o m) = Len(l) + Len(m)
    BY <1>1, <1>2
<1>8. Len(h) \in Nat /\ Len(g) \in Nat /\ Len(l) \in Nat /\ Len(m) \in Nat
    BY <1>1, <1>2
<1>9. (Len(h) + Len(g)) + (Len(l) + Len(m)) = (Len(h) + Len(l)) + (Len(g) + Len(m))
    BY <1>8
<1>10. Size(j) = Size(q) + Size(r)
    BY <1>5, <1>6, <1>7, <1>9
<1> QED
    BY <1>3, <1>4, <1>10 DEF j

\* An event joins a lane of a queue.
LEMMA PushQueue ==
    ASSUME NEW q \in Queue, NEW lane \in Priority, NEW e \in Nat
    PROVE  /\ Push(q, lane, e) \in Queue
           /\ Push(q, lane, e)[lane] = Append(q[lane], e)
           /\ \A pri \in Priority : pri # lane => Push(q, lane, e)[pri] = q[pri]
<1>1. q[lane] \in Seq(Nat) /\ DOMAIN q = Priority
    BY DEF Queue
<1>2. Append(q[lane], e) \in Seq(Nat)
    BY <1>1
<1> QED
    BY <1>1, <1>2 DEF Push, Queue

\* try_send on an open channel c moves what fits, from the front, and nothing else.
LEMMA TrySend ==
    ASSUME NEW c \in Queue, NEW b \in Queue, Size(c) <= ChannelCap
    PROVE  LET n == Min({Size(b), ChannelCap - Size(c)}) IN
           /\ n \in 0..Size(b) /\ Rest(b, n) \in Queue
           /\ Join(c, First(b, n)) \in Queue /\ Size(Join(c, First(b, n))) <= ChannelCap
           /\ \A pri \in Priority : Join(c, First(b, n))[pri] \o Rest(b, n)[pri] = c[pri] \o b[pri]
<1> DEFINE n == Min({Size(b), ChannelCap - Size(c)})
           s == Size(b)
           t == Size(c)
<1>1. s \in Nat /\ t \in Nat /\ t <= ChannelCap /\ ChannelCap \in Nat
    BY Lanes, SendingAssumption
<1>2. n = Min({s, ChannelCap - t})
    OBVIOUS
<1> HIDE DEF n, s, t
<1>3. n = IF s <= ChannelCap - t THEN s ELSE ChannelCap - t
    <2>1. s \in Int /\ ChannelCap - t \in Int
        BY <1>1
    <2> QED
        BY <1>2, <2>1, MinMax
<1>4. n \in 0..s /\ t + n <= ChannelCap
    BY <1>1, <1>3
<1>5. n \in 0..Size(b)
    BY <1>4 DEF s
<1>6. First(b, n) \in Queue /\ Rest(b, n) \in Queue /\ Size(First(b, n)) = n
    BY <1>5, FirstRest
<1>7. /\ Join(c, First(b, n)) \in Queue /\ Size(Join(c, First(b, n))) = t + n
      /\ \A pri \in Priority : Join(c, First(b, n))[pri] = c[pri] \o First(b, n)[pri]
    BY <1>6, JoinQueue DEF t
<1>8. ASSUME NEW pri \in Priority
      PROVE  Join(c, First(b, n))[pri] \o Rest(b, n)[pri] = c[pri] \o b[pri]
    <2>1. First(b, n)[pri] \o Rest(b, n)[pri] = b[pri]
        BY <1>5, FirstThenRest
    <2>2. c[pri] \in Seq(Nat) /\ First(b, n)[pri] \in Seq(Nat) /\ Rest(b, n)[pri] \in Seq(Nat)
        BY <1>6 DEF Queue
    <2>3. (c[pri] \o First(b, n)[pri]) \o Rest(b, n)[pri]
              = c[pri] \o (First(b, n)[pri] \o Rest(b, n)[pri])
        BY <2>2, Associative
    <2> QED
        BY <1>7, <2>1, <2>3
<1>9. /\ n \in 0..Size(b) /\ Rest(b, n) \in Queue
      /\ Join(c, First(b, n)) \in Queue /\ Size(Join(c, First(b, n))) <= ChannelCap
    BY <1>4, <1>5, <1>6, <1>7
<1> QED
    BY <1>8, <1>9 DEF n

\* A lane of a live stream.
LiveLane(w, c, b, acc, wi) ==
    /\ wi <= acc
    /\ \A i \in 1..Len(w) : w[i] = wi + i
    /\ Ordered(w \o c \o b, wi, acc)

\* A live stream is a live lane of each priority.
LEMMA LiveLanes ==
    ASSUME NEW w, NEW c, NEW b, NEW acc, NEW wi
    PROVE  Live(w, c, b, acc, wi) <=>
               \A pri \in Priority : LiveLane(w[pri], c[pri], b[pri], acc[pri], wi[pri])
BY DEF Live, LiveLane

\* The session's buffer and the channel together are what counts.
LEMMA LaneMoves ==
    ASSUME NEW w \in Seq(Nat), NEW c \in Seq(Nat), NEW b \in Seq(Nat), NEW c2 \in Seq(Nat),
           NEW b2 \in Seq(Nat), NEW acc \in Nat, NEW wi \in Nat,
           LiveLane(w, c, b, acc, wi), c2 \o b2 = c \o b
    PROVE  LiveLane(w, c2, b2, acc, wi)
<1>1. (w \o c) \o b = w \o (c \o b) /\ (w \o c2) \o b2 = w \o (c2 \o b2)
    BY Associative, ZenonT(40)
<1>2. (w \o c2) \o b2 = (w \o c) \o b
    BY <1>1
<1> QED
    BY <1>2 DEF LiveLane

\* One more message is accepted.
LEMMA LaneAccepts ==
    ASSUME NEW w \in Seq(Nat), NEW c \in Seq(Nat), NEW b \in Seq(Nat), NEW acc \in Nat,
           NEW wi \in Nat, LiveLane(w, c, b, acc, wi)
    PROVE  LiveLane(w, c, Append(b, acc + 1), acc + 1, wi)
<1> DEFINE q == (w \o c) \o b
<1>1. q \in Seq(Nat) /\ (w \o c) \o Append(b, acc + 1) = Append(q, acc + 1)
    BY SMTT(40)
<1>2. wi <= acc /\ Ordered(q, wi, acc)
    BY DEF LiveLane
<1> HIDE DEF q
<1>3. Ordered(Append(q, acc + 1), wi, acc + 1)
    BY <1>1, <1>2, OrderedAppend
<1>4. wi <= acc + 1
    BY <1>2
<1> QED
    BY <1>1, <1>3, <1>4 DEF LiveLane

\* A close command is queued.
LEMMA LaneCloses ==
    ASSUME NEW w \in Seq(Nat), NEW c \in Seq(Nat), NEW b \in Seq(Nat), NEW acc \in Nat,
           NEW wi \in Nat, LiveLane(w, c, b, acc, wi)
    PROVE  LiveLane(w, c, Append(b, Close), acc, wi)
<1> DEFINE q == (w \o c) \o b
<1>1. q \in Seq(Nat) /\ (w \o c) \o Append(b, Close) = Append(q, Close)
    BY SMTT(40) DEF Close
<1>2. wi <= acc /\ Ordered(q, wi, acc)
    BY DEF LiveLane
<1> HIDE DEF q
<1>3. Ordered(Append(q, Close), wi, acc)
    BY <1>1, <1>2, OrderedClose
<1> QED
    BY <1>1, <1>2, <1>3 DEF LiveLane

\* The sink takes the first k frames of the write buffer.
LEMMA LaneSends ==
    ASSUME NEW w \in Seq(Nat), NEW c \in Seq(Nat), NEW b \in Seq(Nat), NEW acc \in Nat,
           NEW wi \in Nat, LiveLane(w, c, b, acc, wi), NEW k \in 0..Len(w)
    PROVE  LiveLane(SubSeq(w, k + 1, Len(w)), c, b, acc, wi + k)
<1> DEFINE q == (w \o c) \o b
           v == SubSeq(w, k + 1, Len(w))
           t == c \o b
           l == Len(w)
           m == Len(q)
<1>1. /\ q \in Seq(Nat) /\ m = Len(w) + Len(c) + Len(b)
      /\ \A i \in 1..l : q[i] = w[i]
    BY InFirst
<1>2. l \in Nat /\ m \in Nat /\ l <= m /\ k \in Nat /\ k <= l
    BY <1>1
<1>3. wi <= acc /\ Ordered(q, wi, acc) /\ \A i \in 1..l : w[i] = wi + i
    BY DEF LiveLane
<1>4. t \in Seq(Nat) /\ q = w \o t
    <2>1. t \in Seq(Nat)
        OBVIOUS
    <2>2. (w \o c) \o b = w \o (c \o b)
        BY Associative
    <2> QED
        BY <2>1, <2>2
<1>5. v \in Seq(Nat) /\ Len(v) = l - k /\ \A i \in 1..(l - k) : v[i] = w[k + i] /\ k + i \in 1..l
    OBVIOUS
<1>6. SubSeq(w \o t, k + 1, Len(w \o t)) = v \o t
    <2>1. t \in Seq(Nat)
        BY <1>4
    <2> HIDE DEF t
    <2> QED
        BY <2>1, DropFirst
<1>7. v \o t = (v \o c) \o b
    <2>1. v \in Seq(Nat)
        BY <1>5
    <2> HIDE DEF v
    <2> QED
        BY <2>1, Associative
<1>8. SubSeq(q, k + 1, m) = (v \o c) \o b
    BY <1>4, <1>6, <1>7
<1>9. m = Len(q)
    OBVIOUS
<1> HIDE DEF q, v, t, l, m
<1>10. k \in 0..m /\ \A i \in 1..k : i \in 1..l
    BY <1>2
<1>11. \A i \in 1..k : q[i] = wi + i
    BY <1>1, <1>3, <1>10
<1>12. Ordered(SubSeq(q, k + 1, m), wi + k, acc)
    BY <1>1, <1>3, <1>9, <1>10, <1>11, OrderedDrop
<1>13. wi + k <= acc
    <2>1. CASE k = 0
        BY <1>3, <2>1
    <2>2. CASE k > 0
        <3>1. k \in 1..k /\ k \in 1..m /\ wi + k # 0
            BY <1>2, <2>2
        <3>2. q[k] = wi + k
            BY <1>11, <3>1
        <3>3. IsMessage(q[k])
            BY <3>1, <3>2 DEF IsMessage, Close
        <3>4. q[k] \in (wi + 1)..acc
            BY <1>3, <1>9, <3>1, <3>3 DEF Ordered
        <3> QED
            BY <3>2, <3>4
    <2> QED
        BY <1>2, <2>1, <2>2
<1>14. \A i \in 1..(l - k) : v[i] = (wi + k) + i
    <2> SUFFICES ASSUME NEW i \in 1..(l - k)
                 PROVE  v[i] = (wi + k) + i
        OBVIOUS
    <2>1. v[i] = w[k + i] /\ k + i \in 1..l
        BY <1>5
    <2>2. w[k + i] = wi + (k + i)
        BY <1>3, <2>1
    <2> QED
        BY <1>2, <2>1, <2>2
<1>15. LiveLane(v, c, b, acc, wi + k)
    BY <1>5, <1>8, <1>12, <1>13, <1>14 DEF LiveLane
<1> QED
    BY <1>15 DEF v, l

\* The stream receives a message.
LEMMA LaneReceives ==
    ASSUME NEW w \in Seq(Nat), NEW c \in Seq(Nat), NEW b \in Seq(Nat), NEW acc \in Nat,
           NEW wi \in Nat, LiveLane(w, c, b, acc, wi), c # <<>>, Head(c) # Close
    PROVE  LiveLane(Append(w, Head(c)), Tail(c), b, acc, wi)
<1> DEFINE q == (w \o c) \o b
           l == Len(w)
           e == Head(c)
<1>1. /\ q \in Seq(Nat) /\ \A i \in 1..l : q[i] = w[i]
      /\ l < Len(q) /\ q[l + 1] = e /\ l \in Nat
    BY InFirst
<1>2. wi <= acc /\ Ordered(q, wi, acc) /\ \A i \in 1..l : w[i] = wi + i
    BY DEF LiveLane
<1>3. Append(w, e) \o Tail(c) = w \o c
    BY MoveHead
<1>4. /\ e \in Nat /\ Len(Append(w, e)) = l + 1 /\ Append(w, e)[l + 1] = e
      /\ \A i \in 1..l : Append(w, e)[i] = w[i]
    OBVIOUS
<1>5. IsMessage(e)
    BY DEF IsMessage
<1>6. (Append(w, e) \o Tail(c)) \o b = q
    BY <1>3
<1> HIDE DEF q, l, e
<1>7. \A i \in 1..l : q[i] = wi + i
    BY <1>1, <1>2
<1>8. q[l + 1] = wi + (l + 1)
    BY <1>1, <1>2, <1>5, <1>7, OrderedNext
<1>9. \A i \in 1..(l + 1) : i \in 1..l \/ i = l + 1
    BY <1>1
<1>10. \A i \in 1..(l + 1) : Append(w, e)[i] = wi + i
    BY <1>1, <1>2, <1>4, <1>8, <1>9
<1>11. LiveLane(Append(w, e), Tail(c), b, acc, wi)
    BY <1>2, <1>4, <1>6, <1>10 DEF LiveLane
<1> QED
    BY <1>11 DEF e

\* A stream that is opened.
LEMMA LaneOpens ==
    LiveLane(<<>>, <<>>, <<>>, 0, 0)
<1>1. (<<>> \o <<>>) \o <<>> = <<>>
    OBVIOUS
<1>2. Ordered(<<>>, 0, 0)
    BY DEF Ordered
<1> QED
    BY <1>1, <1>2 DEF LiveLane

\* A message is accepted in a lane: its count, and the session's buffer.
Counted(acc, lane) == [acc EXCEPT ![lane] = @ + 1]
WithNext(b, lane, acc) == Push(b, lane, acc[lane] + 1)

\* What a live stream accepts.
LEMMA StreamAccepts ==
    ASSUME NEW w \in Queue, NEW c \in Queue, NEW b \in Queue, NEW acc \in Counts,
           NEW wi \in Counts, NEW ph \in {"open", "dead"}, StreamOK(ph, w, c, b, acc, wi),
           NEW lane \in Priority
    PROVE  /\ WithNext(b, lane, acc) \in Queue /\ Counted(acc, lane) \in Counts
           /\ StreamOK(ph, w, c, WithNext(b, lane, acc), Counted(acc, lane), wi)
<1> DEFINE b2 == Push(b, lane, acc[lane] + 1)
           acc2 == [acc EXCEPT ![lane] = @ + 1]
<1>1. /\ acc[lane] \in Nat /\ acc[lane] + 1 \in Nat /\ acc2 \in Counts
      /\ acc2[lane] = acc[lane] + 1 /\ \A pri \in Priority : pri # lane => acc2[pri] = acc[pri]
    BY DEF Counts
<1>2. /\ b2 \in Queue /\ b2[lane] = Append(b[lane], acc[lane] + 1)
      /\ \A pri \in Priority : pri # lane => b2[pri] = b[pri]
    BY <1>1, PushQueue
<1> HIDE DEF b2, acc2
<1>3. ASSUME ph = "open"
      PROVE  Live(w, c, b2, acc2, wi)
    <2>1. \A pri \in Priority : LiveLane(w[pri], c[pri], b[pri], acc[pri], wi[pri])
        BY <1>3, LiveLanes DEF StreamOK
    <2>2. ASSUME NEW pri \in Priority
          PROVE  LiveLane(w[pri], c[pri], b2[pri], acc2[pri], wi[pri])
        <3>1. /\ w[pri] \in Seq(Nat) /\ c[pri] \in Seq(Nat) /\ b[pri] \in Seq(Nat)
              /\ acc[pri] \in Nat /\ wi[pri] \in Nat
            BY DEF Queue, Counts
        <3>2. LiveLane(w[pri], c[pri], Append(b[pri], acc[pri] + 1), acc[pri] + 1, wi[pri])
            BY <2>1, <3>1, LaneAccepts
        <3> QED
            BY <1>1, <1>2, <2>1, <3>2
    <2> QED
        BY <2>2, LiveLanes
<1>4. StreamOK(ph, w, c, b2, acc2, wi)
    BY <1>3 DEF StreamOK
<1> QED
    BY <1>1, <1>2, <1>4 DEF b2, acc2, WithNext, Counted

\* A close command for a live stream.
LEMMA StreamCloses ==
    ASSUME NEW w \in Queue, NEW c \in Queue, NEW b \in Queue, NEW acc \in Counts,
           NEW wi \in Counts, NEW ph \in {"open", "dead"}, StreamOK(ph, w, c, b, acc, wi)
    PROVE  /\ Push(b, "high", Close) \in Queue
           /\ StreamOK(ph, w, c, Push(b, "high", Close), acc, wi)
<1> DEFINE b2 == Push(b, "high", Close)
<1>1. Close \in Nat /\ "high" \in Priority
    BY DEF Close, Priority
<1>2. /\ b2 \in Queue /\ b2["high"] = Append(b["high"], Close)
      /\ \A pri \in Priority : pri # "high" => b2[pri] = b[pri]
    BY <1>1, PushQueue
<1> HIDE DEF b2
<1>3. ASSUME ph = "open"
      PROVE  Live(w, c, b2, acc, wi)
    <2>1. \A pri \in Priority : LiveLane(w[pri], c[pri], b[pri], acc[pri], wi[pri])
        BY <1>3, LiveLanes DEF StreamOK
    <2>2. ASSUME NEW pri \in Priority
          PROVE  LiveLane(w[pri], c[pri], b2[pri], acc[pri], wi[pri])
        <3>1. /\ w[pri] \in Seq(Nat) /\ c[pri] \in Seq(Nat) /\ b[pri] \in Seq(Nat)
              /\ acc[pri] \in Nat /\ wi[pri] \in Nat
            BY DEF Queue, Counts
        <3>2. LiveLane(w[pri], c[pri], Append(b[pri], Close), acc[pri], wi[pri])
            BY <2>1, <3>1, LaneCloses
        <3> QED
            BY <1>2, <2>1, <3>2
    <2> QED
        BY <2>2, LiveLanes
<1>4. StreamOK(ph, w, c, b2, acc, wi)
    BY <1>3 DEF StreamOK
<1> QED
    BY <1>2, <1>4 DEF b2

\* What try_send moves, and what it leaves, of a stream's buffer b and channel c.
MovedOf(ph, c, b) == IF ph = "dead" THEN 0 ELSE Min({Size(b), ChannelCap - Size(c)})
BufferOf(ph, c, b) == IF ph = "dead" THEN Empty ELSE Rest(b, MovedOf(ph, c, b))
ChanOf(ph, c, b) == Join(c, First(b, MovedOf(ph, c, b)))

\* try_send, on an open channel or on a closed one.
LEMMA StreamTries ==
    ASSUME NEW w \in Queue, NEW c \in Queue, NEW b \in Queue, NEW acc \in Counts,
           NEW wi \in Counts, NEW ph \in {"open", "dead"}, StreamOK(ph, w, c, b, acc, wi)
    PROVE  /\ BufferOf(ph, c, b) \in Queue /\ ChanOf(ph, c, b) \in Queue
           /\ StreamOK(ph, w, ChanOf(ph, c, b), BufferOf(ph, c, b), acc, wi)
<1> DEFINE n == IF ph = "dead" THEN 0 ELSE Min({Size(b), ChannelCap - Size(c)})
           b2 == IF ph = "dead" THEN Empty ELSE Rest(b, n)
           c2 == Join(c, First(b, n))
<1>4. b2 = BufferOf(ph, c, b) /\ c2 = ChanOf(ph, c, b)
    BY DEF BufferOf, ChanOf, MovedOf
<1>1. Size(c) <= ChannelCap
    BY DEF StreamOK
<1>2. CASE ph = "dead"
    <2>1. n = 0 /\ b2 = Empty /\ c = Empty /\ w = Empty
        BY <1>2 DEF StreamOK
    <2>2. 0 \in 0..Size(b)
        BY Lanes
    <2>3. First(b, 0) \in Queue /\ Size(First(b, 0)) = 0
        BY <2>2, FirstRest
    <2>4. First(b, 0) = Empty
        BY <2>3, Lanes
    <2>5. Join(Empty, Empty) = Empty
        BY DEF Join, Empty
    <2>6. c2 = Empty
        BY <2>1, <2>4, <2>5
    <2> HIDE DEF b2, c2
    <2>7. StreamOK(ph, w, c2, b2, acc, wi)
        BY <1>1, <1>2, <2>1, <2>6 DEF StreamOK
    <2> QED
        BY <1>4, <2>1, <2>6, <2>7, EmptyQueue
<1>3. CASE ph = "open"
    <2>1. n = Min({Size(b), ChannelCap - Size(c)}) /\ b2 = Rest(b, n)
        BY <1>3
    <2>2. /\ b2 \in Queue /\ c2 \in Queue /\ Size(c2) <= ChannelCap
          /\ \A pri \in Priority : c2[pri] \o b2[pri] = c[pri] \o b[pri]
        <3> DEFINE m == Min({Size(b), ChannelCap - Size(c)})
        <3>1. /\ Rest(b, m) \in Queue
              /\ Join(c, First(b, m)) \in Queue /\ Size(Join(c, First(b, m))) <= ChannelCap
              /\ \A pri \in Priority :
                     Join(c, First(b, m))[pri] \o Rest(b, m)[pri] = c[pri] \o b[pri]
            BY <1>1, TrySend
        <3>2. n = m
            BY <2>1
        <3> HIDE DEF m
        <3>3. b2 = Rest(b, m) /\ c2 = Join(c, First(b, m))
            BY <2>1, <3>2
        <3> HIDE DEF n, b2, c2
        <3> QED
            BY <3>1, <3>3
    <2> HIDE DEF b2, c2
    <2>3. \A pri \in Priority : LiveLane(w[pri], c[pri], b[pri], acc[pri], wi[pri])
        BY <1>3, LiveLanes DEF StreamOK
    <2>4. ASSUME NEW pri \in Priority
          PROVE  LiveLane(w[pri], c2[pri], b2[pri], acc[pri], wi[pri])
        <3>1. /\ w[pri] \in Seq(Nat) /\ c[pri] \in Seq(Nat) /\ b[pri] \in Seq(Nat)
              /\ c2[pri] \in Seq(Nat) /\ b2[pri] \in Seq(Nat)
              /\ acc[pri] \in Nat /\ wi[pri] \in Nat
            BY <2>2 DEF Queue, Counts
        <3> QED
            BY <2>2, <2>3, <3>1, LaneMoves
    <2>5. Live(w, c2, b2, acc, wi)
        BY <2>4, LiveLanes
    <2>6. StreamOK(ph, w, c2, b2, acc, wi)
        BY <1>3, <2>2, <2>5 DEF StreamOK
    <2> QED
        BY <1>4, <2>2, <2>6
<1> QED
    BY <1>2, <1>3

\* What the sink has taken.
Wired(wi, w, n) == [pri \in Priority |-> wi[pri] + Len(First(w, n)[pri])]

\* send_data: the sink takes n frames, high priority first.
LEMMA StreamSends ==
    ASSUME NEW w \in Queue, NEW c \in Queue, NEW b \in Queue, NEW acc \in Counts,
           NEW wi \in Counts, StreamOK("open", w, c, b, acc, wi), NEW n \in 0..Size(w)
    PROVE  /\ Rest(w, n) \in Queue /\ Wired(wi, w, n) \in Counts
           /\ StreamOK("open", Rest(w, n), c, b, acc, Wired(wi, w, n))
<1> DEFINE wi2 == [pri \in Priority |-> wi[pri] + Len(First(w, n)[pri])]
           w2 == Rest(w, n)
<1>1. /\ w2 \in Queue
      /\ \A pri \in Priority :
             /\ Len(First(w, n)[pri]) \in 0..Len(w[pri])
             /\ w2[pri] = SubSeq(w[pri], Len(First(w, n)[pri]) + 1, Len(w[pri]))
    BY FirstRest
<1>2. \A pri \in Priority : wi2[pri] = wi[pri] + Len(First(w, n)[pri])
    OBVIOUS
<1>3. ASSUME NEW pri \in Priority
      PROVE  /\ wi[pri] + Len(First(w, n)[pri]) \in Nat
             /\ LiveLane(w2[pri], c[pri], b[pri], acc[pri], wi2[pri])
    <2> DEFINE k == Len(First(w, n)[pri])
    <2>1. k \in 0..Len(w[pri]) /\ w2[pri] = SubSeq(w[pri], k + 1, Len(w[pri]))
        BY <1>1
    <2>2. wi2[pri] = wi[pri] + k
        BY <1>2
    <2> HIDE DEF k, w2, wi2
    <2>3. /\ w[pri] \in Seq(Nat) /\ c[pri] \in Seq(Nat) /\ b[pri] \in Seq(Nat)
          /\ acc[pri] \in Nat /\ wi[pri] \in Nat
        BY DEF Queue, Counts
    <2>4. LiveLane(w[pri], c[pri], b[pri], acc[pri], wi[pri])
        BY LiveLanes DEF StreamOK
    <2>5. LiveLane(SubSeq(w[pri], k + 1, Len(w[pri])), c[pri], b[pri], acc[pri], wi[pri] + k)
        BY <2>1, <2>3, <2>4, LaneSends
    <2>6. k \in Nat
        BY <2>1
    <2>7. wi[pri] + k \in Nat
        BY <2>3, <2>6
    <2> QED
        BY <2>1, <2>2, <2>5, <2>7 DEF k
<1>4. wi2 \in Counts
    BY <1>3 DEF Counts
<1> HIDE DEF wi2, w2
<1>5. Live(w2, c, b, acc, wi2)
    BY <1>3, LiveLanes
<1>6. StreamOK("open", w2, c, b, acc, wi2)
    BY <1>5 DEF StreamOK
<1> QED
    BY <1>1, <1>4, <1>6 DEF w2, wi2, Wired

\* recv_event takes a message from the channel.
LEMMA StreamReceives ==
    ASSUME NEW w \in Queue, NEW c \in Queue, NEW b \in Queue, NEW acc \in Counts,
           NEW wi \in Counts, StreamOK("open", w, c, b, acc, wi), NEW lane \in Priority,
           c[lane] # <<>>, Head(c[lane]) # Close
    PROVE  LET w2 == Push(w, lane, Head(c[lane]))
               c2 == [c EXCEPT ![lane] = Tail(@)] IN
           w2 \in Queue /\ c2 \in Queue /\ StreamOK("open", w2, c2, b, acc, wi)
<1> DEFINE e == Head(c[lane])
           w2 == Push(w, lane, e)
           c2 == [c EXCEPT ![lane] = Tail(@)]
<1>1. c[lane] \in Seq(Nat) /\ w[lane] \in Seq(Nat) /\ DOMAIN c = Priority
    BY DEF Queue
<1>2. e \in Nat /\ Tail(c[lane]) \in Seq(Nat) /\ Len(Tail(c[lane])) = Len(c[lane]) - 1
    BY <1>1, MoveHead
<1>3. /\ w2 \in Queue /\ w2[lane] = Append(w[lane], e)
      /\ \A pri \in Priority : pri # lane => w2[pri] = w[pri]
    BY <1>2, PushQueue
<1>4. /\ c2 \in Queue /\ c2[lane] = Tail(c[lane])
      /\ \A pri \in Priority : pri # lane => c2[pri] = c[pri]
    BY <1>1, <1>2 DEF Queue
<1> HIDE DEF w2, c2
<1>5. Size(c2) <= ChannelCap
    <2> DEFINE h == Len(c.high)
               l == Len(c.normal)
               h2 == Len(c2.high)
               l2 == Len(c2.normal)
    <2>1. h + l <= ChannelCap /\ ChannelCap \in Nat /\ h \in Nat /\ l \in Nat /\ h2 \in Nat /\ l2 \in Nat
        BY <1>4, Lanes, SendingAssumption DEF StreamOK, Size
    <2>2. c.high = c["high"] /\ c.normal = c["normal"] /\ c2.high = c2["high"] /\ c2.normal = c2["normal"]
        BY <1>4, Lanes
    <2>3. (h2 = h - 1 /\ l2 = l) \/ (h2 = h /\ l2 = l - 1)
        <3>1. CASE lane = "high"
            BY <1>2, <1>4, <2>2, <3>1 DEF Priority
        <3>2. CASE lane = "normal"
            BY <1>2, <1>4, <2>2, <3>2 DEF Priority
        <3> QED
            BY <3>1, <3>2 DEF Priority
    <2>4. Size(c2) = h2 + l2
        BY DEF Size
    <2> HIDE DEF h, l, h2, l2
    <2>5. h2 + l2 <= ChannelCap
        BY <2>1, <2>3
    <2> QED
        BY <2>4, <2>5
<1>6. ASSUME NEW pri \in Priority
      PROVE  LiveLane(w2[pri], c2[pri], b[pri], acc[pri], wi[pri])
    <2>1. LiveLane(w[pri], c[pri], b[pri], acc[pri], wi[pri])
        BY LiveLanes DEF StreamOK
    <2>2. CASE pri = lane
        <3>1. b[lane] \in Seq(Nat) /\ acc[lane] \in Nat /\ wi[lane] \in Nat
            BY DEF Queue, Counts
        <3>2. LiveLane(Append(w[lane], e), Tail(c[lane]), b[lane], acc[lane], wi[lane])
            BY <1>1, <2>1, <2>2, <3>1, LaneReceives
        <3> QED
            BY <1>3, <1>4, <2>2, <3>2
    <2>3. CASE pri # lane
        BY <1>3, <1>4, <2>1, <2>3
    <2> QED
        BY <2>2, <2>3
<1>7. StreamOK("open", w2, c2, b, acc, wi)
    BY <1>5, <1>6, LiveLanes DEF StreamOK
<1> QED
    BY <1>3, <1>4, <1>7 DEF w2, c2

-----------------------------------------------------------------------------
(***************************************************************************)
(* Every step                                                              *)
(***************************************************************************)

IInv == TypeOK /\ Streams

\* A step that changes the stream of p only.
LEMMA OneStream ==
    ASSUME Streams, NEW p \in Protos,
           \A q \in Protos : q # p =>
               /\ phase'[q] = phase[q] /\ writes'[q] = writes[q] /\ chan'[q] = chan[q]
               /\ buffer'[q] = buffer[q] /\ accepted'[q] = accepted[q] /\ wire'[q] = wire[q],
           StreamOK(phase'[p], writes'[p], chan'[p], buffer'[p], accepted'[p], wire'[p])
    PROVE  Streams'
<1>1. \A q \in Protos :
          StreamOK(phase'[q], writes'[q], chan'[q], buffer'[q], accepted'[q], wire'[q])
    BY DEF Streams
<1> QED
    BY <1>1 DEF Streams

\* A step that leaves the streams alone.
LEMMA NoStream ==
    ASSUME Streams, UNCHANGED <<queues, accepted, wire, phase>>
    PROVE  Streams'
BY DEF Streams, queues

\* What a queue of events in a type state holds.
LEMMA StreamTypes ==
    ASSUME TypeOK, NEW p \in Protos
    PROVE  /\ writes[p] \in Queue /\ chan[p] \in Queue /\ buffer[p] \in Queue
           /\ accepted[p] \in Counts /\ wire[p] \in Counts
           /\ phase[p] \in {"closed", "open", "dead"}
BY DEF TypeOK

\* An event joins the session's channel.
LEMMA PushInbox ==
    ASSUME NEW q \in [Priority -> Seq(Event)], NEW lane \in Priority, NEW e \in Event
    PROVE  Push(q, lane, e) \in [Priority -> Seq(Event)]
<1>1. Append(q[lane], e) \in Seq(Event)
    OBVIOUS
<1> QED
    BY <1>1 DEF Push

\* The service hands over.
LEMMA HandStep ==
    ASSUME IInv,
           \/ \E p \in Protos, pri \in Priority : handle_message(p, pri)
           \/ \E p \in Protos : protocol_close(p)
    PROVE  IInv'
<1>1. Streams'
    BY NoStream DEF IInv, handle_message, protocol_close
<1>2. ASSUME NEW p \in Protos, NEW pri \in Priority, NEW cl \in BOOLEAN
      PROVE  <<[proto |-> p, pri |-> pri, close |-> cl]>> \in Seq(Event)
    BY DEF Event
<1>3. CASE \E p \in Protos, pri \in Priority : handle_message(p, pri)
    <2>1. PICK p \in Protos, pri \in Priority : handle_message(p, pri)
        BY <1>3
    <2>2. FALSE \in BOOLEAN
        OBVIOUS
    <2>3. hand' \in Seq(Event)
        BY <1>2, <2>1, <2>2 DEF handle_message
    <2>4. pending' \in Int /\ sent' \in Nat
        BY <2>1 DEF IInv, TypeOK, handle_message
    <2>5. TypeOK'
        BY <2>1, <2>3, <2>4 DEF IInv, TypeOK, handle_message, queues
    <2> QED
        BY <1>1, <2>5 DEF IInv
<1>4. CASE \E p \in Protos : protocol_close(p)
    <2>1. "high" \in Priority /\ TRUE \in BOOLEAN
        BY DEF Priority
    <2>2. PICK p \in Protos : protocol_close(p)
        BY <1>4
    <2>3. hand' \in Seq(Event)
        BY <1>2, <2>1, <2>2 DEF protocol_close
    <2>4. sent' \in Nat
        BY <2>2 DEF IInv, TypeOK, protocol_close
    <2>6. TypeOK'
        BY <2>2, <2>3, <2>4 DEF IInv, TypeOK, protocol_close, queues
    <2> QED
        BY <1>1, <2>6 DEF IInv
<1> QED
    BY <1>1, <1>3, <1>4 DEF IInv

\* ... and sends.
LEMMA SendStep ==
    ASSUME IInv, SessionSend
    PROVE  IInv'
<1>1. Streams'
    BY NoStream DEF IInv, SessionSend
<1>2. hand \in Seq(Event) /\ inbox \in [Priority -> Seq(Event)]
    BY DEF IInv, TypeOK
<1>3. hand[1] \in Event /\ hand[1].pri \in Priority
    <2>1. hand # <<>>
        BY DEF SessionSend
    <2>2. 1 \in 1..Len(hand)
        BY <1>2, <2>1
    <2>3. hand[1] \in Event
        BY <1>2, <2>2
    <2> QED
        BY <2>3 DEF Event
<1>4. inbox' \in [Priority -> Seq(Event)]
    <2>1. CASE UNCHANGED inbox
        BY <1>2, <2>1
    <2>2. CASE inbox' = Push(inbox, hand[1].pri, hand[1])
        BY <1>2, <1>3, <2>2, PushInbox
    <2> QED
        BY <2>1, <2>2 DEF SessionSend
<1>5. hand' \in Seq(Event)
    BY DEF SessionSend
<1>6. TypeOK'
    BY <1>4, <1>5 DEF IInv, TypeOK, SessionSend, queues
<1> QED
    BY <1>1, <1>6 DEF IInv

\* try_send for a stream that is open or dead, with what is to be its buffer.
LEMMA Tries ==
    ASSUME TypeOK, NEW p \in Protos, phase[p] # "closed", NEW b \in Queue, NEW acc \in Counts,
           StreamOK(phase[p], writes[p], chan[p], b, acc, wire[p])
    PROVE  /\ BufferAfter(p, b) \in Queue /\ ChanAfter(p, b) \in Queue
           /\ StreamOK(phase[p], writes[p], ChanAfter(p, b), BufferAfter(p, b), acc, wire[p])
<1> DEFINE b2 == BufferOf(phase[p], chan[p], b)
           c2 == ChanOf(phase[p], chan[p], b)
<1>1. /\ writes[p] \in Queue /\ chan[p] \in Queue /\ wire[p] \in Counts
      /\ phase[p] \in {"open", "dead"}
    BY StreamTypes
<1>2. b2 \in Queue /\ c2 \in Queue /\ StreamOK(phase[p], writes[p], c2, b2, acc, wire[p])
    BY <1>1, StreamTries
<1>3. BufferAfter(p, b) = b2 /\ ChanAfter(p, b) = c2
    BY DEF BufferAfter, ChanAfter, Moved, BufferOf, ChanOf, MovedOf
<1> QED
    BY <1>2, <1>3

\* The session takes a command from its channel.
LEMMA ServiceStep ==
    ASSUME IInv, recv_service
    PROVE  IInv'
<1> DEFINE lane == IF inbox.high # <<>> THEN "high" ELSE "normal"
           e == Head(inbox[lane])
           p == e.proto
<1>1. /\ inbox # Empty /\ inbox' = [inbox EXCEPT ![lane] = Tail(@)]
      /\ UNCHANGED <<hand, writes, wire, phase, pending, state, sent, opens>>
      /\ IF phase[p] = "closed"
         THEN UNCHANGED <<buffer, chan, accepted>>
         ELSE IF e.close
              THEN try_send(p, Push(buffer[p], "high", Close)) /\ UNCHANGED accepted
              ELSE /\ accepted' = [accepted EXCEPT ![p][e.pri] = @ + 1]
                   /\ try_send(p, Push(buffer[p], e.pri, accepted[p][e.pri] + 1))
    BY DEF recv_service
<1>2. lane \in Priority /\ inbox \in [Priority -> Seq(Event)]
    BY DEF Priority, IInv, TypeOK
<1>3. inbox[lane] # <<>>
    BY <1>1, <1>2 DEF Empty, Priority
<1>4. e \in Event /\ inbox' \in [Priority -> Seq(Event)]
    <2> HIDE DEF lane
    <2>1. inbox[lane] \in Seq(Event)
        BY <1>2
    <2>2. Tail(inbox[lane]) \in Seq(Event) /\ Head(inbox[lane]) \in Event
        BY <1>3, <2>1
    <2> QED
        BY <1>1, <1>2, <2>2
<1> HIDE DEF lane, e
<1>5. p \in Protos /\ e.pri \in Priority
    BY <1>4 DEF Event
<1> HIDE DEF p
<1>6. TypeOK /\ Streams
    BY DEF IInv
<1>7. /\ writes[p] \in Queue /\ chan[p] \in Queue /\ buffer[p] \in Queue
      /\ accepted[p] \in Counts /\ wire[p] \in Counts
      /\ phase[p] \in {"closed", "open", "dead"}
    BY <1>5, <1>6, StreamTypes
<1>8. StreamOK(phase[p], writes[p], chan[p], buffer[p], accepted[p], wire[p])
    BY <1>5, <1>6 DEF Streams
<1>9. CASE phase[p] = "closed"
    <2>1. Streams'
        BY <1>1, <1>6, <1>9, NoStream DEF queues
    <2>2. TypeOK'
        BY <1>1, <1>4, <1>6, <1>9 DEF TypeOK
    <2> QED
        BY <2>1, <2>2 DEF IInv
<1>10. ASSUME NEW b \in Queue, NEW acc \in Counts, phase[p] # "closed", try_send(p, b),
              StreamOK(phase[p], writes[p], chan[p], b, acc, wire[p]),
              accepted' = [accepted EXCEPT ![p] = acc]
       PROVE  IInv'
    <2>1. /\ BufferAfter(p, b) \in Queue /\ ChanAfter(p, b) \in Queue
          /\ StreamOK(phase[p], writes[p], ChanAfter(p, b), BufferAfter(p, b), acc, wire[p])
        BY <1>5, <1>6, <1>10, Tries
    <2>2. /\ buffer' = [buffer EXCEPT ![p] = BufferAfter(p, b)]
          /\ chan' = [chan EXCEPT ![p] = ChanAfter(p, b)]
        BY <1>10 DEF try_send
    <2>3. /\ buffer \in [Protos -> Queue] /\ chan \in [Protos -> Queue]
          /\ accepted \in [Protos -> Counts]
        BY <1>6 DEF TypeOK
    <2>4. /\ buffer'[p] = BufferAfter(p, b) /\ chan'[p] = ChanAfter(p, b) /\ accepted'[p] = acc
          /\ \A q \in Protos : q # p =>
                 chan'[q] = chan[q] /\ buffer'[q] = buffer[q] /\ accepted'[q] = accepted[q]
        BY <1>5, <1>10, <2>2, <2>3
    <2>5. Streams'
        BY <1>1, <1>5, <1>6, <2>1, <2>4, OneStream
    <2>6. /\ buffer' \in [Protos -> Queue] /\ chan' \in [Protos -> Queue]
          /\ accepted' \in [Protos -> Counts]
        BY <1>10, <2>1, <2>2, <2>3
    <2>7. TypeOK'
        BY <1>1, <1>4, <1>6, <2>6 DEF TypeOK
    <2> QED
        BY <2>5, <2>7 DEF IInv
<1>11. CASE phase[p] # "closed" /\ e.close
    <2>1. phase[p] \in {"open", "dead"}
        BY <1>7, <1>11
    <2>2. /\ Push(buffer[p], "high", Close) \in Queue
          /\ StreamOK(phase[p], writes[p], chan[p], Push(buffer[p], "high", Close), accepted[p], wire[p])
        BY <1>7, <1>8, <2>1, StreamCloses
    <2>3. accepted' = [accepted EXCEPT ![p] = accepted[p]]
        BY <1>1, <1>6, <1>11 DEF TypeOK
    <2>4. try_send(p, Push(buffer[p], "high", Close))
        BY <1>1, <1>11
    <2> QED
        BY <1>7, <1>10, <1>11, <2>2, <2>3, <2>4
<1>12. CASE phase[p] # "closed" /\ ~e.close
    <2> DEFINE b == WithNext(buffer[p], e.pri, accepted[p])
               acc == Counted(accepted[p], e.pri)
    <2>1. phase[p] \in {"open", "dead"}
        BY <1>7, <1>12
    <2>2. b \in Queue /\ acc \in Counts /\ StreamOK(phase[p], writes[p], chan[p], b, acc, wire[p])
        BY <1>5, <1>7, <1>8, <2>1, StreamAccepts
    <2>3. accepted' = [accepted EXCEPT ![p] = acc]
        BY <1>1, <1>12 DEF Counted
    <2>4. try_send(p, b)
        BY <1>1, <1>12 DEF WithNext
    <2> HIDE DEF b, acc
    <2> QED
        BY <1>10, <1>12, <2>2, <2>3, <2>4
<1> QED
    BY <1>9, <1>11, <1>12

\* The queues of every protocol empty.
LEMMA AllEmpty ==
    [p \in Protos |-> Empty] \in [Protos -> Queue]
BY EmptyQueue

\* A stream that is closed, whatever it has sent.
LEMMA ClosedStream ==
    ASSUME NEW acc, NEW wi
    PROVE  StreamOK("closed", Empty, Empty, Empty, acc, wi)
<1>1. 0 <= ChannelCap
    BY SendingAssumption
<1> QED
    BY <1>1, EmptyQueue DEF StreamOK

\* The session ends.
LEMMA EndStep ==
    ASSUME IInv, \E how \in {"killed", "ended"} : End(how),
           UNCHANGED <<hand, accepted, wire, pending, sent, opens>>
    PROVE  IInv'
<1>1. /\ buffer' = [p \in Protos |-> Empty] /\ chan' = buffer' /\ writes' = buffer'
      /\ phase' = [p \in Protos |-> "closed"] /\ inbox' = Empty /\ state' \in {"killed", "ended"}
    BY DEF End
<1>2. Streams'
    <2>1. \A p \in Protos :
              StreamOK(phase'[p], writes'[p], chan'[p], buffer'[p], accepted'[p], wire'[p])
        BY <1>1, ClosedStream
    <2> QED
        BY <2>1 DEF Streams
<1>3. inbox' \in [Priority -> Seq(Event)]
    BY <1>1 DEF Empty
<1>4. /\ buffer' \in [Protos -> Queue] /\ chan' \in [Protos -> Queue] /\ writes' \in [Protos -> Queue]
      /\ phase' \in [Protos -> {"closed", "open", "dead"}]
    BY <1>1, AllEmpty
<1>5. TypeOK'
    BY <1>1, <1>3, <1>4 DEF IInv, TypeOK
<1> QED
    BY <1>2, <1>5 DEF IInv

\* The session serves some of the streams that wait.
LEMMA ServeStep ==
    ASSUME IInv, NEW S \in SUBSET Waiting, Serve(S),
           UNCHANGED <<hand, accepted, wire, pending, sent, opens>>
    PROVE  IInv'
<1>1. /\ buffer' = [p \in Protos |-> IF p \in S THEN BufferAfter(p, buffer[p]) ELSE buffer[p]]
      /\ chan' = [p \in Protos |-> IF p \in S THEN ChanAfter(p, buffer[p]) ELSE chan[p]]
      /\ UNCHANGED <<inbox, writes, phase, state>>
    BY DEF Serve
<1>2. TypeOK /\ Streams
    BY DEF IInv
<1>3. ASSUME NEW p \in Protos
      PROVE  /\ buffer'[p] \in Queue /\ chan'[p] \in Queue
             /\ StreamOK(phase'[p], writes'[p], chan'[p], buffer'[p], accepted'[p], wire'[p])
    <2>1. /\ writes[p] \in Queue /\ chan[p] \in Queue /\ buffer[p] \in Queue
          /\ accepted[p] \in Counts /\ wire[p] \in Counts
        BY <1>2, StreamTypes
    <2>2. StreamOK(phase[p], writes[p], chan[p], buffer[p], accepted[p], wire[p])
        BY <1>2 DEF Streams
    <2>3. phase'[p] = phase[p] /\ writes'[p] = writes[p] /\ accepted'[p] = accepted[p] /\ wire'[p] = wire[p]
        BY <1>1
    <2>4. CASE p \in S
        <3>1. buffer[p] # Empty
            BY <2>4 DEF Waiting
        <3>2. phase[p] # "closed"
            BY <2>2, <3>1 DEF StreamOK
        <3>3. buffer'[p] = BufferAfter(p, buffer[p]) /\ chan'[p] = ChanAfter(p, buffer[p])
            BY <1>1, <2>4
        <3>4. /\ BufferAfter(p, buffer[p]) \in Queue /\ ChanAfter(p, buffer[p]) \in Queue
              /\ StreamOK(phase[p], writes[p], ChanAfter(p, buffer[p]), BufferAfter(p, buffer[p]),
                          accepted[p], wire[p])
            BY <1>2, <2>1, <2>2, <3>2, Tries
        <3> QED
            BY <2>3, <3>3, <3>4
    <2>5. CASE p \notin S
        <3>1. buffer'[p] = buffer[p] /\ chan'[p] = chan[p]
            BY <1>1, <2>5
        <3> QED
            BY <2>1, <2>2, <2>3, <3>1
    <2> QED
        BY <2>4, <2>5
<1>4. Streams'
    BY <1>3 DEF Streams
<1>5. buffer' \in [Protos -> Queue] /\ chan' \in [Protos -> Queue]
    <2>1. DOMAIN buffer' = Protos /\ DOMAIN chan' = Protos
        BY <1>1
    <2>2. /\ buffer' = [p \in Protos |-> buffer'[p]]
          /\ chan' = [p \in Protos |-> chan'[p]]
        BY <1>1
    <2> QED
        BY <1>3, <2>2
<1>6. TypeOK'
    BY <1>1, <1>2, <1>5 DEF TypeOK
<1> QED
    BY <1>4, <1>6 DEF IInv

\* The session hands on what its buffers hold, or is killed.
LEMMA DistributeStep ==
    ASSUME IInv, distribute_to_substream
    PROVE  IInv'
<1>1. UNCHANGED <<hand, accepted, wire, pending, sent, opens>>
    BY DEF distribute_to_substream
<1>2. \/ Serve(Waiting)
      \/ End("killed")
      \/ \E S \in SUBSET Waiting : Serve(S)
    <2>1. ASSUME NEW stuck \in Waiting, NEW before \in SUBSET (Waiting \ {stuck})
          PROVE  before \cup {stuck} \in SUBSET Waiting
        OBVIOUS
    <2> QED
        BY <2>1 DEF distribute_to_substream
<1>3. Waiting \in SUBSET Waiting
    OBVIOUS
<1> QED
    BY <1>1, <1>2, <1>3, ServeStep, EndStep

\* A new stream.
LEMMA OpenStep ==
    ASSUME IInv, NEW p \in Protos, open_protocol(p)
    PROVE  IInv'
<1>1. TypeOK /\ Streams
    BY DEF IInv
<1> DEFINE zero == [pri \in Priority |-> 0]
<1>2. zero \in Counts /\ \A pri \in Priority : zero[pri] = 0
    BY DEF Counts
<1>3. /\ phase[p] = "closed" /\ phase' = [phase EXCEPT ![p] = "open"] /\ opens' = opens + 1
      /\ accepted' = [accepted EXCEPT ![p] = zero] /\ wire' = [wire EXCEPT ![p] = zero]
      /\ UNCHANGED <<hand, inbox, buffer, chan, writes, pending, state, sent>>
    BY DEF open_protocol, queues
<1> HIDE DEF zero
<1>4. StreamOK(phase[p], writes[p], chan[p], buffer[p], accepted[p], wire[p])
    BY <1>1 DEF Streams
<1>5. writes[p] = Empty /\ chan[p] = Empty /\ buffer[p] = Empty /\ Size(chan[p]) <= ChannelCap
    BY <1>3, <1>4 DEF StreamOK
<1>6. Live(Empty, Empty, Empty, zero, zero)
    <2>1. \A pri \in Priority : LiveLane(Empty[pri], Empty[pri], Empty[pri], zero[pri], zero[pri])
        BY <1>2, LaneOpens, EmptyQueue
    <2> QED
        BY <2>1, LiveLanes
<1>7. StreamOK("open", Empty, Empty, Empty, zero, zero)
    BY <1>5, <1>6 DEF StreamOK
<1>8. /\ phase'[p] = "open" /\ accepted'[p] = zero /\ wire'[p] = zero
      /\ writes'[p] = Empty /\ chan'[p] = Empty /\ buffer'[p] = Empty
      /\ \A q \in Protos : q # p =>
             /\ phase'[q] = phase[q] /\ writes'[q] = writes[q] /\ chan'[q] = chan[q]
             /\ buffer'[q] = buffer[q] /\ accepted'[q] = accepted[q] /\ wire'[q] = wire[q]
    BY <1>1, <1>3, <1>5 DEF TypeOK
<1>9. Streams'
    BY <1>1, <1>7, <1>8, OneStream
<1>10. /\ phase' \in [Protos -> {"closed", "open", "dead"}]
       /\ accepted' \in [Protos -> Counts] /\ wire' \in [Protos -> Counts] /\ opens' \in Nat
    BY <1>1, <1>2, <1>3 DEF TypeOK
<1>11. TypeOK'
    BY <1>1, <1>3, <1>10 DEF TypeOK
<1> QED
    BY <1>9, <1>11 DEF IInv

\* The session learns that a stream is gone.
LEMMA ClosedStep ==
    ASSUME IInv, NEW p \in Protos, StreamClosed(p)
    PROVE  IInv'
<1>1. TypeOK /\ Streams
    BY DEF IInv
<1>2. /\ phase[p] = "dead" /\ phase' = [phase EXCEPT ![p] = "closed"]
      /\ buffer' = [buffer EXCEPT ![p] = Empty]
      /\ UNCHANGED <<hand, inbox, chan, writes, accepted, wire, pending, state, sent, opens>>
    BY DEF StreamClosed
<1>3. StreamOK(phase[p], writes[p], chan[p], buffer[p], accepted[p], wire[p])
    BY <1>1 DEF Streams
<1>4. writes[p] = Empty /\ chan[p] = Empty
    BY <1>2, <1>3 DEF StreamOK
<1>5. StreamOK("closed", Empty, Empty, Empty, accepted[p], wire[p])
    BY ClosedStream
<1>6. /\ phase'[p] = "closed" /\ accepted'[p] = accepted[p] /\ wire'[p] = wire[p]
      /\ writes'[p] = Empty /\ chan'[p] = Empty /\ buffer'[p] = Empty
      /\ \A q \in Protos : q # p =>
             /\ phase'[q] = phase[q] /\ writes'[q] = writes[q] /\ chan'[q] = chan[q]
             /\ buffer'[q] = buffer[q] /\ accepted'[q] = accepted[q] /\ wire'[q] = wire[q]
    BY <1>1, <1>2, <1>4 DEF TypeOK
<1>7. Streams'
    BY <1>1, <1>5, <1>6, OneStream
<1>8. phase' \in [Protos -> {"closed", "open", "dead"}] /\ buffer' \in [Protos -> Queue]
    BY <1>1, <1>2, EmptyQueue DEF TypeOK
<1>9. TypeOK'
    BY <1>1, <1>2, <1>8 DEF TypeOK
<1> QED
    BY <1>7, <1>9 DEF IInv

\* A stream's task ends.
LEMMA DeadStep ==
    ASSUME IInv, NEW p \in Protos, phase[p] = "open", Dead(p),
           UNCHANGED <<hand, inbox, buffer, accepted, wire, pending, state, sent, opens>>
    PROVE  IInv'
<1>1. TypeOK /\ Streams
    BY DEF IInv
<1>2. /\ phase' = [phase EXCEPT ![p] = "dead"] /\ chan' = [chan EXCEPT ![p] = Empty]
      /\ writes' = [writes EXCEPT ![p] = Empty]
    BY DEF Dead
<1>3. /\ phase'[p] = "dead" /\ accepted'[p] = accepted[p] /\ wire'[p] = wire[p]
      /\ writes'[p] = Empty /\ chan'[p] = Empty /\ buffer'[p] = buffer[p]
      /\ \A q \in Protos : q # p =>
             /\ phase'[q] = phase[q] /\ writes'[q] = writes[q] /\ chan'[q] = chan[q]
             /\ buffer'[q] = buffer[q] /\ accepted'[q] = accepted[q] /\ wire'[q] = wire[q]
    BY <1>1, <1>2 DEF TypeOK
<1>4. Size(Empty) <= ChannelCap
    BY EmptyQueue, SendingAssumption
<1>5. StreamOK("dead", Empty, Empty, buffer[p], accepted[p], wire[p])
    BY <1>4 DEF StreamOK
<1>6. Streams'
    BY <1>1, <1>3, <1>5, OneStream
<1>7. /\ phase' \in [Protos -> {"closed", "open", "dead"}]
      /\ chan' \in [Protos -> Queue] /\ writes' \in [Protos -> Queue]
    BY <1>1, <1>2, EmptyQueue DEF TypeOK
<1>8. TypeOK'
    BY <1>1, <1>7 DEF TypeOK
<1> QED
    BY <1>6, <1>8 DEF IInv

\* send_data, with the write buffer w and the channel c.
LEMMA WriteStep ==
    ASSUME IInv, NEW p \in Protos, NEW w \in Queue, NEW c \in Queue, NEW n \in 0..Size(w),
           phase[p] = "open", StreamOK("open", w, c, buffer[p], accepted[p], wire[p]),
           send_data(p, w, n), chan' = [chan EXCEPT ![p] = c],
           UNCHANGED <<hand, inbox, buffer, accepted, phase, state, sent, opens>>
    PROVE  IInv'
<1>1. TypeOK /\ Streams
    BY DEF IInv
<1>2. buffer[p] \in Queue /\ accepted[p] \in Counts /\ wire[p] \in Counts
    BY <1>1, StreamTypes
<1>3. /\ Rest(w, n) \in Queue /\ Wired(wire[p], w, n) \in Counts
      /\ StreamOK("open", Rest(w, n), c, buffer[p], accepted[p], Wired(wire[p], w, n))
    BY <1>2, StreamSends
<1>4. /\ writes' = [writes EXCEPT ![p] = Rest(w, n)] /\ pending' = pending - n
      /\ wire' = [wire EXCEPT ![p] = Wired(wire[p], w, n)]
    BY DEF send_data, Wired
<1>5. /\ phase'[p] = "open" /\ accepted'[p] = accepted[p] /\ wire'[p] = Wired(wire[p], w, n)
      /\ writes'[p] = Rest(w, n) /\ chan'[p] = c /\ buffer'[p] = buffer[p]
      /\ \A q \in Protos : q # p =>
             /\ phase'[q] = phase[q] /\ writes'[q] = writes[q] /\ chan'[q] = chan[q]
             /\ buffer'[q] = buffer[q] /\ accepted'[q] = accepted[q] /\ wire'[q] = wire[q]
    BY <1>1, <1>4 DEF TypeOK
<1>6. Streams'
    BY <1>1, <1>3, <1>5, OneStream
<1>7. n \in Nat
    BY Lanes, Bounded, Zenon
<1>8. /\ wire' \in [Protos -> Counts] /\ chan' \in [Protos -> Queue]
      /\ writes' \in [Protos -> Queue]
    BY <1>1, <1>3, <1>4 DEF TypeOK
<1>9. pending' \in Int
    BY <1>1, <1>4, <1>7 DEF TypeOK
<1>10. TypeOK'
    BY <1>1, <1>8, <1>9 DEF TypeOK
<1> QED
    BY <1>6, <1>10 DEF IInv

\* flush
LEMMA FlushStep ==
    ASSUME IInv, NEW p \in Protos, NEW n \in 0..MaxMessages, Flush(p, n)
    PROVE  IInv'
<1>1. TypeOK /\ Streams
    BY DEF IInv
<1>2. writes[p] \in Queue /\ chan[p] \in Queue
    BY <1>1, StreamTypes
<1>3. StreamOK("open", writes[p], chan[p], buffer[p], accepted[p], wire[p]) /\ phase[p] = "open"
    BY <1>1 DEF Streams, Flush
<1>4. n \in 0..Size(writes[p])
    <2>1. n <= Size(writes[p]) /\ Size(writes[p]) \in Nat
        BY <1>2, Lanes DEF Flush
    <2> QED
        BY <2>1, SendingAssumption
<1>5. chan' = [chan EXCEPT ![p] = chan[p]]
    BY <1>1 DEF Flush, TypeOK
<1>6. send_data(p, writes[p], n) /\ UNCHANGED <<hand, inbox, buffer, accepted, phase, state, sent, opens>>
    BY DEF Flush
<1> QED
    BY <1>2, <1>3, <1>4, <1>5, <1>6, WriteStep

\* What recv_event takes.
TailOf(c, lane) == [c EXCEPT ![lane] = Tail(@)]

\* recv_event and handle_proto_event
LEMMA ReceiveStep ==
    ASSUME IInv, NEW p \in Protos, NEW n \in 0..MaxMessages, recv_event(p, n)
    PROVE  IInv'
<1> DEFINE lane == IF chan[p].high # <<>> THEN "high" ELSE "normal"
           e == Head(chan[p][lane])
           w == Push(writes[p], lane, e)
<1>1. /\ phase[p] = "open" /\ chan[p] # Empty
      /\ UNCHANGED <<hand, inbox, buffer, accepted, state, sent, opens>>
      /\ IF e = Close
         THEN n = 0 /\ Dead(p) /\ UNCHANGED <<wire, pending>>
         ELSE /\ n <= Size(w)
              /\ send_data(p, w, n)
              /\ chan' = [chan EXCEPT ![p][lane] = Tail(@)]
              /\ UNCHANGED phase
    BY DEF recv_event, handle_proto_event
<1>2. TypeOK /\ Streams
    BY DEF IInv
<1>3. writes[p] \in Queue /\ chan[p] \in Queue /\ buffer[p] \in Queue
      /\ accepted[p] \in Counts /\ wire[p] \in Counts
    BY <1>2, StreamTypes
<1>4. lane \in Priority /\ chan[p][lane] # <<>>
    BY <1>1, <1>3 DEF Priority, Queue, Empty
<1>5. StreamOK("open", writes[p], chan[p], buffer[p], accepted[p], wire[p])
    BY <1>1, <1>2 DEF Streams
<1> HIDE DEF lane
<1>6. CASE e = Close
    BY <1>1, <1>6, DeadStep
<1>7. CASE e # Close
    <2> DEFINE c == TailOf(chan[p], lane)
    <2>1. w \in Queue /\ c \in Queue /\ StreamOK("open", w, c, buffer[p], accepted[p], wire[p])
        <3> DEFINE cc == chan[p]
                   ww == writes[p]
        <3>1. cc \in Queue /\ ww \in Queue /\ cc[lane] # <<>> /\ Head(cc[lane]) # Close
              /\ StreamOK("open", ww, cc, buffer[p], accepted[p], wire[p])
            BY <1>3, <1>4, <1>5, <1>7
        <3> HIDE DEF cc, ww
        <3>2. /\ Push(ww, lane, Head(cc[lane])) \in Queue /\ TailOf(cc, lane) \in Queue
              /\ StreamOK("open", Push(ww, lane, Head(cc[lane])), TailOf(cc, lane),
                          buffer[p], accepted[p], wire[p])
            BY <1>3, <1>4, <3>1, StreamReceives DEF TailOf
        <3> QED
            BY <3>2 DEF cc, ww
    <2>2. chan' = [chan EXCEPT ![p] = c]
        BY <1>1, <1>7 DEF TailOf
    <2>3. n <= Size(w) /\ send_data(p, w, n) /\ UNCHANGED phase
        BY <1>1, <1>7
    <2> HIDE DEF w, c
    <2>4. n \in 0..Size(w)
        <3>1. Size(w) \in Nat
            BY <2>1, Lanes
        <3> QED
            BY <2>3, <3>1, SendingAssumption
    <2> QED
        BY <1>1, <2>1, <2>2, <2>3, <2>4, WriteStep
<1> QED
    BY <1>6, <1>7

\* Nothing has been sent yet.
LEMMA InitIInv ==
    Init => IInv
<1> SUFFICES ASSUME Init
             PROVE  IInv
    OBVIOUS
<1>1. /\ hand = <<>> /\ inbox = Empty
      /\ buffer = [p \in Protos |-> Empty] /\ chan = buffer /\ writes = buffer
      /\ accepted = [p \in Protos |-> [pri \in Priority |-> 0]] /\ wire = accepted
      /\ phase = [p \in Protos |-> "closed"] /\ opens = 0
      /\ pending = 0 /\ state = "Normal" /\ sent = 0
    BY DEF Init
<1>2. Streams
    <2>1. \A p \in Protos :
              StreamOK(phase[p], writes[p], chan[p], buffer[p], accepted[p], wire[p])
        BY <1>1, ClosedStream
    <2> QED
        BY <2>1 DEF Streams
<1>3. inbox \in [Priority -> Seq(Event)] /\ hand \in Seq(Event)
    BY <1>1 DEF Empty
<1>4. /\ buffer \in [Protos -> Queue] /\ chan \in [Protos -> Queue] /\ writes \in [Protos -> Queue]
      /\ phase \in [Protos -> {"closed", "open", "dead"}]
    BY <1>1, AllEmpty
<1>5. accepted \in [Protos -> Counts] /\ wire \in [Protos -> Counts]
    BY <1>1 DEF Counts
<1>6. TypeOK
    BY <1>1, <1>3, <1>4, <1>5 DEF TypeOK
<1> QED
    BY <1>2, <1>6 DEF IInv

\* Every step keeps the streams whole.
LEMMA StepIInv ==
    IInv /\ [Next]_vars => IInv'
<1> SUFFICES ASSUME IInv, [Next]_vars
             PROVE  IInv'
    OBVIOUS
<1>1. CASE UNCHANGED vars
    <2>1. Streams'
        BY <1>1, NoStream DEF IInv, vars
    <2>2. TypeOK'
        BY <1>1 DEF IInv, vars, queues, TypeOK
    <2> QED
        BY <2>1, <2>2 DEF IInv
<1>2. CASE SessionSend
    BY <1>2, SendStep
<1>3. CASE recv_service
    BY <1>3, ServiceStep
<1>4. CASE distribute_to_substream
    BY <1>4, DistributeStep
<1>5. CASE SessionEnds
    BY <1>5, EndStep DEF SessionEnds
<1>6. ASSUME NEW p \in Protos, NEW pri \in Priority, handle_message(p, pri)
      PROVE  IInv'
    BY <1>6, HandStep
<1>7. ASSUME NEW p \in Protos, protocol_close(p)
      PROVE  IInv'
    BY <1>7, HandStep
<1>8. ASSUME NEW p \in Protos, open_protocol(p)
      PROVE  IInv'
    BY <1>8, OpenStep
<1>9. ASSUME NEW p \in Protos, StreamClosed(p)
      PROVE  IInv'
    BY <1>9, ClosedStep
<1>10. ASSUME NEW p \in Protos, StreamEnds(p)
       PROVE  IInv'
    BY <1>10, DeadStep DEF StreamEnds
<1>11. ASSUME NEW p \in Protos, NEW n \in 0..MaxMessages, Flush(p, n)
       PROVE  IInv'
    BY <1>11, FlushStep
<1>12. ASSUME NEW p \in Protos, NEW n \in 0..MaxMessages, recv_event(p, n)
       PROVE  IInv'
    BY <1>12, ReceiveStep
<1> QED
    BY <1>1, <1>2, <1>3, <1>4, <1>5, <1>6, <1>7, <1>8, <1>9, <1>10, <1>11, <1>12 DEF Next

-----------------------------------------------------------------------------
(***************************************************************************)
(* Counting                                                                *)
(***************************************************************************)

\* The numbers that were given for the streams and are not on the wire yet.
Given(ph, acc, wi) ==
    {m \in Protos \X Priority \X Nat :
        ph[m[1]] # "closed" /\ m[3] \in (wi[m[1]][m[2]] + 1)..acc[m[1]][m[2]]}

Outstanding == Given(phase, accepted, wire)

\* The messages of a queue are numbers from w + 1 to a, each greater than the last.
Within(q, w, a) ==
    /\ \A i \in 1..Len(q) : IsMessage(q[i]) => q[i] \in (w + 1)..a
    /\ \A i, j \in 1..Len(q) : i < j /\ IsMessage(q[i]) /\ IsMessage(q[j]) => q[i] < q[j]

\* Close commands are of high priority.
Routed ==
    /\ \A i \in 1..Len(inbox.normal) : ~inbox.normal[i].close
    /\ hand # <<>> => (hand[1].close => hand[1].pri = "high")

\* What is left for a stream that is dead.
Buried ==
    \A p \in Protos : phase[p] = "dead" =>
        \A pri \in Priority : Within(buffer[p][pri], wire[p][pri], accepted[p][pri])

\* Whatever is outstanding, in the session's channel or in the service's hand is counted.
Covered ==
    /\ IsFiniteSet(Outstanding)
    /\ pending >= Cardinality(Outstanding) + InInbox + InHand

\* The events of a lane of the session's channel that are messages.
MessagesIn(s) == {i \in 1..Len(s) : ~s[i].close}

\* Which numbers are outstanding.
LEMMA GivenMember ==
    ASSUME NEW ph, NEW acc, NEW wi, NEW p \in Protos, NEW pri \in Priority, NEW n
    PROVE  <<p, pri, n>> \in Given(ph, acc, wi)
               <=> n \in Nat /\ ph[p] # "closed" /\ n \in (wi[p][pri] + 1)..acc[p][pri]
BY DEF Given

\* Each is a number of a lane.
LEMMA GivenTriple ==
    ASSUME NEW ph, NEW acc, NEW wi, NEW m \in Given(ph, acc, wi)
    PROVE  /\ m[1] \in Protos /\ m[2] \in Priority /\ m[3] \in Nat
           /\ m = <<m[1], m[2], m[3]>>
BY DEF Given

\* A set with two disjoint parts.
LEMMA Parts ==
    ASSUME NEW S, IsFiniteSet(S), NEW A, NEW B, A \subseteq S, B \subseteq S, A \cap B = {}
    PROVE  /\ IsFiniteSet(A) /\ IsFiniteSet(B)
           /\ Cardinality(A) \in Nat /\ Cardinality(B) \in Nat /\ Cardinality(S) \in Nat
           /\ Cardinality(A) + Cardinality(B) <= Cardinality(S)
<1>1. IsFiniteSet(A) /\ IsFiniteSet(B)
    BY FS_Subset
<1>2. Cardinality(A \cup B) = Cardinality(A) + Cardinality(B) - Cardinality(A \cap B)
    BY <1>1, FS_Union
<1>3. Cardinality(A \cap B) = 0
    BY FS_EmptySet
<1>4. Cardinality(A \cup B) <= Cardinality(S)
    <2>1. A \cup B \in SUBSET S
        OBVIOUS
    <2> QED
        BY <2>1, FS_Subset
<1>5. Cardinality(A) \in Nat /\ Cardinality(B) \in Nat /\ Cardinality(S) \in Nat
    BY <1>1, FS_CardinalityType
<1> QED
    BY <1>1, <1>2, <1>3, <1>4, <1>5

\* A set with at most one more element.
LEMMA OneMore ==
    ASSUME NEW S, IsFiniteSet(S), NEW x, NEW T, T \subseteq S \cup {x}
    PROVE  /\ IsFiniteSet(T) /\ Cardinality(T) \in Nat /\ Cardinality(S) \in Nat
           /\ Cardinality(T) <= Cardinality(S) + 1
<1> DEFINE U == S \cup {x}
<1>1. IsFiniteSet(U) /\ (Cardinality(U) = Cardinality(S) \/ Cardinality(U) = Cardinality(S) + 1)
    BY FS_AddElement
<1>2. T \in SUBSET U
    OBVIOUS
<1> HIDE DEF U
<1>3. IsFiniteSet(T) /\ Cardinality(T) <= Cardinality(U)
    BY <1>1, <1>2, FS_Subset
<1>4. Cardinality(S) \in Nat /\ Cardinality(T) \in Nat /\ Cardinality(U) \in Nat
    BY <1>1, <1>3, FS_CardinalityType
<1> QED
    BY <1>1, <1>3, <1>4

\* The k numbers after w, in a lane.
Taken(p, pri, w, k) == {<<p, pri, n>> : n \in (w + 1)..(w + k)}

\* There are k of them.
LEMMA TakenCount ==
    ASSUME NEW p, NEW pri, NEW w \in Nat, NEW k \in Nat
    PROVE  IsFiniteSet(Taken(p, pri, w, k)) /\ Cardinality(Taken(p, pri, w, k)) = k
<1> DEFINE I == (w + 1)..(w + k)
           T == {<<p, pri, n>> : n \in I}
           f == [n \in I |-> <<p, pri, n>>]
<1>1. IsFiniteSet(I) /\ Cardinality(I) = k
    <2>1. w + 1 \in Int /\ w + k \in Int
        OBVIOUS
    <2>2. IsFiniteSet(I) /\ Cardinality(I) = IF w + 1 > w + k THEN 0 ELSE (w + k) - (w + 1) + 1
        BY <2>1, FS_Interval
    <2> QED
        BY <2>2
<1> HIDE DEF I
<1>2. f \in [I -> T]
    OBVIOUS
<1>3. \A a, b \in I : f[a] = f[b] => a = b
    OBVIOUS
<1>4. \A t \in T : \E a \in I : f[a] = t
    OBVIOUS
<1> HIDE DEF T, f
<1>5. f \in Bijection(I, T)
    BY <1>2, <1>3, <1>4 DEF Bijection, Injection, Surjection, IsInjective
<1>6. IsFiniteSet(T) /\ Cardinality(T) = Cardinality(I)
    BY <1>1, <1>5, FS_Bijection DEF ExistsBijection
<1> QED
    BY <1>1, <1>6 DEF Taken, T, I

\* An event joins a lane of the session's channel.
LEMMA CountAppend ==
    ASSUME NEW s \in Seq(Event), NEW e \in Event
    PROVE  /\ Cardinality(MessagesIn(s)) \in Nat /\ Cardinality(MessagesIn(Append(s, e))) \in Nat
           /\ Cardinality(MessagesIn(Append(s, e))) <= Cardinality(MessagesIn(s)) + 1
           /\ e.close => Cardinality(MessagesIn(Append(s, e))) = Cardinality(MessagesIn(s))
<1> DEFINE r == Append(s, e)
           l == Len(s)
<1>1. l \in Nat /\ Len(r) = l + 1 /\ r[l + 1] = e /\ \A i \in 1..l : r[i] = s[i]
    OBVIOUS
<1> HIDE DEF r, l
<1>2. \A i \in 1..(l + 1) : i \in 1..l \/ i = l + 1
    BY <1>1
<1>3. \A i \in 1..l : i \in 1..(l + 1)
    BY <1>1
<1>4. MessagesIn(s) = {i \in 1..l : ~s[i].close} /\ MessagesIn(r) = {i \in 1..(l + 1) : ~r[i].close}
    BY <1>1 DEF MessagesIn, l
<1>5. MessagesIn(r) \subseteq MessagesIn(s) \cup {l + 1}
    BY <1>1, <1>2, <1>4
<1>6. e.close => MessagesIn(r) = MessagesIn(s)
    BY <1>1, <1>2, <1>3, <1>4
<1>7. IsFiniteSet(MessagesIn(s))
    <2>0. 1 \in Int /\ l \in Int
        BY <1>1
    <2>1. IsFiniteSet(1..l)
        BY <2>0, FS_Interval
    <2>2. MessagesIn(s) \in SUBSET (1..l)
        BY <1>4
    <2> QED
        BY <2>1, <2>2, FS_Subset
<1>8. /\ Cardinality(MessagesIn(r)) \in Nat /\ Cardinality(MessagesIn(s)) \in Nat
      /\ Cardinality(MessagesIn(r)) <= Cardinality(MessagesIn(s)) + 1
    BY <1>5, <1>7, OneMore
<1> QED
    BY <1>6, <1>8 DEF r

\* The first event leaves.
LEMMA CountTail ==
    ASSUME NEW s \in Seq(Event), s # <<>>
    PROVE  /\ Cardinality(MessagesIn(s)) \in Nat /\ Cardinality(MessagesIn(Tail(s))) \in Nat
           /\ Cardinality(MessagesIn(Tail(s))) <= Cardinality(MessagesIn(s))
           /\ ~Head(s).close => Cardinality(MessagesIn(Tail(s))) <= Cardinality(MessagesIn(s)) - 1
<1> DEFINE r == Tail(s)
           l == Len(s)
           A == MessagesIn(s)
           B == MessagesIn(s) \ {1}
           C == MessagesIn(r)
           f == [i \in C |-> i + 1]
<1>1. /\ l \in Nat /\ l > 0 /\ Len(r) = l - 1 /\ \A i \in 1..(l - 1) : r[i] = s[i + 1]
      /\ s[1] = Head(s)
    OBVIOUS
<1> HIDE DEF r, l
<1>2. A = {i \in 1..l : ~s[i].close} /\ C = {i \in 1..(l - 1) : ~r[i].close}
    BY <1>1 DEF MessagesIn, l
<1>3. IsFiniteSet(A)
    <2>0. 1 \in Int /\ l \in Int
        BY <1>1
    <2>1. IsFiniteSet(1..l)
        BY <2>0, FS_Interval
    <2>2. A \in SUBSET (1..l)
        BY <1>2
    <2> HIDE DEF A
    <2> QED
        BY <2>1, <2>2, FS_Subset
<1>4. IsFiniteSet(B) /\ Cardinality(B) = IF 1 \in A THEN Cardinality(A) - 1 ELSE Cardinality(A)
    BY <1>3, FS_RemoveElement
<1>5. f \in Injection(C, B)
    <2>1. \A i \in C : i \in Nat /\ i + 1 \in B
        BY <1>1, <1>2
    <2>2. f \in [C -> B]
        BY <2>1
    <2>3. \A i, j \in C : f[i] = f[j] => i = j
        BY <2>1
    <2> QED
        BY <2>2, <2>3 DEF Injection, IsInjective
<1>6. ~Head(s).close => 1 \in A
    BY <1>1, <1>2
<1> HIDE DEF A, B, C, f
<1>7. IsFiniteSet(C) /\ Cardinality(C) <= Cardinality(B)
    BY <1>4, <1>5, FS_Injection
<1>8. Cardinality(A) \in Nat /\ Cardinality(C) \in Nat /\ Cardinality(B) \in Nat
    BY <1>3, <1>4, <1>7, FS_CardinalityType
<1>9. /\ Cardinality(C) <= Cardinality(A)
      /\ ~Head(s).close => Cardinality(C) <= Cardinality(A) - 1
    BY <1>4, <1>6, <1>7, <1>8
<1> QED
    BY <1>8, <1>9 DEF A, C, r

\* The messages in the session's channel q, and in the service's hand.
InboxCount(q) == Cardinality(MessagesIn(q.high)) + Len(q.normal)
HandCount(h) == IF h # <<>> /\ ~h[1].close THEN 1 ELSE 0

\* They are what OnTheWay counts.
LEMMA CountsAre ==
    /\ InInbox = InboxCount(inbox) /\ InHand = HandCount(hand)
    /\ InInbox' = InboxCount(inbox') /\ InHand' = HandCount(hand')
BY DEF InInbox, InHand, InboxCount, HandCount, MessagesIn

\* The lanes of the session's channel.
LEMMA InboxLanes ==
    ASSUME NEW q \in [Priority -> Seq(Event)]
    PROVE  /\ q.high \in Seq(Event) /\ q.normal \in Seq(Event)
           /\ q.high = q["high"] /\ q.normal = q["normal"]
           /\ Len(q.normal) \in Nat /\ IsFiniteSet(MessagesIn(q.high))
           /\ Cardinality(MessagesIn(q.high)) \in Nat /\ InboxCount(q) \in Nat
<1>1. q.high \in Seq(Event) /\ q.normal \in Seq(Event) /\ q.high = q["high"] /\ q.normal = q["normal"]
    BY DEF Priority
<1>2. Len(q.normal) \in Nat /\ Len(q.high) \in Nat
    BY <1>1
<1>3. IsFiniteSet(MessagesIn(q.high))
    <2> DEFINE l == Len(q.high)
    <2>1. 1 \in Int /\ l \in Int
        BY <1>2
    <2>2. MessagesIn(q.high) \in SUBSET (1..l)
        BY DEF MessagesIn
    <2> HIDE DEF l
    <2>3. IsFiniteSet(1..l)
        BY <2>1, FS_Interval
    <2> QED
        BY <2>2, <2>3, FS_Subset
<1>4. Cardinality(MessagesIn(q.high)) \in Nat
    BY <1>3, FS_CardinalityType
<1>5. InboxCount(q) \in Nat
    BY <1>2, <1>4 DEF InboxCount
<1> QED
    BY <1>1, <1>2, <1>3, <1>4, <1>5

\* An event joins the session's channel.
LEMMA InboxPush ==
    ASSUME NEW q \in [Priority -> Seq(Event)], NEW e \in Event, e.close => e.pri = "high",
           \A i \in 1..Len(q.normal) : ~q.normal[i].close
    PROVE  LET r == Push(q, e.pri, e) IN
           /\ InboxCount(r) <= InboxCount(q) + HandCount(<<e>>)
           /\ \A i \in 1..Len(r.normal) : ~r.normal[i].close
<1> DEFINE r == Push(q, e.pri, e)
<1>1. e.pri \in Priority /\ e.close \in BOOLEAN
    BY DEF Event
<1>2. /\ q.high \in Seq(Event) /\ q.normal \in Seq(Event)
      /\ q.high = q["high"] /\ q.normal = q["normal"] /\ Len(q.normal) \in Nat
      /\ Cardinality(MessagesIn(q.high)) \in Nat
    BY InboxLanes
<1>3. HandCount(<<e>>) = IF e.close THEN 0 ELSE 1
    BY DEF HandCount
<1>4. CASE e.pri = "high"
    <2>1. r.high = Append(q.high, e) /\ r.normal = q.normal
        BY <1>2, <1>4 DEF Push, Priority
    <2>2. /\ Cardinality(MessagesIn(Append(q.high, e))) \in Nat
          /\ Cardinality(MessagesIn(Append(q.high, e))) <= Cardinality(MessagesIn(q.high)) + 1
          /\ e.close => Cardinality(MessagesIn(Append(q.high, e))) = Cardinality(MessagesIn(q.high))
        BY <1>2, CountAppend
    <2> HIDE DEF r
    <2>3. InboxCount(r) <= InboxCount(q) + HandCount(<<e>>)
        BY <1>1, <1>2, <1>3, <2>1, <2>2 DEF InboxCount
    <2> QED
        BY <2>1, <2>3 DEF r
<1>5. CASE e.pri = "normal"
    <2>1. r.normal = Append(q.normal, e) /\ r.high = q.high
        BY <1>2, <1>5 DEF Push, Priority
    <2>2. ~e.close
        BY <1>5
    <2> HIDE DEF r
    <2>3. /\ Len(r.normal) = Len(q.normal) + 1
          /\ \A i \in 1..Len(r.normal) : r.normal[i] = e \/ (i \in 1..Len(q.normal) /\ r.normal[i] = q.normal[i])
        BY <1>2, <2>1
    <2>4. InboxCount(r) <= InboxCount(q) + HandCount(<<e>>)
        BY <1>1, <1>2, <1>3, <2>1, <2>2, <2>3 DEF InboxCount
    <2>5. \A i \in 1..Len(r.normal) : ~r.normal[i].close
        BY <2>2, <2>3
    <2> QED
        BY <2>4, <2>5 DEF r
<1> QED
    BY <1>1, <1>4, <1>5 DEF Priority

\* The session's channel without the first event of a lane.
TailIn(q, lane) == [q EXCEPT ![lane] = Tail(@)]

\* The first event leaves the session's channel.
LEMMA InboxTail ==
    ASSUME NEW q \in [Priority -> Seq(Event)], NEW lane \in Priority, q[lane] # <<>>,
           \A i \in 1..Len(q.normal) : ~q.normal[i].close
    PROVE  /\ InboxCount(TailIn(q, lane)) <= InboxCount(q)
           /\ ~Head(q[lane]).close => InboxCount(TailIn(q, lane)) <= InboxCount(q) - 1
           /\ \A i \in 1..Len(TailIn(q, lane).normal) : ~TailIn(q, lane).normal[i].close
<1> DEFINE r == TailIn(q, lane)
<1>1. /\ q.high \in Seq(Event) /\ q.normal \in Seq(Event)
      /\ q.high = q["high"] /\ q.normal = q["normal"] /\ Len(q.normal) \in Nat
      /\ Cardinality(MessagesIn(q.high)) \in Nat
    BY InboxLanes
<1>2. CASE lane = "high"
    <2>1. r.high = Tail(q.high) /\ r.normal = q.normal
        BY <1>1, <1>2 DEF TailIn, Priority
    <2>2. q.high # <<>> /\ Head(q[lane]) = Head(q.high)
        BY <1>1, <1>2
    <2>3. /\ Cardinality(MessagesIn(Tail(q.high))) \in Nat
          /\ Cardinality(MessagesIn(Tail(q.high))) <= Cardinality(MessagesIn(q.high))
          /\ ~Head(q.high).close =>
                 Cardinality(MessagesIn(Tail(q.high))) <= Cardinality(MessagesIn(q.high)) - 1
        BY <1>1, <2>2, CountTail
    <2> HIDE DEF r
    <2>4. /\ InboxCount(r) <= InboxCount(q)
          /\ ~Head(q[lane]).close => InboxCount(r) <= InboxCount(q) - 1
        BY <1>1, <2>1, <2>2, <2>3 DEF InboxCount
    <2> QED
        BY <2>1, <2>4 DEF r
<1>3. CASE lane = "normal"
    <2>1. r.normal = Tail(q.normal) /\ r.high = q.high
        BY <1>1, <1>3 DEF TailIn, Priority
    <2>2. q.normal # <<>>
        BY <1>1, <1>3
    <2> HIDE DEF r
    <2>3. /\ Len(r.normal) = Len(q.normal) - 1
          /\ \A i \in 1..Len(r.normal) : i + 1 \in 1..Len(q.normal) /\ r.normal[i] = q.normal[i + 1]
        BY <1>1, <2>1, <2>2
    <2>4. /\ InboxCount(r) <= InboxCount(q) - 1 /\ InboxCount(r) <= InboxCount(q)
        BY <1>1, <2>1, <2>3 DEF InboxCount
    <2>5. \A i \in 1..Len(r.normal) : ~r.normal[i].close
        BY <2>3
    <2> QED
        BY <2>4, <2>5 DEF r
<1> QED
    BY <1>2, <1>3 DEF Priority

-----------------------------------------------------------------------------
CInv == IInv /\ Routed /\ Buried /\ Covered

\* What is counted stays enough.
LEMMA Enough ==
    ASSUME NEW n \in Int, NEW n2 \in Int, NEW i \in Nat, NEW i2 \in Nat, NEW k \in Nat,
           NEW k2 \in Nat, NEW c \in Nat, NEW c2 \in Nat,
           n >= c + i + k, c2 <= c, n2 - (i2 + k2) >= n - (i + k)
    PROVE  n2 >= c2 + i2 + k2
OBVIOUS

\* Nothing more is outstanding, and nothing more is counted than elsewhere.
LEMMA StillCovered ==
    ASSUME CInv, IInv', Outstanding' \subseteq Outstanding,
           pending' - (InboxCount(inbox') + HandCount(hand'))
               >= pending - (InboxCount(inbox) + HandCount(hand))
    PROVE  Covered'
<1> DEFINE i == InboxCount(inbox)
           i2 == InboxCount(inbox')
           k == HandCount(hand)
           k2 == HandCount(hand')
           c == Cardinality(Outstanding)
           c2 == Cardinality(Outstanding')
<1>1. IsFiniteSet(Outstanding) /\ pending >= c + i + k
    BY CountsAre DEF CInv, Covered
<1>2. pending \in Int /\ pending' \in Int /\ i \in Nat /\ i2 \in Nat /\ k \in Nat /\ k2 \in Nat
    <2>1. /\ pending \in Int /\ inbox \in [Priority -> Seq(Event)]
          /\ pending' \in Int /\ inbox' \in [Priority -> Seq(Event)]
        BY DEF CInv, IInv, TypeOK
    <2>2. i \in Nat /\ i2 \in Nat
        BY <2>1, InboxLanes
    <2>3. k \in Nat /\ k2 \in Nat
        BY DEF HandCount
    <2> QED
        BY <2>1, <2>2, <2>3
<1>3. IsFiniteSet(Outstanding') /\ c2 <= c
    BY <1>1, FS_Subset
<1>4. c \in Nat /\ c2 \in Nat
    BY <1>1, <1>3, FS_CardinalityType
<1>5. pending' - (i2 + k2) >= pending - (i + k)
    OBVIOUS
<1> HIDE DEF i, i2, k, k2, c, c2
<1>6. pending' >= c2 + i2 + k2
    BY <1>1, <1>2, <1>3, <1>4, <1>5, Enough
<1> QED
    BY <1>3, <1>6, CountsAre DEF Covered, i2, k2, c2

\* Which numbers are outstanding changes with the phases and the counters only.
LEMMA SameOutstanding ==
    ASSUME UNCHANGED <<phase, accepted, wire>>
    PROVE  Outstanding' = Outstanding
BY DEF Outstanding

\* Fewer numbers are outstanding.
LEMMA FewerGiven ==
    ASSUME NEW ph, NEW acc, NEW wi, NEW ph2, NEW acc2, NEW wi2,
           \A p \in Protos : ph2[p] # "closed" => \A pri \in Priority :
               \A n \in (wi2[p][pri] + 1)..acc2[p][pri] :
                   ph[p] # "closed" /\ n \in (wi[p][pri] + 1)..acc[p][pri]
    PROVE  Given(ph2, acc2, wi2) \subseteq Given(ph, acc, wi)
<1> SUFFICES ASSUME NEW m \in Given(ph2, acc2, wi2)
             PROVE  m \in Given(ph, acc, wi)
    OBVIOUS
<1>1. m[1] \in Protos /\ m[2] \in Priority /\ m[3] \in Nat /\ m = <<m[1], m[2], m[3]>>
    BY GivenTriple
<1> DEFINE p == m[1]
           pri == m[2]
           n == m[3]
<1> HIDE DEF p, pri, n
<1>2. p \in Protos /\ pri \in Priority /\ n \in Nat /\ m = <<p, pri, n>>
    BY <1>1 DEF p, pri, n
<1>3. ph2[p] # "closed" /\ n \in (wi2[p][pri] + 1)..acc2[p][pri]
    BY <1>2, GivenMember
<1>4. ph[p] # "closed" /\ n \in (wi[p][pri] + 1)..acc[p][pri]
    BY <1>2, <1>3
<1> QED
    BY <1>2, <1>4, GivenMember

\* An empty queue is within any bounds.
LEMMA EmptyWithin ==
    ASSUME NEW w, NEW a
    PROVE  Within(<<>>, w, a)
BY DEF Within

\* What is left of a live stream when only the session's buffer is.
LEMMA BufferWithin ==
    ASSUME NEW w \in Seq(Nat), NEW c \in Seq(Nat), NEW b \in Seq(Nat), NEW wi \in Nat,
           NEW acc \in Nat, Ordered((w \o c) \o b, wi, acc)
    PROVE  Within(b, wi, acc)
<1> DEFINE u == w \o c
           q == u \o b
           k == Len(u)
<1>1. u \in Seq(Nat) /\ k \in Nat
    OBVIOUS
<1> HIDE DEF u, k
<1>2. Len(q) = k + Len(b) /\ \A i \in 1..Len(b) : q[k + i] = b[i] /\ k + i \in 1..Len(q)
    BY <1>1 DEF k
<1>3. /\ \A i \in 1..Len(q) : IsMessage(q[i]) => q[i] \in (wi + 1)..acc
      /\ \A i, j \in 1..Len(q) : i < j /\ IsMessage(q[i]) /\ IsMessage(q[j]) => q[i] < q[j]
    BY DEF Ordered, u
<1> HIDE DEF q
<1>4. \A i \in 1..Len(b) : IsMessage(b[i]) => b[i] \in (wi + 1)..acc
    BY <1>2, <1>3
<1>5. ASSUME NEW i \in 1..Len(b), NEW j \in 1..Len(b), i < j, IsMessage(b[i]), IsMessage(b[j])
      PROVE  b[i] < b[j]
    <2>1. k + i < k + j
        BY <1>1, <1>5
    <2> QED
        BY <1>2, <1>3, <1>5, <2>1
<1> QED
    BY <1>4, <1>5 DEF Within

\* A stream dies with the session's buffer as it is, and keeps it until it is cleared.
LEMMA StillBuried ==
    ASSUME CInv,
           \A p \in Protos : phase'[p] = "dead" =>
               \/ buffer'[p] = Empty
               \/ /\ phase[p] \in {"open", "dead"} /\ buffer'[p] = buffer[p]
                  /\ wire'[p] = wire[p] /\ accepted'[p] = accepted[p]
    PROVE  Buried'
<1>1. TypeOK /\ Streams /\ Buried
    BY DEF CInv, IInv
<1>2. ASSUME NEW p \in Protos, phase'[p] = "dead", NEW pri \in Priority
      PROVE  Within(buffer'[p][pri], wire'[p][pri], accepted'[p][pri])
    <2>1. CASE buffer'[p] = Empty
        <3>1. buffer'[p][pri] = <<>>
            BY <2>1, EmptyQueue
        <3> QED
            BY <3>1, EmptyWithin
    <2>2. CASE /\ phase[p] \in {"open", "dead"} /\ buffer'[p] = buffer[p]
               /\ wire'[p] = wire[p] /\ accepted'[p] = accepted[p]
        <3>1. CASE phase[p] = "dead"
            BY <1>1, <2>2, <3>1 DEF Buried
        <3>2. CASE phase[p] = "open"
            <4>1. /\ writes[p][pri] \in Seq(Nat) /\ chan[p][pri] \in Seq(Nat)
                  /\ buffer[p][pri] \in Seq(Nat) /\ wire[p][pri] \in Nat /\ accepted[p][pri] \in Nat
                BY <1>1, StreamTypes DEF Queue, Counts
            <4>2. Ordered((writes[p][pri] \o chan[p][pri]) \o buffer[p][pri],
                          wire[p][pri], accepted[p][pri])
                BY <1>1, <3>2 DEF Streams, StreamOK, Live
            <4>3. Within(buffer[p][pri], wire[p][pri], accepted[p][pri])
                BY <4>1, <4>2, BufferWithin
            <4> QED
                BY <2>2, <4>3
        <3> QED
            BY <2>2, <3>1, <3>2
    <2> QED
        BY <1>2, <2>1, <2>2
<1> QED
    BY <1>2 DEF Buried

\* A step that leaves the streams and the session's channel alone.
LEMMA CountHand ==
    ASSUME CInv, IInv',
           \/ \E p \in Protos, pri \in Priority : handle_message(p, pri)
           \/ \E p \in Protos : protocol_close(p)
    PROVE  CInv'
<1>1. UNCHANGED <<inbox, buffer, phase, accepted, wire>> /\ hand = <<>>
    BY DEF handle_message, protocol_close, queues
<1>2. pending \in Int /\ InboxCount(inbox) \in Nat
    BY InboxLanes DEF CInv, IInv, TypeOK
<1>3. Buried'
    <2>1. Buried
        BY DEF CInv
    <2> QED
        BY <1>1, <2>1 DEF Buried
<1>4. HandCount(hand) = 0
    BY <1>1 DEF HandCount
<1>5. CASE \E p \in Protos, pri \in Priority : handle_message(p, pri)
    <2>1. PICK p \in Protos, pri \in Priority : handle_message(p, pri)
        BY <1>5
    <2>2. pending' = pending + 1 /\ hand' = <<[proto |-> p, pri |-> pri, close |-> FALSE]>>
        BY <2>1 DEF handle_message
    <2>3. hand'[1].close = FALSE
        BY <2>2
    <2>4. HandCount(hand') = 1
        BY <2>2, <2>3 DEF HandCount
    <2>5. pending' - (InboxCount(inbox') + HandCount(hand')) >= pending - (InboxCount(inbox) + HandCount(hand))
        BY <1>1, <1>2, <1>4, <2>2, <2>4
    <2>6. Covered'
        BY <1>1, <2>5, StillCovered, SameOutstanding
    <2>7. Routed'
        BY <1>1, <2>3 DEF CInv, Routed
    <2> QED
        BY <1>3, <2>6, <2>7 DEF CInv
<1>6. CASE \E p \in Protos : protocol_close(p)
    <2>1. PICK p \in Protos : protocol_close(p)
        BY <1>6
    <2>2. pending' = pending /\ hand' = <<[proto |-> p, pri |-> "high", close |-> TRUE]>>
        BY <2>1 DEF protocol_close
    <2>3. hand'[1].close = TRUE /\ hand'[1].pri = "high"
        BY <2>2
    <2>4. HandCount(hand') = 0
        BY <2>3 DEF HandCount
    <2>5. pending' - (InboxCount(inbox') + HandCount(hand')) >= pending - (InboxCount(inbox) + HandCount(hand))
        BY <1>1, <1>2, <1>4, <2>2, <2>4
    <2>6. Covered'
        BY <1>1, <2>5, StillCovered, SameOutstanding
    <2>7. Routed'
        BY <1>1, <2>3 DEF CInv, Routed
    <2> QED
        BY <1>3, <2>6, <2>7 DEF CInv
<1> QED
    BY <1>5, <1>6

\* The service sends to the session.
LEMMA CountSend ==
    ASSUME CInv, IInv', SessionSend
    PROVE  CInv'
<1> DEFINE e == hand[1]
<1>1. UNCHANGED <<buffer, phase, accepted, wire, pending>> /\ hand' = <<>> /\ hand # <<>>
    BY DEF SessionSend, queues
<1>2. pending \in Int /\ inbox \in [Priority -> Seq(Event)] /\ inbox' \in [Priority -> Seq(Event)]
    BY DEF CInv, IInv, TypeOK
<1>3. InboxCount(inbox) \in Nat /\ InboxCount(inbox') \in Nat
    BY <1>2, InboxLanes
<1>4. Buried'
    <2>1. Buried
        BY DEF CInv
    <2> QED
        BY <1>1, <2>1 DEF Buried
<1>5. HandCount(hand') = 0 /\ HandCount(hand) = HandCount(<<e>>) /\ HandCount(<<e>>) \in Nat
    BY <1>1 DEF HandCount
<1>6. e \in Event
    <2>1. hand \in Seq(Event)
        BY DEF CInv, IInv, TypeOK
    <2>2. 1 \in 1..Len(hand)
        BY <1>1, <2>1
    <2> QED
        BY <2>1, <2>2
<1>7. (e.close => e.pri = "high") /\ \A i \in 1..Len(inbox.normal) : ~inbox.normal[i].close
    BY <1>1 DEF CInv, Routed
<1> HIDE DEF e
<1>8. /\ InboxCount(inbox') <= InboxCount(inbox) + HandCount(<<e>>)
      /\ \A i \in 1..Len(inbox'.normal) : ~inbox'.normal[i].close
    <2>1. CASE UNCHANGED inbox
        BY <1>3, <1>5, <1>7, <2>1
    <2>2. CASE inbox' = Push(inbox, e.pri, e)
        BY <1>2, <1>6, <1>7, <2>2, InboxPush
    <2> QED
        BY <2>1, <2>2 DEF SessionSend, e
<1>9. pending' - (InboxCount(inbox') + HandCount(hand')) >= pending - (InboxCount(inbox) + HandCount(hand))
    BY <1>1, <1>2, <1>3, <1>5, <1>8
<1>10. Covered'
    BY <1>1, <1>9, StillCovered, SameOutstanding
<1>11. Routed'
    BY <1>1, <1>8 DEF Routed
<1> QED
    BY <1>4, <1>10, <1>11 DEF CInv

\* One more number is given, and one less message is in the session's channel.
LEMMA AcceptCovered ==
    ASSUME CInv, IInv', NEW p \in Protos, NEW pri \in Priority,
           accepted' = [accepted EXCEPT ![p] = Counted(accepted[p], pri)],
           UNCHANGED <<phase, wire, pending, hand>>,
           InboxCount(inbox') <= InboxCount(inbox) - 1
    PROVE  Covered'
<1> DEFINE i == InboxCount(inbox)
           i2 == InboxCount(inbox')
           k == HandCount(hand)
           c == Cardinality(Outstanding)
           c2 == Cardinality(Outstanding')
           x == <<p, pri, accepted[p][pri] + 1>>
<1>1. IsFiniteSet(Outstanding) /\ pending >= c + i + k
    BY CountsAre DEF CInv, Covered
<1>2. pending \in Int /\ i \in Nat /\ i2 \in Nat /\ k \in Nat
    <2>1. pending \in Int /\ inbox \in [Priority -> Seq(Event)] /\ inbox' \in [Priority -> Seq(Event)]
        BY DEF CInv, IInv, TypeOK
    <2>2. i \in Nat /\ i2 \in Nat
        BY <2>1, InboxLanes
    <2>3. k \in Nat
        BY DEF HandCount
    <2> QED
        BY <2>1, <2>2, <2>3
<1>3. accepted \in [Protos -> Counts] /\ wire \in [Protos -> Counts]
    BY DEF CInv, IInv, TypeOK
<1>4. /\ accepted'[p][pri] = accepted[p][pri] + 1
      /\ \A q \in Protos, r \in Priority : q # p \/ r # pri => accepted'[q][r] = accepted[q][r]
    BY <1>3 DEF Counted, Counts
<1>5. \A q \in Protos, r \in Priority : accepted[q][r] \in Nat /\ wire[q][r] \in Nat
    BY <1>3 DEF Counts
<1>6. Outstanding' \subseteq Outstanding \cup {x}
    <2> SUFFICES ASSUME NEW m \in Outstanding', m # x
                 PROVE  m \in Outstanding
        OBVIOUS
    <2> DEFINE q == m[1]
               r == m[2]
               n == m[3]
    <2>1. m \in Given(phase, accepted', wire)
        BY DEF Outstanding
    <2>2. q \in Protos /\ r \in Priority /\ n \in Nat /\ m = <<q, r, n>>
        BY <2>1, GivenTriple
    <2> HIDE DEF q, r, n
    <2>3. phase[q] # "closed" /\ n \in (wire[q][r] + 1)..accepted'[q][r]
        BY <2>1, <2>2, GivenMember
    <2>4. n \in (wire[q][r] + 1)..accepted[q][r]
        <3>1. CASE q # p \/ r # pri
            BY <1>4, <2>2, <2>3, <3>1
        <3>2. CASE q = p /\ r = pri
            <4>1. n # accepted[p][pri] + 1
                BY <2>2, <3>2
            <4> QED
                BY <1>4, <1>5, <2>2, <2>3, <3>2, <4>1
        <3> QED
            BY <3>1, <3>2
    <2>5. m \in Given(phase, accepted, wire)
        BY <2>2, <2>3, <2>4, GivenMember
    <2> QED
        BY <2>5 DEF Outstanding
<1> HIDE DEF x
<1>7. IsFiniteSet(Outstanding') /\ c2 \in Nat /\ c \in Nat /\ c2 <= c + 1
    BY <1>1, <1>6, OneMore
<1>8. i2 <= i - 1 /\ pending' = pending /\ HandCount(hand') = k
    OBVIOUS
<1> HIDE DEF i, i2, k, c, c2
<1>9. pending' >= c2 + i2 + k
    BY <1>1, <1>2, <1>7, <1>8
<1> QED
    BY <1>7, <1>8, <1>9, CountsAre DEF Covered, i2, c2

\* A dead stream's buffer is cleared by try_send.
LEMMA TryBuries ==
    ASSUME NEW p \in Protos, NEW b, buffer \in [Protos -> Queue], try_send(p, b)
    PROVE  /\ phase[p] = "dead" => buffer'[p] = Empty
           /\ \A q \in Protos : q # p => buffer'[q] = buffer[q]
BY DEF try_send, BufferAfter

\* The session takes a command from its channel.
LEMMA CountService ==
    ASSUME CInv, IInv', recv_service
    PROVE  CInv'
<1> DEFINE lane == IF inbox.high # <<>> THEN "high" ELSE "normal"
           e == Head(inbox[lane])
           p == e.proto
<1>1. /\ inbox # Empty /\ inbox' = [inbox EXCEPT ![lane] = Tail(@)]
      /\ UNCHANGED <<hand, writes, wire, phase, pending, state, sent, opens>>
      /\ IF phase[p] = "closed"
         THEN UNCHANGED <<buffer, chan, accepted>>
         ELSE IF e.close
              THEN try_send(p, Push(buffer[p], "high", Close)) /\ UNCHANGED accepted
              ELSE /\ accepted' = [accepted EXCEPT ![p][e.pri] = @ + 1]
                   /\ try_send(p, Push(buffer[p], e.pri, accepted[p][e.pri] + 1))
    BY DEF recv_service
<1>2. lane \in Priority /\ inbox \in [Priority -> Seq(Event)] /\ inbox' \in [Priority -> Seq(Event)]
    BY DEF Priority, CInv, IInv, TypeOK
<1>3. inbox[lane] # <<>>
    BY <1>1, <1>2 DEF Empty, Priority
<1>4. \A i \in 1..Len(inbox.normal) : ~inbox.normal[i].close
    BY DEF CInv, Routed
<1>5. inbox' = TailIn(inbox, lane)
    BY <1>1 DEF TailIn
<1> HIDE DEF lane
<1>6. e \in Event
    <2>1. inbox[lane] \in Seq(Event)
        BY <1>2
    <2> QED
        BY <1>3, <2>1
<1>7. /\ InboxCount(inbox') <= InboxCount(inbox)
      /\ ~e.close => InboxCount(inbox') <= InboxCount(inbox) - 1
      /\ \A i \in 1..Len(inbox'.normal) : ~inbox'.normal[i].close
    BY <1>2, <1>3, <1>4, <1>5, InboxTail
<1> HIDE DEF e
<1>8. p \in Protos /\ e.pri \in Priority /\ e.close \in BOOLEAN
    BY <1>6 DEF Event
<1> HIDE DEF p
<1>9. Routed'
    BY <1>1, <1>7 DEF CInv, Routed
<1>10. InboxCount(inbox) \in Nat /\ InboxCount(inbox') \in Nat /\ pending \in Int
       /\ HandCount(hand) \in Nat
    BY <1>2, InboxLanes DEF CInv, IInv, TypeOK, HandCount
<1>11. ASSUME UNCHANGED accepted
       PROVE  Covered'
    <2>1. pending' - (InboxCount(inbox') + HandCount(hand'))
              >= pending - (InboxCount(inbox) + HandCount(hand))
        BY <1>1, <1>7, <1>10
    <2> QED
        BY <1>1, <1>11, <2>1, StillCovered, SameOutstanding
<1>12. buffer \in [Protos -> Queue] /\ phase \in [Protos -> {"closed", "open", "dead"}]
    BY DEF CInv, IInv, TypeOK
<1>13. Buried'
    <2>1. \A q \in Protos : q # p => buffer'[q] = buffer[q] /\ accepted'[q] = accepted[q]
        <3>1. CASE phase[p] = "closed"
            BY <1>1, <3>1
        <3>2. CASE phase[p] # "closed" /\ e.close
            BY <1>1, <1>8, <1>12, <3>2, TryBuries
        <3>3. CASE phase[p] # "closed" /\ ~e.close
            <4>1. \A q \in Protos : q # p => accepted'[q] = accepted[q]
                BY <1>1, <1>8, <3>3 DEF CInv, IInv, TypeOK
            <4> QED
                BY <1>1, <1>8, <1>12, <3>3, <4>1, TryBuries
        <3> QED
            BY <3>1, <3>2, <3>3
    <2>2. phase[p] = "dead" => buffer'[p] = Empty
        BY <1>1, <1>8, <1>12, TryBuries
    <2> QED
        BY <1>1, <1>12, <2>1, <2>2, StillBuried
<1>14. Covered'
    <2>1. CASE phase[p] = "closed" \/ e.close
        BY <1>1, <1>11, <2>1
    <2>2. CASE phase[p] # "closed" /\ ~e.close
        <3>1. accepted' = [accepted EXCEPT ![p] = Counted(accepted[p], e.pri)]
            BY <1>1, <2>2 DEF Counted
        <3> QED
            BY <1>1, <1>7, <1>8, <2>2, <3>1, AcceptCovered
    <2> QED
        BY <2>1, <2>2
<1> QED
    BY <1>9, <1>13, <1>14 DEF CInv

\* A step of the session, or of one stream, that takes nothing from the service and gives
\* no number.
LEMMA CountStream ==
    ASSUME CInv, IInv', UNCHANGED <<hand, inbox, pending>>,
           \A p \in Protos : phase'[p] # "closed" =>
               /\ accepted'[p] = accepted[p] /\ wire'[p] = wire[p] /\ phase[p] # "closed"
               /\ phase'[p] = "dead" => buffer'[p] = Empty \/ buffer'[p] = buffer[p]
    PROVE  CInv'
<1>1. Outstanding' \subseteq Outstanding
    <2>1. Given(phase', accepted', wire') \subseteq Given(phase, accepted, wire)
        BY FewerGiven
    <2> QED
        BY <2>1 DEF Outstanding
<1>2. pending \in Int /\ InboxCount(inbox) \in Nat /\ HandCount(hand) \in Nat
    BY InboxLanes DEF CInv, IInv, TypeOK, HandCount
<1>3. Covered'
    <2>1. pending' - (InboxCount(inbox') + HandCount(hand'))
              >= pending - (InboxCount(inbox) + HandCount(hand))
        BY <1>2
    <2> QED
        BY <1>1, <2>1, StillCovered
<1>4. Routed'
    BY DEF CInv, Routed
<1>5. Buried'
    <2>1. \A p \in Protos : phase[p] \in {"closed", "open", "dead"}
        BY DEF CInv, IInv, TypeOK
    <2> QED
        BY <2>1, StillBuried
<1> QED
    BY <1>3, <1>4, <1>5 DEF CInv

\* The session ends, with everything in its channel.
LEMMA CountEnd ==
    ASSUME CInv, IInv', NEW how, End(how), UNCHANGED <<hand, pending>>
    PROVE  CInv'
<1>1. phase' = [p \in Protos |-> "closed"] /\ inbox' = Empty
    BY DEF End
<1>2. inbox \in [Priority -> Seq(Event)] /\ pending \in Int /\ HandCount(hand) \in Nat
    BY DEF CInv, IInv, TypeOK, HandCount
<1>3. InboxCount(inbox) \in Nat
    BY <1>2, InboxLanes
<1>4. InboxCount(inbox') = 0
    <2>1. inbox'.high = <<>> /\ inbox'.normal = <<>>
        BY <1>1, EmptyQueue
    <2>2. MessagesIn(<<>>) = {}
        BY DEF MessagesIn
    <2> QED
        BY <2>1, <2>2, FS_EmptySet DEF InboxCount
<1>5. Outstanding' \subseteq Outstanding
    <2>1. Given(phase', accepted', wire') \subseteq Given(phase, accepted, wire)
        BY <1>1, FewerGiven
    <2> QED
        BY <2>1 DEF Outstanding
<1>6. Covered'
    <2>1. pending' - (InboxCount(inbox') + HandCount(hand'))
              >= pending - (InboxCount(inbox) + HandCount(hand))
        BY <1>2, <1>3, <1>4
    <2> QED
        BY <1>5, <2>1, StillCovered
<1>7. Routed'
    <2>1. inbox'.normal = <<>>
        BY <1>1, EmptyQueue
    <2> QED
        BY <2>1 DEF CInv, Routed
<1>8. Buried'
    BY <1>1 DEF Buried
<1> QED
    BY <1>6, <1>7, <1>8 DEF CInv

\* A new stream, for which no number is given yet.
LEMMA CountOpen ==
    ASSUME CInv, IInv', NEW p \in Protos, open_protocol(p)
    PROVE  CInv'
<1> DEFINE zero == [pri \in Priority |-> 0]
<1>1. /\ phase' = [phase EXCEPT ![p] = "open"]
      /\ accepted' = [accepted EXCEPT ![p] = zero] /\ wire' = [wire EXCEPT ![p] = zero]
      /\ UNCHANGED <<hand, inbox, buffer, pending>>
    BY DEF open_protocol, queues
<1>2. \A pri \in Priority : zero[pri] = 0
    OBVIOUS
<1> HIDE DEF zero
<1>3. /\ phase'[p] = "open" /\ accepted'[p] = zero /\ wire'[p] = zero
      /\ \A q \in Protos : q # p =>
             phase'[q] = phase[q] /\ accepted'[q] = accepted[q] /\ wire'[q] = wire[q]
    BY <1>1 DEF CInv, IInv, TypeOK
<1>4. Outstanding' \subseteq Outstanding
    <2>1. \A pri \in Priority : (wire'[p][pri] + 1)..accepted'[p][pri] = {}
        BY <1>2, <1>3
    <2>2. Given(phase', accepted', wire') \subseteq Given(phase, accepted, wire)
        BY <1>3, <2>1, FewerGiven
    <2> QED
        BY <2>2 DEF Outstanding
<1>5. inbox \in [Priority -> Seq(Event)] /\ pending \in Int /\ HandCount(hand) \in Nat
    BY DEF CInv, IInv, TypeOK, HandCount
<1>6. Covered'
    <2>1. InboxCount(inbox) \in Nat
        BY <1>5, InboxLanes
    <2>2. pending' - (InboxCount(inbox') + HandCount(hand'))
              >= pending - (InboxCount(inbox) + HandCount(hand))
        BY <1>1, <1>5, <2>1
    <2> QED
        BY <1>4, <2>2, StillCovered
<1>7. Routed'
    BY <1>1 DEF CInv, Routed
<1>8. Buried'
    <2>1. \A q \in Protos : phase'[q] = "dead" => q # p
        BY <1>3
    <2> QED
        BY <1>1, <1>3, <2>1, StillBuried
<1> QED
    BY <1>6, <1>7, <1>8 DEF CInv

\* The numbers that the sink takes, k of high priority and l of normal priority, were
\* outstanding and are not any more.
LEMMA SentCount ==
    ASSUME NEW S, IsFiniteSet(S), NEW T, T \subseteq S, NEW p, NEW wi \in Counts, NEW k \in Nat, NEW l \in Nat,
           Taken(p, "high", wi["high"], k) \subseteq S \ T,
           Taken(p, "normal", wi["normal"], l) \subseteq S \ T
    PROVE  /\ IsFiniteSet(T) /\ Cardinality(T) \in Nat /\ Cardinality(S) \in Nat
           /\ Cardinality(T) + (k + l) <= Cardinality(S)
<1> DEFINE A == Taken(p, "high", wi["high"], k)
           B == Taken(p, "normal", wi["normal"], l)
           C == A \cup B
<1>1. wi["high"] \in Nat /\ wi["normal"] \in Nat
    BY DEF Counts, Priority
<1>2. IsFiniteSet(A) /\ Cardinality(A) = k /\ IsFiniteSet(B) /\ Cardinality(B) = l
    BY <1>1, TakenCount
<1>3. A \cap B = {}
    BY DEF Taken
<1>4. A \subseteq S \ T /\ B \subseteq S \ T
    OBVIOUS
<1> HIDE DEF A, B
<1>5. IsFiniteSet(C) /\ Cardinality(C) = k + l
    <2>1. IsFiniteSet(C) /\ Cardinality(C) = Cardinality(A) + Cardinality(B) - Cardinality(A \cap B)
        BY <1>2, FS_Union
    <2>2. Cardinality(A \cap B) = 0
        BY <1>3, FS_EmptySet
    <2> QED
        BY <1>2, <2>1, <2>2
<1>6. C \subseteq S /\ C \cap T = {}
    BY <1>4
<1> HIDE DEF C
<1>7. /\ IsFiniteSet(T) /\ Cardinality(T) \in Nat /\ Cardinality(S) \in Nat /\ Cardinality(C) \in Nat
      /\ Cardinality(T) + Cardinality(C) <= Cardinality(S)
    <2>1. T \cap C = {}
        BY <1>6
    <2> QED
        BY <1>6, <2>1, Parts
<1> QED
    BY <1>5, <1>7

\* send_data, with the write buffer w and the channel c.
LEMMA CountWrite ==
    ASSUME CInv, IInv', NEW p \in Protos, NEW w \in Queue, NEW c \in Queue, NEW n \in 0..Size(w),
           phase[p] = "open", StreamOK("open", w, c, buffer[p], accepted[p], wire[p]),
           send_data(p, w, n),
           UNCHANGED <<hand, inbox, buffer, accepted, phase>>
    PROVE  CInv'
<1> DEFINE k == Len(First(w, n)["high"])
           l == Len(First(w, n)["normal"])
           took == [pri \in Priority |-> Len(First(w, n)[pri])]
<1>1. wire' = [wire EXCEPT ![p] = Wired(wire[p], w, n)] /\ pending' = pending - n
    BY DEF send_data, Wired
<1>2. k \in Nat /\ l \in Nat /\ k + l = n /\ n \in Nat
    <2>1. First(w, n) \in Queue /\ Size(First(w, n)) = n
        BY FirstRest
    <2>2. k = Len(First(w, n).high) /\ l = Len(First(w, n).normal) /\ k \in Nat /\ l \in Nat
        BY <2>1, Lanes
    <2>3. k + l = n
        BY <2>1, <2>2 DEF Size
    <2>4. n \in Nat
        BY Lanes, Bounded, Zenon
    <2> QED
        BY <2>2, <2>3, <2>4
<1>3. /\ took["high"] = k /\ took["normal"] = l
      /\ \A pri \in Priority : took[pri] \in Nat /\ Wired(wire[p], w, n)[pri] = wire[p][pri] + took[pri]
    BY <1>2 DEF Wired, Priority
<1>4. buffer[p] \in Queue /\ accepted[p] \in Counts /\ wire[p] \in Counts /\ wire \in [Protos -> Counts]
    BY DEF CInv, IInv, TypeOK
<1>5. \A pri \in Priority : wire[p][pri] + took[pri] <= accepted[p][pri]
    <2>1. StreamOK("open", Rest(w, n), c, buffer[p], accepted[p], Wired(wire[p], w, n))
        BY <1>4, StreamSends
    <2> HIDE DEF took
    <2>2. \A pri \in Priority : Wired(wire[p], w, n)[pri] <= accepted[p][pri]
        BY <2>1 DEF StreamOK, Live
    <2> QED
        BY <1>3, <2>2
<1> HIDE DEF took, k, l
<1>6. /\ \A pri \in Priority : wire'[p][pri] = wire[p][pri] + took[pri]
      /\ \A q \in Protos : q # p => wire'[q] = wire[q]
    BY <1>1, <1>3, <1>4
<1>7. \A pri \in Priority : wire[p][pri] \in Nat /\ accepted[p][pri] \in Nat
    BY <1>4 DEF Counts
<1>8. Outstanding' \subseteq Outstanding
    <2>1. \A pri \in Priority : \A m \in (wire'[p][pri] + 1)..accepted[p][pri] :
              m \in (wire[p][pri] + 1)..accepted[p][pri]
        BY <1>3, <1>6, <1>7
    <2>2. Given(phase', accepted', wire') \subseteq Given(phase, accepted, wire)
        BY <1>6, <2>1, FewerGiven
    <2> QED
        BY <2>2 DEF Outstanding
<1>9. ASSUME NEW pri \in Priority
      PROVE  Taken(p, pri, wire[p][pri], took[pri]) \subseteq Outstanding \ Outstanding'
    <2> SUFFICES ASSUME NEW m \in (wire[p][pri] + 1)..(wire[p][pri] + took[pri])
                 PROVE  <<p, pri, m>> \in Outstanding \ Outstanding'
        BY DEF Taken
    <2>1. m \in Nat /\ m \in (wire[p][pri] + 1)..accepted[p][pri]
        BY <1>3, <1>5, <1>7
    <2>2. m \notin (wire'[p][pri] + 1)..accepted[p][pri]
        BY <1>3, <1>6, <1>7
    <2>3. <<p, pri, m>> \in Given(phase, accepted, wire)
        BY <2>1, GivenMember
    <2>4. <<p, pri, m>> \notin Given(phase', accepted', wire')
        BY <2>2, GivenMember
    <2> QED
        BY <2>3, <2>4 DEF Outstanding
<1>10. IsFiniteSet(Outstanding) /\ pending >= Cardinality(Outstanding) + InInbox + InHand
    BY DEF CInv, Covered
<1>11. /\ IsFiniteSet(Outstanding') /\ Cardinality(Outstanding') \in Nat /\ Cardinality(Outstanding) \in Nat
       /\ Cardinality(Outstanding') + (k + l) <= Cardinality(Outstanding)
    <2>1. "high" \in Priority /\ "normal" \in Priority
        BY DEF Priority
    <2>2. /\ Taken(p, "high", wire[p]["high"], k) \subseteq Outstanding \ Outstanding'
          /\ Taken(p, "normal", wire[p]["normal"], l) \subseteq Outstanding \ Outstanding'
        BY <1>3, <1>9, <2>1
    <2> QED
        BY <1>2, <1>4, <1>8, <1>10, <2>2, SentCount
<1>12. Covered'
    <2> DEFINE a == Cardinality(Outstanding)
               b == Cardinality(Outstanding')
               i == InInbox
               h == InHand
    <2>1. i \in Nat /\ h \in Nat /\ pending \in Int
        <3>1. inbox \in [Priority -> Seq(Event)] /\ pending \in Int
            BY DEF CInv, IInv, TypeOK
        <3>2. InboxCount(inbox) \in Nat
            BY <3>1, InboxLanes
        <3> QED
            BY <3>1, <3>2, CountsAre DEF HandCount
    <2>2. InInbox' = i /\ InHand' = h
        BY CountsAre
    <2>3. a \in Nat /\ b \in Nat /\ b + n <= a /\ pending >= a + i + h
        BY <1>2, <1>10, <1>11
    <2> HIDE DEF a, b, i, h
    <2>4. pending' >= b + i + h
        BY <1>1, <1>2, <2>1, <2>3
    <2> QED
        BY <1>11, <2>2, <2>4 DEF Covered, b
<1>13. Routed'
    BY DEF CInv, Routed
<1>14. Buried'
    <2>1. \A q \in Protos : phase'[q] = "dead" => q # p
        OBVIOUS
    <2>2. Buried
        BY DEF CInv
    <2> QED
        BY <1>6, <2>1, <2>2 DEF Buried
<1> QED
    BY <1>12, <1>13, <1>14 DEF CInv

\* What recv_event does to a stream that lives on.
LEMMA ReceivedWrite ==
    ASSUME IInv, NEW p \in Protos, NEW n \in Nat, recv_event(p, n), phase'[p] # "dead"
    PROVE  \E w \in Queue, c \in Queue :
               /\ n \in 0..Size(w) /\ StreamOK("open", w, c, buffer[p], accepted[p], wire[p])
               /\ send_data(p, w, n) /\ UNCHANGED phase
<1> DEFINE lane == IF chan[p].high # <<>> THEN "high" ELSE "normal"
           cc == chan[p]
           ww == writes[p]
           w == Push(ww, lane, Head(cc[lane]))
           c == TailOf(cc, lane)
<1>1. TypeOK /\ Streams
    BY DEF IInv
<1>2. /\ ww \in Queue /\ cc \in Queue /\ buffer[p] \in Queue
      /\ accepted[p] \in Counts /\ wire[p] \in Counts
    BY <1>1, StreamTypes
<1>3. phase[p] = "open" /\ cc # Empty
    BY DEF recv_event, handle_proto_event
<1>4. lane \in Priority /\ cc[lane] # <<>>
    BY <1>2, <1>3 DEF Priority, Queue, Empty
<1>5. Head(cc[lane]) # Close
    <2>1. Head(cc[lane]) = Close => Dead(p)
        BY DEF recv_event, handle_proto_event
    <2>2. Dead(p) => phase'[p] = "dead"
        BY <1>1 DEF Dead, TypeOK
    <2> QED
        BY <2>1, <2>2
<1>6. n <= Size(w) /\ send_data(p, w, n) /\ UNCHANGED phase
    BY <1>5 DEF recv_event, handle_proto_event
<1>7. StreamOK("open", ww, cc, buffer[p], accepted[p], wire[p])
    BY <1>1, <1>3 DEF Streams
<1> HIDE DEF lane, cc, ww
<1>8. w \in Queue /\ c \in Queue /\ StreamOK("open", w, c, buffer[p], accepted[p], wire[p])
    BY <1>2, <1>4, <1>5, <1>7, StreamReceives DEF TailOf
<1> HIDE DEF w, c
<1>9. n \in 0..Size(w)
    <2>1. Size(w) \in Nat
        BY <1>8, Lanes
    <2> QED
        BY <1>6, <2>1
<1> QED
    BY <1>6, <1>8, <1>9

\* Every step counts what it moves.
LEMMA StepCInv ==
    CInv /\ [Next]_vars => CInv'
<1> SUFFICES ASSUME CInv, [Next]_vars
             PROVE  CInv'
    OBVIOUS
<1>0. IInv' /\ IInv /\ TypeOK /\ Streams
    BY StepIInv DEF CInv, IInv
<1>1. CASE UNCHANGED vars
    BY <1>0, <1>1, CountStream DEF vars, queues
<1>2. CASE SessionSend
    BY <1>0, <1>2, CountSend
<1>3. CASE recv_service
    BY <1>0, <1>3, CountService
<1>4. CASE distribute_to_substream
    <2>1. UNCHANGED <<hand, accepted, wire, pending>>
        BY <1>4 DEF distribute_to_substream
    <2>2. ASSUME NEW S, Serve(S)
          PROVE  CInv'
        <3>1. UNCHANGED <<inbox, phase>>
            BY <2>2 DEF Serve
        <3>2. \A p \in Protos : phase[p] = "dead" => buffer'[p] = Empty \/ buffer'[p] = buffer[p]
            BY <2>2 DEF Serve, BufferAfter
        <3> QED
            BY <1>0, <2>1, <3>1, <3>2, CountStream
    <2>3. CASE End("killed")
        BY <1>0, <2>1, <2>3, CountEnd
    <2>4. End("killed") \/ \E S : Serve(S)
        BY <1>4 DEF distribute_to_substream
    <2> QED
        BY <2>2, <2>3, <2>4
<1>5. CASE SessionEnds
    BY <1>0, <1>5, CountEnd DEF SessionEnds
<1>6. ASSUME NEW p \in Protos, NEW pri \in Priority, handle_message(p, pri)
      PROVE  CInv'
    BY <1>0, <1>6, CountHand
<1>7. ASSUME NEW p \in Protos, protocol_close(p)
      PROVE  CInv'
    BY <1>0, <1>7, CountHand
<1>8. ASSUME NEW p \in Protos, open_protocol(p)
      PROVE  CInv'
    BY <1>0, <1>8, CountOpen
<1>9. ASSUME NEW p \in Protos, StreamClosed(p)
      PROVE  CInv'
    <2>1. UNCHANGED <<hand, inbox, pending, accepted, wire>>
        BY <1>9 DEF StreamClosed
    <2>2. /\ phase'[p] = "closed"
          /\ \A q \in Protos : q # p => phase'[q] = phase[q] /\ buffer'[q] = buffer[q]
        BY <1>0, <1>9 DEF StreamClosed, TypeOK
    <2> QED
        BY <1>0, <2>1, <2>2, CountStream
<1>10. ASSUME NEW p \in Protos, phase[p] = "open", Dead(p), UNCHANGED <<hand, inbox, buffer, pending, accepted, wire>>
       PROVE  CInv'
    <2>1. \A q \in Protos : phase'[q] # "closed" => phase[q] # "closed"
        BY <1>0, <1>10 DEF Dead, TypeOK
    <2> QED
        BY <1>0, <1>10, <2>1, CountStream
<1>11. ASSUME NEW p \in Protos, StreamEnds(p)
       PROVE  CInv'
    BY <1>10, <1>11 DEF StreamEnds
<1>12. ASSUME NEW p \in Protos, NEW n \in 0..MaxMessages, Flush(p, n)
       PROVE  CInv'
    <2>1. writes[p] \in Queue /\ chan[p] \in Queue
        BY <1>0, StreamTypes
    <2>2. phase[p] = "open" /\ n <= Size(writes[p]) /\ send_data(p, writes[p], n)
          /\ UNCHANGED <<hand, inbox, buffer, accepted, phase>>
        BY <1>12 DEF Flush
    <2>3. StreamOK("open", writes[p], chan[p], buffer[p], accepted[p], wire[p])
        BY <1>0, <2>2 DEF Streams
    <2>4. n \in 0..Size(writes[p])
        <3>1. Size(writes[p]) \in Nat
            BY <2>1, Lanes
        <3> QED
            BY <2>2, <3>1, SendingAssumption
    <2> QED
        BY <1>0, <2>1, <2>2, <2>3, <2>4, CountWrite
<1>13. ASSUME NEW p \in Protos, NEW n \in 0..MaxMessages, recv_event(p, n)
       PROVE  CInv'
    <2>1. phase[p] = "open" /\ UNCHANGED <<hand, inbox, buffer, accepted>>
        BY <1>13 DEF recv_event, handle_proto_event
    <2>2. CASE phase'[p] = "dead"
        <3>1. Dead(p) /\ UNCHANGED <<wire, pending>>
            BY <1>13, <2>1, <2>2 DEF recv_event, handle_proto_event
        <3> QED
            BY <1>10, <2>1, <3>1
    <2>3. CASE phase'[p] # "dead"
        <3>1. n \in Nat
            BY SendingAssumption
        <3>2. PICK w \in Queue, c \in Queue :
                  /\ n \in 0..Size(w) /\ StreamOK("open", w, c, buffer[p], accepted[p], wire[p])
                  /\ send_data(p, w, n) /\ UNCHANGED phase
            BY <1>0, <1>13, <2>3, <3>1, ReceivedWrite
        <3> QED
            BY <1>0, <2>1, <3>2, CountWrite
    <2> QED
        BY <2>2, <2>3
<1> QED
    BY <1>1, <1>2, <1>3, <1>4, <1>5, <1>6, <1>7, <1>8, <1>9, <1>11, <1>12, <1>13 DEF Next

\* Nothing is counted yet, and nothing is there to count.
LEMMA InitCInv ==
    Init => CInv
<1> SUFFICES ASSUME Init
             PROVE  CInv
    OBVIOUS
<1>1. /\ hand = <<>> /\ inbox = Empty /\ pending = 0
      /\ phase = [p \in Protos |-> "closed"]
    BY DEF Init
<1>2. IInv
    BY InitIInv
<1>3. Outstanding = {}
    <2>1. \A m \in Given(phase, accepted, wire) : FALSE
        <3> SUFFICES ASSUME NEW m \in Given(phase, accepted, wire)
                     PROVE  FALSE
            OBVIOUS
        <3>1. m[1] \in Protos /\ phase[m[1]] # "closed"
            BY DEF Given
        <3> QED
            BY <1>1, <3>1
    <2> QED
        BY <2>1 DEF Outstanding
<1>4. inbox.high = <<>> /\ inbox.normal = <<>>
    BY <1>1, EmptyQueue
<1>5. InboxCount(inbox) = 0
    <2>1. MessagesIn(<<>>) = {}
        BY DEF MessagesIn
    <2> QED
        BY <1>4, <2>1, FS_EmptySet DEF InboxCount
<1>6. HandCount(hand) = 0
    BY <1>1 DEF HandCount
<1>7. Covered
    <2>1. IsFiniteSet(Outstanding) /\ Cardinality(Outstanding) = 0
        BY <1>3, FS_EmptySet
    <2> QED
        BY <1>1, <1>5, <1>6, <2>1, CountsAre DEF Covered
<1>8. Routed /\ Buried
    BY <1>1, <1>4 DEF Routed, Buried
<1> QED
    BY <1>2, <1>7, <1>8 DEF CInv

\* The messages in the lanes of a stream are numbers that are outstanding.
LEMMA LaneWithin ==
    ASSUME CInv, NEW p \in Protos, NEW pri \in Priority
    PROVE  /\ Lane(p, pri) \in Seq(Nat)
           /\ phase[p] = "closed" => Len(Lane(p, pri)) = 0
           /\ phase[p] # "closed" => Within(Lane(p, pri), wire[p][pri], accepted[p][pri])
<1> DEFINE w == writes[p][pri]
           c == chan[p][pri]
           b == buffer[p][pri]
<1>1. TypeOK /\ Streams /\ Buried
    BY DEF CInv, IInv
<1>2. w \in Seq(Nat) /\ c \in Seq(Nat) /\ b \in Seq(Nat)
    BY <1>1, StreamTypes DEF Queue
<1>3. StreamOK(phase[p], writes[p], chan[p], buffer[p], accepted[p], wire[p])
    BY <1>1 DEF Streams
<1>4. Lane(p, pri) = (w \o c) \o b
    BY DEF Lane
<1>5. phase[p] # "open" => w = <<>> /\ c = <<>>
    BY <1>3, EmptyQueue DEF StreamOK
<1>6. phase[p] = "closed" => b = <<>>
    BY <1>3, EmptyQueue DEF StreamOK
<1>7. phase[p] = "open" => Ordered((w \o c) \o b, wire[p][pri], accepted[p][pri])
    BY <1>3 DEF StreamOK, Live
<1>8. phase[p] = "dead" => Within(b, wire[p][pri], accepted[p][pri])
    BY <1>1 DEF Buried
<1> HIDE DEF w, c, b
<1>9. (w \o c) \o b \in Seq(Nat)
    BY <1>2
<1>10. (<<>> \o <<>>) \o b = b
    BY <1>2
<1>11. phase[p] \in {"closed", "open", "dead"}
    BY <1>1, StreamTypes
<1>12. CASE phase[p] = "closed"
    BY <1>2, <1>4, <1>5, <1>6, <1>9, <1>10, <1>12
<1>13. CASE phase[p] = "dead"
    <2>1. Lane(p, pri) = b
        BY <1>4, <1>5, <1>10, <1>13
    <2> QED
        BY <1>2, <1>8, <1>13, <2>1
<1>14. CASE phase[p] = "open"
    <2>1. Within((w \o c) \o b, wire[p][pri], accepted[p][pri])
        BY <1>7, <1>14 DEF Ordered, Within
    <2> QED
        BY <1>4, <1>9, <1>14, <2>1
<1> QED
    BY <1>11, <1>12, <1>13, <1>14

\* There are no more of them than are outstanding.
LEMMA LanesCounted ==
    ASSUME CInv
    PROVE  IsFiniteSet(InLanes) /\ Cardinality(InLanes) <= Cardinality(Outstanding)
<1> DEFINE f == [m \in InLanes |-> <<m[1], m[2], Lane(m[1], m[2])[m[3]]>>]
<1>1. ASSUME NEW m \in InLanes
      PROVE  /\ m[1] \in Protos /\ m[2] \in Priority /\ m = <<m[1], m[2], m[3]>>
             /\ m[3] \in 1..Len(Lane(m[1], m[2])) /\ IsMessage(Lane(m[1], m[2])[m[3]])
    <2>1. PICK p \in Protos, pri \in Priority : m \in InLane(p, pri)
        BY DEF InLanes
    <2>2. PICK i \in 1..Len(Lane(p, pri)) : m = <<p, pri, i>> /\ IsMessage(Lane(p, pri)[i])
        BY <2>1 DEF InLane
    <2>3. m[1] = p /\ m[2] = pri /\ m[3] = i
        BY <2>2
    <2> QED
        BY <2>2, <2>3
<1>2. ASSUME NEW m \in InLanes
      PROVE  /\ phase[m[1]] # "closed"
             /\ Within(Lane(m[1], m[2]), wire[m[1]][m[2]], accepted[m[1]][m[2]])
             /\ Lane(m[1], m[2]) \in Seq(Nat)
    <2> DEFINE p == m[1]
               pri == m[2]
    <2>1. p \in Protos /\ pri \in Priority /\ m[3] \in 1..Len(Lane(p, pri))
        BY <1>1
    <2> HIDE DEF p, pri
    <2>2. /\ Lane(p, pri) \in Seq(Nat)
          /\ phase[p] = "closed" => Len(Lane(p, pri)) = 0
          /\ phase[p] # "closed" => Within(Lane(p, pri), wire[p][pri], accepted[p][pri])
        BY <2>1, LaneWithin
    <2>3. phase[p] # "closed"
        BY <2>1, <2>2
    <2> QED
        BY <2>2, <2>3 DEF p, pri
<1>3. ASSUME NEW m \in InLanes
      PROVE  f[m] \in Outstanding
    <2> DEFINE p == m[1]
               pri == m[2]
               n == Lane(m[1], m[2])[m[3]]
    <2>1. f[m] = <<p, pri, n>>
        OBVIOUS
    <2>2. p \in Protos /\ pri \in Priority /\ phase[p] # "closed"
        BY <1>1, <1>2
    <2>3. n \in (wire[p][pri] + 1)..accepted[p][pri]
        BY <1>1, <1>2 DEF Within
    <2>4. n \in Nat
        BY <1>1, <1>2
    <2> HIDE DEF p, pri, n, f
    <2>5. <<p, pri, n>> \in Given(phase, accepted, wire)
        BY <2>2, <2>3, <2>4, GivenMember
    <2> QED
        BY <2>1, <2>5 DEF Outstanding
<1>4. ASSUME NEW m \in InLanes, NEW o \in InLanes, f[m] = f[o]
      PROVE  m = o
    <2> DEFINE p == m[1]
               pri == m[2]
               q == Lane(p, pri)
               i == m[3]
               j == o[3]
    <2>1. o[1] = p /\ o[2] = pri /\ q[i] = q[j]
        BY <1>4
    <2>2. i \in 1..Len(q) /\ j \in 1..Len(q) /\ IsMessage(q[i]) /\ IsMessage(q[j])
        BY <1>1, <2>1
    <2>3. q \in Seq(Nat) /\ Within(q, wire[p][pri], accepted[p][pri])
        BY <1>2
    <2>4. m = <<p, pri, i>> /\ o = <<p, pri, j>>
        BY <1>1, <2>1
    <2> HIDE DEF p, pri, q, i, j, f
    <2>5. Len(q) \in Nat /\ q[i] \in Nat /\ q[j] \in Nat
        BY <2>2, <2>3
    <2>6. ~(i < j) /\ ~(j < i)
        BY <2>1, <2>2, <2>3, <2>5 DEF Within
    <2>7. i = j
        BY <2>2, <2>5, <2>6
    <2> QED
        BY <2>4, <2>7
<1>5. f \in Injection(InLanes, Outstanding)
    <2>1. f \in [InLanes -> Outstanding]
        BY <1>3
    <2>2. DOMAIN f = InLanes
        OBVIOUS
    <2> HIDE DEF f
    <2> QED
        BY <1>4, <2>1, <2>2 DEF Injection, IsInjective
<1>6. IsFiniteSet(Outstanding)
    BY DEF CInv, Covered
<1> HIDE DEF f
<1> QED
    BY <1>5, <1>6, FS_Injection

-----------------------------------------------------------------------------
(***************************************************************************)
(* Theorems                                                                *)
(***************************************************************************)

\* Type correctness of the way of a message.
THEOREM SendingTypes ==
    Spec => []TypeOK
<1>1. IInv => TypeOK
    BY DEF IInv
<1> QED
    BY <1>1, InitIInv, StepIInv, PTL DEF Spec

\* Of each priority, what the session accepted for a live stream is on the wire or in the
\* write buffer, the channel and the session's buffer, in this order: try_send into a full
\* channel, send_data to a sink that is not ready, and a stream that is opened again after
\* another died skip, repeat and reorder nothing.
THEOREM NothingIsSkipped ==
    Spec => []NothingSkipped
<1>1. IInv => NothingSkipped
    BY ZenonT(40) DEF IInv, Streams, StreamOK, Live, Ordered, NothingSkipped, Lane
<1> QED
    BY <1>1, InitIInv, StepIInv, PTL DEF Spec

\* pending_data_size covers every message on the way, wherever the three tasks are: in the
\* service's hand, the session's channel, the session's buffers, the streams' channels and
\* write buffers.  So send_data never takes off more than there is, and the size by which
\* distribute_to_substream decides is never too small.
THEOREM PendingIsEnough ==
    Spec => []PendingCovers
<1>1. CInv => PendingCovers
    <2> SUFFICES ASSUME CInv
                 PROVE  PendingCovers
        OBVIOUS
    <2> DEFINE a == Cardinality(InLanes)
               c == Cardinality(Outstanding)
               i == InInbox
               h == InHand
    <2>1. IsFiniteSet(InLanes) /\ a <= c
        BY LanesCounted
    <2>2. IsFiniteSet(Outstanding) /\ pending >= c + i + h
        BY DEF CInv, Covered
    <2>3. a \in Nat /\ c \in Nat
        BY <2>1, <2>2, FS_CardinalityType
    <2>4. i \in Nat /\ h \in Nat /\ pending \in Int
        <3>1. inbox \in [Priority -> Seq(Event)] /\ pending \in Int
            BY DEF CInv, IInv, TypeOK
        <3>2. InboxCount(inbox) \in Nat
            BY <3>1, InboxLanes
        <3> QED
            BY <3>1, <3>2, CountsAre DEF HandCount
    <2> HIDE DEF a, c, i, h
    <2>5. pending >= a + i + h
        BY <2>1, <2>2, <2>3, <2>4
    <2> QED
        BY <2>5 DEF PendingCovers, OnTheWay, a, i, h
<1> QED
    BY <1>1, InitCInv, StepCInv, PTL DEF Spec
=============================================================================
