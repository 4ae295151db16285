--------------------------- MODULE HandlersProofs ---------------------------
(***************************************************************************)
(* Proofs about Handlers, for any sessions, kinds and numbers of streams   *)
(* and ticks: a peer that keeps to the protocol is not reported for a      *)
(* duplicate.                                                              *)
(***************************************************************************)
EXTENDS Handlers, SequenceTheorems, TLAPS

\* What is sent to a handler of kind k, what it sends, and what it knows of a session.
Incoming(k) ==
    CASE k = "ping" -> {"Ping", "Pong"}
      [] k = "identify" -> {"Identify"}
      [] k = "discovery" -> {"Announce", "GetNodes", "Nodes"}
      [] OTHER -> {"Data"}

Outgoing(k) ==
    CASE k = "ping" -> {"Ping", "Pong"}
      [] k = "identify" -> {"Identify"}
      [] k = "discovery" -> {"Announce", "GetNodes", "Nodes"}
      [] OTHER -> {}

Message(k) == [type : Outgoing(k), nonce : Nat]
Event(k) == [type : Incoming(k), nonce : Nat] \cup {Connected, Disconnected}

Info(k) ==
    CASE k = "ping" -> [processing : BOOLEAN, nonce : Nat]
      [] k = "identify" -> [has_received : BOOLEAN]
      [] k = "discovery" ->
            [received_get_nodes : BOOLEAN, received_nodes : BOOLEAN, listen : BOOLEAN, announce : BOOLEAN]
      [] OTHER -> {}

Handler(k) ==
    [sessions : SUBSET Sessions, infos : [Sessions -> Info(k) \cup {None}], secio_enabled : BOOLEAN,
     shared : [Sessions -> [entry : BOOLEAN, protocol : BOOLEAN]],
     asked : SUBSET Sessions, blamed : SUBSET (Sessions \X {"Duplicate", "Timeout", "TooMany"}),
     panicked : BOOLEAN, sends : [Sessions -> Seq(Message(k))]]

TypeOK ==
    /\ kind \in {"ping", "identify", "discovery", "connector"}
    /\ secio \in BOOLEAN /\ outbound \in [Sessions -> BOOLEAN] /\ closed \in [Sessions -> BOOLEAN]
    /\ stream \in [Sessions -> {"none", "open", "broken"}]
    /\ out \in [Sessions -> Seq(Seq(Event(kind)))] /\ heard \in [Sessions -> Seq(Message(kind))]
    /\ said \in [Sessions -> SUBSET Incoming(kind)] /\ opens \in [Sessions -> Nat]
    /\ told \in [Sessions -> {"none", "open", "closed"}]
    /\ h \in Handler(kind) /\ ticks \in Nat /\ shutdown \in {"no", "set", "ended"}

Has(q, type) == \E i \in 1..Len(q) : q[i].type = type
Once(q, type) == \A i, j \in 1..Len(q) : q[i].type = type /\ q[j].type = type => i = j

Countable == {"Identify", "GetNodes", "Nodes"}

\* What the handler has counted as received: a second one would be a duplicate.
Counted(k, info, type) ==
    /\ info # None
    /\ \/ k = "identify" /\ type = "Identify" /\ info.has_received
       \/ k = "discovery" /\ type = "GetNodes" /\ info.received_get_nodes
       \/ k = "discovery" /\ type = "Nodes" /\ info.received_nodes

\* What the handler knows of a session with one stream, of which o is still to be handled,
\* he is on the way to the peer and sd has been said: whatever it has counted
\* is not on its way again.  The nodes are asked for when Connected is handled, answered
\* by the peer, and counted; they are in one of these places only.
Consistent(k, info, o, he, sd) ==
    /\ \A i \in 1..Len(o) : o[i].type = "Connected" => i = 1
    /\ \A type \in Countable : Once(o, type) /\ (Has(o, type) => type = "Nodes" \/ type \in sd)
    /\ Once(he, "GetNodes")
    /\ Has(o, "Connected") => ~Has(he, "GetNodes") /\ ~Has(o, "Nodes")
    /\ Has(he, "GetNodes") => ~Has(o, "Nodes")
    /\ \A type \in Countable : Counted(k, info, type) =>
          /\ ~Has(o, "Connected") /\ ~Has(o, type)
          /\ IF type = "Nodes" THEN ~Has(he, "GetNodes") ELSE type \in sd

Peer(s) ==
    /\ Len(out[s]) = opens[s]
    /\ opens[s] = 0 => stream[s] = "none" /\ \A type \in Countable : ~Counted(kind, h.infos[s], type)
    /\ opens[s] = 1 => Consistent(kind, h.infos[s], out[s][1], heard[s], said[s])
    /\ opens[s] <= 1 => <<s, "Duplicate">> \notin h.blamed

Peers == \A s \in Sessions : Peer(s) /\ h.sends[s] = <<>>
IInv == TypeOK /\ Peers

-----------------------------------------------------------------------------
(***************************************************************************)
(* Sequences of messages                                                   *)
(***************************************************************************)

\* One more message.
LEMMA HasAppend ==
    ASSUME NEW S, NEW q \in Seq(S), NEW e \in S, NEW type
    PROVE  /\ Append(q, e) \in Seq(S)
           /\ Has(Append(q, e), type) <=> Has(q, type) \/ e.type = type
           /\ Once(q, type) /\ ~(Has(q, type) /\ e.type = type) => Once(Append(q, e), type)
<1> DEFINE r == Append(q, e)
           l == Len(q)
<1>1. /\ l \in Nat /\ Len(r) = l + 1 /\ r[l + 1] = e /\ r \in Seq(S)
      /\ \A i \in 1..l : r[i] = q[i] /\ i \in 1..(l + 1)
      /\ l + 1 \in 1..(l + 1)
    OBVIOUS
<1>2. \A i \in 1..(l + 1) : i \in 1..l \/ i = l + 1
    BY <1>1
<1> HIDE DEF r
<1>3. Has(q, type) <=> \E i \in 1..l : q[i].type = type
    BY DEF Has
<1>4. Once(q, type) <=> \A i, j \in 1..l : q[i].type = type /\ q[j].type = type => i = j
    BY DEF Once
<1> HIDE DEF l
<1>5. Has(r, type) <=> Has(q, type) \/ e.type = type
    BY <1>1, <1>2, <1>3 DEF Has
<1>6. ASSUME Once(q, type), ~(Has(q, type) /\ e.type = type)
      PROVE  Once(r, type)
    BY <1>1, <1>2, <1>3, <1>4, <1>6 DEF Once
<1> QED
    BY <1>1, <1>5, <1>6 DEF r

\* The first one is taken.
LEMMA HasTail ==
    ASSUME NEW S, NEW q \in Seq(S), q # <<>>, NEW type
    PROVE  /\ Tail(q) \in Seq(S) /\ Head(q) \in S /\ Len(q) > 0 /\ Head(q) = q[1]
           /\ Has(Tail(q), type) => Has(q, type)
           /\ Head(q).type = type => Has(q, type)
           /\ Once(q, type) => Once(Tail(q), type)
           /\ Once(q, type) /\ Head(q).type = type => ~Has(Tail(q), type)
<1> DEFINE r == Tail(q)
           l == Len(q)
<1>1. /\ l \in Nat /\ l > 0 /\ Len(r) = l - 1 /\ r \in Seq(S) /\ Head(q) = q[1] /\ Head(q) \in S
      /\ \A i \in 1..(l - 1) : r[i] = q[i + 1] /\ i + 1 \in 1..l /\ i + 1 # 1
      /\ 1 \in 1..l
    OBVIOUS
<1> HIDE DEF r
<1>3. Has(q, type) <=> \E i \in 1..l : q[i].type = type
    BY DEF Has
<1>4. Once(q, type) <=> \A i, j \in 1..l : q[i].type = type /\ q[j].type = type => i = j
    BY DEF Once
<1> HIDE DEF l
<1>5. Has(r, type) => Has(q, type)
    BY <1>1, <1>3 DEF Has
<1>6. Head(q).type = type => Has(q, type)
    BY <1>1, <1>3
<1>7. ASSUME Once(q, type)
      PROVE  Once(r, type)
    <2> SUFFICES ASSUME NEW i \in 1..(l - 1), NEW j \in 1..(l - 1), r[i].type = type, r[j].type = type
                 PROVE  i = j
        BY <1>1 DEF Once
    <2>1. i + 1 = j + 1
        BY <1>1, <1>4, <1>7
    <2> QED
        BY <2>1
<1>8. ASSUME Once(q, type), Head(q).type = type
      PROVE  ~Has(r, type)
    BY <1>1, <1>4, <1>8 DEF Has
<1> QED
    BY <1>1, <1>5, <1>6, <1>7, <1>8 DEF r, l

\* Two sequences, one after the other.
LEMMA HasConcat ==
    ASSUME NEW S, NEW p \in Seq(S), NEW q \in Seq(S), NEW type
    PROVE  /\ p \o q \in Seq(S)
           /\ Has(p \o q, type) <=> Has(p, type) \/ Has(q, type)
           /\ Once(p, type) /\ Once(q, type) /\ ~(Has(p, type) /\ Has(q, type)) => Once(p \o q, type)
<1> DEFINE r == p \o q
           l == Len(p)
           m == Len(q)
<1>1. /\ l \in Nat /\ m \in Nat /\ Len(r) = l + m /\ r \in Seq(S)
      /\ \A i \in 1..l : r[i] = p[i] /\ i \in 1..(l + m)
      /\ \A i \in 1..m : r[l + i] = q[i] /\ l + i \in 1..(l + m)
    OBVIOUS
<1> HIDE DEF r
<1>2. /\ Has(p, type) <=> \E i \in 1..l : p[i].type = type
      /\ Has(q, type) <=> \E i \in 1..m : q[i].type = type
    BY DEF Has
<1>3. /\ Once(p, type) <=> \A i, j \in 1..l : p[i].type = type /\ p[j].type = type => i = j
      /\ Once(q, type) <=> \A i, j \in 1..m : q[i].type = type /\ q[j].type = type => i = j
    BY DEF Once
<1> HIDE DEF l, m
<1>4. \A i \in 1..(l + m) : i \in 1..l \/ (i - l \in 1..m /\ l + (i - l) = i /\ i - l \in Int)
    BY <1>1
<1>5. Has(r, type) <=> Has(p, type) \/ Has(q, type)
    <2>1. Has(r, type) => Has(p, type) \/ Has(q, type)
        <3> SUFFICES ASSUME NEW i \in 1..(l + m), r[i].type = type
                     PROVE  Has(p, type) \/ Has(q, type)
            BY <1>1 DEF Has
        <3>1. CASE i \in 1..l
            BY <1>1, <1>2, <3>1
        <3>2. CASE i - l \in 1..m /\ l + (i - l) = i
            BY <1>1, <1>2, <3>2
        <3> QED
            BY <1>4, <3>1, <3>2
    <2>2. Has(p, type) => Has(r, type)
        BY <1>1, <1>2 DEF Has
    <2>3. Has(q, type) => Has(r, type)
        BY <1>1, <1>2 DEF Has
    <2> QED
        BY <2>1, <2>2, <2>3
<1>6. ASSUME Once(p, type), Once(q, type), ~(Has(p, type) /\ Has(q, type))
      PROVE  Once(r, type)
    <2> SUFFICES ASSUME NEW i \in 1..(l + m), NEW j \in 1..(l + m), r[i].type = type, r[j].type = type
                 PROVE  i = j
        BY <1>1 DEF Once
    <2>1. ASSUME NEW x \in 1..(l + m), r[x].type = type
          PROVE  \/ x \in 1..l /\ p[x].type = type /\ Has(p, type)
                 \/ x - l \in 1..m /\ q[x - l].type = type /\ Has(q, type)
        <3>1. CASE x \in 1..l
            BY <1>1, <1>2, <2>1, <3>1
        <3>2. CASE x - l \in 1..m /\ l + (x - l) = x
            BY <1>1, <1>2, <2>1, <3>2
        <3> QED
            BY <1>4, <3>1, <3>2
    <2>2. CASE i \in 1..l /\ p[i].type = type /\ Has(p, type)
        <3>1. j \in 1..l /\ p[j].type = type
            BY <1>6, <2>1, <2>2
        <3> QED
            BY <1>3, <1>6, <2>2, <3>1
    <2>3. CASE i - l \in 1..m /\ q[i - l].type = type /\ Has(q, type)
        <3>1. j - l \in 1..m /\ q[j - l].type = type
            BY <1>6, <2>1, <2>3
        <3>2. i - l = j - l
            BY <1>3, <1>6, <2>3, <3>1
        <3> QED
            BY <1>1, <3>2
    <2> QED
        BY <2>1, <2>2, <2>3
<1> QED
    BY <1>1, <1>5, <1>6 DEF r

\* Only the first n are left.
LEMMA HasPrefix ==
    ASSUME NEW S, NEW q \in Seq(S), NEW n \in 0..Len(q), NEW type
    PROVE  /\ SubSeq(q, 1, n) \in Seq(S) /\ Len(SubSeq(q, 1, n)) = n
           /\ \A i \in 1..n : SubSeq(q, 1, n)[i] = q[i] /\ i \in 1..Len(q)
           /\ Has(SubSeq(q, 1, n), type) => Has(q, type)
           /\ Once(q, type) => Once(SubSeq(q, 1, n), type)
<1> DEFINE r == SubSeq(q, 1, n)
           l == Len(q)
<1>1. /\ r \in Seq(S) /\ Len(r) = n /\ l \in Nat
      /\ \A i \in 1..n : r[i] = q[i] /\ i \in 1..l
    OBVIOUS
<1> HIDE DEF r
<1>2. Has(q, type) <=> \E i \in 1..l : q[i].type = type
    BY DEF Has
<1>3. Once(q, type) <=> \A i, j \in 1..l : q[i].type = type /\ q[j].type = type => i = j
    BY DEF Once
<1> HIDE DEF l
<1>4. Has(r, type) => Has(q, type)
    BY <1>1, <1>2 DEF Has
<1>5. Once(q, type) => Once(r, type)
    BY <1>1, <1>3 DEF Once
<1> QED
    BY <1>1, <1>4, <1>5 DEF r, l

-----------------------------------------------------------------------------
(***************************************************************************)
(* One peer                                                                *)
(***************************************************************************)

\* What a handler may do to its info of a session when it handles an event of type ev, or
\* none of the session: it counts nothing else, and asks for nodes only when it
\* is connected.
Reacts(k, ev, info, info2, sends) ==
    /\ \A type \in Countable : Counted(k, info2, type) => Counted(k, info, type) \/ type = ev
    /\ Once(sends, "GetNodes") /\ (Has(sends, "GetNodes") => ev = "Connected")

\* What a handler does that handles no event of the session.
LEMMA ConsistentQuiet ==
    ASSUME NEW k, NEW info, NEW info2, NEW S, NEW o \in Seq(S), NEW M, NEW he \in Seq(M), NEW sd,
           NEW sends \in Seq(M), Consistent(k, info, o, he, sd), Reacts(k, "none", info, info2, sends)
    PROVE  /\ Consistent(k, info2, o, he, sd)
           /\ Consistent(k, info2, o, he \o sends, sd)
<1>1. \A type \in Countable : Counted(k, info2, type) => Counted(k, info, type)
    BY DEF Reacts, Countable
<1>2. ~Has(sends, "GetNodes") /\ Once(sends, "GetNodes")
    BY DEF Reacts
<1>3. Consistent(k, info2, o, he, sd)
    BY <1>1 DEF Consistent
<1>4. Once(he \o sends, "GetNodes") /\ (Has(he \o sends, "GetNodes") <=> Has(he, "GetNodes"))
    BY <1>2, HasConcat DEF Consistent
<1>5. Consistent(k, info2, o, he \o sends, sd)
    BY <1>3, <1>4 DEF Consistent
<1> QED
    BY <1>3, <1>5

\* The first event is lost, or handled.
LEMMA ConsistentHandle ==
    ASSUME NEW k, NEW info, NEW info2, NEW S, NEW o \in Seq(S), NEW M, NEW he \in Seq(M), NEW sd,
           NEW sends \in Seq(M), o # <<>>, Consistent(k, info, o, he, sd),
           Reacts(k, Head(o).type, info, info2, sends)
    PROVE  /\ ~(Head(o).type \in Countable /\ Counted(k, info, Head(o).type))
           /\ Consistent(k, info, Tail(o), he, sd)
           /\ Consistent(k, info2, Tail(o), he, sd)
           /\ Consistent(k, info2, Tail(o), he \o sends, sd)
<1> DEFINE r == Tail(o)
           ev == Head(o).type
<1>1. /\ r \in Seq(S) /\ Len(o) > 0 /\ Head(o) = o[1]
      /\ \A type : Has(r, type) => Has(o, type)
      /\ \A type : ev = type => Has(o, type)
      /\ \A type : Once(o, type) => Once(r, type)
      /\ \A type : Once(o, type) /\ ev = type => ~Has(r, type)
    BY HasTail
<1>2. ~Has(r, "Connected")
    <2> SUFFICES ASSUME NEW i \in 1..Len(r), r[i].type = "Connected"
                 PROVE  FALSE
        BY DEF Has
    <2>1. i + 1 \in 1..Len(o) /\ r[i] = o[i + 1] /\ i + 1 # 1
        BY <1>1
    <2> QED
        BY <2>1 DEF Consistent
<1>3. \A i \in 1..Len(r) : r[i].type = "Connected" => i = 1
    BY <1>2 DEF Has
<1> HIDE DEF r
<1>4. \A type \in Countable : Once(r, type) /\ (Has(r, type) => type = "Nodes" \/ type \in sd)
    BY <1>1 DEF Consistent
<1>5. \A type \in Countable : ~(type = ev /\ Counted(k, info, type))
    BY <1>1 DEF Consistent
<1>6. Consistent(k, info, r, he, sd)
    <2>1. Has(he, "GetNodes") => ~Has(r, "Nodes")
        BY <1>1 DEF Consistent
    <2>2. \A type \in Countable : Counted(k, info, type) =>
              ~Has(r, type) /\ IF type = "Nodes" THEN ~Has(he, "GetNodes") ELSE type \in sd
        BY <1>1 DEF Consistent
    <2> QED
        BY <1>2, <1>3, <1>4, <2>1, <2>2 DEF Consistent
<1>7. ASSUME NEW type \in Countable, Counted(k, info2, type)
      PROVE  ~Has(r, type) /\ IF type = "Nodes" THEN ~Has(he, "GetNodes") ELSE type \in sd
    <2>1. CASE Counted(k, info, type)
        BY <1>6, <2>1 DEF Consistent
    <2>2. CASE type = ev
        <3>1. Has(o, type) /\ ~Has(r, type)
            BY <1>1, <2>2 DEF Consistent
        <3>2. type = "Nodes" => ~Has(he, "GetNodes")
            BY <3>1 DEF Consistent
        <3>3. type # "Nodes" => type \in sd
            BY <3>1 DEF Consistent
        <3> QED
            BY <3>1, <3>2, <3>3
    <2> QED
        BY <1>7, <2>1, <2>2 DEF Reacts
<1>8. Once(he, "GetNodes") /\ (Has(he, "GetNodes") => ~Has(r, "Nodes"))
    BY <1>6 DEF Consistent
<1>9. Consistent(k, info2, r, he, sd)
    BY <1>2, <1>3, <1>4, <1>7, <1>8 DEF Consistent
<1>10. Once(sends, "GetNodes") /\ (Has(sends, "GetNodes") => ev = "Connected")
    BY DEF Reacts
<1>11. Consistent(k, info2, r, he \o sends, sd)
    <2>1. CASE ~Has(sends, "GetNodes")
        <3>1. Once(he \o sends, "GetNodes") /\ (Has(he \o sends, "GetNodes") <=> Has(he, "GetNodes"))
            BY <1>8, <1>10, <2>1, HasConcat
        <3> QED
            BY <1>9, <3>1 DEF Consistent
    <2>2. CASE Has(sends, "GetNodes")
        <3>1. ev = "Connected" /\ Has(o, "Connected")
            BY <1>1, <1>10, <2>2
        <3>2. ~Has(he, "GetNodes") /\ ~Has(o, "Nodes")
            BY <3>1 DEF Consistent
        <3>3. ~Has(r, "Nodes")
            BY <1>1, <3>2
        <3>4. Once(he \o sends, "GetNodes")
            BY <1>8, <1>10, <3>2, HasConcat
        <3>5. \A type \in Countable : ~Counted(k, info2, type)
            <4>1. \A type \in Countable : ~Counted(k, info, type)
                BY <3>1 DEF Consistent
            <4> QED
                BY <3>1, <4>1 DEF Reacts, Countable
        <3> QED
            BY <1>2, <1>3, <1>4, <3>3, <3>4, <3>5 DEF Consistent
    <2> QED
        BY <2>1, <2>2
<1> QED
    BY <1>5, <1>6, <1>9, <1>11 DEF r

\* The peer sends something that it has not said yet, or something that does not count.
LEMMA ConsistentSays ==
    ASSUME NEW k, NEW info, NEW S, NEW o \in Seq(S), NEW he, NEW sd, NEW e \in S,
           Consistent(k, info, o, he, sd), e.type \notin {"Connected", "Nodes"}, e.type \notin sd
    PROVE  Consistent(k, info, Append(o, e), he, sd \cup {e.type})
<1> DEFINE r == Append(o, e)
           l == Len(o)
<1>1. /\ \A type : Has(r, type) <=> Has(o, type) \/ e.type = type
      /\ \A type : Once(o, type) /\ ~(Has(o, type) /\ e.type = type) => Once(r, type)
    BY HasAppend
<1>2. /\ l \in Nat /\ Len(r) = l + 1 /\ r[l + 1] = e /\ \A i \in 1..l : r[i] = o[i]
    OBVIOUS
<1> HIDE DEF r
<1>3. \A i \in 1..l : o[i].type = "Connected" => i = 1
    BY DEF Consistent
<1> HIDE DEF l
<1>4. \A i \in 1..Len(r) : r[i].type = "Connected" => i = 1
    <2> SUFFICES ASSUME NEW i \in 1..(l + 1), r[i].type = "Connected"
                 PROVE  i = 1
        BY <1>2
    <2>1. i \in 1..l \/ i = l + 1
        BY <1>2
    <2> QED
        BY <1>2, <1>3, <2>1
<1>5. \A type \in Countable :
          /\ Once(r, type)
          /\ Has(r, type) => type = "Nodes" \/ type \in sd \cup {e.type}
    BY <1>1 DEF Consistent
<1>6. \A type \in Countable : Counted(k, info, type) => ~Has(r, "Connected") /\ ~Has(r, type)
    <2> SUFFICES ASSUME NEW type \in Countable, Counted(k, info, type)
                 PROVE  ~Has(r, "Connected") /\ ~Has(r, type)
        OBVIOUS
    <2>1. ~Has(o, "Connected") /\ ~Has(o, type) /\ (type = "Nodes" \/ type \in sd)
        BY DEF Consistent
    <2>2. e.type # type
        BY <2>1
    <2> QED
        BY <1>1, <2>1, <2>2
<1>7. Consistent(k, info, r, he, sd \cup {e.type})
    BY <1>1, <1>4, <1>5, <1>6 DEF Consistent
<1> QED
    BY <1>7 DEF r

\* The peer sends something that does not count.
LEMMA ConsistentNeutral ==
    ASSUME NEW k, NEW info, NEW S, NEW o \in Seq(S), NEW he, NEW sd, NEW e \in S,
           Consistent(k, info, o, he, sd), e.type \notin Countable \cup {"Connected"}
    PROVE  Consistent(k, info, Append(o, e), he, sd)
<1> DEFINE r == Append(o, e)
           l == Len(o)
<1>1. /\ \A type : Has(r, type) <=> Has(o, type) \/ e.type = type
      /\ \A type : Once(o, type) /\ ~(Has(o, type) /\ e.type = type) => Once(r, type)
    BY HasAppend
<1>2. /\ l \in Nat /\ Len(r) = l + 1 /\ r[l + 1] = e /\ \A i \in 1..l : r[i] = o[i]
    OBVIOUS
<1> HIDE DEF r
<1>3. \A i \in 1..l : o[i].type = "Connected" => i = 1
    BY DEF Consistent
<1> HIDE DEF l
<1>4. \A i \in 1..Len(r) : r[i].type = "Connected" => i = 1
    <2> SUFFICES ASSUME NEW i \in 1..(l + 1), r[i].type = "Connected"
                 PROVE  i = 1
        BY <1>2
    <2>1. i \in 1..l \/ i = l + 1
        BY <1>2
    <2> QED
        BY <1>2, <1>3, <2>1
<1>5. \A type \in Countable \cup {"Connected"} : Has(r, type) <=> Has(o, type)
    BY <1>1
<1>6. \A type \in Countable : Once(r, type)
    BY <1>1 DEF Consistent
<1>7. "Nodes" \in Countable
    BY DEF Countable
<1>8. Consistent(k, info, r, he, sd)
    BY <1>4, <1>5, <1>6, <1>7 DEF Consistent
<1> QED
    BY <1>8 DEF r

\* The peer takes the first message.
LEMMA ConsistentHears ==
    ASSUME NEW k, NEW info, NEW o, NEW M, NEW he \in Seq(M), NEW sd, he # <<>>,
           Consistent(k, info, o, he, sd)
    PROVE  Consistent(k, info, o, Tail(he), sd)
<1>1. /\ Has(Tail(he), "GetNodes") => Has(he, "GetNodes")
      /\ Once(he, "GetNodes") => Once(Tail(he), "GetNodes")
    BY HasTail
<1> QED
    BY <1>1 DEF Consistent

\* ... and answers it with nodes.
LEMMA ConsistentAnswers ==
    ASSUME NEW k, NEW info, NEW S, NEW o \in Seq(S), NEW M, NEW he \in Seq(M), NEW sd, he # <<>>,
           Consistent(k, info, o, he, sd), NEW e \in S, e.type = "Nodes", Head(he).type = "GetNodes"
    PROVE  Consistent(k, info, Append(o, e), Tail(he), sd)
<1> DEFINE r == Append(o, e)
           l == Len(o)
<1>1. /\ \A type : Has(r, type) <=> Has(o, type) \/ e.type = type
      /\ \A type : Once(o, type) /\ ~(Has(o, type) /\ e.type = type) => Once(r, type)
    BY HasAppend
<1>2. /\ l \in Nat /\ Len(r) = l + 1 /\ r[l + 1] = e /\ \A i \in 1..l : r[i] = o[i]
    OBVIOUS
<1>3. Has(he, "GetNodes") /\ Once(Tail(he), "GetNodes") /\ ~Has(Tail(he), "GetNodes")
    BY HasTail DEF Consistent
<1> HIDE DEF r
<1>4. \A i \in 1..l : o[i].type = "Connected" => i = 1
    BY DEF Consistent
<1> HIDE DEF l
<1>5. \A i \in 1..Len(r) : r[i].type = "Connected" => i = 1
    <2> SUFFICES ASSUME NEW i \in 1..(l + 1), r[i].type = "Connected"
                 PROVE  i = 1
        BY <1>2
    <2>1. i \in 1..l \/ i = l + 1
        BY <1>2
    <2> QED
        BY <1>2, <1>4, <2>1
<1>6. ~Has(o, "Connected") /\ ~Has(o, "Nodes")
    BY <1>3 DEF Consistent
<1>7. ~Has(r, "Connected")
    BY <1>1, <1>6
<1>8. \A type \in Countable : Once(r, type) /\ (Has(r, type) => type = "Nodes" \/ type \in sd)
    <2> SUFFICES ASSUME NEW type \in Countable
                 PROVE  Once(r, type) /\ (Has(r, type) => type = "Nodes" \/ type \in sd)
        OBVIOUS
    <2>1. Once(o, type) /\ (Has(o, type) => type = "Nodes" \/ type \in sd)
        BY DEF Consistent
    <2> QED
        BY <1>1, <1>6, <2>1
<1>9. ASSUME NEW type \in Countable, Counted(k, info, type)
      PROVE  /\ ~Has(r, type)
             /\ IF type = "Nodes" THEN ~Has(Tail(he), "GetNodes") ELSE type \in sd
    <2>1. ~Has(o, type) /\ (IF type = "Nodes" THEN ~Has(he, "GetNodes") ELSE type \in sd)
        BY <1>9 DEF Consistent
    <2>2. type # "Nodes"
        BY <1>3, <2>1
    <2> QED
        BY <1>1, <2>1, <2>2
<1>10. Consistent(k, info, r, Tail(he), sd)
    BY <1>3, <1>5, <1>7, <1>8, <1>9 DEF Consistent
<1> QED
    BY <1>10 DEF r

\* What is buffered is lost, from somewhere on.
LEMMA ConsistentBreaks ==
    ASSUME NEW k, NEW info, NEW S, NEW o \in Seq(S), NEW he, NEW sd, NEW n \in 0..Len(o),
           Consistent(k, info, o, he, sd)
    PROVE  Consistent(k, info, SubSeq(o, 1, n), he, sd)
<1> DEFINE r == SubSeq(o, 1, n)
<1>1. Len(r) = n /\ \A i \in 1..n : r[i] = o[i] /\ i \in 1..Len(o)
    BY HasPrefix
<1>2. \A type : (Has(r, type) => Has(o, type)) /\ (Once(o, type) => Once(r, type))
    BY HasPrefix
<1> HIDE DEF r
<1>3. \A i \in 1..Len(r) : r[i].type = "Connected" => i = 1
    BY <1>1 DEF Consistent
<1>4. Consistent(k, info, r, he, sd)
    BY <1>2, <1>3 DEF Consistent
<1> QED
    BY <1>4 DEF r

\* A new stream.
LEMMA ConsistentOpens ==
    ASSUME NEW k, NEW info, \A type \in Countable : ~Counted(k, info, type)
    PROVE  Consistent(k, info, <<Connected>>, <<>>, {})
<1>1. Len(<<Connected>>) = 1 /\ <<Connected>>[1].type = "Connected"
    BY DEF Connected, Msg
<1>2. \A type : ~Has(<<>>, type) /\ Once(<<>>, type)
    BY DEF Has, Once
<1> DEFINE r == <<Connected>>
<1>3. Len(r) = 1 /\ r[1].type = "Connected"
    BY <1>1
<1> HIDE DEF r
<1>4. \A type \in Countable : ~Has(r, type) /\ Once(r, type)
    BY <1>3 DEF Has, Once, Countable
<1>5. \A i \in 1..Len(r) : r[i].type = "Connected" => i = 1
    BY <1>3
<1>6. "Nodes" \in Countable
    BY DEF Countable
<1>7. Consistent(k, info, r, <<>>, {})
    BY <1>2, <1>4, <1>5, <1>6 DEF Consistent
<1> QED
    BY <1>7 DEF r

-----------------------------------------------------------------------------
(***************************************************************************)
(* What handlers do                                                        *)
(***************************************************************************)

\* The parts of a handler's state.
LEMMA Fields ==
    ASSUME NEW k, NEW g \in Handler(k)
    PROVE  /\ g.sessions \in SUBSET Sessions /\ g.infos \in [Sessions -> Info(k) \cup {None}]
           /\ g.secio_enabled \in BOOLEAN
           /\ g.shared \in [Sessions -> [entry : BOOLEAN, protocol : BOOLEAN]]
           /\ g.asked \in SUBSET Sessions
           /\ g.blamed \in SUBSET (Sessions \X {"Duplicate", "Timeout", "TooMany"})
           /\ g.panicked \in BOOLEAN /\ g.sends \in [Sessions -> Seq(Message(k))]
BY DEF Handler

\* A message is sent.
LEMMA SendTo ==
    ASSUME NEW k, NEW g \in Handler(k), NEW s \in Sessions, NEW m \in Message(k)
    PROVE  /\ Send(g, s, m) \in Handler(k) /\ Send(g, s, m).infos = g.infos
           /\ Send(g, s, m).blamed = g.blamed
           /\ Send(g, s, m).sends = [g.sends EXCEPT ![s] = Append(@, m)]
<1>1. g.sends[s] \in Seq(Message(k)) /\ g.sends \in [Sessions -> Seq(Message(k))]
    BY Fields
<1>2. Append(g.sends[s], m) \in Seq(Message(k))
    BY <1>1
<1>3. [g.sends EXCEPT ![s] = Append(@, m)] \in [Sessions -> Seq(Message(k))]
    BY <1>1, <1>2
<1> QED
    BY <1>3 DEF Send, Handler

\* The peer is disconnected.
LEMMA Disconnects ==
    ASSUME NEW k, NEW g \in Handler(k), NEW s \in Sessions
    PROVE  /\ disconnect(g, s) \in Handler(k) /\ disconnect(g, s).infos = g.infos
           /\ disconnect(g, s).blamed = g.blamed /\ disconnect(g, s).sends = g.sends
BY DEF disconnect, Handler

\* The peer is blamed.
LEMMA Blames ==
    ASSUME NEW k, NEW g \in Handler(k), NEW s \in Sessions, NEW what \in {"Duplicate", "TooMany"}
    PROVE  /\ Blame(g, s, what) \in Handler(k) /\ Blame(g, s, what).infos = g.infos
           /\ Blame(g, s, what).blamed = g.blamed \cup {<<s, what>>}
           /\ Blame(g, s, what).sends = g.sends
<1> DEFINE b == g.blamed \cup {<<s, what>>}
<1>1. b \in SUBSET (Sessions \X {"Duplicate", "Timeout", "TooMany"})
    BY Fields
<1>2. Blame(g, s, what) = [g EXCEPT !.blamed = b]
    BY DEF Blame
<1> HIDE DEF b
<1>3. [g EXCEPT !.blamed = b] \in Handler(k)
    BY <1>1 DEF Handler
<1>4. /\ [g EXCEPT !.blamed = b].infos = g.infos /\ [g EXCEPT !.blamed = b].blamed = b
      /\ [g EXCEPT !.blamed = b].sends = g.sends
    BY DEF Handler
<1> QED
    BY <1>2, <1>3, <1>4 DEF b

\* The handler's own state of a session changes.
LEMMA Informs ==
    ASSUME NEW k, NEW g \in Handler(k), NEW s \in Sessions, NEW info \in Info(k) \cup {None}
    PROVE  LET g2 == [g EXCEPT !.infos[s] = info] IN
           /\ g2 \in Handler(k) /\ g2.infos = [g.infos EXCEPT ![s] = info]
           /\ g2.blamed = g.blamed /\ g2.sends = g.sends
BY DEF Handler

\* The handler panics.
LEMMA Panics ==
    ASSUME NEW k, NEW g \in Handler(k)
    PROVE  LET g2 == [g EXCEPT !.panicked = TRUE] IN
           /\ g2 \in Handler(k) /\ g2.infos = g.infos /\ g2.blamed = g.blamed /\ g2.sends = g.sends
BY DEF Handler

\* What a handler in state g, with nothing to send, may come to when it handles an event
\* of type ev of session s: it does nothing to the others, and blames for a duplicate only
\* who has sent what is counted.
Acts(k, g, g2, s, ev) ==
    /\ g2 \in Handler(k)
    /\ \A t \in Sessions : t # s =>
          /\ g2.infos[t] = g.infos[t] /\ g2.sends[t] = <<>>
          /\ <<t, "Duplicate">> \in g2.blamed => <<t, "Duplicate">> \in g.blamed
    /\ Reacts(k, ev, g.infos[s], g2.infos[s], g2.sends[s])
    /\ <<s, "Duplicate">> \in g2.blamed =>
          <<s, "Duplicate">> \in g.blamed \/ (ev \in Countable /\ Counted(k, g.infos[s], ev))

Silent(g) == \A t \in Sessions : g.sends[t] = <<>>

\* A message other than GetNodes, alone.
LEMMA Singles ==
    ASSUME NEW m
    PROVE  /\ Once(<<>>, "GetNodes") /\ ~Has(<<>>, "GetNodes")
           /\ Once(Append(<<>>, m), "GetNodes")
           /\ Has(Append(<<>>, m), "GetNodes") => m.type = "GetNodes"
<1>1. Append(<<>>, m) = <<m>>
    OBVIOUS
<1>2. Len(<<m>>) = 1 /\ <<m>>[1] = m
    OBVIOUS
<1> QED
    BY <1>1, <1>2 DEF Once, Has

\* Nothing is counted of a session that is not known.
LEMMA NoneCounted ==
    ASSUME NEW k, NEW type
    PROVE  ~Counted(k, None, type)
BY DEF Counted

\* An action that changes infos to info, and sends and blames nothing.
LEMMA ActsInforms ==
    ASSUME NEW k, NEW g \in Handler(k), NEW s \in Sessions, NEW g2 \in Handler(k), NEW ev, Silent(g),
           NEW info, g2.infos = [g.infos EXCEPT ![s] = info], g2.blamed = g.blamed, g2.sends = g.sends,
           \A type \in Countable : Counted(k, info, type) => Counted(k, g.infos[s], type) \/ type = ev
    PROVE  Acts(k, g, g2, s, ev)
<1>1. g.infos \in [Sessions -> Info(k) \cup {None}]
    BY Fields
<1>2. g2.infos[s] = info /\ \A t \in Sessions : t # s => g2.infos[t] = g.infos[t]
    BY <1>1
<1>3. \A t \in Sessions : g2.sends[t] = <<>>
    BY DEF Silent
<1>4. Reacts(k, ev, g.infos[s], g2.infos[s], g2.sends[s])
    BY <1>2, <1>3, Singles DEF Reacts
<1> QED
    BY <1>2, <1>3, <1>4 DEF Acts

\* An action that sends m and changes infos to info.
LEMMA ActsSends ==
    ASSUME NEW k, NEW g \in Handler(k), NEW s \in Sessions, NEW g2 \in Handler(k), NEW ev, Silent(g),
           NEW info, g2.infos = [g.infos EXCEPT ![s] = info],
           NEW m, g2.sends = [g.sends EXCEPT ![s] = Append(@, m)],
           m.type = "GetNodes" => ev = "Connected",
           \A type \in Countable : Counted(k, info, type) => Counted(k, g.infos[s], type) \/ type = ev,
           g2.blamed \subseteq g.blamed
               \cup (IF ev \in Countable /\ Counted(k, g.infos[s], ev) THEN {<<s, "Duplicate">>} ELSE {})
    PROVE  Acts(k, g, g2, s, ev)
<1>1. g.infos \in [Sessions -> Info(k) \cup {None}] /\ g.sends \in [Sessions -> Seq(Message(k))]
    BY Fields
<1>2. g2.infos[s] = info /\ \A t \in Sessions : t # s => g2.infos[t] = g.infos[t]
    BY <1>1
<1>3. g2.sends[s] = Append(<<>>, m) /\ \A t \in Sessions : t # s => g2.sends[t] = <<>>
    BY <1>1 DEF Silent
<1>4. Reacts(k, ev, g.infos[s], g2.infos[s], g2.sends[s])
    <2> DEFINE q == Append(<<>>, m)
    <2>1. Once(q, "GetNodes") /\ (Has(q, "GetNodes") => m.type = "GetNodes")
        BY Singles
    <2> HIDE DEF q
    <2>2. Reacts(k, ev, g.infos[s], info, q)
        BY <2>1 DEF Reacts
    <2> QED
        BY <1>2, <1>3, <2>2 DEF q
<1>5. \A t \in Sessions : t # s => (<<t, "Duplicate">> \in g2.blamed => <<t, "Duplicate">> \in g.blamed)
    OBVIOUS
<1> QED
    BY <1>2, <1>3, <1>4, <1>5 DEF Acts

\* An action that does none of this, but may blame for what is counted.
LEMMA ActsBlames ==
    ASSUME NEW k, NEW g \in Handler(k), NEW s \in Sessions, NEW g2 \in Handler(k), NEW ev, Silent(g),
           g2.infos = g.infos, g2.sends = g.sends,
           g2.blamed \subseteq g.blamed
               \cup (IF ev \in Countable /\ Counted(k, g.infos[s], ev) THEN {<<s, "Duplicate">>} ELSE {})
    PROVE  Acts(k, g, g2, s, ev)
<1>1. \A t \in Sessions : g2.sends[t] = <<>>
    BY DEF Silent
<1>2. Reacts(k, ev, g.infos[s], g2.infos[s], g2.sends[s])
    BY <1>1, Singles DEF Reacts
<1>3. \A t \in Sessions : t # s => (<<t, "Duplicate">> \in g2.blamed => <<t, "Duplicate">> \in g.blamed)
    OBVIOUS
<1> QED
    BY <1>1, <1>2, <1>3 DEF Acts

\* Which message is meant.
LEMMA TypesOfMessages ==
    /\ \A type \in Outgoing(kind), n \in Nat : Msg(type, n) \in Message(kind) /\ Msg(type, n).type = type
    /\ Connected.type = "Connected" /\ Disconnected.type = "Disconnected"
    /\ \A m \in Event(kind) : m # Connected /\ m # Disconnected =>
           m.type \in Incoming(kind) /\ m.nonce \in Nat
BY DEF Msg, Message, Event, Connected, Disconnected

\* Connected is handled.
LEMMA ConnectedActs ==
    ASSUME TypeOK, NEW g \in Handler(kind), NEW s \in Sessions, Silent(g)
    PROVE  Acts(kind, g, connected(g, s), s, "Connected")
<1>1. g.infos \in [Sessions -> Info(kind) \cup {None}] /\ g.infos = [g.infos EXCEPT ![s] = g.infos[s]]
    BY Fields
<1>2. CASE kind = "ping"
    <2>1. connected(g, s) = PingConnected(g, s)
        BY <1>2 DEF connected
    <2>2. CASE ~secio
        <3>1. PingConnected(g, s) = disconnect(g, s)
            BY <2>2 DEF PingConnected
        <3> QED
            BY <2>1, <3>1, Disconnects, ActsBlames
    <2>3. CASE secio /\ g.infos[s] # None
        <3>1. PingConnected(g, s) = g
            BY <2>3 DEF PingConnected
        <3> QED
            BY <2>1, <3>1, ActsBlames
    <2>4. CASE secio /\ g.infos[s] = None
        <3> DEFINE info == [processing |-> FALSE, nonce |-> 0]
                   g2 == [g EXCEPT !.infos[s] = info]
        <3>1. PingConnected(g, s) = g2
            BY <2>4 DEF PingConnected
        <3>2. info \in Info(kind) \cup {None}
            BY <1>2 DEF Info
        <3>3. \A type \in Countable : ~Counted(kind, info, type)
            BY <1>2 DEF Counted
        <3> HIDE DEF info
        <3>4. /\ g2 \in Handler(kind) /\ g2.infos = [g.infos EXCEPT ![s] = info]
              /\ g2.blamed = g.blamed /\ g2.sends = g.sends
            BY <3>2, Informs
        <3> HIDE DEF g2
        <3>5. Acts(kind, g, g2, s, "Connected")
            BY <3>3, <3>4, ActsInforms
        <3> QED
            BY <2>1, <3>1, <3>5
    <2> QED
        BY <2>2, <2>3, <2>4
<1>3. CASE kind = "identify"
    <2>1. connected(g, s) = IdentifyConnected(g, s)
        BY <1>3 DEF connected
    <2>2. CASE ~secio
        <3> DEFINE d == disconnect(g, s)
                   g2 == [d EXCEPT !.secio_enabled = FALSE]
        <3>1. IdentifyConnected(g, s) = g2
            BY <2>2 DEF IdentifyConnected
        <3>2. d \in Handler(kind) /\ d.infos = g.infos /\ d.blamed = g.blamed /\ d.sends = g.sends
            BY Disconnects
        <3> HIDE DEF d
        <3>3. g2 \in Handler(kind) /\ g2.infos = d.infos /\ g2.blamed = d.blamed /\ g2.sends = d.sends
            BY <3>2 DEF Handler
        <3> HIDE DEF g2
        <3>4. Acts(kind, g, g2, s, "Connected")
            BY <3>2, <3>3, ActsBlames
        <3> QED
            BY <2>1, <3>1, <3>4
    <2>3. CASE secio
        <3> DEFINE info == [has_received |-> FALSE]
                   g1 == [g EXCEPT !.infos[s] = info]
                   m == Msg("Identify", 0)
                   g2 == Send(g1, s, m)
        <3>1. IdentifyConnected(g, s) = g2
            BY <2>3 DEF IdentifyConnected
        <3>2. info \in Info(kind) \cup {None}
            BY <1>3 DEF Info
        <3>3. \A type \in Countable : ~Counted(kind, info, type)
            BY <1>3 DEF Counted
        <3>4. m \in Message(kind) /\ m.type = "Identify"
            BY <1>3 DEF Message, Msg, Outgoing
        <3> HIDE DEF info, m
        <3>5. /\ g1 \in Handler(kind) /\ g1.infos = [g.infos EXCEPT ![s] = info]
              /\ g1.blamed = g.blamed /\ g1.sends = g.sends
            BY <3>2, Informs
        <3> HIDE DEF g1
        <3>6. /\ g2 \in Handler(kind) /\ g2.infos = g1.infos /\ g2.blamed = g1.blamed
              /\ g2.sends = [g1.sends EXCEPT ![s] = Append(@, m)]
            BY <3>4, <3>5, SendTo
        <3> HIDE DEF g2
        <3>7. Acts(kind, g, g2, s, "Connected")
            BY <3>3, <3>4, <3>5, <3>6, ActsSends
        <3> QED
            BY <2>1, <3>1, <3>7
    <2> QED
        BY <2>2, <2>3
<1>4. CASE kind = "discovery"
    <2> DEFINE info == [received_get_nodes |-> FALSE, received_nodes |-> FALSE,
                        listen |-> outbound[s], announce |-> FALSE]
               g1 == [g EXCEPT !.infos[s] = info]
               m == Msg("GetNodes", 0)
               g2 == Send(g1, s, m)
    <2>1. connected(g, s) = IF outbound[s] THEN g2 ELSE g1
        BY <1>4 DEF connected, DiscoveryConnected
    <2>2. info \in Info(kind) \cup {None}
        BY <1>4 DEF Info, TypeOK
    <2>3. \A type \in Countable : ~Counted(kind, info, type)
        BY <1>4 DEF Counted
    <2>4. m \in Message(kind)
        BY <1>4 DEF Message, Msg, Outgoing
    <2> HIDE DEF info, m
    <2>5. /\ g1 \in Handler(kind) /\ g1.infos = [g.infos EXCEPT ![s] = info]
          /\ g1.blamed = g.blamed /\ g1.sends = g.sends
        BY <2>2, Informs
    <2> HIDE DEF g1
    <2>6. /\ g2 \in Handler(kind) /\ g2.infos = g1.infos /\ g2.blamed = g1.blamed
          /\ g2.sends = [g1.sends EXCEPT ![s] = Append(@, m)]
        BY <2>4, <2>5, SendTo
    <2> HIDE DEF g2
    <2>7. Acts(kind, g, g2, s, "Connected")
        <3>1. /\ g2.infos = [g.infos EXCEPT ![s] = info]
              /\ g2.sends = [g.sends EXCEPT ![s] = Append(@, m)] /\ g2.blamed = g.blamed
            BY <2>5, <2>6
        <3>2. \A type \in Countable :
                  Counted(kind, info, type) => Counted(kind, g.infos[s], type) \/ type = "Connected"
            BY <2>3
        <3>3. g2 \in Handler(kind)
            BY <2>6
        <3> QED
            BY <3>1, <3>2, <3>3, ActsSends
    <2>8. Acts(kind, g, g1, s, "Connected")
        BY <2>3, <2>5, ActsInforms
    <2> QED
        BY <2>1, <2>7, <2>8
<1>5. CASE kind = "connector"
    <2> DEFINE g2 == [g EXCEPT !.shared[s] = [entry |-> TRUE, protocol |-> TRUE]]
    <2>1. connected(g, s) = g2
        BY <1>5 DEF connected, ConnectorConnected
    <2>2. g2 \in Handler(kind) /\ g2.infos = g.infos /\ g2.blamed = g.blamed /\ g2.sends = g.sends
        BY DEF Handler
    <2> HIDE DEF g2
    <2>3. Acts(kind, g, g2, s, "Connected")
        BY <2>2, ActsBlames
    <2> QED
        BY <2>1, <2>3
<1> QED
    BY <1>2, <1>3, <1>4, <1>5 DEF TypeOK

\* Sessions are forgotten: nothing else happens to the handler.
LEMMA Forgets ==
    ASSUME TypeOK, NEW g \in Handler(kind), NEW S \in SUBSET Sessions
    PROVE  /\ Forget(g, S) \in Handler(kind) /\ Forget(g, S).blamed = g.blamed
           /\ Forget(g, S).sends = g.sends
           /\ \A t \in Sessions : t \notin S => Forget(g, S).infos[t] = g.infos[t]
           /\ \A t \in Sessions : Forget(g, S).infos[t] \in {g.infos[t], None}
<1> DEFINE g1 == [g EXCEPT !.sessions = @ \ S]
           T == S \cap g.sessions
<1>1. /\ g1 \in Handler(kind) /\ g1.infos = g.infos /\ g1.blamed = g.blamed /\ g1.sends = g.sends
    BY DEF Handler
<1>2. Forget(g, S) = disconnected(g1, T) /\ T \subseteq S
    BY DEF Forget
<1> HIDE DEF g1, T
<1> DEFINE infos == [s \in Sessions |-> IF s \in T THEN None ELSE g1.infos[s]]
           w == Without(g1, T)
<1>3. g1.infos \in [Sessions -> Info(kind) \cup {None}] /\ g1.panicked \in BOOLEAN
      /\ g1.shared \in [Sessions -> [entry : BOOLEAN, protocol : BOOLEAN]]
    BY <1>1, Fields
<1>4. /\ infos \in [Sessions -> Info(kind) \cup {None}]
      /\ \A t \in Sessions : t \notin S => infos[t] = g1.infos[t]
      /\ \A t \in Sessions : infos[t] \in {g1.infos[t], None}
    BY <1>2, <1>3
<1>5. w = [g1 EXCEPT !.infos = infos]
    BY DEF Without
<1> HIDE DEF infos, w
<1>6. /\ w \in Handler(kind) /\ w.infos = infos /\ w.blamed = g1.blamed /\ w.sends = g1.sends
      /\ w.panicked = g1.panicked
    BY <1>1, <1>4, <1>5 DEF Handler
<1>7. CASE kind \in {"ping", "discovery"}
    <2>1. disconnected(g1, T) = w
        BY <1>7 DEF disconnected, w
    <2> QED
        BY <1>1, <1>2, <1>4, <1>6, <2>1
<1>8. CASE kind = "identify"
    <2>1. disconnected(g1, T) = IdentifyDisconnected(g1, T)
        BY <1>8 DEF disconnected
    <2>2. CASE ~g1.secio_enabled
        <3>1. IdentifyDisconnected(g1, T) = g1
            BY <2>2 DEF IdentifyDisconnected
        <3> QED
            BY <1>1, <1>2, <2>1, <3>1
    <2>3. CASE g1.secio_enabled
        <3> DEFINE b == w.panicked \/ \E s \in T : g1.infos[s] = None
                   g2 == [w EXCEPT !.panicked = b]
        <3>1. IdentifyDisconnected(g1, T) = g2
            BY <2>3 DEF IdentifyDisconnected, w
        <3>2. b \in BOOLEAN
            OBVIOUS
        <3> HIDE DEF b
        <3>3. g2 \in Handler(kind) /\ g2.infos = w.infos /\ g2.blamed = w.blamed /\ g2.sends = w.sends
            BY <1>6, <3>2 DEF Handler
        <3> HIDE DEF g2
        <3> QED
            BY <1>1, <1>2, <1>4, <1>6, <2>1, <3>1, <3>3
    <2> QED
        BY <2>2, <2>3
<1>9. CASE kind = "connector"
    <2> DEFINE sh == [s \in Sessions |-> IF s \in T THEN [g1.shared[s] EXCEPT !.protocol = FALSE]
                                         ELSE g1.shared[s]]
               g2 == [g1 EXCEPT !.shared = sh]
    <2>1. disconnected(g1, T) = g2
        BY <1>9 DEF disconnected
    <2>2. sh \in [Sessions -> [entry : BOOLEAN, protocol : BOOLEAN]]
        BY <1>3
    <2> HIDE DEF sh
    <2>3. g2 \in Handler(kind) /\ g2.infos = g1.infos /\ g2.blamed = g1.blamed /\ g2.sends = g1.sends
        BY <1>1, <2>2 DEF Handler
    <2> HIDE DEF g2
    <2> QED
        BY <1>1, <1>2, <2>1, <2>3
<1> QED
    BY <1>7, <1>8, <1>9 DEF TypeOK

\* misbehave for what is counted.
LEMMA Misbehaves ==
    ASSUME NEW k, NEW g \in Handler(k), NEW s \in Sessions, Silent(g), NEW ev \in Countable,
           Counted(k, g.infos[s], ev), NEW g2 \in misbehave(g, s, "Duplicate")
    PROVE  Acts(k, g, g2, s, ev)
<1> DEFINE b == Blame(g, s, "Duplicate")
<1>1. /\ b \in Handler(k) /\ b.infos = g.infos /\ b.blamed = g.blamed \cup {<<s, "Duplicate">>}
      /\ b.sends = g.sends
    BY Blames
<1>2. g2 = b \/ g2 = disconnect(b, s)
    BY DEF misbehave
<1> HIDE DEF b
<1>3. /\ g2 \in Handler(k) /\ g2.infos = g.infos /\ g2.blamed = g.blamed \cup {<<s, "Duplicate">>}
      /\ g2.sends = g.sends
    BY <1>1, <1>2, Disconnects
<1> QED
    BY <1>3, ActsBlames

\* Ping receives.
LEMMA PingActs ==
    ASSUME TypeOK, kind = "ping", NEW g \in Handler(kind), NEW s \in Sessions, Silent(g),
           NEW m, m.type \in Incoming(kind), m.nonce \in Nat
    PROVE  Acts(kind, g, PingReceived(g, s, m), s, m.type)
<1>1. g.infos \in [Sessions -> Info(kind) \cup {None}] /\ g.infos = [g.infos EXCEPT ![s] = g.infos[s]]
    BY Fields
<1>2. CASE m.type = "Ping"
    <2> DEFINE r == Msg("Pong", m.nonce)
               g2 == Send(g, s, r)
    <2>1. PingReceived(g, s, m) = g2
        BY <1>2 DEF PingReceived
    <2>2. r \in Message(kind) /\ r.type = "Pong"
        BY DEF Msg, Message, Outgoing
    <2> HIDE DEF r
    <2>3. /\ g2 \in Handler(kind) /\ g2.infos = g.infos /\ g2.blamed = g.blamed
          /\ g2.sends = [g.sends EXCEPT ![s] = Append(@, r)]
        BY <2>2, SendTo, SMTT(40)
    <2> HIDE DEF g2
    <2>4. g2.infos = [g.infos EXCEPT ![s] = g.infos[s]]
        BY <1>1, <2>3
    <2>5. Acts(kind, g, g2, s, m.type)
        BY <2>2, <2>3, <2>4, ActsSends
    <2> QED
        BY <2>1, <2>5
<1>3. CASE m.type # "Ping" /\ g.infos[s] = [processing |-> TRUE, nonce |-> m.nonce]
    <2> DEFINE info == [g.infos[s] EXCEPT !.processing = FALSE]
               g2 == [g EXCEPT !.infos[s] = info]
    <2>1. PingReceived(g, s, m) = g2
        BY <1>3 DEF PingReceived
    <2>2. info \in Info(kind) \cup {None}
        <3>1. [processing |-> TRUE, nonce |-> m.nonce] \in [processing : BOOLEAN, nonce : Nat]
            OBVIOUS
        <3>2. g.infos[s] \in [processing : BOOLEAN, nonce : Nat]
            BY <1>3, <3>1
        <3>3. info \in [processing : BOOLEAN, nonce : Nat]
            BY <3>2
        <3> QED
            BY <3>3 DEF Info
    <2>3. \A type \in Countable : ~Counted(kind, info, type)
        BY DEF Counted
    <2> HIDE DEF info
    <2>4. /\ g2 \in Handler(kind) /\ g2.infos = [g.infos EXCEPT ![s] = info]
          /\ g2.blamed = g.blamed /\ g2.sends = g.sends
        BY <2>2, Informs
    <2> HIDE DEF g2
    <2>5. Acts(kind, g, g2, s, m.type)
        BY <2>3, <2>4, ActsInforms
    <2> QED
        BY <2>1, <2>5
<1>4. CASE m.type # "Ping" /\ g.infos[s] # [processing |-> TRUE, nonce |-> m.nonce]
    <2>1. PingReceived(g, s, m) = disconnect(g, s)
        BY <1>4 DEF PingReceived
    <2> QED
        BY <2>1, Disconnects, ActsBlames
<1> QED
    BY <1>2, <1>3, <1>4

\* Identify receives.
LEMMA IdentifyActs ==
    ASSUME TypeOK, kind = "identify", NEW g \in Handler(kind), NEW s \in Sessions, Silent(g),
           NEW m, m.type \in Incoming(kind), NEW g2 \in IdentifyReceived(g, s, m)
    PROVE  Acts(kind, g, g2, s, m.type)
<1>1. g.infos[s] \in Info(kind) \cup {None} /\ g.secio_enabled \in BOOLEAN
    BY Fields
<1>2. m.type = "Identify" /\ m.type \in Countable
    BY DEF Incoming, Countable
<1>3. CASE ~g.secio_enabled
    <2>1. g2 = g
        BY <1>3 DEF IdentifyReceived
    <2> QED
        BY <2>1, ActsBlames
<1>4. CASE g.secio_enabled /\ g.infos[s] = None
    <2>1. g2 = [g EXCEPT !.panicked = TRUE]
        BY <1>4 DEF IdentifyReceived
    <2> QED
        BY <2>1, Panics, ActsBlames
<1>5. CASE g.secio_enabled /\ g.infos[s] # None /\ g.infos[s].has_received
    <2>1. g2 \in misbehave(g, s, "Duplicate")
        BY <1>5 DEF IdentifyReceived
    <2>2. Counted(kind, g.infos[s], m.type)
        BY <1>2, <1>5 DEF Counted
    <2> QED
        BY <1>2, <2>1, <2>2, Misbehaves
<1>6. CASE g.secio_enabled /\ g.infos[s] # None /\ ~g.infos[s].has_received
    <2> DEFINE info == [g.infos[s] EXCEPT !.has_received = TRUE]
               first == [g EXCEPT !.infos[s] = info]
    <2>1. g2 = first \/ g2 = disconnect(first, s)
        BY <1>6 DEF IdentifyReceived
    <2>2. info \in Info(kind) \cup {None}
        BY <1>1, <1>6 DEF Info
    <2>3. \A type \in Countable : Counted(kind, info, type) => type = m.type
        BY <1>2 DEF Counted
    <2> HIDE DEF info
    <2>4. /\ first \in Handler(kind) /\ first.infos = [g.infos EXCEPT ![s] = info]
          /\ first.blamed = g.blamed /\ first.sends = g.sends
        BY <2>2, Informs
    <2> HIDE DEF first
    <2>5. /\ g2 \in Handler(kind) /\ g2.infos = [g.infos EXCEPT ![s] = info]
          /\ g2.blamed = g.blamed /\ g2.sends = g.sends
        BY <2>1, <2>4, Disconnects
    <2> QED
        BY <2>3, <2>5, ActsInforms
<1> QED
    BY <1>1, <1>3, <1>4, <1>5, <1>6

\* Discovery answers GetNodes.
LEMMA NodesAreSent ==
    ASSUME TypeOK, kind = "discovery", NEW g \in Handler(kind), NEW s \in Sessions, Silent(g),
           g.infos[s] # None, NEW port \in BOOLEAN,
           NEW b \in {g, Blame(g, s, "Duplicate")},
           b # g => Counted(kind, g.infos[s], "GetNodes")
    PROVE  Acts(kind, g, SendNodes(b, s, port), s, "GetNodes")
<1> DEFINE info == [b.infos[s] EXCEPT !.received_get_nodes = TRUE, !.listen = b.infos[s].listen \/ port]
           g1 == [b EXCEPT !.infos[s] = info]
           m == Msg("Nodes", 0)
           g2 == Send(g1, s, m)
<1>1. /\ b \in Handler(kind) /\ b.infos = g.infos /\ b.sends = g.sends
      /\ b.blamed \subseteq g.blamed
             \cup (IF Counted(kind, g.infos[s], "GetNodes") THEN {<<s, "Duplicate">>} ELSE {})
    <2>1. CASE b = g
        BY <2>1
    <2>2. CASE b = Blame(g, s, "Duplicate") /\ b # g
        BY <2>2, Blames
    <2> QED
        BY <2>1, <2>2
<1>2. b.infos[s] \in Info(kind) /\ b.infos \in [Sessions -> Info(kind) \cup {None}]
    BY <1>1, Fields
<1>3. SendNodes(b, s, port) = g2
    BY DEF SendNodes
<1>4. info \in Info(kind) \cup {None}
    BY <1>2 DEF Info
<1>5. \A type \in Countable :
          Counted(kind, info, type) => Counted(kind, g.infos[s], type) \/ type = "GetNodes"
    BY <1>1, <1>2 DEF Counted, Info
<1>6. m \in Message(kind) /\ m.type = "Nodes"
    BY DEF Msg, Message, Outgoing
<1> HIDE DEF info, m
<1>7. /\ g1 \in Handler(kind) /\ g1.infos = [b.infos EXCEPT ![s] = info]
      /\ g1.blamed = b.blamed /\ g1.sends = b.sends
    BY <1>1, <1>4, Informs
<1> HIDE DEF g1
<1>8. /\ g2 \in Handler(kind) /\ g2.infos = g1.infos /\ g2.blamed = g1.blamed
      /\ g2.sends = [g1.sends EXCEPT ![s] = Append(@, m)]
    BY <1>6, <1>7, SendTo
<1> HIDE DEF g2
<1>9. "GetNodes" \in Countable
    BY DEF Countable
<1>10. Acts(kind, g, g2, s, "GetNodes")
    BY <1>1, <1>5, <1>6, <1>7, <1>8, <1>9, ActsSends
<1> QED
    BY <1>3, <1>10

\* What a handler does after it has blamed the peer for a long list, it may as well do without.
LEMMA ActsAfterTooMany ==
    ASSUME NEW k, NEW g \in Handler(k), NEW b \in Handler(k), NEW s \in Sessions, NEW g2, NEW ev,
           b.infos = g.infos, b.blamed = g.blamed \cup {<<s, "TooMany">>}, Acts(k, b, g2, s, ev)
    PROVE  Acts(k, g, g2, s, ev)
<1>1. \A t \in Sessions : <<t, "Duplicate">> \in b.blamed => <<t, "Duplicate">> \in g.blamed
    OBVIOUS
<1> QED
    BY <1>1 DEF Acts

\* Discovery takes nodes.
LEMMA NodesTakenActs ==
    ASSUME TypeOK, kind = "discovery", NEW g \in Handler(kind), NEW s \in Sessions, Silent(g),
           NEW type \in {"Announce", "Nodes"}, NEW g2 \in NodesTaken(g, s, type = "Announce")
    PROVE  Acts(kind, g, g2, s, type)
<1>1. g.infos[s] \in Info(kind) \cup {None}
    BY Fields
<1>2. CASE g.infos[s] = None \/ type = "Announce"
    <2>1. g2 = g
        BY <1>2 DEF NodesTaken
    <2> QED
        BY <2>1, ActsBlames
<1>3. CASE g.infos[s] # None /\ type = "Nodes"
    <2>1. g2 \in NodesTaken(g, s, FALSE)
        BY <1>3
    <2>2. CASE g.infos[s].received_nodes
        <3>1. Counted(kind, g.infos[s], "Nodes") /\ "Nodes" \in Countable
            BY <1>3, <2>2 DEF Counted, Countable
        <3>2. g2 \in misbehave(g, s, "Duplicate")
            BY <1>3, <2>1, <2>2 DEF NodesTaken
        <3> QED
            BY <1>3, <3>1, <3>2, Misbehaves
    <2>3. CASE ~g.infos[s].received_nodes
        <3> DEFINE info == [g.infos[s] EXCEPT !.received_nodes = TRUE]
        <3>1. g2 = [g EXCEPT !.infos[s] = info]
            BY <1>3, <2>1, <2>3 DEF NodesTaken
        <3>2. info \in Info(kind) \cup {None}
            BY <1>1, <1>3 DEF Info
        <3>3. \A c \in Countable : Counted(kind, info, c) => Counted(kind, g.infos[s], c) \/ c = type
            BY <1>1, <1>3 DEF Counted, Info
        <3> HIDE DEF info
        <3>4. /\ g2 \in Handler(kind) /\ g2.infos = [g.infos EXCEPT ![s] = info]
              /\ g2.blamed = g.blamed /\ g2.sends = g.sends
            BY <3>1, <3>2, Informs
        <3> QED
            BY <3>3, <3>4, ActsInforms
    <2> QED
        BY <2>2, <2>3
<1> QED
    BY <1>2, <1>3

\* Discovery receives nodes, of which verify_nodes_message may disapprove.
LEMMA NodesReceivedActs ==
    ASSUME TypeOK, kind = "discovery", NEW g \in Handler(kind), NEW s \in Sessions, Silent(g),
           NEW type \in {"Announce", "Nodes"}, NEW g2 \in NodesReceived(g, s, type = "Announce")
    PROVE  Acts(kind, g, g2, s, type)
<1> DEFINE b == Blame(g, s, "TooMany")
<1>1. /\ b \in Handler(kind) /\ b.infos = g.infos
      /\ b.blamed = g.blamed \cup {<<s, "TooMany">>} /\ b.sends = g.sends
    BY Blames
<1>2. \/ g2 = disconnect(b, s) \/ g2 \in NodesTaken(b, s, type = "Announce")
      \/ g2 \in NodesTaken(g, s, type = "Announce")
    BY DEF NodesReceived
<1> HIDE DEF b
<1>3. Silent(b)
    BY <1>1 DEF Silent
<1>4. CASE g2 = disconnect(b, s)
    <2>1. /\ g2 \in Handler(kind) /\ g2.infos = b.infos /\ g2.blamed = b.blamed /\ g2.sends = b.sends
        BY <1>1, <1>4, Disconnects
    <2>2. Acts(kind, b, g2, s, type)
        BY <1>1, <1>3, <2>1, ActsBlames
    <2> QED
        BY <1>1, <2>2, ActsAfterTooMany
<1>5. CASE g2 \in NodesTaken(b, s, type = "Announce")
    <2>1. Acts(kind, b, g2, s, type)
        BY <1>1, <1>3, <1>5, NodesTakenActs
    <2> QED
        BY <1>1, <2>1, ActsAfterTooMany
<1>6. CASE g2 \in NodesTaken(g, s, type = "Announce")
    BY <1>6, NodesTakenActs
<1> QED
    BY <1>2, <1>4, <1>5, <1>6

\* Discovery receives.
LEMMA DiscoveryActs ==
    ASSUME TypeOK, kind = "discovery", NEW g \in Handler(kind), NEW s \in Sessions, Silent(g),
           NEW m, m.type \in Incoming(kind), NEW g2 \in DiscoveryReceived(g, s, m)
    PROVE  Acts(kind, g, g2, s, m.type)
<1>1. m.type \in {"Announce", "GetNodes", "Nodes"}
    BY DEF Incoming
<1>2. CASE m.type # "GetNodes"
    <2>1. g2 \in NodesReceived(g, s, m.type = "Announce")
        BY <1>2 DEF DiscoveryReceived
    <2>2. m.type \in {"Announce", "Nodes"}
        BY <1>1, <1>2
    <2> QED
        BY <2>1, <2>2, NodesReceivedActs
<1>3. CASE m.type = "GetNodes" /\ g.infos[s] = None
    <2>1. g2 = g
        BY <1>3 DEF DiscoveryReceived
    <2> QED
        BY <2>1, ActsBlames
<1>4. CASE m.type = "GetNodes" /\ g.infos[s] # None
    <2> DEFINE b == Blame(g, s, "Duplicate")
    <2>1. g2 \in GetNodesReceived(g, s)
        BY <1>4 DEF DiscoveryReceived
    <2>2. CASE g.infos[s].received_get_nodes
        <3>1. Counted(kind, g.infos[s], "GetNodes") /\ "GetNodes" \in Countable
            BY <1>4, <2>2 DEF Counted, Countable
        <3>2. g2 = disconnect(b, s) \/ \E port \in BOOLEAN : g2 = SendNodes(b, s, port)
            BY <2>1, <2>2 DEF GetNodesReceived
        <3>3. CASE g2 = disconnect(b, s)
            <4>1. g2 \in misbehave(g, s, "Duplicate")
                BY <3>3 DEF misbehave
            <4> QED
                BY <1>4, <3>1, <4>1, Misbehaves
        <3>4. CASE \E port \in BOOLEAN : g2 = SendNodes(b, s, port)
            BY <1>4, <3>1, <3>4, NodesAreSent
        <3> QED
            BY <3>2, <3>3, <3>4
    <2>3. CASE ~g.infos[s].received_get_nodes
        <3>1. \E port \in BOOLEAN : g2 = SendNodes(g, s, port)
            BY <2>1, <2>3 DEF GetNodesReceived
        <3> QED
            BY <1>4, <3>1, NodesAreSent
    <2> QED
        BY <2>2, <2>3
<1> QED
    BY <1>2, <1>3, <1>4

\* An event is handled.
LEMMA HandledActs ==
    ASSUME TypeOK, NEW g \in Handler(kind), NEW s \in Sessions, Silent(g), NEW m \in Event(kind),
           NEW g2 \in Handled(g, s, m)
    PROVE  Acts(kind, g, g2, s, m.type)
<1>1. Connected # Disconnected
    BY DEF Connected, Disconnected, Msg
<1>2. CASE m = Connected
    <2> DEFINE c == connected(g, s)
    <2>1. g2 = [c EXCEPT !.sessions = @ \cup {s}] /\ m.type = "Connected"
        BY <1>1, <1>2, TypesOfMessages DEF Handled
    <2>2. Acts(kind, g, c, s, "Connected")
        BY ConnectedActs
    <2> HIDE DEF c
    <2>3. c \in Handler(kind)
        BY <2>2 DEF Acts
    <2>4. g2 \in Handler(kind) /\ g2.infos = c.infos /\ g2.blamed = c.blamed /\ g2.sends = c.sends
        BY <2>1, <2>3 DEF Handler
    <2> QED
        BY <2>1, <2>2, <2>4 DEF Acts
<1>3. CASE m = Disconnected
    <2>1. g2 = Forget(g, {s}) /\ m.type = "Disconnected"
        BY <1>1, <1>3, TypesOfMessages DEF Handled
    <2>2. /\ g2 \in Handler(kind) /\ g2.blamed = g.blamed /\ g2.sends = g.sends
          /\ \A t \in Sessions : t # s => g2.infos[t] = g.infos[t]
          /\ g2.infos[s] \in {g.infos[s], None}
        BY <2>1, Forgets
    <2>3. \A t \in Sessions : g2.sends[t] = <<>>
        BY <2>2 DEF Silent
    <2>4. \A type \in Countable : Counted(kind, g2.infos[s], type) => Counted(kind, g.infos[s], type)
        BY <2>2, NoneCounted
    <2>5. Reacts(kind, m.type, g.infos[s], g2.infos[s], g2.sends[s])
        BY <2>3, <2>4, Singles DEF Reacts
    <2> QED
        BY <2>2, <2>3, <2>5 DEF Acts
<1>4. CASE m # Connected /\ m # Disconnected
    <2>1. m.type \in Incoming(kind) /\ m.nonce \in Nat
        BY <1>4, TypesOfMessages
    <2>2. g2 \in IF s \in g.sessions /\ ~closed[s] THEN received(g, s, m) ELSE {g}
        BY <1>4 DEF Handled
    <2>3. CASE g2 = g
        BY <2>3, ActsBlames
    <2>4. CASE g2 \in received(g, s, m)
        <3>1. CASE kind = "ping"
            BY <2>1, <2>4, <3>1, PingActs DEF received
        <3>2. CASE kind = "identify"
            BY <2>1, <2>4, <3>2, IdentifyActs DEF received
        <3>3. CASE kind = "discovery"
            BY <2>1, <2>4, <3>3, DiscoveryActs DEF received
        <3>4. CASE kind = "connector"
            <4>1. g2 = ConnectorReceived(g, s)
                BY <2>4, <3>4 DEF received
            <4>2. g2 = g \/ g2 = [g EXCEPT !.panicked = TRUE]
                BY <4>1 DEF ConnectorReceived
            <4> QED
                BY <2>3, <4>2, Panics, ActsBlames
        <3> QED
            BY <3>1, <3>2, <3>3, <3>4 DEF TypeOK
    <2> QED
        BY <2>2, <2>3, <2>4
<1> QED
    BY <1>2, <1>3, <1>4

\* What a step of the handler comes to, seen from every session: only s has an event.
Outcome(k, g, g2, s, ev) ==
    /\ g2 \in Handler(k)
    /\ \A t \in Sessions :
          /\ Reacts(k, IF t = s THEN ev ELSE "none", g.infos[t], g2.infos[t], g2.sends[t])
          /\ <<t, "Duplicate">> \in g2.blamed =>
                <<t, "Duplicate">> \in g.blamed \/ (t = s /\ ev \in Countable /\ Counted(k, g.infos[t], ev))

\* Closed sessions are forgotten first.
LEMMA Sweeps ==
    ASSUME TypeOK, NEW g \in Handler(kind)
    PROVE  /\ Sweep(g) \in Handler(kind) /\ Sweep(g).blamed = g.blamed /\ Sweep(g).sends = g.sends
           /\ \A t \in Sessions : \A type :
                  Counted(kind, Sweep(g).infos[t], type) => Counted(kind, g.infos[t], type)
<1>1. {s \in g.sessions : closed[s]} \in SUBSET Sessions
    BY Fields
<1>2. /\ Sweep(g) \in Handler(kind) /\ Sweep(g).blamed = g.blamed /\ Sweep(g).sends = g.sends
      /\ \A t \in Sessions : Sweep(g).infos[t] \in {g.infos[t], None}
    BY <1>1, Forgets DEF Sweep
<1> QED
    BY <1>2, NoneCounted

\* An event is handled, after the sweep.
LEMMA EventOutcome ==
    ASSUME TypeOK, Silent(h), NEW s \in Sessions, NEW m \in Event(kind),
           NEW g2 \in Handled(Sweep(h), s, m)
    PROVE  Outcome(kind, h, g2, s, m.type)
<1> DEFINE g == Sweep(h)
<1>1. /\ g \in Handler(kind) /\ g.blamed = h.blamed /\ g.sends = h.sends
      /\ \A t \in Sessions : \A type : Counted(kind, g.infos[t], type) => Counted(kind, h.infos[t], type)
    BY Sweeps DEF TypeOK
<1> HIDE DEF g
<1>2. Silent(g)
    BY <1>1 DEF Silent
<1>3. Acts(kind, g, g2, s, m.type)
    BY <1>1, <1>2, HandledActs DEF g
<1> DEFINE ev == m.type
<1> HIDE DEF ev
<1>4. /\ g2 \in Handler(kind)
      /\ \A t \in Sessions : t # s =>
            /\ g2.infos[t] = g.infos[t] /\ g2.sends[t] = <<>>
            /\ <<t, "Duplicate">> \in g2.blamed => <<t, "Duplicate">> \in g.blamed
      /\ Reacts(kind, ev, g.infos[s], g2.infos[s], g2.sends[s])
      /\ <<s, "Duplicate">> \in g2.blamed =>
            <<s, "Duplicate">> \in g.blamed \/ (ev \in Countable /\ Counted(kind, g.infos[s], ev))
    BY <1>3 DEF Acts, ev
<1>5. Reacts(kind, ev, h.infos[s], g2.infos[s], g2.sends[s])
    BY <1>1, <1>4 DEF Reacts
<1>6. \A t \in Sessions : t # s => Reacts(kind, "none", h.infos[t], g2.infos[t], g2.sends[t])
    BY <1>1, <1>4, Singles DEF Reacts
<1>7. Outcome(kind, h, g2, s, ev)
    BY <1>1, <1>4, <1>5, <1>6 DEF Outcome
<1> QED
    BY <1>7 DEF ev

\* What a timer leads to: nothing is counted, nobody blamed for a duplicate, and no nodes
\* are asked for.
Ticked(k, g, g2) ==
    /\ g2 \in Handler(k)
    /\ \A t \in Sessions :
          /\ \A type \in Countable : Counted(k, g2.infos[t], type) => Counted(k, g.infos[t], type)
          /\ Once(g2.sends[t], "GetNodes") /\ ~Has(g2.sends[t], "GetNodes")
          /\ <<t, "Duplicate">> \in g2.blamed => <<t, "Duplicate">> \in g.blamed

\* Messages to some of the sessions, in the handler's state.
LEMMA SendsSome ==
    ASSUME NEW k, NEW g \in Handler(k), Silent(g), NEW peers, NEW m \in Message(k), m.type # "GetNodes"
    PROVE  LET sends == [s \in Sessions |-> IF s \in peers THEN Append(g.sends[s], m) ELSE g.sends[s]] IN
           /\ sends \in [Sessions -> Seq(Message(k))]
           /\ \A t \in Sessions : Once(sends[t], "GetNodes") /\ ~Has(sends[t], "GetNodes")
<1> DEFINE sends == [s \in Sessions |-> IF s \in peers THEN Append(g.sends[s], m) ELSE g.sends[s]]
<1>1. g.sends \in [Sessions -> Seq(Message(k))]
    BY Fields
<1>2. \A t \in Sessions : Append(g.sends[t], m) \in Seq(Message(k))
    BY <1>1
<1>3. sends \in [Sessions -> Seq(Message(k))]
    BY <1>1, <1>2
<1>4. \A t \in Sessions : sends[t] = Append(<<>>, m) \/ sends[t] = <<>>
    BY DEF Silent
<1>5. \A t \in Sessions : Once(sends[t], "GetNodes") /\ ~Has(sends[t], "GetNodes")
    <2> SUFFICES ASSUME NEW t \in Sessions
                 PROVE  Once(sends[t], "GetNodes") /\ ~Has(sends[t], "GetNodes")
        OBVIOUS
    <2> DEFINE q == sends[t]
               a == Append(<<>>, m)
    <2>1. q = a \/ q = <<>>
        BY <1>4
    <2>2. /\ Once(<<>>, "GetNodes") /\ ~Has(<<>>, "GetNodes")
          /\ Once(a, "GetNodes") /\ ~Has(a, "GetNodes")
        BY Singles
    <2> HIDE DEF q, a
    <2>3. Once(q, "GetNodes") /\ ~Has(q, "GetNodes")
        BY <2>1, <2>2
    <2> QED
        BY <2>3 DEF q
<1> QED
    BY <1>3, <1>5

\* late are reported, and bad disconnected.
Reported(g, late, bad) ==
    [g EXCEPT !.blamed = @ \cup {<<s, "Timeout">> : s \in late}, !.asked = @ \cup bad]

\* blamed and asked change.
LEMMA Reports ==
    ASSUME NEW k, NEW g \in Handler(k), NEW late \in SUBSET Sessions, NEW bad \in SUBSET Sessions,
           NEW g2, g2 = Reported(g, late, bad)
    PROVE  /\ g2 \in Handler(k) /\ g2.infos = g.infos /\ g2.sends = g.sends
           /\ \A t : <<t, "Duplicate">> \in g2.blamed => <<t, "Duplicate">> \in g.blamed
<1> DEFINE b == g.blamed \cup {<<s, "Timeout">> : s \in late}
           a == g.asked \cup bad
<1>0. g2 = [g EXCEPT !.blamed = b, !.asked = a]
    BY DEF Reported, Handler
<1>1. g.blamed \in SUBSET (Sessions \X {"Duplicate", "Timeout", "TooMany"}) /\ g.asked \in SUBSET Sessions
    BY Fields
<1>2. b \in SUBSET (Sessions \X {"Duplicate", "Timeout", "TooMany"})
    BY <1>1
<1>3. \A t : <<t, "Duplicate">> \in b => <<t, "Duplicate">> \in g.blamed
    OBVIOUS
<1>4. a \in SUBSET Sessions
    BY <1>1
<1> HIDE DEF a, b
<1>5. g2 \in Handler(k) /\ g2.infos = g.infos /\ g2.sends = g.sends /\ g2.blamed = b
    BY <1>0, <1>2, <1>4 DEF Handler
<1> QED
    BY <1>3, <1>5

\* A report is a tick.
LEMMA ReportTicks ==
    ASSUME NEW k, NEW g \in Handler(k), Silent(g), NEW g2 \in Handler(k), g2.infos = g.infos,
           g2.sends = g.sends, \A t : <<t, "Duplicate">> \in g2.blamed => <<t, "Duplicate">> \in g.blamed
    PROVE  Ticked(k, g, g2)
<1>1. \A t \in Sessions : g2.sends[t] = <<>>
    BY DEF Silent
<1> QED
    BY <1>1, Singles DEF Ticked

\* SEND_PING_TOKEN
LEMMA SendPingTicks ==
    ASSUME TypeOK, kind = "ping", NEW g \in Handler(kind), Silent(g)
    PROVE  Ticked(kind, g, SendPing(g))
<1> DEFINE peers == {s \in Infos(g) : ~g.infos[s].processing}
           m == Msg("Ping", ticks + 1)
           infos == [s \in Sessions |-> IF s \in peers THEN [g.infos[s] EXCEPT !.nonce = ticks + 1]
                                        ELSE g.infos[s]]
           sends == [s \in Sessions |-> IF s \in peers THEN Append(g.sends[s], m) ELSE g.sends[s]]
           g2 == [g EXCEPT !.infos = infos, !.sends = sends]
<1>1. SendPing(g) = g2
    BY DEF SendPing
<1>2. m \in Message(kind) /\ m.type # "GetNodes"
    BY DEF Message, Msg, Outgoing, TypeOK
<1>3. \A s \in peers : s \in Sessions /\ g.infos[s] # None
    BY DEF Infos
<1>4. g.infos \in [Sessions -> Info(kind) \cup {None}]
    BY Fields
<1>5. infos \in [Sessions -> Info(kind) \cup {None}]
    <2>1. ASSUME NEW s \in peers
          PROVE  [g.infos[s] EXCEPT !.nonce = ticks + 1] \in Info(kind)
        <3> HIDE DEF peers
        <3>1. g.infos[s] \in Info(kind)
            BY <1>3, <1>4
        <3>2. g.infos[s] \in [processing : BOOLEAN, nonce : Nat] /\ ticks + 1 \in Nat
            BY <3>1 DEF Info, TypeOK
        <3> QED
            BY <3>2 DEF Info
    <2> QED
        BY <1>4, <2>1
<1> HIDE DEF peers, m, infos
<1>6. /\ sends \in [Sessions -> Seq(Message(kind))]
      /\ \A t \in Sessions : Once(sends[t], "GetNodes") /\ ~Has(sends[t], "GetNodes")
    BY <1>2, SendsSome
<1> HIDE DEF sends
<1>7. g2 \in Handler(kind) /\ g2.infos = infos /\ g2.sends = sends /\ g2.blamed = g.blamed
    BY <1>5, <1>6 DEF Handler
<1> HIDE DEF g2
<1>8. \A t \in Sessions : \A type : ~Counted(kind, g2.infos[t], type)
    BY DEF Counted
<1>9. Ticked(kind, g, g2)
    BY <1>6, <1>7, <1>8 DEF Ticked
<1> QED
    BY <1>1, <1>9

\* DiscoveryProtocol::notify
LEMMA AnnounceTicks ==
    ASSUME TypeOK, kind = "discovery", NEW g \in Handler(kind), Silent(g), NEW due
    PROVE  Ticked(kind, g, Announce(g, due))
<1> DEFINE listen == \E s \in Infos(g) : g.infos[s].listen
           waiting == {s \in Infos(g) : g.infos[s].announce}
           m == Msg("Announce", 0)
           info(s) == [g.infos[s] EXCEPT !.announce = listen /\ s \in due]
           infos == [s \in Sessions |-> IF s \in Infos(g) THEN info(s) ELSE g.infos[s]]
           sends == [s \in Sessions |-> IF s \in waiting THEN Append(g.sends[s], m) ELSE g.sends[s]]
           g2 == [g EXCEPT !.infos = infos, !.sends = sends]
<1>1. Announce(g, due) = g2
    BY DEF Announce, Handler
<1>2. m \in Message(kind) /\ m.type # "GetNodes"
    BY DEF Message, Msg, Outgoing
<1>3. g.infos \in [Sessions -> Info(kind) \cup {None}]
    BY Fields
<1>4. listen \in BOOLEAN
    OBVIOUS
<1> HIDE DEF listen, waiting, m
<1>5. ASSUME NEW s \in Infos(g)
      PROVE  /\ s \in Sessions /\ info(s) \in Info(kind)
             /\ \A type \in Countable : Counted(kind, info(s), type) => Counted(kind, g.infos[s], type)
    <2>1. s \in Sessions /\ g.infos[s] \in Info(kind) /\ g.infos[s] # None
        BY <1>3, <1>5 DEF Infos
    <2> DEFINE i == g.infos[s]
               b == listen /\ s \in due
    <2>2. b \in BOOLEAN
        OBVIOUS
    <2> HIDE DEF i, b
    <2>3. i \in [received_get_nodes : BOOLEAN, received_nodes : BOOLEAN, listen : BOOLEAN,
                 announce : BOOLEAN] /\ i # None
        BY <2>1 DEF i, Info
    <2>4. /\ [i EXCEPT !.announce = b] \in Info(kind)
          /\ [i EXCEPT !.announce = b].received_get_nodes = i.received_get_nodes
          /\ [i EXCEPT !.announce = b].received_nodes = i.received_nodes
        BY <2>2, <2>3 DEF Info
    <2>5. \A type \in Countable : Counted(kind, [i EXCEPT !.announce = b], type) => Counted(kind, i, type)
        BY <2>3, <2>4 DEF Counted
    <2> QED
        BY <2>1, <2>4, <2>5 DEF i, b
<1>6. infos \in [Sessions -> Info(kind) \cup {None}]
    BY <1>3, <1>5
<1>7. \A t \in Sessions : \A type \in Countable :
          Counted(kind, infos[t], type) => Counted(kind, g.infos[t], type)
    BY <1>5
<1> HIDE DEF infos
<1>8. /\ sends \in [Sessions -> Seq(Message(kind))]
      /\ \A t \in Sessions : Once(sends[t], "GetNodes") /\ ~Has(sends[t], "GetNodes")
    BY <1>2, SendsSome
<1> HIDE DEF sends
<1>9. g2 \in Handler(kind) /\ g2.infos = infos /\ g2.sends = sends /\ g2.blamed = g.blamed
    BY <1>6, <1>8 DEF Handler
<1> HIDE DEF g2
<1>10. Ticked(kind, g, g2)
    BY <1>7, <1>8, <1>9 DEF Ticked
<1> QED
    BY <1>1, <1>10

\* A timer fires.
LEMMA NotifyTicks ==
    ASSUME TypeOK, NEW g \in Handler(kind), Silent(g), NEW S \in SUBSET Sessions,
           NEW g2 \in notify(g, S)
    PROVE  Ticked(kind, g, g2)
<1>1. Infos(g) \subseteq Sessions
    BY DEF Infos
<1>2. CASE kind = "ping"
    <2>1. g2 = SendPing(g) \/ g2 = CheckTimeout(g, S)
        BY <1>2 DEF notify
    <2>2. CASE g2 = CheckTimeout(g, S)
        <3> DEFINE late == {x \in S \cap Infos(g) : g.infos[x].processing}
        <3>1. g2 = [g EXCEPT !.blamed = @ \cup {<<s, "Timeout">> : s \in late}]
            BY <2>2 DEF CheckTimeout
        <3>2. late \in SUBSET Sessions
            OBVIOUS
        <3> HIDE DEF late
        <3> DEFINE b == {<<s, "Timeout">> : s \in late}
        <3>3. b \in SUBSET (Sessions \X {"Timeout"}) /\ \A t : <<t, "Duplicate">> \notin b
            BY <3>2
        <3> HIDE DEF b
        <3>4. g.blamed \cup b \in SUBSET (Sessions \X {"Duplicate", "Timeout", "TooMany"})
            BY <3>3, Fields
        <3>5. /\ g2 \in Handler(kind) /\ g2.infos = g.infos /\ g2.sends = g.sends
              /\ g2.blamed = g.blamed \cup b
            BY <3>1, <3>4 DEF Handler, b
        <3> QED
            BY <3>3, <3>5, ReportTicks
    <2> QED
        BY <1>2, <2>1, <2>2, SendPingTicks
<1>3. CASE kind = "identify"
    <2> DEFINE named == {s \in S \cap Infos(g) : g.secio_enabled /\ g.infos[s].has_received}
    <2>1. g2 \in IdentifyTimeout(g, S)
        BY <1>3 DEF notify
    <2>2. PICK bad \in SUBSET named : g2 = Reported(g, named, bad)
        BY <2>1 DEF IdentifyTimeout, Reported
    <2>3. named \in SUBSET Sessions /\ bad \in SUBSET Sessions
        OBVIOUS
    <2> HIDE DEF named
    <2>4. /\ g2 \in Handler(kind) /\ g2.infos = g.infos /\ g2.sends = g.sends
          /\ \A t : <<t, "Duplicate">> \in g2.blamed => <<t, "Duplicate">> \in g.blamed
        BY <2>2, <2>3, Reports
    <2> QED
        BY <2>4, ReportTicks
<1>4. CASE kind = "discovery"
    BY <1>4, AnnounceTicks DEF notify
<1>5. CASE kind = "connector"
    <2>1. g2 = g
        BY <1>5 DEF notify
    <2> QED
        BY <2>1, ReportTicks
<1> QED
    BY <1>2, <1>3, <1>4, <1>5 DEF TypeOK

\* A timer fires, after the sweep.
LEMMA TimerOutcome ==
    ASSUME TypeOK, Silent(h), NEW S \in SUBSET Sessions, NEW g2 \in notify(Sweep(h), S), NEW s
    PROVE  Outcome(kind, h, g2, s, "none")
<1> DEFINE g == Sweep(h)
<1>1. /\ g \in Handler(kind) /\ g.blamed = h.blamed /\ g.sends = h.sends
      /\ \A t \in Sessions : \A type : Counted(kind, g.infos[t], type) => Counted(kind, h.infos[t], type)
    BY Sweeps DEF TypeOK
<1> HIDE DEF g
<1>2. Silent(g)
    BY <1>1 DEF Silent
<1>3. Ticked(kind, g, g2)
    BY <1>1, <1>2, NotifyTicks DEF g
<1>4. \A t \in Sessions : Reacts(kind, "none", h.infos[t], g2.infos[t], g2.sends[t])
    BY <1>1, <1>3 DEF Ticked, Reacts
<1> QED
    BY <1>1, <1>3, <1>4 DEF Ticked, Outcome

-----------------------------------------------------------------------------
(***************************************************************************)
(* Steps                                                                   *)
(***************************************************************************)

\* The events of one of the streams of a session change.
LEMMA StreamChanges ==
    ASSUME TypeOK, NEW s \in Sessions, NEW i \in 1..Len(out[s]), NEW e \in Seq(Event(kind)), kind' = kind,
           out' = [out EXCEPT ![s] = [out[s] EXCEPT ![i] = e]]
    PROVE  /\ out' \in [Sessions -> Seq(Seq(Event(kind')))]
           /\ \A t \in Sessions : t # s => out'[t] = out[t]
           /\ Len(out'[s]) = Len(out[s]) /\ out'[s][i] = e
<1>1. out \in [Sessions -> Seq(Seq(Event(kind)))] /\ out[s] \in Seq(Seq(Event(kind)))
    BY DEF TypeOK
<1> DEFINE E == Seq(Event(kind))
           q == out[s]
           r == [q EXCEPT ![i] = e]
<1> HIDE DEF E
<1>2. r \in Seq(E) /\ Len(r) = Len(q) /\ r[i] = e
    BY <1>1 DEF E
<1>3. out'[s] = r /\ out' \in [Sessions -> Seq(E)] /\ \A t \in Sessions : t # s => out'[t] = out[t]
    BY <1>1, <1>2 DEF E
<1> QED
    BY <1>2, <1>3 DEF E

\* The first stream of a session that has only one.
LEMMA OnlyStream ==
    ASSUME IInv, NEW s \in Sessions
    PROVE  /\ opens[s] = 1 => Len(out[s]) = 1 /\ out[s][1] \in Seq(Event(kind))
           /\ stream[s] = "open" => Newest(s) \in 1..Len(out[s]) /\ out[s][Newest(s)] \in Seq(Event(kind))
           /\ \A i \in 1..Len(out[s]) : out[s][i] \in Seq(Event(kind)) /\ (opens[s] = 1 => i = 1)
           /\ Len(out[s]) = 0 <=> opens[s] = 0
<1>1. out[s] \in Seq(Seq(Event(kind))) /\ opens[s] \in Nat /\ Len(out[s]) = opens[s]
      /\ (opens[s] = 0 => stream[s] = "none")
    BY DEF IInv, TypeOK, Peers, Peer
<1> DEFINE E == Seq(Event(kind))
           q == out[s]
<1> HIDE DEF E, q
<1>2. q \in Seq(E) /\ Len(q) = opens[s]
    BY <1>1 DEF E, q
<1>3. \A i \in 1..Len(q) : q[i] \in E
    BY <1>2
<1>4. opens[s] = 1 => 1 \in 1..Len(q) /\ \A i \in 1..Len(q) : i = 1
    BY <1>2
<1>5. stream[s] = "open" => Len(q) \in 1..Len(q)
    BY <1>1, <1>2
<1> QED
    BY <1>1, <1>2, <1>3, <1>4, <1>5 DEF E, q, Newest

\* A peer to which nothing happens.
LEMMA PeerStays ==
    ASSUME IInv, NEW t \in Sessions, kind' = kind, opens'[t] = opens[t], stream'[t] = stream[t],
           said'[t] = said[t], out'[t] = out[t], heard'[t] = heard[t], h'.infos[t] = h.infos[t],
           h'.blamed = h.blamed
    PROVE  Peer(t)'
BY DEF IInv, Peers, Peer

\* The handler's state, and what the peers hear, when g2 has been delivered.
Delivered(k, g2, he, h2, he2) ==
    /\ h2 \in Handler(k) /\ he2 \in [Sessions -> Seq(Message(k))]
    /\ h2.blamed = g2.blamed
    /\ \A t \in Sessions :
          /\ h2.sends[t] = <<>> /\ h2.infos[t] = g2.infos[t]
          /\ g2.sends[t] \in Seq(Message(k))
          /\ he2[t] = he[t] \/ he2[t] = he[t] \o g2.sends[t]

\* What the handler sends is delivered.
LEMMA Delivers ==
    ASSUME IInv, NEW g2 \in Handler(kind), Deliver(g2)
    PROVE  Delivered(kind, g2, heard, h', heard')
<1> DEFINE M == Message(kind)
           empty == [t \in Sessions |-> <<>>]
<1>1. g2 \in Handler(kind) /\ g2.sends \in [Sessions -> Seq(M)]
    BY Fields
<1>2. empty \in [Sessions -> Seq(M)] /\ \A t \in Sessions : empty[t] = <<>>
    OBVIOUS
<1>3. h' = [g2 EXCEPT !.sends = empty]
    BY DEF Deliver
<1> HIDE DEF empty
<1>4. h' \in Handler(kind) /\ h'.blamed = g2.blamed /\ h'.infos = g2.infos /\ h'.sends = empty
    BY <1>1, <1>2, <1>3 DEF Handler
<1>5. heard \in [Sessions -> Seq(M)]
    BY DEF IInv, TypeOK
<1> HIDE DEF M
<1>6. \A t \in Sessions : heard[t] \o g2.sends[t] \in Seq(M)
    BY <1>1, <1>5
<1>7. heard' = [t \in Sessions |-> IF stream[t] = "open" THEN heard[t] \o g2.sends[t] ELSE heard[t]]
    BY DEF Deliver
<1>8. heard' \in [Sessions -> Seq(M)]
    BY <1>5, <1>6, <1>7
<1>9. \A t \in Sessions : heard'[t] = heard[t] \/ heard'[t] = heard[t] \o g2.sends[t]
    BY <1>7
<1> QED
    BY <1>1, <1>2, <1>4, <1>8, <1>9 DEF M, Delivered

\* A peer of which no event is handled.
LEMMA PeerQuiet ==
    ASSUME IInv, NEW t \in Sessions, kind' = kind, opens' = opens, stream' = stream, said' = said,
           out'[t] = out[t], NEW info, NEW sends \in Seq(Message(kind)), h'.infos[t] = info,
           Reacts(kind, "none", h.infos[t], info, sends),
           <<t, "Duplicate">> \in h'.blamed => <<t, "Duplicate">> \in h.blamed,
           heard'[t] = heard[t] \/ heard'[t] = heard[t] \o sends
    PROVE  Peer(t)'
<1>1. Peer(t)
    BY DEF IInv, Peers
<1>2. CASE opens[t] = 0
    <2>1. \A type \in Countable : ~Counted(kind, info, type)
        BY <1>1, <1>2 DEF Peer, Reacts, Countable
    <2> QED
        BY <1>1, <1>2, <2>1 DEF Peer
<1>3. CASE opens[t] = 1
    <2>1. out[t][1] \in Seq(Event(kind)) /\ heard[t] \in Seq(Message(kind))
        BY <1>3, OnlyStream DEF IInv, TypeOK
    <2>2. Consistent(kind, h.infos[t], out[t][1], heard[t], said[t])
        BY <1>1, <1>3 DEF Peer
    <2>3. Consistent(kind, info, out[t][1], heard'[t], said[t])
        BY <2>1, <2>2, ConsistentQuiet, ZenonT(40)
    <2> QED
        BY <1>1, <1>3, <2>3 DEF Peer
<1>4. CASE opens[t] \notin {0, 1}
    <2>1. opens[t] \in Nat
        BY DEF IInv, TypeOK
    <2>2. ~(opens[t] <= 1)
        BY <1>4, <2>1
    <2> QED
        BY <1>1, <1>4, <2>2 DEF Peer
<1> QED
    BY <1>2, <1>3, <1>4

\* A peer of which an event is handled or lost.
LEMMA PeerHandled ==
    ASSUME IInv, NEW t \in Sessions, kind' = kind, opens' = opens, stream' = stream, said' = said,
           NEW i \in 1..Len(out[t]), out[t][i] # <<>>, Len(out'[t]) = Len(out[t]),
           out'[t][i] = Tail(out[t][i]),
           NEW ev, ev = Head(out[t][i]).type, NEW info, NEW sends \in Seq(Message(kind)), h'.infos[t] = info,
           Reacts(kind, ev, h.infos[t], info, sends),
           <<t, "Duplicate">> \in h'.blamed =>
               <<t, "Duplicate">> \in h.blamed \/ (ev \in Countable /\ Counted(kind, h.infos[t], ev)),
           heard'[t] = heard[t] \/ heard'[t] = heard[t] \o sends
    PROVE  Peer(t)'
<1>1. Peer(t)
    BY DEF IInv, Peers
<1>2. CASE opens[t] = 0
    <2>1. Len(out[t]) = 0
        BY <1>2, OnlyStream
    <2> QED
        BY <2>1
<1>3. CASE opens[t] = 1
    <2>1. i = 1 /\ out[t][1] \in Seq(Event(kind)) /\ heard[t] \in Seq(Message(kind))
        BY <1>3, OnlyStream DEF IInv, TypeOK
    <2>2. Consistent(kind, h.infos[t], out[t][1], heard[t], said[t])
        BY <1>1, <1>3 DEF Peer
    <2> DEFINE o == out[t][1]
               he == heard[t]
    <2>3. /\ o \in Seq(Event(kind)) /\ o # <<>> /\ ev = Head(o).type /\ he \in Seq(Message(kind))
          /\ Consistent(kind, h.infos[t], o, he, said[t])
        BY <2>1, <2>2
    <2> HIDE DEF o, he
    <2>4. Reacts(kind, Head(o).type, h.infos[t], info, sends)
        BY <2>3
    <2>5. /\ ~(Head(o).type \in Countable /\ Counted(kind, h.infos[t], Head(o).type))
          /\ Consistent(kind, info, Tail(o), he, said[t])
          /\ Consistent(kind, info, Tail(o), he \o sends, said[t])
        BY <2>3, <2>4, ConsistentHandle
    <2>6. /\ ~(ev \in Countable /\ Counted(kind, h.infos[t], ev))
          /\ Consistent(kind, info, Tail(out[t][1]), heard'[t], said[t])
        BY <2>3, <2>5 DEF o, he
    <2> QED
        BY <1>1, <1>3, <2>1, <2>6 DEF Peer
<1>4. CASE opens[t] \notin {0, 1}
    <2>1. opens[t] \in Nat
        BY DEF IInv, TypeOK
    <2>2. ~(opens[t] <= 1)
        BY <1>4, <2>1
    <2> QED
        BY <1>1, <1>4, <2>2 DEF Peer
<1> QED
    BY <1>2, <1>3, <1>4

\* Nothing waits to be sent between two steps.
LEMMA SilentHandler ==
    ASSUME IInv
    PROVE  Silent(h)
BY DEF IInv, Peers, Silent

\* An event is handled.
LEMMA HandleStep ==
    ASSUME IInv, NEW s \in Sessions, NEW i \in 1..Len(out[s]), Handle(s, i)
    PROVE  IInv'
<1> DEFINE q == out[s][i]
           m == Head(q)
<1>1. q \in Seq(Event(kind)) /\ q # <<>>
    BY OnlyStream DEF Handle
<1>2. Tail(q) \in Seq(Event(kind)) /\ m \in Event(kind)
    BY <1>1
<1>3. /\ kind' = kind /\ opens' = opens /\ stream' = stream /\ said' = said /\ closed' = closed
      /\ secio' = secio /\ outbound' = outbound /\ told' = told /\ ticks' = ticks
      /\ shutdown' \in {"no", "set", "ended"}
    BY DEF Handle
<1>4. out' = [out EXCEPT ![s] = [out[s] EXCEPT ![i] = Tail(q)]]
    BY DEF Handle
<1>5. /\ out' \in [Sessions -> Seq(Seq(Event(kind')))]
      /\ \A t \in Sessions : t # s => out'[t] = out[t]
      /\ Len(out'[s]) = Len(out[s]) /\ out'[s][i] = Tail(q)
    BY <1>2, <1>3, <1>4, StreamChanges DEF IInv
<1>6. \/ h' = h /\ heard' = heard
      \/ \E g \in Handled(Sweep(h), s, m) : Deliver(g)
    BY DEF Handle
<1> HIDE DEF m
<1>7. CASE h' = h /\ heard' = heard
    <2>1. TypeOK'
        BY <1>3, <1>5, <1>7 DEF IInv, TypeOK
    <2>2. \A t \in Sessions : t # s => Peer(t)'
        BY <1>3, <1>5, <1>7, PeerStays
    <2>3. Peer(s)'
        <3>1. <<>> \in Seq(Message(kind))
            OBVIOUS
        <3>2. Reacts(kind, m.type, h.infos[s], h.infos[s], <<>>)
            BY Singles DEF Reacts
        <3> QED
            BY <1>1, <1>3, <1>5, <1>7, <3>1, <3>2, PeerHandled DEF m
    <2> QED
        BY <1>7, <2>1, <2>2, <2>3 DEF IInv, Peers
<1>8. CASE \E g \in Handled(Sweep(h), s, m) : Deliver(g)
    <2>1. PICK g2 \in Handled(Sweep(h), s, m) : Deliver(g2)
        BY <1>8
    <2> DEFINE ev == m.type
    <2>2. Outcome(kind, h, g2, s, ev)
        BY <1>2, SilentHandler, EventOutcome DEF IInv
    <2> HIDE DEF ev
    <2>3. /\ h' \in Handler(kind) /\ heard' \in [Sessions -> Seq(Message(kind))]
          /\ h'.blamed = g2.blamed
          /\ \A t \in Sessions :
                /\ h'.sends[t] = <<>> /\ h'.infos[t] = g2.infos[t]
                /\ g2.sends[t] \in Seq(Message(kind))
                /\ heard'[t] = heard[t] \/ heard'[t] = heard[t] \o g2.sends[t]
        <3>1. g2 \in Handler(kind)
            BY <2>2 DEF Outcome
        <3>2. Delivered(kind, g2, heard, h', heard')
            BY <2>1, <3>1, Delivers
        <3> QED
            BY <3>2 DEF Delivered
    <2>4. \A t \in Sessions :
              /\ Reacts(kind, IF t = s THEN ev ELSE "none", h.infos[t], g2.infos[t], g2.sends[t])
              /\ <<t, "Duplicate">> \in g2.blamed => <<t, "Duplicate">> \in h.blamed
                     \/ (t = s /\ ev \in Countable /\ Counted(kind, h.infos[t], ev))
        BY <2>2 DEF Outcome
    <2>5. TypeOK'
        BY <1>3, <1>5, <2>3 DEF IInv, TypeOK
    <2>6. ASSUME NEW t \in Sessions, t # s
          PROVE  Peer(t)'
        BY <1>3, <1>5, <2>3, <2>4, <2>6, PeerQuiet
    <2>7. Peer(s)'
        <3>1. ev = Head(q).type
            BY DEF m, ev
        <3>2. /\ Reacts(kind, ev, h.infos[s], g2.infos[s], g2.sends[s])
              /\ <<s, "Duplicate">> \in g2.blamed =>
                    <<s, "Duplicate">> \in h.blamed \/ (ev \in Countable /\ Counted(kind, h.infos[s], ev))
            BY <2>4
        <3> QED
            BY <1>1, <1>3, <1>5, <2>3, <3>1, <3>2, PeerHandled
    <2> QED
        BY <2>3, <2>5, <2>6, <2>7 DEF IInv, Peers
<1> QED
    BY <1>6, <1>7, <1>8

\* A timer fires.
LEMMA NotifyStep ==
    ASSUME IInv, NEW S \in SUBSET Sessions, Notify(S)
    PROVE  IInv'
<1>1. /\ kind' = kind /\ opens' = opens /\ stream' = stream /\ said' = said /\ closed' = closed
      /\ secio' = secio /\ outbound' = outbound /\ told' = told /\ ticks' = ticks + 1
      /\ shutdown' = shutdown /\ out' = out
    BY DEF Notify
<1>2. PICK g2 \in notify(Sweep(h), S) : Deliver(g2)
    BY DEF Notify
<1>3. \A s : Outcome(kind, h, g2, s, "none")
    BY SilentHandler, TimerOutcome DEF IInv
<1>4. /\ h' \in Handler(kind) /\ heard' \in [Sessions -> Seq(Message(kind))]
      /\ h'.blamed = g2.blamed
      /\ \A t \in Sessions :
            /\ h'.sends[t] = <<>> /\ h'.infos[t] = g2.infos[t]
            /\ g2.sends[t] \in Seq(Message(kind))
            /\ heard'[t] = heard[t] \/ heard'[t] = heard[t] \o g2.sends[t]
    <2>1. g2 \in Handler(kind)
        BY <1>3 DEF Outcome
    <2>2. Delivered(kind, g2, heard, h', heard')
        BY <1>2, <2>1, Delivers
    <2> QED
        BY <2>2 DEF Delivered
<1>5. TypeOK'
    BY <1>1, <1>4 DEF IInv, TypeOK
<1>6. ASSUME NEW t \in Sessions
      PROVE  Peer(t)'
    <2>1. "none" \notin Countable
        BY DEF Countable
    <2>2. /\ Reacts(kind, "none", h.infos[t], g2.infos[t], g2.sends[t])
          /\ <<t, "Duplicate">> \in g2.blamed => <<t, "Duplicate">> \in h.blamed
        BY <1>3, <2>1 DEF Outcome
    <2> QED
        BY <1>1, <1>4, <2>2, PeerQuiet
<1> QED
    BY <1>4, <1>5, <1>6 DEF IInv, Peers

\* A timer fires later.
LEMMA LateNotifyStep ==
    ASSUME IInv, LateNotify
    PROVE  IInv'
<1>1. /\ kind' = kind /\ opens' = opens /\ stream' = stream /\ said' = said /\ closed' = closed
      /\ secio' = secio /\ outbound' = outbound /\ told' = told /\ ticks' = ticks
      /\ shutdown' = shutdown /\ out' = out /\ heard' = heard /\ h' = Sweep(h)
    BY DEF LateNotify, net
<1>2. /\ h' \in Handler(kind) /\ h'.blamed = h.blamed /\ h'.sends = h.sends
      /\ \A t \in Sessions : \A type : Counted(kind, h'.infos[t], type) => Counted(kind, h.infos[t], type)
    BY <1>1, Sweeps DEF IInv, TypeOK
<1>3. TypeOK'
    BY <1>1, <1>2 DEF IInv, TypeOK
<1>4. ASSUME NEW t \in Sessions
      PROVE  Peer(t)'
    <2>1. <<>> \in Seq(Message(kind))
        OBVIOUS
    <2>2. Reacts(kind, "none", h.infos[t], h'.infos[t], <<>>)
        BY <1>2, Singles DEF Reacts
    <2> QED
        BY <1>1, <1>2, <2>1, <2>2, PeerQuiet
<1> QED
    BY <1>2, <1>3, <1>4 DEF IInv, Peers

\* Something happens to the only stream of a peer.
LEMMA PeerChanges ==
    ASSUME IInv, NEW s \in Sessions, stream[s] = "open", kind' = kind, opens' = opens, h' = h,
           NEW e, Len(out'[s]) = Len(out[s]), out'[s][Newest(s)] = e,
           opens[s] = 1 => Consistent(kind, h.infos[s], e, heard'[s], said'[s])
    PROVE  Peer(s)'
<1>1. Peer(s) /\ opens[s] \in Nat
    BY DEF IInv, Peers, TypeOK
<1>2. opens[s] # 0
    BY <1>1 DEF Peer
<1>3. opens[s] = 1 => Newest(s) = 1
    BY OnlyStream
<1>4. opens'[s] = 1 => Consistent(kind', h'.infos[s], out'[s][1], heard'[s], said'[s])
    BY <1>3
<1> QED
    BY <1>1, <1>2, <1>4 DEF Peer

\* A stream is opened.
LEMMA OpenStep ==
    ASSUME IInv, NEW s \in Sessions, Open(s)
    PROVE  IInv'
<1>1. /\ kind' = kind /\ secio' = secio /\ outbound' = outbound /\ closed' = closed /\ told' = told
      /\ h' = h /\ ticks' = ticks /\ shutdown' = shutdown
    BY DEF Open
<1>2. /\ opens' = [opens EXCEPT ![s] = @ + 1] /\ stream' = [stream EXCEPT ![s] = "open"]
      /\ out' = [out EXCEPT ![s] = Append(@, <<Connected>>)]
      /\ said' = [said EXCEPT ![s] = {}] /\ heard' = [heard EXCEPT ![s] = <<>>]
    BY DEF Open
<1>3. TypeOK /\ Peer(s)
    BY DEF IInv, Peers
<1> DEFINE E == Seq(Event(kind))
           q == out[s]
           c == <<Connected>>
<1>4. c \in E /\ q \in Seq(E) /\ opens[s] \in Nat /\ <<>> \in Seq(Message(kind))
    BY <1>3 DEF TypeOK, Event
<1> HIDE DEF c, E
<1>5. Append(q, c) \in Seq(E) /\ Len(Append(q, c)) = Len(q) + 1 /\ (Len(q) = 0 => Append(q, c)[1] = c)
    BY <1>4
<1>6. /\ opens' \in [Sessions -> Nat] /\ opens'[s] = opens[s] + 1
      /\ stream' \in [Sessions -> {"none", "open", "broken"}] /\ stream'[s] = "open"
      /\ said' \in [Sessions -> SUBSET Incoming(kind)] /\ said'[s] = {}
      /\ heard' \in [Sessions -> Seq(Message(kind))] /\ heard'[s] = <<>>
    BY <1>2, <1>3, <1>4 DEF TypeOK
<1>7. out' \in [Sessions -> Seq(E)] /\ out'[s] = Append(q, c)
    BY <1>2, <1>3, <1>5 DEF TypeOK, c, E
<1>8. TypeOK'
    BY <1>1, <1>3, <1>6, <1>7 DEF TypeOK, E
<1>9. \A t \in Sessions : t # s =>
          /\ opens'[t] = opens[t] /\ stream'[t] = stream[t] /\ out'[t] = out[t] /\ said'[t] = said[t]
          /\ heard'[t] = heard[t]
    BY <1>2, <1>3 DEF TypeOK
<1>10. \A t \in Sessions : t # s => Peer(t)'
    BY <1>1, <1>9, PeerStays
<1>11. Peer(s)'
    <2>1. Len(q) = opens[s]
        BY <1>3 DEF Peer
    <2>2. CASE opens[s] = 0
        <3>1. \A type \in Countable : ~Counted(kind, h.infos[s], type)
            BY <1>3, <2>2 DEF Peer
        <3>2. Consistent(kind, h.infos[s], c, <<>>, {})
            BY <3>1, ConsistentOpens DEF c
        <3>3. out'[s][1] = c /\ Len(out'[s]) = 1 /\ opens'[s] = 1
            BY <1>5, <1>6, <1>7, <2>1, <2>2
        <3>4. <<s, "Duplicate">> \notin h.blamed
            BY <1>3, <2>2 DEF Peer
        <3> QED
            BY <1>1, <1>6, <3>2, <3>3, <3>4 DEF Peer
    <2>3. CASE opens[s] # 0
        <3>1. Len(out'[s]) = opens'[s] /\ opens'[s] # 0 /\ opens'[s] # 1 /\ ~(opens'[s] <= 1)
            BY <1>4, <1>5, <1>6, <1>7, <2>1, <2>3
        <3> QED
            BY <3>1 DEF Peer
    <2> QED
        BY <2>2, <2>3
<1> QED
    BY <1>1, <1>8, <1>10, <1>11 DEF IInv, Peers

\* The events of the newest stream of a session become e.
LEMMA NewestStep ==
    ASSUME IInv, NEW s \in Sessions, stream[s] = "open", NEW e \in Seq(Event(kind)),
           out' = [out EXCEPT ![s] = [out[s] EXCEPT ![Newest(s)] = e]],
           kind' = kind, secio' = secio, outbound' = outbound, closed' = closed, opens' = opens,
           told' = told, h' = h, ticks' = ticks, shutdown' = shutdown,
           stream' \in [Sessions -> {"none", "open", "broken"}],
           said' \in [Sessions -> SUBSET Incoming(kind)], heard' \in [Sessions -> Seq(Message(kind))],
           \A t \in Sessions : t # s => stream'[t] = stream[t] /\ said'[t] = said[t] /\ heard'[t] = heard[t],
           opens[s] = 1 => Consistent(kind, h.infos[s], e, heard'[s], said'[s])
    PROVE  IInv'
<1>1. Newest(s) \in 1..Len(out[s])
    BY OnlyStream
<1>2. /\ out' \in [Sessions -> Seq(Seq(Event(kind')))]
      /\ \A t \in Sessions : t # s => out'[t] = out[t]
      /\ Len(out'[s]) = Len(out[s]) /\ out'[s][Newest(s)] = e
    BY <1>1, StreamChanges, ZenonT(40) DEF IInv
<1>3. TypeOK'
    BY <1>2 DEF IInv, TypeOK
<1>4. \A t \in Sessions : t # s => Peer(t)'
    BY <1>2, PeerStays
<1>5. Peer(s)'
    BY <1>2, PeerChanges
<1> QED
    BY <1>3, <1>4, <1>5 DEF IInv, Peers

\* The stream of a session that has only one, and what is known of it.
LEMMA NewestOnly ==
    ASSUME IInv, NEW s \in Sessions, stream[s] = "open"
    PROVE  /\ out[s][Newest(s)] \in Seq(Event(kind))
           /\ opens[s] = 1 => Consistent(kind, h.infos[s], out[s][Newest(s)], heard[s], said[s])
<1>1. out[s][Newest(s)] \in Seq(Event(kind)) /\ (opens[s] = 1 => Newest(s) = 1)
    BY OnlyStream
<1>2. opens[s] = 1 => Consistent(kind, h.infos[s], out[s][1], heard[s], said[s])
    BY DEF IInv, Peers, Peer
<1> QED
    BY <1>1, <1>2

\* A stream is closed.
LEMMA CloseStreamStep ==
    ASSUME IInv, NEW s \in Sessions, CloseStream(s)
    PROVE  IInv'
<1> DEFINE q == out[s][Newest(s)]
           e == Append(q, Disconnected)
<1>1. /\ stream[s] = "open" /\ stream' = [stream EXCEPT ![s] = "none"]
      /\ out' = [out EXCEPT ![s] = [out[s] EXCEPT ![Newest(s)] = e]]
      /\ kind' = kind /\ secio' = secio /\ outbound' = outbound /\ closed' = closed /\ said' = said
      /\ heard' = heard /\ opens' = opens /\ told' = told /\ h' = h /\ ticks' = ticks
      /\ shutdown' = shutdown
    BY DEF CloseStream
<1>2. Disconnected \in Event(kind) /\ Disconnected.type \notin Countable \cup {"Connected"}
    BY DEF Event, Disconnected, Msg, Countable
<1>3. /\ q \in Seq(Event(kind))
      /\ opens[s] = 1 => Consistent(kind, h.infos[s], q, heard[s], said[s])
    BY <1>1, NewestOnly
<1> HIDE DEF q
<1>4. e \in Seq(Event(kind))
    BY <1>2, <1>3
<1>5. opens[s] = 1 => Consistent(kind, h.infos[s], e, heard[s], said[s])
    BY <1>2, <1>3, ConsistentNeutral
<1> HIDE DEF e
<1>6. /\ stream' \in [Sessions -> {"none", "open", "broken"}]
      /\ \A t \in Sessions : t # s => stream'[t] = stream[t]
      /\ said' \in [Sessions -> SUBSET Incoming(kind)] /\ heard' \in [Sessions -> Seq(Message(kind))]
    BY <1>1 DEF IInv, TypeOK
<1> QED
    BY <1>1, <1>4, <1>5, <1>6, NewestStep

\* A stream breaks.
LEMMA BreakStreamStep ==
    ASSUME IInv, NEW s \in Sessions, BreakStream(s)
    PROVE  IInv'
<1> DEFINE q == out[s][Newest(s)]
<1>1. /\ stream[s] = "open" /\ stream' = [stream EXCEPT ![s] = "broken"]
      /\ kind' = kind /\ secio' = secio /\ outbound' = outbound /\ closed' = closed /\ said' = said
      /\ heard' = heard /\ opens' = opens /\ told' = told /\ h' = h /\ ticks' = ticks
      /\ shutdown' = shutdown
    BY DEF BreakStream
<1>2. PICK n \in 0..Len(q) : out' = [out EXCEPT ![s] = [out[s] EXCEPT ![Newest(s)] = SubSeq(q, 1, n)]]
    BY DEF BreakStream
<1>3. /\ q \in Seq(Event(kind))
      /\ opens[s] = 1 => Consistent(kind, h.infos[s], q, heard[s], said[s])
    BY <1>1, NewestOnly
<1> DEFINE e == SubSeq(q, 1, n)
<1> HIDE DEF q
<1>4. e \in Seq(Event(kind))
    BY <1>3, HasPrefix
<1>5. opens[s] = 1 => Consistent(kind, h.infos[s], e, heard[s], said[s])
    BY <1>3, ConsistentBreaks
<1>6. out' = [out EXCEPT ![s] = [out[s] EXCEPT ![Newest(s)] = e]]
    BY <1>2
<1> HIDE DEF e
<1>7. /\ stream' \in [Sessions -> {"none", "open", "broken"}]
      /\ \A t \in Sessions : t # s => stream'[t] = stream[t]
      /\ said' \in [Sessions -> SUBSET Incoming(kind)] /\ heard' \in [Sessions -> Seq(Message(kind))]
    BY <1>1 DEF IInv, TypeOK
<1> QED
    BY <1>1, <1>4, <1>5, <1>6, <1>7, NewestStep

\* The peer sends.
LEMMA PeerSendsStep ==
    ASSUME IInv, NEW s \in Sessions, NEW type \in Unasked(s), PeerSends(s, type)
    PROVE  IInv'
<1> DEFINE q == out[s][Newest(s)]
           m == Msg(type, 0)
           e == Append(q, m)
<1>1. /\ stream[s] = "open" /\ stream' = stream /\ said' = [said EXCEPT ![s] = @ \cup {type}]
      /\ type \notin said[s]
      /\ out' = [out EXCEPT ![s] = [out[s] EXCEPT ![Newest(s)] = e]]
      /\ kind' = kind /\ secio' = secio /\ outbound' = outbound /\ closed' = closed
      /\ heard' = heard /\ opens' = opens /\ told' = told /\ h' = h /\ ticks' = ticks
      /\ shutdown' = shutdown
    BY DEF PeerSends, Receive
<1>2. type \in Incoming(kind) /\ type \notin {"Connected", "Nodes"}
    <2>1. CASE kind = "ping"
        BY <2>1 DEF Unasked, Incoming
    <2>2. CASE kind = "identify"
        BY <2>2 DEF Unasked, Incoming
    <2>3. CASE kind = "discovery"
        BY <2>3 DEF Unasked, Incoming
    <2>4. CASE kind = "connector"
        BY <2>4 DEF Unasked, Incoming
    <2> QED
        BY <2>1, <2>2, <2>3, <2>4 DEF IInv, TypeOK
<1>3. m \in Event(kind) /\ m.type = type
    BY <1>2 DEF Event, Msg
<1>4. /\ q \in Seq(Event(kind))
      /\ opens[s] = 1 => Consistent(kind, h.infos[s], q, heard[s], said[s])
    BY <1>1, NewestOnly
<1> HIDE DEF q, m
<1>5. e \in Seq(Event(kind))
    BY <1>3, <1>4
<1>6. /\ said' \in [Sessions -> SUBSET Incoming(kind)] /\ said'[s] = said[s] \cup {m.type}
      /\ \A t \in Sessions : t # s => said'[t] = said[t]
      /\ stream' \in [Sessions -> {"none", "open", "broken"}] /\ heard' \in [Sessions -> Seq(Message(kind))]
    BY <1>1, <1>2, <1>3 DEF IInv, TypeOK
<1>7. opens[s] = 1 => Consistent(kind, h.infos[s], e, heard[s], said'[s])
    BY <1>1, <1>2, <1>3, <1>4, <1>6, ConsistentSays
<1> HIDE DEF e
<1> QED
    BY <1>1, <1>5, <1>6, <1>7, NewestStep

\* The peer answers.
LEMMA PeerAnswersStep ==
    ASSUME IInv, NEW s \in Sessions, PeerAnswers(s)
    PROVE  IInv'
<1> DEFINE he == heard[s]
           m == Head(he)
<1>1. he # <<>> /\ heard' = [heard EXCEPT ![s] = Tail(he)] /\ said' = said
    BY DEF PeerAnswers
<1>2. TypeOK /\ he \in Seq(Message(kind))
    BY DEF IInv, TypeOK
<1>3. m \in Message(kind) /\ Tail(he) \in Seq(Message(kind))
    BY <1>1, <1>2
<1>4. /\ heard' \in [Sessions -> Seq(Message(kind))] /\ heard'[s] = Tail(he)
      /\ \A t \in Sessions : t # s => heard'[t] = heard[t]
    BY <1>1, <1>2, <1>3 DEF TypeOK
<1>5. ASSUME NEW a \in Event(kind), Receive(s, a),
             \/ a.type \notin Countable \cup {"Connected"}
             \/ a.type = "Nodes" /\ m.type = "GetNodes"
      PROVE  IInv'
    <2> DEFINE q == out[s][Newest(s)]
               e == Append(q, a)
    <2>1. /\ stream[s] = "open" /\ stream' = stream
          /\ out' = [out EXCEPT ![s] = [out[s] EXCEPT ![Newest(s)] = e]]
          /\ kind' = kind /\ secio' = secio /\ outbound' = outbound /\ closed' = closed
          /\ opens' = opens /\ told' = told /\ h' = h /\ ticks' = ticks /\ shutdown' = shutdown
        BY <1>5 DEF Receive
    <2>2. /\ q \in Seq(Event(kind))
          /\ opens[s] = 1 => Consistent(kind, h.infos[s], q, heard[s], said[s])
        BY <2>1, NewestOnly
    <2> HIDE DEF q
    <2>3. e \in Seq(Event(kind))
        BY <2>2
    <2>4. ASSUME opens[s] = 1
          PROVE  Consistent(kind, h.infos[s], e, Tail(he), said[s])
        <3>1. Consistent(kind, h.infos[s], q, he, said[s])
            BY <2>2, <2>4
        <3> HIDE DEF he
        <3>2. CASE a.type = "Nodes" /\ m.type = "GetNodes"
            BY <1>1, <1>2, <2>2, <3>1, <3>2, ConsistentAnswers
        <3>3. CASE a.type \notin Countable \cup {"Connected"}
            <4>1. Consistent(kind, h.infos[s], q, Tail(he), said[s])
                BY <1>1, <1>2, <3>1, ConsistentHears
            <4> QED
                BY <2>2, <3>3, <4>1, ConsistentNeutral
        <3> QED
            BY <1>5, <3>2, <3>3
    <2> HIDE DEF e
    <2>5. stream' \in [Sessions -> {"none", "open", "broken"}] /\ said' \in [Sessions -> SUBSET Incoming(kind)]
        BY <1>1, <1>2, <2>1 DEF TypeOK
    <2>6. opens[s] = 1 => Consistent(kind, h.infos[s], e, heard'[s], said'[s])
        BY <1>1, <1>4, <2>4
    <2> QED
        BY <1>1, <1>4, <2>1, <2>3, <2>5, <2>6, NewestStep
<1>6. CASE m.type = "Ping"
    <2> DEFINE a == Msg("Pong", m.nonce)
    <2>1. Receive(s, a)
        BY <1>6 DEF PeerAnswers
    <2>2. m.nonce \in Nat /\ kind = "ping"
        BY <1>2, <1>3, <1>6 DEF Message, Outgoing, TypeOK
    <2>3. a \in Event(kind) /\ a.type \notin Countable \cup {"Connected"}
        BY <2>2 DEF Event, Incoming, Msg, Countable
    <2> QED
        BY <1>5, <2>1, <2>3
<1>7. CASE m.type = "GetNodes"
    <2> DEFINE a == Msg("Nodes", 0)
    <2>1. Receive(s, a)
        BY <1>7 DEF PeerAnswers
    <2>2. kind = "discovery"
        BY <1>2, <1>3, <1>7 DEF Message, Outgoing, TypeOK
    <2>3. a \in Event(kind) /\ a.type = "Nodes"
        BY <2>2 DEF Event, Incoming, Msg
    <2> QED
        BY <1>5, <1>7, <2>1, <2>3
<1>8. CASE m.type \notin {"Ping", "GetNodes"}
    <2>1. /\ kind' = kind /\ secio' = secio /\ outbound' = outbound /\ closed' = closed
          /\ stream' = stream /\ out' = out /\ opens' = opens /\ told' = told /\ h' = h
          /\ ticks' = ticks /\ shutdown' = shutdown
        BY <1>8 DEF PeerAnswers
    <2>2. TypeOK'
        BY <1>1, <1>2, <1>4, <2>1 DEF TypeOK
    <2>3. \A t \in Sessions : t # s => Peer(t)'
        BY <1>1, <1>4, <2>1, PeerStays
    <2>4. Peer(s)'
        <3>1. Peer(s)
            BY DEF IInv, Peers
        <3>2. opens[s] = 1 => Consistent(kind, h.infos[s], out[s][1], Tail(he), said[s])
            BY <1>1, <1>2, <3>1, ConsistentHears DEF Peer
        <3> QED
            BY <1>1, <1>4, <2>1, <3>1, <3>2 DEF Peer
    <2> QED
        BY <2>1, <2>2, <2>3, <2>4 DEF IInv, Peers
<1> QED
    BY <1>6, <1>7, <1>8

\* A session is closed.
LEMMA CloseSessionStep ==
    ASSUME IInv, NEW s \in Sessions, CloseSession(s)
    PROVE  IInv'
<1>1. TypeOK'
    BY DEF IInv, TypeOK, CloseSession
<1>2. ASSUME NEW t \in Sessions
      PROVE  Peer(t)'
    BY PeerStays DEF CloseSession
<1> QED
    BY <1>1, <1>2 DEF IInv, Peers, CloseSession

\* The service's own handler is told of a session.
LEMMA ToldStep ==
    ASSUME IInv, NEW s \in Sessions, SessionOpen(s) \/ SessionClose(s)
    PROVE  IInv'
<1>1. TypeOK /\ h \in Handler(kind) /\ h.shared[s] \in [entry : BOOLEAN, protocol : BOOLEAN]
    BY Fields DEF IInv, TypeOK
<1>2. /\ kind' = kind /\ secio' = secio /\ outbound' = outbound /\ closed' = closed
      /\ stream' = stream /\ out' = out /\ said' = said /\ heard' = heard /\ opens' = opens
      /\ ticks' = ticks /\ shutdown' = shutdown
    BY DEF SessionOpen, SessionClose, net
<1>3. told' \in [Sessions -> {"none", "open", "closed"}]
    BY <1>1 DEF SessionOpen, SessionClose, TypeOK
<1>4. h' \in Handler(kind) /\ h'.infos = h.infos /\ h'.blamed = h.blamed /\ h'.sends = h.sends
    <2>1. ASSUME NEW e \in [entry : BOOLEAN, protocol : BOOLEAN], h' = [h EXCEPT !.shared[s] = e]
          PROVE  h' \in Handler(kind) /\ h'.infos = h.infos /\ h'.blamed = h.blamed /\ h'.sends = h.sends
        BY <1>1, <2>1 DEF Handler
    <2>2. CASE h' = [h EXCEPT !.shared[s].entry = TRUE]
        <3>1. [h.shared[s] EXCEPT !.entry = TRUE] \in [entry : BOOLEAN, protocol : BOOLEAN]
            BY <1>1
        <3> QED
            BY <2>1, <2>2, <3>1
    <2>3. CASE h' = disconnect(h, s)
        BY <1>1, <2>3, Disconnects
    <2>4. CASE h' = [h EXCEPT !.shared[s] = [entry |-> FALSE, protocol |-> FALSE]]
        BY <2>1, <2>4
    <2> QED
        BY <2>2, <2>3, <2>4 DEF SessionOpen, SessionClose
<1>5. TypeOK'
    BY <1>1, <1>2, <1>3, <1>4 DEF TypeOK
<1>6. \A t \in Sessions : Peer(t)'
    BY <1>2, <1>4, PeerStays
<1> QED
    BY <1>4, <1>5, <1>6 DEF IInv, Peers

\* The invariant does not depend on the flag of the service.
LEMMA ShutdownStep ==
    ASSUME IInv, Shutdown
    PROVE  IInv'
<1>1. TypeOK'
    BY DEF IInv, TypeOK, Shutdown, net
<1>2. ASSUME NEW t \in Sessions
      PROVE  Peer(t)'
    BY PeerStays DEF Shutdown, net
<1> QED
    BY <1>1, <1>2 DEF IInv, Peers, Shutdown, net

\* The invariant holds at first.
LEMMA InitIInv ==
    ASSUME Init
    PROVE  IInv
<1>1. kind \in {"ping", "identify", "discovery", "connector"}
    BY HandlersAssumption DEF Init
<1> DEFINE empty == [s \in Sessions |-> <<>>]
           infos == [s \in Sessions |-> None]
           shared == [s \in Sessions |-> [entry |-> FALSE, protocol |-> FALSE]]
<1>2. h = [sessions |-> {}, infos |-> infos, secio_enabled |-> TRUE, shared |-> shared, asked |-> {},
           blamed |-> {}, panicked |-> FALSE, sends |-> empty]
    BY DEF Init
<1>3. /\ empty \in [Sessions -> Seq(Message(kind))] /\ empty \in [Sessions -> Seq(Seq(Event(kind)))]
      /\ infos \in [Sessions -> Info(kind) \cup {None}]
      /\ shared \in [Sessions -> [entry : BOOLEAN, protocol : BOOLEAN]]
      /\ \A s \in Sessions : empty[s] = <<>> /\ infos[s] = None
    OBVIOUS
<1>4. out = empty /\ heard = empty
    BY DEF Init
<1> HIDE DEF empty, infos, shared
<1>5. /\ h \in Handler(kind) /\ h.infos = infos /\ h.blamed = {} /\ h.sends = empty
    BY <1>2, <1>3 DEF Handler
<1>6. TypeOK
    <2>1. /\ secio \in BOOLEAN /\ outbound \in [Sessions -> BOOLEAN] /\ closed \in [Sessions -> BOOLEAN]
          /\ stream \in [Sessions -> {"none", "open", "broken"}]
          /\ said \in [Sessions -> SUBSET Incoming(kind)] /\ opens \in [Sessions -> Nat]
          /\ told \in [Sessions -> {"none", "open", "closed"}] /\ ticks \in Nat
          /\ shutdown \in {"no", "set", "ended"}
        BY DEF Init
    <2> QED
        BY <1>1, <1>3, <1>4, <1>5, <2>1 DEF TypeOK
<1>7. ASSUME NEW s \in Sessions
      PROVE  Peer(s) /\ h.sends[s] = <<>>
    <2>1. opens[s] = 0 /\ stream[s] = "none" /\ Len(out[s]) = 0
        BY <1>3, <1>4 DEF Init
    <2>2. \A type \in Countable : ~Counted(kind, h.infos[s], type)
        BY <1>3, <1>5, NoneCounted
    <2> QED
        BY <1>3, <1>5, <2>1, <2>2 DEF Peer
<1> QED
    BY <1>6, <1>7 DEF IInv, Peers

\* Every step keeps the invariant.
LEMMA NextIInv ==
    ASSUME IInv, [Next]_vars
    PROVE  IInv'
<1>1. CASE UNCHANGED vars
    <2>1. TypeOK'
        BY <1>1 DEF IInv, TypeOK, vars, net
    <2>2. ASSUME NEW t \in Sessions
          PROVE  Peer(t)'
        BY <1>1, PeerStays DEF vars, net
    <2> QED
        BY <1>1, <2>1, <2>2 DEF IInv, Peers, vars, net
<1>2. ASSUME NEW s \in Sessions, NEW i \in 1..Len(out[s]), Handle(s, i)
      PROVE  IInv'
    BY <1>2, HandleStep
<1>3. ASSUME NEW s \in Sessions,
             \/ Open(s) \/ CloseStream(s) \/ BreakStream(s) \/ CloseSession(s)
             \/ PeerAnswers(s) \/ SessionOpen(s) \/ SessionClose(s)
      PROVE  IInv'
    BY <1>3, OpenStep, CloseStreamStep, BreakStreamStep, CloseSessionStep, PeerAnswersStep, ToldStep
<1>4. ASSUME NEW s \in Sessions, NEW type \in Unasked(s), PeerSends(s, type)
      PROVE  IInv'
    BY <1>4, PeerSendsStep
<1>5. ASSUME NEW S \in SUBSET Sessions, Notify(S)
      PROVE  IInv'
    BY <1>5, NotifyStep
<1> QED
    BY <1>1, <1>2, <1>3, <1>4, <1>5, LateNotifyStep, ShutdownStep DEF Next

-----------------------------------------------------------------------------
\* The handlers, their streams and what is on the way keep their types: each handler is
\* sent only what its protocol has, and keeps of each session an info of its own kind.
THEOREM HandlersTypes == Spec => []TypeOK
<1>1. Init => IInv
    BY InitIInv
<1>2. IInv /\ [Next]_vars => IInv'
    BY NextIInv
<1>3. IInv => TypeOK
    BY DEF IInv
<1> QED
    BY <1>1, <1>2, <1>3, PTL DEF Spec

\* check_duplicate of the identify protocol and the flags of the discovery protocol: a
\* peer that says everything once on a stream, and answers once, is never reported for a
\* duplicate while the protocol is opened once in a session, for any number of sessions,
\* streams, ticks and messages on their way.
THEOREM NoPeerIsFalselyBlamed == Spec => []NoFalseDuplicate
<1>1. Init => IInv
    BY InitIInv
<1>2. IInv /\ [Next]_vars => IInv'
    BY NextIInv
<1>3. IInv => NoFalseDuplicate
    BY DEF IInv, Peers, Peer, NoFalseDuplicate
<1> QED
    BY <1>1, <1>2, <1>3, PTL DEF Spec
=============================================================================
