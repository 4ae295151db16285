---------------------------- MODULE YamuxProofs ----------------------------
(***************************************************************************)
(* What two yamux sessions keep true between them, for any number of       *)
(* streams, any windows, any capacity of the channels and of the sink: the *)
(* types, and the properties SynNeverQueued, RegisteredWhileReadable,      *)
(* PingsInFlight, NoProtocolError and DataBounded of Yamux.                *)
(*                                                                         *)
(* All of them rest on the life of a stream's id.  An id is unborn for the *)
(* acceptor as long as its SYN has not been read: it has no handle, no     *)
(* frame_sender, nothing in its channel and no Closed event.  That a SYN   *)
(* is sent once, whatever the session drops or delays on the way, is what  *)
(* keeps an id from being born twice, and with it the late Closed event of *)
(* a first life from cutting off a second.                                 *)
(*                                                                         *)
(* The last two follow a stream's frames from handle to handle.  They      *)
(* cross five queues, in some of which they may be lost, but none          *)
(* overtakes another of its stream: each begins where the receiver has     *)
(* come to, or later, and what is sent never exceeds what was granted.     *)
(***************************************************************************)
EXTENDS Yamux, SequenceTheorems, WellFoundedInduction, TLAPS

StreamFrame == {f \in Frame : f.stream_id \in StreamId}

QueuedFrame == {f \in StreamFrame : "Syn" \notin f.flags}

WireFrame ==
    {f \in SessionFrame :
        /\ f.ty \in {"Data", "WindowUpdate"} => f.stream_id \in StreamId
        /\ f.ty = "Ping" => f.flags \in {{"Syn"}, {"Ack"}}}

HandleEvent ==
    {v \in StreamEvent : v.kind = "Frame" => v.frame \in StreamFrame}

\* What a session has sent, or will when the sink has room.
Wire(s) == s.out \o s.write_pending_frames

IsSyn(f) == f.ty \in {"Data", "WindowUpdate"} /\ "Syn" \in f.flags

SynAt(q, id) == {i \in 1..Len(q) : IsSyn(q[i]) /\ q[i].stream_id = id}

SynEventAt(q, id) ==
    {i \in 1..Len(q) : q[i].kind = "Frame" /\ IsSyn(q[i].frame) /\ q[i].frame.stream_id = id}

\* A set with at most one element.
Single(S) == \A i, j \in S : i = j

ClosedIn(q, id) == \E i \in 1..Len(q) : q[i].kind = "Closed" /\ q[i].id = id

\* The SYN of id is on its way from the session s of side e, or still to be sent.
Unborn(s, e, id) ==
    /\ Opener(id) = e
    /\ \/ id >= s.next_stream_id
       \/ SynAt(Wire(s), id) # {}
       \/ SynEventAt(s.events, id) # {}

\* The window that a handle has granted and what it holds fit in its maximum.
HandleOK(h, e, id) ==
    /\ h \in StreamHandle /\ h.id = id
    /\ h.max_recv_window = max_window_size(e)
    /\ h.recv_window + h.read_buf <= h.max_recv_window

\* One SYN per id, of an id that the session has chosen.
SynOnce(s, e, id) ==
    /\ Single(SynAt(Wire(s), id)) /\ Single(SynEventAt(s.events, id))
    /\ SynAt(Wire(s), id) = {} \/ SynEventAt(s.events, id) = {}
    /\ SynAt(Wire(s), id) # {} \/ SynEventAt(s.events, id) # {} =>
            Opener(id) = e /\ id < s.next_stream_id

\* An id without a handle is not registered; a readable handle is, and no Closed event
\* of it is on its way.
NoneOK(s, id) ==
    s.life[id] = "none" => id \notin s.streams /\ s.chan[id] = <<>>

LiveOK(s, id) ==
    /\ s.life[id] = "live" => s.h[id].state # "Init"
    /\ Live(s, id) /\ s.h[id].state \in ReadableStates => id \in s.streams

ClosedOK(s, id) ==
    ClosedIn(s.events, id) =>
        /\ s.life[id] # "none"
        /\ s.life[id] = "live" => s.h[id].state \notin ReadableStates

StreamOK(s, e, id) ==
    /\ HandleOK(s.h[id], e, id)
    /\ NoneOK(s, id) /\ LiveOK(s, id) /\ ClosedOK(s, id)
    /\ SynOnce(s, e, id)
    /\ Opener(id) = e /\ id >= s.next_stream_id => s.life[id] = "none"

SessionOK(s, e) ==
    /\ s \in Session
    /\ s.out \in Seq(WireFrame) /\ Len(s.out) <= SinkCap
    /\ s.write_pending_frames \in Seq(WireFrame)
    /\ s.read_pending_frames \in Seq(QueuedFrame)
    /\ s.events \in Seq(HandleEvent)
    /\ Opener(s.next_stream_id) = e /\ s.next_stream_id > 0
    /\ s.remote_go_away => s.local_go_away

\* The session r has seen nothing of the ids that s has not announced yet.
Cross(s, e, r) == \A id \in StreamId : Unborn(s, e, id) => r.life[id] = "none"

GoodSession(s, e) == SessionOK(s, e) /\ \A id \in StreamId : StreamOK(s, e, id)

\* The inductive invariant behind the types and the first two properties.
StreamsInv ==
    /\ TypeOK
    /\ \A e \in Side : GoodSession(node[e], e) /\ Cross(node[e], e, node[Peer(e)])

PingSyn(f) == f.ty = "Ping" /\ "Syn" \in f.flags

PingAck(f) == f.ty = "Ping" /\ "Syn" \notin f.flags

\* The pings on the wire q and the answers on the wire p, in the order of their ids,
\* of which n is the last.
PingsOrdered(q, p, n) ==
    /\ \A i, j \in 1..Len(q) :
         i < j /\ PingSyn(q[i]) /\ PingSyn(q[j]) => q[i].length < q[j].length
    /\ \A i, j \in 1..Len(p) :
         i < j /\ PingAck(p[i]) /\ PingAck(p[j]) => p[i].length < p[j].length
    /\ \A i \in 1..Len(p), j \in 1..Len(q) :
         PingAck(p[i]) /\ PingSyn(q[j]) => p[i].length < q[j].length
    /\ \A i \in 1..Len(q) : PingSyn(q[i]) => q[i].length <= n
    /\ \A i \in 1..Len(p) : PingAck(p[i]) => p[i].length <= n

PingsKnown(q, p, P) ==
    \A m \in Nat : m \in P <=>
        \/ \E i \in 1..Len(q) : PingSyn(q[i]) /\ q[i].length = m
        \/ \E i \in 1..Len(p) : PingAck(p[i]) /\ p[i].length = m

PingsOK(q, p, n, P) == PingsOrdered(q, p, n) /\ PingsKnown(q, p, P)

\* Both sessions run and neither goes away.
Calm(s, r) == ~s.ended /\ ~r.ended /\ ~s.local_go_away /\ ~r.local_go_away

\* What PingsInFlight needs besides: the order of the pings, and that the end of the
\* socket is seen only after the other side has ended.
PingsInv ==
    \A e \in Side :
        LET s == node[e]
            r == node[Peer(e)] IN
        /\ s.eof => r.ended
        /\ Calm(s, r) => PingsOK(Wire(s), Wire(r), s.ping_id, s.pings)

-----------------------------------------------------------------------------
(***************************************************************************)
(* Sequences                                                               *)
(***************************************************************************)

\* A nonempty set of numbers has a least element.
LEMMA LeastNumber ==
    ASSUME NEW T \in SUBSET Nat, NEW n \in T
    PROVE  \E m \in T : \A k \in T : m <= k
<1> DEFINE R == OpToRel(<, Nat)
<1>1. \A a, b \in Nat : <<a, b>> \in R <=> a < b
  BY DEF OpToRel
<1>2. IsWellFoundedOn(R, Nat)
  BY NatLessThanWellFounded
<1> HIDE DEF R
<1>3. PICK m \in T : \A k \in T : ~(<<k, m>> \in R)
  BY <1>2, WFMin
<1>4. \A k \in T : ~(k < m)
  BY <1>1, <1>3
<1> QED BY <1>4

\* Induction over the numbers up to n, for a set instead of a predicate.
LEMMA Upwards ==
    ASSUME NEW n \in Nat, NEW T, 0 \in T, \A k \in 0..(n - 1) : k \in T => k + 1 \in T
    PROVE  \A k \in 0..n : k \in T
<1> SUFFICES ASSUME NEW k \in 0..n, k \notin T PROVE FALSE
  OBVIOUS
<1> DEFINE U == {i \in 0..n : i \notin T}
<1>1. U \in SUBSET Nat /\ k \in U
  OBVIOUS
<1>2. PICK m \in U : \A i \in U : m <= i
  <2> HIDE DEF U
  <2> QED BY <1>1, LeastNumber
<1>3. m # 0 /\ m - 1 \in 0..(n - 1)
  BY <1>2
<1>4. m - 1 \in T
  BY <1>2, <1>3
<1> QED BY <1>2, <1>3, <1>4

\* The elements and the length of a concatenation.
LEMMA ConcatAt ==
    ASSUME NEW S, NEW p \in Seq(S), NEW q \in Seq(S)
    PROVE  /\ p \o q \in Seq(S) /\ Len(p \o q) = Len(p) + Len(q)
           /\ \A i \in 1..Len(p) : (p \o q)[i] = p[i]
           /\ \A i \in 1..Len(q) : (p \o q)[Len(p) + i] = q[i]
           /\ \A i \in 1..(Len(p) + Len(q)) : i \notin 1..Len(p) =>
                 i - Len(p) \in 1..Len(q) /\ (p \o q)[i] = q[i - Len(p)]
<1>1. p \o q \in Seq(S) /\ Len(p \o q) = Len(p) + Len(q)
  BY ConcatProperties
<1>2. \A i \in 1..(Len(p) + Len(q)) :
         (p \o q)[i] = IF i <= Len(p) THEN p[i] ELSE q[i - Len(p)]
  BY ConcatProperties
<1>3. Len(p) \in Nat /\ Len(q) \in Nat
  BY LenProperties
<1>4. \A i \in 1..Len(p) : i \in 1..(Len(p) + Len(q)) /\ i <= Len(p)
  BY <1>3
<1>5. \A i \in 1..Len(q) : /\ Len(p) + i \in 1..(Len(p) + Len(q)) /\ ~(Len(p) + i <= Len(p))
                           /\ (Len(p) + i) - Len(p) = i
  BY <1>3
<1>6. \A i \in 1..(Len(p) + Len(q)) : i \notin 1..Len(p) =>
         i - Len(p) \in 1..Len(q) /\ ~(i <= Len(p))
  BY <1>3
<1>7. \A i \in 1..Len(p) : (p \o q)[i] = p[i]
  BY <1>2, <1>4
<1>8. \A i \in 1..Len(q) : (p \o q)[Len(p) + i] = q[i]
  BY <1>2, <1>5
<1>9. \A i \in 1..(Len(p) + Len(q)) : i \notin 1..Len(p) => (p \o q)[i] = q[i - Len(p)]
  BY <1>2, <1>6
<1> QED BY <1>1, <1>6, <1>7, <1>8, <1>9

\* The elements and the length of a part of a sequence.
LEMMA PartAt ==
    ASSUME NEW S, NEW q \in Seq(S), NEW m \in 1..(Len(q) + 1), NEW n \in 0..Len(q), m <= n + 1
    PROVE  /\ SubSeq(q, m, n) \in Seq(S) /\ Len(SubSeq(q, m, n)) = n - m + 1
           /\ \A i \in 1..(n - m + 1) :
                 m + i - 1 \in 1..Len(q) /\ SubSeq(q, m, n)[i] = q[m + i - 1]
<1>1. Len(q) \in Nat
  BY LenProperties
<1>2. /\ SubSeq(q, m, n) = [i \in 1..(n - m + 1) |-> q[i + m - 1]]
      /\ \A i \in 1..(n - m + 1) : i + m - 1 \in 1..Len(q) /\ i + m - 1 = m + i - 1
  BY <1>1
<1>3. \A i \in 1..Len(q) : q[i] \in S
  BY ElementOfSeq
<1>4. n - m + 1 \in Nat
  BY <1>1
<1>5. SubSeq(q, m, n) \in [1..(n - m + 1) -> S]
  BY <1>2, <1>3
<1>6. SubSeq(q, m, n) \in Seq(S) /\ Len(SubSeq(q, m, n)) = n - m + 1
  BY <1>4, <1>5, SeqDef, LenProperties
<1> QED BY <1>2, <1>6

\* Append as a concatenation.
LEMMA AppendAt ==
    ASSUME NEW S, NEW q \in Seq(S), NEW f \in S
    PROVE  /\ Append(q, f) \in Seq(S) /\ Len(Append(q, f)) = Len(q) + 1
           /\ \A i \in 1..Len(q) : Append(q, f)[i] = q[i]
           /\ Append(q, f)[Len(q) + 1] = f
           /\ \A i \in 1..(Len(q) + 1) : i \notin 1..Len(q) => i = Len(q) + 1
<1>1. Len(q) \in Nat
  BY LenProperties
<1> QED BY <1>1, AppendProperties

\* The tail of a sequence.
LEMMA TailAt ==
    ASSUME NEW S, NEW q \in Seq(S), q # <<>>
    PROVE  /\ Head(q) \in S /\ Head(q) = q[1] /\ Tail(q) \in Seq(S)
           /\ Len(q) \in Nat \ {0} /\ Len(Tail(q)) = Len(q) - 1
           /\ \A i \in 1..Len(Tail(q)) : i + 1 \in 1..Len(q) /\ Tail(q)[i] = q[i + 1]
<1>1. Len(q) \in Nat \ {0}
  BY LenProperties, EmptySeq
<1>2. Head(q) \in S /\ Head(q) = q[1] /\ Tail(q) \in Seq(S) /\ Len(Tail(q)) = Len(q) - 1
  BY <1>1, HeadTailProperties, ElementOfSeq
<1>3. \A i \in 1..(Len(q) - 1) : i + 1 \in 1..Len(q) /\ Tail(q)[i] = q[i + 1]
  BY <1>1, HeadTailProperties
<1> QED BY <1>1, <1>2, <1>3

\* Two sequences of one length with the same elements are the same.
LEMMA SameSeq ==
    ASSUME NEW S, NEW p \in Seq(S), NEW q \in Seq(S), Len(p) = Len(q),
           \A i \in 1..Len(q) : p[i] = q[i]
    PROVE  p = q
BY SeqEqual

\* The least of two numbers.
LEMMA MinOfTwo ==
    ASSUME NEW a \in Int, NEW b \in Int
    PROVE  Min({a, b}) = IF a <= b THEN a ELSE b
BY DEF Min

-----------------------------------------------------------------------------
(***************************************************************************)
(* SYNs on the wire                                                        *)
(***************************************************************************)

\* p has no SYN that q has not, and none twice unless q has it twice.
Thins(p, q) ==
    \A id \in StreamId :
        /\ Single(SynAt(q, id)) => Single(SynAt(p, id))
        /\ SynAt(p, id) # {} => SynAt(q, id) # {}

\* A wire that lost frames has lost SYNs, if anything.
LEMMA ThinsBy ==
    ASSUME NEW p \in Seq(WireFrame), NEW q \in Seq(WireFrame),
           NEW m \in [1..Len(p) -> 1..Len(q)],
           \A i, j \in 1..Len(p) : m[i] = m[j] => i = j,
           \A i \in 1..Len(p) : p[i] = q[m[i]]
    PROVE  Thins(p, q)
<1> SUFFICES ASSUME NEW id \in StreamId
             PROVE  /\ Single(SynAt(q, id)) => Single(SynAt(p, id))
                    /\ SynAt(p, id) # {} => SynAt(q, id) # {}
  BY DEF Thins
<1>1. \A i \in SynAt(p, id) : i \in 1..Len(p) /\ m[i] \in SynAt(q, id)
  BY DEF SynAt
<1> QED BY <1>1 DEF Single

\* Thinning twice is thinning.
LEMMA ThinsTrans ==
    ASSUME NEW p, NEW q, NEW r, Thins(p, q), Thins(q, r) PROVE Thins(p, r)
BY DEF Thins

\* A wire is no more than itself.
LEMMA ThinsRefl == \A q : Thins(q, q)
BY DEF Thins

\* A frame that is no SYN adds none.
LEMMA ThinsAppend ==
    ASSUME NEW q \in Seq(WireFrame), NEW f \in WireFrame, ~IsSyn(f)
    PROVE  Thins(Append(q, f), q)
<1> SUFFICES ASSUME NEW id \in StreamId
             PROVE  SynAt(Append(q, f), id) = SynAt(q, id)
  BY DEF Thins
<1>1. /\ Len(q) \in Nat /\ Len(Append(q, f)) = Len(q) + 1
      /\ \A i \in 1..Len(q) : Append(q, f)[i] = q[i]
      /\ Append(q, f)[Len(q) + 1] = f
      /\ \A i \in 1..(Len(q) + 1) : i \notin 1..Len(q) => i = Len(q) + 1
  BY AppendAt, LenProperties
<1>2. ASSUME NEW i \in SynAt(Append(q, f), id) PROVE i \in SynAt(q, id)
  <2>1. i \in 1..(Len(q) + 1) /\ IsSyn(Append(q, f)[i]) /\ Append(q, f)[i].stream_id = id
    BY <1>1 DEF SynAt
  <2>2. i \in 1..Len(q)
    BY <1>1, <2>1
  <2> QED BY <1>1, <2>1, <2>2 DEF SynAt
<1>3. ASSUME NEW i \in SynAt(q, id) PROVE i \in SynAt(Append(q, f), id)
  <2>1. i \in 1..Len(q) /\ i \in 1..(Len(q) + 1)
    BY <1>1 DEF SynAt
  <2> QED BY <1>1, <2>1 DEF SynAt
<1> QED BY <1>2, <1>3

\* A beginning of a wire, or its rest, thins it.
LEMMA ThinsPart ==
    ASSUME NEW q \in Seq(WireFrame), NEW m \in 1..(Len(q) + 1), NEW n \in 0..Len(q), m <= n + 1
    PROVE  Thins(SubSeq(q, m, n), q)
<1> DEFINE p == SubSeq(q, m, n)
           g == [i \in 1..Len(p) |-> m + i - 1]
<1>1. /\ Len(q) \in Nat /\ p \in Seq(WireFrame) /\ Len(p) = n - m + 1
      /\ \A i \in 1..Len(p) : m + i - 1 \in 1..Len(q) /\ p[i] = q[m + i - 1]
  BY PartAt, LenProperties
<1>2. Len(p) \in Nat /\ m \in Nat
  BY <1>1
<1> HIDE DEF p
<1>3. /\ g \in [1..Len(p) -> 1..Len(q)]
      /\ \A i, j \in 1..Len(p) : g[i] = g[j] => i = j
      /\ \A i \in 1..Len(p) : p[i] = q[g[i]]
  BY <1>1, <1>2
<1> HIDE DEF g
<1>4. Thins(p, q)
  BY <1>1, <1>3, ThinsBy
<1> QED BY <1>4 DEF p

\* The sink's part of a wire thins it.
LEMMA ThinsFirst ==
    ASSUME NEW o \in Seq(WireFrame), NEW w \in Seq(WireFrame)
    PROVE  Thins(o, o \o w)
<1> DEFINE g == [i \in 1..Len(o) |-> i]
<1>1. /\ Len(o) \in Nat /\ Len(w) \in Nat /\ o \o w \in Seq(WireFrame)
      /\ Len(o \o w) = Len(o) + Len(w)
      /\ \A i \in 1..Len(o) : (o \o w)[i] = o[i]
  BY ConcatAt, LenProperties
<1>2. /\ g \in [1..Len(o) -> 1..Len(o \o w)]
      /\ \A i, j \in 1..Len(o) : g[i] = g[j] => i = j
      /\ \A i \in 1..Len(o) : o[i] = (o \o w)[g[i]]
  BY <1>1
<1> HIDE DEF g
<1> QED BY <1>1, <1>2, ThinsBy

\* What a dead session does: the first waiting frame is dropped.
LEMMA ThinsDropOne ==
    ASSUME NEW o \in Seq(WireFrame), NEW w \in Seq(WireFrame)
    PROVE  /\ SubSeq(w, 2, Len(w)) \in Seq(WireFrame)
           /\ Thins(o \o SubSeq(w, 2, Len(w)), o \o w)
<1>0. Len(w) \in Nat /\ Len(o) \in Nat
  BY LenProperties
<1>1. CASE w = <<>>
  <2>1. SubSeq(w, 2, Len(w)) = <<>>
    BY <1>0, <1>1, SubSeqEmpty, EmptySeq
  <2> QED BY <1>1, <2>1, ThinsRefl
<1>2. CASE w # <<>>
  <2> DEFINE v == SubSeq(w, 2, Len(w))
             g == [i \in 1..Len(o \o v) |-> IF i <= Len(o) THEN i ELSE i + 1]
  <2>1. Len(w) >= 1
    BY <1>0, <1>2, EmptySeq
  <2>2. /\ v \in Seq(WireFrame) /\ Len(v) = Len(w) - 1
        /\ \A i \in 1..Len(v) : i + 1 \in 1..Len(w) /\ v[i] = w[i + 1]
    <3>1. 2 \in 1..(Len(w) + 1) /\ Len(w) \in 0..Len(w) /\ 2 <= Len(w) + 1
      BY <1>0, <2>1
    <3>2. /\ v \in Seq(WireFrame) /\ Len(v) = Len(w) - 2 + 1
          /\ \A i \in 1..(Len(w) - 2 + 1) : 2 + i - 1 \in 1..Len(w) /\ v[i] = w[2 + i - 1]
      BY <3>1, PartAt
    <3> HIDE DEF v
    <3> QED BY <1>0, <3>2
  <2> HIDE DEF v
  <2>3. /\ o \o v \in Seq(WireFrame) /\ Len(o \o v) = Len(o) + Len(v)
        /\ \A i \in 1..Len(o) : (o \o v)[i] = o[i]
        /\ \A i \in 1..(Len(o) + Len(v)) : i \notin 1..Len(o) =>
              i - Len(o) \in 1..Len(v) /\ (o \o v)[i] = v[i - Len(o)]
    BY <2>2, ConcatAt, ZenonT(60)
  <2>4. /\ o \o w \in Seq(WireFrame) /\ Len(o \o w) = Len(o) + Len(w)
        /\ \A i \in 1..Len(o) : (o \o w)[i] = o[i]
        /\ \A i \in 1..Len(w) : (o \o w)[Len(o) + i] = w[i]
    BY ConcatAt
  <2>5. ASSUME NEW i \in 1..Len(o \o v)
        PROVE  /\ g[i] \in 1..Len(o \o w) /\ (o \o v)[i] = (o \o w)[g[i]]
               /\ g[i] = IF i <= Len(o) THEN i ELSE i + 1
    <3>1. CASE i <= Len(o)
      BY <1>0, <3>1, <2>2, <2>3, <2>4
    <3>2. CASE ~(i <= Len(o))
      <4>1. i - Len(o) \in 1..Len(v) /\ (o \o v)[i] = v[i - Len(o)]
        BY <1>0, <3>2, <2>2, <2>3
      <4>2. v[i - Len(o)] = w[i - Len(o) + 1] /\ i - Len(o) + 1 \in 1..Len(w)
        BY <4>1, <2>2
      <4>3. (o \o w)[Len(o) + (i - Len(o) + 1)] = w[i - Len(o) + 1]
        BY <4>2, <2>4
      <4>4. Len(o) + (i - Len(o) + 1) = i + 1 /\ i + 1 \in 1..Len(o \o w)
        BY <1>0, <2>2, <2>3, <2>4
      <4> QED BY <3>2, <4>1, <4>2, <4>3, <4>4
    <3> QED BY <3>1, <3>2
  <2>6. \A i, j \in 1..Len(o \o v) : g[i] = g[j] => i = j
    BY <1>0, <2>5, <2>3, <2>2
  <2>7. g \in [1..Len(o \o v) -> 1..Len(o \o w)]
    BY <2>5
  <2> HIDE DEF g
  <2>8. Thins(o \o v, o \o w)
    BY <2>3, <2>4, <2>5, <2>6, <2>7, ThinsBy
  <2> QED BY <2>2, <2>8 DEF v
<1> QED BY <1>1, <1>2

-----------------------------------------------------------------------------
(***************************************************************************)
(* The methods of a handle                                                 *)
(***************************************************************************)

\* What a call leaves behind, for a handle g whose SYN has been sent: no other SYN,
\* and no way back from a state in which nothing is received.
OutcomeOK(o, g, e, id) ==
    /\ HandleOK(o.h, e, id) /\ o.h.state # "Init"
    /\ o.frames \in Seq(QueuedFrame)
    /\ o.event \in {"None", "Closed", "GoAway"}
    /\ o.h.state \in ReadableStates => g.state \in ReadableStates

\* The windows of both configurations.
LEMMA WindowBounds ==
    ASSUME NEW e \in Side PROVE max_window_size(e) \in Nat /\ InitialWindow <= max_window_size(e)
                                /\ InitialWindow \in Nat
BY SessionAssumption, WindowAssumption DEF max_window_size

\* Stream ids are numbers.
LEMMA IdIsNat == StreamId \subseteq Nat /\ MaxStreamId \in Nat
BY SessionAssumption DEF StreamId

\* A sequence of one frame, or of none.
LEMMA OneFrame ==
    ASSUME NEW S
    PROVE  <<>> \in Seq(S) /\ \A f \in S : <<f>> \in Seq(S)
OBVIOUS

\* A frame with neither SYN nor a foreign id can wait anywhere.
LEMMA PlainFrame ==
    ASSUME NEW id \in StreamId, NEW n \in Nat, NEW m \in Nat, NEW F \in SUBSET (Flag \ {"Syn"})
    PROVE  new_data(F, id, n, m) \in QueuedFrame /\ new_window_update(F, id, n, m) \in QueuedFrame
BY IdIsNat DEF new_data, new_window_update, QueuedFrame, StreamFrame, Frame, Flag

\* get_flags and the state it leaves.
LEMMA FlaggedHandle ==
    ASSUME NEW e \in Side, NEW id \in StreamId, NEW g, HandleOK(g, e, id), g.state # "Init"
    PROVE  /\ get_flags(g) \in SUBSET (Flag \ {"Syn"})
           /\ HandleOK(Flagged(g), e, id) /\ Flagged(g).state # "Init"
           /\ Flagged(g).state \in ReadableStates <=> g.state \in ReadableStates
           /\ Flagged(g) = [g EXCEPT !.state = Flagged(g).state]
<1>1. get_flags(g) \in SUBSET (Flag \ {"Syn"})
  BY DEF get_flags, Flag
<1>2. PICK st \in StreamState : /\ Flagged(g) = [g EXCEPT !.state = st] /\ st # "Init"
                                /\ st \in ReadableStates <=> g.state \in ReadableStates
  <2>1. g.state \in StreamState
    BY DEF HandleOK, StreamHandle
  <2>2. CASE g.state = "SynReceived"
    BY <2>2 DEF Flagged, StreamState, ReadableStates, OpenStates
  <2>3. CASE g.state # "SynReceived"
    BY <2>1, <2>3 DEF Flagged, HandleOK, StreamHandle
  <2> QED BY <2>2, <2>3
<1>3. HandleOK(Flagged(g), e, id)
  BY <1>2 DEF HandleOK, StreamHandle
<1> QED BY <1>1, <1>2, <1>3 DEF HandleOK, StreamHandle

\* The parts of an outcome.
LEMMA OutcomeIs ==
    ASSUME NEW e, NEW id, NEW g, NEW k, NEW q \in Seq(QueuedFrame), NEW v \in {"None", "Closed", "GoAway"},
           HandleOK(k, e, id), k.state # "Init",
           k.state \in ReadableStates => g.state \in ReadableStates
    PROVE  OutcomeOK(Outcome(k, q, v), g, e, id)
<1>1. Outcome(k, q, v).h = k /\ Outcome(k, q, v).frames = q /\ Outcome(k, q, v).event = v
  BY DEF Outcome
<1> QED BY <1>1 DEF OutcomeOK

\* send_window_update grants what is free, never a negative amount.
LEMMA WindowUpdateOutcome ==
    ASSUME NEW e \in Side, NEW id \in StreamId, NEW g, HandleOK(g, e, id), g.state # "Init"
    PROVE  OutcomeOK(send_window_update(g), g, e, id) /\ send_window_update(g).event = "None"
<1>1. /\ get_flags(g) \in SUBSET (Flag \ {"Syn"})
      /\ HandleOK(Flagged(g), e, id) /\ Flagged(g).state # "Init"
      /\ Flagged(g).state \in ReadableStates <=> g.state \in ReadableStates
      /\ Flagged(g) = [g EXCEPT !.state = Flagged(g).state]
  BY FlaggedHandle
<1> DEFINE k == Flagged(g)
<1> HIDE DEF k
<1>2. /\ g \in StreamHandle /\ g.id = id /\ delta(g) \in Nat
      /\ g.recv_window + delta(g) + g.read_buf = g.max_recv_window
  BY DEF HandleOK, StreamHandle, delta
<1>3. k.recv_window = g.recv_window /\ k \in StreamHandle /\ k.read_buf = g.read_buf
      /\ k.max_recv_window = g.max_recv_window /\ k.id = id
      /\ k.max_recv_window = max_window_size(e)
  BY <1>1, <1>2 DEF HandleOK, StreamHandle, k
<1> DEFINE d == delta(g)
           k2 == [k EXCEPT !.recv_window = @ + d]
           w == new_window_update(get_flags(g), g.id, d, g.rcvd + g.recv_window + d)
<1> HIDE DEF d
<1>4. HandleOK(k2, e, id) /\ k2.state = k.state
  BY <1>2, <1>3 DEF HandleOK, StreamHandle, d
<1>5. w \in QueuedFrame
  <2> DEFINE n == g.rcvd + g.recv_window + d
  <2>1. d \in Nat /\ n \in Nat /\ g.id = id
    BY <1>2 DEF StreamHandle, d
  <2> HIDE DEF n
  <2>2. new_window_update(get_flags(g), id, d, n) \in QueuedFrame
    BY <1>1, <2>1, PlainFrame
  <2> QED BY <2>1, <2>2 DEF n
<1> HIDE DEF k2, w
<1>6. \/ send_window_update(g) = Outcome(k, <<>>, "None")
      \/ send_window_update(g) = Outcome(k2, <<w>>, "None")
  BY DEF send_window_update, k, k2, w, d
<1>7. <<>> \in Seq(QueuedFrame) /\ <<w>> \in Seq(QueuedFrame)
  BY <1>5, OneFrame
<1>8. HandleOK(k, e, id) /\ k.state # "Init" /\ (k.state \in ReadableStates <=> g.state \in ReadableStates)
  BY <1>1 DEF k
<1>9. OutcomeOK(Outcome(k, <<>>, "None"), g, e, id) /\ OutcomeOK(Outcome(k2, <<w>>, "None"), g, e, id)
  BY <1>4, <1>7, <1>8, OutcomeIs
<1>10. Outcome(k, <<>>, "None").event = "None" /\ Outcome(k2, <<w>>, "None").event = "None"
  BY DEF Outcome
<1> QED BY <1>6, <1>9, <1>10

\* The first window update of a new handle, which announces it.
LEMMA NewHandleOutcome ==
    ASSUME NEW e \in Side, NEW id \in StreamId, NEW st \in {"Init", "SynReceived"}
    PROVE  LET o == send_window_update(NewHandle(id, st, max_window_size(e))) IN
           /\ HandleOK(o.h, e, id) /\ o.h.state # "Init" /\ o.event = "None"
           /\ \E f \in StreamFrame : /\ o.frames = <<f>> /\ f.stream_id = id
                                     /\ "Syn" \in f.flags <=> st = "Init"
<1> DEFINE g == NewHandle(id, st, max_window_size(e))
           d == max_window_size(e) - InitialWindow
           k == [Flagged(g) EXCEPT !.recv_window = @ + d]
           F == IF st = "Init" THEN {"Syn"} ELSE {"Ack"}
           f == new_window_update(F, id, d, InitialWindow + d)
<1>1. max_window_size(e) \in Nat /\ InitialWindow <= max_window_size(e) /\ InitialWindow \in Nat
      /\ d \in Nat /\ id \in Nat
  BY WindowBounds, IdIsNat
<1>2. delta(g) = d /\ get_flags(g) = F /\ g.rcvd + g.recv_window + delta(g) = InitialWindow + d
  BY <1>1 DEF delta, NewHandle, get_flags
<1>3. /\ g \in StreamHandle /\ g.id = id /\ g.max_recv_window = max_window_size(e)
      /\ g.recv_window = InitialWindow /\ g.read_buf = 0 /\ g.state = st
  BY <1>1 DEF NewHandle, StreamHandle, StreamState
<1>4. send_window_update(g) = Outcome(k, <<f>>, "None")
  <2>1. get_flags(g) # {} /\ g.id = id
    BY <1>2 DEF NewHandle
  <2>2. send_window_update(g) =
          Outcome([Flagged(g) EXCEPT !.recv_window = @ + delta(g)],
                 <<new_window_update(get_flags(g), g.id, delta(g),
                                     g.rcvd + g.recv_window + delta(g))>>, "None")
    BY <2>1 DEF send_window_update
  <2> HIDE DEF g, k, d, F
  <2> QED BY <1>2, <2>1, <2>2 DEF k
<1>5. k \in StreamHandle /\ k.id = id /\ k.max_recv_window = max_window_size(e)
      /\ k.recv_window + k.read_buf <= k.max_recv_window /\ k.state # "Init"
  <2> DEFINE j == Flagged(g)
  <2> HIDE DEF g
  <2>1. PICK ns \in {"SynSent", "Established"} : j = [g EXCEPT !.state = ns]
    <3>1. CASE st = "Init"
      BY <1>3, <3>1 DEF Flagged
    <3>2. CASE st = "SynReceived"
      BY <1>3, <3>2 DEF Flagged
    <3> QED BY <3>1, <3>2
  <2> HIDE DEF j
  <2>2. /\ j \in StreamHandle /\ j.id = id /\ j.max_recv_window = max_window_size(e)
        /\ j.recv_window = InitialWindow /\ j.read_buf = 0 /\ j.state = ns
    BY <1>3, <2>1 DEF StreamHandle, StreamState
  <2>3. k = [j EXCEPT !.recv_window = InitialWindow + d]
    BY <2>2 DEF j
  <2>4. InitialWindow + d \in Nat /\ InitialWindow + d + 0 <= max_window_size(e)
    BY <1>1
  <2> HIDE DEF d, k
  <2> QED BY <2>2, <2>3, <2>4 DEF StreamHandle
<1>6. f \in StreamFrame /\ f.stream_id = id /\ ("Syn" \in f.flags <=> st = "Init")
  BY <1>1 DEF new_window_update, StreamFrame, Frame, Flag
<1> HIDE DEF g, k, f
<1>7. LET o == send_window_update(g) IN
      /\ HandleOK(o.h, e, id) /\ o.h.state # "Init" /\ o.event = "None"
      /\ \E x \in StreamFrame : /\ o.frames = <<x>> /\ x.stream_id = id
                                /\ "Syn" \in x.flags <=> st = "Init"
  BY <1>4, <1>5, <1>6 DEF Outcome, HandleOK
<1> QED BY <1>7 DEF g

\* A handle after Data was received, bytes were read, credit was received, bytes written.
Filled(k, a, b, c) == [k EXCEPT !.read_buf = a, !.rcvd = b, !.recv_window = c]

Emptied(k, a, b) == [k EXCEPT !.read_buf = a, !.read = b]

Granted(k, a) == [k EXCEPT !.send_window = a, !.writeable_wake = FALSE]

Charged(k, a, b) == [k EXCEPT !.send_window = a, !.sent = b]

\* A handle with other counters.
LEMMA HandleCounters ==
    ASSUME NEW e \in Side, NEW id \in StreamId, NEW k, HandleOK(k, e, id),
           NEW a \in Nat, NEW b \in Nat, NEW c \in Nat
    PROVE  /\ c + a <= k.max_recv_window =>
                HandleOK(Filled(k, a, b, c), e, id) /\ Filled(k, a, b, c).state = k.state
           /\ a <= k.read_buf => HandleOK(Emptied(k, a, b), e, id) /\ Emptied(k, a, b).state = k.state
           /\ HandleOK(Granted(k, a), e, id) /\ Granted(k, a).state = k.state
           /\ HandleOK(Charged(k, a, b), e, id) /\ Charged(k, a, b).state = k.state
<1>1. /\ k \in StreamHandle /\ k.id = id /\ k.max_recv_window = max_window_size(e)
      /\ k.recv_window + k.read_buf <= k.max_recv_window
      /\ k.recv_window \in Nat /\ k.read_buf \in Nat /\ k.max_recv_window \in Nat
  BY DEF HandleOK, StreamHandle
<1> DEFINE g1 == Filled(k, a, b, c)
           g2 == Emptied(k, a, b)
           g3 == Granted(k, a)
           g4 == Charged(k, a, b)
<1>2. /\ g1 \in StreamHandle /\ g1.id = k.id /\ g1.max_recv_window = k.max_recv_window
      /\ g1.recv_window = c /\ g1.read_buf = a /\ g1.state = k.state
  BY <1>1 DEF StreamHandle, Filled
<1>3. /\ g2 \in StreamHandle /\ g2.id = k.id /\ g2.max_recv_window = k.max_recv_window
      /\ g2.recv_window = k.recv_window /\ g2.read_buf = a /\ g2.state = k.state
  BY <1>1 DEF StreamHandle, Emptied
<1>4. /\ g3 \in StreamHandle /\ g3.id = k.id /\ g3.max_recv_window = k.max_recv_window
      /\ g3.recv_window = k.recv_window /\ g3.read_buf = k.read_buf /\ g3.state = k.state
  BY <1>1 DEF StreamHandle, Granted
<1>5. /\ g4 \in StreamHandle /\ g4.id = k.id /\ g4.max_recv_window = k.max_recv_window
      /\ g4.recv_window = k.recv_window /\ g4.read_buf = k.read_buf /\ g4.state = k.state
  BY <1>1 DEF StreamHandle, Charged
<1> HIDE DEF g1, g2, g3, g4
<1>6. c + a <= k.max_recv_window => HandleOK(g1, e, id) /\ g1.state = k.state
  BY <1>1, <1>2 DEF HandleOK
<1>7. a <= k.read_buf => HandleOK(g2, e, id) /\ g2.state = k.state
  BY <1>1, <1>3 DEF HandleOK
<1>8. HandleOK(g3, e, id) /\ g3.state = k.state /\ HandleOK(g4, e, id) /\ g4.state = k.state
  BY <1>1, <1>4, <1>5 DEF HandleOK
<1> QED BY <1>6, <1>7, <1>8 DEF g1, g2, g3, g4

\* A frame taken from the channel.
LEMMA FrameOutcome ==
    ASSUME NEW e \in Side, NEW id \in StreamId, NEW g, HandleOK(g, e, id), g.state # "Init",
           CanRecv(g), NEW f \in Frame
    PROVE  OutcomeOK(handle_frame(g, f), g, e, id) /\ handle_frame(g, f).event # "Closed"
<1>1. /\ g \in StreamHandle /\ g.id = id /\ g.state \in ReadableStates /\ g.read_buf = 0
      /\ g.max_recv_window = max_window_size(e) /\ g.recv_window <= g.max_recv_window
      /\ f.flags \in SUBSET Flag /\ f.length \in Nat /\ f.upto \in Nat /\ f.ty \in {"Data", "WindowUpdate"}
  BY DEF HandleOK, CanRecv, StreamHandle, Frame
<1> DEFINE k == WithFlags(g, f)
<1>2. /\ k \in StreamHandle /\ k.id = id /\ k.state # "Init" /\ k.read_buf = 0
      /\ k.max_recv_window = max_window_size(e) /\ k.recv_window = g.recv_window
      /\ k.send_window = g.send_window
  <2>1. process_flags(g.state, f.flags) \in StreamState \ {"Init"}
    BY <1>1 DEF process_flags, StreamHandle, StreamState
  <2> DEFINE st == process_flags(g.state, f.flags)
             b == g.fin \/ "Fin" \in f.flags
  <2>2. k = [g EXCEPT !.state = st, !.fin = b] /\ b \in BOOLEAN
    BY DEF WithFlags
  <2> HIDE DEF k, st, b
  <2>3. st \in StreamState /\ st # "Init"
    BY <2>1 DEF st
  <2> QED BY <1>1, <2>2, <2>3 DEF StreamHandle
<1> HIDE DEF k
<1>0. HandleOK(k, e, id)
  BY <1>1, <1>2 DEF HandleOK, StreamHandle
<1>3. <<>> \in Seq(QueuedFrame)
  BY OneFrame
<1>4. CASE FrameError(g, f)
  <2> DEFINE k2 == [k EXCEPT !.state = "LocalClosing"]
  <2>1. handle_frame(g, f) = Outcome(k2, <<>>, "GoAway")
    BY <1>4 DEF handle_frame, k
  <2>2. HandleOK(k2, e, id) /\ k2.state # "Init"
    BY <1>1, <1>2 DEF HandleOK, StreamHandle, StreamState
  <2> HIDE DEF k2
  <2>3. OutcomeOK(Outcome(k2, <<>>, "GoAway"), g, e, id)
    BY <1>1, <1>3, <2>2, OutcomeIs
  <2> QED BY <2>1, <2>3 DEF Outcome
<1>5. CASE ~FrameError(g, f) /\ f.ty = "Data"
  <2> DEFINE k2 == Filled(k, f.length, f.upto, k.recv_window - f.length)
  <2>1. handle_frame(g, f) = Outcome(k2, <<>>, "None")
    BY <1>5 DEF handle_frame, handle_data, k, Filled
  <2>2. f.length <= g.recv_window
    BY <1>1, <1>5 DEF FrameError, StreamHandle
  <2>3. g.recv_window - f.length \in Nat /\ g.recv_window - f.length + f.length = g.recv_window
    BY <1>1, <2>2 DEF StreamHandle
  <2> DEFINE n == k.recv_window - f.length
  <2>4. n \in Nat /\ n + f.length <= k.max_recv_window
    BY <1>1, <1>2, <2>3
  <2> HIDE DEF n
  <2>5. HandleOK(k2, e, id) /\ k2.state # "Init"
    <3> DEFINE a == f.length
               b == f.upto
    <3>1. a \in Nat /\ b \in Nat /\ n \in Nat /\ n + a <= k.max_recv_window
      BY <1>1, <2>4
    <3> HIDE DEF a, b
    <3>2. HandleOK(Filled(k, a, b, n), e, id) /\ Filled(k, a, b, n).state = k.state
      BY <1>0, <3>1, HandleCounters
    <3> QED BY <1>2, <3>2 DEF n, a, b
  <2> HIDE DEF k2
  <2>6. OutcomeOK(Outcome(k2, <<>>, "None"), g, e, id)
    BY <1>1, <1>3, <2>5, OutcomeIs
  <2> QED BY <2>1, <2>6 DEF Outcome
<1>6. CASE ~FrameError(g, f) /\ f.ty # "Data"
  <2> DEFINE k2 == Granted(k, k.send_window + f.length)
  <2>1. handle_frame(g, f) = Outcome(k2, <<>>, "None")
    BY <1>6 DEF handle_frame, handle_window_update, k, Granted
  <2> DEFINE n == k.send_window + f.length
  <2>0. n \in Nat
    BY <1>1, <1>2 DEF StreamHandle
  <2> HIDE DEF n
  <2>2. HandleOK(k2, e, id) /\ k2.state # "Init"
    BY <1>0, <1>2, <2>0, HandleCounters DEF n
  <2> HIDE DEF k2
  <2>3. OutcomeOK(Outcome(k2, <<>>, "None"), g, e, id)
    BY <1>1, <1>3, <2>2, OutcomeIs
  <2> QED BY <2>1, <2>3 DEF Outcome
<1> QED BY <1>4, <1>5, <1>6

\* The channel is disconnected; n bytes are read; a write finds no room, or no session.
LEMMA QuietOutcomes ==
    ASSUME NEW e \in Side, NEW id \in StreamId, NEW g, HandleOK(g, e, id), g.state # "Init"
    PROVE  /\ OutcomeOK(Disconnected(g), g, e, id) /\ Disconnected(g).event = "None"
           /\ OutcomeOK(PollWriteBroken(g), g, e, id) /\ PollWriteBroken(g).event = "None"
           /\ OutcomeOK(PollWritePending(g), g, e, id) /\ PollWritePending(g).event = "None"
           /\ \A n \in 0..g.read_buf :
                 OutcomeOK(poll_read(g, n), g, e, id) /\ poll_read(g, n).event = "None"
<1>1. g \in StreamHandle /\ g.id = id /\ g.max_recv_window = max_window_size(e)
      /\ g.recv_window + g.read_buf <= g.max_recv_window
  BY DEF HandleOK
<1>2. <<>> \in Seq(QueuedFrame)
  BY OneFrame
<1>3. OutcomeOK(Disconnected(g), g, e, id) /\ Disconnected(g).event = "None"
  <2> DEFINE k == [g EXCEPT !.state = "RemoteClosing"]
  <2>1. HandleOK(k, e, id) /\ k.state = "RemoteClosing"
    BY <1>1 DEF HandleOK, StreamHandle, StreamState
  <2>2. Disconnected(g) = Outcome(k, <<>>, "None")
    BY DEF Disconnected
  <2> HIDE DEF k
  <2>3. OutcomeOK(Outcome(k, <<>>, "None"), g, e, id)
    BY <1>2, <2>1, OutcomeIs DEF ReadableStates, OpenStates
  <2> QED BY <2>2, <2>3 DEF Outcome
<1>4. OutcomeOK(PollWriteBroken(g), g, e, id) /\ PollWriteBroken(g).event = "None"
  <2>1. OutcomeOK(Outcome(Flagged(g), <<>>, "None"), g, e, id)
    BY <1>2, FlaggedHandle, OutcomeIs
  <2> QED BY <2>1 DEF PollWriteBroken, Outcome
<1>5. OutcomeOK(PollWritePending(g), g, e, id) /\ PollWritePending(g).event = "None"
  <2> DEFINE k == [g EXCEPT !.writeable_wake = TRUE]
  <2>1. HandleOK(k, e, id) /\ k.state = g.state
    BY <1>1 DEF HandleOK, StreamHandle
  <2>2. PollWritePending(g) = Outcome(k, <<>>, "None")
    BY DEF PollWritePending
  <2> HIDE DEF k
  <2>3. OutcomeOK(Outcome(k, <<>>, "None"), g, e, id)
    BY <1>2, <2>1, OutcomeIs
  <2> QED BY <2>2, <2>3 DEF Outcome
<1>6. ASSUME NEW n \in 0..g.read_buf
      PROVE  OutcomeOK(poll_read(g, n), g, e, id) /\ poll_read(g, n).event = "None"
  <2> DEFINE k == Emptied(g, g.read_buf - n, g.read + n)
  <2> DEFINE a == g.read_buf - n
             b == g.read + n
  <2>0. a \in Nat /\ a <= g.read_buf /\ b \in Nat
    BY <1>1 DEF StreamHandle
  <2> HIDE DEF a, b
  <2>1. HandleOK(k, e, id) /\ k.state = g.state
    BY <2>0, HandleCounters DEF a, b
  <2>2. \/ poll_read(g, n) = Outcome(k, <<>>, "None")
        \/ poll_read(g, n) = send_window_update(k)
    BY DEF poll_read, Emptied
  <2> HIDE DEF k
  <2>3. OutcomeOK(Outcome(k, <<>>, "None"), g, e, id) /\ Outcome(k, <<>>, "None").event = "None"
    BY <1>2, <2>1, OutcomeIs DEF Outcome
  <2>4. OutcomeOK(send_window_update(k), k, e, id) /\ send_window_update(k).event = "None"
    BY <2>1, WindowUpdateOutcome
  <2>5. OutcomeOK(send_window_update(k), g, e, id)
    BY <2>1, <2>4 DEF OutcomeOK
  <2> QED BY <2>2, <2>3, <2>4, <2>5
<1> QED BY <1>3, <1>4, <1>5, <1>6

\* poll_write charges its own window.
LEMMA WriteOutcome ==
    ASSUME NEW e \in Side, NEW id \in StreamId, NEW g, HandleOK(g, e, id), g.state # "Init",
           NEW n \in 0..g.send_window
    PROVE  OutcomeOK(poll_write(g, n), g, e, id) /\ poll_write(g, n).event = "None"
<1> DEFINE j == Flagged(g)
           k == Charged(j, j.send_window - n, j.sent + n)
           f == new_data(get_flags(g), g.id, n, g.sent + n)
<1>1. /\ get_flags(g) \in SUBSET (Flag \ {"Syn"})
      /\ HandleOK(j, e, id) /\ j.state # "Init"
      /\ j.state \in ReadableStates <=> g.state \in ReadableStates
      /\ j = [g EXCEPT !.state = j.state]
  BY FlaggedHandle
<1>2. g \in StreamHandle /\ g.id = id /\ n \in Nat /\ g.sent + n \in Nat
  BY DEF HandleOK, StreamHandle
<1> HIDE DEF j
<1>3. j.send_window = g.send_window
  BY <1>1, <1>2 DEF StreamHandle
<1>4. HandleOK(k, e, id) /\ k.state = j.state
  <2> DEFINE a == j.send_window - n
             b == j.sent + n
  <2>1. a \in Nat /\ b \in Nat
    BY <1>1, <1>2, <1>3 DEF HandleOK, StreamHandle
  <2> HIDE DEF a, b
  <2> QED BY <1>1, <2>1, HandleCounters DEF a, b
<1>5. f \in QueuedFrame
  <2> DEFINE m == g.sent + n
  <2> HIDE DEF m
  <2>1. new_data(get_flags(g), id, n, m) \in QueuedFrame
    BY <1>1, <1>2, PlainFrame DEF m
  <2> QED BY <1>2, <2>1 DEF m
<1>6. poll_write(g, n) = Outcome(k, <<f>>, "None")
  BY DEF poll_write, j, Charged
<1> HIDE DEF k, f
<1>7. OutcomeOK(Outcome(k, <<f>>, "None"), g, e, id)
  BY <1>1, <1>4, <1>5, OneFrame, OutcomeIs
<1> QED BY <1>6, <1>7 DEF Outcome

\* poll_shutdown: the session is told to forget the stream when it is closed.
LEMMA CloseOutcome ==
    ASSUME NEW e \in Side, NEW id \in StreamId, NEW g, HandleOK(g, e, id), g.state # "Init"
    PROVE  /\ OutcomeOK(close(g), g, e, id)
           /\ close(g).event = "Closed" => close(g).h.state \notin ReadableStates
<1>1. g \in StreamHandle /\ g.id = id /\ g.max_recv_window = max_window_size(e)
      /\ g.recv_window + g.read_buf <= g.max_recv_window
      /\ g.rcvd + g.recv_window \in Nat
  BY DEF HandleOK, StreamHandle
<1> DEFINE a == [g EXCEPT !.state = "LocalClosing"]
           b == [g EXCEPT !.state = "Closed"]
           f == new_window_update({"Fin"}, g.id, 0, g.rcvd + g.recv_window)
<1>2. HandleOK(a, e, id) /\ a.state = "LocalClosing" /\ HandleOK(b, e, id) /\ b.state = "Closed"
  BY <1>1 DEF HandleOK, StreamHandle, StreamState
<1>3. f \in QueuedFrame
  <2> DEFINE m == g.rcvd + g.recv_window
  <2>0. {"Fin"} \in SUBSET (Flag \ {"Syn"})
    BY DEF Flag
  <2> HIDE DEF m
  <2>1. new_window_update({"Fin"}, id, 0, m) \in QueuedFrame
    BY <1>1, <2>0, PlainFrame DEF m
  <2> QED BY <1>1, <2>1 DEF m
<1>4. \/ close(g) = Outcome(a, <<f>>, "None") /\ g.state \in OpenStates
      \/ close(g) = Outcome(b, <<f>>, "Closed")
      \/ close(g) = Outcome(b, <<>>, "Closed")
  <2>1. CASE g.state \in OpenStates
    BY <2>1 DEF close, send_close, OpenStates
  <2>2. CASE g.state = "RemoteClosing"
    BY <2>2 DEF close, send_close, OpenStates
  <2>3. CASE g.state \notin OpenStates /\ g.state # "RemoteClosing"
    BY <2>3 DEF close
  <2> QED BY <2>1, <2>2, <2>3
<1> HIDE DEF a, b, f
<1>5. <<>> \in Seq(QueuedFrame) /\ <<f>> \in Seq(QueuedFrame)
  BY <1>3, OneFrame
<1>6. g.state \in OpenStates => OutcomeOK(Outcome(a, <<f>>, "None"), g, e, id)
  BY <1>2, <1>5, OutcomeIs DEF ReadableStates
<1>7. /\ OutcomeOK(Outcome(b, <<f>>, "Closed"), g, e, id) /\ OutcomeOK(Outcome(b, <<>>, "Closed"), g, e, id)
      /\ b.state \notin ReadableStates
  BY <1>2, <1>5, OutcomeIs DEF ReadableStates, OpenStates
<1> QED BY <1>4, <1>6, <1>7 DEF Outcome

\* The handle is dropped.
LEMMA DropOutcome ==
    ASSUME NEW e \in Side, NEW id \in StreamId, NEW g, HandleOK(g, e, id), g.state # "Init"
    PROVE  OutcomeOK(drop(g), g, e, id) /\ OutcomeOK(Outcome(g, <<>>, "None"), g, e, id)
<1>1. g \in StreamHandle /\ g.id = id /\ g.rcvd + g.recv_window \in Nat
  BY DEF HandleOK, StreamHandle
<1> DEFINE F == get_flags(g) \cup {"Rst"}
           f == new_window_update(F, g.id, 0, g.rcvd + g.recv_window)
<1>2. /\ get_flags(g) \in SUBSET (Flag \ {"Syn"})
      /\ HandleOK(Flagged(g), e, id) /\ Flagged(g).state # "Init"
      /\ Flagged(g).state \in ReadableStates <=> g.state \in ReadableStates
  BY FlaggedHandle
<1>3. F \in SUBSET (Flag \ {"Syn"})
  BY <1>2 DEF Flag
<1>4. f \in QueuedFrame
  <2> DEFINE m == g.rcvd + g.recv_window
  <2> HIDE DEF m, F
  <2>1. new_window_update(F, id, 0, m) \in QueuedFrame
    BY <1>1, <1>3, PlainFrame DEF m
  <2> QED BY <1>1, <2>1 DEF m
<1>5. \/ drop(g) = Outcome(g, <<>>, "None")
      \/ drop(g) = Outcome(g, <<>>, "Closed")
      \/ drop(g) = Outcome(Flagged(g), <<f>>, "Closed")
  <2>1. CASE g.state = "Closed"
    BY <2>1 DEF drop
  <2>2. CASE g.state \in {"LocalClosing", "Reset"}
    BY <2>2 DEF drop
  <2>3. CASE g.state \notin {"Closed", "LocalClosing", "Reset"}
    BY <2>3 DEF drop
  <2> QED BY <2>1, <2>2, <2>3
<1> HIDE DEF f
<1>6. <<>> \in Seq(QueuedFrame) /\ <<f>> \in Seq(QueuedFrame)
  BY <1>4, OneFrame
<1>7. OutcomeOK(Outcome(g, <<>>, "None"), g, e, id) /\ OutcomeOK(Outcome(g, <<>>, "Closed"), g, e, id)
  BY <1>6, OutcomeIs
<1>8. OutcomeOK(Outcome(Flagged(g), <<f>>, "Closed"), g, e, id)
  BY <1>2, <1>6, OutcomeIs
<1> QED BY <1>5, <1>7, <1>8

-----------------------------------------------------------------------------
(***************************************************************************)
(* The methods of a session                                                *)
(***************************************************************************)

\* What no sending touches ...
SameStreams(t, s) ==
    /\ t.h = s.h /\ t.life = s.life /\ t.next_stream_id = s.next_stream_id
    /\ t.events = s.events /\ t.ended = s.ended

SameInput(t, s) ==
    t.streams = s.streams /\ t.chan = s.chan /\ t.read_pending_frames = s.read_pending_frames

SameControl(t, s) ==
    /\ t.eof = s.eof /\ t.local_go_away = s.local_go_away /\ t.remote_go_away = s.remote_go_away
    /\ t.pings = s.pings /\ t.ping_id = s.ping_id

\* ... and the types of what it does.
WireOK(s) ==
    /\ s.out \in Seq(WireFrame) /\ Len(s.out) <= SinkCap
    /\ s.write_pending_frames \in Seq(WireFrame)

\* The session s has sent: its wire was q, and a dead session may lose some of it.
Sent(t, s, q) ==
    /\ t \in Session /\ WireOK(t)
    /\ SameStreams(t, s) /\ SameInput(t, s) /\ SameControl(t, s)
    /\ Thins(Wire(t), q)
    /\ ~is_dead(s) => Wire(t) = q

\* The wire frames are frames.
LEMMA WireFrames == WireFrame \subseteq SessionFrame /\ Seq(WireFrame) \subseteq Seq(SessionFrame)
BY SeqMonotonic DEF WireFrame

\* The session with other queues.
Rewired(s, o, w) == [s EXCEPT !.out = o, !.write_pending_frames = w]

\* Replacing the two queues of a session.
LEMMA WithWire ==
    ASSUME NEW s \in Session, NEW o \in Seq(WireFrame), NEW w \in Seq(WireFrame)
    PROVE  LET t == Rewired(s, o, w) IN
           /\ t \in Session /\ t.out = o /\ t.write_pending_frames = w
           /\ SameStreams(t, s) /\ SameInput(t, s) /\ SameControl(t, s)
<1>1. o \in Seq(SessionFrame) /\ w \in Seq(SessionFrame)
  BY WireFrames
<1> QED BY <1>1 DEF Session, SameStreams, SameInput, SameControl, Rewired

\* send_all moves frames along the wire.
LEMMA SendAllSent ==
    ASSUME NEW s \in Session, WireOK(s)
    PROVE  Sent(send_all(s), s, Wire(s))
<1> DEFINE q == s.write_pending_frames
           o == s.out
           k == Min({Len(q), SinkCap - Len(o)})
<1>1. /\ o \in Seq(WireFrame) /\ q \in Seq(WireFrame) /\ Len(o) <= SinkCap
      /\ Len(o) \in Nat /\ Len(q) \in Nat /\ SinkCap \in Nat
  BY LenProperties, SessionAssumption DEF WireOK
<1>2. CASE is_dead(s)
  <2> DEFINE w == SubSeq(q, 2, Len(q))
             t == Rewired(s, o, w)
  <2>1. w \in Seq(WireFrame) /\ Thins(o \o w, o \o q)
    BY <1>1, ThinsDropOne
  <2>2. send_all(s) = t
    BY <1>2 DEF send_all, Session, Rewired
  <2> HIDE DEF w
  <2>3. /\ t \in Session /\ t.out = o /\ t.write_pending_frames = w
        /\ SameStreams(t, s) /\ SameInput(t, s) /\ SameControl(t, s)
    BY <1>1, <2>1, WithWire
  <2> HIDE DEF t, q, o
  <2>4. WireOK(t) /\ Thins(Wire(t), Wire(s))
    BY <1>1, <2>1, <2>3 DEF WireOK, Wire, q, o
  <2> QED BY <1>2, <2>2, <2>3, <2>4 DEF Sent
<1>3. CASE ~is_dead(s)
  <2>1. k \in 0..Len(q) /\ k <= SinkCap - Len(o)
    <3> DEFINE x == SinkCap - Len(o)
               y == Len(q)
    <3>1. x \in Int /\ y \in Int /\ 0 <= x /\ 0 <= y
      BY <1>1
    <3> HIDE DEF x, y
    <3>2. Min({y, x}) = IF y <= x THEN y ELSE x
      BY <3>1, MinOfTwo
    <3>3. Min({y, x}) \in 0..y /\ Min({y, x}) <= x
      BY <3>1, <3>2
    <3> QED BY <3>3 DEF x, y
  <2> DEFINE a == SubSeq(q, 1, k)
             b == SubSeq(q, k + 1, Len(q))
             t == Rewired(s, o \o a, b)
  <2>2. send_all(s) = t
    BY <1>3 DEF send_all, Rewired
  <2> HIDE DEF k
  <2>3. /\ a \in Seq(WireFrame) /\ Len(a) = k
        /\ b \in Seq(WireFrame) /\ a \o b = q
    <3>1. 1 \in 1..(Len(q) + 1) /\ k \in 0..Len(q) /\ 1 <= k + 1 /\ k - 1 + 1 = k
      BY <1>1, <2>1
    <3>2. a \in Seq(WireFrame) /\ Len(a) = k
      BY <1>1, <3>1, PartAt
    <3>3. k + 1 \in 1..(Len(q) + 1) /\ Len(q) \in 0..Len(q) /\ k + 1 <= Len(q) + 1
      BY <1>1, <2>1
    <3>4. b \in Seq(WireFrame)
      BY <1>1, <3>3, PartAt
    <3>5. a \o b = SubSeq(q, 1, Len(q))
      <4>1. k \in 1 - 1..Len(q) /\ Len(q) \in k..Len(q)
        BY <1>1, <2>1
      <4> QED BY <1>1, <3>1, <4>1, ConcatAdjacentSubSeq
    <3>6. SubSeq(q, 1, Len(q)) = q
      BY <1>1, SubSeqFull
    <3> QED BY <3>2, <3>4, <3>5, <3>6
  <2> HIDE DEF a, b
  <2>4. o \o a \in Seq(WireFrame) /\ Len(o \o a) = Len(o) + k /\ Len(o \o a) <= SinkCap
    <3>1. o \o a \in Seq(WireFrame) /\ Len(o \o a) = Len(o) + Len(a)
      BY <1>1, <2>3, ConcatAt
    <3> QED BY <1>1, <2>1, <2>3, <3>1
  <2> DEFINE p == o \o a
  <2> HIDE DEF p
  <2>5. /\ t \in Session /\ t.out = p /\ t.write_pending_frames = b
        /\ SameStreams(t, s) /\ SameInput(t, s) /\ SameControl(t, s)
    <3>1. p \in Seq(WireFrame) /\ t = Rewired(s, p, b)
      BY <2>4 DEF p
    <3> HIDE DEF t
    <3> QED BY <2>3, <3>1, WithWire, ZenonT(60)
  <2>6. p \o b = o \o q
    <3> HIDE DEF o, q
    <3>0. o \in Seq(WireFrame) /\ a \in Seq(WireFrame) /\ b \in Seq(WireFrame)
      BY <1>1, <2>3
    <3>1. (o \o a) \o b = o \o (a \o b)
      BY <3>0, ConcatAssociative
    <3> QED BY <2>3, <3>1 DEF p
  <2> HIDE DEF t
  <2>7. WireOK(t)
    BY <2>3, <2>4, <2>5 DEF WireOK, p
  <2>8. Wire(t) = Wire(s)
    BY <2>5, <2>6 DEF Wire
  <2> QED BY <2>2, <2>5, <2>7, <2>8, ThinsRefl DEF Sent
<1> QED BY <1>2, <1>3

\* The wire with one more frame.
LEMMA WireAppend ==
    ASSUME NEW o \in Seq(WireFrame), NEW w \in Seq(WireFrame), NEW f \in WireFrame
    PROVE  o \o Append(w, f) = Append(o \o w, f)
<1>1. <<f>> \in Seq(WireFrame) /\ o \o w \in Seq(WireFrame)
  BY OneFrame, ConcatProperties
<1>2. Append(w, f) = w \o <<f>> /\ Append(o \o w, f) = (o \o w) \o <<f>>
  BY <1>1, AppendIsConcat
<1> QED BY <1>1, <1>2, ConcatAssociative

\* send_frame.
LEMMA SendFrameSent ==
    ASSUME NEW s \in Session, WireOK(s), NEW f \in WireFrame
    PROVE  Sent(send_frame(s, f), s, Append(Wire(s), f))
<1> DEFINE w == Append(s.write_pending_frames, f)
           u == [s EXCEPT !.write_pending_frames = w]
<1>1. s.out \in Seq(WireFrame) /\ w \in Seq(WireFrame)
  BY AppendProperties DEF WireOK
<1>2. /\ u \in Session /\ u.out = s.out /\ u.write_pending_frames = w
      /\ SameStreams(u, s) /\ SameInput(u, s) /\ SameControl(u, s)
  <2>1. u = Rewired(s, s.out, w)
    BY DEF Session, Rewired
  <2> HIDE DEF w, u
  <2> QED BY <1>1, <2>1, WithWire
<1>3. WireOK(u) /\ Wire(u) = Append(Wire(s), f)
  <2>1. s.out \o w = Append(s.out \o s.write_pending_frames, f)
    BY WireAppend DEF WireOK
  <2> HIDE DEF w, u
  <2> QED BY <1>1, <1>2, <2>1 DEF WireOK, Wire
<1>4. send_frame(s, f) = send_all(u)
  BY DEF send_frame
<1> HIDE DEF u
<1>5. Sent(send_all(u), u, Wire(u))
  BY <1>2, <1>3, SendAllSent
<1>6. is_dead(u) <=> is_dead(s)
  BY <1>2 DEF is_dead, SameControl
<1> QED BY <1>2, <1>3, <1>4, <1>5, <1>6 DEF Sent, SameStreams, SameInput, SameControl

\* What send_go_away_with_code leaves: nothing waits behind the GoAway.
GoneAway(t, s) ==
    /\ t \in Session /\ WireOK(t)
    /\ SameStreams(t, s) /\ SameInput(t, s)
    /\ t.local_go_away /\ t.eof = s.eof
    /\ t.remote_go_away = s.remote_go_away
    /\ Thins(Wire(t), Wire(s))

\* The control frames.
LEMMA ControlFrames ==
    /\ \A c \in Nat : new_go_away(c) \in WireFrame /\ ~IsSyn(new_go_away(c))
    /\ \A F \in {{"Syn"}, {"Ack"}}, n \in Nat : new_ping(F, n) \in WireFrame /\ ~IsSyn(new_ping(F, n))
BY DEF new_go_away, new_ping, WireFrame, SessionFrame, IsSyn, Flag

\* send_go_away_with_code.
LEMMA GoAwaySent ==
    ASSUME NEW s \in Session, WireOK(s), NEW c \in Nat
    PROVE  GoneAway(send_go_away_with_code(s, c), s)
<1> DEFINE u == [s EXCEPT !.write_pending_frames = <<>>]
           f == new_go_away(c)
           v == send_frame(u, f)
           t == [v EXCEPT !.local_go_away = TRUE]
<1>1. /\ u \in Session /\ u.out = s.out /\ u.write_pending_frames = <<>>
      /\ SameStreams(u, s) /\ SameInput(u, s) /\ SameControl(u, s)
  <2>1. u = Rewired(s, s.out, <<>>) /\ s.out \in Seq(WireFrame) /\ <<>> \in Seq(WireFrame)
    BY OneFrame DEF Session, Rewired, WireOK
  <2> HIDE DEF u
  <2> QED BY <2>1, WithWire, ZenonT(60)
<1> HIDE DEF u
<1>2. WireOK(u) /\ Wire(u) = s.out /\ s.out \in Seq(WireFrame) /\ s.write_pending_frames \in Seq(WireFrame)
  BY <1>1, OneFrame, ConcatEmptySeq DEF WireOK, Wire
<1>3. f \in WireFrame /\ ~IsSyn(f)
  BY ControlFrames
<1> HIDE DEF f
<1>4. Sent(v, u, Append(s.out, f))
  BY <1>1, <1>2, <1>3, SendFrameSent
<1> HIDE DEF v
<1>5. Thins(Append(s.out, f), s.out) /\ Thins(s.out, Wire(s))
  BY <1>2, <1>3, ThinsAppend, ThinsFirst DEF Wire
<1>6. Thins(Wire(v), Wire(s))
  BY <1>4, <1>5, ThinsTrans DEF Sent
<1>7. v \in Session /\ WireOK(v) /\ SameStreams(v, s) /\ SameInput(v, s)
      /\ v.eof = s.eof /\ v.remote_go_away = s.remote_go_away
  BY <1>1, <1>4 DEF Sent, SameStreams, SameInput, SameControl
<1>8. /\ t \in Session /\ t.out = v.out /\ t.write_pending_frames = v.write_pending_frames
      /\ SameStreams(t, v) /\ SameInput(t, v) /\ t.local_go_away
      /\ t.eof = v.eof /\ t.remote_go_away = v.remote_go_away
  BY <1>7 DEF Session, SameStreams, SameInput
<1>9. send_go_away_with_code(s, c) = t
  BY DEF send_go_away_with_code, t, v, u, f
<1> HIDE DEF t
<1>10. WireOK(t) /\ Wire(t) = Wire(v) /\ SameStreams(t, s) /\ SameInput(t, s)
  BY <1>7, <1>8 DEF WireOK, Wire, SameStreams, SameInput
<1> QED BY <1>6, <1>7, <1>8, <1>9, <1>10 DEF GoneAway

(***************************************************************************)
(* A step that is mild for the streams: handles and events stay, at most   *)
(* the frame_senders of dropped handles go, and the wire is thinned.       *)
(***************************************************************************)
Mild(t, s) ==
    /\ t \in Session /\ WireOK(t) /\ t.read_pending_frames \in Seq(QueuedFrame)
    /\ SameStreams(t, s)
    /\ t.streams \subseteq s.streams
    /\ \A id \in StreamId : id \in s.streams /\ id \notin t.streams => s.life[id] = "gone"
    /\ \A id \in StreamId : s.life[id] = "none" => t.chan[id] = s.chan[id]
    /\ Thins(Wire(t), Wire(s))
    /\ t.remote_go_away => t.local_go_away

\* No id becomes unborn again.
BornStay(t, s, e) == \A id \in StreamId : Unborn(t, e, id) => Unborn(s, e, id)

\* Mild steps keep a session good.
LEMMA MildKeeps ==
    ASSUME NEW e \in Side, NEW s, NEW t, GoodSession(s, e), Mild(t, s)
    PROVE  GoodSession(t, e) /\ BornStay(t, s, e)
<1>1. SessionOK(t, e)
  BY DEF GoodSession, SessionOK, Mild, WireOK, SameStreams
<1>2. ASSUME NEW id \in StreamId PROVE StreamOK(t, e, id) /\ (Unborn(t, e, id) => Unborn(s, e, id))
  <2>0. StreamOK(s, e, id) /\ SameStreams(t, s)
    BY DEF GoodSession, Mild
  <2>1. HandleOK(t.h[id], e, id) /\ ClosedOK(t, id)
    BY <2>0 DEF StreamOK, ClosedOK, SameStreams
  <2>2. NoneOK(t, id)
    BY <2>0 DEF StreamOK, NoneOK, SameStreams, Mild
  <2>3. LiveOK(t, id)
    BY <2>0 DEF StreamOK, LiveOK, Live, SameStreams, Mild
  <2>4. /\ Single(SynAt(Wire(s), id)) => Single(SynAt(Wire(t), id))
        /\ SynAt(Wire(t), id) # {} => SynAt(Wire(s), id) # {}
    BY DEF Mild, Thins
  <2>5. SynOnce(t, e, id)
    BY <2>0, <2>4 DEF StreamOK, SynOnce, SameStreams
  <2>6. Unborn(t, e, id) => Unborn(s, e, id)
    BY <2>0, <2>4 DEF Unborn, SameStreams
  <2>7. Opener(id) = e /\ id >= t.next_stream_id => t.life[id] = "none"
    BY <2>0 DEF StreamOK, SameStreams
  <2> QED BY <2>1, <2>2, <2>3, <2>5, <2>6, <2>7 DEF StreamOK
<1> QED BY <1>1, <1>2 DEF GoodSession, BornStay

\* Sending a frame that is no SYN is mild.
LEMMA SentIsMild ==
    ASSUME NEW e \in Side, NEW s, NEW t, NEW q, GoodSession(s, e), Sent(t, s, q), Thins(q, Wire(s))
    PROVE  Mild(t, s)
<1>1. Thins(Wire(t), Wire(s))
  BY ThinsTrans DEF Sent
<1> QED BY <1>1 DEF Mild, Sent, GoodSession, SessionOK, SameInput, SameControl

\* Going away is mild.
LEMMA GoneAwayIsMild ==
    ASSUME NEW e \in Side, NEW s, NEW t, GoodSession(s, e), GoneAway(t, s)
    PROVE  Mild(t, s)
BY DEF Mild, GoneAway, GoodSession, SessionOK, SameInput

\* Mild steps in a row are mild.
LEMMA MildTrans ==
    ASSUME NEW s, NEW t, NEW u, Mild(t, s), Mild(u, t)
    PROVE  Mild(u, s)
<1>1. Thins(Wire(u), Wire(s))
  BY ThinsTrans DEF Mild
<1>2. SameStreams(u, s)
  BY DEF Mild, SameStreams
<1>3. \A id \in StreamId : id \in s.streams /\ id \notin u.streams => s.life[id] = "gone"
  BY DEF Mild, SameStreams
<1>4. \A id \in StreamId : s.life[id] = "none" => u.chan[id] = s.chan[id]
  BY DEF Mild, SameStreams
<1> QED BY <1>1, <1>2, <1>3, <1>4 DEF Mild

-----------------------------------------------------------------------------
(***************************************************************************)
(* Events                                                                  *)
(***************************************************************************)

\* More events: the SYNs and the Closed events among them.
LEMMA MoreEvents ==
    ASSUME NEW q \in Seq(HandleEvent), NEW v \in Seq(HandleEvent), NEW x
    PROVE  /\ q \o v \in Seq(HandleEvent)
           /\ SynEventAt(v, x) = {} => SynEventAt(q \o v, x) = SynEventAt(q, x)
           /\ SynEventAt(q, x) = {} /\ Single(SynEventAt(v, x)) => Single(SynEventAt(q \o v, x))
           /\ ClosedIn(q \o v, x) <=> ClosedIn(q, x) \/ ClosedIn(v, x)
<1> DEFINE w == q \o v
           m == Len(q)
           n == Len(v)
<1>1. /\ w \in Seq(HandleEvent) /\ Len(w) = m + n
      /\ \A i \in 1..m : w[i] = q[i]
      /\ \A i \in 1..n : w[m + i] = v[i]
      /\ \A i \in 1..(m + n) : i \notin 1..m => i - m \in 1..n /\ w[i] = v[i - m]
  BY ConcatAt
<1>2. m \in Nat /\ n \in Nat
  BY LenProperties
<1> HIDE DEF w, m, n
<1>3. \A i \in 1..m : i \in 1..(m + n)
  BY <1>2
<1>4. \A i \in 1..n : m + i \in 1..(m + n)
  BY <1>2
<1>5. \A i \in SynEventAt(w, x) : i \in SynEventAt(q, x) \/ i - m \in SynEventAt(v, x)
  <2> SUFFICES ASSUME NEW i \in 1..(m + n),
                      w[i].kind = "Frame" /\ IsSyn(w[i].frame) /\ w[i].frame.stream_id = x
               PROVE  i \in SynEventAt(q, x) \/ i - m \in SynEventAt(v, x)
    BY <1>1 DEF SynEventAt
  <2>1. CASE i \in 1..m
    BY <1>1, <2>1 DEF SynEventAt, m
  <2>2. CASE i \notin 1..m
    <3>1. i - m \in 1..n /\ w[i] = v[i - m]
      BY <1>1, <2>2
    <3> QED BY <3>1 DEF SynEventAt, n
  <2> QED BY <2>1, <2>2
<1>6. \A i \in SynEventAt(q, x) : i \in SynEventAt(w, x)
  BY <1>1, <1>3 DEF SynEventAt, m
<1>7. SynEventAt(w, x) \subseteq Int
  BY <1>1, <1>2 DEF SynEventAt
<1>8. SynEventAt(v, x) = {} => SynEventAt(w, x) = SynEventAt(q, x)
  BY <1>5, <1>6
<1>9. ASSUME SynEventAt(q, x) = {}, Single(SynEventAt(v, x)) PROVE Single(SynEventAt(w, x))
  <2> SUFFICES ASSUME NEW i \in SynEventAt(w, x), NEW j \in SynEventAt(w, x) PROVE i = j
    BY DEF Single
  <2>1. i - m = j - m
    BY <1>5, <1>9 DEF Single
  <2> QED BY <1>2, <1>7, <2>1
<1>10. ClosedIn(w, x) => ClosedIn(q, x) \/ ClosedIn(v, x)
  <2> SUFFICES ASSUME NEW i \in 1..(m + n), w[i].kind = "Closed" /\ w[i].id = x
               PROVE  ClosedIn(q, x) \/ ClosedIn(v, x)
    BY <1>1 DEF ClosedIn
  <2>1. CASE i \in 1..m
    BY <1>1, <2>1 DEF ClosedIn, m
  <2>2. CASE i \notin 1..m
    <3>1. i - m \in 1..n /\ w[i] = v[i - m]
      BY <1>1, <2>2
    <3> QED BY <3>1 DEF ClosedIn, n
  <2> QED BY <2>1, <2>2
<1>11. ClosedIn(q, x) => ClosedIn(w, x)
  BY <1>1, <1>3 DEF ClosedIn, m
<1>12. ClosedIn(v, x) => ClosedIn(w, x)
  BY <1>1, <1>4 DEF ClosedIn, n
<1>13. /\ w \in Seq(HandleEvent)
       /\ SynEventAt(v, x) = {} => SynEventAt(w, x) = SynEventAt(q, x)
       /\ SynEventAt(q, x) = {} /\ Single(SynEventAt(v, x)) => Single(SynEventAt(w, x))
       /\ ClosedIn(w, x) <=> ClosedIn(q, x) \/ ClosedIn(v, x)
  BY <1>1, <1>8, <1>9, <1>10, <1>11, <1>12
<1> QED BY <1>13 DEF w

\* Fewer events: the first one is taken.
LEMMA FewerEvents ==
    ASSUME NEW q \in Seq(HandleEvent), q # <<>>, NEW x
    PROVE  /\ Tail(q) \in Seq(HandleEvent) /\ Head(q) \in HandleEvent
           /\ Single(SynEventAt(q, x)) => Single(SynEventAt(Tail(q), x))
           /\ SynEventAt(Tail(q), x) # {} => SynEventAt(q, x) # {}
           /\ ClosedIn(Tail(q), x) => ClosedIn(q, x)
           /\ Head(q).kind = "Closed" /\ Head(q).id = x => ClosedIn(q, x)
           /\ Head(q).kind = "Frame" /\ IsSyn(Head(q).frame) /\ Head(q).frame.stream_id = x =>
                /\ SynEventAt(q, x) # {}
                /\ Single(SynEventAt(q, x)) => SynEventAt(Tail(q), x) = {}
<1>1. /\ Head(q) \in HandleEvent /\ Head(q) = q[1] /\ Tail(q) \in Seq(HandleEvent)
      /\ Len(q) \in Nat \ {0} /\ Len(Tail(q)) = Len(q) - 1
      /\ \A i \in 1..Len(Tail(q)) : i + 1 \in 1..Len(q) /\ Tail(q)[i] = q[i + 1]
  BY TailAt
<1> DEFINE t == Tail(q)
           f == Head(q)
<1> HIDE DEF t, f
<1>2. \A i \in SynEventAt(t, x) : i \in Nat \ {0} /\ i + 1 \in SynEventAt(q, x)
  BY <1>1 DEF SynEventAt, t
<1>3. Single(SynEventAt(q, x)) => Single(SynEventAt(t, x))
  <2> SUFFICES ASSUME Single(SynEventAt(q, x)), NEW i \in SynEventAt(t, x), NEW j \in SynEventAt(t, x)
               PROVE  i = j
    BY DEF Single
  <2>1. i + 1 = j + 1 /\ i \in Nat /\ j \in Nat
    BY <1>2 DEF Single
  <2> QED BY <2>1
<1>4. SynEventAt(t, x) # {} => SynEventAt(q, x) # {}
  BY <1>2
<1>5. ClosedIn(t, x) => ClosedIn(q, x)
  BY <1>1 DEF ClosedIn, t
<1>6. 1 \in 1..Len(q)
  BY <1>1
<1>7. f.kind = "Closed" /\ f.id = x => ClosedIn(q, x)
  BY <1>1, <1>6 DEF ClosedIn, f
<1>8. ASSUME f.kind = "Frame" /\ IsSyn(f.frame) /\ f.frame.stream_id = x
      PROVE  /\ SynEventAt(q, x) # {}
             /\ Single(SynEventAt(q, x)) => SynEventAt(t, x) = {}
  <2>1. 1 \in SynEventAt(q, x)
    BY <1>1, <1>6, <1>8 DEF SynEventAt, f
  <2>2. ASSUME Single(SynEventAt(q, x)), NEW i \in SynEventAt(t, x) PROVE FALSE
    <3>1. i + 1 = 1 /\ i \in Nat \ {0}
      BY <1>2, <2>1, <2>2 DEF Single
    <3> QED BY <3>1
  <2> QED BY <2>1, <2>2
<1> QED BY <1>1, <1>3, <1>4, <1>5, <1>7, <1>8 DEF t, f

\* One event after the frames of an outcome.
LastEvent(o, id) ==
    CASE o.event = "Closed" -> <<[kind |-> "Closed", id |-> id]>>
      [] o.event = "GoAway" -> <<[kind |-> "GoAway"]>>
      [] OTHER              -> <<>>

\* The events of a call.
LEMMA CallEvents ==
    ASSUME NEW id \in StreamId, NEW o, o.frames \in Seq(StreamFrame),
           o.event \in {"None", "Closed", "GoAway"}, NEW x
    PROVE  /\ EventsOf(o, id) \in Seq(HandleEvent)
           /\ ClosedIn(EventsOf(o, id), x) => x = id /\ o.event = "Closed"
           /\ o.frames \in Seq(QueuedFrame) => SynEventAt(EventsOf(o, id), x) = {}
           /\ Len(o.frames) = 1 => Single(SynEventAt(EventsOf(o, id), x))
           /\ (\A i \in 1..Len(o.frames) : o.frames[i].stream_id # x) =>
                SynEventAt(EventsOf(o, id), x) = {}
<1> DEFINE a == [i \in 1..Len(o.frames) |-> [kind |-> "Frame", frame |-> o.frames[i]]]
           b == LastEvent(o, id)
<1>1. Len(o.frames) \in Nat /\ \A i \in 1..Len(o.frames) : o.frames[i] \in StreamFrame
  BY LenProperties, ElementOfSeq
<1>2. /\ a \in Seq(HandleEvent) /\ Len(a) = Len(o.frames)
      /\ \A i \in 1..Len(a) : a[i].kind = "Frame" /\ a[i].frame = o.frames[i]
  <2>1. \A i \in 1..Len(o.frames) : [kind |-> "Frame", frame |-> o.frames[i]] \in HandleEvent
    BY <1>1 DEF HandleEvent, StreamEvent, StreamFrame
  <2>2. a \in Seq(HandleEvent) /\ Len(a) = Len(o.frames)
    BY <1>1, <2>1, SeqDef, LenProperties
  <2> QED BY <1>1, <2>2
<1>3. /\ b \in Seq(HandleEvent)
      /\ \A i \in 1..Len(b) : b[i].kind # "Frame"
      /\ \A i \in 1..Len(b) : b[i].kind = "Closed" => b[i].id = id /\ o.event = "Closed"
  <2>1. CASE o.event = "Closed"
    <3>1. b = <<[kind |-> "Closed", id |-> id]>>
      BY <2>1 DEF LastEvent
    <3>2. [kind |-> "Closed", id |-> id] \in HandleEvent
      BY DEF HandleEvent, StreamEvent
    <3> QED BY <2>1, <3>1, <3>2, OneFrame
  <2>2. CASE o.event = "GoAway"
    <3>1. b = <<[kind |-> "GoAway"]>>
      BY <2>2 DEF LastEvent
    <3>2. [kind |-> "GoAway"] \in HandleEvent
      BY DEF HandleEvent, StreamEvent
    <3> QED BY <3>1, <3>2, OneFrame
  <2>3. CASE o.event = "None"
    <3>1. b = <<>>
      BY <2>3 DEF LastEvent
    <3> QED BY <3>1, OneFrame
  <2> QED BY <2>1, <2>2, <2>3
<1>4. EventsOf(o, id) = a \o b
  BY DEF EventsOf, LastEvent
<1> HIDE DEF a, b
<1>5. SynEventAt(b, x) = {} /\ ~ClosedIn(a, x) /\ (ClosedIn(b, x) => x = id /\ o.event = "Closed")
  BY <1>2, <1>3 DEF SynEventAt, ClosedIn
<1>6. /\ a \o b \in Seq(HandleEvent)
      /\ SynEventAt(a \o b, x) = SynEventAt(a, x)
      /\ ClosedIn(a \o b, x) <=> ClosedIn(a, x) \/ ClosedIn(b, x)
  BY <1>2, <1>3, <1>5, MoreEvents
<1>7. o.frames \in Seq(QueuedFrame) => SynEventAt(a, x) = {}
  <2>1. o.frames \in Seq(QueuedFrame) => \A i \in 1..Len(o.frames) : o.frames[i] \in QueuedFrame
    BY ElementOfSeq
  <2> QED BY <1>2, <2>1 DEF SynEventAt, QueuedFrame, IsSyn
<1>8. Len(o.frames) = 1 => Single(SynEventAt(a, x))
  BY <1>2 DEF SynEventAt, Single
<1>9. (\A i \in 1..Len(o.frames) : o.frames[i].stream_id # x) => SynEventAt(a, x) = {}
  BY <1>2 DEF SynEventAt
<1> QED BY <1>4, <1>5, <1>6, <1>7, <1>8, <1>9

-----------------------------------------------------------------------------
(***************************************************************************)
(* Calls of a handle                                                       *)
(***************************************************************************)
SameWire(t, s) == t.out = s.out /\ t.write_pending_frames = s.write_pending_frames

\* No id loses its innocence.
NoneStay(t, s) == \A id \in StreamId : s.life[id] = "none" => t.life[id] = "none"

\* WithHandle, field by field.
LEMMA WithHandleIs ==
    ASSUME NEW u \in Session, NEW id \in StreamId, NEW o, o.h \in StreamHandle,
           EventsOf(o, id) \in Seq(HandleEvent)
    PROVE  LET t == WithHandle(u, id, o) IN
           /\ t \in Session
           /\ t.h = [u.h EXCEPT ![id] = o.h]
           /\ t.events = IF u.ended THEN u.events ELSE u.events \o EventsOf(o, id)
           /\ t.life = u.life /\ t.next_stream_id = u.next_stream_id /\ t.ended = u.ended
           /\ SameInput(t, u) /\ SameControl(t, u) /\ SameWire(t, u)
<1> DEFINE v == IF u.ended THEN u.events ELSE u.events \o EventsOf(o, id)
           F == IF o.event = "GoAway" THEN u.failed \cup {id} ELSE u.failed
           g == [u.h EXCEPT ![id] = o.h]
           t == [u EXCEPT !.h = g, !.events = v, !.failed = F]
<1>1. WithHandle(u, id, o) = t
  BY DEF WithHandle
<1>2. HandleEvent \subseteq StreamEvent
  BY DEF HandleEvent
<1>3. u.events \in Seq(StreamEvent) /\ EventsOf(o, id) \in Seq(StreamEvent)
  BY <1>2, SeqMonotonic DEF Session
<1>4. v \in Seq(StreamEvent)
  BY <1>3, ConcatProperties
<1>5. F \in SUBSET StreamId /\ g \in [StreamId -> StreamHandle]
  BY DEF Session
<1> HIDE DEF v, F, g
<1>6. /\ t \in Session /\ t.h = g /\ t.events = v
      /\ t.life = u.life /\ t.next_stream_id = u.next_stream_id /\ t.ended = u.ended
      /\ SameInput(t, u) /\ SameControl(t, u) /\ SameWire(t, u)
  BY <1>4, <1>5 DEF Session, SameInput, SameControl, SameWire
<1> QED BY <1>1, <1>6 DEF v, g

\* What the session sees of a call: u is s with another channel or life for id.
Touches(u, s, id) ==
    /\ u \in Session
    /\ u.h = s.h /\ u.next_stream_id = s.next_stream_id /\ u.events = s.events
    /\ u.ended = s.ended /\ u.streams = s.streams
    /\ u.read_pending_frames = s.read_pending_frames
    /\ SameControl(u, s) /\ SameWire(u, s)
    /\ \A i \in StreamId : i # id => u.life[i] = s.life[i] /\ u.chan[i] = s.chan[i]
    /\ u.life[id] \in {"live", "gone"}

\* A call of a live handle keeps its session good.
LEMMA CallKeeps ==
    ASSUME NEW e \in Side, NEW s, GoodSession(s, e), NEW id \in StreamId, s.life[id] = "live",
           NEW u, Touches(u, s, id), NEW o, OutcomeOK(o, s.h[id], e, id),
           o.event = "Closed" /\ u.life[id] = "live" => o.h.state \notin ReadableStates
    PROVE  LET t == WithHandle(u, id, o) IN
           /\ GoodSession(t, e) /\ BornStay(t, s, e) /\ NoneStay(t, s)
           /\ Wire(t) = Wire(s) /\ SameControl(t, s) /\ t.ended = s.ended
<1> DEFINE t == WithHandle(u, id, o)
           v == EventsOf(o, id)
<1>1. /\ SessionOK(s, e) /\ s \in Session /\ u \in Session
      /\ s.events \in Seq(HandleEvent) /\ o.h \in StreamHandle
      /\ o.frames \in Seq(QueuedFrame) /\ o.event \in {"None", "Closed", "GoAway"}
  BY DEF GoodSession, SessionOK, Touches, OutcomeOK, HandleOK
<1>2. o.frames \in Seq(StreamFrame)
  BY <1>1, SeqMonotonic DEF QueuedFrame
<1>3. /\ v \in Seq(HandleEvent)
      /\ \A x : ClosedIn(v, x) => x = id /\ o.event = "Closed"
      /\ \A x : SynEventAt(v, x) = {}
  BY <1>1, <1>2, CallEvents
<1>4. /\ t \in Session
      /\ t.h = [u.h EXCEPT ![id] = o.h]
      /\ t.events = IF u.ended THEN u.events ELSE u.events \o v
      /\ t.life = u.life /\ t.next_stream_id = u.next_stream_id /\ t.ended = u.ended
      /\ SameInput(t, u) /\ SameControl(t, u) /\ SameWire(t, u)
  BY <1>1, <1>3, WithHandleIs
<1> HIDE DEF t, v
<1>5. /\ t.h = [s.h EXCEPT ![id] = o.h] /\ s.h \in [StreamId -> StreamHandle]
      /\ t.events = s.events \/ t.events = s.events \o v
      /\ t.next_stream_id = s.next_stream_id /\ t.ended = s.ended /\ t.streams = s.streams
      /\ t.read_pending_frames = s.read_pending_frames
      /\ SameControl(t, s) /\ SameWire(t, s)
      /\ \A i \in StreamId : i # id => t.life[i] = s.life[i] /\ t.chan[i] = s.chan[i]
      /\ t.life[id] = u.life[id] /\ t.life[id] \in {"live", "gone"}
  BY <1>1, <1>4 DEF Touches, SameInput, SameControl, SameWire, Session
<1>6. /\ t.events \in Seq(HandleEvent)
      /\ \A x : SynEventAt(t.events, x) = SynEventAt(s.events, x)
      /\ \A x : ClosedIn(t.events, x) => ClosedIn(s.events, x) \/ (x = id /\ o.event = "Closed")
  <2>1. /\ s.events \o v \in Seq(HandleEvent)
        /\ \A x : SynEventAt(s.events \o v, x) = SynEventAt(s.events, x)
        /\ \A x : ClosedIn(s.events \o v, x) => ClosedIn(s.events, x) \/ ClosedIn(v, x)
    BY <1>1, <1>3, MoreEvents
  <2>2. CASE t.events = s.events
    BY <1>1, <2>2
  <2>3. CASE t.events = s.events \o v
    BY <1>3, <2>1, <2>3
  <2> QED BY <1>5, <2>2, <2>3
<1>7. Wire(t) = Wire(s)
  BY <1>5 DEF Wire, SameWire
<1>8. SessionOK(t, e)
  BY <1>1, <1>4, <1>5, <1>6 DEF SessionOK, SameWire, SameControl
<1>9. ASSUME NEW x \in StreamId PROVE StreamOK(t, e, x) /\ (Unborn(t, e, x) => Unborn(s, e, x))
  <2>0. StreamOK(s, e, x)
    BY DEF GoodSession
  <2>1. SynOnce(t, e, x) /\ (Unborn(t, e, x) => Unborn(s, e, x))
    BY <1>5, <1>6, <1>7, <2>0 DEF StreamOK, SynOnce, Unborn
  <2>2. CASE x # id
    <3>1. t.h[x] = s.h[x] /\ t.life[x] = s.life[x] /\ t.chan[x] = s.chan[x]
      BY <1>5, <2>2
    <3>2. HandleOK(t.h[x], e, x) /\ NoneOK(t, x) /\ LiveOK(t, x)
      BY <1>5, <2>0, <3>1 DEF StreamOK, NoneOK, LiveOK, Live
    <3>3. ClosedOK(t, x)
      BY <1>6, <2>0, <2>2, <3>1 DEF StreamOK, ClosedOK
    <3> QED BY <1>5, <2>0, <2>1, <3>1, <3>2, <3>3 DEF StreamOK
  <2>3. CASE x = id
    <3>1. t.h[x] = o.h /\ HandleOK(o.h, e, x) /\ o.h.state # "Init"
          /\ (o.h.state \in ReadableStates => s.h[x].state \in ReadableStates)
      BY <1>5, <2>3 DEF OutcomeOK
    <3>2. NoneOK(t, x) /\ LiveOK(t, x)
      BY <1>5, <2>0, <2>3, <3>1 DEF StreamOK, NoneOK, LiveOK, Live
    <3>3. ClosedOK(t, x)
      BY <1>5, <1>6, <2>0, <2>3, <3>1 DEF StreamOK, ClosedOK
    <3>4. ~(Opener(x) = e /\ x >= t.next_stream_id)
      BY <1>5, <2>0, <2>3 DEF StreamOK
    <3> QED BY <2>1, <3>1, <3>2, <3>3, <3>4 DEF StreamOK
  <2> QED BY <2>2, <2>3
<1>10. NoneStay(t, s)
  BY <1>5 DEF NoneStay
<1>11. GoodSession(t, e) /\ BornStay(t, s, e)
  BY <1>8, <1>9 DEF GoodSession, BornStay
<1>12. SameControl(t, s) /\ t.ended = s.ended
  BY <1>5
<1> QED BY <1>7, <1>10, <1>11, <1>12 DEF t

\* A call that leaves channel and life alone, one that takes a frame from the
\* channel, and the last one.
LEMMA TouchesBy ==
    ASSUME NEW s \in Session, NEW id \in StreamId, s.life[id] = "live"
    PROVE  /\ Touches(s, s, id)
           /\ s.chan[id] # <<>> => Touches([s EXCEPT !.chan[id] = Tail(@)], s, id)
           /\ LET u == [s EXCEPT !.life[id] = "gone", !.chan[id] = <<>>] IN
              Touches(u, s, id) /\ u.life[id] = "gone" /\ u.ended = s.ended /\ u.h = s.h
<1>1. Touches(s, s, id)
  BY DEF Touches, SameControl, SameWire
<1>2. ASSUME s.chan[id] # <<>> PROVE Touches([s EXCEPT !.chan[id] = Tail(@)], s, id)
  <2> DEFINE c == Tail(s.chan[id])
             d == [s.chan EXCEPT ![id] = c]
             u == [s EXCEPT !.chan = d]
  <2>1. c \in Seq(Frame)
    BY <1>2, HeadTailProperties DEF Session
  <2>2. [s EXCEPT !.chan[id] = Tail(@)] = u
    OBVIOUS
  <2> HIDE DEF c
  <2>3. d \in [StreamId -> Seq(Frame)] /\ \A i \in StreamId : i # id => d[i] = s.chan[i]
    BY <2>1 DEF Session
  <2> HIDE DEF d
  <2>4. Touches(u, s, id)
    BY <2>3 DEF Session, Touches, SameControl, SameWire
  <2> QED BY <2>2, <2>4
<1>3. LET u == [s EXCEPT !.life[id] = "gone", !.chan[id] = <<>>] IN
      Touches(u, s, id) /\ u.life[id] = "gone" /\ u.ended = s.ended /\ u.h = s.h
  <2> DEFINE d == [s.chan EXCEPT ![id] = <<>>]
             l == [s.life EXCEPT ![id] = "gone"]
             u == [s EXCEPT !.life = l, !.chan = d]
  <2>1. <<>> \in Seq(Frame)
    BY OneFrame
  <2>2. [s EXCEPT !.life[id] = "gone", !.chan[id] = <<>>] = u
    BY DEF Session
  <2>3. /\ d \in [StreamId -> Seq(Frame)] /\ \A i \in StreamId : i # id => d[i] = s.chan[i]
        /\ l \in [StreamId -> {"none", "live", "gone"}] /\ l[id] = "gone"
        /\ \A i \in StreamId : i # id => l[i] = s.life[i]
    BY <2>1 DEF Session
  <2> HIDE DEF d, l
  <2>4. Touches(u, s, id) /\ u.life[id] = "gone" /\ u.ended = s.ended /\ u.h = s.h
    BY <2>3 DEF Session, Touches, SameControl, SameWire
  <2> QED BY <2>2, <2>4
<1> QED BY <1>1, <1>2, <1>3

-----------------------------------------------------------------------------
(***************************************************************************)
(* distribute_to_substream                                                 *)
(***************************************************************************)

\* g is what the loop does with the first m frames of q, from b on.
Looped(g, b, e, q, m) ==
    g = [n \in 0..m |-> IF n = 0 THEN b ELSE Distribute(g[n - 1], e, q[n])]

\* The loop over the frames of q is well defined.
LEMMA LoopExists ==
    ASSUME NEW b, NEW e, NEW q, Len(q) \in Nat
    PROVE  \E g : Looped(g, b, e, q, Len(q))
<1> DEFINE T == {m \in 0..Len(q) : \E g : Looped(g, b, e, q, m)}
<1>1. 0 \in T
  <2> DEFINE g == [n \in 0..0 |-> b]
  <2>1. Looped(g, b, e, q, 0)
    BY DEF Looped
  <2> HIDE DEF g
  <2> QED BY <2>1
<1>2. ASSUME NEW m \in 0..(Len(q) - 1), m \in T PROVE m + 1 \in T
  <2>1. PICK g : Looped(g, b, e, q, m)
    BY <1>2
  <2> DEFINE k == [n \in 0..(m + 1) |-> IF n = m + 1 THEN Distribute(g[m], e, q[m + 1]) ELSE g[n]]
  <2>2. m \in Nat /\ m + 1 \in 0..Len(q) /\ \A n \in 0..m : n \in 0..(m + 1) /\ n # m + 1
    OBVIOUS
  <2>3. \A n \in 0..m : k[n] = g[n]
    BY <2>2
  <2>4. \A n \in 0..m : g[n] = IF n = 0 THEN b ELSE Distribute(g[n - 1], e, q[n])
    BY <2>1 DEF Looped
  <2>5. ASSUME NEW n \in 0..(m + 1)
        PROVE  k[n] = IF n = 0 THEN b ELSE Distribute(k[n - 1], e, q[n])
    <3>1. CASE n = m + 1
      <4>1. k[n] = Distribute(g[m], e, q[m + 1]) /\ n # 0 /\ n - 1 = m /\ m \in 0..m
        BY <2>2, <3>1
      <4>2. k[m] = g[m]
        BY <2>3, <4>1
      <4> HIDE DEF k
      <4> QED BY <3>1, <4>1, <4>2
    <3>2. CASE n # m + 1
      <4>1. n \in 0..m /\ k[n] = g[n]
        BY <2>2, <2>3, <3>2
      <4>2. n # 0 => n - 1 \in 0..m
        BY <2>2, <4>1
      <4>3. n # 0 => k[n - 1] = g[n - 1]
        BY <2>3, <4>2
      <4> HIDE DEF k
      <4> QED BY <2>4, <4>1, <4>3
    <3> QED BY <3>1, <3>2
  <2>6. k = [n \in 0..(m + 1) |-> k[n]]
    OBVIOUS
  <2> HIDE DEF k
  <2>7. Looped(k, b, e, q, m + 1)
    BY <2>5, <2>6 DEF Looped
  <2> QED BY <2>2, <2>7
<1> HIDE DEF T
<1>3. \A m \in 0..Len(q) : m \in T
  BY <1>1, <1>2, Upwards
<1>4. Len(q) \in T
  BY <1>3
<1> QED BY <1>4 DEF T

\* What the loop does: g[n] is its state after n frames.
LEMMA LoopIs ==
    ASSUME NEW s, NEW e, Len(s.read_pending_frames) \in Nat
    PROVE  LET q == s.read_pending_frames IN
           \E g : /\ g[0] = Undistributed(s)
                  /\ \A n \in 1..Len(q) : g[n] = Distribute(g[n - 1], e, q[n])
                  /\ distribute_to_substream(s, e) = g[Len(q)].s
<1> DEFINE q == s.read_pending_frames
           b == Undistributed(s)
           g == CHOOSE g : Looped(g, b, e, q, Len(q))
<1>1. distribute_to_substream(s, e) = g[Len(q)].s
  BY DEF distribute_to_substream, Looped
<1>2. Looped(g, b, e, q, Len(q))
  <2> HIDE DEF b, q
  <2>1. \E x : Looped(x, b, e, q, Len(q))
    BY LoopExists DEF q
  <2> QED BY <2>1
<1> HIDE DEF g
<1>3. 0 \in 0..Len(q) /\ \A n \in 1..Len(q) : n \in 0..Len(q) /\ n # 0
  OBVIOUS
<1>4. g[0] = b /\ \A n \in 1..Len(q) : g[n] = Distribute(g[n - 1], e, q[n])
  BY <1>2, <1>3 DEF Looped
<1> QED BY <1>1, <1>4

\* Three ways in which a frame reaches, waits for, or disconnects a substream.
Waits(t, f) == [t EXCEPT !.read_pending_frames = Append(@, f)]

Forgets(t, id) == [t EXCEPT !.streams = @ \ {id}]

Reaches(t, id, f) == [t EXCEPT !.chan[id] = Append(@, f)]

\* Like Mild, and the rest of the session is left alone too.
Milder(t, s) == Mild(t, s) /\ SameControl(t, s) /\ SameWire(t, s)

\* They are mild.
LEMMA SubstreamIsMild ==
    ASSUME NEW e \in Side, NEW s, GoodSession(s, e), NEW t, Milder(t, s), NEW f \in StreamFrame
    PROVE  /\ f \in QueuedFrame => Milder(Waits(t, f), s)
           /\ f.stream_id \in t.streams /\ t.life[f.stream_id] = "gone" =>
                 Milder(Forgets(t, f.stream_id), s)
           /\ f.stream_id \in t.streams => Milder(Reaches(t, f.stream_id, f), s)
<1> DEFINE id == f.stream_id
<1>1. /\ t \in Session /\ WireOK(t) /\ t.read_pending_frames \in Seq(QueuedFrame) /\ SameStreams(t, s)
      /\ t.streams \subseteq s.streams /\ SameControl(t, s) /\ SameWire(t, s)
      /\ id \in StreamId /\ f \in Frame /\ Wire(t) = Wire(s)
  BY DEF Milder, Mild, StreamFrame, Wire, SameWire
<1>2. ASSUME f \in QueuedFrame PROVE Milder(Waits(t, f), s)
  <2> DEFINE q == Append(t.read_pending_frames, f)
             u == [t EXCEPT !.read_pending_frames = q]
  <2>1. q \in Seq(QueuedFrame) /\ q \in Seq(Frame)
    <3>1. q \in Seq(QueuedFrame)
      BY <1>1, <1>2, AppendProperties
    <3>2. QueuedFrame \subseteq Frame
      BY DEF QueuedFrame, StreamFrame
    <3> HIDE DEF q
    <3> QED BY <3>1, <3>2, SeqMonotonic
  <2>2. Waits(t, f) = u
    BY DEF Waits
  <2> HIDE DEF q
  <2>3. /\ u \in Session /\ u.read_pending_frames = q /\ SameStreams(u, t) /\ u.streams = t.streams
        /\ u.chan = t.chan /\ SameControl(u, t) /\ SameWire(u, t)
    BY <1>1, <2>1 DEF Session, SameStreams, SameControl, SameWire
  <2> HIDE DEF u
  <2>4. Mild(u, s)
    <3>1. SameStreams(u, s) /\ WireOK(u) /\ Wire(u) = Wire(s) /\ (u.remote_go_away => u.local_go_away)
      BY <1>1, <2>3 DEF SameStreams, WireOK, Wire, SameWire, SameControl, Milder, Mild
    <3> QED BY <2>1, <2>3, <3>1, ThinsRefl DEF Milder, Mild
  <2>5. SameControl(u, s) /\ SameWire(u, s)
    BY <1>1, <2>3 DEF SameControl, SameWire
  <2> QED BY <2>2, <2>4, <2>5 DEF Milder
<1>3. ASSUME id \in t.streams, t.life[id] = "gone" PROVE Milder(Forgets(t, id), s)
  <2> DEFINE u == [t EXCEPT !.streams = @ \ {id}]
  <2>2. Forgets(t, id) = u
    BY DEF Forgets
  <2>3. /\ u \in Session /\ u.read_pending_frames = t.read_pending_frames /\ SameStreams(u, t)
        /\ u.streams = t.streams \ {id}
        /\ u.chan = t.chan /\ SameControl(u, t) /\ SameWire(u, t)
    BY <1>1 DEF Session, SameStreams, SameControl, SameWire
  <2> HIDE DEF u
  <2>4. Mild(u, s)
    <3>1. SameStreams(u, s) /\ WireOK(u) /\ Wire(u) = Wire(s) /\ (u.remote_go_away => u.local_go_away)
      BY <1>1, <2>3 DEF SameStreams, WireOK, Wire, SameWire, SameControl, Milder, Mild
    <3>2. s.life[id] = "gone"
      BY <1>1, <1>3 DEF SameStreams
    <3> QED BY <1>1, <2>3, <3>1, <3>2, ThinsRefl DEF Milder, Mild
  <2>5. SameControl(u, s) /\ SameWire(u, s)
    BY <1>1, <2>3 DEF SameControl, SameWire
  <2> QED BY <2>2, <2>4, <2>5 DEF Milder
<1>4. ASSUME id \in t.streams PROVE Milder(Reaches(t, id, f), s)
  <2> DEFINE c == Append(t.chan[id], f)
             d == [t.chan EXCEPT ![id] = c]
             u == [t EXCEPT !.chan = d]
  <2>1. c \in Seq(Frame)
    BY <1>1, AppendProperties DEF Session
  <2>2. Reaches(t, id, f) = u
    BY DEF Reaches
  <2> HIDE DEF c
  <2>3. d \in [StreamId -> Seq(Frame)] /\ \A i \in StreamId : i # id => d[i] = t.chan[i]
    BY <1>1, <2>1 DEF Session
  <2> HIDE DEF d
  <2>4. /\ u \in Session /\ u.read_pending_frames = t.read_pending_frames /\ SameStreams(u, t)
        /\ u.streams = t.streams /\ u.chan = d /\ SameControl(u, t) /\ SameWire(u, t)
    BY <1>1, <2>3 DEF Session, SameStreams, SameControl, SameWire
  <2> HIDE DEF u
  <2>5. s.life[id] # "none"
    BY <1>1, <1>4 DEF GoodSession, StreamOK, NoneOK
  <2>6. Mild(u, s)
    <3>1. SameStreams(u, s) /\ WireOK(u) /\ Wire(u) = Wire(s) /\ (u.remote_go_away => u.local_go_away)
      BY <1>1, <2>4 DEF SameStreams, WireOK, Wire, SameWire, SameControl, Milder, Mild
    <3> QED BY <1>1, <2>3, <2>4, <2>5, <3>1, ThinsRefl DEF Milder, Mild
  <2>7. SameControl(u, s) /\ SameWire(u, s)
    BY <1>1, <2>4 DEF SameControl, SameWire
  <2> QED BY <2>2, <2>6, <2>7 DEF Milder
<1> QED BY <1>2, <1>3, <1>4

\* The state of the loop before it meets a SYN.
LoopOK(a, s) ==
    /\ a \in [s : Session, blocked : SUBSET StreamId, returned : BOOLEAN]
    /\ ~a.returned
    /\ Milder(a.s, s) /\ a.blocked \subseteq s.streams

GoesOn(a, u) == [a EXCEPT !.s = u]

Blocks(a, u, id) == [a EXCEPT !.s = u, !.blocked = @ \cup {id}]

\* The loop goes on with another session.
LEMMA LoopOn ==
    ASSUME NEW s, NEW a, LoopOK(a, s), NEW u, Milder(u, s)
    PROVE  /\ LoopOK(GoesOn(a, u), s)
           /\ \A id \in s.streams \cap StreamId : LoopOK(Blocks(a, u, id), s)
<1>1. u \in Session
  BY DEF Milder, Mild
<1> QED BY <1>1 DEF LoopOK, GoesOn, Blocks

\* ToChannel, for a frame whose channel has room if it carries a SYN.
LEMMA ToChannelOK ==
    ASSUME NEW e \in Side, NEW s, GoodSession(s, e), NEW a, LoopOK(a, s), NEW f \in StreamFrame,
           f \in QueuedFrame \/ f.stream_id \notin a.s.streams
             \/ (a.s.life[f.stream_id] # "gone" /\ Len(a.s.chan[f.stream_id]) < ChannelCap)
    PROVE  LoopOK(ToChannel(a, f), s)
<1> DEFINE id == f.stream_id
           t == a.s
<1>0. Milder(t, s) /\ t.streams \subseteq s.streams /\ id \in StreamId
  BY DEF LoopOK, Milder, Mild, StreamFrame
<1>1. CASE id \notin t.streams
  BY <1>1 DEF ToChannel
<1>2. CASE id \in t.streams /\ t.life[id] = "gone"
  <2>1. ToChannel(a, f) = GoesOn(a, Forgets(t, id))
    BY <1>2 DEF ToChannel, Forgets, GoesOn
  <2>2. Milder(Forgets(t, id), s)
    BY <1>0, <1>2, SubstreamIsMild
  <2> QED BY <2>1, <2>2, LoopOn
<1>3. CASE id \in t.streams /\ t.life[id] # "gone" /\ Len(t.chan[id]) < ChannelCap
  <2>1. ToChannel(a, f) = GoesOn(a, Reaches(t, id, f))
    BY <1>3 DEF ToChannel, Reaches, GoesOn
  <2>2. Milder(Reaches(t, id, f), s)
    BY <1>0, <1>3, SubstreamIsMild
  <2> QED BY <2>1, <2>2, LoopOn
<1>4. CASE id \in t.streams /\ t.life[id] # "gone" /\ ~(Len(t.chan[id]) < ChannelCap)
  <2>1. ToChannel(a, f) = Blocks(a, Waits(t, f), id)
    BY <1>4 DEF ToChannel, Waits, Blocks
  <2>2. f \in QueuedFrame
    BY <1>4
  <2>3. Milder(Waits(t, f), s)
    BY <1>0, <2>2, SubstreamIsMild
  <2>4. id \in s.streams \cap StreamId
    BY <1>0, <1>4
  <2> HIDE DEF id
  <2> QED BY <2>1, <2>3, <2>4, LoopOn
<1> QED BY <1>1, <1>2, <1>3, <1>4

\* One turn of the loop, for a frame that is no SYN.
LEMMA TurnOK ==
    ASSUME NEW e \in Side, NEW s, GoodSession(s, e), NEW a, LoopOK(a, s), NEW f \in QueuedFrame
    PROVE  LoopOK(Distribute(a, e, f), s)
<1> DEFINE t == a.s
<1>0. Milder(t, s) /\ f \in StreamFrame /\ "Syn" \notin f.flags /\ ~a.returned
  BY DEF LoopOK, QueuedFrame
<1>1. CASE f.stream_id \in a.blocked
  <2>1. Distribute(a, e, f) = GoesOn(a, Waits(t, f))
    BY <1>0, <1>1 DEF Distribute, Waits, GoesOn
  <2>2. Milder(Waits(t, f), s)
    BY <1>0, SubstreamIsMild
  <2> QED BY <2>1, <2>2, LoopOn
<1>2. CASE f.stream_id \notin a.blocked
  <2>1. Distribute(a, e, f) = ToChannel(a, f)
    BY <1>0, <1>2 DEF Distribute
  <2> QED BY <1>0, <2>1, ToChannelOK
<1> QED BY <1>1, <1>2

-----------------------------------------------------------------------------
(***************************************************************************)
(* The birth of a stream                                                   *)
(***************************************************************************)

\* A session that chooses the next id keeps its parity.
LEMMA NextId ==
    ASSUME NEW n \in Nat PROVE Opener(n + 2) = Opener(n)
<1>1. (n + 2) % 2 = n % 2
  OBVIOUS
<1> QED BY <1>1 DEF Opener

\* create_stream, for an id without a past: our next one, or one of the peer's.
LEMMA CreateKeeps ==
    ASSUME NEW e \in Side, NEW s, GoodSession(s, e), ~s.ended,
           NEW id \in StreamId, s.life[id] = "none", NEW st \in {"Init", "SynReceived"},
           NEW u \in Session, u.h = s.h, u.life = s.life, u.events = s.events, u.ended = s.ended,
           SameInput(u, s), SameControl(u, s), SameWire(u, s),
           \/ st = "Init" /\ id = s.next_stream_id /\ u.next_stream_id = s.next_stream_id + 2
           \/ st = "SynReceived" /\ Opener(id) # e /\ u.next_stream_id = s.next_stream_id
    PROVE  LET t == create_stream(u, e, id, st) IN
           /\ GoodSession(t, e) /\ BornStay(t, s, e)
           /\ t.life = [s.life EXCEPT ![id] = "live"]
           /\ t.chan = s.chan /\ t.streams = s.streams \cup {id} /\ t.ended = s.ended
           /\ SameControl(t, s) /\ SameWire(t, s)
<1> DEFINE o == send_window_update(NewHandle(id, st, max_window_size(e)))
           l == [s.life EXCEPT ![id] = "live"]
           w == [u EXCEPT !.streams = @ \cup {id}, !.life[id] = "live"]
           t == create_stream(u, e, id, st)
           v == EventsOf(o, id)
<1>1. /\ SessionOK(s, e) /\ s \in Session /\ s.events \in Seq(HandleEvent)
      /\ s.next_stream_id \in Nat /\ Opener(s.next_stream_id) = e
  BY DEF GoodSession, SessionOK, Session
<1>2. t = WithHandle(w, id, o)
  BY DEF create_stream
<1>3. /\ HandleOK(o.h, e, id) /\ o.h.state # "Init" /\ o.event = "None"
      /\ \E f \in StreamFrame : /\ o.frames = <<f>> /\ f.stream_id = id
                                /\ "Syn" \in f.flags <=> st = "Init"
  BY NewHandleOutcome
<1> HIDE DEF o
<1>4. PICK f \in StreamFrame : /\ o.frames = <<f>> /\ f.stream_id = id
                               /\ "Syn" \in f.flags <=> st = "Init"
  BY <1>3
<1>5. /\ o.frames \in Seq(StreamFrame) /\ Len(o.frames) = 1 /\ o.frames[1] = f
      /\ st = "SynReceived" => o.frames \in Seq(QueuedFrame)
  BY <1>4, OneFrame DEF QueuedFrame
<1>6. /\ v \in Seq(HandleEvent)
      /\ \A x : ~ClosedIn(v, x)
      /\ st = "SynReceived" => \A x : SynEventAt(v, x) = {}
      /\ \A x : Single(SynEventAt(v, x))
      /\ \A x : x # id => SynEventAt(v, x) = {}
  <2>1. \A x : /\ EventsOf(o, id) \in Seq(HandleEvent)
               /\ ClosedIn(EventsOf(o, id), x) => x = id /\ o.event = "Closed"
               /\ o.frames \in Seq(QueuedFrame) => SynEventAt(EventsOf(o, id), x) = {}
               /\ Len(o.frames) = 1 => Single(SynEventAt(EventsOf(o, id), x))
               /\ (\A i \in 1..Len(o.frames) : o.frames[i].stream_id # x) =>
                    SynEventAt(EventsOf(o, id), x) = {}
    BY <1>3, <1>5, CallEvents
  <2>2. \A x : x # id => \A i \in 1..Len(o.frames) : o.frames[i].stream_id # x
    BY <1>4, <1>5
  <2>3. o.event # "Closed"
    BY <1>3
  <2> QED BY <1>5, <2>1, <2>2, <2>3
<1>7. /\ w \in Session /\ w.streams = s.streams \cup {id} /\ w.life = l
      /\ w.h = s.h /\ w.events = s.events /\ w.ended = s.ended /\ w.next_stream_id = u.next_stream_id
      /\ w.chan = s.chan /\ w.read_pending_frames = s.read_pending_frames
      /\ SameControl(w, s) /\ SameWire(w, s)
  <2>1. w = [u EXCEPT !.streams = s.streams \cup {id}, !.life = l]
    BY DEF SameInput
  <2>2. l \in [StreamId -> {"none", "live", "gone"}] /\ s.streams \cup {id} \in SUBSET StreamId
    BY <1>1 DEF Session
  <2> HIDE DEF w, l
  <2> QED BY <2>1, <2>2 DEF Session, SameInput, SameControl, SameWire
<1> HIDE DEF w, t, v
<1>8. /\ t \in Session
      /\ t.h = [s.h EXCEPT ![id] = o.h]
      /\ t.events = s.events \o v
      /\ t.life = l /\ t.next_stream_id = u.next_stream_id /\ t.ended = s.ended
      /\ t.streams = s.streams \cup {id} /\ t.chan = s.chan
      /\ t.read_pending_frames = s.read_pending_frames
      /\ SameControl(t, s) /\ SameWire(t, s)
  <2>1. o.h \in StreamHandle /\ EventsOf(o, id) \in Seq(HandleEvent)
    BY <1>3, <1>6 DEF HandleOK, v
  <2>0. w \in Session
    BY <1>7
  <2>2. /\ t \in Session
        /\ t.h = [w.h EXCEPT ![id] = o.h]
        /\ t.events = IF w.ended THEN w.events ELSE w.events \o EventsOf(o, id)
        /\ t.life = w.life /\ t.next_stream_id = w.next_stream_id /\ t.ended = w.ended
        /\ SameInput(t, w) /\ SameControl(t, w) /\ SameWire(t, w)
    BY <1>2, <2>0, <2>1, WithHandleIs
  <2> QED BY <1>7, <2>2 DEF v, SameInput, SameControl, SameWire
<1>9. /\ t.events \in Seq(HandleEvent)
      /\ \A x : x # id \/ st = "SynReceived" => SynEventAt(t.events, x) = SynEventAt(s.events, x)
      /\ SynEventAt(s.events, id) = {} => Single(SynEventAt(t.events, id))
      /\ \A x : ClosedIn(t.events, x) <=> ClosedIn(s.events, x)
  <2>1. \A x : /\ s.events \o v \in Seq(HandleEvent)
               /\ SynEventAt(v, x) = {} => SynEventAt(s.events \o v, x) = SynEventAt(s.events, x)
               /\ SynEventAt(s.events, x) = {} /\ Single(SynEventAt(v, x)) =>
                     Single(SynEventAt(s.events \o v, x))
               /\ ClosedIn(s.events \o v, x) <=> ClosedIn(s.events, x) \/ ClosedIn(v, x)
    BY <1>1, <1>6, MoreEvents
  <2> QED BY <1>6, <1>8, <2>1
<1>10. Wire(t) = Wire(s)
  BY <1>8 DEF Wire, SameWire
<1>11. /\ t.next_stream_id \in Nat /\ t.next_stream_id >= s.next_stream_id
       /\ Opener(t.next_stream_id) = e /\ t.next_stream_id > 0
  <2>1. s.next_stream_id > 0
    BY <1>1 DEF SessionOK
  <2>2. Opener(s.next_stream_id + 2) = Opener(s.next_stream_id)
    BY <1>1, NextId
  <2> QED BY <1>1, <1>8, <2>1, <2>2
<1>12. SessionOK(t, e)
  BY <1>1, <1>8, <1>9, <1>11 DEF SessionOK, SameWire, SameControl
<1>13. ASSUME NEW x \in StreamId PROVE StreamOK(t, e, x) /\ (Unborn(t, e, x) => Unborn(s, e, x))
  <2>0. StreamOK(s, e, x) /\ x \in Nat
    BY IdIsNat DEF GoodSession
  <2>1. CASE x # id
    <3>1. t.h[x] = s.h[x] /\ t.life[x] = s.life[x] /\ t.chan[x] = s.chan[x]
          /\ (x \in t.streams <=> x \in s.streams)
      BY <1>1, <1>8, <2>1 DEF Session
    <3>2. HandleOK(t.h[x], e, x) /\ NoneOK(t, x) /\ LiveOK(t, x) /\ ClosedOK(t, x)
      BY <1>8, <1>9, <2>0, <3>1 DEF StreamOK, NoneOK, LiveOK, Live, ClosedOK
    <3>3. SynEventAt(t.events, x) = SynEventAt(s.events, x)
      BY <1>9, <2>1
    <3>4. SynOnce(t, e, x)
      BY <1>1, <1>10, <1>11, <2>0, <3>3 DEF StreamOK, SynOnce
    <3>5. x >= t.next_stream_id => x >= s.next_stream_id
      BY <1>1, <1>11, <2>0
    <3>6. Unborn(t, e, x) => Unborn(s, e, x)
      BY <1>10, <3>3, <3>5 DEF Unborn
    <3> QED BY <2>0, <3>1, <3>2, <3>4, <3>5, <3>6 DEF StreamOK
  <2>2. CASE x = id
    <3>1. t.h[x] = o.h /\ t.life[x] = "live" /\ x \in t.streams
      BY <1>1, <1>8, <2>2 DEF Session
    <3>2. HandleOK(t.h[x], e, x) /\ NoneOK(t, x) /\ LiveOK(t, x)
      BY <1>3, <2>2, <3>1 DEF NoneOK, LiveOK, Live
    <3>3. ClosedOK(t, x)
      BY <1>9, <2>0, <2>2 DEF StreamOK, ClosedOK
    <3>4. CASE st = "Init"
      <4>1. id = s.next_stream_id /\ t.next_stream_id = s.next_stream_id + 2 /\ Opener(id) = e
        BY <1>1, <1>8, <3>4
      <4>2. SynAt(Wire(s), id) = {} /\ SynEventAt(s.events, id) = {}
        BY <1>1, <2>0, <2>2, <4>1 DEF StreamOK, SynOnce
      <4>3. SynOnce(t, e, x)
        BY <1>1, <1>9, <1>10, <2>0, <2>2, <4>1, <4>2 DEF SynOnce, Single
      <4>4. ~(x >= t.next_stream_id)
        BY <1>1, <2>2, <4>1
      <4>5. Unborn(s, e, x)
        BY <1>1, <2>2, <4>1 DEF Unborn
      <4> QED BY <3>2, <3>3, <4>3, <4>4, <4>5 DEF StreamOK
    <3>5. CASE st = "SynReceived"
      <4>1. Opener(x) # e /\ t.next_stream_id = s.next_stream_id
        BY <1>8, <2>2, <3>5
      <4>2. SynEventAt(t.events, x) = SynEventAt(s.events, x)
        BY <1>9, <3>5
      <4>3. SynOnce(t, e, x)
        BY <1>10, <2>0, <4>1, <4>2 DEF StreamOK, SynOnce
      <4> QED BY <3>2, <3>3, <4>1, <4>3 DEF StreamOK, Unborn
    <3> QED BY <3>4, <3>5
  <2> QED BY <2>1, <2>2
<1>14. GoodSession(t, e) /\ BornStay(t, s, e)
  BY <1>12, <1>13 DEF GoodSession, BornStay
<1>15. /\ t.life = l /\ t.chan = s.chan /\ t.streams = s.streams \cup {id} /\ t.ended = s.ended
       /\ SameControl(t, s) /\ SameWire(t, s)
  BY <1>8
<1> QED BY <1>14, <1>15 DEF t

\* A stream that is refused has no handle, now or later.
LEMMA RefuseKeeps ==
    ASSUME NEW e \in Side, NEW s, GoodSession(s, e), NEW id \in StreamId, s.life[id] = "none",
           Opener(id) # e
    PROVE  LET t == Refuse(s, id) IN
           /\ GoodSession(t, e) /\ BornStay(t, s, e)
           /\ t.life = [s.life EXCEPT ![id] = "gone"]
           /\ SameInput(t, s) /\ SameControl(t, s) /\ SameWire(t, s) /\ t.ended = s.ended
<1> DEFINE l == [s.life EXCEPT ![id] = "gone"]
           t == [s EXCEPT !.life = l]
<1>1. s \in Session /\ SessionOK(s, e)
  BY DEF GoodSession, SessionOK
<1>2. Refuse(s, id) = t
  BY DEF Refuse
<1>3. l \in [StreamId -> {"none", "live", "gone"}] /\ l[id] = "gone"
      /\ \A x \in StreamId : x # id => l[x] = s.life[x]
  BY <1>1 DEF Session
<1> HIDE DEF l
<1>4. /\ t \in Session /\ t.life = l /\ t.h = s.h /\ t.next_stream_id = s.next_stream_id
      /\ t.events = s.events /\ t.ended = s.ended
      /\ SameInput(t, s) /\ SameControl(t, s) /\ SameWire(t, s)
  BY <1>1, <1>3 DEF Session, SameInput, SameControl, SameWire
<1> HIDE DEF t
<1>5. SessionOK(t, e) /\ Wire(t) = Wire(s)
  BY <1>1, <1>4 DEF SessionOK, Wire, SameInput, SameControl, SameWire
<1>6. ASSUME NEW x \in StreamId PROVE StreamOK(t, e, x) /\ (Unborn(t, e, x) => Unborn(s, e, x))
  <2>0. StreamOK(s, e, x)
    BY DEF GoodSession
  <2>1. SynOnce(t, e, x) /\ (Unborn(t, e, x) => Unborn(s, e, x)) /\ HandleOK(t.h[x], e, x)
    BY <1>4, <1>5, <2>0 DEF StreamOK, SynOnce, Unborn
  <2>2. CASE x # id
    BY <1>3, <1>4, <2>0, <2>1, <2>2 DEF StreamOK, NoneOK, LiveOK, Live, ClosedOK, SameInput
  <2>3. CASE x = id
    BY <1>3, <1>4, <2>0, <2>1, <2>3 DEF StreamOK, NoneOK, LiveOK, Live, ClosedOK, SameInput
  <2> QED BY <2>2, <2>3
<1>7. GoodSession(t, e) /\ BornStay(t, s, e)
  BY <1>5, <1>6 DEF GoodSession, BornStay
<1> QED BY <1>2, <1>4, <1>7 DEF l

\* Nothing happens to the pings: at most a frame that is none joins the wire.
PingQuiet(r, s) ==
    /\ SameControl(r, s)
    /\ \/ is_dead(s) \/ s.local_go_away \/ Wire(r) = Wire(s)
       \/ \E g \in WireFrame : g.ty # "Ping" /\ Wire(r) = Append(Wire(s), g)

\* What a step of a session owes its streams, if it changes at most the life of id.
StepOK(r, s, e, id) ==
    /\ GoodSession(r, e) /\ BornStay(r, s, e) /\ r.ended = s.ended
    /\ \A x \in StreamId : x # id /\ s.life[x] = "none" => r.life[x] = "none"

\* A mild step is such a step.
LEMMA MildIsOK ==
    ASSUME NEW e \in Side, NEW s, NEW t, GoodSession(s, e), Mild(t, s), NEW id
    PROVE  StepOK(t, s, e, id)
<1>1. GoodSession(t, e) /\ BornStay(t, s, e)
  BY MildKeeps
<1> QED BY <1>1 DEF StepOK, Mild, SameStreams

\* Such steps in a row.
LEMMA StepTrans ==
    ASSUME NEW e, NEW id, NEW s, NEW t, NEW u, StepOK(t, s, e, id), StepOK(u, t, e, id)
    PROVE  StepOK(u, s, e, id)
BY DEF StepOK, BornStay

\* A refusal, too.
LEMMA RefuseIsOK ==
    ASSUME NEW e \in Side, NEW s, GoodSession(s, e), NEW id \in StreamId, s.life[id] = "none",
           Opener(id) # e
    PROVE  LET t == Refuse(s, id) IN
           /\ StepOK(t, s, e, id) /\ t \in Session /\ WireOK(t) /\ Wire(t) = Wire(s)
           /\ SameControl(t, s) /\ t.streams = s.streams
<1> DEFINE t == Refuse(s, id)
<1>1. /\ GoodSession(t, e) /\ BornStay(t, s, e)
      /\ t.life = [s.life EXCEPT ![id] = "gone"]
      /\ SameInput(t, s) /\ SameControl(t, s) /\ SameWire(t, s) /\ t.ended = s.ended
  BY RefuseKeeps
<1>2. s.life \in [StreamId -> {"none", "live", "gone"}]
  BY DEF GoodSession, SessionOK, Session
<1> HIDE DEF t
<1>3. \A x \in StreamId : x # id => t.life[x] = s.life[x]
  BY <1>1, <1>2
<1>4. t \in Session /\ WireOK(t) /\ Wire(t) = Wire(s) /\ t.streams = s.streams
  BY <1>1 DEF GoodSession, SessionOK, WireOK, Wire, SameWire, SameInput
<1>5. StepOK(t, s, e, id)
  BY <1>1, <1>3 DEF StepOK
<1> QED BY <1>1, <1>4, <1>5 DEF t

\* The RST that answers a SYN.
LEMMA ResetFrame ==
    ASSUME NEW id \in StreamId, NEW F \in SUBSET (Flag \ {"Syn"})
    PROVE  LET f == new_window_update(F, id, 0, InitialWindow) IN
           f \in WireFrame /\ ~IsSyn(f) /\ f.ty # "Ping"
<1>1. id \in Nat /\ InitialWindow \in Nat
  BY IdIsNat, WindowAssumption
<1> QED BY <1>1 DEF new_window_update, WireFrame, SessionFrame, IsSyn, Flag

\* RefuseAll.
LEMMA RefuseAllOK ==
    ASSUME NEW e \in Side, NEW s, GoodSession(s, e), NEW id \in StreamId, s.life[id] = "none",
           Opener(id) # e
    PROVE  LET r == send_frame(Refuse(s, id), new_window_update({"Rst"}, id, 0, InitialWindow)) IN
           StepOK(r, s, e, id) /\ SameControl(r, s)
<1> DEFINE t == Refuse(s, id)
           f == new_window_update({"Rst"}, id, 0, InitialWindow)
           r == send_frame(t, f)
<1>1. /\ StepOK(t, s, e, id) /\ t \in Session /\ WireOK(t) /\ Wire(t) = Wire(s) /\ SameControl(t, s)
  BY RefuseIsOK
<1>2. f \in WireFrame /\ ~IsSyn(f)
  <2>1. {"Rst"} \in SUBSET (Flag \ {"Syn"})
    BY DEF Flag
  <2> QED BY <2>1, ResetFrame
<1> HIDE DEF t, f
<1>3. Sent(r, t, Append(Wire(t), f))
  BY <1>1, <1>2, SendFrameSent
<1>4. Thins(Append(Wire(t), f), Wire(t))
  <2>1. Wire(t) \in Seq(WireFrame)
    BY <1>1, ConcatProperties DEF Wire, WireOK
  <2> QED BY <1>2, <2>1, ThinsAppend
<1> HIDE DEF r
<1>5. Mild(r, t) /\ GoodSession(t, e)
  BY <1>1, <1>3, <1>4, SentIsMild DEF StepOK
<1>6. StepOK(r, t, e, id)
  BY <1>5, MildIsOK
<1>7. StepOK(r, s, e, id)
  BY <1>1, <1>6, StepTrans
<1>8. SameControl(r, s)
  BY <1>1, <1>3 DEF Sent, SameControl
<1> QED BY <1>7, <1>8 DEF r, t, f

\* Rejected: the RST waits behind what is waiting.
LEMMA RejectedOK ==
    ASSUME NEW e \in Side, NEW s, GoodSession(s, e), NEW id \in StreamId, s.life[id] = "none",
           Opener(id) # e
    PROVE  LET r == Postponed(Refuse(s, id), new_window_update({"Ack", "Rst"}, id, 0, InitialWindow)) IN
           StepOK(r, s, e, id) /\ PingQuiet(r, s) /\ r \in Session /\ r.streams = s.streams
<1> DEFINE t == Refuse(s, id)
           f == new_window_update({"Ack", "Rst"}, id, 0, InitialWindow)
           w == Append(t.write_pending_frames, f)
           r == [t EXCEPT !.write_pending_frames = w]
<1>1. /\ StepOK(t, s, e, id) /\ t \in Session /\ WireOK(t) /\ Wire(t) = Wire(s) /\ SameControl(t, s)
      /\ t.streams = s.streams
  BY RefuseIsOK
<1>2. f \in WireFrame /\ ~IsSyn(f) /\ f.ty # "Ping"
  <2>1. {"Ack", "Rst"} \in SUBSET (Flag \ {"Syn"})
    BY DEF Flag
  <2> QED BY <2>1, ResetFrame
<1> HIDE DEF t, f
<1>3. w \in Seq(WireFrame) /\ t.out \in Seq(WireFrame) /\ t.write_pending_frames \in Seq(WireFrame)
  BY <1>1, <1>2, AppendProperties DEF WireOK
<1>4. /\ r \in Session /\ r.out = t.out /\ r.write_pending_frames = w
      /\ SameStreams(r, t) /\ SameInput(r, t) /\ SameControl(r, t)
  <2>1. r = Rewired(t, t.out, w)
    BY <1>1 DEF Session, Rewired
  <2> HIDE DEF w, r
  <2> QED BY <1>1, <1>3, <2>1, WithWire, ZenonT(60)
<1>5. Wire(r) = Append(Wire(t), f) /\ Thins(Wire(r), Wire(t)) /\ WireOK(r)
  <2>1. t.out \o w = Append(t.out \o t.write_pending_frames, f)
    BY <1>2, <1>3, WireAppend
  <2>2. Wire(t) \in Seq(WireFrame)
    BY <1>3, ConcatProperties DEF Wire
  <2>3. Thins(Append(Wire(t), f), Wire(t))
    BY <1>2, <2>2, ThinsAppend
  <2> HIDE DEF r, w
  <2>4. Wire(r) = Append(Wire(t), f)
    BY <1>4, <2>1 DEF Wire
  <2> QED BY <1>1, <1>3, <1>4, <2>3, <2>4 DEF WireOK
<1> HIDE DEF w, r
<1>6. Mild(r, t) /\ GoodSession(t, e)
  BY <1>1, <1>4, <1>5 DEF StepOK, GoodSession, SessionOK, Mild, SameInput, SameControl
<1>7. StepOK(r, s, e, id)
  BY <1>1, <1>6, MildIsOK, StepTrans
<1>8. PingQuiet(r, s)
  BY <1>1, <1>2, <1>4, <1>5 DEF PingQuiet, SameControl
<1>9. r \in Session /\ r.streams = s.streams
  BY <1>1, <1>4 DEF SameInput
<1> QED BY <1>7, <1>8, <1>9 DEF r, w, t, f, Postponed

\* Accepted: the stream is created, its owner will get it, and the SYN is the first
\* frame in its channel.
LEMMA AcceptedOK ==
    ASSUME NEW e \in Side, NEW s, GoodSession(s, e), ~s.ended, NEW f \in StreamFrame,
           s.life[f.stream_id] = "none", Opener(f.stream_id) # e
    PROVE  LET id == f.stream_id
               x == Announced(create_stream(s, e, id, "SynReceived"), id)
               r == Reaches(x, id, f) IN
           /\ StepOK(r, s, e, id) /\ PingQuiet(r, s)
           /\ x \in Session /\ id \in x.streams /\ x.life[id] = "live" /\ x.chan[id] = <<>>
<1> DEFINE id == f.stream_id
           c == create_stream(s, e, id, "SynReceived")
           p == Append(c.pending_streams, id)
           x == [c EXCEPT !.pending_streams = p]
           r == Reaches(x, id, f)
<1>0. id \in StreamId
  BY DEF StreamFrame
<1>1. /\ GoodSession(c, e) /\ BornStay(c, s, e)
      /\ c.life = [s.life EXCEPT ![id] = "live"]
      /\ c.chan = s.chan /\ c.streams = s.streams \cup {id} /\ c.ended = s.ended
      /\ SameControl(c, s) /\ SameWire(c, s)
  <2>1. s \in Session /\ SameInput(s, s) /\ SameControl(s, s) /\ SameWire(s, s)
    BY DEF GoodSession, SessionOK, SameInput, SameControl, SameWire
  <2> HIDE DEF id
  <2> QED BY <1>0, <2>1, CreateKeeps DEF id
<1> HIDE DEF c
<1>2. s.life \in [StreamId -> {"none", "live", "gone"}] /\ c \in Session /\ s.chan[id] = <<>>
  BY <1>0, <1>1 DEF GoodSession, SessionOK, Session, StreamOK, NoneOK
<1>3. StepOK(c, s, e, id)
  BY <1>1, <1>2 DEF StepOK
<1>4. p \in Seq(StreamId)
  BY <1>0, <1>2, AppendProperties DEF Session
<1> HIDE DEF p
<1>5. /\ x \in Session /\ SameStreams(x, c) /\ SameInput(x, c) /\ SameControl(x, c) /\ SameWire(x, c)
  BY <1>2, <1>4 DEF Session, SameStreams, SameInput, SameControl, SameWire
<1> HIDE DEF x
<1>6. Milder(x, c)
  BY <1>1, <1>5, ThinsRefl DEF Milder, Mild, GoodSession, SessionOK, WireOK, Wire,
     SameInput, SameControl, SameWire
<1>7. id \in x.streams /\ x.life[id] = "live" /\ x.chan[id] = <<>>
  BY <1>0, <1>1, <1>2, <1>5 DEF SameStreams, SameInput
<1>8. Milder(r, c)
  BY <1>1, <1>6, <1>7, SubstreamIsMild
<1> HIDE DEF r
<1>9. StepOK(r, s, e, id)
  BY <1>1, <1>3, <1>8, MildIsOK, StepTrans DEF Milder
<1>10. PingQuiet(r, s)
  BY <1>1, <1>8 DEF Milder, PingQuiet, SameControl, SameWire, Wire
<1> QED BY <1>5, <1>7, <1>9, <1>10 DEF r, x, p, c, Announced

\* The turn of the loop that meets a SYN, which is the last one.
LEMMA SynTurn ==
    ASSUME NEW e \in Side, NEW s, GoodSession(s, e), ~s.ended, NEW a, LoopOK(a, s),
           NEW f \in StreamFrame, "Syn" \in f.flags,
           s.life[f.stream_id] = "none", Opener(f.stream_id) # e
    PROVE  LET r == Distribute(a, e, f).s IN StepOK(r, s, e, f.stream_id) /\ PingQuiet(r, s)
<1> DEFINE id == f.stream_id
           t == a.s
           b == OnSyn(a, e, id)
<1>0. id \in StreamId
  BY DEF StreamFrame
<1>1. /\ Mild(t, s) /\ SameControl(t, s) /\ SameWire(t, s) /\ Wire(t) = Wire(s)
      /\ a \in [s : Session, blocked : SUBSET StreamId, returned : BOOLEAN] /\ ~a.returned
      /\ a.blocked \subseteq s.streams
  BY DEF LoopOK, Milder, Wire, SameWire
<1>2. GoodSession(t, e) /\ StepOK(t, s, e, id) /\ ~t.ended /\ t.life[id] = "none"
  BY <1>1, MildKeeps, MildIsOK DEF Mild, SameStreams
<1>3. id \notin t.streams /\ id \notin s.streams /\ id \notin a.blocked
  BY <1>0, <1>1, <1>2 DEF GoodSession, StreamOK, NoneOK
<1>4. Distribute(a, e, f) = IF b.returned THEN b ELSE ToChannel(b, f)
  BY <1>1, <1>3 DEF Distribute
<1>5. ASSUME NEW r, StepOK(r, t, e, id), PingQuiet(r, t)
      PROVE  StepOK(r, s, e, id) /\ PingQuiet(r, s)
  <2>1. StepOK(r, s, e, id)
    BY <1>2, <1>5, StepTrans
  <2>2. is_dead(t) <=> is_dead(s)
    BY <1>1 DEF is_dead, SameControl
  <2> QED BY <1>1, <1>5, <2>1, <2>2 DEF PingQuiet, SameControl
<1>6. CASE t.local_go_away
  <2> DEFINE r == send_frame(Refuse(t, id), new_window_update({"Rst"}, id, 0, InitialWindow))
  <2>1. StepOK(r, t, e, id) /\ SameControl(r, t)
    BY <1>0, <1>2, RefuseAllOK
  <2>2. b = [a EXCEPT !.s = r, !.returned = TRUE]
    BY <1>6 DEF OnSyn, RefuseAll
  <2> HIDE DEF r
  <2>3. b.returned /\ b.s = r
    BY <1>1, <2>2
  <2>4. PingQuiet(r, t)
    BY <1>6, <2>1 DEF PingQuiet
  <2> HIDE DEF b
  <2> QED BY <1>4, <1>5, <2>1, <2>3, <2>4
<1>7. CASE ~t.local_go_away /\ Cardinality(t.streams) < max_stream_count(e)
                            /\ Len(t.pending_streams) < accept_backlog
  <2> DEFINE x == Announced(create_stream(t, e, id, "SynReceived"), id)
             r == Reaches(x, id, f)
  <2>1. /\ StepOK(r, t, e, id) /\ PingQuiet(r, t)
        /\ x \in Session /\ id \in x.streams /\ x.life[id] = "live" /\ x.chan[id] = <<>>
    BY <1>2, AcceptedOK
  <2>2. b = [a EXCEPT !.s = x]
    BY <1>3, <1>7 DEF OnSyn, Accepted
  <2> HIDE DEF x
  <2>3. b.s = x /\ ~b.returned /\ b \in [s : Session, blocked : SUBSET StreamId, returned : BOOLEAN]
    BY <1>1, <2>1, <2>2
  <2> HIDE DEF b
  <2>4. ToChannel(b, f) = [b EXCEPT !.s = r]
    <3>1. Len(x.chan[id]) = 0 /\ 0 < ChannelCap
      BY <2>1, SessionAssumption
    <3>2. id \in b.s.streams /\ b.s.life[id] # "gone" /\ Len(b.s.chan[id]) < ChannelCap
      BY <2>1, <2>3, <3>1
    <3> QED BY <2>3, <3>2 DEF ToChannel, Reaches
  <2> HIDE DEF r
  <2>5. ToChannel(b, f).s = r
    BY <2>3, <2>4
  <2> QED BY <1>4, <1>5, <2>1, <2>3, <2>5
<1>8. CASE ~t.local_go_away /\ ~(Cardinality(t.streams) < max_stream_count(e)
                                 /\ Len(t.pending_streams) < accept_backlog)
  <2> DEFINE r == Postponed(Refuse(t, id), new_window_update({"Ack", "Rst"}, id, 0, InitialWindow))
  <2>1. StepOK(r, t, e, id) /\ PingQuiet(r, t) /\ r \in Session /\ r.streams = t.streams
    BY <1>0, <1>2, RejectedOK
  <2>2. b = [a EXCEPT !.s = r]
    BY <1>8 DEF OnSyn, Rejected
  <2> HIDE DEF r
  <2>3. b.s = r /\ ~b.returned
    BY <1>1, <2>1, <2>2
  <2> HIDE DEF b
  <2>4. ToChannel(b, f) = b
    <3>1. id \notin b.s.streams
      BY <1>3, <2>1, <2>3
    <3> QED BY <3>1 DEF ToChannel
  <2> QED BY <1>4, <1>5, <2>1, <2>3, <2>4
<1> QED BY <1>6, <1>7, <1>8

\* The loop starts well.
LEMMA LoopStart ==
    ASSUME NEW e \in Side, NEW s, GoodSession(s, e), NEW q \in Seq(Frame)
    PROVE  LoopOK(Undistributed([s EXCEPT !.read_pending_frames = q]), s)
<1> DEFINE t == [s EXCEPT !.read_pending_frames = <<>>]
           v == [s EXCEPT !.read_pending_frames = q]
<1>1. s \in Session /\ SessionOK(s, e)
  BY DEF GoodSession, SessionOK
<1>2. [v EXCEPT !.read_pending_frames = <<>>] = t
  BY <1>1 DEF Session
<1>3. <<>> \in Seq(QueuedFrame) /\ <<>> \in Seq(Frame)
  BY OneFrame
<1>4. /\ t \in Session /\ SameStreams(t, s) /\ SameControl(t, s) /\ SameWire(t, s)
      /\ t.streams = s.streams /\ t.chan = s.chan /\ t.read_pending_frames = <<>>
  BY <1>1, <1>3 DEF Session, SameStreams, SameControl, SameWire
<1>5. Undistributed(v) = [s |-> t, blocked |-> {}, returned |-> FALSE]
  BY <1>2 DEF Undistributed
<1> HIDE DEF t, v
<1>6. Milder(t, s)
  BY <1>1, <1>3, <1>4, ThinsRefl DEF Milder, Mild, SessionOK, WireOK, Wire, SameControl, SameWire
<1>7. LoopOK(Undistributed(v), s)
  BY <1>4, <1>5, <1>6 DEF LoopOK
<1> QED BY <1>7 DEF v

\* The loop over frames that are no SYNs.
LEMMA LoopGoesOn ==
    ASSUME NEW e \in Side, NEW s, GoodSession(s, e), NEW q \in Seq(Frame), NEW m \in 0..Len(q),
           \A n \in 1..m : q[n] \in QueuedFrame,
           NEW g, g[0] = Undistributed([s EXCEPT !.read_pending_frames = q]),
           \A n \in 1..Len(q) : g[n] = Distribute(g[n - 1], e, q[n])
    PROVE  LoopOK(g[m], s)
<1> DEFINE T == {n \in 0..m : LoopOK(g[n], s)}
<1>0. Len(q) \in Nat /\ m \in Nat
  BY LenProperties
<1>1. 0 \in T
  BY <1>0, LoopStart
<1>2. ASSUME NEW n \in 0..(m - 1), n \in T PROVE n + 1 \in T
  <2>1. n + 1 \in 1..m /\ n + 1 \in 1..Len(q) /\ (n + 1) - 1 = n /\ n + 1 \in 0..m
    BY <1>0
  <2>2. g[n + 1] = Distribute(g[n], e, q[n + 1])
    BY <2>1
  <2>3. LoopOK(g[n], s) /\ q[n + 1] \in QueuedFrame
    BY <1>2, <2>1
  <2>4. LoopOK(g[n + 1], s)
    BY <2>2, <2>3, TurnOK
  <2> QED BY <2>1, <2>4
<1> HIDE DEF T
<1>3. \A n \in 0..m : n \in T
  BY <1>0, <1>1, <1>2, Upwards
<1>4. m \in T
  BY <1>0, <1>3
<1> QED BY <1>4 DEF T

\* What waits is offered again: mild.
LEMMA DistributeIsMild ==
    ASSUME NEW e \in Side, NEW s, GoodSession(s, e)
    PROVE  Milder(distribute_to_substream(s, e), s)
<1> DEFINE q == s.read_pending_frames
<1>1. /\ s \in Session /\ q \in Seq(QueuedFrame) /\ Len(q) \in Nat /\ q \in Seq(Frame)
      /\ \A n \in 1..Len(q) : q[n] \in QueuedFrame
  BY LenProperties, ElementOfSeq DEF GoodSession, SessionOK, Session
<1>2. PICK g : /\ g[0] = Undistributed(s)
               /\ \A n \in 1..Len(q) : g[n] = Distribute(g[n - 1], e, q[n])
               /\ distribute_to_substream(s, e) = g[Len(q)].s
  BY <1>1, LoopIs
<1>3. s = [s EXCEPT !.read_pending_frames = q]
  BY <1>1 DEF Session
<1> HIDE DEF q
<1>4. Len(q) \in 0..Len(q)
  BY <1>1
<1>5. LoopOK(g[Len(q)], s)
  BY <1>1, <1>2, <1>3, <1>4, LoopGoesOn
<1> QED BY <1>2, <1>5 DEF LoopOK

\* A frame of a stream arrives.
LEMMA FrameArrives ==
    ASSUME NEW e \in Side, NEW s, GoodSession(s, e), ~s.ended, NEW f \in StreamFrame,
           "Syn" \in f.flags => s.life[f.stream_id] = "none" /\ Opener(f.stream_id) # e
    PROVE  LET r == distribute_to_substream([s EXCEPT !.read_pending_frames = Append(@, f)], e) IN
           /\ StepOK(r, s, e, f.stream_id) /\ PingQuiet(r, s)
           /\ "Syn" \notin f.flags => \A x \in StreamId : s.life[x] = "none" => r.life[x] = "none"
<1> DEFINE p == s.read_pending_frames
           q == Append(p, f)
           v == [s EXCEPT !.read_pending_frames = q]
           r == distribute_to_substream(v, e)
<1>1. /\ s \in Session /\ p \in Seq(QueuedFrame) /\ p \in Seq(Frame) /\ Len(p) \in Nat /\ f \in Frame
      /\ \A n \in 1..Len(p) : p[n] \in QueuedFrame
  BY LenProperties, ElementOfSeq DEF GoodSession, SessionOK, Session, StreamFrame
<1>2. /\ q \in Seq(Frame) /\ Len(q) = Len(p) + 1
      /\ \A n \in 1..Len(p) : q[n] = p[n]
      /\ q[Len(p) + 1] = f
      /\ \A i \in 1..(Len(p) + 1) : i \notin 1..Len(p) => i = Len(p) + 1
  BY <1>1, AppendAt
<1>3. v.read_pending_frames = q
  BY <1>1 DEF Session
<1> HIDE DEF p, q, v
<1>4. PICK g : /\ g[0] = Undistributed(v)
               /\ \A n \in 1..Len(q) : g[n] = Distribute(g[n - 1], e, q[n])
               /\ r = g[Len(q)].s
  <2>1. Len(v.read_pending_frames) \in Nat
    BY <1>1, <1>2, <1>3
  <2>2. PICK g : /\ g[0] = Undistributed(v)
                 /\ \A n \in 1..Len(v.read_pending_frames) :
                       g[n] = Distribute(g[n - 1], e, v.read_pending_frames[n])
                 /\ distribute_to_substream(v, e) = g[Len(v.read_pending_frames)].s
    BY <2>1, LoopIs
  <2> QED BY <1>3, <2>2
<1>5. LoopOK(g[Len(p)], s)
  <2>1. Len(p) \in 0..Len(q) /\ \A n \in 1..Len(p) : q[n] \in QueuedFrame
    BY <1>1, <1>2
  <2> QED BY <1>2, <1>4, <2>1, LoopGoesOn DEF v
<1>6. r = Distribute(g[Len(p)], e, f).s
  <2>1. Len(q) \in 1..Len(q) /\ Len(q) - 1 = Len(p)
    BY <1>1, <1>2
  <2> QED BY <1>2, <1>4, <2>1
<1> HIDE DEF r
<1>7. CASE "Syn" \in f.flags
  BY <1>5, <1>6, <1>7, SynTurn DEF r, v, q, p
<1>8. CASE "Syn" \notin f.flags
  <2>1. f \in QueuedFrame
    BY <1>8 DEF QueuedFrame
  <2>2. Milder(r, s)
    BY <1>5, <1>6, <2>1, TurnOK DEF LoopOK
  <2>3. StepOK(r, s, e, f.stream_id)
    BY <2>2, MildIsOK DEF Milder
  <2>4. PingQuiet(r, s)
    BY <2>2 DEF Milder, PingQuiet, Wire, SameWire
  <2>5. \A x \in StreamId : s.life[x] = "none" => r.life[x] = "none"
    BY <2>2 DEF Milder, Mild, SameStreams
  <2> QED BY <2>3, <2>4, <2>5 DEF r, v, q, p
<1> QED BY <1>7, <1>8

-----------------------------------------------------------------------------
(***************************************************************************)
(* The steps of a session                                                  *)
(***************************************************************************)

\* What a step owes the streams: only of our own ids a new one may begin ...
StreamsKept(t, s, e) ==
    /\ GoodSession(t, e) /\ BornStay(t, s, e)
    /\ \A x \in StreamId : Opener(x) # e /\ s.life[x] = "none" => t.life[x] = "none"

\* ... and the pings.
PingsKept(t, s) ==
    /\ s.ended => t.ended
    /\ s.local_go_away => t.local_go_away
    /\ t.eof = s.eof
    /\ \/ t.ended \/ t.local_go_away \/ is_dead(s)
       \/ /\ t.pings = s.pings /\ t.ping_id = s.ping_id
          /\ \/ Wire(t) = Wire(s)
             \/ \E g \in WireFrame : g.ty # "Ping" /\ Wire(t) = Append(Wire(s), g)

\* A mild step keeps the streams.
LEMMA MildStep ==
    ASSUME NEW e \in Side, NEW s, NEW t, GoodSession(s, e), Mild(t, s)
    PROVE  StreamsKept(t, s, e)
<1>1. GoodSession(t, e) /\ BornStay(t, s, e)
  BY MildKeeps
<1> QED BY <1>1 DEF StreamsKept, Mild, SameStreams

\* A quiet step keeps the pings.
LEMMA QuietStep ==
    ASSUME NEW s, NEW t, PingQuiet(t, s), t.ended = s.ended
    PROVE  PingsKept(t, s)
BY DEF PingQuiet, PingsKept, SameControl

\* A step that changes control fields only is mild.
LEMMA ControlIsMild ==
    ASSUME NEW e \in Side, NEW s, GoodSession(s, e), NEW t \in Session,
           SameStreams(t, s), SameInput(t, s), SameWire(t, s), t.remote_go_away => t.local_go_away
    PROVE  Mild(t, s) /\ Wire(t) = Wire(s)
<1>1. Wire(t) = Wire(s) /\ WireOK(t) /\ Thins(Wire(t), Wire(s))
  BY ThinsRefl DEF Wire, SameWire, WireOK, GoodSession, SessionOK
<1> QED BY <1>1 DEF Mild, GoodSession, SessionOK, SameInput

\* flush.
LEMMA FlushKeeps ==
    ASSUME NEW e \in Side, NEW s, GoodSession(s, e)
    PROVE  StreamsKept(flush(s, e), s, e) /\ PingsKept(flush(s, e), s)
<1> DEFINE u == send_all(s)
           t == distribute_to_substream(u, e)
<1>1. s \in Session /\ WireOK(s) /\ Thins(Wire(s), Wire(s))
  BY ThinsRefl DEF GoodSession, SessionOK, WireOK
<1>2. CASE flush(s, e) = s
  <2>1. Mild(s, s) /\ PingQuiet(s, s)
    <3>1. SameStreams(s, s) /\ SameInput(s, s) /\ SameWire(s, s) /\ SameControl(s, s)
      BY DEF SameStreams, SameInput, SameWire, SameControl
    <3>2. s.remote_go_away => s.local_go_away
      BY DEF GoodSession, SessionOK
    <3> QED BY <1>1, <3>1, <3>2, ControlIsMild DEF PingQuiet
  <2> QED BY <1>2, <2>1, MildStep, QuietStep
<1>3. CASE flush(s, e) = t
  <2>1. Sent(u, s, Wire(s))
    BY <1>1, SendAllSent
  <2> HIDE DEF u
  <2>2. Mild(u, s)
    BY <1>1, <2>1, SentIsMild
  <2>3. GoodSession(u, e)
    BY <2>2, MildKeeps
  <2>4. Milder(t, u)
    BY <2>3, DistributeIsMild
  <2> HIDE DEF t
  <2>5. Mild(t, s)
    BY <2>2, <2>4, MildTrans DEF Milder
  <2>6. PingQuiet(t, s) /\ t.ended = s.ended
    BY <2>1, <2>4, <2>5 DEF PingQuiet, Sent, Milder, Mild, SameControl, SameStreams, SameWire, Wire
  <2> QED BY <1>3, <2>5, <2>6, MildStep, QuietStep
<1> QED BY <1>2, <1>3 DEF flush

\* poll_next returns a stream.
LEMMA AcceptKeeps ==
    ASSUME NEW e \in Side, NEW s, GoodSession(s, e), s.pending_streams # <<>>
    PROVE  LET t == [s EXCEPT !.pending_streams = Tail(@)] IN
           StreamsKept(t, s, e) /\ PingsKept(t, s)
<1> DEFINE p == Tail(s.pending_streams)
           t == [s EXCEPT !.pending_streams = p]
<1>1. s \in Session /\ p \in Seq(StreamId) /\ (s.remote_go_away => s.local_go_away)
  BY TailAt DEF GoodSession, SessionOK, Session
<1> HIDE DEF p
<1>2. /\ t \in Session /\ SameStreams(t, s) /\ SameInput(t, s) /\ SameControl(t, s) /\ SameWire(t, s)
      /\ t.ended = s.ended /\ t.remote_go_away = s.remote_go_away /\ t.local_go_away = s.local_go_away
  BY <1>1 DEF Session, SameStreams, SameInput, SameControl, SameWire
<1> HIDE DEF t
<1>3. Mild(t, s) /\ PingQuiet(t, s)
  BY <1>1, <1>2, ControlIsMild DEF PingQuiet
<1>4. StreamsKept(t, s, e) /\ PingsKept(t, s)
  BY <1>2, <1>3, MildStep, QuietStep
<1> QED BY <1>4 DEF t, p

\* open_stream.
LEMMA OpenKeeps ==
    ASSUME NEW e \in Side, NEW s, GoodSession(s, e), ~s.ended, CanOpen(s)
    PROVE  StreamsKept(open_stream(s, e), s, e) /\ PingsKept(open_stream(s, e), s)
<1> DEFINE id == s.next_stream_id
           n == id + 2
           u == [s EXCEPT !.next_stream_id = n]
           t == create_stream(u, e, id, "Init")
<1>1. s \in Session /\ SessionOK(s, e) /\ id \in Nat /\ Opener(id) = e /\ id > 0 /\ MaxStreamId \in Nat
  BY IdIsNat DEF GoodSession, SessionOK, Session
<1>2. id \in StreamId
  BY <1>1 DEF CanOpen, Exhausted, StreamId
<1>3. s.life[id] = "none" /\ id \notin s.streams
  BY <1>1, <1>2 DEF GoodSession, StreamOK, NoneOK
<1>4. open_stream(s, e) = t
  BY <1>3 DEF open_stream
<1>0. n \in Nat /\ id = s.next_stream_id /\ n = id + 2
  BY <1>1
<1> HIDE DEF n
<1>5. /\ u \in Session /\ u.h = s.h /\ u.life = s.life /\ u.events = s.events /\ u.ended = s.ended
      /\ SameInput(u, s) /\ SameControl(u, s) /\ SameWire(u, s) /\ u.next_stream_id = n
  BY <1>0, <1>1 DEF Session, SameInput, SameControl, SameWire
<1>6. s.life \in [StreamId -> {"none", "live", "gone"}]
  BY <1>1 DEF Session
<1> HIDE DEF id, u
<1>7. /\ GoodSession(t, e) /\ BornStay(t, s, e)
      /\ t.life = [s.life EXCEPT ![id] = "live"]
      /\ t.ended = s.ended /\ SameControl(t, s) /\ SameWire(t, s)
  BY <1>0, <1>2, <1>3, <1>5, CreateKeeps
<1> HIDE DEF t
<1>8. StreamsKept(t, s, e)
  BY <1>1, <1>6, <1>7 DEF StreamsKept
<1>9. PingQuiet(t, s)
  BY <1>7 DEF PingQuiet, SameWire, Wire
<1> QED BY <1>4, <1>7, <1>8, <1>9, QuietStep

\* send_go_away_with_code.
LEMMA GoAwayKeeps ==
    ASSUME NEW e \in Side, NEW s, GoodSession(s, e), NEW c \in Nat
    PROVE  LET t == send_go_away_with_code(s, c) IN
           StreamsKept(t, s, e) /\ PingsKept(t, s)
<1> DEFINE t == send_go_away_with_code(s, c)
<1>1. s \in Session /\ WireOK(s)
  BY DEF GoodSession, SessionOK, WireOK
<1>2. GoneAway(t, s)
  BY <1>1, GoAwaySent
<1> HIDE DEF t
<1>3. StreamsKept(t, s, e)
  BY <1>2, GoneAwayIsMild, MildStep
<1>4. PingsKept(t, s)
  BY <1>2 DEF PingsKept, GoneAway, SameStreams
<1> QED BY <1>3, <1>4 DEF t

\* handle_go_away.
LEMMA PeerGoAwayKeeps ==
    ASSUME NEW e \in Side, NEW s, GoodSession(s, e)
    PROVE  LET t == handle_go_away(s) IN
           StreamsKept(t, s, e) /\ t.ended = s.ended /\ t.local_go_away /\ t.eof = s.eof
<1> DEFINE w == Rewired(s, s.out, <<>>)
           u == [w EXCEPT !.remote_go_away = TRUE]
           v == send_go_away_with_code(u, 0)
           t == handle_go_away(s)
<1>1. /\ s \in Session /\ s.out \in Seq(WireFrame) /\ Len(s.out) <= SinkCap
      /\ s.write_pending_frames \in Seq(WireFrame) /\ <<>> \in Seq(WireFrame)
  BY OneFrame DEF GoodSession, SessionOK
<1>2. /\ w \in Session /\ w.out = s.out /\ w.write_pending_frames = <<>>
      /\ SameStreams(w, s) /\ SameInput(w, s) /\ SameControl(w, s)
  BY <1>1, WithWire
<1>3. [s EXCEPT !.remote_go_away = TRUE, !.write_pending_frames = <<>>] = u
  BY <1>1 DEF Rewired, Session
<1>4. t = IF s.local_go_away THEN u ELSE v
  BY <1>3 DEF handle_go_away
<1> HIDE DEF w
<1>5. /\ u \in Session /\ SameStreams(u, w) /\ SameInput(u, w) /\ SameWire(u, w)
      /\ u.eof = w.eof /\ u.local_go_away = w.local_go_away
  BY <1>2 DEF Session, SameStreams, SameInput, SameWire
<1> HIDE DEF u, t
<1>6. /\ SameStreams(u, s) /\ SameInput(u, s) /\ WireOK(u) /\ Wire(u) = s.out
      /\ u.eof = s.eof /\ u.local_go_away = s.local_go_away
  <2>1. s.out \o <<>> = s.out
    BY <1>1, ConcatEmptySeq
  <2> QED BY <1>1, <1>2, <1>5, <2>1 DEF SameStreams, SameInput, SameWire, WireOK, Wire, SameControl
<1>7. Thins(Wire(u), Wire(s))
  BY <1>1, <1>6, ThinsFirst DEF Wire
<1>8. CASE s.local_go_away
  <2>1. Mild(u, s)
    BY <1>5, <1>6, <1>7, <1>8 DEF Mild, SameInput, GoodSession, SessionOK
  <2> QED BY <1>4, <1>6, <1>8, <2>1, MildStep DEF SameStreams, t
<1>9. CASE ~s.local_go_away
  <2>1. GoneAway(v, u)
    BY <1>5, <1>6, GoAwaySent
  <2> HIDE DEF v
  <2>2. Thins(Wire(v), Wire(s))
    BY <1>7, <2>1, ThinsTrans DEF GoneAway
  <2>3. SameStreams(v, s) /\ SameInput(v, s) /\ v.local_go_away /\ v.eof = s.eof
    BY <1>6, <2>1 DEF GoneAway, SameStreams, SameInput
  <2>4. Mild(v, s)
    BY <2>1, <2>2, <2>3 DEF GoneAway, Mild, SameInput, GoodSession, SessionOK
  <2> QED BY <1>4, <1>9, <2>3, <2>4, MildStep DEF SameStreams, t
<1> QED BY <1>8, <1>9

\* A frame that is no SYN is sent.
LEMMA SendKeeps ==
    ASSUME NEW e \in Side, NEW s, GoodSession(s, e), NEW f \in WireFrame, ~IsSyn(f)
    PROVE  LET t == send_frame(s, f) IN
           /\ Mild(t, s) /\ SameControl(t, s) /\ t.ended = s.ended
           /\ ~is_dead(s) => Wire(t) = Append(Wire(s), f)
<1> DEFINE t == send_frame(s, f)
<1>1. s \in Session /\ WireOK(s) /\ Wire(s) \in Seq(WireFrame)
  BY ConcatProperties DEF GoodSession, SessionOK, WireOK, Wire
<1>2. Sent(t, s, Append(Wire(s), f))
  BY <1>1, SendFrameSent
<1>3. Thins(Append(Wire(s), f), Wire(s))
  BY <1>1, ThinsAppend
<1> HIDE DEF t
<1>4. Mild(t, s)
  BY <1>2, <1>3, SentIsMild
<1> QED BY <1>2, <1>4 DEF Sent, SameStreams, t

\* handle_ping.
LEMMA PingKeeps ==
    ASSUME NEW e \in Side, NEW s, GoodSession(s, e), NEW f \in WireFrame
    PROVE  LET t == handle_ping(s, f) IN
           /\ StreamsKept(t, s, e) /\ t.ended = s.ended
           /\ t.local_go_away = s.local_go_away /\ t.eof = s.eof /\ t.ping_id = s.ping_id
           /\ "Syn" \in f.flags => /\ t.pings = s.pings
                                   /\ ~is_dead(s) => Wire(t) = Append(Wire(s), new_ping({"Ack"}, f.length))
           /\ "Syn" \notin f.flags => /\ t.pings = {id \in s.pings : id > f.length}
                                      /\ Wire(t) = Wire(s)
<1> DEFINE t == handle_ping(s, f)
<1>1. CASE "Syn" \in f.flags
  <2> DEFINE g == new_ping({"Ack"}, f.length)
             u == send_frame(s, g)
  <2>1. g \in WireFrame /\ ~IsSyn(g)
    <3>1. f.length \in Nat /\ {"Ack"} \in {{"Syn"}, {"Ack"}}
      BY DEF WireFrame, SessionFrame
    <3> QED BY <3>1, ControlFrames
  <2> HIDE DEF g
  <2>2. /\ Mild(u, s) /\ SameControl(u, s) /\ u.ended = s.ended
        /\ ~is_dead(s) => Wire(u) = Append(Wire(s), g)
    BY <2>1, SendKeeps
  <2>3. t = u
    BY <1>1 DEF handle_ping, g
  <2> HIDE DEF t, u
  <2>4. StreamsKept(u, s, e)
    BY <2>2, MildStep
  <2> QED BY <1>1, <2>2, <2>3, <2>4 DEF SameControl, t, g
<1>2. CASE "Syn" \notin f.flags
  <2> DEFINE p == {id \in s.pings : id > f.length}
             u == [s EXCEPT !.pings = p]
  <2>1. s \in Session /\ p \in SUBSET Nat /\ (s.remote_go_away => s.local_go_away)
    BY DEF GoodSession, SessionOK, Session
  <2>2. t = u
    BY <1>2 DEF handle_ping
  <2> HIDE DEF p
  <2>3. /\ u \in Session /\ SameStreams(u, s) /\ SameInput(u, s) /\ SameWire(u, s)
        /\ u.pings = p /\ u.ping_id = s.ping_id /\ u.ended = s.ended
        /\ u.remote_go_away = s.remote_go_away /\ u.local_go_away = s.local_go_away /\ u.eof = s.eof
    BY <2>1 DEF Session, SameStreams, SameInput, SameWire
  <2> HIDE DEF t, u
  <2>4. StreamsKept(u, s, e) /\ Wire(u) = Wire(s)
    BY <2>1, <2>3, ControlIsMild, MildStep
  <2> QED BY <1>2, <2>2, <2>3, <2>4 DEF t, p
<1> QED BY <1>1, <1>2

\* What keep_alive leaves: ping n is sent and remembered.
Pinged(s, n) ==
    [send_frame(s, new_ping({"Syn"}, n)) EXCEPT !.ping_id = n, !.pings = s.pings \cup {n}]

\* keep_alive sends a ping.
LEMMA KeepAliveKeeps ==
    ASSUME NEW e \in Side, NEW s, GoodSession(s, e), NEW n \in Nat
    PROVE  LET f == new_ping({"Syn"}, n)
               t == Pinged(s, n) IN
           /\ StreamsKept(t, s, e) /\ t.ended = s.ended
           /\ t.local_go_away = s.local_go_away /\ t.eof = s.eof
           /\ t.ping_id = n /\ t.pings = s.pings \cup {n}
           /\ ~is_dead(s) => Wire(t) = Append(Wire(s), f)
<1> DEFINE f == new_ping({"Syn"}, n)
           u == send_frame(s, f)
           p == s.pings \cup {n}
           t == [u EXCEPT !.ping_id = n, !.pings = p]
<1>1. f \in WireFrame /\ ~IsSyn(f)
  <2>1. {"Syn"} \in {{"Syn"}, {"Ack"}}
    OBVIOUS
  <2> QED BY <2>1, ControlFrames
<1> HIDE DEF f
<1>2. /\ Mild(u, s) /\ SameControl(u, s) /\ u.ended = s.ended
      /\ ~is_dead(s) => Wire(u) = Append(Wire(s), f)
  BY <1>1, SendKeeps
<1>3. p \in SUBSET Nat /\ u \in Session /\ GoodSession(u, e) /\ (u.remote_go_away => u.local_go_away)
  BY <1>2, MildKeeps DEF GoodSession, SessionOK, Session, Mild
<1> HIDE DEF u, p
<1>4. /\ t \in Session /\ SameStreams(t, u) /\ SameInput(t, u) /\ SameWire(t, u)
      /\ t.ping_id = n /\ t.pings = p /\ t.ended = u.ended /\ t.eof = u.eof
      /\ t.local_go_away = u.local_go_away /\ t.remote_go_away = u.remote_go_away
  BY <1>3 DEF Session, SameStreams, SameInput, SameWire
<1> HIDE DEF t
<1>5. Mild(t, u) /\ Wire(t) = Wire(u)
  BY <1>3, <1>4, ControlIsMild
<1>6. StreamsKept(t, s, e)
  BY <1>2, <1>5, MildTrans, MildStep
<1> QED BY <1>2, <1>4, <1>5, <1>6 DEF SameControl, Pinged, t, u, p, f

\* The end of the socket, and the timeout after GoAway.
LEMMA ClockKeeps ==
    ASSUME NEW e \in Side, NEW s, GoodSession(s, e)
    PROVE  /\ LET t == [s EXCEPT !.eof = TRUE] IN StreamsKept(t, s, e) /\ t.ended = s.ended
           /\ s.local_go_away =>
                LET t == [s EXCEPT !.remote_go_away = TRUE] IN StreamsKept(t, s, e) /\ PingsKept(t, s)
<1>1. s \in Session /\ (s.remote_go_away => s.local_go_away)
  BY DEF GoodSession, SessionOK
<1>2. LET t == [s EXCEPT !.eof = TRUE] IN StreamsKept(t, s, e) /\ t.ended = s.ended
  <2> DEFINE t == [s EXCEPT !.eof = TRUE]
  <2>1. /\ t \in Session /\ SameStreams(t, s) /\ SameInput(t, s) /\ SameWire(t, s) /\ t.ended = s.ended
        /\ t.remote_go_away = s.remote_go_away /\ t.local_go_away = s.local_go_away
    BY <1>1 DEF Session, SameStreams, SameInput, SameWire
  <2> HIDE DEF t
  <2>2. StreamsKept(t, s, e)
    BY <1>1, <2>1, ControlIsMild, MildStep
  <2> QED BY <2>1, <2>2 DEF t
<1>3. ASSUME s.local_go_away
      PROVE  LET t == [s EXCEPT !.remote_go_away = TRUE] IN StreamsKept(t, s, e) /\ PingsKept(t, s)
  <2> DEFINE t == [s EXCEPT !.remote_go_away = TRUE]
  <2>1. /\ t \in Session /\ SameStreams(t, s) /\ SameInput(t, s) /\ SameWire(t, s) /\ t.ended = s.ended
        /\ t.local_go_away = s.local_go_away /\ t.eof = s.eof
    BY <1>1 DEF Session, SameStreams, SameInput, SameWire
  <2> HIDE DEF t
  <2>2. StreamsKept(t, s, e)
    BY <1>3, <2>1, ControlIsMild, MildStep
  <2>3. PingsKept(t, s)
    BY <1>3, <2>1 DEF PingsKept
  <2> QED BY <2>2, <2>3 DEF t
<1> QED BY <1>2, <1>3

\* One frame more on the wire: where a SYN of x can be.
LEMMA SynAppend ==
    ASSUME NEW q \in Seq(WireFrame), NEW f \in WireFrame, NEW x
    PROVE  /\ SynAt(Append(q, f), x) # {} => SynAt(q, x) # {} \/ (IsSyn(f) /\ f.stream_id = x)
           /\ ~(IsSyn(f) /\ f.stream_id = x) => SynAt(Append(q, f), x) = SynAt(q, x)
           /\ SynAt(q, x) = {} => Single(SynAt(Append(q, f), x))
<1> DEFINE p == Append(q, f)
<1>1. /\ Len(p) = Len(q) + 1 /\ p[Len(q) + 1] = f
      /\ \A i \in 1..Len(q) : p[i] = q[i]
      /\ \A i \in 1..(Len(q) + 1) : i \notin 1..Len(q) => i = Len(q) + 1
      /\ \A i \in 1..Len(q) : i \in 1..(Len(q) + 1)
  <2>1. Len(q) \in Nat
    BY LenProperties
  <2>2. \A i \in 1..Len(q) : i \in 1..(Len(q) + 1)
    BY <2>1
  <2> QED BY <2>2, AppendAt
<1> HIDE DEF p
<1>2. \A i \in SynAt(p, x) : i \in SynAt(q, x) \/ (i = Len(q) + 1 /\ IsSyn(f) /\ f.stream_id = x)
  BY <1>1 DEF SynAt
<1>3. \A i \in SynAt(q, x) : i \in SynAt(p, x)
  BY <1>1 DEF SynAt
<1>4. /\ SynAt(p, x) # {} => SynAt(q, x) # {} \/ (IsSyn(f) /\ f.stream_id = x)
      /\ ~(IsSyn(f) /\ f.stream_id = x) => SynAt(p, x) = SynAt(q, x)
      /\ SynAt(q, x) = {} => Single(SynAt(p, x))
  BY <1>2, <1>3 DEF Single
<1> QED BY <1>4 DEF p

\* The SYN of an id that the session has chosen goes from a handle's event to the
\* wire.
LEMMA SynSent ==
    ASSUME NEW e \in Side, NEW s, GoodSession(s, e), NEW f \in WireFrame, NEW id, id = f.stream_id,
           SynAt(Wire(s), id) = {}, SynEventAt(s.events, id) = {},
           Opener(id) = e, id < s.next_stream_id
    PROVE  LET t == send_frame(s, f) IN
           /\ GoodSession(t, e) /\ SameStreams(t, s) /\ SameControl(t, s)
           /\ \A x \in StreamId : Unborn(t, e, x) => Unborn(s, e, x) \/ x = id
           /\ ~is_dead(s) => Wire(t) = Append(Wire(s), f)
<1> DEFINE q == Append(Wire(s), f)
           t == send_frame(s, f)
<1>1. s \in Session /\ WireOK(s) /\ Wire(s) \in Seq(WireFrame)
  BY ConcatProperties DEF GoodSession, SessionOK, WireOK, Wire
<1>2. Sent(t, s, q)
  BY <1>1, SendFrameSent
<1>3. \A x : /\ SynAt(q, x) # {} => SynAt(Wire(s), x) # {} \/ (IsSyn(f) /\ f.stream_id = x)
             /\ ~(IsSyn(f) /\ f.stream_id = x) => SynAt(q, x) = SynAt(Wire(s), x)
             /\ SynAt(Wire(s), x) = {} => Single(SynAt(q, x))
  BY <1>1, SynAppend
<1> HIDE DEF q, t
<1>4. SameStreams(t, s) /\ SameInput(t, s) /\ SameControl(t, s)
  BY <1>2 DEF Sent
<1>5. SessionOK(t, e)
  BY <1>2, <1>4 DEF SessionOK, GoodSession, Sent, WireOK, SameStreams, SameInput, SameControl
<1>6. ASSUME NEW x \in StreamId
      PROVE  StreamOK(t, e, x) /\ (Unborn(t, e, x) => Unborn(s, e, x) \/ x = id)
  <2>0. StreamOK(s, e, x)
    BY DEF GoodSession
  <2>1. /\ Single(SynAt(q, x)) => Single(SynAt(Wire(t), x))
        /\ SynAt(Wire(t), x) # {} => SynAt(q, x) # {}
    BY <1>2 DEF Sent, Thins
  <2>2. HandleOK(t.h[x], e, x) /\ NoneOK(t, x) /\ LiveOK(t, x) /\ ClosedOK(t, x)
    BY <1>4, <2>0 DEF StreamOK, NoneOK, LiveOK, Live, ClosedOK, SameStreams, SameInput
  <2>3. CASE x = id
    <3>1. SynOnce(t, e, x)
      BY <1>3, <1>4, <2>1, <2>3 DEF SynOnce, SameStreams, Single
    <3> QED BY <1>4, <2>0, <2>2, <2>3, <3>1 DEF StreamOK, SameStreams
  <2>4. CASE x # id
    <3>1. SynAt(q, x) = SynAt(Wire(s), x)
      BY <1>3, <2>4
    <3>2. SynOnce(t, e, x)
      BY <1>4, <2>0, <2>1, <3>1 DEF StreamOK, SynOnce, SameStreams
    <3>3. Unborn(t, e, x) => Unborn(s, e, x)
      BY <1>4, <2>1, <3>1 DEF Unborn, SameStreams
    <3> QED BY <1>4, <2>0, <2>2, <3>2, <3>3 DEF StreamOK, SameStreams
  <2> QED BY <2>3, <2>4
<1>7. GoodSession(t, e) /\ \A x \in StreamId : Unborn(t, e, x) => Unborn(s, e, x) \/ x = id
  BY <1>5, <1>6 DEF GoodSession
<1> QED BY <1>2, <1>4, <1>7 DEF Sent, t, q

\* The session takes the first of its events ...
LEMMA EventTaken ==
    ASSUME NEW e \in Side, NEW s, GoodSession(s, e), s.events # <<>>
    PROVE  LET u == [s EXCEPT !.events = Tail(@)] IN
           /\ GoodSession(u, e) /\ BornStay(u, s, e) /\ u.events = Tail(s.events)
           /\ u.life = s.life /\ u.h = s.h /\ u.streams = s.streams /\ u.ended = s.ended
           /\ u.next_stream_id = s.next_stream_id
           /\ SameControl(u, s) /\ Wire(u) = Wire(s)
<1> DEFINE v == Tail(s.events)
           u == [s EXCEPT !.events = v]
<1>1. s \in Session /\ SessionOK(s, e) /\ s.events \in Seq(HandleEvent)
  BY DEF GoodSession, SessionOK
<1>2. \A x : /\ v \in Seq(HandleEvent)
             /\ Single(SynEventAt(s.events, x)) => Single(SynEventAt(v, x))
             /\ SynEventAt(v, x) # {} => SynEventAt(s.events, x) # {}
             /\ ClosedIn(v, x) => ClosedIn(s.events, x)
  BY <1>1, FewerEvents
<1>3. v \in Seq(StreamEvent)
  <2>1. HandleEvent \subseteq StreamEvent
    BY DEF HandleEvent
  <2> HIDE DEF v
  <2> QED BY <1>2, <2>1, SeqMonotonic
<1> HIDE DEF v
<1>4. /\ u \in Session /\ u.events = v /\ u.life = s.life /\ u.h = s.h /\ u.ended = s.ended
      /\ u.next_stream_id = s.next_stream_id
      /\ SameInput(u, s) /\ SameControl(u, s) /\ SameWire(u, s)
  BY <1>1, <1>3 DEF Session, SameInput, SameControl, SameWire
<1> HIDE DEF u
<1>5. SessionOK(u, e) /\ Wire(u) = Wire(s) /\ u.streams = s.streams
  BY <1>1, <1>2, <1>4 DEF SessionOK, Wire, SameInput, SameControl, SameWire
<1>6. ASSUME NEW x \in StreamId PROVE StreamOK(u, e, x) /\ (Unborn(u, e, x) => Unborn(s, e, x))
  <2>0. StreamOK(s, e, x)
    BY DEF GoodSession
  <2>1. HandleOK(u.h[x], e, x) /\ NoneOK(u, x) /\ LiveOK(u, x)
    BY <1>4, <2>0 DEF StreamOK, NoneOK, LiveOK, Live, SameInput
  <2>2. ClosedOK(u, x)
    BY <1>2, <1>4, <2>0 DEF StreamOK, ClosedOK
  <2>3. SynOnce(u, e, x)
    BY <1>2, <1>4, <1>5, <2>0 DEF StreamOK, SynOnce
  <2>4. Unborn(u, e, x) => Unborn(s, e, x)
    BY <1>2, <1>4, <1>5 DEF Unborn
  <2> QED BY <1>4, <2>0, <2>1, <2>2, <2>3, <2>4 DEF StreamOK
<1>7. GoodSession(u, e) /\ BornStay(u, s, e)
  BY <1>5, <1>6 DEF GoodSession, BornStay
<1> QED BY <1>4, <1>5, <1>7 DEF u, v

\* A session forgets the sender of a stream that has told it so.
LEMMA ForgetKeeps ==
    ASSUME NEW e \in Side, NEW s, GoodSession(s, e), NEW id \in StreamId,
           s.life[id] # "none", s.life[id] = "live" => s.h[id].state \notin ReadableStates
    PROVE  LET t == [s EXCEPT !.streams = @ \ {id}] IN
           /\ GoodSession(t, e) /\ BornStay(t, s, e) /\ t.life = s.life /\ t.ended = s.ended
           /\ SameControl(t, s) /\ Wire(t) = Wire(s)
<1> DEFINE t == [s EXCEPT !.streams = @ \ {id}]
<1>1. s \in Session /\ SessionOK(s, e)
  BY DEF GoodSession, SessionOK
<1>2. /\ t \in Session /\ SameStreams(t, s) /\ SameControl(t, s) /\ SameWire(t, s)
      /\ t.chan = s.chan /\ t.read_pending_frames = s.read_pending_frames /\ t.streams = s.streams \ {id}
  BY <1>1 DEF Session, SameStreams, SameControl, SameWire
<1> HIDE DEF t
<1>3. SessionOK(t, e) /\ Wire(t) = Wire(s)
  BY <1>1, <1>2 DEF SessionOK, Wire, SameStreams, SameControl, SameWire
<1>4. ASSUME NEW x \in StreamId PROVE StreamOK(t, e, x) /\ (Unborn(t, e, x) => Unborn(s, e, x))
  <2>0. StreamOK(s, e, x)
    BY DEF GoodSession
  <2>1. HandleOK(t.h[x], e, x) /\ NoneOK(t, x) /\ ClosedOK(t, x) /\ SynOnce(t, e, x)
    BY <1>2, <1>3, <2>0 DEF StreamOK, NoneOK, ClosedOK, SynOnce, SameStreams
  <2>2. LiveOK(t, x)
    BY <1>2, <2>0 DEF StreamOK, LiveOK, Live, SameStreams
  <2>3. Unborn(t, e, x) => Unborn(s, e, x)
    BY <1>2, <1>3 DEF Unborn, SameStreams
  <2> QED BY <1>2, <2>0, <2>1, <2>2, <2>3 DEF StreamOK, SameStreams
<1>5. GoodSession(t, e) /\ BornStay(t, s, e)
  BY <1>3, <1>4 DEF GoodSession, BornStay
<1> QED BY <1>2, <1>3, <1>5 DEF SameStreams, t

\* ... and handles it.
LEMMA EventKeeps ==
    ASSUME NEW e \in Side, NEW s, GoodSession(s, e), s.events # <<>>
    PROVE  LET t == handle_event([s EXCEPT !.events = Tail(@)], Head(s.events)) IN
           StreamsKept(t, s, e) /\ PingsKept(t, s)
<1> DEFINE u == [s EXCEPT !.events = Tail(@)]
           v == Head(s.events)
           t == handle_event(u, v)
<1> SUFFICES StreamsKept(t, s, e) /\ PingsKept(t, s)
  OBVIOUS
<1>1. /\ GoodSession(u, e) /\ BornStay(u, s, e) /\ u.events = Tail(s.events)
      /\ u.life = s.life /\ u.h = s.h /\ u.streams = s.streams /\ u.ended = s.ended
      /\ u.next_stream_id = s.next_stream_id
      /\ SameControl(u, s) /\ Wire(u) = Wire(s)
  BY EventTaken
<1> HIDE DEF u
<1>2. s.events \in Seq(HandleEvent)
  BY DEF GoodSession, SessionOK
<1>3. \A x : /\ v \in HandleEvent
             /\ v.kind = "Closed" /\ v.id = x => ClosedIn(s.events, x)
             /\ v.kind = "Frame" /\ IsSyn(v.frame) /\ v.frame.stream_id = x =>
                  /\ SynEventAt(s.events, x) # {}
                  /\ Single(SynEventAt(s.events, x)) => SynEventAt(Tail(s.events), x) = {}
  BY <1>2, FewerEvents
<1>4. v \in HandleEvent
  BY <1>3
<1> HIDE DEF v
<1>5. is_dead(u) <=> is_dead(s)
  BY <1>1 DEF SameControl, is_dead
<1>6. ASSUME NEW r, StreamsKept(r, u, e) PROVE StreamsKept(r, s, e)
  BY <1>1, <1>6 DEF StreamsKept, BornStay
<1>7. ASSUME NEW r, PingsKept(r, u) PROVE PingsKept(r, s)
  BY <1>1, <1>5, <1>7 DEF PingsKept, SameControl
<1>8. CASE v.kind = "Frame"
  <2> DEFINE f == v.frame
             r == send_frame(u, f)
  <2>1. f \in StreamFrame /\ f \in WireFrame /\ f.ty # "Ping" /\ f.stream_id \in StreamId
    BY <1>4, <1>8 DEF HandleEvent, StreamFrame, WireFrame, SessionFrame, Frame
  <2>2. t = r
    BY <1>8 DEF handle_event
  <2> HIDE DEF f, t
  <2>3. CASE ~IsSyn(f)
    <3>1. /\ Mild(r, u) /\ SameControl(r, u) /\ r.ended = u.ended
          /\ ~is_dead(u) => Wire(r) = Append(Wire(u), f)
      BY <1>1, <2>1, <2>3, SendKeeps
    <3> HIDE DEF r
    <3>2. StreamsKept(r, u, e)
      BY <1>1, <3>1, MildStep
    <3>3. PingQuiet(r, u)
      BY <2>1, <3>1 DEF PingQuiet
    <3>4. PingsKept(r, u)
      BY <3>1, <3>3, QuietStep
    <3> QED BY <1>6, <1>7, <2>2, <3>2, <3>4
  <2>4. CASE IsSyn(f)
    <3> DEFINE id == f.stream_id
    <3>0. StreamOK(s, e, id)
      BY <2>1 DEF GoodSession
    <3>1. SynEventAt(s.events, id) # {} /\ SynEventAt(u.events, id) = {}
      BY <1>1, <1>3, <1>8, <2>4, <3>0 DEF f, StreamOK, SynOnce
    <3>2. SynAt(Wire(u), id) = {} /\ Opener(id) = e /\ id < u.next_stream_id
      BY <1>1, <3>0, <3>1 DEF StreamOK, SynOnce
    <3>3. /\ GoodSession(r, e) /\ SameStreams(r, u) /\ SameControl(r, u)
          /\ \A x \in StreamId : Unborn(r, e, x) => Unborn(u, e, x) \/ x = id
          /\ ~is_dead(u) => Wire(r) = Append(Wire(u), f)
      BY <1>1, <2>1, <3>1, <3>2, SynSent
    <3> HIDE DEF r, id
    <3>4. Unborn(s, e, id)
      BY <3>1, <3>2 DEF Unborn
    <3>5. StreamsKept(r, s, e)
      BY <1>1, <3>3, <3>4 DEF StreamsKept, BornStay, SameStreams
    <3>6. PingQuiet(r, u) /\ r.ended = u.ended
      BY <2>1, <3>3 DEF PingQuiet, SameStreams
    <3>7. PingsKept(r, u)
      BY <3>6, QuietStep
    <3> QED BY <1>7, <2>2, <3>5, <3>7
  <2> QED BY <2>3, <2>4
<1>9. CASE v.kind = "Closed"
  <2> DEFINE id == v.id
             r == [u EXCEPT !.streams = @ \ {id}]
  <2>1. id \in StreamId /\ ClosedIn(s.events, id)
    BY <1>3, <1>4, <1>9 DEF HandleEvent, StreamEvent
  <2>2. t = r
    BY <1>9 DEF handle_event
  <2> HIDE DEF id, t
  <2>3. u.life[id] # "none" /\ (u.life[id] = "live" => u.h[id].state \notin ReadableStates)
    BY <1>1, <2>1 DEF GoodSession, StreamOK, ClosedOK
  <2>4. /\ GoodSession(r, e) /\ BornStay(r, u, e) /\ r.life = u.life /\ r.ended = u.ended
        /\ SameControl(r, u) /\ Wire(r) = Wire(u)
    BY <1>1, <2>1, <2>3, ForgetKeeps
  <2> HIDE DEF r
  <2>5. StreamsKept(r, u, e) /\ PingQuiet(r, u)
    BY <2>4 DEF StreamsKept, PingQuiet
  <2>6. PingsKept(r, u)
    BY <2>4, <2>5, QuietStep
  <2> QED BY <1>6, <1>7, <2>2, <2>5, <2>6
<1>10. CASE v.kind = "GoAway"
  <2> DEFINE r == send_go_away_with_code(u, 1)
  <2>1. StreamsKept(r, u, e) /\ PingsKept(r, u)
    BY <1>1, GoAwayKeeps
  <2>2. t = r
    BY <1>10 DEF handle_event
  <2> HIDE DEF r, t
  <2> QED BY <1>6, <1>7, <2>1, <2>2
<1>11. v.kind \in {"Frame", "Closed", "GoAway"}
  BY <1>4 DEF HandleEvent, StreamEvent
<1> QED BY <1>8, <1>9, <1>10, <1>11

\* The session is dropped.
LEMMA DropKeeps ==
    ASSUME NEW e \in Side, NEW s, GoodSession(s, e), NEW i \in 0..Len(s.out)
    PROVE  StreamsKept(Dropped(s, i), s, e) /\ PingsKept(Dropped(s, i), s)
<1> DEFINE o == SubSeq(s.out, 1, i)
           t == [s EXCEPT !.ended = TRUE, !.streams = {}, !.events = <<>>,
                          !.write_pending_frames = <<>>, !.read_pending_frames = <<>>,
                          !.pings = {}, !.out = o]
<1>1. /\ s \in Session /\ SessionOK(s, e) /\ s.out \in Seq(WireFrame) /\ Len(s.out) <= SinkCap
      /\ s.write_pending_frames \in Seq(WireFrame) /\ Len(s.out) \in Nat /\ SinkCap \in Nat
  BY LenProperties, SessionAssumption DEF GoodSession, SessionOK
<1>2. o \in Seq(WireFrame) /\ Len(o) <= SinkCap /\ Thins(o, s.out)
  <2>1. 1 \in 1..(Len(s.out) + 1) /\ 1 <= i + 1
    BY <1>1
  <2>2. o \in Seq(WireFrame) /\ Len(o) = i - 1 + 1
    BY <1>1, <2>1, PartAt
  <2>3. Thins(o, s.out)
    BY <1>1, <2>1, ThinsPart
  <2> QED BY <1>1, <2>2, <2>3
<1>3. Dropped(s, i) = t
  BY DEF Dropped
<1>4. o \in Seq(SessionFrame)
  BY <1>2, WireFrames
<1>5. <<>> \in Seq(SessionFrame) /\ <<>> \in Seq(StreamEvent) /\ <<>> \in Seq(Frame)
      /\ <<>> \in Seq(WireFrame) /\ <<>> \in Seq(QueuedFrame) /\ <<>> \in Seq(HandleEvent)
  BY OneFrame
<1> HIDE DEF o
<1>6. /\ t \in Session /\ t.ended /\ t.streams = {} /\ t.events = <<>> /\ t.out = o
      /\ t.write_pending_frames = <<>> /\ t.read_pending_frames = <<>>
      /\ t.h = s.h /\ t.life = s.life /\ t.chan = s.chan /\ t.next_stream_id = s.next_stream_id
      /\ t.eof = s.eof /\ t.local_go_away = s.local_go_away /\ t.remote_go_away = s.remote_go_away
  BY <1>1, <1>4, <1>5 DEF Session
<1> HIDE DEF t
<1>7. Wire(t) = o /\ Thins(Wire(t), Wire(s))
  <2>1. o \o <<>> = o
    BY <1>2, ConcatEmptySeq
  <2>2. Wire(t) = o
    BY <1>6, <2>1 DEF Wire
  <2>3. Thins(s.out, Wire(s))
    BY <1>1, ThinsFirst DEF Wire
  <2> QED BY <1>2, <2>2, <2>3, ThinsTrans
<1>8. SessionOK(t, e)
  BY <1>1, <1>2, <1>5, <1>6 DEF SessionOK
<1>9. ASSUME NEW x \in StreamId PROVE StreamOK(t, e, x) /\ (Unborn(t, e, x) => Unborn(s, e, x))
  <2>0. StreamOK(s, e, x)
    BY DEF GoodSession
  <2>1. SynEventAt(t.events, x) = {} /\ ~ClosedIn(t.events, x)
    BY <1>6 DEF SynEventAt, ClosedIn
  <2>2. /\ Single(SynAt(Wire(s), x)) => Single(SynAt(Wire(t), x))
        /\ SynAt(Wire(t), x) # {} => SynAt(Wire(s), x) # {}
    BY <1>7 DEF Thins
  <2>3. HandleOK(t.h[x], e, x) /\ NoneOK(t, x) /\ LiveOK(t, x) /\ ClosedOK(t, x)
    BY <1>6, <2>0, <2>1 DEF StreamOK, NoneOK, LiveOK, Live, ClosedOK
  <2>4. SynOnce(t, e, x)
    BY <1>6, <2>0, <2>1, <2>2 DEF StreamOK, SynOnce, Single
  <2>5. Unborn(t, e, x) => Unborn(s, e, x)
    BY <1>6, <2>1, <2>2 DEF Unborn
  <2> QED BY <1>6, <2>0, <2>3, <2>4, <2>5 DEF StreamOK
<1>10. StreamsKept(t, s, e)
  BY <1>6, <1>8, <1>9 DEF StreamsKept, GoodSession, BornStay
<1>11. PingsKept(t, s)
  BY <1>6 DEF PingsKept
<1> QED BY <1>3, <1>10, <1>11

\* The peer has read the first frame of the wire: its SYN, if it is one, is no longer
\* on its way.
LEMMA SentKeeps ==
    ASSUME NEW e \in Side, NEW s, GoodSession(s, e), s.out # <<>>
    PROVE  LET t == [s EXCEPT !.out = Tail(@)]
               f == Head(s.out) IN
           /\ Mild(t, s) /\ SameControl(t, s) /\ t.ended = s.ended
           /\ Wire(s) \in Seq(WireFrame) /\ Wire(s) # <<>> /\ Head(Wire(s)) = f
           /\ Wire(t) = Tail(Wire(s))
           /\ f \in WireFrame
           /\ IsSyn(f) => Unborn(s, e, f.stream_id) /\ ~Unborn(t, e, f.stream_id)
<1> DEFINE o == s.out
           w == s.write_pending_frames
           p == Tail(o)
           f == Head(o)
           t == Rewired(s, p, w)
<1>1. /\ s \in Session /\ o \in Seq(WireFrame) /\ w \in Seq(WireFrame) /\ Len(o) <= SinkCap
      /\ SinkCap \in Nat
  BY SessionAssumption DEF GoodSession, SessionOK
<1>2. /\ f \in WireFrame /\ f = o[1] /\ p \in Seq(WireFrame)
      /\ Len(o) \in Nat \ {0} /\ Len(p) = Len(o) - 1
      /\ \A i \in 1..Len(p) : i + 1 \in 1..Len(o) /\ p[i] = o[i + 1]
  BY <1>1, TailAt
<1>3. [s EXCEPT !.out = Tail(@)] = t
  BY <1>1 DEF Rewired, Session
<1> HIDE DEF o, w, p, f
<1>4. /\ t \in Session /\ t.out = p /\ t.write_pending_frames = w
      /\ SameStreams(t, s) /\ SameInput(t, s) /\ SameControl(t, s)
  BY <1>1, <1>2, WithWire
<1> HIDE DEF t
<1>5. /\ o \o w \in Seq(WireFrame) /\ Len(o \o w) = Len(o) + Len(w) /\ (o \o w)[1] = o[1]
      /\ p \o w \in Seq(WireFrame) /\ Len(p \o w) = Len(o) + Len(w) - 1
      /\ Len(o) \in Nat \ {0} /\ Len(w) \in Nat
      /\ \A i \in 1..(Len(o) + Len(w) - 1) : (p \o w)[i] = (o \o w)[i + 1]
  <2>1. Len(w) \in Nat /\ Len(p) \in Nat /\ 1 \in 1..Len(o)
    BY <1>1, <1>2, LenProperties
  <2>2. /\ o \o w \in Seq(WireFrame) /\ Len(o \o w) = Len(o) + Len(w)
        /\ \A i \in 1..Len(o) : (o \o w)[i] = o[i]
        /\ \A i \in 1..Len(w) : (o \o w)[Len(o) + i] = w[i]
    BY <1>1, ConcatAt
  <2>3. /\ p \o w \in Seq(WireFrame) /\ Len(p \o w) = Len(p) + Len(w)
        /\ \A i \in 1..Len(p) : (p \o w)[i] = p[i]
        /\ \A i \in 1..(Len(p) + Len(w)) : i \notin 1..Len(p) =>
             i - Len(p) \in 1..Len(w) /\ (p \o w)[i] = w[i - Len(p)]
    <3>1. p \in Seq(WireFrame) /\ w \in Seq(WireFrame)
      BY <1>1, <1>2
    <3> QED BY <3>1, ConcatAt
  <2>4. ASSUME NEW i \in 1..(Len(o) + Len(w) - 1) PROVE (p \o w)[i] = (o \o w)[i + 1]
    <3>1. CASE i \in 1..Len(p)
      BY <1>2, <2>2, <2>3, <3>1
    <3>2. CASE i \notin 1..Len(p)
      <4>1. i \in 1..(Len(p) + Len(w))
        BY <1>2, <2>1
      <4>2. i - Len(p) \in 1..Len(w) /\ (p \o w)[i] = w[i - Len(p)]
        BY <2>3, <3>2, <4>1
      <4>3. (o \o w)[Len(o) + (i - Len(p))] = w[i - Len(p)]
        BY <2>2, <4>2
      <4>4. Len(o) + (i - Len(p)) = i + 1
        BY <1>2, <2>1
      <4> QED BY <4>2, <4>3, <4>4
    <3> QED BY <3>1, <3>2
  <2>5. Len(p) + Len(w) = Len(o) + Len(w) - 1
    BY <1>2, <2>1
  <2> QED BY <1>2, <2>1, <2>2, <2>3, <2>4, <2>5
<1> DEFINE q == o \o w
<1>6. Wire(s) = q /\ Wire(t) = p \o w
  BY <1>4 DEF Wire, o, w
<1> HIDE DEF q
<1>7. q # <<>> /\ Head(q) = f /\ Tail(q) = p \o w
  <2>1. q \in Seq(WireFrame) /\ Len(q) = Len(o) + Len(w) /\ q # <<>>
    BY <1>5, EmptySeq DEF q
  <2>2. /\ Head(q) = q[1] /\ Tail(q) \in Seq(WireFrame) /\ Len(Tail(q)) = Len(q) - 1
        /\ \A i \in 1..Len(Tail(q)) : Tail(q)[i] = q[i + 1]
    BY <2>1, TailAt
  <2>3. Tail(q) = p \o w
    <3>1. Len(Tail(q)) = Len(p \o w)
      BY <1>5, <2>1, <2>2
    <3>2. \A i \in 1..Len(p \o w) : Tail(q)[i] = (p \o w)[i]
      BY <1>5, <2>1, <2>2 DEF q
    <3> QED BY <1>5, <2>2, <3>1, <3>2, SameSeq
  <2> QED BY <1>2, <1>5, <2>1, <2>2, <2>3 DEF q
<1>8. \A x : \A i \in SynAt(Wire(t), x) : i \in Nat \ {0} /\ i + 1 \in SynAt(Wire(s), x)
  <2>1. \A i \in 1..(Len(o) + Len(w) - 1) : i \in Nat \ {0} /\ i + 1 \in 1..(Len(o) + Len(w))
    BY <1>5
  <2> QED BY <1>5, <1>6, <2>1 DEF SynAt, q
<1>9. Thins(Wire(t), Wire(s))
  <2> SUFFICES ASSUME NEW x \in StreamId
               PROVE  /\ Single(SynAt(Wire(s), x)) => Single(SynAt(Wire(t), x))
                      /\ SynAt(Wire(t), x) # {} => SynAt(Wire(s), x) # {}
    BY DEF Thins
  <2>1. ASSUME Single(SynAt(Wire(s), x)), NEW i \in SynAt(Wire(t), x), NEW j \in SynAt(Wire(t), x)
        PROVE  i = j
    <3>1. i + 1 = j + 1 /\ i \in Nat /\ j \in Nat
      BY <1>8, <2>1 DEF Single
    <3> QED BY <3>1
  <2> QED BY <1>8, <2>1 DEF Single
<1>10. Mild(t, s)
  <2>1. WireOK(t)
    BY <1>1, <1>2, <1>4 DEF WireOK
  <2> QED BY <1>4, <1>9, <2>1 DEF Mild, GoodSession, SessionOK, SameInput, SameControl
<1>11. ASSUME IsSyn(f) PROVE Unborn(s, e, f.stream_id) /\ ~Unborn(t, e, f.stream_id)
  <2> DEFINE x == f.stream_id
  <2>1. x \in StreamId /\ x \in Nat
    BY <1>2, <1>11, IdIsNat DEF WireFrame, IsSyn
  <2>2. 1 \in SynAt(Wire(s), x)
    <3>1. q[1] = f /\ 1 \in 1..Len(q)
      BY <1>2, <1>5 DEF q
    <3> QED BY <1>6, <1>11, <3>1 DEF SynAt
  <2>3. SynOnce(s, e, x) /\ s.next_stream_id \in Nat
    BY <1>1, <2>1 DEF GoodSession, StreamOK, Session
  <2>4. Opener(x) = e /\ x < s.next_stream_id /\ SynEventAt(s.events, x) = {}
        /\ Single(SynAt(Wire(s), x))
    BY <2>2, <2>3 DEF SynOnce
  <2>5. ASSUME NEW i \in SynAt(Wire(t), x) PROVE FALSE
    <3>1. i + 1 = 1 /\ i \in Nat \ {0}
      BY <1>8, <2>2, <2>4, <2>5 DEF Single
    <3> QED BY <3>1
  <2>6. t.next_stream_id = s.next_stream_id /\ t.events = s.events
    BY <1>4 DEF SameStreams
  <2>7. Unborn(s, e, x)
    BY <2>2, <2>4 DEF Unborn
  <2>8. ~Unborn(t, e, x)
    BY <2>1, <2>3, <2>4, <2>5, <2>6 DEF Unborn
  <2> QED BY <2>7, <2>8
<1>12. t.ended = s.ended
  BY <1>4 DEF SameStreams
<1> QED BY <1>2, <1>3, <1>4, <1>5, <1>6, <1>7, <1>10, <1>11, <1>12 DEF f, o, q
-----------------------------------------------------------------------------
(***************************************************************************)
(* The steps of the system                                                 *)
(***************************************************************************)

\* A step of side e alone that keeps its streams and its pings.
Moves(e) ==
    \E t : Becomes(e, t) /\ StreamsKept(t, node[e], e) /\ PingsKept(t, node[e])

\* A call of a handle is such a step.
LEMMA CallStep ==
    ASSUME NEW e \in Side, NEW s, GoodSession(s, e), NEW id \in StreamId, s.life[id] = "live",
           NEW u, Touches(u, s, id), NEW o, OutcomeOK(o, s.h[id], e, id),
           o.event = "Closed" /\ u.life[id] = "live" => o.h.state \notin ReadableStates
    PROVE  LET t == WithHandle(u, id, o) IN StreamsKept(t, s, e) /\ PingsKept(t, s)
<1> DEFINE t == WithHandle(u, id, o)
<1>1. /\ GoodSession(t, e) /\ BornStay(t, s, e) /\ NoneStay(t, s)
      /\ Wire(t) = Wire(s) /\ SameControl(t, s) /\ t.ended = s.ended
  BY CallKeeps
<1> HIDE DEF t
<1>2. StreamsKept(t, s, e)
  BY <1>1 DEF StreamsKept, NoneStay
<1>3. PingsKept(t, s)
  BY <1>1, QuietStep DEF PingQuiet
<1> QED BY <1>2, <1>3 DEF t

\* The calls that leave channel and life alone.
LEMMA DoesMoves ==
    ASSUME StreamsInv, NEW e \in Side, NEW id \in StreamId, node[e].life[id] = "live",
           NEW o, OutcomeOK(o, node[e].h[id], e, id), Does(e, id, o),
           o.event = "Closed" => o.h.state \notin ReadableStates
    PROVE  Moves(e)
<1>1. GoodSession(node[e], e) /\ node[e] \in Session
  BY DEF StreamsInv, GoodSession, SessionOK
<1>2. Touches(node[e], node[e], id)
  BY <1>1, TouchesBy
<1>3. LET t == WithHandle(node[e], id, o) IN StreamsKept(t, node[e], e) /\ PingsKept(t, node[e])
  BY <1>1, <1>2, CallStep
<1> QED BY <1>3 DEF Moves, Does

\* The calls of the handles.
LEMMA HandleMoves ==
    ASSUME StreamsInv, NEW e \in Side, NEW id \in StreamId, HandleStep(e, id)
    PROVE  Moves(e)
<1> DEFINE s == node[e]
           g == s.h[id]
<1>1. GoodSession(s, e) /\ s \in Session
  BY DEF StreamsInv, GoodSession, SessionOK
<1>2. s.life[id] = "live"
  BY DEF HandleStep, HandleRecvFrame, HandleRecvEnd, Read, Write, WriteBroken, WritePending,
         Shutdown, DropHandle, Owned
<1>3. HandleOK(g, e, id) /\ g.state # "Init" /\ g \in StreamHandle
  BY <1>1, <1>2 DEF GoodSession, StreamOK, LiveOK, HandleOK
<1>4. CASE HandleRecvFrame(e, id)
  <2> DEFINE u == [s EXCEPT !.chan[id] = Tail(@)]
             o == handle_frame(g, Head(s.chan[id]))
  <2>1. s.chan[id] \in Seq(Frame) /\ s.chan[id] # <<>> /\ CanRecv(g)
    BY <1>1, <1>4 DEF HandleRecvFrame, Session
  <2>2. Head(s.chan[id]) \in Frame
    BY <2>1, TailAt
  <2>3. OutcomeOK(o, g, e, id) /\ o.event # "Closed"
    BY <1>3, <2>1, <2>2, FrameOutcome
  <2>4. Touches(u, s, id)
    BY <1>1, <1>2, <2>1, TouchesBy
  <2>5. Becomes(e, WithHandle(u, id, o))
    BY <1>4 DEF HandleRecvFrame
  <2> HIDE DEF u, o
  <2>6. LET t == WithHandle(u, id, o) IN StreamsKept(t, s, e) /\ PingsKept(t, s)
    BY <1>1, <1>2, <2>3, <2>4, CallStep
  <2> QED BY <2>5, <2>6 DEF Moves
<1>5. CASE HandleRecvEnd(e, id)
  <2>1. Does(e, id, Disconnected(g))
    BY <1>5 DEF HandleRecvEnd
  <2>2. OutcomeOK(Disconnected(g), g, e, id) /\ Disconnected(g).event = "None"
    BY <1>3, QuietOutcomes
  <2> QED BY <1>2, <2>1, <2>2, DoesMoves
<1>6. ASSUME NEW n \in 1..g.read_buf, Read(e, id, n) PROVE Moves(e)
  <2>1. n \in 0..g.read_buf
    BY <1>3 DEF StreamHandle
  <2>2. OutcomeOK(poll_read(g, n), g, e, id) /\ poll_read(g, n).event = "None"
    BY <1>3, <2>1, QuietOutcomes
  <2>3. Does(e, id, poll_read(g, n))
    BY <1>6 DEF Read
  <2> QED BY <1>2, <2>2, <2>3, DoesMoves
<1>7. ASSUME NEW w \in 1..MaxWrite, Write(e, id, w) PROVE Moves(e)
  <2> DEFINE n == Min({g.send_window, w})
  <2>1. g.send_window \in Nat /\ w \in Nat /\ w \in Int
    BY <1>3, SessionAssumption DEF StreamHandle
  <2>2. n \in 0..g.send_window
    <3>1. n = IF g.send_window <= w THEN g.send_window ELSE w
      BY <2>1, MinOfTwo
    <3> HIDE DEF n
    <3> QED BY <2>1, <3>1
  <2>3. Does(e, id, poll_write(g, n))
    BY <1>7 DEF Write
  <2> HIDE DEF n
  <2>4. OutcomeOK(poll_write(g, n), g, e, id) /\ poll_write(g, n).event = "None"
    BY <1>3, <2>2, WriteOutcome
  <2> QED BY <1>2, <2>3, <2>4, DoesMoves
<1>8. CASE WriteBroken(e, id)
  <2>1. Does(e, id, PollWriteBroken(g))
    BY <1>8 DEF WriteBroken
  <2>2. OutcomeOK(PollWriteBroken(g), g, e, id) /\ PollWriteBroken(g).event = "None"
    BY <1>3, QuietOutcomes
  <2> QED BY <1>2, <2>1, <2>2, DoesMoves
<1>9. CASE WritePending(e, id)
  <2>1. Does(e, id, PollWritePending(g))
    BY <1>9 DEF WritePending
  <2>2. OutcomeOK(PollWritePending(g), g, e, id) /\ PollWritePending(g).event = "None"
    BY <1>3, QuietOutcomes
  <2> QED BY <1>2, <2>1, <2>2, DoesMoves
<1>10. CASE Shutdown(e, id)
  <2>1. Does(e, id, close(g))
    BY <1>10 DEF Shutdown
  <2>2. OutcomeOK(close(g), g, e, id) /\ (close(g).event = "Closed" => close(g).h.state \notin ReadableStates)
    BY <1>3, CloseOutcome
  <2> QED BY <1>2, <2>1, <2>2, DoesMoves
<1>11. CASE DropHandle(e, id)
  <2> DEFINE u == [s EXCEPT !.life[id] = "gone", !.chan[id] = <<>>]
             o == IF s.ended THEN Outcome(g, <<>>, "None") ELSE drop(g)
  <2>1. Touches(u, s, id) /\ u.life[id] = "gone"
    BY <1>1, <1>2, TouchesBy
  <2>2. OutcomeOK(o, g, e, id)
    BY <1>3, DropOutcome
  <2>3. Becomes(e, WithHandle(u, id, o))
    BY <1>11 DEF DropHandle
  <2> HIDE DEF u, o
  <2>4. LET t == WithHandle(u, id, o) IN StreamsKept(t, s, e) /\ PingsKept(t, s)
    BY <1>1, <1>2, <2>1, <2>2, CallStep
  <2> QED BY <2>3, <2>4 DEF Moves
<1> QED BY <1>4, <1>5, <1>6, <1>7, <1>8, <1>9, <1>10, <1>11 DEF HandleStep

\* The steps of a session that neither read the socket nor send a ping.
LEMMA SessionMoves ==
    ASSUME StreamsInv, NEW e \in Side, SessionStep(e), ~RecvFrame(e), ~RecvEof(e), ~keep_alive(e)
    PROVE  Moves(e)
<1> DEFINE s == node[e]
<1>1. GoodSession(s, e) /\ s \in Session
  BY DEF StreamsInv, GoodSession, SessionOK
<1>2. CASE Flush(e)
  BY <1>1, <1>2, FlushKeeps DEF Moves, Flush
<1>3. CASE AcceptStream(e)
  BY <1>1, <1>3, AcceptKeeps DEF Moves, AcceptStream
<1>4. CASE RecvEvent(e)
  BY <1>1, <1>4, EventKeeps DEF Moves, RecvEvent
<1>5. CASE OpenStream(e)
  BY <1>1, <1>5, OpenKeeps DEF Moves, OpenStream
<1>6. CASE ShutdownSession(e)
  <2>1. Becomes(e, send_go_away_with_code(s, 0))
    BY <1>6 DEF ShutdownSession, shutdown, Polled
  <2> QED BY <1>1, <2>1, GoAwayKeeps DEF Moves
<1>7. CASE GoAway(e)
  <2>1. Becomes(e, send_go_away_with_code(s, 0))
    BY <1>7 DEF GoAway
  <2> QED BY <1>1, <2>1, GoAwayKeeps DEF Moves
<1>8. CASE GoAwayTimeout(e)
  BY <1>1, <1>8, ClockKeeps DEF Moves, GoAwayTimeout
<1>9. CASE PingTimeout(e) \/ IoError(e) \/ PollEnd(e)
  <2>1. PICK i \in 0..Len(s.out) : Becomes(e, Dropped(s, i))
    BY <1>9 DEF PingTimeout, IoError, PollEnd, Over
  <2> QED BY <1>1, <2>1, DropKeeps DEF Moves
<1> QED BY <1>2, <1>3, <1>4, <1>5, <1>6, <1>7, <1>8, <1>9 DEF SessionStep

\* The two sides.
LEMMA Sides ==
    ASSUME NEW e \in Side
    PROVE  /\ Peer(e) \in Side /\ Peer(e) # e /\ Peer(Peer(e)) = e
           /\ \A x \in Side : x = e \/ x = Peer(e)
BY DEF Side, Peer

\* The invariant from both sides of a step, at e and at its peer.
LEMMA BothSides ==
    ASSUME StreamsInv, NEW e \in Side, NEW t, NEW r, node' = [node EXCEPT ![e] = t, ![Peer(e)] = r],
           GoodSession(t, e), BornStay(t, node[e], e),
           GoodSession(r, Peer(e)), r.life = node[Peer(e)].life,
           \A x \in StreamId : Unborn(r, Peer(e), x) => t.life[x] = "none"
    PROVE  StreamsInv'
<1> DEFINE p == Peer(e)
<1>1. p \in Side /\ p # e /\ Peer(p) = e /\ \A x \in Side : x = e \/ x = p
  BY Sides
<1>2. node \in [Side -> Session] /\ t \in Session /\ r \in Session
  BY DEF StreamsInv, TypeOK, GoodSession, SessionOK
<1>3. node' \in [Side -> Session] /\ node'[e] = t /\ node'[p] = r
  BY <1>1, <1>2
<1>4. Cross(node'[e], e, node'[p])
  <2>1. Cross(node[e], e, node[p])
    BY DEF StreamsInv
  <2> QED BY <1>3, <2>1 DEF Cross, BornStay
<1>5. Cross(node'[p], p, node'[e])
  BY <1>3 DEF Cross
<1>6. \A x \in Side : GoodSession(node'[x], x) /\ Cross(node'[x], x, node'[Peer(x)])
  BY <1>1, <1>3, <1>4, <1>5
<1> QED BY <1>3, <1>6 DEF StreamsInv, TypeOK

\* A step of one side.
LEMMA OneSide ==
    ASSUME StreamsInv, NEW e \in Side, NEW t, Becomes(e, t), StreamsKept(t, node[e], e)
    PROVE  StreamsInv'
<1> DEFINE p == Peer(e)
           r == node[p]
<1>1. p \in Side /\ p # e /\ Peer(p) = e
  BY Sides
<1>2. node \in [Side -> Session]
  BY DEF StreamsInv, TypeOK
<1>3. node' = [node EXCEPT ![e] = t, ![p] = r]
  BY <1>1, <1>2 DEF Becomes
<1>4. GoodSession(r, p) /\ Cross(r, p, node[e])
  BY <1>1 DEF StreamsInv
<1>5. \A x \in StreamId : Unborn(r, p, x) => t.life[x] = "none"
  BY <1>1, <1>4 DEF Cross, Unborn, StreamsKept
<1> QED BY <1>3, <1>4, <1>5, BothSides DEF StreamsKept

\* The peer's session once its first frame on the wire has been read.
ReadOff(r) == [r EXCEPT !.out = Tail(@)]

\* A frame goes from the session r of the peer to the session s of side e.
LEMMA FrameKeeps ==
    ASSUME NEW e \in Side, NEW s, NEW r, GoodSession(s, e), GoodSession(r, Peer(e)),
           Cross(r, Peer(e), s), ~s.ended, r.out # <<>>
    PROVE  LET f == Head(r.out)
               t == handle_session_frame(s, e, f)
               w == ReadOff(r) IN
           /\ GoodSession(t, e) /\ BornStay(t, s, e) /\ GoodSession(w, Peer(e)) /\ w.life = r.life
           /\ \A x \in StreamId : Unborn(w, Peer(e), x) => t.life[x] = "none"
           /\ t.ended = s.ended /\ (s.local_go_away => t.local_go_away) /\ t.eof = s.eof
           /\ f.ty \in {"Data", "WindowUpdate"} => PingQuiet(t, s)
           /\ f.ty = "Ping" => t = handle_ping(s, f)
           /\ f.ty = "GoAway" => t.local_go_away
           /\ f \in WireFrame
<1> DEFINE p == Peer(e)
           f == Head(r.out)
           t == handle_session_frame(s, e, f)
           w == ReadOff(r)
<1>1. p \in Side /\ p # e
  BY Sides
<1>2. /\ Mild(w, r) /\ f \in WireFrame
      /\ IsSyn(f) => Unborn(r, p, f.stream_id) /\ ~Unborn(w, p, f.stream_id)
  BY <1>1, SentKeeps DEF ReadOff
<1>3. GoodSession(w, p) /\ BornStay(w, r, p) /\ w.life = r.life
  BY <1>1, <1>2, MildKeeps DEF Mild, SameStreams
<1> HIDE DEF w, f
<1>4. \A x \in StreamId : Unborn(w, p, x) => s.life[x] = "none" /\ Opener(x) # e
  BY <1>1, <1>3 DEF BornStay, Cross, Unborn
<1>5. CASE f.ty \in {"Data", "WindowUpdate"}
  <2> DEFINE id == f.stream_id
             u == distribute_to_substream([s EXCEPT !.read_pending_frames = Append(@, f)], e)
  <2>1. f \in StreamFrame /\ id \in StreamId
    BY <1>2, <1>5 DEF WireFrame, SessionFrame, StreamFrame, Frame
  <2>2. "Syn" \in f.flags => s.life[id] = "none" /\ Opener(id) # e
    BY <1>1, <1>2, <1>5, <2>1 DEF IsSyn, Cross, Unborn
  <2>3. t = u
    BY <1>5 DEF handle_session_frame
  <2>4. /\ StepOK(u, s, e, id) /\ PingQuiet(u, s)
        /\ "Syn" \notin f.flags => \A x \in StreamId : s.life[x] = "none" => u.life[x] = "none"
    BY <2>1, <2>2, FrameArrives
  <2> HIDE DEF u, t
  <2>5. "Syn" \in f.flags => ~Unborn(w, p, id)
    BY <1>2, <1>5 DEF IsSyn
  <2>6. \A x \in StreamId : Unborn(w, p, x) => u.life[x] = "none"
    BY <1>4, <2>4, <2>5 DEF StepOK
  <2>7. /\ GoodSession(u, e) /\ BornStay(u, s, e) /\ u.ended = s.ended
        /\ (s.local_go_away => u.local_go_away) /\ u.eof = s.eof
    BY <2>4 DEF StepOK, PingQuiet, SameControl
  <2> QED BY <1>2, <1>3, <1>5, <2>3, <2>4, <2>6, <2>7 DEF t, f, w
<1>6. CASE f.ty = "Ping"
  <2>1. t = handle_ping(s, f)
    BY <1>6 DEF handle_session_frame
  <2>2. /\ StreamsKept(t, s, e) /\ t.ended = s.ended
        /\ t.local_go_away = s.local_go_away /\ t.eof = s.eof
    BY <1>2, <2>1, PingKeeps
  <2> HIDE DEF t
  <2>3. \A x \in StreamId : Unborn(w, p, x) => t.life[x] = "none"
    BY <1>4, <2>2 DEF StreamsKept
  <2> QED BY <1>2, <1>3, <1>6, <2>1, <2>2, <2>3 DEF StreamsKept, t, f, w
<1>7. CASE f.ty = "GoAway"
  <2>1. t = handle_go_away(s)
    BY <1>7 DEF handle_session_frame
  <2>2. StreamsKept(t, s, e) /\ t.ended = s.ended /\ t.local_go_away /\ t.eof = s.eof
    BY <2>1, PeerGoAwayKeeps
  <2> HIDE DEF t
  <2>3. \A x \in StreamId : Unborn(w, p, x) => t.life[x] = "none"
    BY <1>4, <2>2 DEF StreamsKept
  <2> QED BY <1>2, <1>3, <1>7, <2>2, <2>3 DEF StreamsKept, t, f, w
<1>8. f.ty \in {"Data", "WindowUpdate", "Ping", "GoAway"}
  BY <1>2 DEF WireFrame, SessionFrame
<1> QED BY <1>5, <1>6, <1>7, <1>8

\* RecvFrame, as a step of both sides.
LEMMA RecvFrameIs ==
    ASSUME StreamsInv, NEW e \in Side, RecvFrame(e)
    PROVE  LET s == node[e]
               r == node[Peer(e)]
               t == handle_session_frame(s, e, Head(r.out))
               w == ReadOff(r) IN
           /\ node' = [node EXCEPT ![e] = t, ![Peer(e)] = w]
           /\ node'[e] = t /\ node'[Peer(e)] = w
           /\ GoodSession(s, e) /\ GoodSession(r, Peer(e)) /\ Cross(r, Peer(e), s)
           /\ ~s.ended /\ ~is_dead(s) /\ r.out # <<>>
<1> DEFINE p == Peer(e)
           s == node[e]
           r == node[p]
           t == handle_session_frame(s, e, Head(r.out))
           w == ReadOff(r)
<1>1. p \in Side /\ p # e /\ Peer(p) = e
  BY Sides
<1>2. node \in [Side -> Session]
  BY DEF StreamsInv, TypeOK
<1>3. node' = [node EXCEPT ![e] = t, ![p] = w]
  BY <1>1, <1>2 DEF RecvFrame, ReadOff
<1>4. node'[e] = t /\ node'[p] = w
  <2> HIDE DEF t, w, p
  <2> QED BY <1>1, <1>2, <1>3
<1>5. GoodSession(s, e) /\ GoodSession(r, p) /\ Cross(r, p, s)
  BY <1>1 DEF StreamsInv
<1>6. ~s.ended /\ ~is_dead(s) /\ r.out # <<>>
  BY DEF RecvFrame, Polled
<1> QED BY <1>3, <1>4, <1>5, <1>6

\* keep_alive, with the new ping named.
LEMMA KeepAliveIs ==
    ASSUME StreamsInv, NEW e \in Side, keep_alive(e)
    PROVE  LET s == node[e]
               n == s.ping_id + 1 IN
           /\ GoodSession(s, e) /\ n \in Nat /\ ~is_dead(s)
           /\ Becomes(e, Pinged(s, n))
<1> DEFINE s == node[e]
           n == s.ping_id + 1
           f == new_ping({"Syn"}, n)
           u == send_frame(s, f)
<1>1. GoodSession(s, e) /\ s.ping_id \in Nat /\ n \in Nat /\ ~is_dead(s)
  BY DEF StreamsInv, GoodSession, SessionOK, Session, keep_alive, Polled
<1>2. f \in WireFrame /\ ~IsSyn(f)
  <2>1. {"Syn"} \in {{"Syn"}, {"Ack"}}
    OBVIOUS
  <2> HIDE DEF n
  <2> QED BY <1>1, <2>1, ControlFrames
<1> HIDE DEF f
<1>3. SameControl(u, s)
  BY <1>1, <1>2, SendKeeps
<1>4. Becomes(e, [u EXCEPT !.ping_id = @ + 1, !.pings = @ \cup {n}])
  BY DEF keep_alive, f
<1> HIDE DEF u
<1>5. Becomes(e, [u EXCEPT !.ping_id = n, !.pings = s.pings \cup {n}])
  BY <1>3, <1>4 DEF SameControl
<1> QED BY <1>1, <1>5 DEF Pinged, u, f

\* A new session is good.
LEMMA NewSessionGood ==
    ASSUME NEW e \in Side
    PROVE  LET s == NewSession(e) IN
           /\ GoodSession(s, e) /\ \A x \in StreamId : s.life[x] = "none"
           /\ ~s.eof /\ s.pings = {} /\ s.ping_id = 0 /\ Wire(s) = <<>>
<1> DEFINE s == NewSession(e)
           first == IF e = "client" THEN 1 ELSE 2
           g == [id \in StreamId |-> NewHandle(id, "Init", max_window_size(e))]
<1>1. first \in Nat /\ first > 0 /\ Opener(first) = e
  <2>1. 1 % 2 = 1 /\ 2 % 2 = 0
    OBVIOUS
  <2> QED BY <2>1 DEF Side, Opener
<1>2. max_window_size(e) \in Nat /\ InitialWindow <= max_window_size(e) /\ InitialWindow \in Nat
  BY WindowBounds
<1>3. ASSUME NEW id \in StreamId PROVE HandleOK(NewHandle(id, "Init", max_window_size(e)), e, id)
  BY <1>2, <1>3, IdIsNat DEF HandleOK, NewHandle, StreamHandle, StreamState
<1>4. g \in [StreamId -> StreamHandle]
  BY <1>3 DEF HandleOK
<1>5. \A S : <<>> \in Seq(S)
  BY OneFrame
<1>6. s = [eof |-> FALSE, remote_go_away |-> FALSE, local_go_away |-> FALSE,
           next_stream_id |-> first, pings |-> {}, ping_id |-> 0,
           streams |-> {}, pending_streams |-> <<>>,
           write_pending_frames |-> <<>>, read_pending_frames |-> <<>>,
           events |-> <<>>, out |-> <<>>, h |-> g,
           life |-> [id \in StreamId |-> "none"], chan |-> [id \in StreamId |-> <<>>],
           ended |-> FALSE, failed |-> {}]
  BY DEF NewSession
<1>7. \A x \in StreamId : HandleOK(g[x], e, x)
  BY <1>3
<1> HIDE DEF s, g, first
<1>8. [id \in StreamId |-> <<>>] \in [StreamId -> Seq(Frame)]
  BY <1>5
<1>9. /\ s \in Session /\ s.out = <<>> /\ s.write_pending_frames = <<>> /\ s.events = <<>>
      /\ s.read_pending_frames = <<>> /\ s.next_stream_id = first /\ s.h = g
      /\ ~s.remote_go_away /\ ~s.eof /\ s.pings = {} /\ s.ping_id = 0 /\ s.streams = {}
      /\ s.life = [id \in StreamId |-> "none"] /\ s.chan = [id \in StreamId |-> <<>>]
  <2>1. <<>> \in Seq(StreamId) /\ <<>> \in Seq(SessionFrame) /\ <<>> \in Seq(Frame)
        /\ <<>> \in Seq(StreamEvent)
    BY <1>5
  <2>2. [id \in StreamId |-> "none"] \in [StreamId -> {"none", "live", "gone"}]
    OBVIOUS
  <2>3. s \in Session
    BY <1>1, <1>4, <1>6, <1>8, <2>1, <2>2 DEF Session
  <2> QED BY <1>6, <2>3
<1>10. Wire(s) = <<>>
  BY <1>9 DEF Wire
<1>11. SessionOK(s, e)
  <2>1. Len(<<>>) <= SinkCap
    BY SessionAssumption
  <2> QED BY <1>1, <1>5, <1>9, <2>1 DEF SessionOK
<1>12. ASSUME NEW x \in StreamId PROVE StreamOK(s, e, x) /\ s.life[x] = "none"
  <2>1. s.life[x] = "none" /\ s.chan[x] = <<>>
    BY <1>9
  <2>2. SynAt(Wire(s), x) = {} /\ SynEventAt(s.events, x) = {} /\ ~ClosedIn(s.events, x)
    BY <1>9, <1>10 DEF SynAt, SynEventAt, ClosedIn
  <2>3. SynOnce(s, e, x)
    BY <2>2 DEF SynOnce, Single
  <2>4. NoneOK(s, x) /\ LiveOK(s, x) /\ ClosedOK(s, x) /\ HandleOK(s.h[x], e, x)
    BY <1>7, <1>9, <2>1, <2>2 DEF NoneOK, LiveOK, Live, ClosedOK
  <2> QED BY <2>1, <2>3, <2>4 DEF StreamOK
<1>13. GoodSession(s, e)
  BY <1>11, <1>12 DEF GoodSession
<1> QED BY <1>9, <1>10, <1>12, <1>13 DEF s

\* The invariant holds at first ...
LEMMA StreamsInit == Init => StreamsInv
<1> SUFFICES ASSUME Init PROVE StreamsInv
  OBVIOUS
<1>1. node = [e \in Side |-> NewSession(e)]
  BY DEF Init
<1>2. \A e \in Side : node[e] = NewSession(e)
  BY <1>1
<1>3. \A e \in Side : GoodSession(node[e], e) /\ \A x \in StreamId : node[e].life[x] = "none"
  BY <1>2, NewSessionGood
<1>4. node \in [Side -> Session]
  <2>1. \A e \in Side : node[e] \in Session
    BY <1>3 DEF GoodSession, SessionOK
  <2> QED BY <1>1, <1>2, <2>1
<1>5. \A e \in Side : Peer(e) \in Side
  BY Sides
<1> QED BY <1>3, <1>4, <1>5 DEF StreamsInv, TypeOK, Cross

\* ... and every step keeps it.
LEMMA StreamsStep ==
    ASSUME StreamsInv, [Next]_node PROVE StreamsInv'
<1>1. CASE UNCHANGED node
  BY <1>1 DEF StreamsInv, TypeOK
<1>2. ASSUME NEW e \in Side, Moves(e) PROVE StreamsInv'
  BY <1>2, OneSide DEF Moves
<1>3. ASSUME NEW e \in Side, NEW id \in StreamId, HandleStep(e, id) PROVE StreamsInv'
  BY <1>2, <1>3, HandleMoves
<1>4. ASSUME NEW e \in Side, SessionStep(e) PROVE StreamsInv'
  <2>1. CASE RecvFrame(e)
    <3> DEFINE s == node[e]
               r == node[Peer(e)]
               t == handle_session_frame(s, e, Head(r.out))
               w == ReadOff(r)
    <3>1. /\ node' = [node EXCEPT ![e] = t, ![Peer(e)] = w]
          /\ GoodSession(s, e) /\ GoodSession(r, Peer(e)) /\ Cross(r, Peer(e), s)
          /\ ~s.ended /\ r.out # <<>>
      BY <2>1, RecvFrameIs
    <3> HIDE DEF s, r
    <3>2. /\ GoodSession(t, e) /\ BornStay(t, s, e) /\ GoodSession(w, Peer(e)) /\ w.life = r.life
          /\ \A x \in StreamId : Unborn(w, Peer(e), x) => t.life[x] = "none"
      BY <3>1, FrameKeeps
    <3> HIDE DEF t, w
    <3> QED BY <3>1, <3>2, BothSides DEF s, r
  <2>2. CASE RecvEof(e)
    <3>1. GoodSession(node[e], e)
      BY DEF StreamsInv
    <3>2. Becomes(e, [node[e] EXCEPT !.eof = TRUE])
      BY <2>2 DEF RecvEof
    <3> QED BY <3>1, <3>2, ClockKeeps, OneSide
  <2>3. CASE keep_alive(e)
    <3> DEFINE s == node[e]
               n == s.ping_id + 1
               t == Pinged(s, n)
    <3>1. GoodSession(s, e) /\ n \in Nat /\ Becomes(e, t)
      BY <2>3, KeepAliveIs
    <3>2. StreamsKept(t, s, e)
      <4> HIDE DEF n
      <4> QED BY <3>1, KeepAliveKeeps
    <3> HIDE DEF t
    <3> QED BY <3>1, <3>2, OneSide
  <2> QED BY <1>2, <1>4, <2>1, <2>2, <2>3, SessionMoves
<1> QED BY <1>1, <1>3, <1>4 DEF Next

\* The ids' lives, for every instance: the inductive invariant of Yamux.
THEOREM StreamsHold == Spec => []StreamsInv
<1>1. StreamsInv /\ [Next]_node => StreamsInv'
  BY StreamsStep
<1> QED BY <1>1, StreamsInit, PTL DEF Spec

\* Both sessions, their queues and their handles keep their types: no step writes a
\* negative window, a stream id out of range or a frame of the wrong kind.
THEOREM YamuxTypes == Spec => []TypeOK
<1>1. StreamsInv => TypeOK
  BY DEF StreamsInv
<1> QED BY <1>1, StreamsHold, PTL

\* No SYN waits in read_pending_frames, so that distribute_to_substream, which returns
\* at a SYN while the session goes away, never loses another stream's frames.
THEOREM SynIsNeverQueued == Spec => []SynNeverQueued
<1>1. StreamsInv => SynNeverQueued
  <2> SUFFICES ASSUME StreamsInv, NEW e \in Side, NEW i \in 1..Len(node[e].read_pending_frames)
               PROVE  "Syn" \notin node[e].read_pending_frames[i].flags
    BY DEF SynNeverQueued
  <2>1. node[e].read_pending_frames \in Seq(QueuedFrame)
    BY DEF StreamsInv, GoodSession, SessionOK
  <2>2. node[e].read_pending_frames[i] \in QueuedFrame
    BY <2>1, ElementOfSeq
  <2> QED BY <2>2 DEF QueuedFrame
<1> QED BY <1>1, StreamsHold, PTL

\* A stream that can still receive keeps its frame_sender while its session runs: no
\* late Closed event, no removal on disconnection and no second SYN cuts it off.
THEOREM StreamsStayRegistered == Spec => []RegisteredWhileReadable
<1>1. StreamsInv => RegisteredWhileReadable
  BY DEF StreamsInv, GoodSession, StreamOK, LiveOK, RegisteredWhileReadable
<1> QED BY <1>1, StreamsHold, PTL
-----------------------------------------------------------------------------
(***************************************************************************)
(* Pings                                                                   *)
(***************************************************************************)

\* The ids on a wire are numbers.
LEMMA WireLengths ==
    ASSUME NEW q \in Seq(WireFrame)
    PROVE  Len(q) \in Nat /\ \A i \in 1..Len(q) : q[i].length \in Nat
<1>1. Len(q) \in Nat /\ \A i \in 1..Len(q) : q[i] \in WireFrame
  BY LenProperties, ElementOfSeq
<1> QED BY <1>1 DEF WireFrame, SessionFrame

\* A frame joins a wire that is neither a ping nor, there, an answer.
LEMMA QuietAppend ==
    ASSUME NEW q \in Seq(WireFrame), NEW p \in Seq(WireFrame), NEW n, NEW P,
           PingsOK(q, p, n, P), NEW g \in WireFrame
    PROVE  /\ ~PingSyn(g) => PingsOK(Append(q, g), p, n, P)
           /\ ~PingAck(g) => PingsOK(q, Append(p, g), n, P)
<1>1. ASSUME NEW o \in Seq(WireFrame)
      PROVE  /\ Len(Append(o, g)) = Len(o) + 1
             /\ \A i \in 1..Len(o) : Append(o, g)[i] = o[i] /\ i \in 1..(Len(o) + 1)
             /\ Append(o, g)[Len(o) + 1] = g
             /\ \A i \in 1..(Len(o) + 1) : i \notin 1..Len(o) => i = Len(o) + 1
  <2>1. Len(o) \in Nat
    BY LenProperties
  <2>2. \A i \in 1..Len(o) : i \in 1..(Len(o) + 1)
    BY <2>1
  <2> QED BY <2>2, AppendAt
<1>2. ASSUME ~PingSyn(g) PROVE PingsOK(Append(q, g), p, n, P)
  <2> DEFINE a == Append(q, g)
  <2>1. /\ Len(a) = Len(q) + 1
        /\ \A i \in 1..Len(q) : a[i] = q[i] /\ i \in 1..(Len(q) + 1)
        /\ \A i \in 1..(Len(q) + 1) : PingSyn(a[i]) => i \in 1..Len(q)
    BY <1>1, <1>2
  <2> HIDE DEF a
  <2>2. PingsOrdered(a, p, n)
    BY <2>1 DEF PingsOK, PingsOrdered
  <2>3. PingsKnown(a, p, P)
    BY <2>1 DEF PingsOK, PingsKnown
  <2> QED BY <2>2, <2>3 DEF PingsOK, a
<1>3. ASSUME ~PingAck(g) PROVE PingsOK(q, Append(p, g), n, P)
  <2> DEFINE a == Append(p, g)
  <2>1. /\ Len(a) = Len(p) + 1
        /\ \A i \in 1..Len(p) : a[i] = p[i] /\ i \in 1..(Len(p) + 1)
        /\ \A i \in 1..(Len(p) + 1) : PingAck(a[i]) => i \in 1..Len(p)
    BY <1>1, <1>3
  <2> HIDE DEF a
  <2>2. PingsOrdered(q, a, n)
    BY <2>1 DEF PingsOK, PingsOrdered
  <2>3. PingsKnown(q, a, P)
    BY <2>1 DEF PingsOK, PingsKnown
  <2> QED BY <2>2, <2>3 DEF PingsOK, a
<1> QED BY <1>2, <1>3

\* The frames behind the first.
LEMMA TailFrames ==
    ASSUME NEW o \in Seq(WireFrame), o # <<>>
    PROVE  /\ Len(o) \in Nat \ {0} /\ Head(o) = o[1] /\ 1 \in 1..Len(o) /\ Tail(o) \in Seq(WireFrame)
           /\ \A i \in 1..Len(Tail(o)) : /\ i + 1 \in 1..Len(o) /\ Tail(o)[i] = o[i + 1]
                                         /\ i \in Nat /\ 1 < i + 1
           /\ \A i \in 1..Len(o) : i # 1 => /\ i - 1 \in 1..Len(Tail(o))
                                            /\ Tail(o)[i - 1] = o[i]
           /\ \A i, j \in 1..Len(Tail(o)) : i < j => i + 1 < j + 1
<1>1. /\ Head(o) = o[1] /\ Tail(o) \in Seq(WireFrame)
      /\ Len(o) \in Nat \ {0} /\ Len(Tail(o)) = Len(o) - 1
      /\ \A i \in 1..Len(Tail(o)) : i + 1 \in 1..Len(o) /\ Tail(o)[i] = o[i + 1]
  BY TailAt
<1>2. \A i \in 1..Len(Tail(o)) : i \in Nat /\ 1 < i + 1
  BY <1>1
<1>3. ASSUME NEW i \in 1..Len(o), i # 1 PROVE i - 1 \in 1..Len(Tail(o)) /\ Tail(o)[i - 1] = o[i]
  <2>1. i - 1 \in 1..Len(Tail(o)) /\ (i - 1) + 1 = i
    BY <1>1, <1>3
  <2> QED BY <1>1, <2>1
<1>4. 1 \in 1..Len(o) /\ \A i, j \in 1..Len(Tail(o)) : i < j => i + 1 < j + 1
  BY <1>1
<1> QED BY <1>1, <1>2, <1>3, <1>4

\* A frame leaves a wire that is neither a ping nor, there, an answer.
LEMMA QuietTail ==
    ASSUME NEW q \in Seq(WireFrame), NEW p \in Seq(WireFrame), NEW n, NEW P, PingsOK(q, p, n, P)
    PROVE  /\ q # <<>> /\ ~PingSyn(Head(q)) => PingsOK(Tail(q), p, n, P)
           /\ p # <<>> /\ ~PingAck(Head(p)) => PingsOK(q, Tail(p), n, P)
<1>1. ASSUME q # <<>>, ~PingSyn(Head(q)) PROVE PingsOK(Tail(q), p, n, P)
  <2> DEFINE a == Tail(q)
  <2>1. /\ \A i \in 1..Len(a) : i + 1 \in 1..Len(q) /\ a[i] = q[i + 1]
        /\ \A i \in 1..Len(q) : PingSyn(q[i]) => i - 1 \in 1..Len(a) /\ a[i - 1] = q[i]
        /\ \A i, j \in 1..Len(a) : i < j => i + 1 < j + 1
    BY <1>1, TailFrames
  <2> HIDE DEF a
  <2>2. PingsOrdered(a, p, n)
    BY <2>1 DEF PingsOK, PingsOrdered
  <2>3. PingsKnown(a, p, P)
    BY <2>1, ZenonT(60) DEF PingsOK, PingsKnown
  <2> QED BY <2>2, <2>3 DEF PingsOK, a
<1>2. ASSUME p # <<>>, ~PingAck(Head(p)) PROVE PingsOK(q, Tail(p), n, P)
  <2> DEFINE a == Tail(p)
  <2>1. /\ \A i \in 1..Len(a) : i + 1 \in 1..Len(p) /\ a[i] = p[i + 1]
        /\ \A i \in 1..Len(p) : PingAck(p[i]) => i - 1 \in 1..Len(a) /\ a[i - 1] = p[i]
        /\ \A i, j \in 1..Len(a) : i < j => i + 1 < j + 1
    BY <1>2, TailFrames
  <2> HIDE DEF a
  <2>2. PingsOrdered(q, a, n)
    BY <2>1 DEF PingsOK, PingsOrdered
  <2>3. PingsKnown(q, a, P)
    BY <2>1, ZenonT(60) DEF PingsOK, PingsKnown
  <2> QED BY <2>2, <2>3 DEF PingsOK, a
<1> QED BY <1>1, <1>2

\* keep_alive sends the next ping.
LEMMA PingJoins ==
    ASSUME NEW q \in Seq(WireFrame), NEW p \in Seq(WireFrame), NEW n \in Nat, NEW P,
           PingsOK(q, p, n, P), NEW m \in Nat, m > n
    PROVE  PingsOK(Append(q, new_ping({"Syn"}, m)), p, m, P \cup {m})
<1> DEFINE g == new_ping({"Syn"}, m)
           a == Append(q, g)
<1>0. PingSyn(g) /\ g.length = m /\ g \in WireFrame
  <2>1. {"Syn"} \in {{"Syn"}, {"Ack"}}
    OBVIOUS
  <2> QED BY <2>1, ControlFrames DEF PingSyn, new_ping
<1> HIDE DEF g
<1>1. /\ Len(q) \in Nat /\ Len(a) = Len(q) + 1
      /\ \A i \in 1..Len(q) : a[i] = q[i]
      /\ a[Len(q) + 1] = g
      /\ \A i \in 1..(Len(q) + 1) : i \notin 1..Len(q) => i = Len(q) + 1
  BY <1>0, AppendAt, LenProperties
<1>2. /\ \A i \in 1..Len(q) : i \in 1..(Len(q) + 1)
      /\ Len(q) + 1 \in 1..(Len(q) + 1)
      /\ \A i \in 1..(Len(q) + 1), j \in 1..(Len(q) + 1) : i < j => i \in 1..Len(q)
  BY <1>1
<1>3. /\ \A i \in 1..Len(q) : q[i].length \in Nat
      /\ \A i \in 1..Len(p) : p[i].length \in Nat
  BY WireLengths
<1>4. /\ \A i \in 1..Len(q) : PingSyn(q[i]) => q[i].length < m
      /\ \A i \in 1..Len(p) : PingAck(p[i]) => p[i].length < m
  <2>1. \A k \in Nat : k <= n => k < m
    OBVIOUS
  <2> QED BY <1>3, <2>1 DEF PingsOK, PingsOrdered
<1> HIDE DEF a
<1>5. ASSUME NEW i \in 1..Len(a), NEW j \in 1..Len(a), i < j, PingSyn(a[i]), PingSyn(a[j])
      PROVE  a[i].length < a[j].length
  <2>1. i \in 1..Len(q) /\ a[i] = q[i]
    BY <1>1, <1>2, <1>5
  <2>2. CASE j \in 1..Len(q)
    BY <1>1, <1>5, <2>1, <2>2 DEF PingsOK, PingsOrdered
  <2>3. CASE j \notin 1..Len(q)
    BY <1>0, <1>1, <1>4, <1>5, <2>1, <2>3
  <2> QED BY <2>2, <2>3
<1>6. ASSUME NEW i \in 1..Len(p), NEW j \in 1..Len(a), PingAck(p[i]), PingSyn(a[j])
      PROVE  p[i].length < a[j].length
  <2>2. CASE j \in 1..Len(q)
    BY <1>1, <1>6, <2>2 DEF PingsOK, PingsOrdered
  <2>3. CASE j \notin 1..Len(q)
    BY <1>0, <1>1, <1>4, <1>6, <2>3
  <2> QED BY <2>2, <2>3
<1>7. ASSUME NEW i \in 1..Len(a), PingSyn(a[i]) PROVE a[i].length <= m
  <2>2. CASE i \in 1..Len(q)
    BY <1>1, <1>3, <1>4, <1>7, <2>2
  <2>3. CASE i \notin 1..Len(q)
    BY <1>0, <1>1, <1>7, <2>3
  <2> QED BY <2>2, <2>3
<1>8. \A i \in 1..Len(p) : PingAck(p[i]) => p[i].length <= m
  BY <1>3, <1>4
<1>9. PingsOrdered(a, p, m)
  BY <1>5, <1>6, <1>7, <1>8 DEF PingsOK, PingsOrdered
<1>10. PingsKnown(a, p, P \cup {m})
  <2> SUFFICES ASSUME NEW k \in Nat
               PROVE  k \in P \cup {m} <=>
                        \/ \E i \in 1..Len(a) : PingSyn(a[i]) /\ a[i].length = k
                        \/ \E i \in 1..Len(p) : PingAck(p[i]) /\ p[i].length = k
    BY DEF PingsKnown
  <2>1. k \in P <=> \/ \E i \in 1..Len(q) : PingSyn(q[i]) /\ q[i].length = k
                    \/ \E i \in 1..Len(p) : PingAck(p[i]) /\ p[i].length = k
    BY DEF PingsOK, PingsKnown
  <2>2. (\E i \in 1..Len(a) : PingSyn(a[i]) /\ a[i].length = k) <=>
          \/ \E i \in 1..Len(q) : PingSyn(q[i]) /\ q[i].length = k
          \/ k = m
    BY <1>0, <1>1, <1>2
  <2> QED BY <2>1, <2>2
<1> QED BY <1>9, <1>10 DEF PingsOK, a, g

\* The first ping of a wire is answered.
LEMMA PingAnswered ==
    ASSUME NEW q \in Seq(WireFrame), NEW p \in Seq(WireFrame), NEW n, NEW P,
           PingsOK(q, p, n, P), q # <<>>, PingSyn(Head(q))
    PROVE  PingsOK(Tail(q), Append(p, new_ping({"Ack"}, Head(q).length)), n, P)
<1> DEFINE m == Head(q).length
           g == new_ping({"Ack"}, m)
           b == Append(p, g)
           a == Tail(q)
<1>0. /\ Head(q) = q[1] /\ 1 \in 1..Len(q)
      /\ \A i \in 1..Len(a) : i + 1 \in 1..Len(q) /\ a[i] = q[i + 1] /\ 1 < i + 1
      /\ \A i \in 1..Len(q) : i # 1 => i - 1 \in 1..Len(a) /\ a[i - 1] = q[i]
      /\ \A i, j \in 1..Len(a) : i < j => i + 1 < j + 1
  BY TailFrames
<1>1. m \in Nat /\ q[1].length = m /\ PingSyn(q[1])
  BY <1>0, WireLengths
<1>2. PingAck(g) /\ g.length = m /\ g \in WireFrame
  <2>1. {"Ack"} \in {{"Syn"}, {"Ack"}} /\ "Syn" \notin {"Ack"}
    OBVIOUS
  <2> QED BY <1>1, <2>1, ControlFrames DEF PingAck, new_ping
<1> HIDE DEF g, m, a
<1>3. /\ Len(p) \in Nat /\ Len(b) = Len(p) + 1
      /\ \A i \in 1..Len(p) : b[i] = p[i]
      /\ b[Len(p) + 1] = g
      /\ \A i \in 1..(Len(p) + 1) : i \notin 1..Len(p) => i = Len(p) + 1
  BY <1>2, AppendAt, LenProperties
<1>4. /\ \A i \in 1..Len(p) : i \in 1..(Len(p) + 1)
      /\ Len(p) + 1 \in 1..(Len(p) + 1)
      /\ \A i \in 1..(Len(p) + 1), j \in 1..(Len(p) + 1) : i < j => i \in 1..Len(p)
  BY <1>3
<1> HIDE DEF b
<1>5. /\ \A i \in 1..Len(a) : PingSyn(a[i]) => m < a[i].length
      /\ \A i \in 1..Len(p) : PingAck(p[i]) => p[i].length < m
      /\ m <= n
  BY <1>0, <1>1 DEF PingsOK, PingsOrdered
<1>6. \A i, j \in 1..Len(a) : i < j /\ PingSyn(a[i]) /\ PingSyn(a[j]) => a[i].length < a[j].length
  BY <1>0 DEF PingsOK, PingsOrdered
<1>7. ASSUME NEW i \in 1..Len(b), NEW j \in 1..Len(b), i < j, PingAck(b[i]), PingAck(b[j])
      PROVE  b[i].length < b[j].length
  <2>1. i \in 1..Len(p) /\ b[i] = p[i]
    BY <1>3, <1>4, <1>7
  <2>2. CASE j \in 1..Len(p)
    BY <1>3, <1>7, <2>1, <2>2 DEF PingsOK, PingsOrdered
  <2>3. CASE j \notin 1..Len(p)
    BY <1>2, <1>3, <1>5, <1>7, <2>1, <2>3
  <2> QED BY <2>2, <2>3
<1>8. ASSUME NEW i \in 1..Len(b), NEW j \in 1..Len(a), PingAck(b[i]), PingSyn(a[j])
      PROVE  b[i].length < a[j].length
  <2>2. CASE i \in 1..Len(p)
    BY <1>0, <1>3, <1>8, <2>2 DEF PingsOK, PingsOrdered
  <2>3. CASE i \notin 1..Len(p)
    BY <1>2, <1>3, <1>5, <1>8, <2>3
  <2> QED BY <2>2, <2>3
<1>9. \A i \in 1..Len(a) : PingSyn(a[i]) => a[i].length <= n
  BY <1>0 DEF PingsOK, PingsOrdered
<1>10. ASSUME NEW i \in 1..Len(b), PingAck(b[i]) PROVE b[i].length <= n
  <2>2. CASE i \in 1..Len(p)
    BY <1>3, <1>10, <2>2 DEF PingsOK, PingsOrdered
  <2>3. CASE i \notin 1..Len(p)
    BY <1>2, <1>3, <1>5, <1>10, <2>3
  <2> QED BY <2>2, <2>3
<1>11. PingsOrdered(a, b, n)
  BY <1>6, <1>7, <1>8, <1>9, <1>10 DEF PingsOrdered
<1>12. PingsKnown(a, b, P)
  <2> SUFFICES ASSUME NEW k \in Nat
               PROVE  k \in P <=>
                        \/ \E i \in 1..Len(a) : PingSyn(a[i]) /\ a[i].length = k
                        \/ \E i \in 1..Len(b) : PingAck(b[i]) /\ b[i].length = k
    BY DEF PingsKnown
  <2>1. k \in P <=> \/ \E i \in 1..Len(q) : PingSyn(q[i]) /\ q[i].length = k
                    \/ \E i \in 1..Len(p) : PingAck(p[i]) /\ p[i].length = k
    BY DEF PingsOK, PingsKnown
  <2>2. (\E i \in 1..Len(q) : PingSyn(q[i]) /\ q[i].length = k) <=>
          \/ \E i \in 1..Len(a) : PingSyn(a[i]) /\ a[i].length = k
          \/ k = m
    BY <1>0, <1>1
  <2>3. (\E i \in 1..Len(b) : PingAck(b[i]) /\ b[i].length = k) <=>
          \/ \E i \in 1..Len(p) : PingAck(p[i]) /\ p[i].length = k
          \/ k = m
    BY <1>2, <1>3, <1>4
  <2> QED BY <2>1, <2>2, <2>3
<1> QED BY <1>11, <1>12 DEF PingsOK, a, b, g, m

\* The first answer of a wire takes its ping, and no other, out of pings.
LEMMA AnswerRead ==
    ASSUME NEW q \in Seq(WireFrame), NEW p \in Seq(WireFrame), NEW n, NEW P \in SUBSET Nat,
           PingsOK(q, p, n, P), p # <<>>, PingAck(Head(p))
    PROVE  PingsOK(q, Tail(p), n, {k \in P : k > Head(p).length})
<1> DEFINE m == Head(p).length
           a == Tail(p)
           Q == {k \in P : k > m}
<1>0. /\ Head(p) = p[1] /\ 1 \in 1..Len(p)
      /\ \A i \in 1..Len(a) : i + 1 \in 1..Len(p) /\ a[i] = p[i + 1] /\ 1 < i + 1
      /\ \A i \in 1..Len(p) : i # 1 => i - 1 \in 1..Len(a) /\ a[i - 1] = p[i]
      /\ \A i, j \in 1..Len(a) : i < j => i + 1 < j + 1
  BY TailFrames
<1>1. m \in Nat /\ p[1].length = m /\ PingAck(p[1])
  BY <1>0, WireLengths
<1> HIDE DEF m, a
<1>2. /\ \A i \in 1..Len(a) : PingAck(a[i]) => m < a[i].length
      /\ \A i \in 1..Len(q) : PingSyn(q[i]) => m < q[i].length
  BY <1>0, <1>1 DEF PingsOK, PingsOrdered
<1>3. PingsOrdered(q, a, n)
  BY <1>0 DEF PingsOK, PingsOrdered
<1>4. PingsKnown(q, a, Q)
  <2> SUFFICES ASSUME NEW k \in Nat
               PROVE  k \in Q <=>
                        \/ \E i \in 1..Len(q) : PingSyn(q[i]) /\ q[i].length = k
                        \/ \E i \in 1..Len(a) : PingAck(a[i]) /\ a[i].length = k
    BY DEF PingsKnown
  <2>1. k \in P <=> \/ \E i \in 1..Len(q) : PingSyn(q[i]) /\ q[i].length = k
                    \/ \E i \in 1..Len(p) : PingAck(p[i]) /\ p[i].length = k
    BY DEF PingsOK, PingsKnown
  <2>2. (\E i \in 1..Len(p) : PingAck(p[i]) /\ p[i].length = k) <=>
          \/ \E i \in 1..Len(a) : PingAck(a[i]) /\ a[i].length = k
          \/ k = m
    BY <1>0, <1>1
  <2>3. k > m <=> m < k
    BY <1>1
  <2>4. k = m => ~(k > m)
    BY <1>1
  <2> QED BY <1>2, <2>1, <2>2, <2>3, <2>4
<1> QED BY <1>3, <1>4 DEF PingsOK, a, m

\* What pings holds, in the words of PingsInFlight.
LEMMA PingsAre ==
    ASSUME NEW q \in Seq(WireFrame), NEW p \in Seq(WireFrame), NEW P \in SUBSET Nat, PingsKnown(q, p, P)
    PROVE  P = {f.length : f \in {g \in Range(q) : g.ty = "Ping" /\ "Syn" \in g.flags}
                                 \cup {g \in Range(p) : g.ty = "Ping" /\ "Ack" \in g.flags}}
<1>1. /\ DOMAIN q = 1..Len(q) /\ \A i \in 1..Len(q) : q[i] \in WireFrame
      /\ DOMAIN p = 1..Len(p) /\ \A i \in 1..Len(p) : p[i] \in WireFrame
  BY LenProperties, ElementOfSeq
<1>2. Range(q) = {q[i] : i \in 1..Len(q)} /\ Range(p) = {p[i] : i \in 1..Len(p)}
  BY <1>1 DEF Range
<1>3. \A f \in WireFrame : PingAck(f) <=> f.ty = "Ping" /\ "Ack" \in f.flags
  BY DEF PingAck, WireFrame
<1> DEFINE F == {g \in Range(q) : g.ty = "Ping" /\ "Syn" \in g.flags}
           G == {g \in Range(p) : g.ty = "Ping" /\ "Ack" \in g.flags}
<1>4. \A f : f \in F <=> \E i \in 1..Len(q) : f = q[i] /\ PingSyn(q[i])
  BY <1>2 DEF PingSyn
<1>5. \A f : f \in G <=> \E i \in 1..Len(p) : f = p[i] /\ PingAck(p[i])
  BY <1>1, <1>2, <1>3
<1> HIDE DEF F, G
<1>6. ASSUME NEW k \in P PROVE \E f \in F \cup G : f.length = k
  BY <1>4, <1>5, <1>6 DEF PingsKnown
<1>7. ASSUME NEW f \in F \cup G PROVE f.length \in P
  <2>1. f.length \in Nat
    BY <1>4, <1>5, WireLengths
  <2> QED BY <1>4, <1>5, <2>1 DEF PingsKnown
<1>8. P = {f.length : f \in F \cup G}
  BY <1>6, <1>7
<1> QED BY <1>8 DEF F, G

\* A calm session is not dead: neither end has seen the other go.
LEMMA CalmIsAlive ==
    ASSUME StreamsInv, PingsInv, NEW e \in Side, Calm(node[e], node[Peer(e)])
    PROVE  /\ ~is_dead(node[e])
           /\ Wire(node[e]) \in Seq(WireFrame) /\ Wire(node[Peer(e)]) \in Seq(WireFrame)
           /\ node[e].ping_id \in Nat /\ node[e].pings \in SUBSET Nat
           /\ PingsOK(Wire(node[e]), Wire(node[Peer(e)]), node[e].ping_id, node[e].pings)
           /\ PingsOK(Wire(node[Peer(e)]), Wire(node[e]), node[Peer(e)].ping_id, node[Peer(e)].pings)
<1> DEFINE p == Peer(e)
<1>1. p \in Side /\ Peer(p) = e
  BY Sides
<1>2. SessionOK(node[e], e) /\ SessionOK(node[p], p)
  BY <1>1 DEF StreamsInv, GoodSession
<1>3. node[e].eof => node[p].ended
  BY DEF PingsInv
<1>4. ~is_dead(node[e])
  BY <1>2, <1>3 DEF Calm, is_dead, SessionOK
<1>5. Wire(node[e]) \in Seq(WireFrame) /\ Wire(node[p]) \in Seq(WireFrame)
  BY <1>2, ConcatProperties DEF SessionOK, Wire
<1>6. node[e].ping_id \in Nat /\ node[e].pings \in SUBSET Nat
  BY <1>2 DEF SessionOK, Session
<1>7. PingsOK(Wire(node[e]), Wire(node[p]), node[e].ping_id, node[e].pings)
  BY DEF PingsInv
<1>8. Calm(node[p], node[e])
  BY DEF Calm
<1>9. PingsOK(Wire(node[p]), Wire(node[e]), node[p].ping_id, node[p].pings)
  BY <1>1, <1>8 DEF PingsInv
<1> QED BY <1>4, <1>5, <1>6, <1>7, <1>9

\* The invariant from both directions, after a step that left t at e and r at its peer.
LEMMA BothWays ==
    ASSUME NEW e \in Side, NEW t, NEW r, node'[e] = t, node'[Peer(e)] = r,
           t.eof => r.ended, r.eof => t.ended,
           Calm(t, r) => /\ PingsOK(Wire(t), Wire(r), t.ping_id, t.pings)
                         /\ PingsOK(Wire(r), Wire(t), r.ping_id, r.pings)
    PROVE  PingsInv'
<1> DEFINE p == Peer(e)
<1>1. p \in Side /\ Peer(p) = e /\ \A x \in Side : x = e \/ x = p
  BY Sides
<1>2. Calm(r, t) => Calm(t, r)
  BY DEF Calm
<1> SUFFICES ASSUME NEW x \in Side
             PROVE  LET a == node'[x]
                        b == node'[Peer(x)] IN
                    /\ a.eof => b.ended
                    /\ Calm(a, b) => PingsOK(Wire(a), Wire(b), a.ping_id, a.pings)
  BY DEF PingsInv, Calm, Wire
<1>3. CASE x = e
  BY <1>3
<1>4. CASE x = p
  BY <1>1, <1>2, <1>4
<1> QED BY <1>1, <1>3, <1>4

\* What a step of e finds at the other side.
LEMMA OtherSide ==
    ASSUME StreamsInv, NEW e \in Side, NEW t, Becomes(e, t)
    PROVE  node'[e] = t /\ node'[Peer(e)] = node[Peer(e)]
<1>1. Peer(e) \in Side /\ Peer(e) # e
  BY Sides
<1>2. node \in [Side -> Session]
  BY DEF StreamsInv, TypeOK
<1> QED BY <1>1, <1>2 DEF Becomes

\* A step that keeps the pings.
LEMMA MovesPings ==
    ASSUME StreamsInv, PingsInv, NEW e \in Side, Moves(e)
    PROVE  PingsInv'
<1> DEFINE s == node[e]
           r == node[Peer(e)]
<1>1. PICK t : Becomes(e, t) /\ PingsKept(t, s)
  BY DEF Moves
<1>2. node'[e] = t /\ node'[Peer(e)] = r
  BY <1>1, OtherSide
<1>3. (s.eof => r.ended) /\ (r.eof => s.ended)
  <2>1. Peer(e) \in Side /\ Peer(Peer(e)) = e
    BY Sides
  <2> QED BY <2>1 DEF PingsInv
<1>4. (t.eof => r.ended) /\ (r.eof => t.ended)
  BY <1>1, <1>3 DEF PingsKept
<1>5. ASSUME Calm(t, r)
      PROVE  /\ PingsOK(Wire(t), Wire(r), t.ping_id, t.pings)
             /\ PingsOK(Wire(r), Wire(t), r.ping_id, r.pings)
  <2>1. Calm(s, r)
    BY <1>1, <1>5 DEF PingsKept, Calm
  <2>2. /\ ~is_dead(s)
        /\ Wire(s) \in Seq(WireFrame) /\ Wire(r) \in Seq(WireFrame)
        /\ PingsOK(Wire(s), Wire(r), s.ping_id, s.pings)
        /\ PingsOK(Wire(r), Wire(s), r.ping_id, r.pings)
    BY <2>1, CalmIsAlive
  <2>3. /\ t.pings = s.pings /\ t.ping_id = s.ping_id
        /\ \/ Wire(t) = Wire(s)
           \/ \E g \in WireFrame : g.ty # "Ping" /\ Wire(t) = Append(Wire(s), g)
    BY <1>1, <1>5, <2>2 DEF PingsKept, Calm
  <2>4. CASE Wire(t) = Wire(s)
    BY <2>2, <2>3, <2>4
  <2>5. CASE \E g \in WireFrame : g.ty # "Ping" /\ Wire(t) = Append(Wire(s), g)
    <3>1. PICK g \in WireFrame : g.ty # "Ping" /\ Wire(t) = Append(Wire(s), g)
      BY <2>5
    <3>2. ~PingSyn(g) /\ ~PingAck(g)
      BY <3>1 DEF PingSyn, PingAck
    <3>3. PingsOK(Append(Wire(s), g), Wire(r), s.ping_id, s.pings)
      BY <2>2, <3>2, QuietAppend
    <3>4. PingsOK(Wire(r), Append(Wire(s), g), r.ping_id, r.pings)
      BY <2>2, <3>2, QuietAppend
    <3> QED BY <2>3, <3>1, <3>3, <3>4
  <2> QED BY <2>3, <2>4, <2>5
<1> QED BY <1>2, <1>4, <1>5, BothWays

\* keep_alive.
LEMMA KeepAlivePings ==
    ASSUME StreamsInv, PingsInv, NEW e \in Side, keep_alive(e)
    PROVE  PingsInv'
<1> DEFINE s == node[e]
           r == node[Peer(e)]
           n == s.ping_id + 1
           f == new_ping({"Syn"}, n)
           t == Pinged(s, n)
<1>1. GoodSession(s, e) /\ n \in Nat /\ ~is_dead(s) /\ Becomes(e, t)
  BY KeepAliveIs
<1>2. node'[e] = t /\ node'[Peer(e)] = r
  BY <1>1, OtherSide
<1>3. (s.eof => r.ended) /\ (r.eof => s.ended)
  <2>1. Peer(e) \in Side /\ Peer(Peer(e)) = e
    BY Sides
  <2> QED BY <2>1 DEF PingsInv
<1>4. s.ping_id \in Nat => n > s.ping_id
  OBVIOUS
<1>5. GoodSession(s, e) /\ n \in Nat /\ ~is_dead(s)
  BY <1>1
<1> HIDE DEF n, s, r
<1>6. /\ t.ended = s.ended /\ t.local_go_away = s.local_go_away /\ t.eof = s.eof
      /\ t.ping_id = n /\ t.pings = s.pings \cup {n} /\ Wire(t) = Append(Wire(s), f)
  <2>1. t.ended = s.ended
    BY <1>5, KeepAliveKeeps
  <2>2. t.local_go_away = s.local_go_away /\ t.eof = s.eof
    BY <1>5, KeepAliveKeeps
  <2>3. t.ping_id = n /\ t.pings = s.pings \cup {n}
    BY <1>5, KeepAliveKeeps
  <2>4. Wire(t) = Append(Wire(s), f)
    BY <1>5, KeepAliveKeeps
  <2> QED BY <2>1, <2>2, <2>3, <2>4
<1> HIDE DEF t
<1>7. (t.eof => r.ended) /\ (r.eof => t.ended)
  BY <1>3, <1>6
<1>8. ASSUME Calm(t, r)
      PROVE  /\ PingsOK(Wire(t), Wire(r), t.ping_id, t.pings)
             /\ PingsOK(Wire(r), Wire(t), r.ping_id, r.pings)
  <2>1. Calm(s, r)
    BY <1>6, <1>8 DEF Calm
  <2>2. /\ Wire(s) \in Seq(WireFrame) /\ Wire(r) \in Seq(WireFrame) /\ s.ping_id \in Nat
        /\ PingsOK(Wire(s), Wire(r), s.ping_id, s.pings)
        /\ PingsOK(Wire(r), Wire(s), r.ping_id, r.pings)
    BY <2>1, CalmIsAlive DEF s, r
  <2>3. PingsOK(Append(Wire(s), f), Wire(r), n, s.pings \cup {n})
    BY <1>5, <1>4, <2>2, PingJoins
  <2>4. f \in WireFrame /\ ~PingAck(f)
    <3>1. {"Syn"} \in {{"Syn"}, {"Ack"}}
      OBVIOUS
    <3> QED BY <1>5, <3>1, ControlFrames DEF PingAck, new_ping
  <2>5. PingsOK(Wire(r), Append(Wire(s), f), r.ping_id, r.pings)
    BY <2>2, <2>4, QuietAppend
  <2> QED BY <1>6, <2>3, <2>5
<1> QED BY <1>2, <1>7, <1>8, BothWays DEF r

\* A frame is read.
LEMMA RecvFramePings ==
    ASSUME StreamsInv, PingsInv, NEW e \in Side, RecvFrame(e)
    PROVE  PingsInv'
<1> DEFINE s == node[e]
           r == node[Peer(e)]
           f == Head(r.out)
           t == handle_session_frame(s, e, f)
           w == ReadOff(r)
<1>1. /\ node'[e] = t /\ node'[Peer(e)] = w
      /\ GoodSession(s, e) /\ GoodSession(r, Peer(e)) /\ Cross(r, Peer(e), s)
      /\ ~s.ended /\ ~is_dead(s) /\ r.out # <<>>
  BY RecvFrameIs
<1>2. (s.eof => r.ended) /\ (r.eof => s.ended) /\ Peer(e) \in Side
  <2>1. Peer(e) \in Side /\ Peer(Peer(e)) = e
    BY Sides
  <2> QED BY <2>1 DEF PingsInv
<1>3. Calm(s, r) =>
          /\ Wire(s) \in Seq(WireFrame) /\ Wire(r) \in Seq(WireFrame) /\ s.pings \in SUBSET Nat
          /\ PingsOK(Wire(s), Wire(r), s.ping_id, s.pings)
          /\ PingsOK(Wire(r), Wire(s), r.ping_id, r.pings)
  BY CalmIsAlive
<1> HIDE DEF s, r
<1>4. /\ t.ended = s.ended /\ (s.local_go_away => t.local_go_away) /\ t.eof = s.eof
      /\ f.ty \in {"Data", "WindowUpdate"} => PingQuiet(t, s)
      /\ f.ty = "Ping" => t = handle_ping(s, f)
      /\ f.ty = "GoAway" => t.local_go_away
      /\ f \in WireFrame
  <2>1. /\ GoodSession(s, e) /\ GoodSession(r, Peer(e)) /\ Cross(r, Peer(e), s)
        /\ ~s.ended /\ r.out # <<>>
    BY <1>1
  <2>2. t.ended = s.ended /\ (s.local_go_away => t.local_go_away) /\ t.eof = s.eof
    BY <2>1, FrameKeeps
  <2>3. f.ty \in {"Data", "WindowUpdate"} => PingQuiet(t, s)
    BY <2>1, FrameKeeps
  <2>4. f.ty = "Ping" => t = handle_ping(s, f)
    BY <2>1, FrameKeeps
  <2>5. (f.ty = "GoAway" => t.local_go_away) /\ f \in WireFrame
    BY <2>1, FrameKeeps
  <2> QED BY <2>2, <2>3, <2>4, <2>5
<1>5. /\ SameControl(w, r) /\ w.ended = r.ended
      /\ Wire(r) # <<>> /\ Head(Wire(r)) = f /\ Wire(w) = Tail(Wire(r))
  BY <1>1, <1>2, SentKeeps DEF ReadOff
<1> HIDE DEF t, w, f
<1>6. (t.eof => w.ended) /\ (w.eof => t.ended)
  BY <1>2, <1>4, <1>5 DEF SameControl
<1>7. ASSUME Calm(t, w)
      PROVE  /\ PingsOK(Wire(t), Wire(w), t.ping_id, t.pings)
             /\ PingsOK(Wire(w), Wire(t), w.ping_id, w.pings)
  <2> DEFINE q == Wire(s)
             p == Wire(r)
  <2>1. Calm(s, r)
    BY <1>4, <1>5, <1>7 DEF Calm, SameControl
  <2>2. /\ q \in Seq(WireFrame) /\ p \in Seq(WireFrame) /\ s.pings \in SUBSET Nat
        /\ PingsOK(q, p, s.ping_id, s.pings) /\ PingsOK(p, q, r.ping_id, r.pings)
    BY <1>3, <2>1
  <2>3. Tail(p) \in Seq(WireFrame) /\ p # <<>> /\ Head(p) = f /\ Wire(w) = Tail(p)
        /\ w.ping_id = r.ping_id /\ w.pings = r.pings
    BY <1>5, <2>2, TailAt DEF SameControl
  <2> HIDE DEF q, p
  <2>4. CASE f.ty \in {"Data", "WindowUpdate"}
    <3>1. ~PingSyn(f) /\ ~PingAck(f)
      BY <2>4 DEF PingSyn, PingAck
    <3>2. PingsOK(q, Tail(p), s.ping_id, s.pings) /\ PingsOK(Tail(p), q, r.ping_id, r.pings)
      BY <2>2, <2>3, <3>1, QuietTail
    <3>3. /\ t.pings = s.pings /\ t.ping_id = s.ping_id
          /\ \/ Wire(t) = q
             \/ \E g \in WireFrame : g.ty # "Ping" /\ Wire(t) = Append(q, g)
      BY <1>1, <1>4, <2>1, <2>4 DEF PingQuiet, SameControl, Calm, q
    <3>4. CASE Wire(t) = q
      BY <2>3, <3>2, <3>3, <3>4
    <3>5. CASE \E g \in WireFrame : g.ty # "Ping" /\ Wire(t) = Append(q, g)
      <4>1. PICK g \in WireFrame : g.ty # "Ping" /\ Wire(t) = Append(q, g)
        BY <3>5
      <4>2. ~PingSyn(g) /\ ~PingAck(g)
        BY <4>1 DEF PingSyn, PingAck
      <4>3. PingsOK(Append(q, g), Tail(p), s.ping_id, s.pings)
        BY <2>2, <2>3, <3>2, <4>2, QuietAppend
      <4>4. PingsOK(Tail(p), Append(q, g), r.ping_id, r.pings)
        BY <2>2, <2>3, <3>2, <4>2, QuietAppend
      <4> QED BY <2>3, <3>3, <4>1, <4>3, <4>4
    <3> QED BY <3>3, <3>4, <3>5
  <2>5. CASE f.ty = "Ping" /\ "Syn" \in f.flags
    <3> DEFINE g == new_ping({"Ack"}, f.length)
    <3>1. PingSyn(f) /\ ~PingAck(f)
      BY <2>5 DEF PingSyn, PingAck
    <3>2. g \in WireFrame /\ ~PingSyn(g)
      <4>1. {"Ack"} \in {{"Syn"}, {"Ack"}} /\ f.length \in Nat /\ "Syn" \notin {"Ack"}
        BY <1>4 DEF WireFrame, SessionFrame
      <4> QED BY <4>1, ControlFrames DEF PingSyn, new_ping
    <3> HIDE DEF g
    <3>3. t.pings = s.pings /\ t.ping_id = s.ping_id /\ Wire(t) = Append(q, g)
      <4>1. t = handle_ping(s, f)
        BY <1>4, <2>5
      <4> QED BY <1>1, <1>4, <2>5, <4>1, PingKeeps DEF q, g
    <3>4. PingsOK(q, Tail(p), s.ping_id, s.pings)
      BY <2>2, <2>3, <3>1, QuietTail
    <3>5. PingsOK(Append(q, g), Tail(p), s.ping_id, s.pings)
      BY <2>2, <2>3, <3>2, <3>4, QuietAppend
    <3>6. PingsOK(Tail(p), Append(q, g), r.ping_id, r.pings)
      <4>1. PingSyn(Head(p)) /\ g = new_ping({"Ack"}, Head(p).length)
        BY <2>3, <3>1 DEF g
      <4> QED BY <2>2, <2>3, <4>1, PingAnswered
    <3> QED BY <2>3, <3>3, <3>5, <3>6
  <2>6. CASE f.ty = "Ping" /\ "Syn" \notin f.flags
    <3>1. ~PingSyn(f) /\ PingAck(f)
      BY <2>6 DEF PingSyn, PingAck
    <3>2. /\ t.pings = {k \in s.pings : k > f.length} /\ t.ping_id = s.ping_id /\ Wire(t) = q
      <4>1. t = handle_ping(s, f)
        BY <1>4, <2>6
      <4> QED BY <1>1, <1>4, <2>6, <4>1, PingKeeps DEF q
    <3>3. PingsOK(q, Tail(p), s.ping_id, {k \in s.pings : k > f.length})
      BY <2>2, <2>3, <3>1, AnswerRead
    <3>4. PingsOK(Tail(p), q, r.ping_id, r.pings)
      BY <2>2, <2>3, <3>1, QuietTail
    <3> QED BY <2>3, <3>2, <3>3, <3>4
  <2>7. CASE f.ty = "GoAway"
    BY <1>4, <1>7, <2>7 DEF Calm
  <2>8. f.ty \in {"Data", "WindowUpdate", "Ping", "GoAway"}
    BY <1>4 DEF WireFrame, SessionFrame
  <2> QED BY <2>4, <2>5, <2>6, <2>7, <2>8
<1> QED BY <1>1, <1>6, <1>7, BothWays

\* The end of the socket is read: the peer has ended, nothing is calm any more.
LEMMA RecvEofPings ==
    ASSUME StreamsInv, PingsInv, NEW e \in Side, RecvEof(e)
    PROVE  PingsInv'
<1> DEFINE s == node[e]
           r == node[Peer(e)]
           t == [s EXCEPT !.eof = TRUE]
<1>1. Becomes(e, t) /\ r.ended /\ GoodSession(s, e)
  BY DEF RecvEof, StreamsInv
<1>2. node'[e] = t /\ node'[Peer(e)] = r
  BY <1>1, OtherSide
<1>3. t.ended = s.ended
  BY <1>1, ClockKeeps
<1>4. r.eof => s.ended
  <2>1. Peer(e) \in Side /\ Peer(Peer(e)) = e
    BY Sides
  <2> QED BY <2>1 DEF PingsInv
<1> HIDE DEF t
<1>5. ~Calm(t, r)
  BY <1>1 DEF Calm
<1> QED BY <1>1, <1>2, <1>3, <1>4, <1>5, BothWays

\* The pings, for every instance: at first there are none ...
LEMMA PingsInit == Init => PingsInv
<1> SUFFICES ASSUME Init, NEW e \in Side
             PROVE  LET s == node[e]
                        r == node[Peer(e)] IN
                    /\ s.eof => r.ended
                    /\ Calm(s, r) => PingsOK(Wire(s), Wire(r), s.ping_id, s.pings)
  BY DEF PingsInv
<1>1. Peer(e) \in Side
  BY Sides
<1>2. node[e] = NewSession(e) /\ node[Peer(e)] = NewSession(Peer(e))
  BY <1>1 DEF Init
<1>3. /\ ~node[e].eof /\ node[e].pings = {}
      /\ Wire(node[e]) = <<>> /\ Wire(node[Peer(e)]) = <<>>
  BY <1>1, <1>2, NewSessionGood
<1>4. PingsOK(<<>>, <<>>, node[e].ping_id, {})
  BY DEF PingsOK, PingsOrdered, PingsKnown
<1> QED BY <1>3, <1>4

\* ... and every step keeps the invariant.
LEMMA PingsStep ==
    ASSUME StreamsInv, PingsInv, [Next]_node PROVE PingsInv'
<1>1. CASE UNCHANGED node
  BY <1>1 DEF PingsInv, Calm, Wire
<1>2. ASSUME NEW e \in Side, NEW id \in StreamId, HandleStep(e, id) PROVE PingsInv'
  BY <1>2, HandleMoves, MovesPings
<1>3. ASSUME NEW e \in Side, SessionStep(e) PROVE PingsInv'
  <2>1. CASE RecvFrame(e)
    BY <2>1, RecvFramePings
  <2>2. CASE RecvEof(e)
    BY <2>2, RecvEofPings
  <2>3. CASE keep_alive(e)
    BY <2>3, KeepAlivePings
  <2> QED BY <1>3, <2>1, <2>2, <2>3, SessionMoves, MovesPings
<1> QED BY <1>1, <1>2, <1>3 DEF Next

\* While nobody goes away, pings holds exactly the pings that are on their way or whose
\* answer is: split_off in handle_ping takes out the answered one and no other.
THEOREM PingsAreInFlight == Spec => []PingsInFlight
<1>1. StreamsInv /\ PingsInv /\ [Next]_node => PingsInv'
  BY PingsStep
<1>2. StreamsInv /\ PingsInv => PingsInFlight
  <2> SUFFICES ASSUME StreamsInv, PingsInv, NEW e \in Side, Calm(node[e], node[Peer(e)])
               PROVE  LET s == node[e]
                          r == node[Peer(e)] IN
                      s.pings = {f.length : f \in
                          {g \in Range(Wire(s)) : g.ty = "Ping" /\ "Syn" \in g.flags}
                          \cup {g \in Range(Wire(r)) : g.ty = "Ping" /\ "Ack" \in g.flags}}
    BY DEF PingsInFlight, Calm, Wire
  <2>1. /\ Wire(node[e]) \in Seq(WireFrame) /\ Wire(node[Peer(e)]) \in Seq(WireFrame)
        /\ node[e].pings \in SUBSET Nat
        /\ PingsKnown(Wire(node[e]), Wire(node[Peer(e)]), node[e].pings)
    BY CalmIsAlive DEF PingsOK
  <2> QED BY <2>1, PingsAre
<1> QED BY <1>1, <1>2, PingsInit, StreamsHold, PTL DEF Spec
-----------------------------------------------------------------------------
(***************************************************************************)
(* Flow control: what a stream has on its way                              *)
(***************************************************************************)

OfStream(f, id) == f.ty \in {"Data", "WindowUpdate"} /\ f.stream_id = id

\* The frames of a stream among those of q ...
Has(q, id) == {q[i] : i \in {j \in 1..Len(q) : OfStream(q[j], id)}}

\* ... and their order.
Precedes(q, id, f, g) ==
    \E i, j \in 1..Len(q) :
        i < j /\ q[i] = f /\ q[j] = g /\ OfStream(f, id) /\ OfStream(g, id)

\* What a handle's peer may have sent it at most, and what it may send at most.
Grant(h) == h.rcvd + h.recv_window

Credit(h) == h.sent + h.send_window

\* Where a frame begins: its first byte, or the credit before it.
Start(f) == f.upto - f.length

\* A frame on its way from the handle a to the handle b begins where b has come to, or
\* later, and ends where a has come to, or earlier.
Fits(f, a, b) ==
    /\ f.ty = "Data" => b.rcvd <= Start(f) /\ f.upto <= a.sent
    /\ f.ty = "WindowUpdate" => Credit(b) <= Start(f) /\ f.upto <= Grant(a)

\* The frames P on their way from a to b follow each other.
FlowOK(P, id, a, b) ==
    /\ b.rcvd <= a.sent /\ Credit(b) <= Grant(a)
    /\ \A f \in Has(P, id) : Fits(f, a, b)
    /\ \A f, g \in Has(P, id) : Precedes(P, id, f, g) /\ f.ty = g.ty => f.upto <= Start(g)

\* What a session has for its peer, and for its stream id.
OutPath(s) == Wire(s) \o FramesOf(s.events)

InPath(s, id) == s.chan[id] \o s.read_pending_frames

\* A handle that does not exist yet would begin from nothing.
Pristine(s, id) ==
    s.life[id] = "none" =>
        /\ s.h[id].sent = 0 /\ s.h[id].rcvd = 0
        /\ s.h[id].send_window = InitialWindow /\ s.h[id].recv_window = InitialWindow
        /\ Has(OutPath(s), id) = {}

\* A channel holds frames of its stream.
ChanOK(s, id) == \A i \in 1..Len(s.chan[id]) : s.chan[id][i].stream_id = id

\* The inductive invariant behind NoProtocolError and DataBounded: the frames of a
\* stream may get lost, but never overtake each other.
FlowInv ==
    \A e \in Side :
        /\ node[e].failed = {}
        /\ \A id \in StreamId :
             /\ Pristine(node[e], id) /\ ChanOK(node[e], id)
             /\ FlowOK(OnItsWay(node[e], node[Peer(e)], id), id,
                       node[e].h[id], node[Peer(e)].h[id])

\* p has lost frames of q, if anything, and kept the order of the others.
Thinner(p, q, id) ==
    /\ Has(p, id) \subseteq Has(q, id)
    /\ \A f, g : Precedes(p, id, f, g) => Precedes(q, id, f, g)

\* What is in a sequence.
LEMMA HasIs ==
    ASSUME NEW q, NEW id, NEW f
    PROVE  f \in Has(q, id) <=> \E i \in 1..Len(q) : q[i] = f /\ OfStream(f, id)
BY DEF Has

\* Only frames of the stream precede each other.
LEMMA PrecedesHas ==
    ASSUME NEW q, NEW id, NEW f, NEW g, Precedes(q, id, f, g)
    PROVE  f \in Has(q, id) /\ g \in Has(q, id)
BY HasIs DEF Precedes

\* What a concatenation has, and in which order.
LEMMA HasConcat ==
    ASSUME NEW S, NEW p \in Seq(S), NEW q \in Seq(S), NEW id
    PROVE  /\ \A f : f \in Has(p \o q, id) <=> f \in Has(p, id) \/ f \in Has(q, id)
           /\ \A f, g : Precedes(p \o q, id, f, g) <=>
                \/ Precedes(p, id, f, g) \/ Precedes(q, id, f, g)
                \/ f \in Has(p, id) /\ g \in Has(q, id)
<1> DEFINE r == p \o q
           m == Len(p)
           n == Len(q)
<1>1. /\ r \in Seq(S) /\ Len(r) = m + n
      /\ \A i \in 1..m : r[i] = p[i]
      /\ \A i \in 1..n : r[m + i] = q[i]
      /\ \A i \in 1..(m + n) : i \notin 1..m => i - m \in 1..n /\ r[i] = q[i - m]
  BY ConcatAt
<1>2. m \in Nat /\ n \in Nat
  BY LenProperties
<1> HIDE DEF r, m, n
<1>3. \A f : f \in Has(p, id) <=> \E i \in 1..m : p[i] = f /\ OfStream(f, id)
  BY HasIs DEF m
<1>4. \A f : f \in Has(q, id) <=> \E i \in 1..n : q[i] = f /\ OfStream(f, id)
  BY HasIs DEF n
<1>5. \A f : f \in Has(r, id) <=> \E i \in 1..(m + n) : r[i] = f /\ OfStream(f, id)
  BY <1>1, HasIs
<1>6. /\ \A i \in 1..m : i \in 1..(m + n)
      /\ \A i \in 1..n : m + i \in 1..(m + n)
      /\ \A i \in 1..m, j \in 1..n : i < m + j
      /\ \A i, j \in 1..n : i < j => m + i < m + j
      /\ \A i, j \in 1..(m + n) : i < j => i - m < j - m
      /\ \A i, j \in 1..(m + n) : i < j /\ i \notin 1..m => j \notin 1..m
  BY <1>2
<1>7. ASSUME NEW f PROVE f \in Has(r, id) <=> f \in Has(p, id) \/ f \in Has(q, id)
  <2>1. ASSUME f \in Has(r, id) PROVE f \in Has(p, id) \/ f \in Has(q, id)
    <3>1. PICK i \in 1..(m + n) : r[i] = f /\ OfStream(f, id)
      BY <1>5, <2>1
    <3>2. CASE i \in 1..m
      BY <1>1, <1>3, <3>1, <3>2
    <3>3. CASE i \notin 1..m
      BY <1>1, <1>4, <3>1, <3>3
    <3> QED BY <3>2, <3>3
  <2>2. ASSUME f \in Has(p, id) PROVE f \in Has(r, id)
    BY <1>1, <1>3, <1>5, <1>6, <2>2
  <2>3. ASSUME f \in Has(q, id) PROVE f \in Has(r, id)
    BY <1>1, <1>4, <1>5, <1>6, <2>3
  <2> QED BY <2>1, <2>2, <2>3
<1>8. ASSUME NEW f, NEW g
      PROVE  Precedes(r, id, f, g) <=> \/ Precedes(p, id, f, g) \/ Precedes(q, id, f, g)
                                       \/ f \in Has(p, id) /\ g \in Has(q, id)
  <2>1. ASSUME Precedes(r, id, f, g)
        PROVE  \/ Precedes(p, id, f, g) \/ Precedes(q, id, f, g)
               \/ f \in Has(p, id) /\ g \in Has(q, id)
    <3>1. PICK i \in 1..(m + n), j \in 1..(m + n) :
             i < j /\ r[i] = f /\ r[j] = g /\ OfStream(f, id) /\ OfStream(g, id)
      BY <1>1, <2>1 DEF Precedes
    <3>2. CASE j \in 1..m
      <4>1. i \in 1..m
        BY <1>6, <3>1, <3>2
      <4> QED BY <1>1, <3>1, <3>2, <4>1 DEF Precedes, m
    <3>3. CASE j \notin 1..m /\ i \in 1..m
      <4>1. f \in Has(p, id)
        BY <1>1, <1>3, <3>1, <3>3
      <4>2. g \in Has(q, id)
        BY <1>1, <1>4, <3>1, <3>3
      <4> QED BY <4>1, <4>2
    <3>4. CASE i \notin 1..m
      <4>1. j \notin 1..m /\ i - m < j - m
        BY <1>6, <3>1, <3>4
      <4>2. i - m \in 1..n /\ j - m \in 1..n /\ q[i - m] = f /\ q[j - m] = g
        BY <1>1, <3>1, <3>4, <4>1
      <4> QED BY <3>1, <4>1, <4>2 DEF Precedes, n
    <3> QED BY <3>2, <3>3, <3>4
  <2>2. ASSUME Precedes(p, id, f, g) PROVE Precedes(r, id, f, g)
    <3>1. PICK i \in 1..m, j \in 1..m :
             i < j /\ p[i] = f /\ p[j] = g /\ OfStream(f, id) /\ OfStream(g, id)
      BY <2>2 DEF Precedes, m
    <3> QED BY <1>1, <1>6, <3>1 DEF Precedes
  <2>3. ASSUME Precedes(q, id, f, g) PROVE Precedes(r, id, f, g)
    <3>1. PICK i \in 1..n, j \in 1..n :
             i < j /\ q[i] = f /\ q[j] = g /\ OfStream(f, id) /\ OfStream(g, id)
      BY <2>3 DEF Precedes, n
    <3> QED BY <1>1, <1>6, <3>1 DEF Precedes
  <2>4. ASSUME f \in Has(p, id), g \in Has(q, id) PROVE Precedes(r, id, f, g)
    <3>1. PICK i \in 1..m : p[i] = f /\ OfStream(f, id)
      BY <1>3, <2>4
    <3>2. PICK j \in 1..n : q[j] = g /\ OfStream(g, id)
      BY <1>4, <2>4
    <3> QED BY <1>1, <1>6, <3>1, <3>2 DEF Precedes
  <2> QED BY <2>1, <2>2, <2>3, <2>4
<1> QED BY <1>7, <1>8 DEF r

\* Nothing, and a single frame.
LEMMA HasFew ==
    ASSUME NEW id
    PROVE  /\ \A f : f \notin Has(<<>>, id)
           /\ \A f, g : ~Precedes(<<>>, id, f, g)
           /\ \A f, x : x \in Has(<<f>>, id) <=> x = f /\ OfStream(f, id)
           /\ \A f, x, y : ~Precedes(<<f>>, id, x, y)
<1>1. \A f : f \notin Has(<<>>, id)
  BY DEF Has
<1>2. \A f, g : ~Precedes(<<>>, id, f, g)
  BY DEF Precedes
<1>3. ASSUME NEW f, NEW x PROVE x \in Has(<<f>>, id) <=> x = f /\ OfStream(f, id)
  <2>1. Len(<<f>>) = 1 /\ <<f>>[1] = f /\ 1..1 = {1}
    OBVIOUS
  <2>2. x \in Has(<<f>>, id) <=> \E i \in {1} : <<f>>[i] = x /\ OfStream(x, id)
    BY <2>1, HasIs
  <2> QED BY <2>1, <2>2
<1>4. ASSUME NEW f, NEW x, NEW y PROVE ~Precedes(<<f>>, id, x, y)
  <2>1. Len(<<f>>) = 1 /\ \A i, j \in 1..1 : ~(i < j)
    OBVIOUS
  <2> QED BY <2>1 DEF Precedes
<1> QED BY <1>1, <1>2, <1>3, <1>4

\* Losing nothing, and losing twice.
LEMMA ThinnerRefl == \A q, id : Thinner(q, q, id)
BY DEF Thinner

LEMMA ThinnerTrans ==
    ASSUME NEW p, NEW q, NEW r, NEW id, Thinner(p, q, id), Thinner(q, r, id)
    PROVE  Thinner(p, r, id)
BY DEF Thinner

\* Losing something of each part.
LEMMA ThinnerConcat ==
    ASSUME NEW S, NEW p \in Seq(S), NEW q \in Seq(S), NEW a \in Seq(S), NEW b \in Seq(S), NEW id,
           Thinner(p, a, id), Thinner(q, b, id)
    PROVE  Thinner(p \o q, a \o b, id)
<1>1. /\ \A f : f \in Has(p \o q, id) <=> f \in Has(p, id) \/ f \in Has(q, id)
      /\ \A f, g : Precedes(p \o q, id, f, g) <=>
                \/ Precedes(p, id, f, g) \/ Precedes(q, id, f, g)
                \/ f \in Has(p, id) /\ g \in Has(q, id)
  BY HasConcat
<1>2. /\ \A f : f \in Has(a \o b, id) <=> f \in Has(a, id) \/ f \in Has(b, id)
      /\ \A f, g : Precedes(a \o b, id, f, g) <=>
                \/ Precedes(a, id, f, g) \/ Precedes(b, id, f, g)
                \/ f \in Has(a, id) /\ g \in Has(b, id)
  BY HasConcat
<1> QED BY <1>1, <1>2 DEF Thinner

\* Losing one of the two parts altogether.
LEMMA ThinnerParts ==
    ASSUME NEW S, NEW p \in Seq(S), NEW q \in Seq(S), NEW id
    PROVE  Thinner(p, p \o q, id) /\ Thinner(q, p \o q, id) /\ Thinner(<<>>, p, id)
<1>1. /\ \A f : f \in Has(p \o q, id) <=> f \in Has(p, id) \/ f \in Has(q, id)
      /\ \A f, g : Precedes(p \o q, id, f, g) <=>
                \/ Precedes(p, id, f, g) \/ Precedes(q, id, f, g)
                \/ f \in Has(p, id) /\ g \in Has(q, id)
  BY HasConcat
<1> QED BY <1>1, HasFew DEF Thinner

\* A frame of no stream, or of another, is as good as none.
LEMMA ThinnerOther ==
    ASSUME NEW S, NEW p \in Seq(S), NEW f \in S, NEW id, ~OfStream(f, id)
    PROVE  Thinner(p \o <<f>>, p, id)
<1>1. <<f>> \in Seq(S)
  BY OneFrame
<1>2. /\ \A x : x \in Has(p \o <<f>>, id) <=> x \in Has(p, id) \/ x \in Has(<<f>>, id)
      /\ \A x, y : Precedes(p \o <<f>>, id, x, y) <=>
                \/ Precedes(p, id, x, y) \/ Precedes(<<f>>, id, x, y)
                \/ x \in Has(p, id) /\ y \in Has(<<f>>, id)
  BY <1>1, HasConcat
<1> QED BY <1>2, HasFew DEF Thinner

\* A beginning of a sequence, and its rest.
LEMMA ThinnerCut ==
    ASSUME NEW S, NEW q \in Seq(S), NEW k \in 0..Len(q), NEW id
    PROVE  /\ SubSeq(q, 1, k) \in Seq(S) /\ SubSeq(q, k + 1, Len(q)) \in Seq(S)
           /\ SubSeq(q, 1, k) \o SubSeq(q, k + 1, Len(q)) = q
           /\ Thinner(SubSeq(q, 1, k), q, id) /\ Thinner(SubSeq(q, k + 1, Len(q)), q, id)
<1> DEFINE a == SubSeq(q, 1, k)
           b == SubSeq(q, k + 1, Len(q))
<1>1. Len(q) \in Nat
  BY LenProperties
<1>2. 1 \in 1..(Len(q) + 1) /\ k \in 0..Len(q) /\ 1 <= k + 1
  BY <1>1
<1>3. a \in Seq(S)
  BY <1>1, <1>2, PartAt
<1>4. k + 1 \in 1..(Len(q) + 1) /\ Len(q) \in 0..Len(q) /\ k + 1 <= Len(q) + 1
  BY <1>1
<1>5. b \in Seq(S)
  BY <1>1, <1>4, PartAt
<1>6. a \o b = SubSeq(q, 1, Len(q))
  <2>1. k \in 1 - 1..Len(q) /\ Len(q) \in k..Len(q)
    BY <1>1
  <2> QED BY <1>1, <1>2, <2>1, ConcatAdjacentSubSeq
<1>7. SubSeq(q, 1, Len(q)) = q
  BY <1>1, SubSeqFull
<1> HIDE DEF a, b
<1>8. Thinner(a, a \o b, id) /\ Thinner(b, a \o b, id)
  BY <1>3, <1>5, ThinnerParts
<1> QED BY <1>3, <1>5, <1>6, <1>7, <1>8 DEF a, b

\* The first of a sequence, and its rest.
LEMMA HeadFirst ==
    ASSUME NEW S, NEW q \in Seq(S), q # <<>>
    PROVE  /\ Head(q) \in S /\ <<Head(q)>> \in Seq(S) /\ Tail(q) \in Seq(S)
           /\ q = <<Head(q)>> \o Tail(q)
<1> DEFINE a == <<Head(q)>>
           b == Tail(q)
<1>1. /\ Head(q) \in S /\ Head(q) = q[1] /\ b \in Seq(S)
      /\ Len(q) \in Nat \ {0} /\ Len(b) = Len(q) - 1
      /\ \A i \in 1..Len(b) : i + 1 \in 1..Len(q) /\ b[i] = q[i + 1]
  BY TailAt
<1>2. a \in Seq(S) /\ Len(a) = 1 /\ a[1] = Head(q)
  BY <1>1, OneFrame
<1> HIDE DEF a, b
<1>3. /\ a \o b \in Seq(S) /\ Len(a \o b) = Len(q)
      /\ \A i \in 1..Len(a) : (a \o b)[i] = a[i]
      /\ \A i \in 1..Len(b) : (a \o b)[Len(a) + i] = b[i]
  BY <1>1, <1>2, ConcatAt, SMTT(40)
<1>4. ASSUME NEW i \in 1..Len(q) PROVE (a \o b)[i] = q[i]
  <2>1. CASE i = 1
    BY <1>1, <1>2, <1>3, <2>1
  <2>2. CASE i # 1
    <3>1. i - 1 \in 1..Len(b) /\ 1 + (i - 1) = i /\ (i - 1) + 1 = i
      BY <1>1, <2>2
    <3> QED BY <1>1, <1>2, <1>3, <3>1
  <2> QED BY <2>1, <2>2
<1>5. a \o b = q
  BY <1>3, <1>4, SameSeq
<1> QED BY <1>1, <1>2, <1>5 DEF a, b

\* Append as a concatenation.
LEMMA AppendIs ==
    ASSUME NEW S, NEW q \in Seq(S), NEW f \in S
    PROVE  Append(q, f) = q \o <<f>> /\ <<f>> \in Seq(S) /\ Append(q, f) \in Seq(S)
<1>1. <<f>> \in Seq(S)
  BY OneFrame
<1> QED BY <1>1, AppendProperties, AppendIsConcat

\* A method may send more and grant more, of what it has received and may send it
\* takes nothing back.
SendsMore(k, g) == g.sent <= k.sent /\ Grant(g) <= Grant(k)

SameEnds(k, g) == k.rcvd = g.rcvd /\ Credit(k) = Credit(g)

\* A frame sent by a method that leaves k of the handle g.
Between(f, k, g) ==
    /\ f.ty = "Data" => g.sent <= Start(f) /\ f.upto <= k.sent
    /\ f.ty = "WindowUpdate" => Grant(g) <= Start(f) /\ f.upto <= Grant(k)

\* The counters of handles and frames are numbers.
LEMMA FlowNumbers ==
    /\ \A h \in StreamHandle : /\ h.sent \in Nat /\ h.rcvd \in Nat /\ h.send_window \in Nat
                               /\ h.recv_window \in Nat /\ Grant(h) \in Nat /\ Credit(h) \in Nat
    /\ \A f \in SessionFrame : /\ f.upto \in Nat /\ f.length \in Nat /\ Start(f) \in Int
                               /\ Start(f) <= f.upto /\ Start(f) = f.upto - f.length
BY DEF StreamHandle, SessionFrame, Grant, Credit, Start

\* The frames of a sequence are frames.
LEMMA HasFrames ==
    ASSUME NEW P \in Seq(SessionFrame), NEW id
    PROVE  \A f \in Has(P, id) : f \in SessionFrame /\ OfStream(f, id)
BY HasIs, ElementOfSeq

\* Frames get lost.
LEMMA FlowThinner ==
    ASSUME NEW P, NEW Q, NEW id, NEW a, NEW b, FlowOK(P, id, a, b), Thinner(Q, P, id)
    PROVE  FlowOK(Q, id, a, b)
BY DEF FlowOK, Thinner

\* The receiver does something that is nothing to the sender.
LEMMA FlowSame ==
    ASSUME NEW P, NEW id, NEW a, NEW b, NEW k, FlowOK(P, id, a, b), SameEnds(k, b)
    PROVE  FlowOK(P, id, a, k)
BY DEF FlowOK, SameEnds, Fits

\* The sender sends more.
LEMMA FlowMore ==
    ASSUME NEW P \in Seq(SessionFrame), NEW id, NEW a \in StreamHandle, NEW b \in StreamHandle,
           NEW k \in StreamHandle, FlowOK(P, id, a, b), SendsMore(k, a)
    PROVE  FlowOK(P, id, k, b)
<1>1. b.rcvd <= k.sent /\ Credit(b) <= Grant(k)
  BY FlowNumbers DEF FlowOK, SendsMore
<1>2. ASSUME NEW f \in Has(P, id) PROVE Fits(f, k, b)
  <2>1. f \in SessionFrame /\ Fits(f, a, b)
    BY HasFrames DEF FlowOK
  <2> QED BY <2>1, FlowNumbers DEF Fits, SendsMore
<1> QED BY <1>1, <1>2 DEF FlowOK

\* One frame more.
LEMMA FlowAppend ==
    ASSUME NEW P \in Seq(SessionFrame), NEW id, NEW a \in StreamHandle, NEW b \in StreamHandle,
           NEW k \in StreamHandle, FlowOK(P, id, a, b), SendsMore(k, a),
           NEW f \in SessionFrame, OfStream(f, id) => Between(f, k, a)
    PROVE  FlowOK(P \o <<f>>, id, k, b)
<1> DEFINE Q == P \o <<f>>
<1>1. FlowOK(P, id, k, b)
  BY FlowMore
<1>2. <<f>> \in Seq(SessionFrame)
  BY OneFrame
<1>3. /\ \A x : x \in Has(Q, id) <=> x \in Has(P, id) \/ x \in Has(<<f>>, id)
      /\ \A x, y : Precedes(Q, id, x, y) <=>
                \/ Precedes(P, id, x, y) \/ Precedes(<<f>>, id, x, y)
                \/ x \in Has(P, id) /\ y \in Has(<<f>>, id)
  BY <1>2, HasConcat
<1> HIDE DEF Q
<1>4. /\ \A x : x \in Has(Q, id) => x \in Has(P, id) \/ (x = f /\ OfStream(f, id))
      /\ \A x, y : Precedes(Q, id, x, y) =>
                Precedes(P, id, x, y) \/ (x \in Has(P, id) /\ y = f /\ OfStream(f, id))
  BY <1>3, HasFew
<1>5. ASSUME OfStream(f, id) PROVE Fits(f, k, b)
  BY <1>5, FlowNumbers DEF Fits, Between, FlowOK
<1>6. ASSUME NEW x \in Has(Q, id) PROVE Fits(x, k, b)
  BY <1>1, <1>4, <1>5 DEF FlowOK
<1>7. ASSUME NEW x \in Has(P, id), OfStream(f, id), x.ty = f.ty PROVE x.upto <= Start(f)
  <2>1. x \in SessionFrame /\ OfStream(x, id) /\ Fits(x, a, b)
    BY HasFrames DEF FlowOK
  <2>2. x.ty \in {"Data", "WindowUpdate"}
    BY <2>1 DEF OfStream
  <2> QED BY <1>7, <2>1, <2>2, FlowNumbers DEF Fits, Between
<1>8. ASSUME NEW x \in Has(Q, id), NEW y \in Has(Q, id), Precedes(Q, id, x, y), x.ty = y.ty
      PROVE  x.upto <= Start(y)
  <2>1. CASE Precedes(P, id, x, y)
    BY <1>1, <1>8, <2>1, PrecedesHas DEF FlowOK
  <2>2. CASE x \in Has(P, id) /\ y = f /\ OfStream(f, id)
    BY <1>7, <1>8, <2>2
  <2> QED BY <1>4, <1>8, <2>1, <2>2
<1>9. FlowOK(Q, id, k, b)
  BY <1>1, <1>6, <1>8 DEF FlowOK
<1> QED BY <1>9 DEF Q

\* What a step of the sender leaves on the way: O of what was there, and one frame.
LEMMA FlowSends ==
    ASSUME NEW I \in Seq(SessionFrame), NEW O \in Seq(SessionFrame), NEW Q \in Seq(SessionFrame),
           NEW id, NEW a \in StreamHandle, NEW b \in StreamHandle, NEW k \in StreamHandle,
           FlowOK(I \o O, id, a, b), SendsMore(k, a),
           NEW f \in SessionFrame, OfStream(f, id) => Between(f, k, a),
           Thinner(Q, O \o <<f>>, id)
    PROVE  FlowOK(I \o Q, id, k, b)
<1>1. <<f>> \in Seq(SessionFrame)
  BY OneFrame
<1>2. I \o O \in Seq(SessionFrame) /\ O \o <<f>> \in Seq(SessionFrame)
  BY <1>1, ConcatAt
<1>3. FlowOK((I \o O) \o <<f>>, id, k, b)
  BY <1>2, FlowAppend
<1>4. (I \o O) \o <<f>> = I \o (O \o <<f>>)
  BY <1>1, ConcatAssociative
<1>5. Thinner(I \o Q, I \o (O \o <<f>>), id)
  BY <1>2, ThinnerRefl, ThinnerConcat
<1> QED BY <1>3, <1>4, <1>5, FlowThinner

\* The frame that is taken next, and what comes behind it.
LEMMA FlowHead ==
    ASSUME NEW P \in Seq(SessionFrame), NEW id, NEW a, NEW b, NEW f \in SessionFrame,
           OfStream(f, id), FlowOK(<<f>> \o P, id, a, b)
    PROVE  /\ FlowOK(P, id, a, b) /\ Fits(f, a, b)
           /\ \A g \in Has(P, id) : g.ty = f.ty => f.upto <= Start(g)
<1> DEFINE Q == <<f>> \o P
<1>1. <<f>> \in Seq(SessionFrame)
  BY OneFrame
<1>2. /\ \A x : x \in Has(Q, id) <=> x \in Has(<<f>>, id) \/ x \in Has(P, id)
      /\ \A x, y : Precedes(Q, id, x, y) <=>
                \/ Precedes(<<f>>, id, x, y) \/ Precedes(P, id, x, y)
                \/ x \in Has(<<f>>, id) /\ y \in Has(P, id)
  BY <1>1, HasConcat
<1>3. Thinner(P, Q, id)
  BY <1>1, ThinnerParts
<1> HIDE DEF Q
<1>4. FlowOK(Q, id, a, b)
  BY DEF Q
<1>5. FlowOK(P, id, a, b)
  BY <1>3, <1>4, FlowThinner
<1>6. f \in Has(<<f>>, id)
  BY HasFew
<1>7. Fits(f, a, b)
  BY <1>2, <1>4, <1>6 DEF FlowOK
<1>8. ASSUME NEW g \in Has(P, id), g.ty = f.ty PROVE f.upto <= Start(g)
  <2>1. f \in Has(Q, id) /\ g \in Has(Q, id) /\ Precedes(Q, id, f, g)
    BY <1>2, <1>6
  <2> QED BY <1>4, <1>8, <2>1 DEF FlowOK
<1> QED BY <1>5, <1>7, <1>8

\* What every method but handle_frame does to the flow.
Tame(o, g) ==
    /\ SendsMore(o.h, g) /\ SameEnds(o.h, g) /\ o.event # "GoAway"
    /\ \/ o.frames = <<>>
       \/ \E f \in SessionFrame : o.frames = <<f>> /\ Between(f, o.h, g) /\ f.stream_id = o.h.id

\* The same counters.
SameCounts(k, g) ==
    /\ k.sent = g.sent /\ k.rcvd = g.rcvd
    /\ k.send_window = g.send_window /\ k.recv_window = g.recv_window

\* A method that leaves the counters alone and sends nothing.
LEMMA TameSame ==
    ASSUME NEW g \in StreamHandle, NEW k, SameCounts(k, g), NEW v \in {"None", "Closed"}
    PROVE  /\ SendsMore(k, g) /\ SameEnds(k, g)
           /\ Tame(Outcome(k, <<>>, v), g)
<1>1. SendsMore(k, g) /\ SameEnds(k, g)
  BY FlowNumbers DEF SameCounts, SendsMore, SameEnds, Grant, Credit
<1> QED BY <1>1 DEF Tame, Outcome

\* A method that leaves the counters alone and sends a frame without credit.
LEMMA TameUpdate ==
    ASSUME NEW g \in StreamHandle, NEW k, SameCounts(k, g), NEW v \in {"None", "Closed"},
           NEW F \in SUBSET Flag, NEW id \in Nat, k.id = id
    PROVE  Tame(Outcome(k, <<new_window_update(F, id, 0, g.rcvd + g.recv_window)>>, v), g)
<1> DEFINE f == new_window_update(F, id, 0, g.rcvd + g.recv_window)
<1>1. SendsMore(k, g) /\ SameEnds(k, g)
  BY TameSame
<1>2. Grant(g) \in Nat /\ Grant(k) = Grant(g) /\ g.rcvd + g.recv_window = Grant(g)
  BY FlowNumbers DEF SameCounts, Grant
<1>3. f \in SessionFrame /\ f.ty = "WindowUpdate" /\ f.length = 0 /\ f.upto = Grant(g)
      /\ f.stream_id = id
  BY <1>2 DEF new_window_update, SessionFrame
<1> HIDE DEF f
<1>4. Between(f, k, g)
  BY <1>2, <1>3 DEF Between, Start
<1>5. Tame(Outcome(k, <<f>>, v), g)
  BY <1>1, <1>3, <1>4 DEF Tame, Outcome
<1> QED BY <1>5 DEF f

\* get_flags leaves the counters alone.
LEMMA FlaggedSame ==
    ASSUME NEW g \in StreamHandle
    PROVE  /\ SameCounts(Flagged(g), g) /\ Flagged(g) \in StreamHandle
           /\ get_flags(g) \in SUBSET Flag
           /\ Flagged(g).read_buf = g.read_buf /\ Flagged(g).id = g.id
<1> DEFINE st == CASE g.state = "Init"        -> "SynSent"
                   [] g.state = "SynReceived" -> "Established"
                   [] OTHER                   -> g.state
<1>1. st \in StreamState
  BY DEF StreamHandle, StreamState
<1>2. Flagged(g) = [g EXCEPT !.state = st]
  BY DEF Flagged
<1> HIDE DEF st
<1>3. SameCounts(Flagged(g), g) /\ Flagged(g) \in StreamHandle /\ Flagged(g).read_buf = g.read_buf
      /\ Flagged(g).id = g.id
  BY <1>1, <1>2 DEF SameCounts, StreamHandle
<1>4. get_flags(g) \in SUBSET Flag
  BY DEF get_flags, Flag
<1> QED BY <1>3, <1>4

\* A handle that grants n more.
Regranted(k, n) == [k EXCEPT !.recv_window = @ + n]

\* send_window_update books what it announces.
LEMMA TameWindowUpdate ==
    ASSUME NEW e \in Side, NEW id \in StreamId, NEW g, HandleOK(g, e, id)
    PROVE  Tame(send_window_update(g), g)
<1> DEFINE d == delta(g)
           k == Flagged(g)
           u == Grant(g) + d
           f == new_window_update(get_flags(g), g.id, d, u)
<1>1. g \in StreamHandle /\ g.recv_window + g.read_buf <= g.max_recv_window
  BY DEF HandleOK
<1>2. d \in Nat
  BY <1>1 DEF delta, StreamHandle
<1>3. SameCounts(k, g) /\ k \in StreamHandle /\ get_flags(g) \in SUBSET Flag /\ k.id = g.id
  BY <1>1, FlaggedSame
<1>4. /\ send_window_update(g) \in {Outcome(k, <<>>, "None"), Outcome(Regranted(k, d), <<f>>, "None")}
      /\ u = g.rcvd + g.recv_window + d
  BY DEF send_window_update, Regranted, Grant
<1>5. Tame(Outcome(k, <<>>, "None"), g)
  BY <1>1, <1>3, TameSame
<1> HIDE DEF d, k
<1>6. Grant(g) \in Nat /\ u \in Nat
  BY <1>1, <1>2, FlowNumbers
<1>7. f \in SessionFrame /\ f.ty = "WindowUpdate" /\ f.length = d /\ f.upto = Grant(g) + d
      /\ f.stream_id = g.id
  BY <1>1, <1>2, <1>3, <1>6 DEF new_window_update, SessionFrame, StreamHandle
<1> HIDE DEF u, f
<1> DEFINE r == Regranted(k, d)
<1>8. r.sent = k.sent /\ r.rcvd = k.rcvd /\ r.send_window = k.send_window
      /\ r.recv_window = k.recv_window + d /\ r.id = k.id
  BY <1>3 DEF Regranted, StreamHandle
<1> HIDE DEF r
<1>9. r.rcvd = g.rcvd /\ r.sent = g.sent /\ r.send_window = g.send_window
      /\ r.recv_window = g.recv_window + d
  BY <1>3, <1>8 DEF SameCounts
<1>10. Grant(r) = Grant(g) + d /\ Credit(r) = Credit(g)
  BY <1>1, <1>2, <1>9 DEF Grant, Credit, StreamHandle
<1>11. SendsMore(r, g) /\ SameEnds(r, g)
  <2>1. g.sent \in Nat
    BY <1>1, FlowNumbers
  <2> QED BY <1>2, <1>6, <1>9, <1>10, <2>1 DEF SendsMore, SameEnds
<1>12. Between(f, r, g)
  BY <1>2, <1>6, <1>7, <1>10 DEF Between, Start
<1>13. Tame(Outcome(r, <<f>>, "None"), g)
  BY <1>3, <1>7, <1>8, <1>11, <1>12 DEF Tame, Outcome
<1> QED BY <1>4, <1>5, <1>13 DEF r

\* The calls that write nothing: the end of the channel, a read, a write that finds no
\* room or no session, a drop after the session's end.
LEMMA TameQuiet ==
    ASSUME NEW e \in Side, NEW id \in StreamId, NEW g, HandleOK(g, e, id)
    PROVE  /\ Tame(Disconnected(g), g) /\ Tame(PollWriteBroken(g), g)
           /\ Tame(PollWritePending(g), g) /\ Tame(Outcome(g, <<>>, "None"), g)
           /\ \A n \in 0..g.read_buf : Tame(poll_read(g, n), g)
<1>1. g \in StreamHandle
  BY DEF HandleOK
<1>2. Tame(Disconnected(g), g)
  <2> DEFINE k == [g EXCEPT !.state = "RemoteClosing"]
  <2>1. SameCounts(k, g)
    BY <1>1 DEF SameCounts, StreamHandle
  <2> HIDE DEF k
  <2>2. Tame(Outcome(k, <<>>, "None"), g)
    BY <1>1, <2>1, TameSame
  <2> QED BY <2>2 DEF Disconnected, k
<1>3. Tame(PollWriteBroken(g), g)
  BY <1>1, FlaggedSame, TameSame DEF PollWriteBroken
<1>4. Tame(PollWritePending(g), g)
  <2> DEFINE k == [g EXCEPT !.writeable_wake = TRUE]
  <2>1. SameCounts(k, g)
    BY <1>1 DEF SameCounts, StreamHandle
  <2> HIDE DEF k
  <2>2. Tame(Outcome(k, <<>>, "None"), g)
    BY <1>1, <2>1, TameSame
  <2> QED BY <2>2 DEF PollWritePending, k
<1>5. Tame(Outcome(g, <<>>, "None"), g)
  BY <1>1, TameSame DEF SameCounts
<1>6. ASSUME NEW n \in 0..g.read_buf PROVE Tame(poll_read(g, n), g)
  <2> DEFINE a == g.read_buf - n
             b == g.read + n
             k == Emptied(g, a, b)
  <2>1. a \in Nat /\ b \in Nat /\ a <= g.read_buf
    BY <1>1 DEF StreamHandle
  <2>2. poll_read(g, n) \in {Outcome(k, <<>>, "None"), send_window_update(k)}
    BY DEF poll_read, Emptied
  <2> HIDE DEF a, b
  <2>3. HandleOK(k, e, id)
    BY <2>1, HandleCounters
  <2>4. SameCounts(k, g)
    BY <1>1 DEF SameCounts, StreamHandle, Emptied
  <2> HIDE DEF k
  <2>5. Tame(Outcome(k, <<>>, "None"), g)
    BY <1>1, <2>4, TameSame
  <2>6. Tame(send_window_update(k), k)
    BY <2>3, TameWindowUpdate
  <2>7. Tame(send_window_update(k), g)
    BY <2>4, <2>6 DEF Tame, SameCounts, SendsMore, SameEnds, Between, Grant, Credit
  <2> QED BY <2>2, <2>5, <2>7
<1> QED BY <1>2, <1>3, <1>4, <1>5, <1>6

\* poll_write charges what it sends.
LEMMA TameWrite ==
    ASSUME NEW e \in Side, NEW id \in StreamId, NEW g, HandleOK(g, e, id), NEW n \in 0..g.send_window
    PROVE  Tame(poll_write(g, n), g)
<1> DEFINE k == Flagged(g)
           a == k.send_window - n
           b == k.sent + n
           r == Charged(k, a, b)
           u == g.sent + n
           f == new_data(get_flags(g), g.id, n, u)
<1>1. g \in StreamHandle /\ n \in Nat /\ g.send_window \in Nat /\ g.sent \in Nat /\ n <= g.send_window
  BY DEF HandleOK, StreamHandle
<1>2. SameCounts(k, g) /\ k \in StreamHandle /\ get_flags(g) \in SUBSET Flag /\ k.id = g.id
  BY <1>1, FlaggedSame
<1>3. poll_write(g, n) = Outcome(r, <<f>>, "None")
  BY DEF poll_write, Charged
<1> HIDE DEF k
<1>4. a = g.send_window - n /\ b = u /\ u \in Nat
  BY <1>1, <1>2 DEF SameCounts
<1>5. f \in SessionFrame /\ f.ty = "Data" /\ f.length = n /\ f.upto = u /\ f.stream_id = g.id
  BY <1>1, <1>2, <1>4 DEF new_data, SessionFrame, StreamHandle
<1> HIDE DEF a, b, f
<1>6. r.sent = u /\ r.rcvd = g.rcvd /\ r.send_window = g.send_window - n /\ r.recv_window = g.recv_window
      /\ r.id = g.id
  BY <1>2, <1>4 DEF Charged, StreamHandle, SameCounts
<1> HIDE DEF r
<1>7. Grant(r) = Grant(g) /\ Credit(r) = Credit(g)
  BY <1>1, <1>6 DEF Grant, Credit, u
<1>8. SendsMore(r, g) /\ SameEnds(r, g)
  <2>1. Grant(g) \in Nat
    BY <1>1, FlowNumbers
  <2> QED BY <1>1, <1>6, <1>7, <2>1 DEF SendsMore, SameEnds, u
<1>9. Between(f, r, g)
  BY <1>1, <1>5, <1>6 DEF Between, Start, u
<1>10. Tame(Outcome(r, <<f>>, "None"), g)
  BY <1>5, <1>6, <1>8, <1>9 DEF Tame, Outcome
<1> QED BY <1>3, <1>10

\* close and drop send no credit.
LEMMA TameEnds ==
    ASSUME NEW e \in Side, NEW id \in StreamId, NEW g, HandleOK(g, e, id)
    PROVE  Tame(close(g), g) /\ Tame(drop(g), g)
<1> DEFINE u == g.rcvd + g.recv_window
           k(st) == [g EXCEPT !.state = st]
           f(F) == new_window_update(F, g.id, 0, u)
<1>1. g \in StreamHandle /\ g.id \in Nat
  BY DEF HandleOK, StreamHandle
<1>2. \A st : SameCounts(k(st), g) /\ k(st).id = g.id
  BY <1>1 DEF SameCounts, StreamHandle
<1>3. SameCounts(Flagged(g), g) /\ get_flags(g) \in SUBSET Flag /\ Flagged(g).id = g.id
  BY <1>1, FlaggedSame
<1>4. get_flags(g) \cup {"Rst"} \in SUBSET Flag /\ {"Fin"} \in SUBSET Flag
  BY <1>3 DEF Flag
<1>5. close(g) \in {Outcome(k("LocalClosing"), <<f({"Fin"})>>, "None"),
                    Outcome(k("Closed"), <<f({"Fin"})>>, "Closed"),
                    Outcome(k("Closed"), <<>>, "Closed")}
  BY DEF close, send_close
<1>6. drop(g) \in {Outcome(g, <<>>, "None"), Outcome(g, <<>>, "Closed"),
                   Outcome(Flagged(g), <<f(get_flags(g) \cup {"Rst"})>>, "Closed")}
  BY DEF drop
<1>7. SameCounts(g, g)
  BY DEF SameCounts
<1> HIDE DEF k
<1>8. /\ Tame(Outcome(k("LocalClosing"), <<f({"Fin"})>>, "None"), g)
      /\ Tame(Outcome(k("Closed"), <<f({"Fin"})>>, "Closed"), g)
  BY <1>1, <1>2, <1>4, TameUpdate
<1>9. Tame(Outcome(k("Closed"), <<>>, "Closed"), g)
  BY <1>1, <1>2, TameSame
<1>10. Tame(Outcome(g, <<>>, "None"), g) /\ Tame(Outcome(g, <<>>, "Closed"), g)
  BY <1>1, <1>7, TameSame
<1>11. Tame(Outcome(Flagged(g), <<f(get_flags(g) \cup {"Rst"})>>, "Closed"), g)
  BY <1>1, <1>3, <1>4, TameUpdate
<1> QED BY <1>5, <1>6, <1>8, <1>9, <1>10, <1>11

\* A handle that exists only in name: what h says of a stream whose life is "none".
Blank(g) ==
    /\ g.sent = 0 /\ g.rcvd = 0
    /\ g.send_window = InitialWindow /\ g.recv_window = InitialWindow

\* A new handle's first window update.
LEMMA TameNew ==
    ASSUME NEW e \in Side, NEW id \in StreamId, NEW st \in {"Init", "SynReceived"},
           NEW g, Blank(g)
    PROVE  Tame(send_window_update(NewHandle(id, st, max_window_size(e))), g)
<1> DEFINE k == NewHandle(id, st, max_window_size(e))
<1>1. HandleOK(k, e, id)
  BY WindowBounds, IdIsNat DEF HandleOK, NewHandle, StreamHandle, StreamState
<1>2. SameCounts(k, g)
  BY DEF SameCounts, NewHandle, Blank
<1> HIDE DEF k
<1>3. Tame(send_window_update(k), k)
  BY <1>1, TameWindowUpdate
<1>4. Tame(send_window_update(k), g)
  BY <1>2, <1>3 DEF Tame, SameCounts, SendsMore, SameEnds, Between, Grant, Credit
<1> QED BY <1>4 DEF k

\* The arithmetic of it: Data fits in the window, an update in 32 bits.
LEMMA DataArithmetic ==
    ASSUME NEW r \in Nat, NEW w \in Nat, NEW s \in Nat, NEW c \in Nat, NEW u \in Nat, NEW n \in Nat,
           r <= u - n, u <= s, s + c <= r + w
    PROVE  n <= w
OBVIOUS

LEMMA UpdateArithmetic ==
    ASSUME NEW r \in Nat, NEW w \in Nat, NEW s \in Nat, NEW c \in Nat, NEW u \in Nat, NEW n \in Nat,
           s + c <= u - n, u <= r + w, r <= s
    PROVE  c + n <= w /\ s + (c + n) <= u
OBVIOUS

\* The next frame of the channel is taken: it is what the handle expects.
LEMMA FrameFlows ==
    ASSUME NEW e \in Side, NEW id \in StreamId, NEW a, NEW b,
           HandleOK(a, Peer(e), id), HandleOK(b, e, id), CanRecv(b),
           NEW f \in Frame, f.stream_id = id, NEW P \in Seq(SessionFrame), NEW Q \in Seq(SessionFrame),
           FlowOK(<<f>> \o P, id, a, b), FlowOK(Q, id, b, a)
    PROVE  LET o == handle_frame(b, f) IN
           /\ o.event = "None" /\ o.frames = <<>>
           /\ FlowOK(P, id, a, o.h) /\ FlowOK(Q, id, o.h, a)
<1> DEFINE o == handle_frame(b, f)
           k == WithFlags(b, f)
<1>1. Peer(e) \in Side /\ max_window_size(Peer(e)) \in Nat /\ max_window_size(Peer(e)) <= U32Max /\ U32Max \in Nat
  BY Sides, SessionAssumption, WindowAssumption DEF max_window_size
<1>2. /\ a \in StreamHandle /\ b \in StreamHandle
      /\ a.recv_window + a.read_buf <= max_window_size(Peer(e)) /\ a.read_buf \in Nat
  BY DEF HandleOK, StreamHandle
<1>3. f \in SessionFrame /\ OfStream(f, id) /\ f.ty \in {"Data", "WindowUpdate"}
  BY DEF Frame, SessionFrame, OfStream
<1>4. /\ FlowOK(P, id, a, b) /\ Fits(f, a, b)
      /\ \A g \in Has(P, id) : g.ty = f.ty => f.upto <= Start(g)
  BY <1>3, FlowHead
<1>5. /\ b.rcvd <= a.sent /\ Credit(b) <= Grant(a)
      /\ a.rcvd <= b.sent /\ Credit(a) <= Grant(b)
  BY <1>4 DEF FlowOK
<1>6. /\ a.sent \in Nat /\ a.rcvd \in Nat /\ a.send_window \in Nat /\ a.recv_window \in Nat
      /\ b.sent \in Nat /\ b.rcvd \in Nat /\ b.send_window \in Nat /\ b.recv_window \in Nat
      /\ Credit(a) = a.sent + a.send_window /\ Grant(a) = a.rcvd + a.recv_window
      /\ Credit(b) = b.sent + b.send_window /\ Grant(b) = b.rcvd + b.recv_window
      /\ f.upto \in Nat /\ f.length \in Nat /\ Start(f) = f.upto - f.length
  BY <1>2, <1>3, FlowNumbers DEF Credit, Grant
<1>7. f.ty = "Data" => f.length <= b.recv_window
  <2> SUFFICES ASSUME f.ty = "Data" PROVE f.length <= b.recv_window
    OBVIOUS
  <2>1. b.rcvd <= f.upto - f.length /\ f.upto <= a.sent
    BY <1>4, <1>6 DEF Fits
  <2>2. a.sent + a.send_window <= b.rcvd + b.recv_window
    BY <1>5, <1>6
  <2> QED BY <1>6, <2>1, <2>2, DataArithmetic
<1>8. f.ty = "WindowUpdate" => b.send_window + f.length <= U32Max
                               /\ b.sent + (b.send_window + f.length) <= f.upto
  <2> SUFFICES ASSUME f.ty = "WindowUpdate"
               PROVE  b.send_window + f.length <= U32Max
                      /\ b.sent + (b.send_window + f.length) <= f.upto
    OBVIOUS
  <2>1. b.sent + b.send_window <= f.upto - f.length /\ f.upto <= a.rcvd + a.recv_window
    BY <1>4, <1>6 DEF Fits
  <2>2. b.send_window + f.length <= a.recv_window /\ b.sent + (b.send_window + f.length) <= f.upto
    BY <1>5, <1>6, <2>1, UpdateArithmetic, SMTT(40)
  <2>3. a.recv_window <= U32Max
    <3> DEFINE m == max_window_size(Peer(e))
    <3>1. a.recv_window + a.read_buf <= m /\ m \in Nat /\ m <= U32Max
      BY <1>1, <1>2
    <3>2. a.recv_window \in Nat /\ a.read_buf \in Nat /\ U32Max \in Nat
      BY <1>1, <1>2, <1>6
    <3> HIDE DEF m
    <3> QED BY <3>1, <3>2
  <2>4. b.send_window + f.length \in Nat
    BY <1>6, SMTT(40)
  <2> QED BY <1>1, <1>6, <2>2, <2>3, <2>4
<1>9. ~FrameError(b, f)
  <2>1. ~UnexpectedFlag(b.state, f.flags)
    BY DEF UnexpectedFlag, CanRecv
  <2>2. f.ty = "WindowUpdate" => ~(b.send_window + f.length > U32Max)
    BY <1>1, <1>6, <1>8, SMTT(40)
  <2>3. f.ty = "Data" => ~(f.length > b.recv_window)
    BY <1>6, <1>7
  <2> QED BY <2>1, <2>2, <2>3 DEF FrameError
<1>10. SameCounts(k, b) /\ k \in [{"id", "state", "max_recv_window", "recv_window", "send_window", "read_buf",
                          "writeable_wake", "sent", "rcvd", "read", "fin"} -> {k[x] : x \in DOMAIN k}]
       /\ DOMAIN k = {"id", "state", "max_recv_window", "recv_window", "send_window", "read_buf",
                          "writeable_wake", "sent", "rcvd", "read", "fin"}
  BY <1>2 DEF SameCounts, WithFlags, StreamHandle
<1> HIDE DEF k
<1>11. CASE f.ty = "Data"
  <2> DEFINE c == k.recv_window - f.length
             r == Filled(k, f.length, f.upto, c)
  <2>1. o = Outcome(r, <<>>, "None")
    BY <1>9, <1>11 DEF handle_frame, handle_data, Filled, k
  <2>2. r.sent = b.sent /\ r.rcvd = f.upto /\ r.send_window = b.send_window
        /\ r.recv_window = b.recv_window - f.length
    BY <1>10 DEF SameCounts, Filled
  <2> HIDE DEF r, o
  <2>3. Credit(r) = Credit(b) /\ Grant(b) <= Grant(r) /\ r.rcvd <= a.sent /\ r.recv_window \in Nat
        /\ Grant(r) \in Nat
    BY <1>4, <1>6, <1>7, <1>11, <2>2, SMTT(40) DEF Fits, Credit, Grant
  <2>4. FlowOK(P, id, a, r)
    <3>1. ASSUME NEW g \in Has(P, id) PROVE Fits(g, a, r)
      BY <1>4, <1>11, <2>2, <2>3 DEF FlowOK, Fits
    <3> QED BY <1>4, <2>3, <3>1 DEF FlowOK
  <2>5. FlowOK(Q, id, r, a)
    <3>0. Credit(a) \in Nat /\ Grant(b) \in Nat
      BY <1>2, FlowNumbers
    <3>1. a.rcvd <= r.sent /\ Credit(a) <= Grant(r)
      BY <1>5, <2>2, <2>3, <3>0
    <3>2. ASSUME NEW g \in Has(Q, id) PROVE Fits(g, r, a)
      <4>1. g \in SessionFrame /\ Fits(g, b, a)
        BY HasFrames DEF FlowOK
      <4>2. g.upto \in Nat
        BY <4>1, FlowNumbers
      <4> QED BY <1>6, <2>2, <2>3, <4>1, <4>2, SMTT(40) DEF Fits
    <3> QED BY <3>1, <3>2 DEF FlowOK
  <2>6. o.h = r /\ o.event = "None" /\ o.frames = <<>>
    BY <2>1 DEF Outcome
  <2> QED BY <2>4, <2>5, <2>6 DEF o
<1>12. CASE f.ty = "WindowUpdate"
  <2> DEFINE c == k.send_window + f.length
             r == Granted(k, c)
  <2>1. o = Outcome(r, <<>>, "None")
    BY <1>9, <1>12 DEF handle_frame, handle_window_update, Granted, k
  <2>2. r.sent = b.sent /\ r.rcvd = b.rcvd /\ r.recv_window = b.recv_window
        /\ r.send_window = b.send_window + f.length
    BY <1>10 DEF SameCounts, Granted
  <2> HIDE DEF r, o
  <2>3. Credit(r) = Credit(b) + f.length /\ Grant(r) = Grant(b) /\ Credit(r) <= f.upto
        /\ Credit(r) <= Grant(a) /\ Credit(r) \in Nat
    <3>1. /\ Credit(r) = b.sent + (b.send_window + f.length) /\ Grant(r) = b.rcvd + b.recv_window
      BY <2>2 DEF Credit, Grant
    <3>2. Credit(r) \in Nat /\ Credit(r) <= f.upto /\ Credit(r) = Credit(b) + f.length
      BY <1>6, <1>8, <1>12, <3>1, SMTT(40)
    <3>3. f.upto <= Grant(a) /\ Grant(a) \in Nat
      BY <1>4, <1>6, <1>12 DEF Fits
    <3> QED BY <1>6, <3>1, <3>2, <3>3, SMTT(40)
  <2>4. FlowOK(P, id, a, r)
    <3>1. ASSUME NEW g \in Has(P, id) PROVE Fits(g, a, r)
      <4>1. g \in SessionFrame /\ Fits(g, a, b)
        BY <1>4, HasFrames DEF FlowOK
      <4>2. Start(g) \in Int /\ g.upto \in Nat
        BY <4>1, FlowNumbers
      <4>3. g.ty = "WindowUpdate" => f.upto <= Start(g)
        BY <1>4, <1>12
      <4> QED BY <1>6, <2>2, <2>3, <4>1, <4>2, <4>3 DEF Fits
    <3> QED BY <1>4, <2>2, <2>3, <3>1 DEF FlowOK
  <2>5. FlowOK(Q, id, r, a)
    BY <2>2, <2>3 DEF FlowOK, Fits
  <2>6. o.h = r /\ o.event = "None" /\ o.frames = <<>>
    BY <2>1 DEF Outcome
  <2> QED BY <2>4, <2>5, <2>6 DEF o
<1> QED BY <1>3, <1>11, <1>12

\* The frames of events.
LEMMA FramesTyped ==
    ASSUME NEW q \in Seq(HandleEvent)
    PROVE  /\ FramesOf(q) \in Seq(SessionFrame) /\ Len(FramesOf(q)) = Len(q) /\ Len(q) \in Nat
           /\ \A i \in 1..Len(q) :
                FramesOf(q)[i] = IF q[i].kind = "Frame" THEN q[i].frame ELSE NoFrame
<1>1. Len(q) \in Nat /\ \A i \in 1..Len(q) : q[i] \in HandleEvent
  BY LenProperties, ElementOfSeq
<1>2. NoFrame \in SessionFrame
  BY DEF NoFrame, new_ping, SessionFrame, Flag
<1>3. \A v \in HandleEvent : v.kind = "Frame" => v.frame \in SessionFrame
  BY DEF HandleEvent, StreamFrame, Frame, SessionFrame
<1>4. FramesOf(q) \in [1..Len(q) -> SessionFrame]
  BY <1>1, <1>2, <1>3 DEF FramesOf
<1>5. FramesOf(q) \in Seq(SessionFrame) /\ Len(FramesOf(q)) = Len(q)
  BY <1>1, <1>4, SeqDef, LenProperties
<1> QED BY <1>1, <1>5 DEF FramesOf

\* More events, one event less.
LEMMA FramesMore ==
    ASSUME NEW p \in Seq(HandleEvent), NEW q \in Seq(HandleEvent)
    PROVE  FramesOf(p \o q) = FramesOf(p) \o FramesOf(q)
<1> DEFINE a == FramesOf(p)
           b == FramesOf(q)
           c == FramesOf(p \o q)
<1>1. /\ p \o q \in Seq(HandleEvent) /\ Len(p \o q) = Len(p) + Len(q)
      /\ \A i \in 1..Len(p) : (p \o q)[i] = p[i]
      /\ \A i \in 1..(Len(p) + Len(q)) : i \notin 1..Len(p) =>
            i - Len(p) \in 1..Len(q) /\ (p \o q)[i] = q[i - Len(p)]
  BY ConcatAt
<1>2. /\ a \in Seq(SessionFrame) /\ Len(a) = Len(p) /\ Len(p) \in Nat
      /\ \A i \in 1..Len(p) : a[i] = IF p[i].kind = "Frame" THEN p[i].frame ELSE NoFrame
  BY FramesTyped
<1>3. /\ b \in Seq(SessionFrame) /\ Len(b) = Len(q) /\ Len(q) \in Nat
      /\ \A i \in 1..Len(q) : b[i] = IF q[i].kind = "Frame" THEN q[i].frame ELSE NoFrame
  BY FramesTyped
<1>4. /\ c \in Seq(SessionFrame) /\ Len(c) = Len(p) + Len(q)
      /\ \A i \in 1..(Len(p) + Len(q)) :
           c[i] = IF (p \o q)[i].kind = "Frame" THEN (p \o q)[i].frame ELSE NoFrame
  BY <1>1, FramesTyped
<1> HIDE DEF a, b, c
<1>5. /\ a \o b \in Seq(SessionFrame) /\ Len(a \o b) = Len(p) + Len(q)
      /\ \A i \in 1..Len(p) : (a \o b)[i] = a[i]
      /\ \A i \in 1..(Len(p) + Len(q)) : i \notin 1..Len(p) =>
            i - Len(p) \in 1..Len(q) /\ (a \o b)[i] = b[i - Len(p)]
  <2>1. a \in Seq(SessionFrame) /\ b \in Seq(SessionFrame)
    BY <1>2, <1>3
  <2>2. /\ a \o b \in Seq(SessionFrame) /\ Len(a \o b) = Len(a) + Len(b)
        /\ \A i \in 1..Len(a) : (a \o b)[i] = a[i]
        /\ \A i \in 1..(Len(a) + Len(b)) : i \notin 1..Len(a) =>
              i - Len(a) \in 1..Len(b) /\ (a \o b)[i] = b[i - Len(a)]
    BY <2>1, ConcatAt
  <2>3. Len(a) = Len(p) /\ Len(b) = Len(q)
    BY <1>2, <1>3
  <2> QED BY <2>2, <2>3
<1>6. ASSUME NEW i \in 1..(Len(p) + Len(q)) PROVE c[i] = (a \o b)[i]
  <2>1. CASE i \in 1..Len(p)
    BY <1>1, <1>2, <1>4, <1>5, <2>1, ZenonT(60)
  <2>2. CASE i \notin 1..Len(p)
    BY <1>1, <1>3, <1>4, <1>5, <2>2, ZenonT(60)
  <2> QED BY <2>1, <2>2
<1>7. c = a \o b
  <2> DEFINE d == a \o b
  <2>1. d \in Seq(SessionFrame) /\ Len(c) = Len(d) /\ \A i \in 1..Len(d) : c[i] = d[i]
    BY <1>4, <1>5, <1>6
  <2> HIDE DEF d
  <2>2. c = d
    BY <1>4, <2>1, SameSeq
  <2> QED BY <2>2 DEF d
<1> QED BY <1>7 DEF a, b, c

LEMMA FramesFirst ==
    ASSUME NEW q \in Seq(HandleEvent), q # <<>>
    PROVE  /\ Head(q) \in HandleEvent /\ Tail(q) \in Seq(HandleEvent)
           /\ FramesOf(Tail(q)) \in Seq(SessionFrame)
           /\ \E f \in SessionFrame :
                /\ FramesOf(q) = <<f>> \o FramesOf(Tail(q))
                /\ Head(q).kind = "Frame" => f = Head(q).frame
<1> DEFINE v == Head(q)
           r == Tail(q)
           f == FramesOf(<<v>>)[1]
<1>1. v \in HandleEvent /\ <<v>> \in Seq(HandleEvent) /\ r \in Seq(HandleEvent) /\ q = <<v>> \o r
  BY HeadFirst
<1> HIDE DEF v, r
<1>2. FramesOf(q) = FramesOf(<<v>>) \o FramesOf(r)
  BY <1>1, FramesMore
<1>3. /\ FramesOf(<<v>>) \in Seq(SessionFrame) /\ Len(FramesOf(<<v>>)) = Len(<<v>>)
      /\ \A i \in 1..Len(<<v>>) :
           FramesOf(<<v>>)[i] = IF <<v>>[i].kind = "Frame" THEN <<v>>[i].frame ELSE NoFrame
  BY <1>1, FramesTyped
<1>4. Len(<<v>>) = 1 /\ <<v>>[1] = v /\ 1 \in 1..1
  OBVIOUS
<1>5. f \in SessionFrame /\ (v.kind = "Frame" => f = v.frame)
  BY <1>3, <1>4, ElementOfSeq
<1>6. FramesOf(<<v>>) = <<f>>
  <2>1. <<f>> \in Seq(SessionFrame) /\ Len(<<f>>) = 1 /\ <<f>>[1] = f
    BY <1>5, OneFrame
  <2> HIDE DEF f
  <2>2. \A i \in 1..1 : i = 1
    OBVIOUS
  <2> QED BY <1>3, <1>4, <2>1, <2>2, SameSeq DEF f
<1>7. FramesOf(r) \in Seq(SessionFrame)
  BY <1>1, FramesTyped
<1> HIDE DEF f
<1> QED BY <1>1, <1>2, <1>5, <1>6, <1>7 DEF v, r

\* The events of a call hold its frames.
LEMMA CallFrames ==
    ASSUME NEW id \in StreamId, NEW o, o.frames \in Seq(StreamFrame),
           o.event \in {"None", "Closed", "GoAway"}, NEW x
    PROVE  /\ EventsOf(o, id) \in Seq(HandleEvent)
           /\ Thinner(FramesOf(EventsOf(o, id)), o.frames, x)
<1> DEFINE v == EventsOf(o, id)
           u == [i \in 1..Len(o.frames) |-> [kind |-> "Frame", frame |-> o.frames[i]]]
           w == LastEvent(o, id)
<1>1. v \in Seq(HandleEvent)
  BY CallEvents
<1>2. v = u \o w
  BY DEF EventsOf, LastEvent
<1>3. Len(o.frames) \in Nat /\ \A i \in 1..Len(o.frames) : o.frames[i] \in StreamFrame
  BY LenProperties, ElementOfSeq
<1>4. u \in Seq(HandleEvent) /\ Len(u) = Len(o.frames)
  <2>1. \A f \in StreamFrame : [kind |-> "Frame", frame |-> f] \in HandleEvent
    BY DEF HandleEvent, StreamEvent, StreamFrame
  <2>2. u \in [1..Len(o.frames) -> HandleEvent]
    BY <1>3, <2>1
  <2> QED BY <1>3, <2>2, SeqDef, LenProperties
<1>5. /\ w \in Seq(HandleEvent) /\ \A i \in 1..Len(w) : w[i].kind # "Frame"
  <2>1. CASE o.event = "None"
    BY <2>1, OneFrame DEF LastEvent
  <2>2. CASE o.event = "Closed"
    <3> DEFINE y == [kind |-> "Closed", id |-> id]
    <3>1. w = <<y>>
      BY <2>2 DEF LastEvent
    <3>2. y \in HandleEvent
      BY DEF HandleEvent, StreamEvent
    <3> QED BY <3>1, <3>2, OneFrame
  <2>3. CASE o.event = "GoAway"
    <3> DEFINE y == [kind |-> "GoAway"]
    <3>1. w = <<y>>
      BY <2>3 DEF LastEvent
    <3>2. y \in HandleEvent
      BY DEF HandleEvent, StreamEvent
    <3> QED BY <3>1, <3>2, OneFrame
  <2> QED BY <2>1, <2>2, <2>3
<1>6. \A i \in 1..Len(o.frames) : u[i].kind = "Frame" /\ u[i].frame = o.frames[i]
  OBVIOUS
<1> HIDE DEF u, w
<1>7. FramesOf(u) = o.frames
  <2>1. /\ FramesOf(u) \in Seq(SessionFrame) /\ Len(FramesOf(u)) = Len(o.frames)
        /\ \A i \in 1..Len(o.frames) : FramesOf(u)[i] = o.frames[i]
    BY <1>4, <1>6, FramesTyped
  <2>2. o.frames \in Seq(SessionFrame)
    <3>1. StreamFrame \subseteq SessionFrame
      BY DEF StreamFrame, Frame, SessionFrame
    <3> QED BY <3>1, SeqMonotonic
  <2> QED BY <2>1, <2>2, SameSeq
<1>8. /\ FramesOf(w) \in Seq(SessionFrame) /\ Len(FramesOf(w)) = Len(w)
      /\ \A i \in 1..Len(w) : FramesOf(w)[i] = NoFrame
  BY <1>5, FramesTyped
<1>9. Has(FramesOf(w), x) = {}
  <2>1. ~OfStream(NoFrame, x)
    BY DEF OfStream, NoFrame, new_ping
  <2> QED BY <1>8, <2>1, HasIs
<1>10. FramesOf(v) = FramesOf(u) \o FramesOf(w) /\ FramesOf(u) \in Seq(SessionFrame)
  BY <1>2, <1>4, <1>5, FramesMore, FramesTyped
<1>11. /\ \A f : f \in Has(FramesOf(v), x) <=> f \in Has(FramesOf(u), x) \/ f \in Has(FramesOf(w), x)
       /\ \A f, g : Precedes(FramesOf(v), x, f, g) <=>
                 \/ Precedes(FramesOf(u), x, f, g) \/ Precedes(FramesOf(w), x, f, g)
                 \/ f \in Has(FramesOf(u), x) /\ g \in Has(FramesOf(w), x)
  BY <1>8, <1>10, HasConcat
<1>12. Thinner(FramesOf(v), FramesOf(u), x)
  BY <1>9, <1>11, PrecedesHas DEF Thinner
<1> QED BY <1>1, <1>7, <1>12

\* The queues of a session hold frames.
LEMMA PathTypes ==
    ASSUME NEW e \in Side, NEW s, GoodSession(s, e)
    PROVE  /\ s \in Session /\ WireOK(s) /\ s.events \in Seq(HandleEvent)
           /\ Wire(s) \in Seq(SessionFrame) /\ FramesOf(s.events) \in Seq(SessionFrame)
           /\ OutPath(s) \in Seq(SessionFrame)
           /\ s.read_pending_frames \in Seq(SessionFrame)
           /\ \A id \in StreamId : /\ s.chan[id] \in Seq(SessionFrame)
                                   /\ InPath(s, id) \in Seq(SessionFrame)
                                   /\ HandleOK(s.h[id], e, id) /\ s.h[id] \in StreamHandle
<1>1. s \in Session /\ SessionOK(s, e)
  BY DEF GoodSession, SessionOK
<1>2. WireOK(s) /\ s.events \in Seq(HandleEvent)
  BY <1>1 DEF SessionOK, WireOK
<1>3. s.out \in Seq(SessionFrame) /\ s.write_pending_frames \in Seq(SessionFrame)
  BY <1>2, WireFrames DEF WireOK
<1>4. Wire(s) \in Seq(SessionFrame)
  BY <1>3, ConcatAt DEF Wire
<1>5. FramesOf(s.events) \in Seq(SessionFrame)
  BY <1>2, FramesTyped
<1>6. OutPath(s) \in Seq(SessionFrame)
  BY <1>4, <1>5, ConcatAt DEF OutPath
<1>7. Seq(Frame) \subseteq Seq(SessionFrame)
  <2>1. Frame \subseteq SessionFrame
    BY DEF Frame, SessionFrame
  <2> QED BY <2>1, SeqMonotonic
<1>8. s.read_pending_frames \in Seq(SessionFrame) /\ \A id \in StreamId : s.chan[id] \in Seq(SessionFrame)
  BY <1>1, <1>7 DEF Session
<1>9. \A id \in StreamId : InPath(s, id) \in Seq(SessionFrame)
  BY <1>8, ConcatAt DEF InPath
<1>10. \A id \in StreamId : HandleOK(s.h[id], e, id) /\ s.h[id] \in StreamHandle
  BY DEF GoodSession, StreamOK, HandleOK
<1> QED BY <1>1, <1>2, <1>4, <1>5, <1>6, <1>8, <1>9, <1>10

\* The two queues of the wire.
LEMMA WireTyped ==
    ASSUME NEW s, WireOK(s)
    PROVE  /\ s.out \in Seq(SessionFrame) /\ s.write_pending_frames \in Seq(SessionFrame)
           /\ Wire(s) \in Seq(SessionFrame)
BY WireFrames, ConcatAt DEF WireOK, Wire

\* send_all keeps the order of what it does not drop.
LEMMA SendAllFlows ==
    ASSUME NEW s \in Session, WireOK(s), NEW id
    PROVE  send_all(s).failed = s.failed /\ Thinner(Wire(send_all(s)), Wire(s), id)
<1> DEFINE t == send_all(s)
           o == s.out
           q == s.write_pending_frames
<1>1. t.failed = s.failed
  BY DEF send_all, Session
<1>2. o \in Seq(SessionFrame) /\ q \in Seq(SessionFrame) /\ Len(q) \in Nat
  BY WireTyped, LenProperties
<1>3. CASE is_dead(s)
  <2> DEFINE w == SubSeq(q, 2, Len(q))
  <2>1. t.out = o /\ t.write_pending_frames = w
    BY <1>3 DEF send_all, Session
  <2>2. w \in Seq(SessionFrame) /\ Thinner(w, q, id)
    <3>1. CASE Len(q) = 0
      <4>1. w = <<>>
        BY <1>2, <3>1, SubSeqEmpty
      <4> QED BY <1>2, <4>1, OneFrame, ThinnerParts
    <3>2. CASE Len(q) # 0
      <4>1. 1 \in 0..Len(q) /\ 1 + 1 = 2
        BY <1>2, <3>2
      <4> QED BY <1>2, <4>1, ThinnerCut
    <3> QED BY <3>1, <3>2
  <2> HIDE DEF w
  <2>3. Thinner(o \o w, o \o q, id)
    BY <1>2, <2>2, ThinnerRefl, ThinnerConcat
  <2> QED BY <1>1, <2>1, <2>3 DEF Wire
<1>4. CASE ~is_dead(s)
  <2>1. Wire(t) = Wire(s)
    BY <1>4, SendAllSent DEF Sent
  <2> QED BY <1>1, <2>1, ThinnerRefl
<1> QED BY <1>3, <1>4

\* send_frame.
LEMMA SendFrameFlows ==
    ASSUME NEW s \in Session, WireOK(s), NEW f \in WireFrame, NEW id
    PROVE  LET t == send_frame(s, f) IN
           /\ t.failed = s.failed /\ Thinner(Wire(t), Wire(s) \o <<f>>, id)
           /\ Wire(t) \in Seq(SessionFrame)
<1> DEFINE w == Append(s.write_pending_frames, f)
           u == [s EXCEPT !.write_pending_frames = w]
           t == send_frame(s, f)
<1>1. t = send_all(u)
  BY DEF send_frame
<1>2. s.out \in Seq(WireFrame) /\ Len(s.out) <= SinkCap /\ w \in Seq(WireFrame)
  BY AppendProperties DEF WireOK
<1>3. w \in Seq(SessionFrame)
  BY <1>2, WireFrames
<1>4. Append(s.out \o s.write_pending_frames, f) = s.out \o w
  BY WireAppend DEF WireOK
<1> HIDE DEF w
<1>5. u \in Session /\ u.failed = s.failed /\ u.out = s.out /\ u.write_pending_frames = w
  BY <1>3 DEF Session
<1> HIDE DEF u
<1>6. WireOK(u)
  BY <1>2, <1>5 DEF WireOK
<1>7. t.failed = u.failed /\ Thinner(Wire(t), Wire(u), id)
  BY <1>1, <1>5, <1>6, SendAllFlows
<1>8. WireOK(t)
  BY <1>1, <1>5, <1>6, SendAllSent DEF Sent
<1>9. f \in SessionFrame /\ Wire(s) \in Seq(SessionFrame) /\ Wire(t) \in Seq(SessionFrame)
  BY <1>8, WireTyped DEF WireFrame
<1> HIDE DEF t
<1>10. Wire(u) = Wire(s) \o <<f>>
  <2>1. Append(Wire(s), f) = Wire(s) \o <<f>>
    BY <1>9, AppendIs
  <2> QED BY <1>4, <1>5, <2>1 DEF Wire
<1> QED BY <1>5, <1>7, <1>9, <1>10 DEF t

\* send_go_away_with_code: nothing of a stream is sent.
LEMMA GoAwayFlows ==
    ASSUME NEW s \in Session, WireOK(s), NEW c \in Nat, NEW id
    PROVE  LET t == send_go_away_with_code(s, c) IN
           t.failed = s.failed /\ Thinner(Wire(t), Wire(s), id)
<1> DEFINE w == <<>>
           u == [s EXCEPT !.write_pending_frames = w]
           f == new_go_away(c)
           r == send_frame(u, f)
           t == send_go_away_with_code(s, c)
<1>1. t = [r EXCEPT !.local_go_away = TRUE]
  BY DEF send_go_away_with_code
<1>2. w \in Seq(WireFrame) /\ w \in Seq(SessionFrame)
  BY OneFrame
<1>3. f \in WireFrame /\ f \in SessionFrame /\ ~OfStream(f, id)
  <2>1. f \in WireFrame
    BY ControlFrames
  <2> QED BY <2>1 DEF OfStream, new_go_away, WireFrame
<1> HIDE DEF w, f
<1>4. u \in Session /\ u.failed = s.failed /\ u.out = s.out /\ u.write_pending_frames = w
  BY <1>2 DEF Session
<1> HIDE DEF u
<1>5. WireOK(u)
  BY <1>2, <1>4 DEF WireOK
<1>6. r.failed = u.failed /\ Thinner(Wire(r), Wire(u) \o <<f>>, id)
  BY <1>3, <1>4, <1>5, SendFrameFlows
<1>7. r \in Session
  BY <1>3, <1>4, <1>5, SendFrameSent DEF Sent
<1> HIDE DEF r, t
<1>8. t.failed = r.failed /\ t.out = r.out /\ t.write_pending_frames = r.write_pending_frames
  BY <1>1, <1>7 DEF Session
<1>9. Wire(t) = Wire(r)
  BY <1>8 DEF Wire
<1>10. Thinner(Wire(u) \o <<f>>, Wire(u), id)
  BY <1>3, <1>5, WireTyped, ThinnerOther
<1>11. Thinner(Wire(u), Wire(s), id)
  <2>1. s.out \in Seq(SessionFrame) /\ s.write_pending_frames \in Seq(SessionFrame)
    BY WireTyped
  <2>2. s.out \o w = s.out
    BY <2>1, ConcatEmptySeq DEF w
  <2>3. Wire(u) = s.out
    BY <1>4, <2>2 DEF Wire
  <2> QED BY <2>1, <2>3, ThinnerParts DEF Wire
<1>12. Thinner(Wire(r), Wire(s), id)
  BY <1>6, <1>10, <1>11, ThinnerTrans
<1> QED BY <1>4, <1>6, <1>8, <1>9, <1>12 DEF t

\* A step of a session that calls no handle: what it has for its streams and for its
\* peer is carried on, or gets lost.
Carries(t, s) ==
    /\ t.failed = s.failed /\ t.h = s.h /\ t.life = s.life
    /\ \A id \in StreamId :
         /\ Thinner(OutPath(t), OutPath(s), id)
         /\ Thinner(InPath(t, id), InPath(s, id), id)
         /\ ChanOK(s, id) => ChanOK(t, id)

FlowGood(s) == \A id \in StreamId : Pristine(s, id) /\ ChanOK(s, id)

\* What a step does to the frames for the peer: one may be new.
Sends(t, s, id) ==
    /\ SendsMore(t.h[id], s.h[id]) /\ SameEnds(t.h[id], s.h[id])
    /\ \E f \in SessionFrame :
         /\ OfStream(f, id) => Between(f, t.h[id], s.h[id])
         /\ Thinner(OutPath(t), OutPath(s) \o <<f>>, id)

FlowKept(t, s) ==
    /\ t.failed = s.failed /\ FlowGood(t)
    /\ \A id \in StreamId : Sends(t, s, id) /\ Thinner(InPath(t, id), InPath(s, id), id)

LEMMA CarriesTrans ==
    ASSUME NEW s, NEW t, NEW u, Carries(t, s), Carries(u, t)
    PROVE  Carries(u, s)
BY ThinnerTrans DEF Carries

\* A frame that is sent for no stream.
LEMMA NoFrameTyped == NoFrame \in SessionFrame /\ \A id : ~OfStream(NoFrame, id)
BY DEF NoFrame, new_ping, SessionFrame, Flag, OfStream

LEMMA CarriesKept ==
    ASSUME NEW e \in Side, NEW s, NEW t, GoodSession(s, e), Carries(t, s), FlowGood(s)
    PROVE  FlowKept(t, s)
<1>1. FlowGood(t) /\ t.failed = s.failed
  BY DEF FlowGood, Carries, Pristine, Thinner
<1>2. ASSUME NEW id \in StreamId
      PROVE  Sends(t, s, id) /\ Thinner(InPath(t, id), InPath(s, id), id)
  <2>1. s.h[id] \in StreamHandle /\ OutPath(s) \in Seq(SessionFrame) /\ t.h[id] = s.h[id]
    BY PathTypes DEF Carries
  <2>2. SendsMore(t.h[id], s.h[id]) /\ SameEnds(t.h[id], s.h[id])
    BY <2>1, TameSame DEF SameCounts
  <2>3. Thinner(OutPath(s), OutPath(s) \o <<NoFrame>>, id)
    BY <2>1, NoFrameTyped, OneFrame, ThinnerParts
  <2>4. Thinner(OutPath(t), OutPath(s) \o <<NoFrame>>, id)
    BY <2>3, ThinnerTrans DEF Carries
  <2> QED BY <2>2, <2>4, NoFrameTyped DEF Sends, Carries
<1> QED BY <1>1, <1>2 DEF FlowKept

\* A step that changes the wire only.
LEMMA WireCarries ==
    ASSUME NEW e \in Side, NEW s, GoodSession(s, e), NEW t, WireOK(t), t.failed = s.failed,
           SameStreams(t, s), SameInput(t, s), \A id \in StreamId : Thinner(Wire(t), Wire(s), id)
    PROVE  Carries(t, s)
<1> SUFFICES ASSUME NEW id \in StreamId
             PROVE  /\ Thinner(OutPath(t), OutPath(s), id)
                    /\ Thinner(InPath(t, id), InPath(s, id), id)
                    /\ ChanOK(s, id) => ChanOK(t, id)
  BY DEF Carries, SameStreams
<1>1. /\ Wire(s) \in Seq(SessionFrame) /\ FramesOf(s.events) \in Seq(SessionFrame)
      /\ Wire(t) \in Seq(SessionFrame)
  BY PathTypes, WireTyped
<1>2. Thinner(Wire(t) \o FramesOf(s.events), Wire(s) \o FramesOf(s.events), id)
  BY <1>1, ThinnerRefl, ThinnerConcat
<1>3. Thinner(OutPath(t), OutPath(s), id)
  BY <1>2 DEF OutPath, SameStreams
<1>4. t.chan = s.chan /\ InPath(t, id) = InPath(s, id)
  BY DEF InPath, SameInput
<1> QED BY <1>3, <1>4, ThinnerRefl DEF ChanOK

\* A step that leaves streams, input and wire alone.
LEMMA ControlCarries ==
    ASSUME NEW e \in Side, NEW s, GoodSession(s, e), NEW t, t.failed = s.failed,
           SameStreams(t, s), SameInput(t, s), SameWire(t, s)
    PROVE  Carries(t, s)
<1>1. Wire(t) = Wire(s) /\ WireOK(t)
  BY PathTypes DEF Wire, SameWire, WireOK
<1> QED BY <1>1, ThinnerRefl, WireCarries

\* send_all, and the frames that belong to no stream.
LEMMA SendingCarries ==
    ASSUME NEW e \in Side, NEW s, GoodSession(s, e)
    PROVE  /\ Carries(send_all(s), s)
           /\ \A c \in Nat : Carries(send_go_away_with_code(s, c), s)
           /\ \A F \in {{"Syn"}, {"Ack"}}, n \in Nat : Carries(send_frame(s, new_ping(F, n)), s)
<1>1. s \in Session /\ WireOK(s) /\ Wire(s) \in Seq(SessionFrame)
  BY PathTypes
<1>2. Carries(send_all(s), s)
  <2>1. Sent(send_all(s), s, Wire(s))
    BY <1>1, SendAllSent
  <2>2. \A id \in StreamId : send_all(s).failed = s.failed /\ Thinner(Wire(send_all(s)), Wire(s), id)
    BY <1>1, SendAllFlows
  <2>3. send_all(s).failed = s.failed
    BY <1>1 DEF send_all, Session
  <2> QED BY <2>1, <2>2, <2>3, WireCarries DEF Sent
<1>3. ASSUME NEW c \in Nat PROVE Carries(send_go_away_with_code(s, c), s)
  <2> DEFINE t == send_go_away_with_code(s, c)
  <2>1. GoneAway(t, s)
    BY <1>1, GoAwaySent
  <2>2. \A id : t.failed = s.failed /\ Thinner(Wire(t), Wire(s), id)
    BY <1>1, GoAwayFlows
  <2> HIDE DEF t
  <2>3. Carries(t, s)
    BY <2>1, <2>2, WireCarries DEF GoneAway
  <2> QED BY <2>3 DEF t
<1>4. ASSUME NEW F \in {{"Syn"}, {"Ack"}}, NEW n \in Nat
      PROVE  Carries(send_frame(s, new_ping(F, n)), s)
  <2> DEFINE f == new_ping(F, n)
             t == send_frame(s, f)
  <2>1. f \in WireFrame
    BY ControlFrames
  <2>2. f \in SessionFrame /\ \A id : ~OfStream(f, id)
    BY <2>1 DEF WireFrame, OfStream, new_ping
  <2> HIDE DEF f
  <2>3. Sent(t, s, Append(Wire(s), f))
    BY <1>1, <2>1, SendFrameSent
  <2>4. \A id : t.failed = s.failed /\ Thinner(Wire(t), Wire(s) \o <<f>>, id)
    BY <1>1, <2>1, SendFrameFlows
  <2>5. \A id : Thinner(Wire(s) \o <<f>>, Wire(s), id)
    BY <1>1, <2>2, ThinnerOther
  <2> HIDE DEF t
  <2>6. \A id : Thinner(Wire(t), Wire(s), id)
    BY <2>4, <2>5, ThinnerTrans
  <2>7. Carries(t, s)
    BY <2>3, <2>4, <2>6, WireCarries DEF Sent
  <2> QED BY <2>7 DEF t, f
<1> QED BY <1>2, <1>3, <1>4

\* The state of distribute_to_substream after the frames p: what a stream gets, and what
\* waits for it, is in order, and something waits for it only if it is blocked.
LoopFlow(a, s, p) ==
    /\ a.s.failed = s.failed
    /\ \A id \in StreamId :
         /\ Thinner(InPath(a.s, id), s.chan[id] \o p, id)
         /\ id \notin a.blocked => Has(a.s.read_pending_frames, id) = {}
         /\ ChanOK(s, id) => ChanOK(a.s, id)

\* A turn of the loop: the frame f is the last that the stream id gets.
TurnFlow(b, a, f, id) ==
    /\ b.s.failed = a.s.failed
    /\ Thinner(InPath(b.s, id), InPath(a.s, id) \o <<f>>, id)
    /\ id \notin b.blocked => Has(b.s.read_pending_frames, id) = {}
    /\ ChanOK(a.s, id) => ChanOK(b.s, id)

\* A frame passes those that wait for others.
LEMMA Overtakes ==
    ASSUME NEW S, NEW c \in Seq(S), NEW w \in Seq(S), NEW f \in S, NEW id, Has(w, id) = {}
    PROVE  Thinner((c \o <<f>>) \o w, (c \o w) \o <<f>>, id)
<1> DEFINE d == <<f>>
<1>1. d \in Seq(S)
  BY OneFrame
<1> HIDE DEF d
<1>2. c \o d \in Seq(S) /\ c \o w \in Seq(S)
  BY <1>1, ConcatAt
<1>3. /\ \A x : x \in Has(c \o d, id) <=> x \in Has(c, id) \/ x \in Has(d, id)
      /\ \A x, y : Precedes(c \o d, id, x, y) <=>
                \/ Precedes(c, id, x, y) \/ Precedes(d, id, x, y)
                \/ x \in Has(c, id) /\ y \in Has(d, id)
  BY <1>1, HasConcat
<1>4. /\ \A x : x \in Has((c \o d) \o w, id) <=> x \in Has(c \o d, id) \/ x \in Has(w, id)
      /\ \A x, y : Precedes((c \o d) \o w, id, x, y) <=>
                \/ Precedes(c \o d, id, x, y) \/ Precedes(w, id, x, y)
                \/ x \in Has(c \o d, id) /\ y \in Has(w, id)
  BY <1>2, HasConcat
<1>5. /\ \A x : x \in Has(c \o w, id) <=> x \in Has(c, id) \/ x \in Has(w, id)
      /\ \A x, y : Precedes(c \o w, id, x, y) <=>
                \/ Precedes(c, id, x, y) \/ Precedes(w, id, x, y)
                \/ x \in Has(c, id) /\ y \in Has(w, id)
  BY HasConcat
<1>6. /\ \A x : x \in Has((c \o w) \o d, id) <=> x \in Has(c \o w, id) \/ x \in Has(d, id)
      /\ \A x, y : Precedes((c \o w) \o d, id, x, y) <=>
                \/ Precedes(c \o w, id, x, y) \/ Precedes(d, id, x, y)
                \/ x \in Has(c \o w, id) /\ y \in Has(d, id)
  BY <1>1, <1>2, HasConcat, ZenonT(60)
<1>7. \A x, y : ~Precedes(w, id, x, y)
  BY PrecedesHas
<1>8. /\ \A x : x \in Has((c \o d) \o w, id) => x \in Has((c \o w) \o d, id)
      /\ \A x, y : Precedes((c \o d) \o w, id, x, y) => Precedes((c \o w) \o d, id, x, y)
  BY <1>3, <1>4, <1>5, <1>6, <1>7
<1> QED BY <1>8 DEF Thinner, d

\* The queues of a session in the loop.
LEMMA MildTypes ==
    ASSUME NEW t, NEW s, Mild(t, s)
    PROVE  /\ t \in Session /\ t.read_pending_frames \in Seq(SessionFrame)
           /\ t.read_pending_frames \in Seq(Frame)
           /\ \A id \in StreamId : t.chan[id] \in Seq(SessionFrame) /\ t.chan[id] \in Seq(Frame)
                                   /\ InPath(t, id) \in Seq(SessionFrame)
<1>1. Seq(Frame) \subseteq Seq(SessionFrame)
  <2>1. Frame \subseteq SessionFrame
    BY DEF Frame, SessionFrame
  <2> QED BY <2>1, SeqMonotonic
<1>2. t \in Session
  BY DEF Mild
<1>3. /\ t.read_pending_frames \in Seq(Frame) /\ \A id \in StreamId : t.chan[id] \in Seq(Frame)
  BY <1>2 DEF Session
<1>4. \A id \in StreamId : InPath(t, id) \in Seq(SessionFrame)
  BY <1>1, <1>3, ConcatAt DEF InPath
<1> QED BY <1>1, <1>2, <1>3, <1>4

\* The three ways of a frame, for the stream id.
LEMMA WaysFlow ==
    ASSUME NEW s, NEW t, Mild(t, s), NEW f \in StreamFrame, NEW id \in StreamId
    PROVE  /\ Thinner(InPath(t, id), InPath(t, id) \o <<f>>, id)
           /\ LET u == Waits(t, f) IN
              /\ u.failed = t.failed /\ InPath(u, id) = InPath(t, id) \o <<f>>
              /\ ChanOK(t, id) => ChanOK(u, id)
              /\ f.stream_id # id /\ Has(t.read_pending_frames, id) = {} =>
                   Has(u.read_pending_frames, id) = {}
           /\ LET u == Forgets(t, f.stream_id) IN
              /\ u.failed = t.failed /\ InPath(u, id) = InPath(t, id)
              /\ u.read_pending_frames = t.read_pending_frames
              /\ ChanOK(t, id) => ChanOK(u, id)
           /\ LET u == Reaches(t, f.stream_id, f) IN
              /\ u.failed = t.failed /\ u.read_pending_frames = t.read_pending_frames
              /\ ChanOK(t, id) => ChanOK(u, id)
              /\ (f.stream_id = id => Has(t.read_pending_frames, id) = {}) =>
                   Thinner(InPath(u, id), InPath(t, id) \o <<f>>, id)
<1> DEFINE w == t.read_pending_frames
           c == t.chan[id]
           x == f.stream_id
<1>1. /\ t \in Session /\ w \in Seq(SessionFrame) /\ c \in Seq(SessionFrame) /\ c \in Seq(Frame)
      /\ InPath(t, id) \in Seq(SessionFrame) /\ InPath(t, id) = c \o w /\ w \in Seq(Frame)
  BY MildTypes DEF InPath
<1>2. f \in SessionFrame /\ <<f>> \in Seq(SessionFrame) /\ f \in Frame /\ x \in StreamId
  BY OneFrame DEF StreamFrame, Frame, SessionFrame
<1>3. Thinner(InPath(t, id), InPath(t, id) \o <<f>>, id)
  BY <1>1, <1>2, ThinnerParts
<1>4. LET u == Waits(t, f) IN
      /\ u.failed = t.failed /\ InPath(u, id) = InPath(t, id) \o <<f>>
      /\ ChanOK(t, id) => ChanOK(u, id)
      /\ x # id /\ Has(w, id) = {} => Has(u.read_pending_frames, id) = {}
  <2> DEFINE u == Waits(t, f)
  <2>1. u.failed = t.failed /\ u.chan = t.chan /\ u.read_pending_frames = Append(w, f)
    BY <1>1 DEF Waits, Session
  <2> HIDE DEF u
  <2>2. Append(w, f) = w \o <<f>>
    BY <1>1, <1>2, AppendIs
  <2>3. c \o (w \o <<f>>) = (c \o w) \o <<f>>
    <3> HIDE DEF c, w
    <3> QED BY <1>1, <1>2, ConcatAssociative
  <2>4. InPath(u, id) = InPath(t, id) \o <<f>>
    BY <1>1, <2>1, <2>2, <2>3 DEF InPath
  <2>5. ASSUME x # id, Has(w, id) = {} PROVE Has(w \o <<f>>, id) = {}
    <3>1. ~OfStream(f, id)
      BY <2>5 DEF OfStream
    <3>2. Thinner(w \o <<f>>, w, id)
      BY <1>1, <1>2, <3>1, ThinnerOther
    <3> QED BY <2>5, <3>2 DEF Thinner
  <2>6. ChanOK(t, id) => ChanOK(u, id)
    BY <2>1 DEF ChanOK
  <2> QED BY <2>1, <2>2, <2>4, <2>5, <2>6 DEF u
<1>5. LET u == Forgets(t, x) IN
      /\ u.failed = t.failed /\ InPath(u, id) = InPath(t, id)
      /\ u.read_pending_frames = t.read_pending_frames
      /\ ChanOK(t, id) => ChanOK(u, id)
  <2> DEFINE u == Forgets(t, x)
  <2>1. u.failed = t.failed /\ u.chan = t.chan /\ u.read_pending_frames = w
    BY <1>1 DEF Forgets, Session
  <2> HIDE DEF u
  <2> QED BY <2>1 DEF InPath, ChanOK, u
<1>6. LET u == Reaches(t, x, f) IN
      /\ u.failed = t.failed /\ u.read_pending_frames = t.read_pending_frames
      /\ ChanOK(t, id) => ChanOK(u, id)
      /\ (x = id => Has(w, id) = {}) => Thinner(InPath(u, id), InPath(t, id) \o <<f>>, id)
  <2> DEFINE u == Reaches(t, x, f)
             d == Append(t.chan[x], f)
  <2>1. u.failed = t.failed /\ u.chan = [t.chan EXCEPT ![x] = d] /\ u.read_pending_frames = w
    BY <1>1 DEF Reaches, Session
  <2>2. t.chan \in [StreamId -> Seq(Frame)]
    BY <1>1 DEF Session
  <2>3. u.chan[id] = IF x = id THEN Append(c, f) ELSE c
    BY <1>2, <2>1, <2>2
  <2> HIDE DEF u, d
  <2>4. ASSUME x = id, Has(w, id) = {} PROVE Thinner(InPath(u, id), InPath(t, id) \o <<f>>, id)
    <3>1. Append(c, f) = c \o <<f>>
      BY <1>1, <1>2, AppendIs
    <3>2. Thinner((c \o <<f>>) \o w, (c \o w) \o <<f>>, id)
      <4> HIDE DEF c, w
      <4> QED BY <1>1, <1>2, <2>4, Overtakes
    <3> QED BY <1>1, <2>1, <2>3, <2>4, <3>1, <3>2 DEF InPath
  <2>5. ASSUME x # id PROVE Thinner(InPath(u, id), InPath(t, id) \o <<f>>, id)
    BY <1>3, <2>1, <2>3, <2>5 DEF InPath
  <2>6. ASSUME ChanOK(t, id) PROVE ChanOK(u, id)
    <3>1. CASE x # id
      BY <2>3, <2>6, <3>1 DEF ChanOK
    <3>2. CASE x = id
      <4>1. /\ Len(Append(c, f)) = Len(c) + 1
            /\ \A i \in 1..Len(c) : Append(c, f)[i] = c[i]
            /\ Append(c, f)[Len(c) + 1] = f
            /\ \A i \in 1..(Len(c) + 1) : i \notin 1..Len(c) => i = Len(c) + 1
        BY <1>1, <1>2, AppendAt
      <4>2. u.chan[id] = Append(c, f) /\ \A i \in 1..Len(c) : c[i].stream_id = id
        BY <2>3, <2>6, <3>2 DEF ChanOK
      <4> HIDE DEF c
      <4>3. \A i \in 1..(Len(c) + 1) : Append(c, f)[i].stream_id = id
        BY <3>2, <4>1, <4>2
      <4> QED BY <4>1, <4>2, <4>3 DEF ChanOK
    <3> QED BY <3>1, <3>2
  <2> QED BY <2>1, <2>4, <2>5, <2>6 DEF u
<1> QED BY <1>3, <1>4, <1>5, <1>6

\* Concatenations may be regrouped.
LEMMA Regroup ==
    ASSUME NEW S, NEW a \in Seq(S), NEW b \in Seq(S), NEW c \in Seq(S)
    PROVE  (a \o b) \o c = a \o (b \o c) /\ a \o b \in Seq(S)
<1>1. (a \o b) \o c = a \o (b \o c)
  BY ConcatAssociative
<1>2. a \o b \in Seq(S)
  BY ConcatProperties
<1> QED BY <1>1, <1>2
LEMMA RegroupFrames ==
    \A a, b, c \in Seq(SessionFrame) : (a \o b) \o c = a \o (b \o c) /\ a \o b \in Seq(SessionFrame)
  BY Regroup

\* One turn of the loop, for a frame that is no SYN.
LEMMA TurnFlows ==
    ASSUME NEW s, NEW a, LoopOK(a, s), NEW e, NEW f \in QueuedFrame, NEW id \in StreamId,
           id \notin a.blocked => Has(a.s.read_pending_frames, id) = {}
    PROVE  TurnFlow(Distribute(a, e, f), a, f, id)
<1> DEFINE t == a.s
           x == f.stream_id
           b == Distribute(a, e, f)
<1> SUFFICES TurnFlow(b, a, f, id)
  OBVIOUS
<1>1. /\ Mild(t, s) /\ f \in StreamFrame /\ "Syn" \notin f.flags /\ ~a.returned /\ x \in StreamId
      /\ a \in [s : Session, blocked : SUBSET StreamId, returned : BOOLEAN]
  BY DEF LoopOK, Milder, QueuedFrame, StreamFrame
<1>2. Thinner(InPath(t, id), InPath(t, id) \o <<f>>, id)
  BY <1>1, WaysFlow
<1> DEFINE u == Waits(t, f)
           v == Forgets(t, x)
           r == Reaches(t, x, f)
<1>3. /\ u.failed = t.failed /\ InPath(u, id) = InPath(t, id) \o <<f>>
      /\ ChanOK(t, id) => ChanOK(u, id)
      /\ x # id /\ Has(t.read_pending_frames, id) = {} => Has(u.read_pending_frames, id) = {}
  <2>0. Mild(t, s) /\ f \in StreamFrame
    BY <1>1
  <2>1. u.failed = t.failed /\ InPath(u, id) = InPath(t, id) \o <<f>>
    <3>1. u.failed = t.failed
      BY <2>0, WaysFlow
    <3>2. InPath(u, id) = InPath(t, id) \o <<f>>
      <4> HIDE DEF t, u
      <4> QED BY <2>0, WaysFlow, Zenon DEF u
    <3> QED BY <3>1, <3>2
  <2>2. ChanOK(t, id) => ChanOK(u, id)
    BY <1>1, WaysFlow, ZenonT(40)
  <2>3. x # id /\ Has(t.read_pending_frames, id) = {} => Has(u.read_pending_frames, id) = {}
    BY <1>1, WaysFlow, ZenonT(40)
  <2> QED BY <2>1, <2>2, <2>3
<1>4. /\ v.failed = t.failed /\ InPath(v, id) = InPath(t, id)
      /\ v.read_pending_frames = t.read_pending_frames
      /\ ChanOK(t, id) => ChanOK(v, id)
  BY <1>1, WaysFlow, ZenonT(60)
<1>5. /\ r.failed = t.failed /\ r.read_pending_frames = t.read_pending_frames
      /\ ChanOK(t, id) => ChanOK(r, id)
      /\ (x = id => Has(t.read_pending_frames, id) = {}) =>
            Thinner(InPath(r, id), InPath(t, id) \o <<f>>, id)
  BY <1>1, WaysFlow
<1>6. CASE x \in a.blocked
  <2>1. b = GoesOn(a, u)
    BY <1>1, <1>6 DEF Distribute, Waits, GoesOn
  <2>2. b.s = u /\ b.blocked = a.blocked
    BY <1>1, <2>1 DEF GoesOn
  <2> HIDE DEF b, u
  <2>3. Thinner(InPath(u, id), InPath(t, id) \o <<f>>, id)
    BY <1>3, ThinnerRefl
  <2>4. id \notin a.blocked => Has(u.read_pending_frames, id) = {}
    BY <1>3, <1>6
  <2> QED BY <1>3, <2>2, <2>3, <2>4 DEF TurnFlow
<1>7. CASE x \notin a.blocked /\ x \notin t.streams
  <2>1. b = a
    BY <1>1, <1>7 DEF Distribute, ToChannel
  <2> HIDE DEF b
  <2> QED BY <1>2, <2>1 DEF TurnFlow
<1>8. CASE x \notin a.blocked /\ x \in t.streams /\ t.life[x] = "gone"
  <2>1. b = GoesOn(a, v)
    BY <1>1, <1>8 DEF Distribute, ToChannel, Forgets, GoesOn
  <2>2. b.s = v /\ b.blocked = a.blocked
    BY <1>1, <2>1 DEF GoesOn
  <2> HIDE DEF b, v
  <2> QED BY <1>2, <1>4, <2>2 DEF TurnFlow
<1>9. CASE x \notin a.blocked /\ x \in t.streams /\ t.life[x] # "gone" /\ Len(t.chan[x]) < ChannelCap
  <2>1. b = GoesOn(a, r)
    BY <1>1, <1>9 DEF Distribute, ToChannel, Reaches, GoesOn
  <2>2. b.s = r /\ b.blocked = a.blocked
    BY <1>1, <2>1 DEF GoesOn
  <2> HIDE DEF b, r
  <2> QED BY <1>5, <1>9, <2>2 DEF TurnFlow
<1>10. CASE x \notin a.blocked /\ x \in t.streams /\ t.life[x] # "gone"
                               /\ ~(Len(t.chan[x]) < ChannelCap)
  <2>1. b = Blocks(a, u, x)
    BY <1>1, <1>10 DEF Distribute, ToChannel, Waits, Blocks
  <2>2. b.s = u /\ b.blocked = a.blocked \cup {x}
    BY <1>1, <2>1 DEF Blocks
  <2> HIDE DEF b, u
  <2>3. Thinner(InPath(u, id), InPath(t, id) \o <<f>>, id)
    BY <1>3, ThinnerRefl
  <2>4. id \notin a.blocked \cup {x} => Has(u.read_pending_frames, id) = {}
    BY <1>3
  <2> QED BY <1>3, <2>2, <2>3, <2>4 DEF TurnFlow
<1> QED BY <1>6, <1>7, <1>8, <1>9, <1>10

\* The first n + 1 elements of a sequence.
LEMMA NextPart ==
    ASSUME NEW S, NEW q \in Seq(S), NEW n \in 0..(Len(q) - 1)
    PROVE  SubSeq(q, 1, n + 1) = SubSeq(q, 1, n) \o <<q[n + 1]>>
<1> DEFINE a == SubSeq(q, 1, n)
           b == SubSeq(q, 1, n + 1)
           x == q[n + 1]
<1>1. Len(q) \in Nat /\ n \in 0..Len(q) /\ n + 1 \in 0..Len(q) /\ 1 \in 1..(Len(q) + 1)
      /\ n + 1 \in 1..Len(q) /\ 1 <= n + 1 /\ 1 <= (n + 1) + 1 /\ n \in Nat
  BY LenProperties
<1>2. /\ a \in Seq(S) /\ Len(a) = n - 1 + 1
      /\ \A i \in 1..(n - 1 + 1) : 1 + i - 1 \in 1..Len(q) /\ a[i] = q[1 + i - 1]
  BY <1>1, PartAt
<1>3. /\ b \in Seq(S) /\ Len(b) = (n + 1) - 1 + 1
      /\ \A i \in 1..((n + 1) - 1 + 1) : 1 + i - 1 \in 1..Len(q) /\ b[i] = q[1 + i - 1]
  BY <1>1, PartAt
<1>4. x \in S
  BY <1>1, ElementOfSeq
<1> HIDE DEF a, b, x
<1>5. n - 1 + 1 = n /\ (n + 1) - 1 + 1 = n + 1 /\ \A i \in Nat : 1 + i - 1 = i
  BY <1>1
<1>6. /\ Len(a) = n /\ \A i \in 1..n : a[i] = q[i]
      /\ Len(b) = n + 1 /\ \A i \in 1..(n + 1) : b[i] = q[i]
  BY <1>2, <1>3, <1>5
<1> DEFINE c == Append(a, x)
<1>7. /\ c \in Seq(S) /\ Len(c) = Len(a) + 1 /\ \A i \in 1..Len(a) : c[i] = a[i]
      /\ c[Len(a) + 1] = x /\ \A i \in 1..(Len(a) + 1) : i \notin 1..Len(a) => i = Len(a) + 1
  BY <1>2, <1>4, AppendAt
<1> HIDE DEF c
<1>8. \A i \in 1..(n + 1) : b[i] = c[i]
  BY <1>6, <1>7 DEF x
<1>9. Len(b) = Len(c) /\ \A i \in 1..Len(c) : b[i] = c[i]
  BY <1>6, <1>7, <1>8
<1>10. b = c
  BY <1>3, <1>7, <1>9, SameSeq
<1>11. c = a \o <<x>>
  BY <1>2, <1>4, AppendIs DEF c
<1> QED BY <1>10, <1>11 DEF a, b, x

\* The loop over frames that are no SYNs.
LEMMA LoopFlows ==
    ASSUME NEW e \in Side, NEW s, GoodSession(s, e), NEW q \in Seq(Frame), NEW m \in 0..Len(q),
           \A n \in 1..m : q[n] \in QueuedFrame,
           NEW g, g[0] = Undistributed([s EXCEPT !.read_pending_frames = q]),
           \A n \in 1..Len(q) : g[n] = Distribute(g[n - 1], e, q[n])
    PROVE  LoopFlow(g[m], s, SubSeq(q, 1, m))
<1> DEFINE T == {n \in 0..m : LoopFlow(g[n], s, SubSeq(q, 1, n))}
<1>0. /\ Len(q) \in Nat /\ m \in Nat /\ s \in Session /\ q \in Seq(SessionFrame)
      /\ \A id \in StreamId : s.chan[id] \in Seq(SessionFrame)
  <2>1. Frame \subseteq SessionFrame
    BY DEF Frame, SessionFrame
  <2>2. q \in Seq(SessionFrame)
    BY <2>1, SeqMonotonic
  <2> QED BY <2>2, LenProperties, PathTypes
<1>1. 0 \in T
  <2> DEFINE t == [s EXCEPT !.read_pending_frames = <<>>]
             v == [s EXCEPT !.read_pending_frames = q]
  <2>1. t.failed = s.failed /\ t.chan = s.chan /\ t.read_pending_frames = <<>>
    BY <1>0 DEF Session
  <2>2. [v EXCEPT !.read_pending_frames = <<>>] = t
    BY <1>0 DEF Session
  <2>3. g[0].s = t /\ g[0].blocked = {}
    BY <2>2 DEF Undistributed
  <2>4. SubSeq(q, 1, 0) = <<>>
    BY SubSeqEmpty
  <2> HIDE DEF t
  <2>5. ASSUME NEW id \in StreamId
        PROVE  /\ Thinner(InPath(t, id), s.chan[id] \o <<>>, id)
               /\ Has(t.read_pending_frames, id) = {}
               /\ ChanOK(s, id) => ChanOK(t, id)
    BY <2>1, HasFew, ThinnerRefl DEF InPath, ChanOK
  <2>6. LoopFlow(g[0], s, <<>>)
    BY <2>1, <2>3, <2>5 DEF LoopFlow
  <2>7. 0 \in 0..m
    BY <1>0
  <2>8. LoopFlow(g[0], s, SubSeq(q, 1, 0))
    BY <2>4, <2>6
  <2> QED BY <2>7, <2>8
<1>2. ASSUME NEW n \in 0..(m - 1), n \in T PROVE n + 1 \in T
  <2> DEFINE a == g[n]
             b == g[n + 1]
             f == q[n + 1]
             p == SubSeq(q, 1, n)
  <2>1. /\ n + 1 \in 1..m /\ n + 1 \in 1..Len(q) /\ (n + 1) - 1 = n /\ n + 1 \in 0..m
        /\ n \in 0..Len(q) /\ n \in 0..(Len(q) - 1)
    BY <1>0
  <2>2. b = Distribute(a, e, f)
    BY <2>1
  <2>3. LoopFlow(a, s, p) /\ f \in QueuedFrame
    BY <1>2, <2>1
  <2>4. \A k \in 1..n : q[k] \in QueuedFrame
    BY <2>1
  <2>5. LoopOK(a, s)
    BY <2>1, <2>4, LoopGoesOn
  <2>6. p \in Seq(SessionFrame) /\ SubSeq(q, 1, n + 1) = p \o <<f>>
    <3>1. p \in Seq(SessionFrame)
      BY <1>0, <2>1, ThinnerCut
    <3>2. SubSeq(q, 1, n + 1) = p \o <<f>>
      BY <1>0, <2>1, NextPart
    <3> QED BY <3>1, <3>2
  <2>7. f \in SessionFrame /\ <<f>> \in Seq(SessionFrame)
    BY <2>3, OneFrame DEF QueuedFrame, StreamFrame, Frame, SessionFrame
  <2> HIDE DEF a, b, f, p
  <2>8. Mild(a.s, s)
    BY <2>5 DEF LoopOK, Milder
  <2>9. ASSUME NEW id \in StreamId
        PROVE  /\ b.s.failed = s.failed
               /\ Thinner(InPath(b.s, id), s.chan[id] \o (p \o <<f>>), id)
               /\ id \notin b.blocked => Has(b.s.read_pending_frames, id) = {}
               /\ ChanOK(s, id) => ChanOK(b.s, id)
    <3>1. TurnFlow(b, a, f, id)
      BY <2>2, <2>3, <2>5, TurnFlows DEF LoopFlow
    <3>2. Thinner(InPath(a.s, id), s.chan[id] \o p, id)
      BY <2>3 DEF LoopFlow
    <3>3. InPath(a.s, id) \in Seq(SessionFrame) /\ s.chan[id] \o p \in Seq(SessionFrame)
      BY <1>0, <2>6, <2>8, MildTypes, ConcatAt
    <3>4. Thinner(InPath(a.s, id) \o <<f>>, (s.chan[id] \o p) \o <<f>>, id)
      BY <2>7, <3>2, <3>3, ThinnerRefl, ThinnerConcat
    <3>5. (s.chan[id] \o p) \o <<f>> = s.chan[id] \o (p \o <<f>>)
      <4> DEFINE c == s.chan[id]
                 w == <<f>>
      <4>1. c \in Seq(SessionFrame) /\ p \in Seq(SessionFrame) /\ w \in Seq(SessionFrame)
        BY <1>0, <2>6, <2>7
      <4> HIDE DEF c, w
      <4>2. (c \o p) \o w = c \o (p \o w)
        BY <4>1, RegroupFrames
      <4> QED BY <4>2 DEF c, w
    <3>6. Thinner(InPath(b.s, id), s.chan[id] \o (p \o <<f>>), id)
      BY <3>1, <3>4, <3>5, ThinnerTrans DEF TurnFlow
    <3> QED BY <2>3, <3>1, <3>6 DEF TurnFlow, LoopFlow
  <2>10. StreamId # {}
    BY SessionAssumption DEF StreamId
  <2>11. LoopFlow(b, s, p \o <<f>>)
    BY <2>9, <2>10 DEF LoopFlow
  <2> QED BY <2>1, <2>6, <2>11 DEF b
<1> HIDE DEF T
<1>3. \A n \in 0..m : n \in T
  BY <1>0, <1>1, <1>2, Upwards
<1>4. m \in T
  BY <1>0, <1>3
<1> QED BY <1>4 DEF T

\* The loop leaves handles, events and wire alone.
LEMMA MilderOut ==
    ASSUME NEW s, NEW t, Milder(t, s)
    PROVE  t.h = s.h /\ t.life = s.life /\ OutPath(t) = OutPath(s)
BY DEF Milder, Mild, SameStreams, SameWire, OutPath, Wire

\* What waits is offered again.
LEMMA DistributeCarries ==
    ASSUME NEW e \in Side, NEW s, GoodSession(s, e)
    PROVE  Carries(distribute_to_substream(s, e), s)
<1> DEFINE q == s.read_pending_frames
           t == distribute_to_substream(s, e)
<1>1. /\ s \in Session /\ q \in Seq(QueuedFrame) /\ Len(q) \in Nat /\ q \in Seq(Frame)
      /\ \A n \in 1..Len(q) : q[n] \in QueuedFrame
  BY LenProperties, ElementOfSeq DEF GoodSession, SessionOK, Session
<1>2. PICK g : /\ g[0] = Undistributed(s)
               /\ \A n \in 1..Len(q) : g[n] = Distribute(g[n - 1], e, q[n])
               /\ t = g[Len(q)].s
  BY <1>1, LoopIs
<1>3. s = [s EXCEPT !.read_pending_frames = q]
  BY <1>1 DEF Session
<1>4. t.h = s.h /\ t.life = s.life /\ OutPath(t) = OutPath(s)
  BY DistributeIsMild, MilderOut
<1>5. \A id \in StreamId : InPath(s, id) = s.chan[id] \o q
  BY DEF InPath
<1> HIDE DEF q, t
<1>6. Len(q) \in 0..Len(q) /\ SubSeq(q, 1, Len(q)) = q
  BY <1>1, SubSeqFull
<1>7. LoopFlow(g[Len(q)], s, SubSeq(q, 1, Len(q)))
  BY <1>1, <1>2, <1>3, <1>6, LoopFlows
<1>8. LoopFlow(g[Len(q)], s, q)
  BY <1>6, <1>7
<1>9. \A id \in StreamId : Thinner(OutPath(t), OutPath(s), id)
  BY <1>4, ThinnerRefl
<1>10. Carries(t, s)
  BY <1>2, <1>4, <1>5, <1>8, <1>9 DEF Carries, LoopFlow
<1> QED BY <1>10 DEF t

\* flush.
LEMMA FlushCarries ==
    ASSUME NEW e \in Side, NEW s, GoodSession(s, e)
    PROVE  Carries(flush(s, e), s)
<1>1. CASE s.read_pending_frames = <<>> /\ s.write_pending_frames = <<>>
  <2>1. flush(s, e) = s
    BY <1>1 DEF flush
  <2> QED BY <2>1, ThinnerRefl DEF Carries
<1>2. CASE ~(s.read_pending_frames = <<>> /\ s.write_pending_frames = <<>>)
  <2> DEFINE u == send_all(s)
  <2>1. flush(s, e) = distribute_to_substream(u, e)
    BY <1>2 DEF flush
  <2>2. GoodSession(u, e)
    <3>1. s \in Session /\ WireOK(s)
      BY PathTypes
    <3>2. Sent(u, s, Wire(s))
      BY <3>1, SendAllSent
    <3>3. Mild(u, s)
      BY <3>2, SentIsMild, ThinsRefl
    <3> QED BY <3>3, MildKeeps
  <2>3. Carries(u, s)
    BY SendingCarries
  <2> HIDE DEF u
  <2>4. Carries(distribute_to_substream(u, e), u)
    BY <2>2, DistributeCarries
  <2> QED BY <2>1, <2>3, <2>4, CarriesTrans
<1> QED BY <1>1, <1>2

\* What a step does that takes the frame f from the socket.
FrameIn(t, s, f) ==
    /\ t.failed = s.failed /\ FlowGood(t)
    /\ \A id \in StreamId : Sends(t, s, id) /\ Thinner(InPath(t, id), InPath(s, id) \o <<f>>, id)

\* Handles that are left alone stay good.
LEMMA GoodAlong ==
    ASSUME NEW s, NEW t, FlowGood(s), t.h = s.h, t.life = s.life,
           \A id \in StreamId : ChanOK(s, id) => ChanOK(t, id),
           \A id \in StreamId : Thinner(OutPath(t), OutPath(s), id)
    PROVE  FlowGood(t)
BY DEF FlowGood, Pristine, Thinner

\* A step that sends nothing of a stream.
LEMMA SendsNothing ==
    ASSUME NEW e \in Side, NEW s, GoodSession(s, e), NEW t, NEW id \in StreamId,
           t.h[id] = s.h[id], Thinner(OutPath(t), OutPath(s), id)
    PROVE  Sends(t, s, id)
<1>1. /\ OutPath(s) \in Seq(SessionFrame) /\ s.h[id] \in StreamHandle
  BY PathTypes
<1>2. SendsMore(t.h[id], s.h[id]) /\ SameEnds(t.h[id], s.h[id])
  BY <1>1, FlowNumbers DEF SendsMore, SameEnds
<1>3. NoFrame \in SessionFrame /\ ~OfStream(NoFrame, id)
  BY NoFrameTyped
<1>4. <<NoFrame>> \in Seq(SessionFrame)
  BY <1>3, OneFrame
<1>5. Thinner(OutPath(s), OutPath(s) \o <<NoFrame>>, id)
  BY <1>1, <1>4, ThinnerParts
<1>6. Thinner(OutPath(t), OutPath(s) \o <<NoFrame>>, id)
  BY <1>5, ThinnerTrans
<1> QED BY <1>2, <1>3, <1>6 DEF Sends

\* A step that carries everything on takes any frame, and loses it.
LEMMA CarriesIn ==
    ASSUME NEW e \in Side, NEW s, GoodSession(s, e), FlowGood(s), NEW t, Carries(t, s),
           NEW f \in SessionFrame
    PROVE  FrameIn(t, s, f)
<1>1. FlowGood(t)
  BY GoodAlong DEF Carries
<1>2. ASSUME NEW id \in StreamId
      PROVE  Sends(t, s, id) /\ Thinner(InPath(t, id), InPath(s, id) \o <<f>>, id)
  <2>1. Sends(t, s, id)
    BY SendsNothing DEF Carries
  <2>2. InPath(s, id) \in Seq(SessionFrame) /\ <<f>> \in Seq(SessionFrame)
    BY PathTypes, OneFrame
  <2>3. Thinner(InPath(s, id), InPath(s, id) \o <<f>>, id)
    BY <2>2, ThinnerParts
  <2> QED BY <2>1, <2>3, ThinnerTrans DEF Carries
<1> QED BY <1>1, <1>2 DEF FrameIn, Carries

\* What a call of the handle id, with the outcome o, finds of the session s: w.
CallOn(w, s, id, o) ==
    /\ w \in Session /\ w.h = s.h /\ w.events = s.events /\ w.failed = s.failed
    /\ SameWire(w, s) /\ w.read_pending_frames = s.read_pending_frames
    /\ \A x \in StreamId : x # id => w.life[x] = s.life[x]
    /\ w.life[id] # "none"
    /\ o.h \in StreamHandle /\ o.h.id = id /\ o.frames \in Seq(StreamFrame)
    /\ o.event \in {"None", "Closed", "GoAway"}

\* Only a call that ends in GoAway fails a stream.
LEMMA CallFailed ==
    ASSUME NEW s, NEW id, NEW w, NEW o, CallOn(w, s, id, o), o.event # "GoAway"
    PROVE  WithHandle(w, id, o).failed = s.failed
BY DEF WithHandle, CallOn, Session

\* What a call leaves of the session: its frames join the events.
LEMMA CallOut ==
    ASSUME NEW e \in Side, NEW s, GoodSession(s, e), NEW id \in StreamId,
           NEW w, NEW o, CallOn(w, s, id, o)
    PROVE  LET t == WithHandle(w, id, o) IN
           /\ t.h = [s.h EXCEPT ![id] = o.h] /\ s.h \in [StreamId -> StreamHandle]
           /\ t.chan = w.chan /\ t.read_pending_frames = s.read_pending_frames
           /\ \A x \in StreamId : x # id => t.life[x] = s.life[x]
           /\ t.life[id] # "none"
           /\ \A x : Thinner(OutPath(t), OutPath(s) \o o.frames, x)
<1> DEFINE t == WithHandle(w, id, o)
           v == EventsOf(o, id)
           O == OutPath(s)
<1>1. /\ w \in Session /\ o.h \in StreamHandle /\ o.frames \in Seq(StreamFrame)
      /\ o.event \in {"None", "Closed", "GoAway"}
  BY DEF CallOn
<1>2. v \in Seq(HandleEvent) /\ \A x : Thinner(FramesOf(v), o.frames, x)
  BY <1>1, CallFrames
<1>3. /\ t.h = [w.h EXCEPT ![id] = o.h]
      /\ t.events = IF w.ended THEN w.events ELSE w.events \o v
      /\ t.life = w.life /\ SameInput(t, w) /\ SameWire(t, w)
  BY <1>1, <1>2, WithHandleIs
<1> HIDE DEF t, v
<1>5. /\ s.h \in [StreamId -> StreamHandle] /\ s.events \in Seq(HandleEvent)
      /\ Wire(s) \in Seq(SessionFrame) /\ FramesOf(s.events) \in Seq(SessionFrame)
      /\ O \in Seq(SessionFrame)
  BY PathTypes DEF Session
<1>6. /\ t.h = [s.h EXCEPT ![id] = o.h] /\ Wire(t) = Wire(s)
      /\ t.events = s.events \/ t.events = s.events \o v
      /\ t.chan = w.chan /\ t.read_pending_frames = s.read_pending_frames
      /\ \A x \in StreamId : x # id => t.life[x] = s.life[x]
      /\ t.life[id] # "none"
  BY <1>3 DEF CallOn, SameInput, SameWire, Wire
<1>7. FramesOf(v) \in Seq(SessionFrame) /\ o.frames \in Seq(SessionFrame)
  <2>1. StreamFrame \subseteq SessionFrame
    BY DEF StreamFrame, Frame, SessionFrame
  <2> QED BY <1>1, <1>2, <2>1, FramesTyped, SeqMonotonic
<1>8. ASSUME NEW x PROVE Thinner(OutPath(t), O \o o.frames, x)
  <2>1. CASE t.events = s.events
    <3>1. OutPath(t) = O
      BY <1>6, <2>1 DEF OutPath
    <3> HIDE DEF O
    <3> QED BY <1>5, <1>7, <3>1, ThinnerParts
  <2>2. CASE t.events = s.events \o v
    <3>1. FramesOf(t.events) = FramesOf(s.events) \o FramesOf(v)
      BY <1>2, <1>5, <2>2, FramesMore
    <3>2. OutPath(t) = Wire(s) \o (FramesOf(s.events) \o FramesOf(v))
      BY <1>6, <3>1 DEF OutPath
    <3>3. Wire(s) \o (FramesOf(s.events) \o FramesOf(v)) = O \o FramesOf(v)
      BY <1>5, <1>7, RegroupFrames DEF OutPath
    <3> HIDE DEF O
    <3>4. Thinner(O \o FramesOf(v), O \o o.frames, x)
      BY <1>2, <1>5, <1>7, ThinnerRefl, ThinnerConcat
    <3> QED BY <3>2, <3>3, <3>4
  <2> QED BY <1>6, <2>1, <2>2
<1> QED BY <1>5, <1>6, <1>8 DEF t

\* A tame call.
LEMMA CallFlows ==
    ASSUME NEW e \in Side, NEW s, GoodSession(s, e), FlowGood(s), NEW id \in StreamId,
           NEW w, NEW o, CallOn(w, s, id, o), Tame(o, s.h[id])
    PROVE  LET t == WithHandle(w, id, o) IN
           /\ t.failed = s.failed /\ t.chan = w.chan
           /\ t.read_pending_frames = s.read_pending_frames
           /\ \A x \in StreamId : Sends(t, s, x) /\ Pristine(t, x)
<1> DEFINE t == WithHandle(w, id, o)
           O == OutPath(s)
<1>0. o.event # "GoAway"
  BY DEF Tame
<1>1. t.failed = s.failed
  BY <1>0, CallFailed
<1>2. s.h \in [StreamId -> StreamHandle] /\ O \in Seq(SessionFrame)
  BY PathTypes DEF Session
<1>3. /\ t.h = [s.h EXCEPT ![id] = o.h]
      /\ t.chan = w.chan /\ t.read_pending_frames = s.read_pending_frames
      /\ \A x \in StreamId : x # id => t.life[x] = s.life[x]
      /\ t.life[id] # "none"
  BY CallOut
<1>4. \A x : Thinner(OutPath(t), O \o o.frames, x)
  BY CallOut
<1> HIDE DEF t, O
<1>5. PICK f \in SessionFrame :
         /\ \A x : Thinner(OutPath(t), O \o <<f>>, x)
         /\ \A x : OfStream(f, x) => x = id /\ Between(f, o.h, s.h[id])
  <2>1. CASE o.frames = <<>>
    <3>1. NoFrame \in SessionFrame /\ \A x : ~OfStream(NoFrame, x)
      BY NoFrameTyped
    <3>2. <<NoFrame>> \in Seq(SessionFrame) /\ O \o o.frames = O
      BY <1>2, <2>1, <3>1, OneFrame, ConcatEmptySeq
    <3>3. \A x : Thinner(O, O \o <<NoFrame>>, x)
      BY <1>2, <3>2, ThinnerParts
    <3>4. \A x : Thinner(OutPath(t), O \o <<NoFrame>>, x)
      BY <1>4, <3>2, <3>3, ThinnerTrans
    <3> QED BY <3>1, <3>4
  <2>2. CASE o.frames # <<>>
    <3>1. PICK f \in SessionFrame : /\ o.frames = <<f>> /\ Between(f, o.h, s.h[id])
                                    /\ f.stream_id = o.h.id
      BY <2>2 DEF Tame
    <3>2. \A x : OfStream(f, x) => x = id
      BY <3>1 DEF OfStream, CallOn
    <3> QED BY <1>4, <3>1, <3>2
  <2> QED BY <2>1, <2>2
<1>6. ASSUME NEW x \in StreamId PROVE Sends(t, s, x) /\ Pristine(t, x)
  <2>1. CASE x = id
    <3>1. t.h[x] = o.h /\ t.life[x] # "none"
      BY <1>2, <1>3, <2>1
    <3>2. SendsMore(o.h, s.h[x]) /\ SameEnds(o.h, s.h[x])
      BY <2>1 DEF Tame
    <3> QED BY <1>5, <2>1, <3>1, <3>2 DEF Sends, Pristine, O
  <2>2. CASE x # id
    <3>1. t.h[x] = s.h[x] /\ t.life[x] = s.life[x] /\ s.h[x] \in StreamHandle
      BY <1>2, <1>3, <2>2
    <3>2. SendsMore(t.h[x], s.h[x]) /\ SameEnds(t.h[x], s.h[x])
      BY <3>1, FlowNumbers DEF SendsMore, SameEnds
    <3>3. ~OfStream(f, x)
      BY <1>5, <2>2
    <3>4. Has(O, x) = {} => Has(OutPath(t), x) = {}
      <4>1. Thinner(O \o <<f>>, O, x)
        BY <1>2, <3>3, ThinnerOther
      <4>2. Thinner(OutPath(t), O, x)
        BY <1>5, <4>1, ThinnerTrans
      <4> QED BY <4>2 DEF Thinner
    <3>5. Pristine(s, x)
      BY DEF FlowGood
    <3>6. Pristine(t, x)
      BY <3>1, <3>4, <3>5 DEF Pristine, O
    <3> QED BY <1>5, <3>2, <3>3, <3>6 DEF Sends, O
  <2> QED BY <2>1, <2>2
<1> QED BY <1>1, <1>3, <1>6 DEF t

\* create_stream.
LEMMA CreateFlows ==
    ASSUME NEW e \in Side, NEW s, GoodSession(s, e), FlowGood(s), NEW id \in StreamId,
           s.life[id] = "none", NEW st \in {"Init", "SynReceived"},
           NEW u \in Session, u.h = s.h, u.life = s.life, u.events = s.events,
           u.failed = s.failed, u.chan = s.chan,
           u.read_pending_frames = s.read_pending_frames, SameWire(u, s)
    PROVE  LET t == create_stream(u, e, id, st) IN
           /\ t.failed = s.failed /\ t.chan = s.chan
           /\ t.read_pending_frames = s.read_pending_frames
           /\ \A x \in StreamId : Sends(t, s, x) /\ Pristine(t, x)
<1> DEFINE o == send_window_update(NewHandle(id, st, max_window_size(e)))
           l == [s.life EXCEPT ![id] = "live"]
           S == u.streams \cup {id}
           w == [u EXCEPT !.streams = S, !.life = l]
<1>1. create_stream(u, e, id, st) = WithHandle(w, id, o)
  BY DEF create_stream
<1>2. Tame(o, s.h[id])
  BY TameNew DEF FlowGood, Pristine, Blank
<1>3. /\ HandleOK(o.h, e, id) /\ o.event = "None"
      /\ \E f \in StreamFrame : o.frames = <<f>>
  BY NewHandleOutcome
<1> HIDE DEF o
<1>4. /\ o.h \in StreamHandle /\ o.h.id = id /\ o.frames \in Seq(StreamFrame)
      /\ o.event \in {"None", "Closed", "GoAway"}
  BY <1>3, OneFrame DEF HandleOK
<1>5. l \in [StreamId -> {"none", "live", "gone"}] /\ S \in SUBSET StreamId /\ l[id] = "live"
      /\ \A x \in StreamId : x # id => l[x] = s.life[x]
  BY DEF Session
<1> HIDE DEF l, S
<1>6. /\ w \in Session /\ w.life = l /\ w.h = u.h /\ w.events = u.events /\ w.failed = u.failed
      /\ w.chan = u.chan /\ w.read_pending_frames = u.read_pending_frames /\ SameWire(w, u)
  BY <1>5 DEF Session, SameWire
<1> HIDE DEF w
<1>7. CallOn(w, s, id, o)
  BY <1>4, <1>5, <1>6 DEF CallOn, SameWire
<1> QED BY <1>1, <1>2, <1>6, <1>7, CallFlows

\* A stream is refused: the RST g goes to the wire.
Refuses(r, t, id, g) ==
    /\ r.failed = t.failed /\ r.h = t.h /\ r.events = t.events
    /\ r.chan = t.chan /\ r.read_pending_frames = t.read_pending_frames
    /\ \A x \in StreamId : x # id => r.life[x] = t.life[x]
    /\ r.life[id] # "none"
    /\ Wire(r) \in Seq(SessionFrame) /\ \A x \in StreamId : Thinner(Wire(r), Wire(t) \o <<g>>, x)

LEMMA RefuseFlows ==
    ASSUME NEW e \in Side, NEW t, GoodSession(t, e), FlowGood(t), NEW id \in StreamId,
           t.life[id] = "none", NEW F \in SUBSET Flag, NEW r,
           Refuses(r, t, id, new_window_update(F, id, 0, InitialWindow)), NEW f \in SessionFrame
    PROVE  FrameIn(r, t, f)
<1> DEFINE g == new_window_update(F, id, 0, InitialWindow)
           W == Wire(t)
           E == FramesOf(t.events)
<1>1. W \in Seq(SessionFrame) /\ E \in Seq(SessionFrame) /\ OutPath(t) = W \o E
  BY PathTypes DEF OutPath
<1>2. /\ g \in SessionFrame /\ g.ty = "WindowUpdate" /\ g.stream_id = id
      /\ g.length = 0 /\ g.upto = InitialWindow /\ InitialWindow \in Nat
  <2>1. InitialWindow \in Nat /\ id \in Nat
    BY WindowBounds, IdIsNat
  <2> QED BY <2>1 DEF new_window_update, SessionFrame
<1>3. Refuses(r, t, id, g) /\ <<g>> \in Seq(SessionFrame)
  BY <1>2, OneFrame
<1> HIDE DEF g, W, E
<1>4. OutPath(r) = Wire(r) \o E /\ Wire(r) \in Seq(SessionFrame)
  BY <1>3 DEF Refuses, OutPath, E
<1>5. W \o <<g>> \in Seq(SessionFrame)
  BY <1>1, <1>3, RegroupFrames
<1>6. ASSUME NEW x \in StreamId PROVE Thinner(OutPath(r), (W \o <<g>>) \o E, x)
  <2>1. Thinner(Wire(r), W \o <<g>>, x)
    BY <1>3 DEF Refuses, W
  <2> QED BY <1>1, <1>4, <1>5, <2>1, ThinnerRefl, ThinnerConcat
<1>7. ASSUME NEW x \in StreamId PROVE Sends(r, t, x) /\ Pristine(r, x)
  <2>0. Pristine(t, x) /\ t.h[x] \in StreamHandle /\ r.h[x] = t.h[x]
    BY <1>3, PathTypes DEF FlowGood, Refuses
  <2>1. CASE x # id
    <3>1. ~OfStream(g, x)
      BY <1>2, <2>1 DEF OfStream
    <3>2. Thinner(W \o <<g>>, W, x)
      BY <1>1, <1>2, <3>1, ThinnerOther
    <3>3. Thinner((W \o <<g>>) \o E, W \o E, x)
      BY <1>1, <1>5, <3>2, ThinnerRefl, ThinnerConcat
    <3>4. Thinner(OutPath(r), OutPath(t), x)
      BY <1>1, <1>6, <3>3, ThinnerTrans
    <3>5. r.life[x] = t.life[x]
      BY <1>3, <2>1 DEF Refuses
    <3>6. Pristine(r, x)
      BY <2>0, <3>4, <3>5 DEF Pristine, Thinner
    <3> QED BY <2>0, <3>4, <3>6, SendsNothing
  <2>2. CASE x = id
    <3>1. Has(W \o E, x) = {} /\ Grant(t.h[x]) = InitialWindow
      BY <1>1, <1>2, <2>0, <2>2 DEF Pristine, Grant
    <3>2. Has(E, x) = {}
      <4>1. Thinner(E, W \o E, x)
        BY <1>1, ThinnerParts
      <4> QED BY <3>1, <4>1 DEF Thinner
    <3>3. Thinner((W \o <<g>>) \o E, (W \o E) \o <<g>>, x)
      BY <1>1, <1>2, <3>2, Overtakes
    <3>4. Thinner(OutPath(r), OutPath(t) \o <<g>>, x)
      BY <1>1, <1>6, <3>3, ThinnerTrans
    <3>5. Between(g, r.h[x], t.h[x])
      BY <1>2, <2>0, <3>1 DEF Between, Start
    <3>6. SendsMore(r.h[x], t.h[x]) /\ SameEnds(r.h[x], t.h[x])
      BY <2>0, FlowNumbers DEF SendsMore, SameEnds
    <3>7. Pristine(r, x)
      BY <1>3, <2>2 DEF Pristine, Refuses
    <3> QED BY <1>2, <3>4, <3>5, <3>6, <3>7 DEF Sends
  <2> QED BY <2>1, <2>2
<1>8. ASSUME NEW x \in StreamId
      PROVE  ChanOK(r, x) /\ Thinner(InPath(r, x), InPath(t, x) \o <<f>>, x)
  <2>1. InPath(r, x) = InPath(t, x) /\ r.chan = t.chan
    BY <1>3 DEF Refuses, InPath
  <2>2. InPath(t, x) \in Seq(SessionFrame) /\ <<f>> \in Seq(SessionFrame)
    BY PathTypes, OneFrame
  <2>3. ChanOK(r, x)
    BY <2>1 DEF FlowGood, ChanOK
  <2> QED BY <2>1, <2>2, <2>3, ThinnerParts
<1> QED BY <1>3, <1>7, <1>8 DEF FrameIn, FlowGood, Refuses

\* RefuseAll and Rejected do so.
LEMMA RefusalsAre ==
    ASSUME NEW e \in Side, NEW t, GoodSession(t, e), NEW id \in StreamId, t.life[id] = "none",
           Opener(id) # e, NEW F \in SUBSET (Flag \ {"Syn"})
    PROVE  LET g == new_window_update(F, id, 0, InitialWindow) IN
           /\ Refuses(send_frame(Refuse(t, id), g), t, id, g)
           /\ Refuses(Postponed(Refuse(t, id), g), t, id, g)
<1> DEFINE g == new_window_update(F, id, 0, InitialWindow)
           v == Refuse(t, id)
           r == send_frame(v, g)
           w == Append(v.write_pending_frames, g)
           p == Rewired(v, v.out, w)
<1>1. g \in WireFrame /\ g \in SessionFrame
  BY ResetFrame DEF WireFrame
<1>2. /\ v \in Session /\ WireOK(v) /\ Wire(v) = Wire(t)
  BY RefuseIsOK
<1>3. /\ v.life = [t.life EXCEPT ![id] = "gone"] /\ SameInput(v, t) /\ SameWire(v, t)
  BY RefuseKeeps
<1>4. t \in Session /\ v.h = t.h /\ v.events = t.events /\ v.failed = t.failed
  <2>1. t \in Session
    BY PathTypes
  <2> QED BY <2>1 DEF Refuse, Session
<1>5. Postponed(v, g) = p
  BY <1>2 DEF Postponed, Rewired, Session
<1> HIDE DEF g, v
<1>6. /\ \A x \in StreamId : x # id => v.life[x] = t.life[x]
      /\ v.life[id] = "gone" /\ v.chan = t.chan
      /\ v.read_pending_frames = t.read_pending_frames
  BY <1>3, <1>4 DEF Session, SameInput
<1>7. Sent(r, v, Append(Wire(v), g))
  BY <1>1, <1>2, SendFrameSent
<1>8. r.failed = v.failed /\ Wire(r) \in Seq(SessionFrame)
      /\ \A x \in StreamId : Thinner(Wire(r), Wire(v) \o <<g>>, x)
  BY <1>1, <1>2, SendFrameFlows, WireTyped
<1> HIDE DEF r
<1>9. Refuses(r, t, id, g)
  BY <1>2, <1>4, <1>6, <1>7, <1>8 DEF Refuses, Sent, SameStreams, SameInput
<1>10. w \in Seq(WireFrame) /\ v.out \in Seq(WireFrame) /\ v.write_pending_frames \in Seq(WireFrame)
  BY <1>1, <1>2, AppendProperties DEF WireOK
<1> HIDE DEF w
<1>11. /\ p \in Session /\ p.out = v.out /\ p.write_pending_frames = w
       /\ SameStreams(p, v) /\ SameInput(p, v) /\ SameControl(p, v)
  BY <1>2, <1>10, WithWire, ZenonT(60)
<1>12. p.failed = v.failed
  BY <1>2 DEF Rewired, Session
<1> HIDE DEF p
<1>13. Wire(p) = Wire(v) \o <<g>> /\ Wire(p) \in Seq(SessionFrame)
  <2>1. v.out \o w = Append(v.out \o v.write_pending_frames, g)
    BY <1>1, <1>10, WireAppend DEF w
  <2>2. Wire(v) \in Seq(SessionFrame)
    BY <1>2, WireTyped
  <2>3. Append(Wire(v), g) = Wire(v) \o <<g>> /\ Append(Wire(v), g) \in Seq(SessionFrame)
    BY <1>1, <2>2, AppendIs
  <2> QED BY <1>11, <2>1, <2>3 DEF Wire
<1>14. Refuses(p, t, id, g)
  BY <1>2, <1>4, <1>6, <1>11, <1>12, <1>13, ThinnerRefl DEF Refuses, SameStreams, SameInput
<1> QED BY <1>5, <1>9, <1>14 DEF r, v, g

\* A stream is accepted: its SYN is the first that it gets.
LEMMA AcceptFlows ==
    ASSUME NEW e \in Side, NEW t, GoodSession(t, e), FlowGood(t), NEW f \in StreamFrame, NEW id,
           id = f.stream_id, t.life[id] = "none", Has(t.read_pending_frames, id) = {}
    PROVE  FrameIn(Reaches(Announced(create_stream(t, e, id, "SynReceived"), id), id, f), t, f)
<1> DEFINE c == create_stream(t, e, id, "SynReceived")
           r == Reaches(Announced(c, id), id, f)
           d == [t.chan EXCEPT ![id] = <<f>>]
           q == t.read_pending_frames
<1>1. id \in StreamId /\ f \in Frame /\ f \in SessionFrame
  BY DEF StreamFrame, Frame, SessionFrame
<1>2. t \in Session /\ t.chan[id] = <<>> /\ t.chan \in [StreamId -> Seq(Frame)]
      /\ q \in Seq(SessionFrame)
  BY <1>1, PathTypes DEF GoodSession, SessionOK, Session, StreamOK, NoneOK
<1>3. /\ c.failed = t.failed /\ c.chan = t.chan /\ c.read_pending_frames = q
      /\ \A x \in StreamId : Sends(c, t, x) /\ Pristine(c, x)
  BY <1>1, <1>2, CreateFlows DEF SameWire
<1>4. c \in Session
  <2> DEFINE o == send_window_update(NewHandle(id, "SynReceived", max_window_size(e)))
             l == [t.life EXCEPT ![id] = "live"]
             S == t.streams \cup {id}
             w == [t EXCEPT !.streams = S, !.life = l]
  <2>1. c = WithHandle(w, id, o)
    BY DEF create_stream
  <2>2. l \in [StreamId -> {"none", "live", "gone"}] /\ S \in SUBSET StreamId
    BY <1>1, <1>2 DEF Session
  <2> HIDE DEF l, S, c
  <2>3. w \in Session
    BY <1>2, <2>2 DEF Session
  <2>4. /\ HandleOK(o.h, e, id) /\ o.event = "None" /\ \E g \in StreamFrame : o.frames = <<g>>
    BY <1>1, NewHandleOutcome
  <2> HIDE DEF o, w
  <2>5. o.frames \in Seq(StreamFrame) /\ o.h \in StreamHandle
    BY <2>4, OneFrame DEF HandleOK
  <2>6. EventsOf(o, id) \in Seq(HandleEvent)
    BY <1>1, <2>4, <2>5, CallFrames
  <2> QED BY <1>1, <2>1, <2>3, <2>5, <2>6, WithHandleIs
<1> HIDE DEF c
<1>5. /\ r.failed = c.failed /\ r.h = c.h /\ r.life = c.life /\ r.events = c.events
      /\ r.out = c.out /\ r.write_pending_frames = c.write_pending_frames
      /\ r.read_pending_frames = c.read_pending_frames /\ r.chan = d
  <2>1. Append(<<>>, f) = <<f>>
    OBVIOUS
  <2>2. [c.chan EXCEPT ![id] = Append(@, f)] = d
    BY <1>1, <1>2, <1>3, <2>1
  <2> QED BY <1>4, <2>2 DEF Reaches, Announced, Session
<1> HIDE DEF r
<1>6. OutPath(r) = OutPath(c)
  BY <1>5 DEF OutPath, Wire
<1>7. /\ d[id] = <<f>> /\ \A x \in StreamId : x # id => d[x] = t.chan[x]
  BY <1>1, <1>2
<1> HIDE DEF d
<1>8. ASSUME NEW x \in StreamId
      PROVE  /\ Sends(r, t, x) /\ Pristine(r, x) /\ ChanOK(r, x)
             /\ Thinner(InPath(r, x), InPath(t, x) \o <<f>>, x)
  <2>1. Sends(r, t, x) /\ Pristine(r, x)
    BY <1>3, <1>5, <1>6 DEF Sends, Pristine
  <2>2. InPath(t, x) \in Seq(SessionFrame) /\ <<f>> \in Seq(SessionFrame) /\ ChanOK(t, x)
    BY <1>1, PathTypes, OneFrame DEF FlowGood
  <2>3. CASE x # id
    <3>1. InPath(r, x) = InPath(t, x) /\ r.chan[x] = t.chan[x]
      BY <1>3, <1>5, <1>7, <2>3 DEF InPath
    <3>2. Thinner(InPath(t, x), InPath(t, x) \o <<f>>, x)
      BY <2>2, ThinnerParts
    <3> QED BY <2>1, <2>2, <3>1, <3>2 DEF ChanOK
  <2>4. CASE x = id
    <3>1. InPath(r, x) = <<f>> \o q
      BY <1>3, <1>5, <1>7, <2>4 DEF InPath
    <3>2. InPath(t, x) = <<>> \o q
      BY <1>2, <2>4 DEF InPath
    <3> HIDE DEF q
    <3>3. <<>> \in Seq(SessionFrame) /\ <<>> \o <<f>> = <<f>>
      BY <2>2, OneFrame, ConcatEmptySeq
    <3>4. Thinner((<<>> \o <<f>>) \o q, (<<>> \o q) \o <<f>>, x)
      BY <1>1, <1>2, <2>4, <3>3, Overtakes DEF q
    <3>5. ChanOK(r, x)
      BY <1>5, <1>7, <2>4 DEF ChanOK
    <3> QED BY <2>1, <3>1, <3>2, <3>3, <3>4, <3>5
  <2> QED BY <2>3, <2>4
<1> QED BY <1>3, <1>5, <1>8 DEF FrameIn, FlowGood, r, c

\* The turn of the loop that meets a SYN.
LEMMA SynTurnFlows ==
    ASSUME NEW e \in Side, NEW s, GoodSession(s, e), ~s.ended, NEW a, LoopOK(a, s),
           GoodSession(a.s, e), FlowGood(a.s),
           NEW f \in StreamFrame, "Syn" \in f.flags,
           s.life[f.stream_id] = "none", Opener(f.stream_id) # e,
           f.stream_id \notin a.blocked => Has(a.s.read_pending_frames, f.stream_id) = {}
    PROVE  FrameIn(Distribute(a, e, f).s, a.s, f)
<1> DEFINE id == f.stream_id
           t == a.s
           b == OnSyn(a, e, id)
           u == Distribute(a, e, f)
<1> SUFFICES FrameIn(u.s, t, f)
  OBVIOUS
<1>0. id \in StreamId /\ f \in SessionFrame
  BY DEF StreamFrame, Frame, SessionFrame
<1>1. /\ Mild(t, s)
      /\ a \in [s : Session, blocked : SUBSET StreamId, returned : BOOLEAN] /\ ~a.returned
      /\ a.blocked \subseteq s.streams
  BY DEF LoopOK, Milder
<1>2. ~t.ended /\ t.life[id] = "none"
  BY <1>1 DEF Mild, SameStreams
<1>3. id \notin t.streams /\ id \notin s.streams /\ id \notin a.blocked
  BY <1>0, <1>1, <1>2 DEF GoodSession, StreamOK, NoneOK
<1>4. u = IF b.returned THEN b ELSE ToChannel(b, f)
  BY <1>1, <1>3 DEF Distribute
<1>5. Has(t.read_pending_frames, id) = {}
  BY <1>3
<1>6. CASE t.local_go_away
  <2> DEFINE g == new_window_update({"Rst"}, id, 0, InitialWindow)
             r == send_frame(Refuse(t, id), g)
  <2>0. {"Rst"} \in SUBSET (Flag \ {"Syn"}) /\ {"Rst"} \in SUBSET Flag
    BY DEF Flag
  <2>1. Refuses(r, t, id, g)
    BY <1>0, <1>2, <2>0, RefusalsAre
  <2>2. FrameIn(r, t, f)
    BY <1>0, <1>2, <2>0, <2>1, RefuseFlows
  <2>3. b = [a EXCEPT !.s = r, !.returned = TRUE]
    BY <1>6 DEF OnSyn, RefuseAll
  <2> HIDE DEF r
  <2>4. b.returned /\ b.s = r
    BY <1>1, <2>3
  <2> HIDE DEF b, u
  <2> QED BY <1>4, <2>2, <2>4
<1>7. CASE ~t.local_go_away /\ Cardinality(t.streams) < max_stream_count(e)
                            /\ Len(t.pending_streams) < accept_backlog
  <2> DEFINE x == Announced(create_stream(t, e, id, "SynReceived"), id)
             r == Reaches(x, id, f)
  <2>1. x \in Session /\ id \in x.streams /\ x.life[id] = "live" /\ x.chan[id] = <<>>
    BY <1>2, AcceptedOK
  <2>2. FrameIn(r, t, f)
    BY <1>2, <1>5, AcceptFlows
  <2>3. b = [a EXCEPT !.s = x]
    BY <1>3, <1>7 DEF OnSyn, Accepted
  <2> HIDE DEF x
  <2>4. b.s = x /\ ~b.returned /\ b \in [s : Session, blocked : SUBSET StreamId, returned : BOOLEAN]
    BY <1>1, <2>1, <2>3
  <2> HIDE DEF b
  <2>5. ToChannel(b, f) = [b EXCEPT !.s = r]
    <3>1. Len(x.chan[id]) = 0 /\ 0 < ChannelCap
      BY <2>1, SessionAssumption
    <3>2. id \in b.s.streams /\ b.s.life[id] # "gone" /\ Len(b.s.chan[id]) < ChannelCap
      BY <2>1, <2>4, <3>1
    <3> QED BY <2>4, <3>2 DEF ToChannel, Reaches
  <2> HIDE DEF r
  <2>6. ToChannel(b, f).s = r
    BY <2>4, <2>5
  <2> HIDE DEF u
  <2> QED BY <1>4, <2>2, <2>4, <2>6
<1>8. CASE ~t.local_go_away /\ ~(Cardinality(t.streams) < max_stream_count(e)
                                 /\ Len(t.pending_streams) < accept_backlog)
  <2> DEFINE g == new_window_update({"Ack", "Rst"}, id, 0, InitialWindow)
             r == Postponed(Refuse(t, id), g)
  <2>0. {"Ack", "Rst"} \in SUBSET (Flag \ {"Syn"}) /\ {"Ack", "Rst"} \in SUBSET Flag
    BY DEF Flag
  <2>1. Refuses(r, t, id, g)
    BY <1>0, <1>2, <2>0, RefusalsAre
  <2>2. FrameIn(r, t, f)
    BY <1>0, <1>2, <2>0, <2>1, RefuseFlows
  <2>3. r \in Session /\ r.streams = t.streams
    BY <1>0, <1>2, RejectedOK
  <2>4. b = [a EXCEPT !.s = r]
    BY <1>8 DEF OnSyn, Rejected
  <2> HIDE DEF r
  <2>5. b.s = r /\ ~b.returned
    BY <1>1, <2>3, <2>4
  <2> HIDE DEF b
  <2>6. ToChannel(b, f) = b
    BY <1>3, <2>3, <2>5 DEF ToChannel
  <2> HIDE DEF u
  <2> QED BY <1>4, <2>2, <2>5, <2>6
<1> QED BY <1>6, <1>7, <1>8

\* A frame of a stream arrives.
LEMMA ArrivalFlows ==
    ASSUME NEW e \in Side, NEW s, GoodSession(s, e), FlowGood(s), ~s.ended, NEW f \in StreamFrame,
           "Syn" \in f.flags => s.life[f.stream_id] = "none" /\ Opener(f.stream_id) # e
    PROVE  FrameIn(distribute_to_substream([s EXCEPT !.read_pending_frames = Append(@, f)], e), s, f)
<1> DEFINE p == s.read_pending_frames
           q == Append(p, f)
           v == [s EXCEPT !.read_pending_frames = q]
           r == distribute_to_substream(v, e)
<1>1. /\ s \in Session /\ p \in Seq(QueuedFrame) /\ p \in Seq(Frame) /\ Len(p) \in Nat /\ f \in Frame
      /\ \A n \in 1..Len(p) : p[n] \in QueuedFrame
  BY LenProperties, ElementOfSeq DEF GoodSession, SessionOK, Session, StreamFrame
<1>2. /\ q \in Seq(Frame) /\ Len(q) = Len(p) + 1
      /\ \A n \in 1..Len(p) : q[n] = p[n]
      /\ q[Len(p) + 1] = f
      /\ \A i \in 1..(Len(p) + 1) : i \notin 1..Len(p) => i = Len(p) + 1
  BY <1>1, AppendAt
<1>3. v.read_pending_frames = q
  BY <1>1 DEF Session
<1>0. \A x \in StreamId : InPath(s, x) = s.chan[x] \o p
  BY DEF InPath
<1> HIDE DEF p, q, v
<1>4. PICK g : /\ g[0] = Undistributed(v)
               /\ \A n \in 1..Len(q) : g[n] = Distribute(g[n - 1], e, q[n])
               /\ r = g[Len(q)].s
  <2>1. Len(v.read_pending_frames) \in Nat
    BY <1>1, <1>2, <1>3
  <2>2. PICK g : /\ g[0] = Undistributed(v)
                 /\ \A n \in 1..Len(v.read_pending_frames) :
                       g[n] = Distribute(g[n - 1], e, v.read_pending_frames[n])
                 /\ distribute_to_substream(v, e) = g[Len(v.read_pending_frames)].s
    BY <2>1, LoopIs
  <2> QED BY <1>3, <2>2
<1> DEFINE a == g[Len(p)]
           t == a.s
<1>5. LoopOK(a, s) /\ LoopFlow(a, s, p)
  <2>1. Len(p) \in 0..Len(q) /\ \A n \in 1..Len(p) : q[n] \in QueuedFrame
    BY <1>1, <1>2
  <2>2. LoopOK(a, s)
    BY <1>2, <1>4, <2>1, LoopGoesOn DEF v
  <2>3. LoopFlow(a, s, SubSeq(q, 1, Len(p)))
    BY <1>2, <1>4, <2>1, LoopFlows DEF v
  <2>4. SubSeq(q, 1, Len(p)) = p
    <3> DEFINE c == SubSeq(q, 1, Len(p))
    <3>1. 1 \in 1..(Len(q) + 1) /\ Len(p) - 1 + 1 = Len(p) /\ 1 <= Len(p) + 1
          /\ \A i \in Nat : 1 + i - 1 = i
      BY <1>1, <1>2
    <3>2. /\ c \in Seq(Frame) /\ Len(c) = Len(p) - 1 + 1
          /\ \A i \in 1..(Len(p) - 1 + 1) : 1 + i - 1 \in 1..Len(q) /\ c[i] = q[1 + i - 1]
      BY <1>2, <2>1, <3>1, PartAt
    <3> HIDE DEF c
    <3>3. Len(c) = Len(p) /\ \A i \in 1..Len(p) : c[i] = p[i]
      BY <1>2, <3>1, <3>2
    <3>4. c = p
      BY <1>1, <3>2, <3>3, SameSeq
    <3> QED BY <3>4 DEF c
  <2> QED BY <2>2, <2>3, <2>4
<1>6. r = Distribute(a, e, f).s
  <2>1. Len(q) \in 1..Len(q) /\ Len(q) - 1 = Len(p)
    BY <1>1, <1>2
  <2> QED BY <1>2, <1>4, <2>1
<1> HIDE DEF r, a
<1>7. t.h = s.h /\ t.life = s.life /\ OutPath(t) = OutPath(s) /\ Mild(t, s)
  BY <1>5, MilderOut DEF LoopOK, Milder
<1>8. GoodSession(t, e)
  BY <1>7, MildKeeps
<1>9. /\ t.failed = s.failed
      /\ \A x \in StreamId : /\ Thinner(InPath(t, x), InPath(s, x), x)
                             /\ x \notin a.blocked => Has(t.read_pending_frames, x) = {}
                             /\ ChanOK(s, x) => ChanOK(t, x)
  BY <1>0, <1>5 DEF LoopFlow
<1>10. FlowGood(t)
  <2>1. \A x \in StreamId : Thinner(OutPath(t), OutPath(s), x)
    BY <1>7, ThinnerRefl
  <2> QED BY <1>7, <1>9, <2>1, GoodAlong
<1>11. FrameIn(r, t, f)
  <2>0. f.stream_id \in StreamId /\ f \in SessionFrame
    BY DEF StreamFrame, Frame, SessionFrame
  <2>1. CASE "Syn" \in f.flags
    BY <1>5, <1>6, <1>8, <1>9, <1>10, <2>0, <2>1, SynTurnFlows
  <2>2. CASE "Syn" \notin f.flags
    <3>1. f \in QueuedFrame
      BY <2>2 DEF QueuedFrame
    <3> DEFINE b == Distribute(a, e, f)
    <3>2. \A x \in StreamId : TurnFlow(b, a, f, x)
      BY <1>5, <1>9, <3>1, TurnFlows
    <3>3. LoopOK(b, s)
      BY <1>5, <3>1, TurnOK
    <3>4. r = b.s
      BY <1>6
    <3> HIDE DEF b
    <3>5. r.h = s.h /\ r.life = s.life /\ OutPath(r) = OutPath(s)
      BY <3>3, <3>4, MilderOut DEF LoopOK
    <3>6. r.failed = t.failed
      BY <2>0, <3>2, <3>4 DEF TurnFlow
    <3>7. \A x \in StreamId : /\ Thinner(InPath(r, x), InPath(t, x) \o <<f>>, x)
                              /\ ChanOK(t, x) => ChanOK(r, x)
                              /\ Thinner(OutPath(r), OutPath(t), x)
      BY <1>7, <3>2, <3>4, <3>5, ThinnerRefl DEF TurnFlow
    <3>8. FlowGood(r)
      BY <1>7, <1>10, <3>5, <3>7, GoodAlong
    <3>9. \A x \in StreamId : Sends(r, t, x)
      BY <1>7, <1>8, <3>5, <3>7, SendsNothing
    <3> QED BY <3>6, <3>7, <3>8, <3>9 DEF FrameIn
  <2> QED BY <2>1, <2>2
<1>12. ASSUME NEW x \in StreamId
       PROVE  Sends(r, s, x) /\ Thinner(InPath(r, x), InPath(s, x) \o <<f>>, x)
  <2>1. Sends(r, s, x)
    BY <1>7, <1>11 DEF FrameIn, Sends
  <2>2. /\ InPath(s, x) \in Seq(SessionFrame) /\ InPath(t, x) \in Seq(SessionFrame)
        /\ <<f>> \in Seq(SessionFrame)
    BY <1>8, PathTypes, OneFrame DEF StreamFrame, Frame, SessionFrame
  <2>3. Thinner(InPath(t, x) \o <<f>>, InPath(s, x) \o <<f>>, x)
    BY <1>9, <2>2, ThinnerRefl, ThinnerConcat
  <2> QED BY <1>11, <2>1, <2>3, ThinnerTrans DEF FrameIn
<1>13. FrameIn(r, s, f)
  BY <1>9, <1>11, <1>12 DEF FrameIn
<1> QED BY <1>13 DEF r, v, q, p

\* handle_ping, handle_go_away, shutdown and keep_alive.
LEMMA PingCarries ==
    ASSUME NEW e \in Side, NEW s, GoodSession(s, e), NEW f \in WireFrame
    PROVE  Carries(handle_ping(s, f), s)
<1>1. s \in Session /\ f.length \in Nat
  BY PathTypes DEF WireFrame, SessionFrame
<1>2. CASE "Syn" \in f.flags
  <2>1. handle_ping(s, f) = send_frame(s, new_ping({"Ack"}, f.length))
    BY <1>2 DEF handle_ping
  <2> QED BY <1>1, <2>1, SendingCarries
<1>3. CASE "Syn" \notin f.flags
  <2> DEFINE P == {id \in s.pings : id > f.length}
             t == [s EXCEPT !.pings = P]
  <2>1. handle_ping(s, f) = t
    BY <1>3 DEF handle_ping
  <2> HIDE DEF P
  <2>2. t.failed = s.failed /\ SameStreams(t, s) /\ SameInput(t, s) /\ SameWire(t, s)
    BY <1>1 DEF Session, SameStreams, SameInput, SameWire
  <2> HIDE DEF t
  <2> QED BY <2>1, <2>2, ControlCarries
<1> QED BY <1>2, <1>3

LEMMA PeerGoAwayCarries ==
    ASSUME NEW e \in Side, NEW s, GoodSession(s, e)
    PROVE  Carries(handle_go_away(s), s)
<1> DEFINE w == Rewired(s, s.out, <<>>)
           u == [w EXCEPT !.remote_go_away = TRUE]
           v == send_go_away_with_code(u, 0)
<1>1. s \in Session /\ s.out \in Seq(WireFrame) /\ <<>> \in Seq(WireFrame)
      /\ s.out \in Seq(SessionFrame) /\ s.write_pending_frames \in Seq(SessionFrame)
      /\ Len(s.out) <= SinkCap
  BY OneFrame, PathTypes, WireTyped DEF WireOK
<1>2. /\ w \in Session /\ w.out = s.out /\ w.write_pending_frames = <<>>
      /\ SameStreams(w, s) /\ SameInput(w, s) /\ SameControl(w, s)
  BY <1>1, WithWire, ZenonT(60)
<1>3. w.failed = s.failed
  BY <1>1 DEF Rewired, Session
<1>4. [s EXCEPT !.remote_go_away = TRUE, !.write_pending_frames = <<>>] = u
  BY <1>1 DEF Rewired, Session
<1>5. handle_go_away(s) = IF s.local_go_away THEN u ELSE v
  BY <1>4 DEF handle_go_away
<1> HIDE DEF w
<1>6. /\ u \in Session /\ u.failed = w.failed
      /\ SameStreams(u, w) /\ SameInput(u, w) /\ SameWire(u, w)
  BY <1>2 DEF Session, SameStreams, SameInput, SameWire
<1> HIDE DEF u
<1>7. SameStreams(u, s) /\ SameInput(u, s) /\ WireOK(u) /\ Wire(u) = s.out
  <2>1. s.out \o <<>> = s.out
    BY <1>1, ConcatEmptySeq
  <2> QED BY <1>1, <1>2, <1>6, <2>1 DEF SameStreams, SameInput, SameWire, WireOK, Wire
<1>8. \A x : Thinner(Wire(u), Wire(s), x)
  BY <1>1, <1>7, ThinnerParts DEF Wire
<1>9. Carries(u, s)
  BY <1>3, <1>6, <1>7, <1>8, WireCarries
<1>10. GoneAway(v, u) /\ \A x : v.failed = u.failed /\ Thinner(Wire(v), Wire(u), x)
  BY <1>6, <1>7, GoAwaySent, GoAwayFlows
<1> HIDE DEF v
<1>11. \A x : Thinner(Wire(v), Wire(s), x)
  BY <1>8, <1>10, ThinnerTrans
<1>12. SameStreams(v, s) /\ SameInput(v, s) /\ WireOK(v) /\ v.failed = s.failed
  BY <1>3, <1>6, <1>7, <1>10 DEF GoneAway, SameStreams, SameInput
<1>13. Carries(v, s)
  BY <1>11, <1>12, WireCarries
<1> QED BY <1>5, <1>9, <1>13

LEMMA ShutdownCarries ==
    ASSUME NEW e \in Side, NEW s, GoodSession(s, e)
    PROVE  Carries(shutdown(s), s)
<1>1. Carries(s, s)
  BY ThinnerRefl DEF Carries
<1> QED BY <1>1, SendingCarries DEF shutdown

LEMMA PingedCarries ==
    ASSUME NEW e \in Side, NEW s, GoodSession(s, e), NEW n \in Nat
    PROVE  Carries(Pinged(s, n), s)
<1> DEFINE f == new_ping({"Syn"}, n)
           v == send_frame(s, f)
           P == s.pings \cup {n}
           t == [v EXCEPT !.ping_id = n, !.pings = P]
<1>1. f \in WireFrame /\ ~IsSyn(f)
  BY ControlFrames
<1>2. Carries(v, s)
  BY SendingCarries
<1> HIDE DEF f
<1>3. Mild(v, s)
  BY <1>1, SendKeeps
<1> HIDE DEF v, P
<1>4. GoodSession(v, e) /\ v \in Session
  BY <1>3, MildKeeps DEF Mild
<1>5. t.failed = v.failed /\ SameStreams(t, v) /\ SameInput(t, v) /\ SameWire(t, v)
  BY <1>4 DEF Session, SameStreams, SameInput, SameWire
<1>6. Pinged(s, n) = t
  BY DEF Pinged, t, v, f, P
<1> HIDE DEF t
<1>7. Carries(t, v)
  BY <1>4, <1>5, ControlCarries
<1> QED BY <1>2, <1>6, <1>7, CarriesTrans

\* The owner gets a stream, the socket ends, the timeout after GoAway.
LEMMA ClockCarries ==
    ASSUME NEW e \in Side, NEW s, GoodSession(s, e)
    PROVE  /\ s.pending_streams # <<>> => Carries([s EXCEPT !.pending_streams = Tail(@)], s)
           /\ Carries([s EXCEPT !.eof = TRUE], s)
           /\ Carries([s EXCEPT !.remote_go_away = TRUE], s)
<1>1. s \in Session
  BY PathTypes
<1>2. Carries([s EXCEPT !.pending_streams = Tail(@)], s)
  <2> DEFINE t == [s EXCEPT !.pending_streams = Tail(@)]
  <2>1. t.failed = s.failed /\ SameStreams(t, s) /\ SameInput(t, s) /\ SameWire(t, s)
    BY <1>1 DEF Session, SameStreams, SameInput, SameWire
  <2> HIDE DEF t
  <2>2. Carries(t, s)
    BY <2>1, ControlCarries
  <2> QED BY <2>2 DEF t
<1>3. Carries([s EXCEPT !.eof = TRUE], s)
  <2> DEFINE t == [s EXCEPT !.eof = TRUE]
  <2>1. t.failed = s.failed /\ SameStreams(t, s) /\ SameInput(t, s) /\ SameWire(t, s)
    BY <1>1 DEF Session, SameStreams, SameInput, SameWire
  <2> HIDE DEF t
  <2>2. Carries(t, s)
    BY <2>1, ControlCarries
  <2> QED BY <2>2 DEF t
<1>4. Carries([s EXCEPT !.remote_go_away = TRUE], s)
  <2> DEFINE t == [s EXCEPT !.remote_go_away = TRUE]
  <2>1. t.failed = s.failed /\ SameStreams(t, s) /\ SameInput(t, s) /\ SameWire(t, s)
    BY <1>1 DEF Session, SameStreams, SameInput, SameWire
  <2> HIDE DEF t
  <2>2. Carries(t, s)
    BY <2>1, ControlCarries
  <2> QED BY <2>2 DEF t
<1> QED BY <1>2, <1>3, <1>4

\* The session takes the first of its events ...
LEMMA TakenCarries ==
    ASSUME NEW e \in Side, NEW s, GoodSession(s, e), s.events # <<>>
    PROVE  LET u == [s EXCEPT !.events = Tail(@)] IN
           /\ u \in Session /\ GoodSession(u, e) /\ Carries(u, s)
           /\ Head(s.events) \in HandleEvent
           /\ \E f \in SessionFrame :
                /\ OutPath(s) = (Wire(u) \o <<f>>) \o FramesOf(u.events)
                /\ Head(s.events).kind = "Frame" => f = Head(s.events).frame
<1> DEFINE q == Tail(s.events)
           u == [s EXCEPT !.events = q]
           W == Wire(s)
           E == FramesOf(q)
<1>1. s \in Session /\ s.events \in Seq(HandleEvent) /\ W \in Seq(SessionFrame)
  BY PathTypes
<1>2. /\ Head(s.events) \in HandleEvent /\ q \in Seq(HandleEvent) /\ E \in Seq(SessionFrame)
      /\ \E f \in SessionFrame :
           /\ FramesOf(s.events) = <<f>> \o E
           /\ Head(s.events).kind = "Frame" => f = Head(s.events).frame
  BY <1>1, FramesFirst
<1>3. PICK f \in SessionFrame :
           /\ FramesOf(s.events) = <<f>> \o E
           /\ Head(s.events).kind = "Frame" => f = Head(s.events).frame
  BY <1>2
<1>4. GoodSession(u, e) /\ Wire(u) = W
  BY EventTaken
<1> HIDE DEF q, W
<1>5. /\ u.events = q /\ u.failed = s.failed /\ u.h = s.h /\ u.life = s.life
      /\ u.chan = s.chan /\ u.read_pending_frames = s.read_pending_frames
  BY <1>1 DEF Session
<1> HIDE DEF u, E
<1>6. <<f>> \in Seq(SessionFrame)
  BY OneFrame
<1>7. OutPath(s) = (W \o <<f>>) \o E /\ OutPath(u) = W \o E
  <2>1. OutPath(s) = W \o (<<f>> \o E)
    BY <1>3 DEF OutPath, W
  <2>2. (W \o <<f>>) \o E = W \o (<<f>> \o E)
    BY <1>1, <1>2, <1>6, RegroupFrames
  <2>3. OutPath(u) = W \o E
    BY <1>4, <1>5 DEF OutPath, E
  <2> QED BY <2>1, <2>2, <2>3
<1>8. ASSUME NEW x PROVE Thinner(OutPath(u), OutPath(s), x)
  <2>1. Thinner(W, W \o <<f>>, x) /\ W \o <<f>> \in Seq(SessionFrame)
    BY <1>1, <1>6, ThinnerParts, RegroupFrames
  <2>2. Thinner(W \o E, (W \o <<f>>) \o E, x)
    BY <1>1, <1>2, <2>1, ThinnerRefl, ThinnerConcat
  <2> QED BY <1>7, <2>2
<1>9. Carries(u, s)
  BY <1>5, <1>8, ThinnerRefl DEF Carries, InPath, ChanOK
<1>10. u \in Session
  BY <1>4, PathTypes
<1> QED BY <1>2, <1>3, <1>4, <1>5, <1>7, <1>9, <1>10 DEF u, q, E

\* ... and handles it.
LEMMA EventCarries ==
    ASSUME NEW e \in Side, NEW s, GoodSession(s, e), s.events # <<>>
    PROVE  Carries(handle_event([s EXCEPT !.events = Tail(@)], Head(s.events)), s)
<1> DEFINE u == [s EXCEPT !.events = Tail(@)]
           v == Head(s.events)
<1>1. u \in Session /\ GoodSession(u, e) /\ Carries(u, s) /\ v \in HandleEvent
  BY TakenCarries
<1>2. PICK f \in SessionFrame :
        /\ OutPath(s) = (Wire(u) \o <<f>>) \o FramesOf(u.events)
        /\ v.kind = "Frame" => f = v.frame
  BY TakenCarries
<1> HIDE DEF u, v
<1>3. CASE v.kind = "Frame"
  <2> DEFINE t == send_frame(u, f)
  <2>1. handle_event(u, v) = t
    BY <1>2, <1>3 DEF handle_event
  <2>2. f \in WireFrame
    BY <1>1, <1>2, <1>3 DEF HandleEvent, StreamFrame, WireFrame, Frame
  <2>3. WireOK(u) /\ Wire(u) \in Seq(SessionFrame) /\ FramesOf(u.events) \in Seq(SessionFrame)
        /\ <<f>> \in Seq(SessionFrame)
    BY <1>1, PathTypes, OneFrame
  <2>4. Sent(t, u, Append(Wire(u), f))
    BY <1>1, <2>2, <2>3, SendFrameSent
  <2>5. \A x : t.failed = u.failed /\ Thinner(Wire(t), Wire(u) \o <<f>>, x)
               /\ Wire(t) \in Seq(SessionFrame)
    BY <1>1, <2>2, <2>3, SendFrameFlows
  <2> HIDE DEF t
  <2>6. t.h = u.h /\ t.life = u.life /\ t.events = u.events /\ t.chan = u.chan
        /\ t.read_pending_frames = u.read_pending_frames
    BY <2>4 DEF Sent, SameStreams, SameInput
  <2>7. Wire(u) \o <<f>> \in Seq(SessionFrame)
    BY <2>3, RegroupFrames
  <2>8. ASSUME NEW x PROVE Thinner(OutPath(t), OutPath(s), x)
    <3>1. Thinner(Wire(t) \o FramesOf(u.events), (Wire(u) \o <<f>>) \o FramesOf(u.events), x)
      BY <2>3, <2>5, <2>7, ThinnerRefl, ThinnerConcat
    <3> QED BY <1>2, <2>6, <3>1 DEF OutPath
  <2>9. Carries(t, s)
    BY <1>1, <2>5, <2>6, <2>8 DEF Carries, InPath, ChanOK
  <2> QED BY <2>1, <2>9 DEF u, v
<1>4. CASE v.kind = "Closed"
  <2> DEFINE S == u.streams \ {v.id}
             t == [u EXCEPT !.streams = S]
  <2>1. handle_event(u, v) = t
    BY <1>4 DEF handle_event
  <2> HIDE DEF S
  <2>2. /\ t.failed = u.failed /\ t.h = u.h /\ t.life = u.life /\ t.events = u.events
        /\ t.chan = u.chan /\ t.read_pending_frames = u.read_pending_frames
        /\ t.out = u.out /\ t.write_pending_frames = u.write_pending_frames
    BY <1>1 DEF Session
  <2> HIDE DEF t
  <2>3. OutPath(t) = OutPath(u)
    BY <2>2 DEF OutPath, Wire
  <2>4. Carries(t, s)
    BY <1>1, <2>2, <2>3 DEF Carries, InPath, ChanOK
  <2> QED BY <2>1, <2>4 DEF u, v
<1>5. CASE v.kind = "GoAway"
  <2>1. handle_event(u, v) = send_go_away_with_code(u, 1)
    BY <1>5 DEF handle_event
  <2>2. Carries(send_go_away_with_code(u, 1), u)
    BY <1>1, SendingCarries
  <2>3. Carries(handle_event(u, v), s)
    BY <1>1, <2>1, <2>2, CarriesTrans
  <2> QED BY <2>3 DEF u, v
<1>6. v.kind \in {"Frame", "Closed", "GoAway"}
  BY <1>1 DEF HandleEvent, StreamEvent
<1> QED BY <1>3, <1>4, <1>5, <1>6

\* The session is dropped.
LEMMA DropCarries ==
    ASSUME NEW e \in Side, NEW s, GoodSession(s, e), NEW i \in 0..Len(s.out)
    PROVE  Carries(Dropped(s, i), s)
<1> DEFINE o == SubSeq(s.out, 1, i)
           t == [s EXCEPT !.ended = TRUE, !.streams = {}, !.events = <<>>,
                          !.write_pending_frames = <<>>, !.read_pending_frames = <<>>,
                          !.pings = {}, !.out = o]
           E == FramesOf(<<>>)
<1>1. /\ s \in Session /\ s.out \in Seq(SessionFrame) /\ s.write_pending_frames \in Seq(SessionFrame)
      /\ Wire(s) \in Seq(SessionFrame) /\ FramesOf(s.events) \in Seq(SessionFrame)
      /\ \A x \in StreamId : s.chan[x] \in Seq(SessionFrame)
      /\ s.read_pending_frames \in Seq(SessionFrame)
  BY PathTypes, WireTyped
<1>2. o \in Seq(SessionFrame) /\ \A x : Thinner(o, s.out, x)
  BY <1>1, ThinnerCut
<1>3. Dropped(s, i) = t
  BY DEF Dropped
<1> HIDE DEF o
<1>4. /\ t.events = <<>> /\ t.out = o /\ t.failed = s.failed
      /\ t.write_pending_frames = <<>> /\ t.read_pending_frames = <<>>
      /\ t.h = s.h /\ t.life = s.life /\ t.chan = s.chan
  BY <1>1 DEF Session
<1> HIDE DEF t
<1>5. E \in Seq(SessionFrame) /\ Len(E) = 0
  <2>1. <<>> \in Seq(HandleEvent) /\ Len(<<>>) = 0
    BY OneFrame
  <2> QED BY <2>1, FramesTyped
<1>6. E = <<>>
  BY <1>5, EmptySeq
<1>7. Wire(t) = o /\ OutPath(t) = o
  <2>1. o \o <<>> = o
    BY <1>2, ConcatEmptySeq
  <2> QED BY <1>4, <1>6, <2>1 DEF Wire, OutPath
<1>8. ASSUME NEW x \in StreamId
      PROVE  /\ Thinner(OutPath(t), OutPath(s), x) /\ Thinner(InPath(t, x), InPath(s, x), x)
             /\ ChanOK(s, x) => ChanOK(t, x)
  <2>1. Thinner(s.out, Wire(s), x)
    BY <1>1, ThinnerParts DEF Wire
  <2>2. Thinner(Wire(s), OutPath(s), x)
    BY <1>1, ThinnerParts DEF OutPath
  <2>3. Thinner(OutPath(t), OutPath(s), x)
    BY <1>2, <1>7, <2>1, <2>2, ThinnerTrans
  <2>4. InPath(t, x) = s.chan[x]
    BY <1>1, <1>4, ConcatEmptySeq DEF InPath
  <2>5. Thinner(InPath(t, x), InPath(s, x), x)
    BY <1>1, <2>4, ThinnerParts DEF InPath
  <2> QED BY <1>4, <2>3, <2>5 DEF ChanOK
<1> QED BY <1>3, <1>4, <1>8 DEF Carries

\* open_stream.
LEMMA OpenFlows ==
    ASSUME NEW e \in Side, NEW s, GoodSession(s, e), FlowGood(s), CanOpen(s)
    PROVE  FlowKept(open_stream(s, e), s)
<1> DEFINE id == s.next_stream_id
           n == id + 2
           u == [s EXCEPT !.next_stream_id = n]
           t == create_stream(u, e, id, "Init")
<1>1. s \in Session /\ SessionOK(s, e) /\ id \in Nat /\ Opener(id) = e /\ id > 0 /\ MaxStreamId \in Nat
  BY IdIsNat DEF GoodSession, SessionOK, Session
<1>2. id \in StreamId
  BY <1>1 DEF CanOpen, Exhausted, StreamId
<1>3. s.life[id] = "none" /\ id \notin s.streams
  BY <1>1, <1>2 DEF GoodSession, StreamOK, NoneOK
<1>4. open_stream(s, e) = t
  BY <1>3 DEF open_stream
<1>5. n \in Nat
  BY <1>1
<1> HIDE DEF n
<1>6. /\ u \in Session /\ u.h = s.h /\ u.life = s.life /\ u.events = s.events
      /\ u.failed = s.failed /\ u.chan = s.chan
      /\ u.read_pending_frames = s.read_pending_frames /\ SameWire(u, s)
  BY <1>1, <1>5 DEF Session, SameWire
<1> HIDE DEF id, u
<1>7. /\ t.failed = s.failed /\ t.chan = s.chan
      /\ t.read_pending_frames = s.read_pending_frames
      /\ \A x \in StreamId : Sends(t, s, x) /\ Pristine(t, x)
  BY <1>2, <1>3, <1>6, CreateFlows
<1> HIDE DEF t
<1>8. \A x \in StreamId : InPath(t, x) = InPath(s, x) /\ ChanOK(t, x)
  BY <1>7 DEF InPath, ChanOK, FlowGood
<1> QED BY <1>4, <1>7, <1>8, ThinnerRefl DEF FlowKept, FlowGood

\* The calls of a stream's owner that take nothing from its channel: they leave it
\* alone, or drop it.
LEMMA TameCallFlows ==
    ASSUME NEW e \in Side, NEW s, GoodSession(s, e), FlowGood(s), NEW id \in StreamId,
           NEW u, Touches(u, s, id), u.failed = s.failed, u.life[id] # "none",
           u.chan[id] = s.chan[id] \/ u.chan[id] = <<>>,
           NEW o, OutcomeOK(o, s.h[id], e, id), Tame(o, s.h[id])
    PROVE  FlowKept(WithHandle(u, id, o), s)
<1> DEFINE t == WithHandle(u, id, o)
           p == s.read_pending_frames
<1>1. CallOn(u, s, id, o)
  <2>1. QueuedFrame \subseteq StreamFrame
    BY DEF QueuedFrame
  <2>2. o.frames \in Seq(StreamFrame)
    BY <2>1, SeqMonotonic DEF OutcomeOK
  <2>3. o.h \in StreamHandle /\ o.h.id = id /\ o.event \in {"None", "Closed", "GoAway"}
    BY DEF OutcomeOK, HandleOK
  <2>4. /\ u \in Session /\ u.h = s.h /\ u.events = s.events /\ SameWire(u, s)
        /\ u.read_pending_frames = s.read_pending_frames
        /\ \A x \in StreamId : x # id => u.life[x] = s.life[x]
    BY DEF Touches
  <2> QED BY <2>2, <2>3, <2>4 DEF CallOn
<1>2. /\ t.failed = s.failed /\ t.chan = u.chan /\ t.read_pending_frames = p
      /\ \A x \in StreamId : Sends(t, s, x) /\ Pristine(t, x)
  BY <1>1, CallFlows
<1> HIDE DEF t
<1>3. ASSUME NEW x \in StreamId PROVE ChanOK(t, x) /\ Thinner(InPath(t, x), InPath(s, x), x)
  <2>1. ChanOK(s, x) /\ s.chan[x] \in Seq(SessionFrame) /\ p \in Seq(SessionFrame)
    BY PathTypes DEF FlowGood
  <2>2. CASE t.chan[x] = s.chan[x]
    <3>1. InPath(t, x) = InPath(s, x)
      BY <1>2, <2>2 DEF InPath
    <3> QED BY <2>1, <2>2, <3>1, ThinnerRefl DEF ChanOK
  <2>3. CASE t.chan[x] = <<>>
    <3>1. InPath(t, x) = p
      BY <1>2, <2>1, <2>3, ConcatEmptySeq DEF InPath
    <3>2. Thinner(p, s.chan[x] \o p, x)
      BY <2>1, ThinnerParts
    <3>3. ChanOK(t, x)
      BY <2>3 DEF ChanOK
    <3> QED BY <3>1, <3>2, <3>3 DEF InPath
  <2>4. t.chan[x] = s.chan[x] \/ t.chan[x] = <<>>
    BY <1>2 DEF Touches
  <2> QED BY <2>2, <2>3, <2>4
<1>4. FlowGood(t)
  BY <1>2, <1>3 DEF FlowGood
<1>5. FlowKept(t, s)
  BY <1>2, <1>3, <1>4 DEF FlowKept
<1> QED BY <1>5 DEF t

\* What the calls that leave channel and life alone do.
LEMMA DoesFlows ==
    ASSUME NEW e \in Side, NEW s, GoodSession(s, e), FlowGood(s), NEW id \in StreamId,
           s.life[id] = "live", NEW o, OutcomeOK(o, s.h[id], e, id), Tame(o, s.h[id])
    PROVE  FlowKept(WithHandle(s, id, o), s)
<1>1. s \in Session
  BY DEF GoodSession, SessionOK
<1>2. Touches(s, s, id)
  BY <1>1, TouchesBy
<1> QED BY <1>2, TameCallFlows

\* A step of side e alone that keeps the flow.
Flows(e) == \E t : Becomes(e, t) /\ FlowKept(t, node[e])

\* The calls of the handles, but for the one that takes a frame.
LEMMA HandleFlows ==
    ASSUME StreamsInv, NEW e \in Side, FlowGood(node[e]), NEW id \in StreamId, HandleStep(e, id),
           ~HandleRecvFrame(e, id)
    PROVE  Flows(e)
<1> DEFINE s == node[e]
           g == s.h[id]
<1>1. GoodSession(s, e) /\ s \in Session
  BY DEF StreamsInv, GoodSession, SessionOK
<1>2. s.life[id] = "live"
  BY DEF HandleStep, HandleRecvFrame, HandleRecvEnd, Read, Write, WriteBroken, WritePending,
         Shutdown, DropHandle, Owned
<1>3. HandleOK(g, e, id) /\ g.state # "Init" /\ g \in StreamHandle
  BY <1>1, <1>2 DEF GoodSession, StreamOK, LiveOK, HandleOK
<1>4. ASSUME NEW o, Does(e, id, o), OutcomeOK(o, g, e, id), Tame(o, g) PROVE Flows(e)
  BY <1>1, <1>2, <1>4, DoesFlows DEF Flows, Does
<1>5. CASE HandleRecvEnd(e, id)
  <2>1. Does(e, id, Disconnected(g))
    BY <1>5 DEF HandleRecvEnd
  <2>2. OutcomeOK(Disconnected(g), g, e, id)
    BY <1>3, QuietOutcomes
  <2>3. Tame(Disconnected(g), g)
    BY <1>3, TameQuiet
  <2> QED BY <1>4, <2>1, <2>2, <2>3
<1>6. ASSUME NEW n \in 1..g.read_buf, Read(e, id, n) PROVE Flows(e)
  <2>1. n \in 0..g.read_buf
    BY <1>3 DEF StreamHandle
  <2>2. OutcomeOK(poll_read(g, n), g, e, id)
    BY <1>3, <2>1, QuietOutcomes
  <2>3. Tame(poll_read(g, n), g)
    BY <1>3, <2>1, TameQuiet
  <2>4. Does(e, id, poll_read(g, n))
    BY <1>6 DEF Read
  <2> QED BY <1>4, <2>2, <2>3, <2>4
<1>7. ASSUME NEW w \in 1..MaxWrite, Write(e, id, w) PROVE Flows(e)
  <2> DEFINE n == Min({g.send_window, w})
  <2>1. g.send_window \in Nat /\ w \in Nat /\ w \in Int
    BY <1>3, SessionAssumption DEF StreamHandle
  <2>2. n \in 0..g.send_window
    <3>1. n = IF g.send_window <= w THEN g.send_window ELSE w
      BY <2>1, MinOfTwo
    <3> HIDE DEF n
    <3> QED BY <2>1, <3>1
  <2>3. Does(e, id, poll_write(g, n))
    BY <1>7 DEF Write
  <2> HIDE DEF n
  <2>4. OutcomeOK(poll_write(g, n), g, e, id)
    BY <1>3, <2>2, WriteOutcome
  <2>5. Tame(poll_write(g, n), g)
    BY <1>3, <2>2, TameWrite
  <2> QED BY <1>4, <2>3, <2>4, <2>5
<1>8. CASE WriteBroken(e, id)
  <2>1. Does(e, id, PollWriteBroken(g))
    BY <1>8 DEF WriteBroken
  <2>2. OutcomeOK(PollWriteBroken(g), g, e, id)
    BY <1>3, QuietOutcomes
  <2>3. Tame(PollWriteBroken(g), g)
    BY <1>3, TameQuiet
  <2> QED BY <1>4, <2>1, <2>2, <2>3
<1>9. CASE WritePending(e, id)
  <2>1. Does(e, id, PollWritePending(g))
    BY <1>9 DEF WritePending
  <2>2. OutcomeOK(PollWritePending(g), g, e, id)
    BY <1>3, QuietOutcomes
  <2>3. Tame(PollWritePending(g), g)
    BY <1>3, TameQuiet
  <2> QED BY <1>4, <2>1, <2>2, <2>3
<1>10. CASE Shutdown(e, id)
  <2>1. Does(e, id, close(g))
    BY <1>10 DEF Shutdown
  <2>2. OutcomeOK(close(g), g, e, id)
    BY <1>3, CloseOutcome
  <2>3. Tame(close(g), g)
    BY <1>3, TameEnds
  <2> QED BY <1>4, <2>1, <2>2, <2>3
<1>11. CASE DropHandle(e, id)
  <2> DEFINE u == [s EXCEPT !.life[id] = "gone", !.chan[id] = <<>>]
             o == IF s.ended THEN Outcome(g, <<>>, "None") ELSE drop(g)
  <2>1. Touches(u, s, id) /\ u.life[id] = "gone"
    BY <1>1, <1>2, TouchesBy
  <2>2. u.failed = s.failed /\ u.chan[id] = <<>>
    BY <1>1 DEF Session
  <2>3. OutcomeOK(o, g, e, id)
    BY <1>3, DropOutcome
  <2>4. Tame(o, g)
    BY <1>3, TameQuiet, TameEnds
  <2>5. Becomes(e, WithHandle(u, id, o))
    BY <1>11 DEF DropHandle
  <2> HIDE DEF u, o
  <2>6. FlowKept(WithHandle(u, id, o), s)
    BY <1>1, <2>1, <2>2, <2>3, <2>4, TameCallFlows
  <2> QED BY <2>5, <2>6 DEF Flows
<1> QED BY <1>5, <1>6, <1>7, <1>8, <1>9, <1>10, <1>11 DEF HandleStep

\* The steps of a session that do not read the socket.
LEMMA SessionFlows ==
    ASSUME StreamsInv, NEW e \in Side, FlowGood(node[e]), SessionStep(e), ~RecvFrame(e)
    PROVE  Flows(e)
<1> DEFINE s == node[e]
<1>1. GoodSession(s, e) /\ s \in Session
  BY DEF StreamsInv, GoodSession, SessionOK
<1>2. ASSUME NEW t, Becomes(e, t), Carries(t, s) PROVE Flows(e)
  BY <1>1, <1>2, CarriesKept DEF Flows
<1>3. CASE Flush(e)
  BY <1>1, <1>2, <1>3, FlushCarries DEF Flush
<1>4. CASE AcceptStream(e)
  BY <1>1, <1>2, <1>4, ClockCarries DEF AcceptStream
<1>5. CASE RecvEof(e)
  BY <1>1, <1>2, <1>5, ClockCarries DEF RecvEof
<1>6. CASE RecvEvent(e)
  BY <1>1, <1>2, <1>6, EventCarries DEF RecvEvent
<1>7. CASE OpenStream(e)
  BY <1>1, <1>7, OpenFlows DEF Flows, OpenStream
<1>8. CASE ShutdownSession(e)
  BY <1>1, <1>2, <1>8, ShutdownCarries DEF ShutdownSession
<1>9. CASE GoAway(e)
  <2>1. Becomes(e, send_go_away_with_code(s, 0))
    BY <1>9 DEF GoAway
  <2>2. Carries(send_go_away_with_code(s, 0), s)
    BY <1>1, SendingCarries
  <2> QED BY <1>2, <2>1, <2>2
<1>10. CASE keep_alive(e)
  <2> DEFINE n == s.ping_id + 1
  <2>1. n \in Nat /\ Becomes(e, Pinged(s, n))
    BY <1>10, KeepAliveIs
  <2> HIDE DEF n
  <2> QED BY <1>1, <1>2, <2>1, PingedCarries
<1>11. CASE GoAwayTimeout(e)
  BY <1>1, <1>2, <1>11, ClockCarries DEF GoAwayTimeout
<1>12. CASE PingTimeout(e) \/ IoError(e) \/ PollEnd(e)
  <2>1. PICK i \in 0..Len(s.out) : Becomes(e, Dropped(s, i))
    BY <1>12 DEF PingTimeout, IoError, PollEnd, Over
  <2> QED BY <1>1, <1>2, <2>1, DropCarries
<1> QED BY <1>3, <1>4, <1>5, <1>6, <1>7, <1>8, <1>9, <1>10, <1>11, <1>12 DEF SessionStep

\* The frames from s to r follow each other.
Linked(s, r, id) == FlowOK(OnItsWay(s, r, id), id, s.h[id], r.h[id])

LEMMA PathIs ==
    ASSUME NEW s, NEW r, NEW id
    PROVE  OnItsWay(s, r, id) = InPath(r, id) \o OutPath(s)
BY DEF OnItsWay, InPath, OutPath, Wire

\* After a step that left t of s, and w of its peer r.
LEMMA LinkedStep ==
    ASSUME NEW e \in Side, NEW s, NEW t, NEW r, NEW w,
           GoodSession(s, e), GoodSession(t, e), GoodSession(r, Peer(e)), GoodSession(w, Peer(e)),
           NEW id \in StreamId, w.h[id] = r.h[id], InPath(w, id) = InPath(r, id), Sends(t, s, id),
           Thinner(InPath(t, id) \o OutPath(w), InPath(s, id) \o OutPath(r), id),
           Linked(s, r, id), Linked(r, s, id)
    PROVE  Linked(t, w, id) /\ Linked(w, t, id)
<1>1. Peer(e) \in Side
  BY Sides
<1>2. /\ OutPath(s) \in Seq(SessionFrame) /\ OutPath(t) \in Seq(SessionFrame)
      /\ s.h[id] \in StreamHandle /\ t.h[id] \in StreamHandle
  BY PathTypes
<1>3. InPath(r, id) \in Seq(SessionFrame) /\ r.h[id] \in StreamHandle
  BY <1>1, PathTypes
<1>4. PICK f \in SessionFrame :
        /\ OfStream(f, id) => Between(f, t.h[id], s.h[id])
        /\ Thinner(OutPath(t), OutPath(s) \o <<f>>, id)
  BY DEF Sends
<1>5. SendsMore(t.h[id], s.h[id]) /\ SameEnds(t.h[id], s.h[id])
  BY DEF Sends
<1>6. Linked(t, w, id)
  <2>1. FlowOK(InPath(r, id) \o OutPath(s), id, s.h[id], r.h[id])
    BY PathIs DEF Linked
  <2>2. FlowOK(InPath(r, id) \o OutPath(t), id, t.h[id], r.h[id])
    BY <1>2, <1>3, <1>4, <1>5, <2>1, FlowSends
  <2> QED BY <2>2, PathIs DEF Linked
<1>7. Linked(w, t, id)
  <2>1. FlowOK(InPath(s, id) \o OutPath(r), id, r.h[id], s.h[id])
    BY PathIs DEF Linked
  <2>2. FlowOK(InPath(t, id) \o OutPath(w), id, r.h[id], s.h[id])
    BY <2>1, FlowThinner
  <2>3. FlowOK(InPath(t, id) \o OutPath(w), id, r.h[id], t.h[id])
    BY <1>5, <2>2, FlowSame
  <2> QED BY <2>3, PathIs DEF Linked
<1> QED BY <1>6, <1>7

\* The invariant, in these terms.
LEMMA FlowInvIs ==
    FlowInv <=> \A e \in Side : /\ node[e].failed = {} /\ FlowGood(node[e])
                                /\ \A id \in StreamId : Linked(node[e], node[Peer(e)], id)
BY DEF FlowInv, FlowGood, Linked

\* The invariant after a step that left t at e and w at its peer.
LEMMA BothFlow ==
    ASSUME NEW e \in Side, NEW t, NEW w, node'[e] = t, node'[Peer(e)] = w,
           t.failed = {}, w.failed = {}, FlowGood(t), FlowGood(w),
           \A id \in StreamId : Linked(t, w, id) /\ Linked(w, t, id)
    PROVE  FlowInv'
<1>1. Peer(e) \in Side /\ Peer(Peer(e)) = e /\ \A x \in Side : x = e \/ x = Peer(e)
  BY Sides
<1>2. \A x \in Side : /\ node'[x].failed = {} /\ FlowGood(node'[x])
                      /\ \A id \in StreamId : Linked(node'[x], node'[Peer(x)], id)
  BY <1>1
<1> QED BY <1>2 DEF FlowInv, FlowGood, Linked

\* A step of one side.
LEMMA FlowsStep ==
    ASSUME StreamsInv, FlowInv, StreamsInv', NEW e \in Side, Flows(e)
    PROVE  FlowInv'
<1> DEFINE p == Peer(e)
           s == node[e]
           r == node[p]
<1>1. PICK t : Becomes(e, t) /\ FlowKept(t, s)
  BY DEF Flows
<1>2. node'[e] = t /\ node'[p] = r
  BY <1>1, OtherSide
<1>3. p \in Side /\ Peer(p) = e
  BY Sides
<1>4. /\ s.failed = {} /\ r.failed = {} /\ FlowGood(r)
      /\ \A id \in StreamId : Linked(s, r, id) /\ Linked(r, s, id)
  BY <1>3, FlowInvIs
<1>5. GoodSession(s, e) /\ GoodSession(r, p) /\ GoodSession(t, e)
  BY <1>2, <1>3 DEF StreamsInv
<1> HIDE DEF s, r
<1>6. ASSUME NEW id \in StreamId PROVE Linked(t, r, id) /\ Linked(r, t, id)
  <2>1. /\ InPath(s, id) \in Seq(SessionFrame) /\ InPath(t, id) \in Seq(SessionFrame)
        /\ OutPath(r) \in Seq(SessionFrame)
    BY <1>3, <1>5, PathTypes
  <2>2. Sends(t, s, id) /\ Thinner(InPath(t, id), InPath(s, id), id)
    BY <1>1 DEF FlowKept
  <2>3. Thinner(InPath(t, id) \o OutPath(r), InPath(s, id) \o OutPath(r), id)
    BY <2>1, <2>2, ThinnerRefl, ThinnerConcat
  <2> QED BY <1>4, <1>5, <2>2, <2>3, LinkedStep
<1>7. t.failed = {} /\ FlowGood(t)
  BY <1>1, <1>4 DEF FlowKept
<1> QED BY <1>2, <1>4, <1>6, <1>7, BothFlow

\* A handle takes a frame from its channel.
LEMMA TakesFlows ==
    ASSUME NEW e \in Side, NEW s, NEW r, GoodSession(s, e), GoodSession(r, Peer(e)), FlowGood(s),
           NEW id \in StreamId, s.life[id] = "live", CanRecv(s.h[id]), s.chan[id] # <<>>,
           Linked(s, r, id), Linked(r, s, id)
    PROVE  LET t == WithHandle([s EXCEPT !.chan[id] = Tail(@)], id,
                               handle_frame(s.h[id], Head(s.chan[id]))) IN
           /\ t.failed = s.failed /\ FlowGood(t) /\ Linked(t, r, id) /\ Linked(r, t, id)
           /\ \A x \in StreamId : x # id => Sends(t, s, x) /\ InPath(t, x) = InPath(s, x)
<1> DEFINE b == s.h[id]
           a == r.h[id]
           f == Head(s.chan[id])
           c == Tail(s.chan[id])
           q == s.read_pending_frames
           o == handle_frame(b, f)
           u == [s EXCEPT !.chan[id] = Tail(@)]
           t == WithHandle(u, id, o)
           P == (c \o q) \o OutPath(r)
           Q == InPath(r, id) \o OutPath(s)
<1>1. Peer(e) \in Side /\ s \in Session
  BY Sides DEF GoodSession, SessionOK
<1>2. /\ HandleOK(b, e, id) /\ HandleOK(a, Peer(e), id)
      /\ s.chan[id] \in Seq(SessionFrame) /\ q \in Seq(SessionFrame)
      /\ OutPath(r) \in Seq(SessionFrame) /\ OutPath(s) \in Seq(SessionFrame)
      /\ InPath(r, id) \in Seq(SessionFrame)
  BY <1>1, PathTypes
<1>3. /\ f \in SessionFrame /\ <<f>> \in Seq(SessionFrame) /\ c \in Seq(SessionFrame)
      /\ s.chan[id] = <<f>> \o c
  BY <1>2, HeadFirst
<1>4. s.chan[id] \in Seq(Frame)
  BY <1>1 DEF Session
<1>5. f \in Frame /\ f.stream_id = id
  <2>1. f \in Frame /\ f = s.chan[id][1] /\ Len(s.chan[id]) \in Nat \ {0}
    BY <1>4, TailAt
  <2>2. 1 \in 1..Len(s.chan[id])
    BY <2>1
  <2>3. ChanOK(s, id)
    BY DEF FlowGood
  <2> QED BY <2>1, <2>2, <2>3 DEF ChanOK
<1>6. P \in Seq(SessionFrame) /\ Q \in Seq(SessionFrame) /\ c \o q \in Seq(SessionFrame)
  BY <1>2, <1>3, RegroupFrames
<1>7. InPath(s, id) \o OutPath(r) = <<f>> \o P
  <2>1. InPath(s, id) = <<f>> \o (c \o q)
    <3> HIDE DEF f, c, q
    <3>1. (<<f>> \o c) \o q = <<f>> \o (c \o q)
      BY <1>2, <1>3, RegroupFrames
    <3> QED BY <1>3, <3>1 DEF InPath, q
  <2> HIDE DEF f, c, q
  <2> QED BY <1>2, <1>3, <1>6, <2>1, RegroupFrames
<1>8. FlowOK(<<f>> \o P, id, a, b) /\ FlowOK(Q, id, b, a)
  BY <1>7, PathIs DEF Linked
<1> HIDE DEF P, Q, a
<1>9. /\ o.event = "None" /\ o.frames = <<>>
      /\ FlowOK(P, id, a, o.h) /\ FlowOK(Q, id, o.h, a)
  BY <1>2, <1>5, <1>6, <1>8, FrameFlows
<1>10. OutcomeOK(o, b, e, id)
  <2>1. b.state # "Init"
    BY DEF GoodSession, StreamOK, LiveOK
  <2> QED BY <1>2, <1>5, <2>1, FrameOutcome
<1>11. u.chan = [s.chan EXCEPT ![id] = c] /\ u.failed = s.failed /\ u.life = s.life
  BY <1>1 DEF Session
<1>12. Touches(u, s, id)
  BY <1>1, TouchesBy
<1>14. \A i \in 1..Len(c) : i + 1 \in 1..Len(s.chan[id]) /\ c[i] = s.chan[id][i + 1]
  BY <1>4, TailAt
<1> HIDE DEF o, u, c
<1>13. CallOn(u, s, id, o)
  <2>1. o.frames \in Seq(StreamFrame)
    BY <1>9, OneFrame
  <2>2. o.h \in StreamHandle /\ o.h.id = id /\ o.event \in {"None", "Closed", "GoAway"}
    BY <1>10 DEF OutcomeOK, HandleOK
  <2>3. /\ u \in Session /\ u.h = s.h /\ u.events = s.events /\ SameWire(u, s)
        /\ u.read_pending_frames = s.read_pending_frames
        /\ \A x \in StreamId : x # id => u.life[x] = s.life[x]
    BY <1>12 DEF Touches
  <2>4. u.life[id] # "none"
    BY <1>11
  <2> QED BY <1>11, <2>1, <2>2, <2>3, <2>4 DEF CallOn
<1>15. t.failed = s.failed
  BY <1>9, <1>13, CallFailed
<1>16. /\ t.h = [s.h EXCEPT ![id] = o.h] /\ s.h \in [StreamId -> StreamHandle]
       /\ t.chan = u.chan /\ t.read_pending_frames = s.read_pending_frames
       /\ \A x \in StreamId : x # id => t.life[x] = s.life[x]
       /\ t.life[id] # "none"
  BY <1>13, CallOut
<1>17. ASSUME NEW x PROVE Thinner(OutPath(t), OutPath(s), x)
  <2>1. Thinner(OutPath(t), OutPath(s) \o o.frames, x)
    BY <1>13, CallOut
  <2>2. OutPath(s) \o o.frames = OutPath(s)
    BY <1>2, <1>9, ConcatEmptySeq
  <2> QED BY <2>1, <2>2
<1> HIDE DEF t
<1>18. s.chan \in [StreamId -> Seq(Frame)]
  BY <1>1 DEF Session
<1>19. t.h[id] = o.h /\ t.chan[id] = c
  BY <1>11, <1>16, <1>18
<1>20. ASSUME NEW x \in StreamId, x # id
       PROVE  t.h[x] = s.h[x] /\ t.chan[x] = s.chan[x] /\ t.life[x] = s.life[x]
  BY <1>11, <1>16, <1>18, <1>20
<1>21. Linked(t, r, id)
  <2>1. Thinner(InPath(r, id) \o OutPath(t), Q, id)
    <3>1. OutPath(t) \in Seq(SessionFrame)
      <4>1. GoodSession(t, e)
        <5>1. o.event # "Closed"
          BY <1>9
        <5> QED BY <1>10, <1>12, <5>1, CallKeeps DEF t
      <4> QED BY <4>1, PathTypes
    <3> QED BY <1>2, <1>17, <3>1, ThinnerRefl, ThinnerConcat DEF Q
  <2>2. FlowOK(InPath(r, id) \o OutPath(t), id, o.h, a)
    BY <1>9, <2>1, FlowThinner
  <2> QED BY <1>19, <2>2, PathIs DEF Linked, a
<1>22. Linked(r, t, id)
  <2>1. InPath(t, id) = c \o q
    BY <1>16, <1>19 DEF InPath
  <2> QED BY <1>9, <1>19, <2>1, PathIs DEF Linked, a, P
<1>23. ASSUME NEW x \in StreamId, x # id
       PROVE  Sends(t, s, x) /\ InPath(t, x) = InPath(s, x)
  <2>1. Sends(t, s, x)
    BY <1>17, <1>20, <1>23, SendsNothing
  <2> QED BY <1>16, <1>20, <1>23, <2>1 DEF InPath
<1>24. ASSUME NEW x \in StreamId PROVE Pristine(t, x) /\ ChanOK(t, x)
  <2>1. Pristine(s, x) /\ ChanOK(s, x)
    BY DEF FlowGood
  <2>2. CASE x = id
    <3>1. Pristine(t, x)
      BY <1>16, <2>2 DEF Pristine
    <3>2. ChanOK(t, x)
      BY <1>14, <1>19, <2>1, <2>2 DEF ChanOK
    <3> QED BY <3>1, <3>2
  <2>3. CASE x # id
    <3>1. Has(OutPath(t), x) \subseteq Has(OutPath(s), x)
      BY <1>17 DEF Thinner
    <3> QED BY <1>20, <2>1, <2>3, <3>1 DEF Pristine, ChanOK
  <2> QED BY <2>2, <2>3
<1>25. FlowGood(t)
  BY <1>24 DEF FlowGood
<1> QED BY <1>15, <1>21, <1>22, <1>23, <1>25 DEF t, u, o

LEMMA TakesStep ==
    ASSUME StreamsInv, FlowInv, StreamsInv', NEW e \in Side, NEW id \in StreamId,
           HandleRecvFrame(e, id)
    PROVE  FlowInv'
<1> DEFINE p == Peer(e)
           s == node[e]
           r == node[p]
           t == WithHandle([s EXCEPT !.chan[id] = Tail(@)], id,
                           handle_frame(s.h[id], Head(s.chan[id])))
<1>1. Becomes(e, t) /\ s.life[id] = "live" /\ CanRecv(s.h[id]) /\ s.chan[id] # <<>>
  BY DEF HandleRecvFrame, Owned
<1>2. node'[e] = t /\ node'[p] = r
  BY <1>1, OtherSide
<1>3. p \in Side /\ Peer(p) = e
  BY Sides
<1>4. /\ s.failed = {} /\ r.failed = {} /\ FlowGood(s) /\ FlowGood(r)
      /\ \A x \in StreamId : Linked(s, r, x) /\ Linked(r, s, x)
  BY <1>3, FlowInvIs
<1>5. GoodSession(s, e) /\ GoodSession(r, p)
  BY <1>3 DEF StreamsInv
<1>6. GoodSession(t, e)
  <2> HIDE DEF t
  <2> QED BY <1>2 DEF StreamsInv
<1> HIDE DEF s, r
<1>7. /\ t.failed = s.failed /\ FlowGood(t) /\ Linked(t, r, id) /\ Linked(r, t, id)
      /\ \A x \in StreamId : x # id => Sends(t, s, x) /\ InPath(t, x) = InPath(s, x)
  BY <1>1, <1>4, <1>5, TakesFlows
<1> HIDE DEF t
<1>8. ASSUME NEW x \in StreamId PROVE Linked(t, r, x) /\ Linked(r, t, x)
  <2>1. CASE x = id
    BY <1>7, <2>1
  <2>2. CASE x # id
    <3>1. Sends(t, s, x) /\ InPath(t, x) = InPath(s, x)
      BY <1>7, <2>2
    <3>2. Thinner(InPath(t, x) \o OutPath(r), InPath(s, x) \o OutPath(r), x)
      BY <3>1, ThinnerRefl
    <3> QED BY <1>4, <1>5, <1>6, <3>1, <3>2, LinkedStep
  <2> QED BY <2>1, <2>2
<1> QED BY <1>2, <1>4, <1>7, <1>8, BothFlow

\* The peer r has put the first frame of its wire into the socket.
LEMMA ReadOffFlows ==
    ASSUME NEW e \in Side, NEW r, GoodSession(r, e), FlowGood(r), r.out # <<>>
    PROVE  LET w == ReadOff(r)
               f == Head(r.out) IN
           /\ w.failed = r.failed /\ w.h = r.h /\ FlowGood(w)
           /\ \A id \in StreamId : InPath(w, id) = InPath(r, id)
           /\ f \in SessionFrame /\ OutPath(r) = <<f>> \o OutPath(w)
<1> DEFINE w == ReadOff(r)
           f == Head(r.out)
           E == FramesOf(r.events)
<1>1. r \in Session /\ WireOK(r) /\ E \in Seq(SessionFrame) /\ r.events \in Seq(HandleEvent)
  BY PathTypes
<1>2. r.out \in Seq(SessionFrame) /\ r.write_pending_frames \in Seq(SessionFrame)
  BY <1>1, WireTyped
<1>3. /\ w.failed = r.failed /\ w.h = r.h /\ w.life = r.life /\ w.chan = r.chan
      /\ w.read_pending_frames = r.read_pending_frames /\ w.events = r.events
      /\ w.out = Tail(r.out) /\ w.write_pending_frames = r.write_pending_frames
  BY <1>1 DEF ReadOff, Session
<1> HIDE DEF w
<1>4. /\ f \in SessionFrame /\ <<f>> \in Seq(SessionFrame) /\ w.out \in Seq(SessionFrame)
      /\ r.out = <<f>> \o w.out
  BY <1>2, <1>3, HeadFirst
<1> HIDE DEF f, E
<1>5. Wire(r) = <<f>> \o Wire(w) /\ Wire(w) \in Seq(SessionFrame)
  <2> DEFINE F == <<f>>
             O == w.out
             W == r.write_pending_frames
  <2>1. (F \o O) \o W = F \o (O \o W)
    <3>1. F \in Seq(SessionFrame) /\ O \in Seq(SessionFrame) /\ W \in Seq(SessionFrame)
      BY <1>2, <1>4
    <3> HIDE DEF F, O, W
    <3> QED BY <3>1, RegroupFrames
  <2>2. w.out \o r.write_pending_frames \in Seq(SessionFrame)
    BY <1>2, <1>4, RegroupFrames
  <2> QED BY <1>3, <1>4, <2>1, <2>2 DEF Wire
<1>6. OutPath(w) = Wire(w) \o E /\ OutPath(r) = Wire(r) \o E
  BY <1>3 DEF OutPath, E
<1>7. OutPath(r) = <<f>> \o OutPath(w) /\ OutPath(w) \in Seq(SessionFrame)
  <2>1. (<<f>> \o Wire(w)) \o E = <<f>> \o (Wire(w) \o E) /\ Wire(w) \o E \in Seq(SessionFrame)
    BY <1>1, <1>4, <1>5, RegroupFrames
  <2> QED BY <1>5, <1>6, <2>1
<1>8. \A id \in StreamId : InPath(w, id) = InPath(r, id) /\ (ChanOK(r, id) => ChanOK(w, id))
  BY <1>3 DEF InPath, ChanOK
<1>9. \A id \in StreamId : Thinner(OutPath(w), OutPath(r), id)
  BY <1>4, <1>7, ThinnerParts
<1>10. FlowGood(w)
  BY <1>3, <1>8, <1>9, GoodAlong
<1> QED BY <1>3, <1>4, <1>7, <1>8, <1>10 DEF w, f

\* The frame f goes from the session r of the peer to the session s of side e.
LEMMA ReadFlows ==
    ASSUME NEW e \in Side, NEW s, NEW r, GoodSession(s, e), GoodSession(r, Peer(e)), FlowGood(s),
           Cross(r, Peer(e), s), ~s.ended, r.out # <<>>
    PROVE  FrameIn(handle_session_frame(s, e, Head(r.out)), s, Head(r.out))
<1> DEFINE p == Peer(e)
           f == Head(r.out)
           t == handle_session_frame(s, e, f)
<1>1. p \in Side /\ p # e
  BY Sides
<1>2. f \in WireFrame /\ (IsSyn(f) => Unborn(r, p, f.stream_id))
  BY <1>1, SentKeeps
<1>3. f \in SessionFrame
  BY <1>2 DEF WireFrame
<1> HIDE DEF f
<1>4. CASE f.ty \in {"Data", "WindowUpdate"}
  <2>1. f \in StreamFrame /\ f.stream_id \in StreamId
    BY <1>2, <1>4 DEF WireFrame, SessionFrame, StreamFrame, Frame
  <2>2. "Syn" \in f.flags => s.life[f.stream_id] = "none" /\ Opener(f.stream_id) # e
    BY <1>1, <1>2, <1>4, <2>1 DEF IsSyn, Cross, Unborn
  <2>3. t = distribute_to_substream([s EXCEPT !.read_pending_frames = Append(@, f)], e)
    BY <1>4 DEF handle_session_frame
  <2> HIDE DEF t
  <2>4. FrameIn(t, s, f)
    BY <2>1, <2>2, <2>3, ArrivalFlows
  <2> QED BY <2>4 DEF t, f
<1>5. CASE f.ty = "Ping"
  <2>1. t = handle_ping(s, f)
    BY <1>5 DEF handle_session_frame
  <2> HIDE DEF t
  <2>2. FrameIn(t, s, f)
    BY <1>2, <1>3, <2>1, PingCarries, CarriesIn
  <2> QED BY <2>2 DEF t, f
<1>6. CASE f.ty = "GoAway"
  <2>1. t = handle_go_away(s)
    BY <1>6 DEF handle_session_frame
  <2> HIDE DEF t
  <2>2. FrameIn(t, s, f)
    BY <1>3, <2>1, PeerGoAwayCarries, CarriesIn
  <2> QED BY <2>2 DEF t, f
<1>7. f.ty \in {"Data", "WindowUpdate", "Ping", "GoAway"}
  BY <1>3 DEF SessionFrame
<1> QED BY <1>4, <1>5, <1>6, <1>7

\* RecvFrame.
LEMMA RecvFrameFlows ==
    ASSUME StreamsInv, FlowInv, StreamsInv', NEW e \in Side, RecvFrame(e)
    PROVE  FlowInv'
<1> DEFINE p == Peer(e)
           s == node[e]
           r == node[p]
           f == Head(r.out)
           t == handle_session_frame(s, e, f)
           w == ReadOff(r)
<1>1. /\ node'[e] = t /\ node'[p] = w
      /\ GoodSession(s, e) /\ GoodSession(r, p) /\ Cross(r, p, s)
      /\ ~s.ended /\ r.out # <<>>
  BY RecvFrameIs
<1>2. p \in Side /\ Peer(p) = e
  BY Sides
<1>3. GoodSession(t, e) /\ GoodSession(w, p)
  <2> HIDE DEF t, w
  <2> QED BY <1>1, <1>2 DEF StreamsInv
<1>4. /\ s.failed = {} /\ r.failed = {} /\ FlowGood(s) /\ FlowGood(r)
      /\ \A x \in StreamId : Linked(s, r, x) /\ Linked(r, s, x)
  BY <1>2, FlowInvIs
<1> HIDE DEF s, r
<1>5. FrameIn(t, s, f)
  BY <1>1, <1>4, ReadFlows
<1>6. /\ w.failed = r.failed /\ w.h = r.h /\ FlowGood(w)
      /\ \A id \in StreamId : InPath(w, id) = InPath(r, id)
      /\ f \in SessionFrame /\ OutPath(r) = <<f>> \o OutPath(w)
  BY <1>1, <1>2, <1>4, ReadOffFlows
<1> HIDE DEF t, w, f
<1>7. ASSUME NEW id \in StreamId PROVE Linked(t, w, id) /\ Linked(w, t, id)
  <2>1. /\ InPath(s, id) \in Seq(SessionFrame) /\ InPath(t, id) \in Seq(SessionFrame)
        /\ OutPath(w) \in Seq(SessionFrame)
    BY <1>1, <1>2, <1>3, PathTypes
  <2>2. Sends(t, s, id) /\ Thinner(InPath(t, id), InPath(s, id) \o <<f>>, id)
    BY <1>5 DEF FrameIn
  <2>3. <<f>> \in Seq(SessionFrame)
    BY <1>6, OneFrame
  <2>4. /\ InPath(s, id) \o <<f>> \in Seq(SessionFrame)
        /\ (InPath(s, id) \o <<f>>) \o OutPath(w) = InPath(s, id) \o OutPath(r)
    BY <1>6, <2>1, <2>3, RegroupFrames
  <2>5. Thinner(InPath(t, id) \o OutPath(w), (InPath(s, id) \o <<f>>) \o OutPath(w), id)
    BY <2>1, <2>2, <2>4, ThinnerRefl, ThinnerConcat
  <2>6. w.h[id] = r.h[id] /\ InPath(w, id) = InPath(r, id)
    BY <1>6
  <2> QED BY <1>1, <1>3, <1>4, <2>2, <2>4, <2>5, <2>6, LinkedStep, ZenonT(60)
<1>8. t.failed = {} /\ FlowGood(t) /\ w.failed = {}
  BY <1>4, <1>5, <1>6 DEF FrameIn
<1> QED BY <1>1, <1>6, <1>7, <1>8, BothFlow

\* A new session has nothing on its way.
LEMMA NewSessionFlows ==
    ASSUME NEW e \in Side
    PROVE  LET s == NewSession(e) IN
           /\ s.failed = {} /\ FlowGood(s) /\ OutPath(s) = <<>>
           /\ \A id \in StreamId : /\ s.h[id].sent = 0 /\ s.h[id].rcvd = 0
                                   /\ Grant(s.h[id]) = InitialWindow
                                   /\ Credit(s.h[id]) = InitialWindow
                                   /\ InPath(s, id) = <<>>
<1> DEFINE s == NewSession(e)
<1>1. /\ s.failed = {} /\ s.events = <<>> /\ s.out = <<>> /\ s.write_pending_frames = <<>>
      /\ s.read_pending_frames = <<>> /\ s.chan = [id \in StreamId |-> <<>>]
      /\ s.h = [id \in StreamId |-> NewHandle(id, "Init", max_window_size(e))]
  BY DEF NewSession
<1> HIDE DEF s
<1>2. FramesOf(<<>>) = <<>> /\ <<>> \o <<>> = <<>>
  BY DEF FramesOf
<1>3. OutPath(s) = <<>>
  BY <1>1, <1>2 DEF OutPath, Wire
<1>4. InitialWindow \in Nat
  BY WindowBounds
<1>5. ASSUME NEW id \in StreamId
      PROVE  /\ s.h[id].sent = 0 /\ s.h[id].rcvd = 0
             /\ s.h[id].send_window = InitialWindow /\ s.h[id].recv_window = InitialWindow
             /\ s.chan[id] = <<>>
  BY <1>1 DEF NewHandle
<1>6. \A id \in StreamId : Grant(s.h[id]) = InitialWindow /\ Credit(s.h[id]) = InitialWindow
  BY <1>4, <1>5 DEF Grant, Credit
<1>7. \A id \in StreamId : InPath(s, id) = <<>>
  BY <1>1, <1>2, <1>5 DEF InPath
<1>8. \A id \in StreamId : Has(OutPath(s), id) = {}
  BY <1>3, HasFew
<1>9. \A id \in StreamId : ChanOK(s, id) /\ Pristine(s, id)
  BY <1>5, <1>8 DEF ChanOK, Pristine
<1> QED BY <1>1, <1>3, <1>5, <1>6, <1>7, <1>9 DEF FlowGood, s

\* The flow is in order at first ...
LEMMA FlowInit == Init => FlowInv
<1> SUFFICES ASSUME Init PROVE FlowInv
  OBVIOUS
<1>1. \A e \in Side : node[e] = NewSession(e)
  BY DEF Init
<1>2. ASSUME NEW e \in Side, NEW id \in StreamId
      PROVE  Linked(node[e], node[Peer(e)], id)
  <2> DEFINE s == node[e]
             r == node[Peer(e)]
  <2>1. Peer(e) \in Side
    BY Sides
  <2>2. /\ OutPath(s) = <<>> /\ s.h[id].sent = 0 /\ s.h[id].rcvd = 0
        /\ Grant(s.h[id]) = InitialWindow /\ Credit(s.h[id]) = InitialWindow
    BY <1>1, NewSessionFlows
  <2>3. /\ InPath(r, id) = <<>> /\ r.h[id].sent = 0 /\ r.h[id].rcvd = 0
        /\ Grant(r.h[id]) = InitialWindow /\ Credit(r.h[id]) = InitialWindow
    BY <1>1, <2>1, NewSessionFlows
  <2>4. InitialWindow \in Nat
    BY WindowBounds
  <2>5. \A f : f \notin Has(<<>>, id)
    BY HasFew
  <2> HIDE DEF s, r
  <2>6. OnItsWay(s, r, id) = <<>>
    BY <2>2, <2>3, PathIs
  <2>7. FlowOK(<<>>, id, s.h[id], r.h[id])
    BY <2>2, <2>3, <2>4, <2>5 DEF FlowOK
  <2> QED BY <2>6, <2>7 DEF Linked, s, r
<1>3. \A e \in Side : node[e].failed = {} /\ FlowGood(node[e])
  BY <1>1, NewSessionFlows
<1> QED BY <1>2, <1>3, FlowInvIs

\* ... and every step keeps it so.
LEMMA FlowStep ==
    ASSUME StreamsInv, FlowInv, [Next]_node PROVE FlowInv'
<1>1. StreamsInv'
  BY StreamsStep
<1>2. CASE UNCHANGED node
  BY <1>2, ZenonT(60) DEF FlowInv, Pristine, ChanOK, OnItsWay
<1>3. \A e \in Side : FlowGood(node[e])
  BY FlowInvIs
<1>4. ASSUME NEW e \in Side, NEW id \in StreamId, HandleStep(e, id) PROVE FlowInv'
  <2>1. CASE HandleRecvFrame(e, id)
    BY <1>1, <2>1, TakesStep
  <2>2. CASE ~HandleRecvFrame(e, id)
    BY <1>1, <1>3, <1>4, <2>2, HandleFlows, FlowsStep
  <2> QED BY <2>1, <2>2
<1>5. ASSUME NEW e \in Side, SessionStep(e) PROVE FlowInv'
  <2>1. CASE RecvFrame(e)
    BY <1>1, <2>1, RecvFrameFlows
  <2>2. CASE ~RecvFrame(e)
    BY <1>1, <1>3, <1>5, <2>2, SessionFlows, FlowsStep
  <2> QED BY <2>1, <2>2
<1> QED BY <1>2, <1>4, <1>5 DEF Next

\* The flow of every stream, for every instance: its frames stay in order through the
\* queues of both sessions, each begins where the receiver has come to or later, and
\* what is sent stays within what was granted.
THEOREM FlowHolds == Spec => []FlowInv
<1>1. StreamsInv /\ FlowInv /\ [Next]_node => FlowInv'
  BY FlowStep
<1> QED BY <1>1, FlowInit, StreamsHold, PTL DEF Spec

\* Two sessions never accuse each other of a protocol error: no Data frame exceeds the
\* window of the handle that takes it and no window update overflows, whatever the two
\* sessions and the owners of their streams do.
THEOREM NoProtocolErrors == Spec => []NoProtocolError
<1>1. FlowInv => NoProtocolError
  BY DEF FlowInv, NoProtocolError
<1> QED BY <1>1, FlowHolds, PTL
-----------------------------------------------------------------------------
(***************************************************************************)
(* The Data on its way                                                     *)
(***************************************************************************)
Bytes(f, id) == IF f.ty = "Data" /\ f.stream_id = id THEN f.length ELSE 0

\* g[n] counts the bytes of id among the first n of the first m frames of q.
Summed(g, q, id, m) ==
    g = [n \in 0..m |-> IF n = 0 THEN 0 ELSE g[n - 1] + Bytes(q[n], id)]

\* The sum is well defined.
LEMMA SumExists ==
    ASSUME NEW q, NEW id, Len(q) \in Nat
    PROVE  \E g : Summed(g, q, id, Len(q))
<1> DEFINE T == {m \in 0..Len(q) : \E g : Summed(g, q, id, m)}
<1>1. 0 \in T
  <2> DEFINE g == [n \in 0..0 |-> 0]
  <2>1. Summed(g, q, id, 0)
    BY DEF Summed
  <2> HIDE DEF g
  <2> QED BY <2>1
<1>2. ASSUME NEW m \in 0..(Len(q) - 1), m \in T PROVE m + 1 \in T
  <2>1. PICK g : Summed(g, q, id, m)
    BY <1>2
  <2> DEFINE k == [n \in 0..(m + 1) |-> IF n = m + 1 THEN g[m] + Bytes(q[m + 1], id) ELSE g[n]]
  <2>2. m \in Nat /\ m + 1 \in 0..Len(q) /\ \A n \in 0..m : n \in 0..(m + 1) /\ n # m + 1
    OBVIOUS
  <2>3. \A n \in 0..m : k[n] = g[n]
    BY <2>2
  <2>4. \A n \in 0..m : g[n] = IF n = 0 THEN 0 ELSE g[n - 1] + Bytes(q[n], id)
    BY <2>1 DEF Summed
  <2>5. ASSUME NEW n \in 0..(m + 1)
        PROVE  k[n] = IF n = 0 THEN 0 ELSE k[n - 1] + Bytes(q[n], id)
    <3>1. CASE n = m + 1
      <4>1. k[n] = g[m] + Bytes(q[m + 1], id) /\ n # 0 /\ n - 1 = m /\ m \in 0..m
        BY <2>2, <3>1
      <4>2. k[m] = g[m]
        BY <2>3, <4>1
      <4> HIDE DEF k
      <4> QED BY <3>1, <4>1, <4>2
    <3>2. CASE n # m + 1
      <4>1. n \in 0..m /\ k[n] = g[n]
        BY <2>2, <2>3, <3>2
      <4>2. n # 0 => n - 1 \in 0..m
        BY <2>2, <4>1
      <4>3. n # 0 => k[n - 1] = g[n - 1]
        BY <2>3, <4>2
      <4> HIDE DEF k
      <4> QED BY <2>4, <4>1, <4>3
    <3> QED BY <3>1, <3>2
  <2>6. k = [n \in 0..(m + 1) |-> k[n]]
    OBVIOUS
  <2> HIDE DEF k
  <2>7. Summed(k, q, id, m + 1)
    BY <2>5, <2>6 DEF Summed
  <2> QED BY <2>2, <2>7
<1> HIDE DEF T
<1>3. \A m \in 0..Len(q) : m \in T
  BY <1>1, <1>2, Upwards
<1>4. Len(q) \in T
  BY <1>3
<1> QED BY <1>4 DEF T

\* What SumLength counts.
LEMMA SumIs ==
    ASSUME NEW q, NEW id, Len(q) \in Nat
    PROVE  \E g : /\ g[0] = 0
                  /\ \A n \in 1..Len(q) : g[n] = g[n - 1] + Bytes(q[n], id)
                  /\ SumLength(q, id) = g[Len(q)]
<1> DEFINE g == CHOOSE g : Summed(g, q, id, Len(q))
<1>1. SumLength(q, id) = g[Len(q)]
  BY DEF SumLength, Summed, Bytes
<1>2. Summed(g, q, id, Len(q))
  BY SumExists
<1> HIDE DEF g
<1>3. 0 \in 0..Len(q) /\ \A n \in 1..Len(q) : n \in 0..Len(q) /\ n # 0
  OBVIOUS
<1>4. g[0] = 0 /\ \A n \in 1..Len(q) : g[n] = g[n - 1] + Bytes(q[n], id)
  BY <1>2, <1>3 DEF Summed
<1> QED BY <1>1, <1>4

\* The Data on its way from a to b: it begins where b has come to, follows itself, and
\* ends where a has come to.
LEMMA SumFits ==
    ASSUME NEW P \in Seq(SessionFrame), NEW id, NEW a \in StreamHandle, NEW b \in StreamHandle,
           FlowOK(P, id, a, b)
    PROVE  SumLength(P, id) \in Nat /\ b.rcvd + SumLength(P, id) <= a.sent
<1>1. Len(P) \in Nat /\ \A n \in 1..Len(P) : P[n] \in SessionFrame
  BY ElementOfSeq, LenProperties
<1>2. PICK g : /\ g[0] = 0 /\ \A n \in 1..Len(P) : g[n] = g[n - 1] + Bytes(P[n], id)
               /\ SumLength(P, id) = g[Len(P)]
  BY <1>1, SumIs
<1> DEFINE IsData(n) == P[n].ty = "Data" /\ P[n].stream_id = id
           r == b.rcvd
           u == a.sent
           Good(n) == /\ g[n] \in Nat /\ r + g[n] <= u
                      /\ \A j \in (n + 1)..Len(P) : IsData(j) => r + g[n] <= Start(P[j])
           T == {n \in 0..Len(P) : Good(n)}
<1>3. r \in Nat /\ u \in Nat /\ r <= u
  BY FlowNumbers DEF FlowOK
<1>4. \A n \in 1..Len(P) : /\ P[n].upto \in Nat /\ P[n].length \in Nat /\ Start(P[n]) \in Int
                           /\ Start(P[n]) = P[n].upto - P[n].length
  BY <1>1, FlowNumbers
<1>5. ASSUME NEW n \in 1..Len(P), IsData(n)
      PROVE  P[n] \in Has(P, id) /\ r <= Start(P[n]) /\ P[n].upto <= u
  <2>1. P[n] \in Has(P, id)
    BY <1>5, HasIs DEF OfStream
  <2> QED BY <1>5, <2>1 DEF FlowOK, Fits
<1>6. ASSUME NEW n \in 1..Len(P), NEW j \in (n + 1)..Len(P), IsData(n), IsData(j)
      PROVE  P[n].upto <= Start(P[j])
  <2>1. j \in 1..Len(P) /\ n < j
    BY <1>1
  <2>2. Precedes(P, id, P[n], P[j])
    BY <1>6, <2>1 DEF Precedes, OfStream
  <2>3. P[n] \in Has(P, id) /\ P[j] \in Has(P, id) /\ P[n].ty = P[j].ty
    BY <1>5, <1>6, <2>1
  <2> QED BY <2>2, <2>3 DEF FlowOK
<1>7. 0 \in T
  <2>1. \A j \in (0 + 1)..Len(P) : j \in 1..Len(P)
    OBVIOUS
  <2>2. ASSUME NEW j \in (0 + 1)..Len(P), IsData(j) PROVE r + g[0] <= Start(P[j])
    BY <1>2, <1>3, <1>4, <1>5, <2>1, <2>2
  <2> HIDE DEF IsData
  <2>3. g[0] \in Nat /\ r + g[0] <= u /\ 0 \in 0..Len(P)
    BY <1>1, <1>2, <1>3
  <2> QED BY <2>2, <2>3
<1>8. ASSUME NEW n \in 0..(Len(P) - 1), n \in T PROVE n + 1 \in T
  <2> DEFINE m == n + 1
  <2>1. m \in 1..Len(P) /\ m - 1 = n /\ m \in 0..Len(P) /\ m \in (n + 1)..Len(P)
    BY <1>1
  <2>2. g[m] = g[n] + Bytes(P[m], id)
    BY <1>2, <2>1
  <2>3. /\ g[n] \in Nat /\ r + g[n] <= u
        /\ \A j \in (n + 1)..Len(P) : IsData(j) => r + g[n] <= Start(P[j])
    BY <1>8
  <2>4. \A j \in (m + 1)..Len(P) : j \in (n + 1)..Len(P) /\ j \in 1..Len(P)
    BY <1>1
  <2> HIDE DEF m
  <2>5. CASE ~IsData(m)
    <3>1. g[m] = g[n]
      BY <2>2, <2>3, <2>5 DEF Bytes
    <3> HIDE DEF IsData
    <3>2. Good(m)
      BY <2>3, <2>4, <3>1
    <3> QED BY <2>1, <3>2 DEF m
  <2>6. CASE IsData(m)
    <3>1. g[m] = g[n] + P[m].length
      BY <2>2, <2>6 DEF Bytes
    <3>2. P[m].upto <= u
      BY <1>5, <2>1, <2>6
    <3>3. r + g[n] <= Start(P[m])
      BY <2>1, <2>3, <2>6
    <3>4. /\ P[m].upto \in Nat /\ P[m].length \in Nat
          /\ Start(P[m]) = P[m].upto - P[m].length
      BY <1>4, <2>1
    <3> HIDE DEF IsData, r, u
    <3>5. g[m] \in Nat /\ r + g[m] <= P[m].upto
      BY <1>3, <2>3, <3>1, <3>3, <3>4, SMTT(40)
    <3>6. ASSUME NEW j \in (m + 1)..Len(P), IsData(j) PROVE r + g[m] <= Start(P[j])
      <4>1. P[m].upto <= Start(P[j])
        BY <1>6, <2>1, <2>6, <3>6
      <4>2. Start(P[j]) \in Int
        BY <1>4, <2>4
      <4> QED BY <1>3, <3>4, <3>5, <4>1, <4>2
    <3>7. r + g[m] <= u
      BY <1>3, <3>2, <3>4, <3>5
    <3>8. Good(m)
      BY <3>5, <3>6, <3>7
    <3> QED BY <2>1, <3>8 DEF m
  <2> QED BY <2>5, <2>6
<1> HIDE DEF T
<1>9. Len(P) \in T
  <2>1. \A n \in 0..Len(P) : n \in T
    BY <1>1, <1>7, <1>8, Upwards
  <2> QED BY <1>1, <2>1
<1> QED BY <1>2, <1>9 DEF T

\* The Data that a stream has anywhere on its way, and what its handle has not handed
\* out yet, fits in the largest window that the receiving side grants: the unbounded
\* channels between handles and sessions cannot be filled without end.
THEOREM DataIsBounded == Spec => []DataBounded
<1>1. ASSUME StreamsInv, FlowInv, NEW e \in Side, NEW id \in StreamId
      PROVE  LET r == node[Peer(e)] IN
             SumLength(OnItsWay(node[e], r, id), id) + r.h[id].read_buf <= max_window_size(Peer(e))
  <2> DEFINE s == node[e]
             r == node[Peer(e)]
             a == s.h[id]
             b == r.h[id]
             P == OnItsWay(s, r, id)
             n == SumLength(P, id)
  <2>1. Peer(e) \in Side /\ Peer(Peer(e)) = e
    BY Sides
  <2>2. GoodSession(s, e) /\ GoodSession(r, Peer(e))
    BY <1>1, <2>1 DEF StreamsInv
  <2>3. Linked(s, r, id) /\ Linked(r, s, id)
    BY <1>1, <2>1, FlowInvIs
  <2>4. a \in StreamHandle /\ OutPath(s) \in Seq(SessionFrame)
    BY <2>2, PathTypes
  <2>5. b \in StreamHandle /\ HandleOK(b, Peer(e), id) /\ InPath(r, id) \in Seq(SessionFrame)
    BY <2>1, <2>2, PathTypes
  <2>6. P \in Seq(SessionFrame)
    BY <2>4, <2>5, PathIs, ConcatProperties
  <2>7. FlowOK(P, id, a, b) /\ Credit(a) <= Grant(b)
    BY <2>3 DEF Linked, FlowOK
  <2> HIDE DEF a, b, P
  <2>8. n \in Nat /\ b.rcvd + n <= a.sent
    BY <2>4, <2>5, <2>6, <2>7, SumFits
  <2> HIDE DEF n
  <2>9. a.sent + a.send_window <= b.rcvd + b.recv_window
    BY <2>7 DEF Credit, Grant
  <2>10. /\ a.sent \in Nat /\ a.send_window \in Nat /\ b.rcvd \in Nat /\ b.recv_window \in Nat
    BY <2>4, <2>5, FlowNumbers
  <2>11. /\ b.recv_window + b.read_buf <= max_window_size(Peer(e))
         /\ b.read_buf \in Nat /\ max_window_size(Peer(e)) \in Nat
    BY <2>1, <2>5, WindowBounds DEF HandleOK, StreamHandle
  <2>12. n + b.read_buf <= max_window_size(Peer(e))
    BY <2>8, <2>9, <2>10, <2>11
  <2> QED BY <2>12 DEF n, b, P
<1>2. StreamsInv /\ FlowInv => DataBounded
  BY <1>1 DEF DataBounded
<1> QED BY <1>2, StreamsHold, FlowHolds, PTL
=============================================================================
