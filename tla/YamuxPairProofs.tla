-------------------------- MODULE YamuxPairProofs --------------------------
(***************************************************************************)
(* Proofs about YamuxPair, for every window size, every bound and every    *)
(* interleaving of the two handles and the failures of their sessions.     *)
(***************************************************************************)
EXTENDS YamuxPair, TLAPS

USE DEF IsData, Start

-----------------------------------------------------------------------------
(***************************************************************************)
(* Arithmetic of credit and positions, for numbers instead of fields.      *)
(***************************************************************************)
\* Credit below a limit is below a window update that starts at that limit or later.
LEMMA Below ==
    \A a, b, c, d, u, l \in Nat : a + b <= c + d /\ u - l >= c + d => a + b <= u - l
  OBVIOUS

\* A position below a limit is below a window update that starts there or later.
LEMMA BelowOne ==
    \A a, c, d, u, l \in Nat : a <= c + d /\ u - l >= c + d => a <= u - l
  OBVIOUS

\* Credit that ends below a position is below a frame that starts there or later.
LEMMA BelowStart ==
    \A a, b, c, u, l \in Nat : a + b <= c /\ c <= u - l => a + b <= u - l
  OBVIOUS

\* Credit that a window update extends ends where the update ends, or before.
LEMMA Granted ==
    \A a, b, u, l, c, d \in Nat :
        a + b <= u - l /\ u <= c + d => a + (b + l) <= u /\ a + (b + l) <= c + d
  OBVIOUS

\* A credit in flight fits in the window of the end that granted it, so in a u32.
LEMMA CreditFits ==
    \A a, b, u, l, c, d, x, m, n \in Nat :
        /\ a + b <= u - l /\ u <= c + d /\ c <= a /\ d + x <= m /\ m <= n
        => b + l <= n
  OBVIOUS

\* A Data frame within the sender's credit fits in the receiver's window.
LEMMA DataFits ==
    \A a, b, c, d, u, l \in Nat : a + b <= c + d /\ u - l = c /\ u <= a => l <= d
  OBVIOUS

-----------------------------------------------------------------------------
(***************************************************************************)
(* Facts about the frames in flight: what remains true of one end when a   *)
(* frame is added, taken, or the pipe is cut.                              *)
(***************************************************************************)

\* Appending one frame to a pipe changes its length by one and nothing before it.
LEMMA AppendFrame ==
    ASSUME NEW q \in Seq(Frame), NEW f \in Frame
    PROVE  /\ q \o <<f>> \in Seq(Frame)
           /\ Len(q \o <<f>>) = Len(q) + 1
           /\ \A i \in 1..Len(q) : (q \o <<f>>)[i] = q[i]
           /\ (q \o <<f>>)[Len(q) + 1] = f
           /\ q \o <<>> = q
  OBVIOUS

\* Taking the first frame shifts the others.
LEMMA TailFrame ==
    ASSUME NEW q \in Seq(Frame), q # <<>>
    PROVE  /\ Head(q) = q[1] /\ Head(q) \in Frame
           /\ Tail(q) \in Seq(Frame)
           /\ Len(q) \in Nat /\ Len(q) >= 1 /\ Len(Tail(q)) = Len(q) - 1
           /\ \A i \in 1..Len(Tail(q)) : Tail(q)[i] = q[i + 1]
  OBVIOUS

\* A cut pipe is a prefix.
LEMMA PrefixFrame ==
    ASSUME NEW q \in Seq(Frame), NEW k \in 0..Len(q)
    PROVE  /\ SubSeq(q, 1, k) \in Seq(Frame)
           /\ Len(SubSeq(q, 1, k)) = k
           /\ \A i \in 1..k : SubSeq(q, 1, k)[i] = q[i]
  OBVIOUS

\* The numbers of a handle and of the frames of a pipe are natural numbers.
LEMMA HandleNumbers ==
    ASSUME NEW g \in StreamHandle
    PROVE  /\ g.rcvd \in Nat /\ g.sent \in Nat
           /\ g.recv_window \in Nat /\ g.send_window \in Nat
           /\ g.read_buf \in Nat /\ g.max_recv_window \in Nat /\ g.read \in Nat
  BY DEF StreamHandle

LEMMA FrameNumbers ==
    ASSUME NEW q \in Seq(Frame)
    PROVE  /\ Len(q) \in Nat
           /\ \A i \in 1..Len(q) :
                 q[i] \in Frame /\ q[i].upto \in Nat /\ q[i].length \in Nat
<1>1. Len(q) \in Nat /\ \A i \in 1..Len(q) : q[i] \in Frame
  OBVIOUS
<1>2. \A f \in Frame : f.upto \in Nat /\ f.length \in Nat
  BY DEF Frame
<1> QED BY <1>1, <1>2

(***************************************************************************)
(* What every step of a handle other than receiving a frame does: from g   *)
(* to k, handing at most one frame to the session.                         *)
(***************************************************************************)
DataFrom(g, k, f) ==
    /\ IsData(f) /\ f.upto = k.sent /\ Start(f) = g.sent /\ "Fin" \notin f.flags

UpdateFrom(g, k, f) ==
    /\ ~IsData(f) /\ k.sent = g.sent
    /\ f.upto = k.rcvd + k.recv_window
    /\ Start(f) >= g.rcvd + g.recv_window

Local(g, k, frames) ==
    /\ k \in StreamHandle
    /\ k.max_recv_window = g.max_recv_window
    /\ k.recv_window + k.read_buf <= k.max_recv_window
    /\ k.read + k.read_buf = k.rcvd
    /\ k.rcvd = g.rcvd /\ k.fin = g.fin
    /\ k.sent + k.send_window = g.sent + g.send_window
    /\ k.sent >= g.sent
    /\ k.recv_window >= g.recv_window
    /\ k.writeable_wake => k.send_window = 0
    /\ g.state \notin ReadableStates => k.state \notin ReadableStates
    /\ g.state = "Closed" => k.state = "Closed"
    /\ \/ frames = <<>> /\ k.sent = g.sent
       \/ \E f \in Frame : frames = <<f>> /\ (DataFrom(g, k, f) \/ UpdateFrom(g, k, f))

\* The end that acts: nothing that its own pipe is compared with has changed.
LEMMA OwnSide ==
    ASSUME NEW g \in StreamHandle, NEW k \in StreamHandle, NEW r \in StreamHandle,
           NEW q \in Seq(Frame), NEW frames,
           Local(g, k, frames)
    PROVE  /\ CreditOK(g, q, r) => CreditOK(k, q, r)
           /\ DataOK(g, q, r) => DataOK(k, q, r)
           /\ NoGap(g, q) => NoGap(k, q)
           /\ FinOK(g, q, r) => FinOK(k, q, r)
           /\ Complete(g, q, Len(q) + 1, r) => Complete(k, q, Len(q) + 1, r)
<1>1. CreditOK(g, q, r) => CreditOK(k, q, r)
  BY DEF Local, CreditOK
<1>2. DataOK(g, q, r) => DataOK(k, q, r)
  BY DEF Local, DataOK
<1>3. NoGap(g, q) => NoGap(k, q)
  BY DEF Local, NoGap
<1>4. FinOK(g, q, r) => FinOK(k, q, r)
  BY DEF Local, FinOK, Complete
<1>5. Complete(g, q, Len(q) + 1, r) => Complete(k, q, Len(q) + 1, r)
  BY DEF Local, Complete
<1> QED BY <1>1, <1>2, <1>3, <1>4, <1>5

\* An empty pipe satisfies what only speaks of frames in flight.
LEMMA EmptyPipe ==
    ASSUME NEW g \in StreamHandle, NEW q \in Seq(Frame), NEW r \in StreamHandle
    PROVE  /\ <<>> \in Seq(Frame)
           /\ CreditOK(g, q, r) => CreditOK(g, <<>>, r)
           /\ DataOK(g, q, r) => DataOK(g, <<>>, r)
           /\ NoGap(g, <<>>)
           /\ FinOK(g, q, r) => FinOK(g, <<>>, r)
  BY DEF CreditOK, DataOK, NoGap, FinOK

\* The other end, when no frame reaches it.
LEMMA PeerSideLost ==
    ASSUME NEW g \in StreamHandle, NEW k \in StreamHandle, NEW r \in StreamHandle,
           NEW q \in Seq(Frame), NEW frames,
           Local(g, k, frames)
    PROVE  /\ CreditOK(r, q, g) => CreditOK(r, q, k)
           /\ DataOK(r, q, g) => DataOK(r, q, k)
           /\ FinOK(r, q, g) /\ k.sent = g.sent => FinOK(r, q, k)
           /\ FinOK(r, q, g) /\ ~Announced(r, q) => FinOK(r, q, k)
<1>l. /\ k.rcvd = g.rcvd /\ k.sent >= g.sent /\ k.recv_window >= g.recv_window
      /\ k.rcvd + k.recv_window >= g.rcvd + g.recv_window
  BY HandleNumbers, SMTT(30) DEF Local
<1>1. CreditOK(r, q, g) => CreditOK(r, q, k)
  <2> SUFFICES ASSUME CreditOK(r, q, g) PROVE CreditOK(r, q, k)
    OBVIOUS
  <2>1. r.sent + r.send_window <= k.rcvd + k.recv_window
    BY <1>l, HandleNumbers DEF CreditOK
  <2>2. ASSUME NEW i \in 1..Len(q), ~IsData(q[i])
        PROVE  r.sent + r.send_window <= Start(q[i]) /\ q[i].upto <= k.rcvd + k.recv_window
    BY <2>2, <1>l, HandleNumbers, FrameNumbers DEF CreditOK
  <2> QED BY <2>1, <2>2 DEF CreditOK
<1>2. DataOK(r, q, g) => DataOK(r, q, k)
  <2> SUFFICES ASSUME DataOK(r, q, g) PROVE DataOK(r, q, k)
    OBVIOUS
  <2>1. r.rcvd <= k.sent
    BY <1>l, HandleNumbers DEF DataOK
  <2>2. ASSUME NEW i \in 1..Len(q), IsData(q[i])
        PROVE  r.rcvd <= Start(q[i]) /\ q[i].upto <= k.sent
    BY <2>2, <1>l, HandleNumbers, FrameNumbers DEF DataOK
  <2> QED BY <2>1, <2>2 DEF DataOK
<1>3. FinOK(r, q, g) /\ k.sent = g.sent => FinOK(r, q, k)
  BY DEF FinOK, Complete
<1>4. FinOK(r, q, g) /\ ~Announced(r, q) => FinOK(r, q, k)
  BY DEF FinOK, Announced
<1> QED BY <1>1, <1>2, <1>3, <1>4

\* The other end, when the frame is added to its pipe.
LEMMA PeerSideArrives ==
    ASSUME NEW g \in StreamHandle, NEW k \in StreamHandle, NEW r \in StreamHandle,
           NEW q \in Seq(Frame), NEW f \in Frame,
           Local(g, k, <<f>>), DataFrom(g, k, f) \/ UpdateFrom(g, k, f),
           Announced(r, q) => UpdateFrom(g, k, f),
           CreditOK(r, q, g), DataOK(r, q, g), NoGap(r, q), FinOK(r, q, g),
           Complete(r, q, Len(q) + 1, g)
    PROVE  /\ CreditOK(r, q \o <<f>>, k)
           /\ DataOK(r, q \o <<f>>, k)
           /\ NoGap(r, q \o <<f>>)
           /\ FinOK(r, q \o <<f>>, k)
           /\ Complete(r, q \o <<f>>, Len(q \o <<f>>) + 1, k)
<1> DEFINE p == q \o <<f>>
<1>0. /\ p \in Seq(Frame) /\ Len(p) = Len(q) + 1 /\ Len(q) \in Nat
      /\ \A i \in 1..Len(q) : p[i] = q[i] /\ q[i] \in Frame
      /\ p[Len(q) + 1] = f
  BY AppendFrame
<1> HIDE DEF p
<1>t. /\ g.rcvd \in Nat /\ g.recv_window \in Nat /\ g.sent \in Nat /\ g.send_window \in Nat
      /\ k.rcvd \in Nat /\ k.recv_window \in Nat /\ k.sent \in Nat /\ k.send_window \in Nat
      /\ r.rcvd \in Nat /\ r.recv_window \in Nat /\ r.sent \in Nat /\ r.send_window \in Nat
      /\ f.upto \in Nat /\ f.length \in Nat
      /\ \A i \in 1..Len(q) : q[i].upto \in Nat /\ q[i].length \in Nat
  BY <1>0 DEF StreamHandle, Frame
<1>l. /\ k.rcvd = g.rcvd /\ k.sent + k.send_window = g.sent + g.send_window
      /\ k.sent >= g.sent /\ k.recv_window >= g.recv_window
  BY DEF Local
<1>c. CreditOK(r, q, k) /\ DataOK(r, q, k)
  BY PeerSideLost
<1>1. CreditOK(r, p, k)
  <2>1. r.sent + r.send_window <= k.rcvd + k.recv_window
    BY <1>c DEF CreditOK
  <2>2. ASSUME NEW i \in 1..Len(p), ~IsData(p[i])
        PROVE  r.sent + r.send_window <= Start(p[i]) /\ p[i].upto <= k.rcvd + k.recv_window
    <3>1. CASE i \in 1..Len(q)
      BY <2>2, <3>1, <1>0, <1>c DEF CreditOK
    <3>2. CASE i = Len(q) + 1
      <4>1. r.sent + r.send_window <= g.rcvd + g.recv_window
        BY DEF CreditOK
      <4>2. p[i] = f /\ UpdateFrom(g, k, f)
        BY <2>2, <3>2, <1>0 DEF DataFrom
      <4>3. f.upto = k.rcvd + k.recv_window /\ f.upto - f.length >= g.rcvd + g.recv_window
        BY <4>2 DEF UpdateFrom
      <4>4. r.sent + r.send_window <= f.upto - f.length
        BY <4>1, <4>3, <1>t, Below, Zenon
      <4>5. f.upto <= k.rcvd + k.recv_window
        BY <4>3, <1>t
      <4> QED BY <4>2, <4>4, <4>5
    <3> QED BY <3>1, <3>2, <1>0
  <2>3. ASSUME NEW i \in 1..Len(p), NEW j \in 1..Len(p), i < j,
               ~IsData(p[i]), ~IsData(p[j])
        PROVE  p[i].upto <= Start(p[j])
    <3>1. CASE j \in 1..Len(q)
      BY <2>3, <3>1, <1>0, <1>c DEF CreditOK
    <3>2. CASE j = Len(q) + 1
      <4>1. i \in 1..Len(q) /\ p[i].upto <= g.rcvd + g.recv_window
        BY <2>3, <3>2, <1>0 DEF CreditOK
      <4>2. p[j] = f /\ UpdateFrom(g, k, f) /\ p[i].upto \in Nat
        BY <2>3, <3>2, <4>1, <1>0, <1>t DEF DataFrom
      <4>3. f.upto - f.length >= g.rcvd + g.recv_window
        BY <4>2 DEF UpdateFrom
      <4>4. p[i].upto <= Start(f)
        BY <4>1, <4>2, <4>3, <1>t, BelowOne, Zenon
      <4> QED BY <4>2, <4>4
    <3> QED BY <3>1, <3>2, <1>0
  <2> QED BY <2>1, <2>2, <2>3 DEF CreditOK
<1>2. DataOK(r, p, k)
  <2>1. r.rcvd <= k.sent
    BY <1>c DEF DataOK
  <2>2. ASSUME NEW i \in 1..Len(p), IsData(p[i])
        PROVE  r.rcvd <= Start(p[i]) /\ p[i].upto <= k.sent
    <3>1. CASE i \in 1..Len(q)
      BY <2>2, <3>1, <1>0, <1>c DEF DataOK
    <3>2. CASE i = Len(q) + 1
      <4>1. r.rcvd <= g.sent
        BY DEF DataOK
      <4> QED BY <2>2, <3>2, <4>1, <1>0, <1>t, SMTT(30) DEF DataFrom, UpdateFrom
    <3> QED BY <3>1, <3>2, <1>0
  <2>3. ASSUME NEW i \in 1..Len(p), NEW j \in 1..Len(p), i < j, IsData(p[i]), IsData(p[j])
        PROVE  p[i].upto <= Start(p[j])
    <3>1. CASE j \in 1..Len(q)
      BY <2>3, <3>1, <1>0, <1>c DEF DataOK
    <3>2. CASE j = Len(q) + 1
      <4>1. i \in 1..Len(q) /\ p[i].upto <= g.sent
        BY <2>3, <3>2, <1>0 DEF DataOK
      <4> QED BY <2>3, <3>2, <4>1, <1>0, <1>t DEF DataFrom, UpdateFrom
    <3> QED BY <3>1, <3>2, <1>0
  <2> QED BY <2>1, <2>2, <2>3 DEF DataOK
<1>3. NoGap(r, p)
  <2> SUFFICES ASSUME NEW i \in 1..Len(p), IsData(p[i])
               PROVE  \/ Start(p[i]) = r.rcvd
                      \/ \E j \in 1..(i - 1) : IsData(p[j]) /\ p[j].upto = Start(p[i])
    BY DEF NoGap
  <2>1. CASE i \in 1..Len(q)
    BY <2>1, <1>0, SMTT(30) DEF NoGap
  <2>2. CASE i = Len(q) + 1
    BY <2>2, <1>0 DEF Complete, DataFrom, UpdateFrom
  <2> QED BY <2>1, <2>2, <1>0
<1>4. FinOK(r, p, k)
  <2>1. r.fin => r.rcvd = k.sent /\ r.state \notin ReadableStates
    BY DEF FinOK, Announced, UpdateFrom
  <2>2. ASSUME NEW i \in 1..Len(q), "Fin" \in q[i].flags
        PROVE  /\ Complete(r, p, i, k)
               /\ \A j \in (i + 1)..Len(p) : ~IsData(p[j])
    <3>1. Complete(r, q, i, g) /\ \A j \in (i + 1)..Len(q) : ~IsData(q[j])
      BY <2>2 DEF FinOK
    <3>2. k.sent = g.sent /\ ~IsData(f)
      BY <2>2 DEF Announced, UpdateFrom
    <3>3. Complete(r, p, i, k)
      BY <3>1, <3>2, <1>0, SMTT(30) DEF Complete
    <3>4. ASSUME NEW j \in (i + 1)..Len(p) PROVE ~IsData(p[j])
      <4>1. CASE j \in 1..Len(q)
        BY <3>1, <4>1, <1>0
      <4>2. CASE j = Len(q) + 1
        BY <3>2, <4>2, <1>0
      <4> QED BY <4>1, <4>2, <1>0
    <3> QED BY <3>3, <3>4
  <2>3. "Fin" \in f.flags => Complete(r, p, Len(q) + 1, k)
    BY <1>0 DEF Complete, DataFrom, UpdateFrom
  <2> QED BY <2>1, <2>2, <2>3, <1>0 DEF FinOK
<1>5. Complete(r, p, Len(p) + 1, k)
  <2>1. CASE DataFrom(g, k, f)
    BY <2>1, <1>0 DEF Complete, DataFrom
  <2>2. CASE UpdateFrom(g, k, f)
    BY <2>2, <1>0 DEF Complete, UpdateFrom
  <2> QED BY <2>1, <2>2
<1> QED BY <1>1, <1>2, <1>3, <1>4, <1>5 DEF p

(***************************************************************************)
(* What handling the frame f without an error does: from g to k.           *)
(***************************************************************************)
Received(g, k, f) ==
    /\ k \in StreamHandle
    /\ k.sent = g.sent
    /\ k.fin => g.fin \/ "Fin" \in f.flags
    /\ "Fin" \in f.flags => k.state \notin ReadableStates
    /\ IsData(f) => /\ k.rcvd = f.upto /\ k.send_window = g.send_window
                    /\ k.recv_window = g.recv_window - f.length
    /\ ~IsData(f) => /\ k.rcvd = g.rcvd /\ k.recv_window = g.recv_window
                     /\ k.send_window = g.send_window + f.length

\* The next Data frame starts exactly where the receiver is.
LEMMA HeadStart ==
    ASSUME NEW g \in StreamHandle, NEW q \in Seq(Frame), q # <<>>,
           NoGap(g, q), IsData(Head(q))
    PROVE  Start(Head(q)) = g.rcvd
<1>1. Head(q) = q[1] /\ 1 \in 1..Len(q) /\ \A j \in 1..(1 - 1) : FALSE
  BY TailFrame
<1> QED BY <1>1 DEF NoGap

\* The end that receives.
LEMMA ReceiveSide ==
    ASSUME NEW g \in StreamHandle, NEW k \in StreamHandle, NEW r \in StreamHandle,
           NEW q \in Seq(Frame), q # <<>>, Received(g, k, Head(q)), g.state \in ReadableStates,
           CreditOK(g, q, r), DataOK(g, q, r), NoGap(g, q), FinOK(g, q, r)
    PROVE  /\ CreditOK(k, Tail(q), r)
           /\ DataOK(k, Tail(q), r)
           /\ NoGap(k, Tail(q))
           /\ FinOK(k, Tail(q), r)
           /\ Complete(g, q, Len(q) + 1, r) => Complete(k, Tail(q), Len(Tail(q)) + 1, r)
           /\ Announced(k, Tail(q)) => Announced(g, q)
           /\ k.rcvd + k.recv_window = g.rcvd + g.recv_window
<1> DEFINE f == Head(q)
           t == Tail(q)
<1>0. /\ f = q[1] /\ f \in Frame /\ t \in Seq(Frame) /\ Len(q) \in Nat /\ Len(q) >= 1
      /\ Len(t) = Len(q) - 1 /\ \A i \in 1..Len(t) : t[i] = q[i + 1] /\ i + 1 \in 1..Len(q)
      /\ 1 \in 1..Len(q)
  BY TailFrame
<1>t. /\ g.rcvd \in Nat /\ g.recv_window \in Nat /\ g.sent \in Nat /\ g.send_window \in Nat
      /\ k.rcvd \in Nat /\ k.recv_window \in Nat /\ k.sent \in Nat /\ k.send_window \in Nat
      /\ r.rcvd \in Nat /\ r.recv_window \in Nat /\ r.sent \in Nat
      /\ f.upto \in Nat /\ f.length \in Nat
  BY <1>0, HandleNumbers, FrameNumbers
<1>q. \A i \in 1..Len(q) : q[i].upto \in Nat /\ q[i].length \in Nat
  BY FrameNumbers
<1>s. IsData(f) => f.upto - f.length = g.rcvd
  BY HeadStart
<1>r. Received(g, k, f)
  OBVIOUS
<1> HIDE DEF f, t
<1>1. CreditOK(k, t, r)
  <2>0. k.sent + k.send_window <= r.rcvd + r.recv_window
        /\ (IsData(f) => k.sent + k.send_window = g.sent + g.send_window)
        /\ (~IsData(f) => k.sent + k.send_window <= f.upto)
    <3>1. g.sent + g.send_window <= r.rcvd + r.recv_window
      BY DEF CreditOK
    <3>2. CASE IsData(f)
      <4>1. k.sent = g.sent /\ k.send_window = g.send_window
        BY <1>r, <3>2 DEF Received
      <4> QED BY <3>1, <3>2, <4>1
    <3>3. CASE ~IsData(f)
      <4>1. k.sent = g.sent /\ k.send_window = g.send_window + f.length
        BY <1>r, <3>3 DEF Received
      <4>2. g.sent + g.send_window <= f.upto - f.length /\ f.upto <= r.rcvd + r.recv_window
        BY <1>0, <3>3 DEF CreditOK
      <4>3. /\ g.sent + (g.send_window + f.length) <= f.upto
            /\ g.sent + (g.send_window + f.length) <= r.rcvd + r.recv_window
        BY <4>2, <1>t, Granted, Zenon
      <4> QED BY <3>3, <4>1, <4>3
    <3> QED BY <3>2, <3>3
  <2>1. ASSUME NEW i \in 1..Len(t), ~IsData(t[i])
        PROVE  k.sent + k.send_window <= Start(t[i]) /\ t[i].upto <= r.rcvd + r.recv_window
    <3>1. t[i] = q[i + 1] /\ i + 1 \in 1..Len(q) /\ 1 < i + 1 /\ ~IsData(q[i + 1])
      BY <2>1, <1>0
    <3>2. /\ g.sent + g.send_window <= Start(q[i + 1])
          /\ q[i + 1].upto <= r.rcvd + r.recv_window
          /\ ~IsData(q[1]) => q[1].upto <= Start(q[i + 1])
      BY <3>1, <1>0 DEF CreditOK
    <3>3. CASE IsData(f)
      BY <3>1, <3>2, <3>3, <2>0
    <3>4. CASE ~IsData(f)
      <4>1. k.sent + k.send_window <= f.upto /\ f.upto <= q[i + 1].upto - q[i + 1].length
        BY <3>2, <3>4, <2>0, <1>0
      <4>2. q[i + 1].upto \in Nat /\ q[i + 1].length \in Nat
        BY <3>1, <1>q
      <4>3. k.sent + k.send_window <= q[i + 1].upto - q[i + 1].length
        BY <4>1, <4>2, <1>t, BelowStart, Zenon
      <4> QED BY <3>1, <3>2, <4>3
    <3> QED BY <3>3, <3>4
  <2>2. ASSUME NEW i \in 1..Len(t), NEW j \in 1..Len(t), i < j, ~IsData(t[i]), ~IsData(t[j])
        PROVE  t[i].upto <= Start(t[j])
    <3>a. t[i] = q[i + 1] /\ i + 1 \in 1..Len(q)
      BY <1>0
    <3>b. t[j] = q[j + 1] /\ j + 1 \in 1..Len(q)
      BY <1>0
    <3>1. i + 1 < j + 1
      BY <2>2, <1>0
    <3> QED BY <2>2, <3>a, <3>b, <3>1 DEF CreditOK
  <2> QED BY <2>0, <2>1, <2>2 DEF CreditOK
<1>2. DataOK(k, t, r)
  <2>0. k.rcvd <= r.sent /\ (IsData(f) => k.rcvd = f.upto) /\ (~IsData(f) => k.rcvd = g.rcvd)
    BY <1>0, <1>r DEF DataOK, Received
  <2>1. ASSUME NEW i \in 1..Len(t), IsData(t[i])
        PROVE  k.rcvd <= Start(t[i]) /\ t[i].upto <= r.sent
    <3>1. t[i] = q[i + 1] /\ i + 1 \in 1..Len(q) /\ 1 < i + 1 /\ IsData(q[i + 1])
      BY <2>1, <1>0
    <3>2. /\ g.rcvd <= Start(q[i + 1]) /\ q[i + 1].upto <= r.sent
          /\ IsData(q[1]) => q[1].upto <= Start(q[i + 1])
      BY <3>1, <1>0 DEF DataOK
    <3> QED BY <3>1, <3>2, <2>0, <1>0
  <2>2. ASSUME NEW i \in 1..Len(t), NEW j \in 1..Len(t), i < j, IsData(t[i]), IsData(t[j])
        PROVE  t[i].upto <= Start(t[j])
    <3>a. t[i] = q[i + 1] /\ i + 1 \in 1..Len(q)
      BY <1>0
    <3>b. t[j] = q[j + 1] /\ j + 1 \in 1..Len(q)
      BY <1>0
    <3>1. i + 1 < j + 1
      BY <2>2, <1>0
    <3> QED BY <2>2, <3>a, <3>b, <3>1 DEF DataOK
  <2> QED BY <2>0, <2>1, <2>2 DEF DataOK
\* A Data frame at index n that is in flight when f is taken is either f, and then
\* received, or still in flight.
<1>m. ASSUME NEW n \in Nat, n <= Len(q), NEW x,
             \E j \in 1..n : IsData(q[j]) /\ q[j].upto = x
      PROVE  k.rcvd = x \/ \E j \in 1..(n - 1) : IsData(t[j]) /\ t[j].upto = x
  <2>1. PICK j \in 1..n : IsData(q[j]) /\ q[j].upto = x
    BY <1>m
  <2>2. CASE j = 1
    BY <2>1, <2>2, <1>0, <1>r DEF Received
  <2>3. CASE j # 1
    <3>1. j - 1 \in 1..(n - 1) /\ j - 1 \in 1..Len(t) /\ t[j - 1] = q[j]
      BY <2>3, <1>m, <1>0
    <3> QED BY <2>1, <3>1
  <2> QED BY <2>2, <2>3
<1>3. NoGap(k, t)
  <2> SUFFICES ASSUME NEW i \in 1..Len(t), IsData(t[i])
               PROVE  \/ Start(t[i]) = k.rcvd
                      \/ \E j \in 1..(i - 1) : IsData(t[j]) /\ t[j].upto = Start(t[i])
    BY DEF NoGap
  <2>1. t[i] = q[i + 1] /\ i + 1 \in 1..Len(q) /\ i \in Nat /\ i <= Len(q) /\ (i + 1) - 1 = i
    BY <1>0
  <2>2. \/ Start(t[i]) = g.rcvd
        \/ \E j \in 1..i : IsData(q[j]) /\ q[j].upto = Start(t[i])
    BY <2>1 DEF NoGap
  <2>3. CASE Start(t[i]) = g.rcvd
    <3>1. CASE ~IsData(f)
      BY <2>3, <3>1, <1>r DEF Received
    <3>2. CASE IsData(f)
      <4>1. f.upto <= Start(t[i])
        BY <2>1, <3>2, <1>0 DEF DataOK
      <4>2. k.rcvd = f.upto
        BY <3>2, <1>r DEF Received
      <4>3. t[i].upto \in Nat /\ t[i].length \in Nat
        BY <2>1, <1>q
      <4> QED BY <4>1, <4>2, <4>3, <2>3, <3>2, <1>s, <1>t, SMTT(30)
    <3> QED BY <3>1, <3>2
  <2>4. CASE \E j \in 1..i : IsData(q[j]) /\ q[j].upto = Start(t[i])
    BY <2>1, <2>4, <1>m
  <2> QED BY <2>2, <2>3, <2>4
\* If everything r has sent was received or in flight before an index, it still is.
<1>n. ASSUME NEW n \in Nat, n <= Len(q), Complete(g, q, n + 1, r)
      PROVE  Complete(k, t, n, r)
  <2>0. (n + 1) - 1 = n
    BY <1>n
  <2>1. CASE g.rcvd = r.sent
    <3>1. IsData(f) => g.rcvd <= Start(f) /\ f.upto <= r.sent
      BY <1>0 DEF DataOK
    <3>2. /\ IsData(f) => k.rcvd = f.upto
          /\ ~IsData(f) => k.rcvd = g.rcvd
      BY <1>r DEF Received
    <3>3. IsData(f) => f.upto <= r.sent /\ f.upto - f.length >= r.sent
      BY <2>1, <3>1, <1>t
    <3>4. k.rcvd = r.sent
      BY <2>1, <3>2, <3>3, <1>t, SMTT(30)
    <3> QED BY <3>4 DEF Complete
  <2>2. CASE \E j \in 1..n : IsData(q[j]) /\ q[j].upto = r.sent
    BY <1>n, <1>m, <2>2 DEF Complete
  <2> QED BY <1>n, <2>0, <2>1, <2>2 DEF Complete
<1>4. FinOK(k, t, r)
  <2>1. k.fin => k.rcvd = r.sent /\ k.state \notin ReadableStates
    <3> SUFFICES ASSUME k.fin PROVE k.rcvd = r.sent /\ k.state \notin ReadableStates
      OBVIOUS
    <3>1. "Fin" \in f.flags
      BY <1>r DEF Received, FinOK
    <3>2. Complete(g, q, 0 + 1, r)
      BY <3>1, <1>0 DEF FinOK
    <3>3. Complete(k, t, 0, r)
      BY <3>2, <1>n, <1>0
    <3> QED BY <3>1, <3>3, <1>r DEF Complete, Received
  <2>2. ASSUME NEW i \in 1..Len(t), "Fin" \in t[i].flags
        PROVE  Complete(k, t, i, r) /\ \A j \in (i + 1)..Len(t) : ~IsData(t[j])
    <3>1. t[i] = q[i + 1] /\ i + 1 \in 1..Len(q) /\ i \in Nat /\ i <= Len(q)
      BY <1>0
    <3>2. /\ Complete(g, q, i + 1, r)
          /\ \A j \in (i + 2)..Len(q) : ~IsData(q[j])
      BY <2>2, <3>1 DEF FinOK
    <3>3. ASSUME NEW j \in (i + 1)..Len(t) PROVE ~IsData(t[j])
      <4>1. t[j] = q[j + 1] /\ j + 1 \in (i + 2)..Len(q)
        BY <1>0
      <4> QED BY <3>2, <4>1
    <3> QED BY <3>1, <3>2, <3>3, <1>n
  <2> QED BY <2>1, <2>2 DEF FinOK
<1>5. Complete(g, q, Len(q) + 1, r) => Complete(k, t, Len(t) + 1, r)
  BY <1>n, <1>0
<1>6. Announced(k, t) => Announced(g, q)
  BY <1>0, <1>r DEF Announced, Received
<1>7. k.rcvd + k.recv_window = g.rcvd + g.recv_window
  BY <1>s, <1>t, <1>r, SMTT(30) DEF Received
<1> QED BY <1>1, <1>2, <1>3, <1>4, <1>5, <1>6, <1>7 DEF f, t

\* A cut pipe keeps what a whole one promises, except that it is complete.
LEMMA CutSide ==
    ASSUME NEW g \in StreamHandle, NEW r \in StreamHandle, NEW q \in Seq(Frame),
           NEW k \in 0..Len(q)
    PROVE  /\ CreditOK(g, q, r) => CreditOK(g, SubSeq(q, 1, k), r)
           /\ DataOK(g, q, r) => DataOK(g, SubSeq(q, 1, k), r)
           /\ NoGap(g, q) => NoGap(g, SubSeq(q, 1, k))
           /\ FinOK(g, q, r) => FinOK(g, SubSeq(q, 1, k), r)
           /\ Announced(g, SubSeq(q, 1, k)) => Announced(g, q)
<1> DEFINE p == SubSeq(q, 1, k)
<1>0. Len(p) = k /\ Len(q) \in Nat /\ \A i \in 1..k : p[i] = q[i] /\ i \in 1..Len(q)
  BY PrefixFrame
<1> HIDE DEF p
<1>1. CreditOK(g, q, r) => CreditOK(g, p, r)
  BY <1>0 DEF CreditOK
<1>2. DataOK(g, q, r) => DataOK(g, p, r)
  BY <1>0 DEF DataOK
<1>3. NoGap(g, q) => NoGap(g, p)
  BY <1>0 DEF NoGap
<1>4. FinOK(g, q, r) => FinOK(g, p, r)
  BY <1>0 DEF FinOK, Complete
<1>5. Announced(g, p) => Announced(g, q)
  BY <1>0 DEF Announced
<1> QED BY <1>1, <1>2, <1>3, <1>4, <1>5 DEF p

-----------------------------------------------------------------------------
(***************************************************************************)
(* The inductive invariant                                                 *)
(***************************************************************************)
LEMMA Peers ==
    ASSUME NEW e \in End
    PROVE  /\ Peer(e) \in End /\ Peer(e) # e /\ Peer(Peer(e)) = e
           /\ \A x \in End : x = e \/ x = Peer(e)
  BY DEF End, Peer

DoneStates == {"LocalClosing", "Closed", "Reset"}

\* A step of one handle that takes no frame preserves the invariant, whether its
\* own frame reaches the other end or is lost.
LEMMA LocalStep ==
    ASSUME Inductive, NEW e \in End, NEW o, NEW l \in {"live", "gone"},
           life[e] # "gone",
           Local(h[e], o.h, o.frames), o.event # "GoAway",
           Finished(e) => /\ o.h.state \in DoneStates \/ l = "gone" \/ dropped[e]
                          /\ \A f \in Frame : o.frames = <<f>> => ~IsData(f),
           \A f \in Frame : o.frames = <<f>> /\ "Fin" \in f.flags =>
                               o.h.state \in DoneStates \/ l = "gone" \/ dropped[e],
           Does(e, o, IF l = "gone" THEN <<>> ELSE pipe[e]),
           life' = [life EXCEPT ![e] = l]
    PROVE  Inductive'
<1> DEFINE p == Peer(e)
           k == o.h
<1>0. p \in End /\ p # e /\ Peer(p) = e /\ Peer(e) = p /\ \A x \in End : x = e \/ x = p
  BY Peers
<1>1. TypeOK /\ HandleOK(e) /\ HandleOK(p)
  BY <1>0 DEF Inductive
<1>2. /\ h[e] \in StreamHandle /\ h[p] \in StreamHandle /\ k \in StreamHandle
      /\ pipe[e] \in Seq(Frame) /\ pipe[p] \in Seq(Frame)
  BY <1>0, <1>1 DEF TypeOK, Local
<1>e. /\ CreditOK(h[e], pipe[e], h[p]) /\ DataOK(h[e], pipe[e], h[p])
      /\ NoGap(h[e], pipe[e]) /\ FinOK(h[e], pipe[e], h[p])
      /\ Announced(h[e], pipe[e]) => Finished(p)
      /\ Takes(e) => Complete(h[e], pipe[e], Len(pipe[e]) + 1, h[p])
  BY <1>0 DEF Inductive
<1>p. /\ CreditOK(h[p], pipe[p], h[e]) /\ DataOK(h[p], pipe[p], h[e])
      /\ NoGap(h[p], pipe[p]) /\ FinOK(h[p], pipe[p], h[e])
      /\ Announced(h[p], pipe[p]) => Finished(e)
      /\ Takes(p) => Complete(h[p], pipe[p], Len(pipe[p]) + 1, h[e])
  BY <1>0 DEF Inductive
<1>3. /\ h'[e] = k /\ h'[p] = h[p]
      /\ pipe'[e] = IF k.state = "Closed" \/ l = "gone" THEN <<>> ELSE pipe[e]
      /\ pipe'[p] = IF Takes(p) THEN pipe[p] \o o.frames ELSE pipe[p]
      /\ life'[e] = l /\ life'[p] = life[p]
      /\ failed'[e] = failed[e] /\ failed'[p] = failed[p]
      /\ cut' = cut /\ dropped' = dropped
      /\ DOMAIN h' = End /\ DOMAIN pipe' = End /\ DOMAIN life' = End /\ DOMAIN failed' = End
  BY <1>0, <1>1 DEF Does, Arrive, TypeOK
\* The other end: the frame is appended, or nothing happens to its pipe.
<1>4. /\ CreditOK(h[p], pipe'[p], k) /\ DataOK(h[p], pipe'[p], k)
      /\ NoGap(h[p], pipe'[p]) /\ FinOK(h[p], pipe'[p], k)
      /\ Takes(p) => Complete(h[p], pipe'[p], Len(pipe'[p]) + 1, k)
      /\ pipe'[p] \in Seq(Frame)
      /\ ~Takes(p) => pipe'[p] = pipe[p]
      /\ \/ Announced(h[p], pipe'[p]) => Announced(h[p], pipe[p])
         \/ \E f \in Frame : o.frames = <<f>> /\ "Fin" \in f.flags
  <2>1. CASE pipe'[p] = pipe[p] /\ k.sent = h[e].sent
    <3>1. /\ CreditOK(h[p], pipe[p], k) /\ DataOK(h[p], pipe[p], k)
          /\ FinOK(h[p], pipe[p], k)
      BY <1>2, <1>p, <2>1, PeerSideLost
    <3>2. Takes(p) => Complete(h[p], pipe[p], Len(pipe[p]) + 1, k)
      BY <1>p, <2>1 DEF Complete
    <3> QED BY <1>2, <1>p, <2>1, <3>1, <3>2
  <2>2. CASE ~Takes(p)
    <3>0. pipe'[p] = pipe[p]
      BY <1>3, <2>2
    <3>1. CreditOK(h[p], pipe[p], k) /\ DataOK(h[p], pipe[p], k)
      BY <1>2, <1>p, PeerSideLost
    <3>2. FinOK(h[p], pipe[p], k)
      <4>1. CASE Announced(h[p], pipe[p])
        <5>1. k.sent = h[e].sent
          BY <4>1, <1>p DEF Local, DataFrom, UpdateFrom
        <5> QED BY <5>1, <1>2, <1>p, PeerSideLost
      <4>2. CASE ~Announced(h[p], pipe[p])
        BY <4>2, <1>2, <1>p, PeerSideLost
      <4> QED BY <4>1, <4>2
    <3> QED BY <2>2, <3>0, <3>1, <3>2, <1>2, <1>p
  <2>3. ASSUME NEW f \in Frame, o.frames = <<f>>, Takes(p),
               DataFrom(h[e], k, f) \/ UpdateFrom(h[e], k, f)
        PROVE  /\ CreditOK(h[p], pipe'[p], k) /\ DataOK(h[p], pipe'[p], k)
               /\ NoGap(h[p], pipe'[p]) /\ FinOK(h[p], pipe'[p], k)
               /\ Complete(h[p], pipe'[p], Len(pipe'[p]) + 1, k)
               /\ pipe'[p] \in Seq(Frame)
               /\ \/ Announced(h[p], pipe'[p]) => Announced(h[p], pipe[p])
                  \/ "Fin" \in f.flags
    <3>0. pipe'[p] = pipe[p] \o <<f>>
      BY <1>3, <2>3
    <3>1. Announced(h[p], pipe[p]) => UpdateFrom(h[e], k, f)
      BY <1>p, <2>3 DEF DataFrom
    <3>2. Local(h[e], k, <<f>>)
      BY <2>3
    <3>3. Complete(h[p], pipe[p], Len(pipe[p]) + 1, h[e])
      BY <1>p, <2>3
    <3>4. /\ CreditOK(h[p], pipe[p] \o <<f>>, k) /\ DataOK(h[p], pipe[p] \o <<f>>, k)
          /\ NoGap(h[p], pipe[p] \o <<f>>) /\ FinOK(h[p], pipe[p] \o <<f>>, k)
          /\ Complete(h[p], pipe[p] \o <<f>>, Len(pipe[p] \o <<f>>) + 1, k)
      BY <1>2, <1>p, <2>3, <3>1, <3>2, <3>3, PeerSideArrives
    <3>5. \/ Announced(h[p], pipe[p] \o <<f>>) => Announced(h[p], pipe[p])
          \/ "Fin" \in f.flags
      <4> DEFINE q == pipe[p]
                 r == q \o <<f>>
      <4>1. /\ Len(r) = Len(q) + 1 /\ Len(q) \in Nat /\ r[Len(q) + 1] = f
            /\ \A i \in 1..Len(q) : r[i] = q[i]
        BY <1>2, AppendFrame
      <4> HIDE DEF q, r
      <4>2. \/ Announced(h[p], r) => Announced(h[p], q)
            \/ "Fin" \in f.flags
        BY <4>1 DEF Announced
      <4> QED BY <4>2 DEF q, r
    <3>6. pipe[p] \o <<f>> \in Seq(Frame)
      BY <1>2, AppendFrame
    <3> QED BY <3>0, <3>4, <3>5, <3>6
  <2>4. CASE o.frames = <<>>
    <3>1. k.sent = h[e].sent
      BY <2>4 DEF Local
    <3>2. pipe'[p] = pipe[p]
      BY <1>2, <1>3, <2>4
    <3> QED BY <2>1, <3>1, <3>2
  <2>5. CASE \E f \in Frame : o.frames = <<f>> /\ (DataFrom(h[e], k, f) \/ UpdateFrom(h[e], k, f))
    <3>1. CASE Takes(p)
      BY <2>3, <2>5, <3>1
    <3> QED BY <2>2, <3>1
  <2> QED BY <2>4, <2>5 DEF Local
\* The end that acts.
<1>5. /\ CreditOK(k, pipe'[e], h[p]) /\ DataOK(k, pipe'[e], h[p])
      /\ NoGap(k, pipe'[e]) /\ FinOK(k, pipe'[e], h[p])
      /\ Announced(k, pipe'[e]) => Announced(h[e], pipe[e])
      /\ pipe'[e] \in Seq(Frame)
      /\ pipe'[e] = pipe[e] /\ Complete(h[e], pipe[e], Len(pipe[e]) + 1, h[p])
            => Complete(k, pipe'[e], Len(pipe'[e]) + 1, h[p])
  <2>1. /\ CreditOK(k, pipe[e], h[p]) /\ DataOK(k, pipe[e], h[p])
        /\ NoGap(k, pipe[e]) /\ FinOK(k, pipe[e], h[p])
        /\ Complete(h[e], pipe[e], Len(pipe[e]) + 1, h[p])
              => Complete(k, pipe[e], Len(pipe[e]) + 1, h[p])
    BY <1>2, <1>e, OwnSide
  <2>2. k.fin = h[e].fin
    BY DEF Local
  <2>3. CASE pipe'[e] = pipe[e]
    <3>1. Announced(k, pipe[e]) => Announced(h[e], pipe[e])
      BY <2>2 DEF Announced
    <3> QED BY <1>2, <2>1, <2>3, <3>1
  <2>4. CASE pipe'[e] = <<>> /\ pipe'[e] # pipe[e]
    <3>1. Announced(k, <<>>) => Announced(h[e], pipe[e])
      BY <2>2 DEF Announced
    <3> QED BY <1>2, <2>1, <2>4, <3>1, EmptyPipe
  <2> QED BY <1>3, <2>3, <2>4
<1>6. TypeOK'
  <2>1. \A x \in End : /\ h'[x] \in StreamHandle /\ pipe'[x] \in Seq(Frame)
                       /\ life'[x] \in {"none", "live", "gone"} /\ failed'[x] \in BOOLEAN
    BY <1>0, <1>1, <1>2, <1>3, <1>4, <1>5 DEF TypeOK
  <2>2. h' \in [End -> StreamHandle]
    BY <1>1, <2>1 DEF TypeOK, Does
  <2>3. pipe' \in [End -> Seq(Frame)]
    BY <1>1, <2>1 DEF TypeOK, Does
  <2>4. life' \in [End -> {"none", "live", "gone"}] /\ failed' \in [End -> BOOLEAN]
    BY <1>1, <2>1 DEF TypeOK, Does
  <2> QED BY <1>1, <1>3, <2>2, <2>3, <2>4 DEF TypeOK
<1>7. HandleOK(e)' /\ HandleOK(p)'
  <2>1. HandleOK(e)'
    BY <1>0, <1>1, <1>3 DEF HandleOK, Local
  <2>2. HandleOK(p)'
    <3>1. (life[p] = "gone" \/ h[p].state = "Closed") => ~Takes(p)
      BY DEF Takes
    <3> QED BY <1>0, <1>1, <1>3, <1>4, <3>1 DEF HandleOK
  <2> QED BY <2>1, <2>2
<1>8. /\ (Announced(h[e], pipe[e]) => Finished(p))'
      /\ (Announced(h[p], pipe[p]) => Finished(e))'
  <2>1. Finished(p)' <=> Finished(p)
    BY <1>3 DEF Finished
  <2>2. (Announced(h[e], pipe[e]) => Finished(p))'
    BY <1>3, <1>5, <1>e, <2>1
  <2>3. (k.state \in DoneStates \/ l = "gone" \/ dropped[e]) => Finished(e)'
    BY <1>3 DEF Finished, DoneStates
  <2>4. (Announced(h[p], pipe[p]) => Finished(e))'
    BY <1>3, <1>4, <1>p, <2>3
  <2> QED BY <2>2, <2>4
<1>9. /\ (Takes(e) => Complete(h[e], pipe[e], Len(pipe[e]) + 1, h[p]))'
      /\ (Takes(p) => Complete(h[p], pipe[p], Len(pipe[p]) + 1, h[e]))'
  <2>1. Takes(p)' <=> Takes(p)
    BY <1>3 DEF Takes
  <2>2. Takes(e)' => Takes(e) /\ pipe'[e] = pipe[e]
    BY <1>3 DEF Takes, Local
  <2> QED BY <1>3, <1>4, <1>5, <1>e, <2>1, <2>2
<1>10. ASSUME NEW x \in End
       PROVE  (/\ HandleOK(x)
               /\ CreditOK(h[x], pipe[x], h[Peer(x)])
               /\ DataOK(h[x], pipe[x], h[Peer(x)])
               /\ NoGap(h[x], pipe[x])
               /\ FinOK(h[x], pipe[x], h[Peer(x)])
               /\ Announced(h[x], pipe[x]) => Finished(Peer(x))
               /\ Takes(x) => Complete(h[x], pipe[x], Len(pipe[x]) + 1, h[Peer(x)]))'
  <2>1. CASE x = e
    BY <1>0, <1>3, <1>5, <1>7, <1>8, <1>9, <2>1
  <2>2. CASE x = p
    BY <1>0, <1>3, <1>4, <1>7, <1>8, <1>9, <2>2
  <2> QED BY <1>0, <2>1, <2>2
<1> QED BY <1>6, <1>10 DEF Inductive

-----------------------------------------------------------------------------
(***************************************************************************)
(* The methods of StreamHandle are such steps                              *)
(***************************************************************************)

\* What the invariant says of a single handle.
Sound(g) == /\ g \in StreamHandle
            /\ g.recv_window + g.read_buf <= g.max_recv_window
            /\ g.read + g.read_buf = g.rcvd
            /\ g.writeable_wake => g.send_window = 0

\* A method's outcome, as LocalStep wants it: Data only from a writable stream, and
\* a stream that is done sending, or announces it, is done afterwards.
Fits(g, o) ==
    /\ Local(g, o.h, o.frames)
    /\ o.event # "GoAway"
    /\ g.state \in DoneStates => /\ o.h.state \in DoneStates
                                 /\ \A f \in Frame : o.frames = <<f>> => ~IsData(f)
    /\ \A f \in Frame : o.frames = <<f>> /\ "Fin" \in f.flags => o.h.state \in DoneStates

\* get_flags attaches SYN or ACK, and advances the state of an open stream only.
LEMMA FlagsFacts ==
    ASSUME NEW g \in StreamHandle
    PROVE  /\ get_flags(g) \in SUBSET Flag /\ "Fin" \notin get_flags(g)
           /\ Flagged(g) \in StreamHandle
           /\ Flagged(g) = [g EXCEPT !.state = Flagged(g).state]
           /\ Flagged(g).state = g.state \/ (g.state \in OpenStates /\ Flagged(g).state \in OpenStates)
  BY DEF get_flags, Flagged, StreamHandle, StreamState, OpenStates, Flag

\* A one-frame outcome holds exactly that frame.
LEMMA OneFrame ==
    ASSUME NEW f, NEW x, <<f>> = <<x>>
    PROVE  f = x
  OBVIOUS

\* send_window_update grants the free part of the buffer, or nothing.
LEMMA UpdateFits ==
    ASSUME NEW g, Sound(g)
    PROVE  Fits(g, send_window_update(g))
<1> DEFINE o == send_window_update(g)
           k == [Flagged(g) EXCEPT !.recv_window = @ + delta(g)]
           f == new_window_update(get_flags(g), g.id, delta(g),
                                  g.rcvd + g.recv_window + delta(g))
<1>1. g \in StreamHandle
  BY DEF Sound
<1>2. delta(g) \in Nat /\ g.recv_window + delta(g) = g.max_recv_window - g.read_buf
  BY <1>1, HandleNumbers DEF delta, Sound
<1>3. Flagged(g) \in StreamHandle
      /\ (Flagged(g).state = g.state \/ (g.state \in OpenStates /\ Flagged(g).state \in OpenStates))
      /\ get_flags(g) \in SUBSET Flag /\ "Fin" \notin get_flags(g)
      /\ Flagged(g).recv_window = g.recv_window /\ Flagged(g).read_buf = g.read_buf
      /\ Flagged(g).max_recv_window = g.max_recv_window
      /\ Flagged(g).rcvd = g.rcvd /\ Flagged(g).sent = g.sent
      /\ Flagged(g).send_window = g.send_window /\ Flagged(g).fin = g.fin
      /\ Flagged(g).writeable_wake = g.writeable_wake /\ Flagged(g).read = g.read
  BY <1>1, FlagsFacts DEF Flagged, StreamHandle
<1>4. (g.state \in DoneStates => Flagged(g).state \in DoneStates)
      /\ (g.state \notin ReadableStates => Flagged(g).state \notin ReadableStates)
      /\ (g.state = "Closed" => Flagged(g).state = "Closed")
  BY <1>3 DEF DoneStates, OpenStates, ReadableStates
<1>5. CASE o = Outcome(Flagged(g), <<>>, "None")
  <2>1. o.h = Flagged(g) /\ o.frames = <<>> /\ o.event = "None"
    BY <1>5 DEF Outcome
  <2>2. Local(g, o.h, o.frames)
    BY <1>1, <1>3, <1>4, <2>1, HandleNumbers DEF Local, Sound
  <2> QED BY <1>4, <2>1, <2>2 DEF Fits
<1>6. CASE o = Outcome(k, <<f>>, "None")
  <2>1. o.h = k /\ o.frames = <<f>> /\ o.event = "None"
    BY <1>6 DEF Outcome
  <2>2. /\ k.recv_window = g.recv_window + delta(g) /\ k.state = Flagged(g).state
        /\ k.read_buf = g.read_buf /\ k.max_recv_window = g.max_recv_window
        /\ k.rcvd = g.rcvd /\ k.sent = g.sent /\ k.send_window = g.send_window
        /\ k.fin = g.fin /\ k.writeable_wake = g.writeable_wake /\ k.read = g.read
    BY <1>3 DEF StreamHandle
  <2>3. k \in StreamHandle
    BY <1>1, <1>2, <1>3, HandleNumbers DEF StreamHandle
  <2>4. f \in Frame /\ f.ty = "WindowUpdate" /\ f.length = delta(g) /\ f.flags = get_flags(g)
        /\ f.upto = g.rcvd + g.recv_window + delta(g)
    BY <1>1, <1>2, <1>3, HandleNumbers DEF new_window_update, Frame, StreamHandle
  <2> HIDE DEF k, f
  <2>5. UpdateFrom(g, k, f)
    BY <1>1, <1>2, <2>2, <2>4, HandleNumbers DEF UpdateFrom
  <2>6. k.recv_window + k.read_buf <= k.max_recv_window /\ k.recv_window >= g.recv_window
    BY <1>1, <1>2, <2>2, HandleNumbers
  <2>7. Local(g, k, <<f>>)
    BY <1>1, <1>4, <2>2, <2>3, <2>4, <2>5, <2>6, HandleNumbers DEF Local, Sound
  <2>8. \A x \in Frame : <<f>> = <<x>> => ~IsData(x) /\ "Fin" \notin x.flags
    BY <1>3, <2>4, OneFrame
  <2> QED BY <1>4, <2>1, <2>2, <2>7, <2>8 DEF Fits
<1> QED BY <1>5, <1>6 DEF send_window_update

\* poll_read frees buffer space before it may grant it.
LEMMA ReadFits ==
    ASSUME NEW g, Sound(g), NEW n \in 1..g.read_buf
    PROVE  Fits(g, poll_read(g, n))
<1> DEFINE k == [g EXCEPT !.read_buf = @ - n, !.read = @ + n]
<1>1. g \in StreamHandle
  BY DEF Sound
<1>2. /\ k \in StreamHandle /\ k.read_buf = g.read_buf - n /\ k.recv_window = g.recv_window
      /\ k.max_recv_window = g.max_recv_window /\ k.rcvd = g.rcvd /\ k.sent = g.sent
      /\ k.send_window = g.send_window /\ k.fin = g.fin /\ k.state = g.state
      /\ k.writeable_wake = g.writeable_wake /\ k.read = g.read + n
  <2> DEFINE a == g.read_buf - n
             b == g.read + n
  <2>1. a \in Nat /\ b \in Nat /\ k = [g EXCEPT !.read_buf = a, !.read = b]
    BY <1>1, HandleNumbers
  <2> HIDE DEF a, b, k
  <2>2. k \in StreamHandle
    BY <1>1, <2>1 DEF StreamHandle
  <2>3. /\ k.read_buf = a /\ k.recv_window = g.recv_window
        /\ k.max_recv_window = g.max_recv_window /\ k.rcvd = g.rcvd /\ k.sent = g.sent
        /\ k.send_window = g.send_window /\ k.fin = g.fin /\ k.state = g.state
        /\ k.writeable_wake = g.writeable_wake /\ k.read = b
    BY <1>1, <2>1 DEF StreamHandle
  <2> QED BY <2>2, <2>3 DEF a, b
<1>3. Sound(k)
  BY <1>1, <1>2, HandleNumbers DEF Sound
<1>4. poll_read(g, n) = IF g.state \in {"RemoteClosing", "Closed", "Reset"}
                        THEN Outcome(k, <<>>, "None") ELSE send_window_update(k)
  BY DEF poll_read
<1> HIDE DEF k
<1>5. Fits(g, Outcome(k, <<>>, "None"))
  <2>1. Local(g, k, <<>>)
    BY <1>1, <1>2, <1>3, HandleNumbers DEF Local, Sound
  <2> QED BY <1>2, <2>1 DEF Fits, Outcome
<1>6. Fits(g, send_window_update(k))
  <2> DEFINE o == send_window_update(k)
  <2>1. Fits(k, o)
    BY <1>3, UpdateFits
  <2> HIDE DEF o
  <2>2. Local(g, o.h, o.frames)
    BY <1>1, <1>2, <2>1, HandleNumbers DEF Fits, Local, DataFrom, UpdateFrom
  <2> QED BY <1>2, <2>1, <2>2 DEF Fits, o
<1> QED BY <1>4, <1>5, <1>6

\* poll_write charges what it sends to the window.
LEMMA WriteFits ==
    ASSUME NEW g, Sound(g), NEW n \in 0..g.send_window, g.send_window > 0,
           g.state \in WritableStates
    PROVE  Fits(g, poll_write(g, n)) /\ Fits(g, PollWriteBroken(g))
<1> DEFINE k == [Flagged(g) EXCEPT !.send_window = @ - n, !.sent = @ + n]
           f == new_data(get_flags(g), g.id, n, g.sent + n)
<1>1. g \in StreamHandle /\ g.send_window \in Nat /\ g.sent \in Nat /\ n \in Nat
  BY HandleNumbers DEF Sound
<1>3. Flagged(g) \in StreamHandle
      /\ (Flagged(g).state = g.state \/ (g.state \in OpenStates /\ Flagged(g).state \in OpenStates))
      /\ get_flags(g) \in SUBSET Flag /\ "Fin" \notin get_flags(g)
      /\ Flagged(g).recv_window = g.recv_window /\ Flagged(g).read_buf = g.read_buf
      /\ Flagged(g).max_recv_window = g.max_recv_window
      /\ Flagged(g).rcvd = g.rcvd /\ Flagged(g).sent = g.sent
      /\ Flagged(g).send_window = g.send_window /\ Flagged(g).fin = g.fin
      /\ Flagged(g).writeable_wake = g.writeable_wake /\ Flagged(g).read = g.read
  BY <1>1, FlagsFacts DEF Flagged, StreamHandle
<1>4. g.state \notin DoneStates /\ g.state # "Closed"
      /\ (g.state \notin ReadableStates => Flagged(g).state \notin ReadableStates)
  BY <1>3 DEF DoneStates, OpenStates, ReadableStates, WritableStates
<1>5. Fits(g, PollWriteBroken(g))
  <2>1. Local(g, Flagged(g), <<>>)
    BY <1>1, <1>3, <1>4, HandleNumbers DEF Local, Sound
  <2> QED BY <1>4, <2>1 DEF Fits, Outcome, PollWriteBroken
<1>6. Fits(g, poll_write(g, n))
  <2>1. poll_write(g, n) = Outcome(k, <<f>>, "None")
    BY DEF poll_write
  <2>2. /\ k.recv_window = g.recv_window /\ k.state = Flagged(g).state
        /\ k.read_buf = g.read_buf /\ k.max_recv_window = g.max_recv_window
        /\ k.rcvd = g.rcvd /\ k.sent = g.sent + n /\ k.send_window = g.send_window - n
        /\ k.fin = g.fin /\ k.writeable_wake = g.writeable_wake /\ k.read = g.read
    <3> DEFINE x == Flagged(g)
    <3>1. x \in StreamHandle
      BY <1>3
    <3>2. k = [x EXCEPT !.send_window = @ - n, !.sent = @ + n]
      OBVIOUS
    <3> HIDE DEF x, k
    <3>3. /\ k.recv_window = x.recv_window /\ k.state = x.state
          /\ k.read_buf = x.read_buf /\ k.max_recv_window = x.max_recv_window
          /\ k.rcvd = x.rcvd /\ k.sent = x.sent + n /\ k.send_window = x.send_window - n
          /\ k.fin = x.fin /\ k.writeable_wake = x.writeable_wake /\ k.read = x.read
      BY <3>1, <3>2 DEF StreamHandle
    <3> QED BY <1>3, <3>3 DEF x
  <2>3. k \in StreamHandle
    <3> DEFINE x == Flagged(g)
               a == g.send_window - n
               b == g.sent + n
    <3>1. x \in StreamHandle /\ a \in Nat /\ b \in Nat
      BY <1>1, <1>3
    <3>2. k = [x EXCEPT !.send_window = a, !.sent = b]
      BY <1>3
    <3> HIDE DEF x, a, b, k
    <3> QED BY <3>1, <3>2 DEF StreamHandle
  <2>4. f \in Frame /\ f.ty = "Data" /\ f.length = n /\ f.flags = get_flags(g)
        /\ f.upto = g.sent + n
    BY <1>1, <1>3 DEF new_data, Frame, StreamHandle
  <2> HIDE DEF k, f
  <2>5. DataFrom(g, k, f)
    BY <1>1, <1>3, <2>2, <2>4 DEF DataFrom
  <2>6. /\ k.sent + k.send_window = g.sent + g.send_window /\ k.sent >= g.sent
        /\ k.recv_window + k.read_buf <= k.max_recv_window /\ k.recv_window >= g.recv_window
        /\ ~g.writeable_wake /\ k.read + k.read_buf = k.rcvd
    BY <1>1, <2>2, HandleNumbers DEF Sound
  <2>7. Local(g, k, <<f>>)
    BY <1>4, <2>2, <2>3, <2>4, <2>5, <2>6 DEF Local
  <2>8. \A x \in Frame : <<f>> = <<x>> => "Fin" \notin x.flags
    BY <1>3, <2>4, OneFrame
  <2> QED BY <1>4, <2>1, <2>7, <2>8 DEF Fits, Outcome
<1> QED BY <1>5, <1>6

\* A writer without credit only leaves its waker.
LEMMA PendingFits ==
    ASSUME NEW g, Sound(g), g.send_window = 0
    PROVE  Fits(g, PollWritePending(g))
<1> DEFINE k == [g EXCEPT !.writeable_wake = TRUE]
<1>1. /\ g \in StreamHandle /\ k \in StreamHandle /\ k.read_buf = g.read_buf
      /\ k.recv_window = g.recv_window
      /\ k.max_recv_window = g.max_recv_window /\ k.rcvd = g.rcvd /\ k.sent = g.sent
      /\ k.send_window = g.send_window /\ k.fin = g.fin /\ k.state = g.state
      /\ k.read = g.read
  BY DEF Sound, StreamHandle
<1>2. PollWritePending(g) = Outcome(k, <<>>, "None")
  BY DEF PollWritePending
<1> HIDE DEF k
<1>3. Local(g, k, <<>>)
  BY <1>1, HandleNumbers DEF Local, Sound
<1> QED BY <1>1, <1>2, <1>3 DEF Fits, Outcome

\* A change of state alone, with an empty update that may carry FIN or RST.
LEMMA StateFits ==
    ASSUME NEW g, Sound(g), NEW s \in StreamState, NEW flags \in SUBSET Flag,
           NEW event, event # "GoAway",
           g.state \in DoneStates => s \in DoneStates,
           g.state \notin ReadableStates => s \notin ReadableStates,
           g.state = "Closed" => s = "Closed",
           "Fin" \in flags => s \in DoneStates
    PROVE  /\ Fits(g, Outcome([g EXCEPT !.state = s], <<>>, event))
           /\ Fits(g, Outcome([g EXCEPT !.state = s],
                              <<new_window_update(flags, g.id, 0, g.rcvd + g.recv_window)>>,
                              event))
<1> DEFINE k == [g EXCEPT !.state = s]
           f == new_window_update(flags, g.id, 0, g.rcvd + g.recv_window)
<1>1. /\ g \in StreamHandle /\ k \in StreamHandle /\ k.read_buf = g.read_buf
      /\ k.recv_window = g.recv_window /\ k.writeable_wake = g.writeable_wake
      /\ k.max_recv_window = g.max_recv_window /\ k.rcvd = g.rcvd /\ k.sent = g.sent
      /\ k.send_window = g.send_window /\ k.fin = g.fin /\ k.state = s
      /\ k.read = g.read
  BY DEF Sound, StreamHandle
<1>2. f \in Frame /\ f.ty = "WindowUpdate" /\ f.length = 0 /\ f.flags = flags
      /\ f.upto = g.rcvd + g.recv_window
  BY <1>1, HandleNumbers DEF new_window_update, Frame, StreamHandle
<1> HIDE DEF k, f
<1>3. Local(g, k, <<>>)
  BY <1>1, HandleNumbers DEF Local, Sound
<1>4. UpdateFrom(g, k, f)
  BY <1>1, <1>2, HandleNumbers DEF UpdateFrom
<1>5. Local(g, k, <<f>>)
  BY <1>1, <1>2, <1>4, HandleNumbers DEF Local, Sound
<1>6. \A x \in Frame : <<f>> = <<x>> => ~IsData(x) /\ x.flags = flags
  BY <1>2, OneFrame
<1>7. Fits(g, Outcome(k, <<>>, event))
  BY <1>1, <1>3 DEF Fits, Outcome
<1>8. Fits(g, Outcome(k, <<f>>, event))
  BY <1>1, <1>5, <1>6 DEF Fits, Outcome
<1> QED BY <1>7, <1>8 DEF k, f

\* close() and drop() are changes of state with at most one empty update.
LEMMA CloseFits ==
    ASSUME NEW g, Sound(g)
    PROVE  Fits(g, close(g))
<1>1. g.state \in StreamState
  BY DEF Sound, StreamHandle
<1>2. /\ "LocalClosing" \in StreamState /\ "Closed" \in StreamState
      /\ "LocalClosing" \in DoneStates /\ "Closed" \in DoneStates
      /\ "Closed" \notin ReadableStates /\ {"Fin"} \in SUBSET Flag
  BY DEF StreamState, DoneStates, ReadableStates, OpenStates, Flag
<1>3. CASE g.state \in OpenStates
  <2>1. g.state \in ReadableStates /\ g.state # "Closed" /\ g.state # "RemoteClosing"
    BY <1>3 DEF ReadableStates, OpenStates
  <2>2. close(g) = Outcome([g EXCEPT !.state = "LocalClosing"], send_close(g), "None")
    BY <1>3, <2>1 DEF close
  <2> QED BY <1>2, <2>1, <2>2, StateFits DEF send_close
<1>4. CASE g.state = "RemoteClosing"
  <2>0. g.state \notin OpenStates
    BY <1>4 DEF OpenStates
  <2>1. close(g) = Outcome([g EXCEPT !.state = "Closed"], send_close(g), "Closed")
    BY <1>4, <2>0 DEF close
  <2> QED BY <1>2, <2>1, StateFits DEF send_close
<1>5. CASE g.state \notin OpenStates /\ g.state # "RemoteClosing"
  <2>1. close(g) = Outcome([g EXCEPT !.state = "Closed"], <<>>, "Closed")
    BY <1>5 DEF close
  <2> QED BY <1>2, <2>1, StateFits
<1> QED BY <1>3, <1>4, <1>5

LEMMA DropFits ==
    ASSUME NEW g, Sound(g)
    PROVE  /\ Fits(g, drop(g))
           /\ \A f \in Frame : drop(g).frames = <<f>> => ~IsData(f)
           /\ Fits(g, Outcome(g, <<>>, "None"))
<1>1. g \in StreamHandle /\ g.state \in StreamState /\ g = [g EXCEPT !.state = g.state]
  BY DEF Sound, StreamHandle
<1>2. \A event : event # "GoAway" => Fits(g, Outcome(g, <<>>, event))
  <2> SUFFICES ASSUME NEW event, event # "GoAway"
               PROVE  Fits(g, Outcome([g EXCEPT !.state = g.state], <<>>, event))
    BY <1>1
  <2>1. {} \in SUBSET Flag /\ "Fin" \notin {}
    OBVIOUS
  <2> QED BY <1>1, <2>1, StateFits
<1>3. CASE g.state \in {"Closed", "LocalClosing", "Reset"}
  <2>1. drop(g) = Outcome(g, <<>>, "None") \/ drop(g) = Outcome(g, <<>>, "Closed")
    BY <1>3 DEF drop
  <2> QED BY <1>2, <2>1 DEF Outcome
<1>4. CASE g.state \notin {"Closed", "LocalClosing", "Reset"}
  <2> DEFINE s == Flagged(g).state
             flags == get_flags(g) \cup {"Rst"}
             x == new_window_update(flags, g.id, 0, g.rcvd + g.recv_window)
  <2>1. drop(g) = Outcome(Flagged(g), <<x>>, "Closed")
    BY <1>4 DEF drop
  <2>2. /\ Flagged(g) = [g EXCEPT !.state = s] /\ s \in StreamState
        /\ flags \in SUBSET Flag /\ "Fin" \notin flags
        /\ s = g.state \/ (g.state \in OpenStates /\ s \in OpenStates)
    BY <1>1, FlagsFacts DEF StreamHandle, Flag
  <2>3. /\ g.state \in DoneStates => s \in DoneStates
        /\ g.state \notin ReadableStates => s \notin ReadableStates
        /\ g.state = "Closed" => s = "Closed"
    BY <2>2 DEF DoneStates, ReadableStates, OpenStates
  <2>4. Fits(g, Outcome([g EXCEPT !.state = s], <<x>>, "Closed"))
    BY <2>2, <2>3, StateFits
  <2>5. x.ty = "WindowUpdate"
    BY DEF new_window_update
  <2>6. \A f \in Frame : <<x>> = <<f>> => ~IsData(f)
    BY <2>5, OneFrame
  <2>7. Fits(g, drop(g))
    BY <2>1, <2>2, <2>4
  <2>8. drop(g).frames = <<x>>
    BY <2>1 DEF Outcome
  <2> HIDE DEF x
  <2>9. Fits(g, Outcome(g, <<>>, "None"))
    BY <1>2
  <2> QED BY <2>6, <2>7, <2>8, <2>9
<1> QED BY <1>2, <1>3, <1>4

-----------------------------------------------------------------------------
(***************************************************************************)
(* Every action preserves the invariant, and no credit is taken back       *)
(***************************************************************************)
Grows ==
    \A e \in End :
        /\ h'[e].sent + h'[e].send_window >= h[e].sent + h[e].send_window
        /\ h'[e].rcvd + h'[e].recv_window >= h[e].rcvd + h[e].recv_window

\* In the invariant every handle is sound.
LEMMA AllSound ==
    ASSUME Inductive, NEW e \in End
    PROVE  Sound(h[e]) /\ h[e] \in StreamHandle /\ h[e].max_recv_window = max_window_size(e)
  BY DEF Inductive, TypeOK, HandleOK, Sound

\* The methods that take no frame.
LEMMA MethodStep ==
    ASSUME Inductive, NEW e \in End, NEW o, NEW l \in {"live", "gone"},
           life[e] # "gone", Fits(h[e], o),
           dropped[e] => \A f \in Frame : o.frames = <<f>> => ~IsData(f),
           Does(e, o, IF l = "gone" THEN <<>> ELSE pipe[e]),
           life' = [life EXCEPT ![e] = l]
    PROVE  Inductive' /\ Grows
<1>1. Local(h[e], o.h, o.frames) /\ o.event # "GoAway"
  BY DEF Fits
<1>2. Finished(e) => /\ o.h.state \in DoneStates \/ l = "gone" \/ dropped[e]
                     /\ \A f \in Frame : o.frames = <<f>> => ~IsData(f)
  BY DEF Finished, Fits, DoneStates
<1>3. \A f \in Frame : o.frames = <<f>> /\ "Fin" \in f.flags =>
                           o.h.state \in DoneStates \/ l = "gone" \/ dropped[e]
  BY DEF Fits
<1>4. Inductive'
  BY <1>1, <1>2, <1>3, LocalStep
<1>5. Grows
  <2>1. h'[e] = o.h /\ \A x \in End : x # e => h'[x] = h[x]
    BY DEF Does, Inductive, TypeOK
  <2>2. h[e] \in StreamHandle /\ o.h \in StreamHandle
    BY <1>1, AllSound DEF Local
  <2>3. /\ o.h.sent + o.h.send_window >= h[e].sent + h[e].send_window
        /\ o.h.rcvd + o.h.recv_window >= h[e].rcvd + h[e].recv_window
    BY <1>1, <2>2, HandleNumbers, SMTT(30) DEF Local
  <2>4. \A x \in End : h[x].sent + h[x].send_window \in Nat /\ h[x].rcvd + h[x].recv_window \in Nat
    <3> SUFFICES ASSUME NEW x \in End
                 PROVE  /\ h[x].sent + h[x].send_window \in Nat
                        /\ h[x].rcvd + h[x].recv_window \in Nat
      OBVIOUS
    <3>1. h[x] \in StreamHandle
      BY AllSound
    <3> QED BY <3>1, HandleNumbers
  <2> QED BY <2>1, <2>3, <2>4, SMTT(30) DEF Grows
<1> QED BY <1>4, <1>5

\* No frame in flight is an error for its receiver: the credit was there.
LEMMA NoFrameError ==
    ASSUME Inductive, NEW e \in End, CanRecv(h[e]), pipe[e] # <<>>
    PROVE  ~FrameError(h[e], Head(pipe[e]))
<1> DEFINE p == Peer(e)
           g == h[e]
           r == h[p]
           f == Head(pipe[e])
<1>0. p \in End /\ Peer(p) = e
  BY Peers
<1>1. /\ g \in StreamHandle /\ r \in StreamHandle /\ pipe[e] \in Seq(Frame)
      /\ r.max_recv_window = max_window_size(p) /\ Sound(r)
  BY <1>0, AllSound DEF Inductive, TypeOK
<1>2. CreditOK(g, pipe[e], r) /\ DataOK(g, pipe[e], r) /\ NoGap(g, pipe[e])
      /\ CreditOK(r, pipe[p], g)
  BY <1>0 DEF Inductive
<1>3. f = pipe[e][1] /\ 1 \in 1..Len(pipe[e]) /\ f \in Frame
  BY <1>1, TailFrame
<1>4. /\ g.rcvd \in Nat /\ g.sent \in Nat /\ g.recv_window \in Nat /\ g.send_window \in Nat
      /\ r.rcvd \in Nat /\ r.sent \in Nat /\ r.recv_window \in Nat /\ r.send_window \in Nat
      /\ r.read_buf \in Nat
      /\ f.upto \in Nat /\ f.length \in Nat
  BY <1>1, <1>3, HandleNumbers, FrameNumbers
<1>5. max_window_size(p) \in Nat /\ max_window_size(p) <= U32Max /\ U32Max \in Nat
  BY ConfigAssumption, WindowAssumption DEF max_window_size
<1>6. g.rcvd <= r.sent
  BY <1>2 DEF DataOK
<1>7. r.rcvd <= g.sent /\ g.sent + g.send_window <= r.rcvd + r.recv_window
  <2>1. DataOK(r, pipe[p], g)
    BY <1>0 DEF Inductive
  <2> QED BY <1>2, <2>1 DEF CreditOK, DataOK
<1>8. r.sent + r.send_window <= g.rcvd + g.recv_window
  BY <1>2 DEF CreditOK
<1>9. ~UnexpectedFlag(g.state, f.flags)
  BY DEF UnexpectedFlag, CanRecv
<1>10. ~(f.ty = "WindowUpdate" /\ g.send_window + f.length > U32Max)
  <2> SUFFICES ASSUME f.ty = "WindowUpdate" PROVE g.send_window + f.length <= U32Max
    BY <1>4, <1>5, SMTT(30)
  <2>1. ~IsData(f)
    OBVIOUS
  <2>2. g.sent + g.send_window <= f.upto - f.length /\ f.upto <= r.rcvd + r.recv_window
    BY <1>2, <1>3, <2>1 DEF CreditOK
  <2>3. r.recv_window + r.read_buf <= max_window_size(p)
    BY <1>1 DEF Sound
  <2> HIDE DEF g, r, f, p
  <2> QED BY <1>4, <1>5, <1>7, <2>2, <2>3, CreditFits, Zenon
<1>11. ~(f.ty = "Data" /\ f.length > g.recv_window)
  <2> SUFFICES ASSUME f.ty = "Data" PROVE f.length <= g.recv_window
    BY <1>4
  <2>1. f.upto - f.length = g.rcvd
    BY <1>1, <1>2, HeadStart
  <2>2. f.upto <= r.sent
    BY <1>2, <1>3 DEF DataOK
  <2> HIDE DEF g, r, f, p
  <2> QED BY <1>4, <1>8, <2>1, <2>2, DataFits, Zenon
<1> QED BY <1>9, <1>10, <1>11 DEF FrameError

\* process_flags: FIN ends reading, and a stream done sending stays done.
LEMMA ProcessFlagsFacts ==
    ASSUME NEW s \in ReadableStates, NEW flags \in SUBSET Flag
    PROVE  /\ process_flags(s, flags) \in StreamState
           /\ "Fin" \in flags => process_flags(s, flags) \notin ReadableStates
           /\ s \in DoneStates => process_flags(s, flags) \in DoneStates
  BY DEF process_flags, ReadableStates, OpenStates, StreamState, DoneStates

\* What handling a frame that is no error leaves behind.
LEMMA HandleFrame ==
    ASSUME NEW g, Sound(g), CanRecv(g), NEW f \in Frame, ~FrameError(g, f),
           IsData(f) => Start(f) = g.rcvd
    PROVE  LET o == handle_frame(g, f) IN
           /\ Received(g, o.h, f) /\ Sound(o.h) /\ o.h.max_recv_window = g.max_recv_window
           /\ o.frames = <<>> /\ o.event = "None"
           /\ g.state \in DoneStates => o.h.state \in DoneStates
<1> DEFINE s == process_flags(g.state, f.flags)
           w == WithFlags(g, f)
           o == handle_frame(g, f)
<1>1. /\ g \in StreamHandle /\ g.state \in ReadableStates /\ g.read_buf = 0
      /\ f.length \in Nat /\ f.upto \in Nat /\ f.flags \in SUBSET Flag
      /\ f.ty \in {"Data", "WindowUpdate"}
  BY DEF Sound, CanRecv, Frame
<1>2. /\ s \in StreamState /\ ("Fin" \in f.flags => s \notin ReadableStates)
      /\ (g.state \in DoneStates => s \in DoneStates)
  BY <1>1, ProcessFlagsFacts
<1>3. /\ w \in StreamHandle /\ w.state = s /\ w.sent = g.sent /\ w.rcvd = g.rcvd
      /\ w.recv_window = g.recv_window /\ w.send_window = g.send_window
      /\ w.read_buf = g.read_buf /\ w.max_recv_window = g.max_recv_window
      /\ w.writeable_wake = g.writeable_wake /\ w.read = g.read
      /\ w.fin => g.fin \/ "Fin" \in f.flags
  BY <1>1, <1>2 DEF WithFlags, StreamHandle
<1>4. /\ g.recv_window \in Nat /\ g.send_window \in Nat /\ g.max_recv_window \in Nat
      /\ g.recv_window <= g.max_recv_window
      /\ g.rcvd \in Nat /\ g.read = g.rcvd
  BY <1>1, HandleNumbers DEF Sound
<1> HIDE DEF s, w
<1>5. CASE f.ty = "Data"
  <2> DEFINE k == [w EXCEPT !.read_buf = f.length, !.rcvd = f.upto,
                            !.recv_window = @ - f.length]
  <2>1. o = Outcome(k, <<>>, "None")
    BY <1>5 DEF handle_frame, handle_data, w
  <2>2. f.length <= g.recv_window
    BY <1>1, <1>4, <1>5 DEF FrameError
  <2>3. /\ k.state = s /\ k.sent = g.sent /\ k.rcvd = f.upto
        /\ k.recv_window = g.recv_window - f.length /\ k.send_window = g.send_window
        /\ k.read_buf = f.length /\ k.max_recv_window = g.max_recv_window
        /\ k.writeable_wake = g.writeable_wake /\ k.fin = w.fin /\ k.read = g.read
    BY <1>3 DEF StreamHandle
  <2>4. k \in StreamHandle
    <3>1. g.recv_window - f.length \in Nat
      BY <1>1, <1>4, <2>2
    <3> QED BY <1>1, <1>3, <3>1 DEF StreamHandle
  <2> HIDE DEF k
  <2>5. Received(g, k, f)
    BY <1>2, <1>3, <1>5, <2>3, <2>4 DEF Received
  <2>6. Sound(k)
    <3>1. k.recv_window + k.read_buf <= k.max_recv_window
      BY <1>1, <1>4, <2>2, <2>3
    <3>2. k.writeable_wake => k.send_window = 0
      BY <2>3 DEF Sound
    <3>3. k.read + k.read_buf = k.rcvd
      BY <1>1, <1>4, <1>5, <2>3
    <3> QED BY <2>4, <3>1, <3>2, <3>3 DEF Sound
  <2> QED BY <1>2, <2>1, <2>3, <2>5, <2>6 DEF Outcome
<1>6. CASE f.ty = "WindowUpdate"
  <2> DEFINE k == [w EXCEPT !.send_window = @ + f.length, !.writeable_wake = FALSE]
  <2>1. o = Outcome(k, <<>>, "None")
    BY <1>6 DEF handle_frame, handle_window_update, w
  <2>3. /\ k.state = s /\ k.sent = g.sent /\ k.rcvd = g.rcvd
        /\ k.recv_window = g.recv_window /\ k.send_window = g.send_window + f.length
        /\ k.read_buf = g.read_buf /\ k.max_recv_window = g.max_recv_window
        /\ k.writeable_wake = FALSE /\ k.fin = w.fin /\ k.read = g.read
    BY <1>3 DEF StreamHandle
  <2>4. k \in StreamHandle
    <3>1. g.send_window + f.length \in Nat
      BY <1>1, <1>4
    <3> QED BY <1>1, <1>3, <3>1 DEF StreamHandle
  <2> HIDE DEF k
  <2>5. Received(g, k, f)
    BY <1>2, <1>3, <1>6, <2>3, <2>4 DEF Received
  <2>6. Sound(k)
    BY <2>3, <2>4 DEF Sound
  <2> QED BY <1>2, <2>1, <2>3, <2>5, <2>6 DEF Outcome
<1> QED BY <1>1, <1>5, <1>6

\* Receiving a frame preserves the invariant.
LEMMA ReceiveStep ==
    ASSUME Inductive, NEW e \in End, RecvFrame(e)
    PROVE  Inductive' /\ Grows
<1> DEFINE p == Peer(e)
           g == h[e]
           q == pipe[e]
           o == handle_frame(h[e], Head(pipe[e]))
           k == o.h
<1>0. p \in End /\ p # e /\ Peer(p) = e /\ Peer(e) = p /\ \A x \in End : x = e \/ x = p
  BY Peers
<1>1. TypeOK /\ HandleOK(e) /\ HandleOK(p)
  BY <1>0 DEF Inductive
<1>2. /\ g \in StreamHandle /\ h[p] \in StreamHandle /\ Sound(g)
      /\ q \in Seq(Frame) /\ pipe[p] \in Seq(Frame)
      /\ g.max_recv_window = max_window_size(e)
  BY <1>0, <1>1, AllSound DEF TypeOK
<1>3. /\ life[e] = "live" /\ CanRecv(g) /\ q # <<>> /\ g.state \in ReadableStates
      /\ Does(e, o, Tail(q)) /\ life' = life
  BY DEF RecvFrame, CanRecv
<1>4. Head(q) \in Frame /\ Tail(q) \in Seq(Frame)
  BY <1>2, <1>3, TailFrame
<1>5. /\ Received(g, k, Head(q)) /\ Sound(k) /\ k.max_recv_window = g.max_recv_window
      /\ o.frames = <<>> /\ o.event = "None"
      /\ g.state \in DoneStates => k.state \in DoneStates
  <2>1. IsData(Head(q)) => Start(Head(q)) = g.rcvd
    BY <1>2, <1>3, HeadStart DEF Inductive
  <2> QED BY <1>2, <1>3, <1>4, <2>1, NoFrameError, HandleFrame
<1>6. k \in StreamHandle /\ k.sent = g.sent
  BY <1>5 DEF Sound, Received
<1>e. /\ CreditOK(g, q, h[p]) /\ DataOK(g, q, h[p]) /\ NoGap(g, q) /\ FinOK(g, q, h[p])
      /\ Announced(g, q) => Finished(p)
      /\ Takes(e) => Complete(g, q, Len(q) + 1, h[p])
  BY <1>0 DEF Inductive
<1>p. /\ CreditOK(h[p], pipe[p], g) /\ DataOK(h[p], pipe[p], g)
      /\ NoGap(h[p], pipe[p]) /\ FinOK(h[p], pipe[p], g)
      /\ Announced(h[p], pipe[p]) => Finished(e)
      /\ Takes(p) => Complete(h[p], pipe[p], Len(pipe[p]) + 1, g)
  BY <1>0 DEF Inductive
<1> HIDE DEF o
<1>7. /\ h'[e] = k /\ h'[p] = h[p]
      /\ pipe'[e] = IF k.state = "Closed" THEN <<>> ELSE Tail(q)
      /\ pipe'[p] = pipe[p]
      /\ failed'[e] = failed[e] /\ failed'[p] = failed[p]
      /\ cut' = cut /\ dropped' = dropped
  <2>1. pipe[p] \o <<>> = pipe[p]
    BY <1>2
  <2> QED BY <1>0, <1>1, <1>3, <1>5, <2>1 DEF Does, Arrive, TypeOK
<1>8. /\ CreditOK(k, Tail(q), h[p]) /\ DataOK(k, Tail(q), h[p])
      /\ NoGap(k, Tail(q)) /\ FinOK(k, Tail(q), h[p])
      /\ Complete(g, q, Len(q) + 1, h[p]) => Complete(k, Tail(q), Len(Tail(q)) + 1, h[p])
      /\ Announced(k, Tail(q)) => Announced(g, q)
      /\ k.rcvd + k.recv_window = g.rcvd + g.recv_window
  BY <1>2, <1>3, <1>5, <1>6, <1>e, ReceiveSide
<1>9. /\ CreditOK(k, pipe'[e], h[p]) /\ DataOK(k, pipe'[e], h[p])
      /\ NoGap(k, pipe'[e]) /\ FinOK(k, pipe'[e], h[p])
      /\ Announced(k, pipe'[e]) => Announced(g, q)
      /\ pipe'[e] \in Seq(Frame)
  <2>1. CASE pipe'[e] = Tail(q)
    BY <1>4, <1>8, <2>1
  <2>2. CASE pipe'[e] = <<>>
    <3>1. Announced(k, <<>>) => Announced(k, Tail(q))
      BY DEF Announced
    <3> QED BY <1>2, <1>4, <1>6, <1>8, <2>2, <3>1, EmptyPipe
  <2> QED BY <1>7, <2>1, <2>2
<1>10. /\ CreditOK(h[p], pipe[p], k) /\ DataOK(h[p], pipe[p], k)
       /\ FinOK(h[p], pipe[p], k)
       /\ Takes(p) => Complete(h[p], pipe[p], Len(pipe[p]) + 1, k)
  <2>1. CreditOK(h[p], pipe[p], k)
    BY <1>p, <1>8 DEF CreditOK
  <2>2. DataOK(h[p], pipe[p], k)
    BY <1>p, <1>6 DEF DataOK
  <2>3. FinOK(h[p], pipe[p], k)
    BY <1>p, <1>6 DEF FinOK, Complete
  <2>4. Takes(p) => Complete(h[p], pipe[p], Len(pipe[p]) + 1, k)
    BY <1>p, <1>6 DEF Complete
  <2> QED BY <2>1, <2>2, <2>3, <2>4
<1>11. TypeOK'
  <2>1. \A x \in End : h'[x] \in StreamHandle /\ pipe'[x] \in Seq(Frame) /\ failed'[x] \in BOOLEAN
    BY <1>0, <1>1, <1>2, <1>6, <1>7, <1>9 DEF TypeOK
  <2>2. h' \in [End -> StreamHandle]
    BY <1>1, <1>3, <2>1 DEF TypeOK, Does
  <2>3. pipe' \in [End -> Seq(Frame)]
    BY <1>1, <1>3, <2>1 DEF TypeOK, Does
  <2>4. failed' \in [End -> BOOLEAN]
    BY <1>1, <1>3, <2>1 DEF TypeOK, Does
  <2> QED BY <1>1, <1>3, <1>7, <2>2, <2>3, <2>4 DEF TypeOK
<1>12. HandleOK(e)' /\ HandleOK(p)'
  <2>1. HandleOK(e)'
    BY <1>0, <1>1, <1>2, <1>3, <1>5, <1>7 DEF HandleOK, Sound
  <2>2. HandleOK(p)'
    BY <1>0, <1>1, <1>3, <1>7 DEF HandleOK
  <2> QED BY <2>1, <2>2
<1>13. /\ (Announced(h[e], pipe[e]) => Finished(p))'
       /\ (Announced(h[p], pipe[p]) => Finished(e))'
  <2>1. Finished(p)' <=> Finished(p)
    BY <1>3, <1>7 DEF Finished
  <2>2. Finished(e) => Finished(e)'
    BY <1>3, <1>5, <1>7 DEF Finished, DoneStates
  <2> QED BY <1>7, <1>9, <1>e, <1>p, <2>1, <2>2
<1>14. /\ (Takes(e) => Complete(h[e], pipe[e], Len(pipe[e]) + 1, h[p]))'
       /\ (Takes(p) => Complete(h[p], pipe[p], Len(pipe[p]) + 1, h[e]))'
  <2>1. Takes(p)' <=> Takes(p)
    BY <1>3, <1>7 DEF Takes
  <2>2. Takes(e)' => Takes(e) /\ pipe'[e] = Tail(q)
    BY <1>3, <1>7 DEF Takes, ReadableStates, OpenStates
  <2> QED BY <1>7, <1>8, <1>10, <1>e, <2>1, <2>2
<1>15. ASSUME NEW x \in End
       PROVE  (/\ HandleOK(x)
               /\ CreditOK(h[x], pipe[x], h[Peer(x)])
               /\ DataOK(h[x], pipe[x], h[Peer(x)])
               /\ NoGap(h[x], pipe[x])
               /\ FinOK(h[x], pipe[x], h[Peer(x)])
               /\ Announced(h[x], pipe[x]) => Finished(Peer(x))
               /\ Takes(x) => Complete(h[x], pipe[x], Len(pipe[x]) + 1, h[Peer(x)]))'
  <2>1. CASE x = e
    BY <1>0, <1>7, <1>9, <1>12, <1>13, <1>14, <2>1
  <2>2. CASE x = p
    BY <1>0, <1>7, <1>10, <1>p, <1>12, <1>13, <1>14, <2>2
  <2> QED BY <1>0, <2>1, <2>2
<1>16. Grows
  <2>1. k.sent + k.send_window >= g.sent + g.send_window
    <3>1. k.send_window = g.send_window \/ k.send_window = g.send_window + Head(q).length
      BY <1>5 DEF Received
    <3>2. Head(q).length \in Nat
      BY <1>4 DEF Frame
    <3> QED BY <1>2, <1>6, <3>1, <3>2, HandleNumbers, SMTT(30)
  <2>2. /\ k.rcvd + k.recv_window >= g.rcvd + g.recv_window
        /\ h[p].sent + h[p].send_window >= h[p].sent + h[p].send_window
        /\ h[p].rcvd + h[p].recv_window >= h[p].rcvd + h[p].recv_window
    BY <1>2, <1>8, HandleNumbers, SMTT(30)
  <2> QED BY <1>0, <1>7, <2>1, <2>2 DEF Grows
<1> QED BY <1>11, <1>15, <1>16 DEF Inductive

\* Losing frames and dropping sessions preserves the invariant.
LEMMA CutStep ==
    ASSUME Inductive, SessionFails
    PROVE  Inductive' /\ Grows
<1>1. PICK i \in 0..Len(pipe["opener"]), j \in 0..Len(pipe["acceptor"]),
           c \in SUBSET End :
         /\ Cut(c, i, j) /\ UNCHANGED <<h, life, failed>>
         /\ \/ dropped' = dropped
            \/ c = End /\ \E e \in End : dropped' = [dropped EXCEPT ![e] = TRUE]
  <2>1. End \in SUBSET End
    OBVIOUS
  <2> QED BY <2>1 DEF SessionFails, Lose, DropSession
<1> DEFINE n(e) == IF e = "opener" THEN i ELSE j
<1>2. TypeOK
  BY DEF Inductive
<1>3. ASSUME NEW e \in End
      PROVE  /\ n(e) \in 0..Len(pipe[e]) /\ pipe[e] \in Seq(Frame)
             /\ pipe'[e] = IF e \in c THEN SubSeq(pipe[e], 1, n(e)) ELSE pipe[e]
             /\ cut'[e] = (cut[e] \/ e \in c)
             /\ h'[e] = h[e] /\ life'[e] = life[e] /\ failed'[e] = failed[e]
             /\ h[e] \in StreamHandle
  BY <1>1, <1>2 DEF Cut, End, TypeOK
<1> HIDE DEF n
<1>4. ASSUME NEW e \in End
      PROVE  /\ pipe'[e] \in Seq(Frame)
             /\ CreditOK(h[e], pipe'[e], h[Peer(e)]) /\ DataOK(h[e], pipe'[e], h[Peer(e)])
             /\ NoGap(h[e], pipe'[e]) /\ FinOK(h[e], pipe'[e], h[Peer(e)])
             /\ Announced(h[e], pipe'[e]) => Announced(h[e], pipe[e])
             /\ pipe[e] = <<>> => pipe'[e] = <<>>
  <2>1. /\ CreditOK(h[e], pipe[e], h[Peer(e)]) /\ DataOK(h[e], pipe[e], h[Peer(e)])
        /\ NoGap(h[e], pipe[e]) /\ FinOK(h[e], pipe[e], h[Peer(e)])
    BY DEF Inductive
  <2>2. Peer(e) \in End /\ h[Peer(e)] \in StreamHandle
    BY <1>3, Peers
  <2>3. CASE e \in c
    <3>1. pipe'[e] = SubSeq(pipe[e], 1, n(e))
      BY <1>3, <2>3
    <3>2. pipe'[e] \in Seq(Frame)
      BY <1>3, <3>1, PrefixFrame
    <3>3. pipe[e] = <<>> => pipe'[e] = <<>>
      <4> SUFFICES ASSUME pipe[e] = <<>> PROVE pipe'[e] = <<>>
        OBVIOUS
      <4>1. n(e) = 0
        BY <1>3
      <4>2. Len(pipe'[e]) = 0
        BY <1>3, <3>1, <4>1, PrefixFrame
      <4> QED BY <3>2, <4>2
    <3> QED BY <1>3, <2>1, <2>2, <3>1, <3>2, <3>3, CutSide
  <2>4. CASE e \notin c
    BY <1>3, <2>1, <2>4
  <2> QED BY <2>3, <2>4
<1>5. dropped' \in [End -> BOOLEAN]
      /\ \A e \in End : /\ dropped[e] => dropped'[e]
                        /\ dropped'[e] => dropped[e] \/ c = End
  BY <1>1, <1>2 DEF TypeOK
<1>6. TypeOK'
  <2>1. pipe' \in [End -> Seq(Frame)] /\ cut' \in [End -> BOOLEAN]
    BY <1>1, <1>4, <1>3 DEF Cut
  <2> QED BY <1>1, <1>2, <1>5, <2>1 DEF TypeOK
<1>7. ASSUME NEW e \in End
      PROVE  (/\ HandleOK(e)
              /\ CreditOK(h[e], pipe[e], h[Peer(e)])
              /\ DataOK(h[e], pipe[e], h[Peer(e)])
              /\ NoGap(h[e], pipe[e])
              /\ FinOK(h[e], pipe[e], h[Peer(e)])
              /\ Announced(h[e], pipe[e]) => Finished(Peer(e))
              /\ Takes(e) => Complete(h[e], pipe[e], Len(pipe[e]) + 1, h[Peer(e)]))'
  <2>0. Peer(e) \in End
    BY Peers
  <2>1. HandleOK(e)'
    <3>1. HandleOK(e)
      BY DEF Inductive
    <3>2. dropped'[e] => cut'[e] /\ cut'[Peer(e)]
      BY <1>3, <1>5, <2>0, <3>1 DEF HandleOK
    <3> QED BY <1>3, <1>4, <3>1, <3>2 DEF HandleOK
  <2>2. (Announced(h[e], pipe[e]) => Finished(Peer(e)))'
    <3>1. Announced(h[e], pipe[e]) => Finished(Peer(e))
      BY DEF Inductive
    <3>2. Finished(Peer(e)) => Finished(Peer(e))'
      BY <1>3, <1>5, <2>0 DEF Finished
    <3> QED BY <1>3, <1>4, <3>1, <3>2
  <2>3. (Takes(e) => Complete(h[e], pipe[e], Len(pipe[e]) + 1, h[Peer(e)]))'
    <3>1. Takes(e)' => Takes(e) /\ e \notin c
      BY <1>3 DEF Takes
    <3>2. Takes(e) => Complete(h[e], pipe[e], Len(pipe[e]) + 1, h[Peer(e)])
      BY DEF Inductive
    <3> QED BY <1>3, <2>0, <3>1, <3>2
  <2> QED BY <1>3, <1>4, <2>0, <2>1, <2>2, <2>3
<1>8. Grows
  <2> SUFFICES ASSUME NEW e \in End
               PROVE  /\ h'[e].sent + h'[e].send_window >= h[e].sent + h[e].send_window
                      /\ h'[e].rcvd + h'[e].recv_window >= h[e].rcvd + h[e].recv_window
    BY DEF Grows
  <2> QED BY <1>3, HandleNumbers
<1> QED BY <1>6, <1>7, <1>8 DEF Inductive

-----------------------------------------------------------------------------
(***************************************************************************)
(* Theorems                                                                *)
(***************************************************************************)

\* A new handle holds both initial windows and nothing else.
LEMMA NewHandleFacts ==
    ASSUME NEW m \in Nat, NEW s \in StreamState, NEW g, g = NewHandle(StreamId, s, m)
    PROVE  /\ g \in StreamHandle /\ g.sent = 0 /\ g.rcvd = 0 /\ g.read_buf = 0
           /\ g.send_window = InitialWindow /\ g.recv_window = InitialWindow
           /\ g.max_recv_window = m /\ ~g.fin /\ ~g.writeable_wake
           /\ g.state = s /\ g.read = 0
<1>1. InitialWindow \in Nat /\ StreamId \in Nat
  BY ConfigAssumption, WindowAssumption
<1> QED BY <1>1 DEF NewHandle, StreamHandle

\* Before anything happens both ends assume the initial window.
LEMMA InitInductive == Init => Inductive
<1> SUFFICES ASSUME Init PROVE Inductive
  OBVIOUS
<1>1. ASSUME NEW e \in End
      PROVE  /\ h[e] = NewHandle(StreamId, "Init", max_window_size(e)) /\ pipe[e] = <<>>
             /\ life[e] = "none" /\ cut[e] = FALSE /\ dropped[e] = FALSE /\ failed[e] = FALSE
             /\ Peer(e) \in End
  BY Peers DEF Init
<1>2. ASSUME NEW e \in End
      PROVE  /\ max_window_size(e) \in Nat /\ InitialWindow \in Nat
             /\ InitialWindow <= max_window_size(e)
  BY ConfigAssumption, WindowAssumption DEF max_window_size
<1>3. ASSUME NEW e \in End
      PROVE  /\ h[e] \in StreamHandle /\ h[e].sent = 0 /\ h[e].rcvd = 0 /\ h[e].read_buf = 0
             /\ h[e].send_window = InitialWindow /\ h[e].recv_window = InitialWindow
             /\ h[e].max_recv_window = max_window_size(e)
             /\ ~h[e].fin /\ ~h[e].writeable_wake /\ h[e].state = "Init" /\ h[e].read = 0
  <2>1. "Init" \in StreamState /\ max_window_size(e) \in Nat
    BY <1>2 DEF StreamState
  <2>2. h[e] = NewHandle(StreamId, "Init", max_window_size(e))
    BY <1>1
  <2> DEFINE m == max_window_size(e)
             g == h[e]
  <2>3. m \in Nat /\ g = NewHandle(StreamId, "Init", m)
    BY <2>1, <2>2
  <2> HIDE DEF m, g
  <2>4. /\ g \in StreamHandle /\ g.sent = 0 /\ g.rcvd = 0 /\ g.read_buf = 0
        /\ g.send_window = InitialWindow /\ g.recv_window = InitialWindow
        /\ g.max_recv_window = m /\ ~g.fin /\ ~g.writeable_wake
        /\ g.state = "Init" /\ g.read = 0
    BY <2>1, <2>3, NewHandleFacts
  <2> QED BY <2>4 DEF g, m
<1>4. TypeOK
  <2>1. h \in [End -> StreamHandle]
    <3>1. h = [e \in End |-> h[e]]
      BY DEF Init
    <3> QED BY <1>3, <3>1
  <2>2. <<>> \in Seq(Frame)
    OBVIOUS
  <2> QED BY <2>1, <2>2 DEF Init, TypeOK
<1>5. ASSUME NEW e \in End
      PROVE  /\ HandleOK(e)
             /\ CreditOK(h[e], pipe[e], h[Peer(e)])
             /\ DataOK(h[e], pipe[e], h[Peer(e)])
             /\ NoGap(h[e], pipe[e])
             /\ FinOK(h[e], pipe[e], h[Peer(e)])
             /\ Announced(h[e], pipe[e]) => Finished(Peer(e))
             /\ Takes(e) => Complete(h[e], pipe[e], Len(pipe[e]) + 1, h[Peer(e)])
  <2> DEFINE g == h[e]
             r == h[Peer(e)]
  <2>0. pipe[e] = <<>> /\ Len(<<>>) = 0 /\ \A i \in 1..0 : FALSE
    <3>1. Len(<<>>) = 0 /\ \A i \in 1..0 : FALSE
      OBVIOUS
    <3> QED BY <1>1, <3>1
  <2>1. /\ g.sent = 0 /\ g.rcvd = 0 /\ g.send_window = InitialWindow /\ ~g.fin
        /\ r.sent = 0 /\ r.rcvd = 0 /\ r.recv_window = InitialWindow /\ InitialWindow \in Nat
    BY <1>1, <1>2, <1>3
  <2>2. HandleOK(e)
    <3>0. /\ h[e].recv_window = InitialWindow /\ h[e].read_buf = 0
          /\ InitialWindow \in Nat /\ max_window_size(e) \in Nat
          /\ InitialWindow <= max_window_size(e)
      BY <1>2, <1>3
    <3>1. h[e].recv_window + h[e].read_buf <= max_window_size(e)
      BY <3>0
    <3>2. h[e].read + h[e].read_buf = h[e].rcvd
      BY <1>3
    <3> QED BY <1>1, <1>3, <3>1, <3>2 DEF HandleOK
  <2> HIDE DEF g, r
  <2>3. CreditOK(g, <<>>, r)
    BY <2>0, <2>1 DEF CreditOK
  <2>4. DataOK(g, <<>>, r) /\ NoGap(g, <<>>)
    BY <2>0, <2>1 DEF DataOK, NoGap
  <2>5. FinOK(g, <<>>, r) /\ ~Announced(g, <<>>)
    BY <2>0, <2>1 DEF FinOK, Announced
  <2>6. Complete(g, <<>>, Len(<<>>) + 1, r)
    BY <2>1 DEF Complete
  <2> QED BY <2>0, <2>2, <2>3, <2>4, <2>5, <2>6 DEF g, r
<1> QED BY <1>4, <1>5 DEF Inductive

\* One step of one handle.
LEMMA HandleStepInductive ==
    ASSUME Inductive, NEW e \in End, HandleStep(e)
    PROVE  Inductive' /\ Grows
<1>0. /\ Sound(h[e]) /\ life \in [End -> {"none", "live", "gone"}]
      /\ h[e] \in StreamHandle
  BY AllSound DEF Inductive, TypeOK
<1>l. ASSUME life[e] = "live", life' = life
      PROVE  life' = [life EXCEPT ![e] = "live"] /\ life[e] # "gone"
  BY <1>0, <1>l
\* Every method but RecvFrame and DropHandle leaves the pipe and the life alone.
<1>m. ASSUME NEW o, Fits(h[e], o), life[e] = "live", life' = life, Does(e, o, pipe[e]),
             dropped[e] => \A f \in Frame : o.frames = <<f>> => ~IsData(f)
      PROVE  Inductive' /\ Grows
  <2>1. "live" \in {"live", "gone"} /\ "live" # "gone"
    OBVIOUS
  <2>2. Does(e, o, IF "live" = "gone" THEN <<>> ELSE pipe[e])
    BY <1>m, <2>1
  <2> QED BY <1>l, <1>m, <2>1, <2>2, MethodStep
<1>1. CASE RecvFrame(e)
  BY <1>1, ReceiveStep
<1>2. CASE RecvEnd(e)
  <2>1. /\ life[e] = "live" /\ life' = life /\ Does(e, Disconnected(h[e]), pipe[e])
        /\ dropped[e] /\ h[e].state \in ReadableStates
    BY <1>2 DEF RecvEnd, CanRecv
  <2> DEFINE o == Disconnected(h[e])
  <2>2. o = Outcome([h[e] EXCEPT !.state = "RemoteClosing"], <<>>, "None")
    BY DEF Disconnected
  <2>3. o.frames = <<>> /\ o.event = "None" /\ \A f : o.frames # <<f>>
    BY <2>2 DEF Outcome
  <2>4. Local(h[e], o.h, o.frames)
    <3> DEFINE g == h[e]
               k == [g EXCEPT !.state = "RemoteClosing"]
    <3>1. /\ g \in StreamHandle /\ k \in StreamHandle /\ k.read_buf = g.read_buf
          /\ k.recv_window = g.recv_window /\ k.writeable_wake = g.writeable_wake
          /\ k.max_recv_window = g.max_recv_window /\ k.rcvd = g.rcvd /\ k.sent = g.sent
          /\ k.send_window = g.send_window /\ k.fin = g.fin /\ k.state = "RemoteClosing"
          /\ k.read = g.read
      BY <1>0 DEF StreamHandle, StreamState
    <3>2. g.state \in ReadableStates /\ g.state # "Closed"
      BY <2>1 DEF ReadableStates, OpenStates
    <3>3. o.h = k
      BY <2>2 DEF Outcome
    <3>4. Sound(g)
      BY <1>0
    <3> HIDE DEF g, k
    <3>5. Local(g, k, <<>>)
      BY <3>1, <3>2, <3>4, HandleNumbers DEF Local, Sound
    <3> QED BY <2>3, <3>3, <3>5 DEF g
  <2> HIDE DEF o
  <2>5. "live" \in {"live", "gone"} /\ Does(e, o, IF "live" = "gone" THEN <<>> ELSE pipe[e])
    BY <2>1 DEF o
  <2>6. Inductive'
    <3>1. life[e] # "gone" /\ life' = [life EXCEPT ![e] = "live"]
      BY <1>l, <2>1
    <3> QED BY <2>1, <2>3, <2>4, <2>5, <3>1, LocalStep
  <2>7. Grows
    <3>1. h'[e] = o.h /\ \A x \in End : x # e => h'[x] = h[x]
      BY <2>5 DEF Does, Inductive, TypeOK
    <3>2. /\ o.h \in StreamHandle
          /\ o.h.sent + o.h.send_window = h[e].sent + h[e].send_window
          /\ o.h.rcvd = h[e].rcvd /\ o.h.recv_window >= h[e].recv_window
      BY <2>4 DEF Local
    <3> SUFFICES ASSUME NEW x \in End
                 PROVE  /\ h'[x].sent + h'[x].send_window >= h[x].sent + h[x].send_window
                        /\ h'[x].rcvd + h'[x].recv_window >= h[x].rcvd + h[x].recv_window
      BY DEF Grows
    <3>3. h[x] \in StreamHandle
      BY AllSound
    <3>4. CASE x = e
      BY <3>1, <3>2, <3>3, <3>4, HandleNumbers
    <3>5. CASE x # e
      BY <3>1, <3>3, <3>5, HandleNumbers
    <3> QED BY <3>4, <3>5
  <2> QED BY <2>6, <2>7
<1>3. ASSUME NEW n \in 1..h[e].read_buf, Read(e, n)
      PROVE  Inductive' /\ Grows
  <2> DEFINE o == poll_read(h[e], n)
  <2>1. life[e] = "live" /\ life' = life /\ Does(e, o, pipe[e])
    BY <1>3 DEF Read
  <2>2. Fits(h[e], o)
    BY <1>0, ReadFits
  <2>3. \A f \in Frame : o.frames = <<f>> => ~IsData(f)
    <3> SUFFICES ASSUME NEW f \in Frame, o.frames = <<f>> PROVE ~IsData(f)
      OBVIOUS
    <3> DEFINE g == [h[e] EXCEPT !.read_buf = @ - n, !.read = @ + n]
    <3>1. o.frames = <<>> \/ o.frames = send_window_update(g).frames
      BY DEF poll_read, Outcome
    <3>2. \/ send_window_update(g).frames = <<>>
          \/ send_window_update(g).frames =
                <<new_window_update(get_flags(g), g.id, delta(g),
                                    g.rcvd + g.recv_window + delta(g))>>
      BY DEF send_window_update, Outcome
    <3> DEFINE x == new_window_update(get_flags(g), g.id, delta(g),
                                      g.rcvd + g.recv_window + delta(g))
    <3>3. x.ty = "WindowUpdate"
      BY DEF new_window_update
    <3> HIDE DEF g, o, x
    <3>5. send_window_update(g).frames = <<>> \/ send_window_update(g).frames = <<x>>
      BY <3>2 DEF x
    <3>6. <<f>> # <<>>
      OBVIOUS
    <3>4. <<f>> = <<x>>
      BY <3>1, <3>5, <3>6
    <3> QED BY <3>3, <3>4, OneFrame
  <2> HIDE DEF o
  <2> QED BY <1>m, <2>1, <2>2, <2>3
<1>4. ASSUME NEW w \in 0..MaxWrite, Write(e, w)
      PROVE  Inductive' /\ Grows
  <2> DEFINE n == Min(h[e].send_window, w)
             o == poll_write(h[e], n)
  <2>1. /\ life[e] = "live" /\ life' = life /\ Does(e, o, pipe[e])
        /\ ~dropped[e] /\ h[e].state \in WritableStates /\ h[e].send_window > 0
    BY <1>4 DEF Write
  <2>2. n \in 0..h[e].send_window
    BY <1>0, <2>1, HandleNumbers, ConfigAssumption DEF Min
  <2> HIDE DEF n
  <2>3. Fits(h[e], o)
    BY <1>0, <2>1, <2>2, WriteFits
  <2> HIDE DEF o
  <2> QED BY <1>m, <2>1, <2>3
<1>5. CASE WriteBroken(e)
  <2> DEFINE o == PollWriteBroken(h[e])
  <2>1. /\ life[e] = "live" /\ life' = life /\ Does(e, o, pipe[e])
        /\ h[e].state \in WritableStates /\ h[e].send_window > 0
    BY <1>5 DEF WriteBroken
  <2>2. 0 \in 0..h[e].send_window
    BY <1>0, <2>1, HandleNumbers
  <2>3. Fits(h[e], o)
    BY <1>0, <2>1, <2>2, WriteFits
  <2>4. \A f : o.frames # <<f>>
    BY DEF PollWriteBroken, Outcome
  <2> HIDE DEF o
  <2> QED BY <1>m, <2>1, <2>3, <2>4
<1>6. CASE WritePending(e)
  <2> DEFINE o == PollWritePending(h[e])
  <2>1. /\ life[e] = "live" /\ life' = life /\ Does(e, o, pipe[e]) /\ h[e].send_window = 0
    BY <1>6 DEF WritePending
  <2>2. Fits(h[e], o)
    BY <1>0, <2>1, PendingFits
  <2>3. \A f : o.frames # <<f>>
    BY DEF PollWritePending, Outcome
  <2> HIDE DEF o
  <2> QED BY <1>m, <2>1, <2>2, <2>3
<1>7. CASE Shutdown(e)
  <2> DEFINE o == close(h[e])
  <2>1. life[e] = "live" /\ life' = life /\ Does(e, o, pipe[e])
    BY <1>7 DEF Shutdown
  <2>2. Fits(h[e], o)
    BY <1>0, CloseFits
  <2>3. \A f \in Frame : o.frames = <<f>> => ~IsData(f)
    <3>1. \E s, event : \/ o = Outcome(s, <<>>, event)
                        \/ o = Outcome(s, send_close(h[e]), event)
      BY DEF close
    <3>2. o.frames = <<>> \/ o.frames = send_close(h[e])
      BY <3>1 DEF Outcome
    <3> HIDE DEF o
    <3> QED BY <3>2 DEF send_close, new_window_update
  <2> HIDE DEF o
  <2> QED BY <1>m, <2>1, <2>2, <2>3
<1>8. CASE DropHandle(e)
  <2> DEFINE o == IF dropped[e] THEN Outcome(h[e], <<>>, "None") ELSE drop(h[e])
  <2>1. life[e] = "live" /\ life' = [life EXCEPT ![e] = "gone"] /\ Does(e, o, <<>>)
    BY <1>8 DEF DropHandle
  <2>2. Fits(h[e], o)
    BY <1>0, DropFits
  <2>3. dropped[e] => \A f \in Frame : o.frames = <<f>> => ~IsData(f)
    BY DEF Outcome
  <2> HIDE DEF o
  <2>4. "gone" \in {"live", "gone"} /\ Does(e, o, IF "gone" = "gone" THEN <<>> ELSE pipe[e])
    BY <2>1
  <2> QED BY <2>1, <2>2, <2>3, <2>4, MethodStep
<1> QED BY <1>1, <1>2, <1>3, <1>4, <1>5, <1>6, <1>7, <1>8 DEF HandleStep

\* A stream is created in the state Init or SynReceived and sends its SYN or ACK.
LEMMA CreateStep ==
    ASSUME Inductive, NEW e \in End, life[e] = "none", NEW s \in {"Init", "SynReceived"},
           Does(e, send_window_update(NewHandle(StreamId, s, max_window_size(e))), pipe[e]),
           life' = [life EXCEPT ![e] = "live"]
    PROVE  Inductive' /\ Grows
<1> DEFINE m == max_window_size(e)
           g == NewHandle(StreamId, s, m)
           b == h[e]
           o == send_window_update(g)
<1>1. m \in Nat /\ InitialWindow \in Nat /\ InitialWindow <= m
  BY ConfigAssumption, WindowAssumption DEF max_window_size
<1>2. b = NewHandle(StreamId, "Init", m)
  BY DEF Inductive, HandleOK
<1>3. s \in StreamState /\ "Init" \in StreamState
  BY DEF StreamState
<1>4. /\ g \in StreamHandle /\ g.sent = 0 /\ g.rcvd = 0 /\ g.read_buf = 0
      /\ g.send_window = InitialWindow /\ g.recv_window = InitialWindow
      /\ g.max_recv_window = m /\ ~g.fin /\ ~g.writeable_wake /\ g.state = s
      /\ g.read = 0
  <2> HIDE DEF m
  <2> QED BY <1>1, <1>3, NewHandleFacts
<1>5. /\ b.sent = 0 /\ b.rcvd = 0 /\ b.read_buf = 0
      /\ b.send_window = InitialWindow /\ b.recv_window = InitialWindow
      /\ b.max_recv_window = m /\ b.fin = g.fin /\ b.state = "Init"
  <2> HIDE DEF m, b
  <2>1. b.fin = g.fin
    BY <1>2 DEF NewHandle
  <2> HIDE DEF g
  <2>2. /\ b.sent = 0 /\ b.rcvd = 0 /\ b.read_buf = 0
        /\ b.send_window = InitialWindow /\ b.recv_window = InitialWindow
        /\ b.max_recv_window = m /\ b.state = "Init"
    BY <1>1, <1>2, <1>3, NewHandleFacts
  <2> QED BY <2>1, <2>2
<1>6. Sound(g)
  BY <1>1, <1>4 DEF Sound
<1> HIDE DEF g, m, b
<1>7. Fits(g, o)
  BY <1>6, UpdateFits
<1>8. "Init" \in ReadableStates /\ "Init" \notin DoneStates /\ "Init" # "Closed"
  BY DEF ReadableStates, OpenStates, DoneStates
<1> HIDE DEF o
<1>9. Fits(b, o)
  <2>1. Local(b, o.h, o.frames)
    BY <1>4, <1>5, <1>7, <1>8 DEF Fits, Local, DataFrom, UpdateFrom
  <2> QED BY <1>5, <1>7, <1>8, <2>1 DEF Fits
<1>10. \A f \in Frame : o.frames = <<f>> => ~IsData(f)
  <2>1. \/ o.frames = <<>>
        \/ o.frames = <<new_window_update(get_flags(g), g.id, delta(g),
                                          g.rcvd + g.recv_window + delta(g))>>
    BY DEF o, send_window_update, Outcome
  <2> DEFINE x == new_window_update(get_flags(g), g.id, delta(g),
                                    g.rcvd + g.recv_window + delta(g))
  <2>2. x.ty = "WindowUpdate"
    BY DEF new_window_update
  <2>3. o.frames = <<>> \/ o.frames = <<x>>
    BY <2>1
  <2> HIDE DEF x
  <2>4. \A f : <<f>> # <<>>
    OBVIOUS
  <2> SUFFICES ASSUME NEW f \in Frame, o.frames = <<f>> PROVE ~IsData(f)
    OBVIOUS
  <2>5. <<f>> = <<x>>
    BY <2>3, <2>4
  <2> QED BY <2>2, <2>5, OneFrame
<1>11. "live" \in {"live", "gone"} /\ Does(e, o, IF "live" = "gone" THEN <<>> ELSE pipe[e])
  BY DEF o, g, m
<1>12. life[e] # "gone" /\ life' = [life EXCEPT ![e] = "live"] /\ Fits(h[e], o)
  BY <1>9 DEF b
<1> QED BY <1>10, <1>11, <1>12, MethodStep

\* A stream is refused: its session answers RST.
LEMMA RejectStep ==
    ASSUME Inductive, Reject
    PROVE  Inductive' /\ Grows
<1> DEFINE e == "acceptor"
           g == h["acceptor"]
<1>1. PICK flags \in {{"Rst"}, {"Ack", "Rst"}} :
         /\ life[e] = "none" /\ life' = [life EXCEPT ![e] = "gone"]
         /\ Does(e, Outcome(g, <<new_window_update(flags, StreamId, 0, g.rcvd + g.recv_window)>>,
                            "None"), <<>>)
  BY DEF Reject
<1>2. e \in End /\ flags \in SUBSET Flag /\ "Fin" \notin flags
  BY DEF End, Flag
<1>3. Sound(g) /\ g \in StreamHandle
  BY <1>2, AllSound
<1>4. g.id = StreamId
  <2>1. g = NewHandle(StreamId, "Init", max_window_size(e))
    BY <1>1, <1>2 DEF Inductive, HandleOK
  <2> QED BY <2>1 DEF NewHandle
<1> DEFINE x == new_window_update(flags, g.id, 0, g.rcvd + g.recv_window)
           o == Outcome(g, <<x>>, "None")
<1>5. Fits(g, o)
  <2>1. g = [g EXCEPT !.state = g.state] /\ g.state \in StreamState
    BY <1>3 DEF StreamHandle
  <2>2. Fits(g, Outcome([g EXCEPT !.state = g.state], <<x>>, "None"))
    BY <1>2, <1>3, <2>1, StateFits
  <2> QED BY <2>1, <2>2
<1>6. x.ty = "WindowUpdate" /\ o.frames = <<x>>
  BY DEF new_window_update, Outcome
<1>7. Does(e, o, <<>>)
  BY <1>1, <1>4
<1> HIDE DEF x, o, g
<1>8. \A f \in Frame : o.frames = <<f>> => ~IsData(f)
  BY <1>6, OneFrame
<1>9. "gone" \in {"live", "gone"} /\ Does(e, o, IF "gone" = "gone" THEN <<>> ELSE pipe[e])
  BY <1>7
<1>10. life[e] # "gone" /\ Fits(h[e], o)
  BY <1>1, <1>5 DEF g
<1> QED BY <1>1, <1>2, <1>8, <1>9, <1>10, MethodStep

\* Every step preserves the invariant.
LEMMA NextInductive ==
    ASSUME Inductive, [Next]_vars
    PROVE  Inductive' /\ Grows
<1>1. CASE Open
  <2>1. "opener" \in End /\ max_window_size("opener") = OpenerMaxWindow
        /\ "Init" \in {"Init", "SynReceived"}
    BY DEF End, max_window_size
  <2> QED BY <1>1, <2>1, CreateStep DEF Open
<1>2. CASE Accept
  <2>1. "acceptor" \in End /\ max_window_size("acceptor") = AcceptorMaxWindow
        /\ "SynReceived" \in {"Init", "SynReceived"}
    BY DEF End, max_window_size
  <2> QED BY <1>2, <2>1, CreateStep DEF Accept
<1>3. CASE Reject
  BY <1>3, RejectStep
<1>4. ASSUME NEW e \in End, HandleStep(e)
      PROVE  Inductive' /\ Grows
  BY <1>4, HandleStepInductive
<1>5. CASE SessionFails
  BY <1>5, CutStep
<1>6. CASE UNCHANGED vars
  <2>1. h' = h /\ life' = life /\ pipe' = pipe /\ cut' = cut
        /\ dropped' = dropped /\ failed' = failed
    BY <1>6 DEF vars
  <2>2. Inductive'
    BY <2>1 DEF Inductive, TypeOK, HandleOK, Announced, Finished, Takes
  <2>3. Grows
    <3> SUFFICES ASSUME NEW e \in End
                 PROVE  /\ h'[e].sent + h'[e].send_window >= h[e].sent + h[e].send_window
                        /\ h'[e].rcvd + h'[e].recv_window >= h[e].rcvd + h[e].recv_window
      BY DEF Grows
    <3>1. h[e] \in StreamHandle
      BY AllSound
    <3> QED BY <2>1, <3>1, HandleNumbers
  <2> QED BY <2>2, <2>3
<1> QED BY <1>1, <1>2, <1>3, <1>4, <1>5, <1>6 DEF Next

\* The strengthened invariant holds in every reachable state, for any windows.
THEOREM InductiveInvariant == Spec => []Inductive
<1>1. Init => Inductive
  BY InitInductive
<1>2. Inductive /\ [Next]_vars => Inductive'
  BY NextInductive
<1> QED BY <1>1, <1>2, PTL DEF Spec

\* Type correctness: handles, pipes and flags keep their types; in particular the
\* windows stay natural numbers, so no u32 subtraction of stream.rs underflows.
THEOREM TypeCorrect == Spec => []TypeOK
<1>1. Inductive => TypeOK
  BY DEF Inductive
<1> QED BY <1>1, InductiveInvariant, PTL

\* send_window_update never underflows and checked_add never overflows.
THEOREM WindowsSafe == Spec => []WindowSafe
<1>1. Inductive => WindowSafe
  <2> SUFFICES ASSUME Inductive, NEW e \in End
               PROVE  /\ h[e].recv_window + h[e].read_buf <= max_window_size(e)
                      /\ h[e].send_window <= max_window_size(Peer(e))
    BY DEF WindowSafe
  <2> DEFINE g == h[e]
             r == h[Peer(e)]
             m == max_window_size(Peer(e))
  <2>0. Peer(e) \in End /\ Peer(Peer(e)) = e
    BY Peers
  <2>1. g \in StreamHandle /\ r \in StreamHandle
    BY <2>0, AllSound
  <2>2. /\ g.recv_window + g.read_buf <= max_window_size(e)
        /\ r.recv_window + r.read_buf <= m
    BY <2>0 DEF Inductive, HandleOK
  <2>3. g.sent + g.send_window <= r.rcvd + r.recv_window
    BY DEF Inductive, CreditOK
  <2>4. r.rcvd <= g.sent
    BY <2>0 DEF Inductive, DataOK
  <2>5. m \in Nat
    BY ConfigAssumption, WindowAssumption DEF max_window_size
  <2> HIDE DEF g, r, m
  <2>6. g.send_window <= m
    BY <2>1, <2>2, <2>3, <2>4, <2>5, HandleNumbers
  <2> QED BY <2>2, <2>6 DEF g, m
<1> QED BY <1>1, InductiveInvariant, PTL

\* Conforming ends never cause GoAway(ProtocolError).
THEOREM NeverProtocolError == Spec => []NoProtocolError
<1>1. Inductive => NoProtocolError
  BY DEF Inductive, HandleOK, NoProtocolError
<1> QED BY <1>1, InductiveInvariant, PTL

\* Bytes are delivered in order, without gap or repetition.
THEOREM DeliveredInOrder == Spec => []InOrder
<1>1. Inductive => InOrder
  BY DEF Inductive, InOrder, HandleOK
<1> QED BY <1>1, InductiveInvariant, PTL

\* A FIN is processed only after every byte written before it.
THEOREM FinIsComplete == Spec => []FinComplete
<1>1. Inductive => FinComplete
  BY DEF Inductive, FinComplete, FinOK
<1> QED BY <1>1, InductiveInvariant, PTL

\* A stored waker means an empty window.
THEOREM WakeupNotLost == Spec => []NoLostWakeup
<1>1. Inductive => NoLostWakeup
  BY DEF Inductive, NoLostWakeup, HandleOK
<1> QED BY <1>1, InductiveInvariant, PTL

\* Credit only grows, and never beyond what the receiver can take.
THEOREM CreditOnlyGrows == Spec => CreditGrows
<1>1. Inductive /\ [Next]_vars =>
         [\A e \in End :
             /\ h'[e].sent + h'[e].send_window >= h[e].sent + h[e].send_window
             /\ h'[e].rcvd + h'[e].recv_window >= h[e].rcvd + h[e].recv_window
             /\ h'[e].sent + h'[e].send_window <= h'[Peer(e)].rcvd + h'[Peer(e)].recv_window
         ]_vars
  <2> SUFFICES ASSUME Inductive, [Next]_vars, NEW e \in End
               PROVE  /\ h'[e].sent + h'[e].send_window >= h[e].sent + h[e].send_window
                      /\ h'[e].rcvd + h'[e].recv_window >= h[e].rcvd + h[e].recv_window
                      /\ h'[e].sent + h'[e].send_window
                            <= h'[Peer(e)].rcvd + h'[Peer(e)].recv_window
    OBVIOUS
  <2>1. Inductive' /\ Grows
    BY NextInductive
  <2>2. CreditOK(h[e], pipe[e], h[Peer(e)])'
    BY <2>1 DEF Inductive
  <2> QED BY <2>1, <2>2 DEF Grows, CreditOK
<1> QED BY <1>1, InductiveInvariant, PTL DEF Spec, CreditGrows
=============================================================================
