---------------------------- MODULE SecioProofs ----------------------------
(***************************************************************************)
(* Proofs about Secio, for any keys, nonces, algorithms and sizes and any  *)
(* amount of damage: the two ends of a handshake that succeeds are in the  *)
(* same session, and its streams have no gap.                              *)
(***************************************************************************)
EXTENDS Secio, SequenceTheorems, TLAPS

Phases == {"start", "propose", "exchange", "nonce", "done", "failed"}

Prop == [key : Keys, nonce : Nonces, exchange : Seq(Algorithms)]

\* What select may find.
Selected == {Head(select(p, q)) : p \in Prop, q \in Prop}

Epubkey == [of : Ends \cup {"another"}, algorithm : Selected]
Key == [secret : SUBSET (Ends \cup {"another"}), algorithm : Selected, half : 1..2] \cup {NoRemote}
Cipher == [key : Key, iv : Nat]

Message ==
    [type : {"garbled"}]
    \cup [type : {"propose"}, prop : Prop]
    \cup [type : {"exchange"}, epubkey : Epubkey, by : Keys, over : Prop \X Prop \X Epubkey]
    \cup [type : {"frame"}, key : Key, iv : Nat, bytes : Seq(Nat)]

TypeOK ==
    /\ config \in [Ends -> Prop]
    /\ phase \in [Ends -> Phases]
    /\ remote \in [Ends -> Prop \cup {NoRemote}]
    /\ \A e \in Ends : phase[e] = "exchange" => remote[e] \in Prop
    /\ seal \in [Ends -> Cipher] /\ open \in [Ends -> Cipher]
    /\ net \in [Ends -> Seq(Message)]
    /\ fin \in [Ends -> BOOLEAN] /\ ended \in [Ends -> BOOLEAN]
    /\ written \in [Ends -> Nat]
    /\ recv_buf \in [Ends -> Seq(Nat)] /\ got \in [Ends -> Seq(Nat)]
    /\ up \in BOOLEAN /\ damage \in Nat

-----------------------------------------------------------------------------
(***************************************************************************)
(* Types                                                                   *)
(***************************************************************************)

\* There are two ends.
LEMMA TwoEnds ==
    ASSUME NEW e \in Ends
    PROVE  /\ Other(e) \in Ends /\ Other(e) # e /\ Other(Other(e)) = e
           /\ \A d \in Ends : d = e \/ d = Other(e)
BY DEF Ends, Other

\* A proposition is not the absence of one.
LEMMA SomeRemote == \A p \in Prop : p # NoRemote
<1> SUFFICES ASSUME NEW p \in Prop, p = NoRemote
             PROVE  FALSE
    OBVIOUS
<1>1. p.key \in Nat
    BY SecioAssumption DEF Prop
<1>2. p.key = -1
    BY DEF NoRemote
<1> QED
    BY <1>1, <1>2

\* The first element of a sequence that is not empty, and what is behind it.
LEMMA HeadTail ==
    ASSUME NEW S, NEW q \in Seq(S), q # <<>>
    PROVE  /\ Len(q) > 0 /\ Head(q) = q[1] /\ Head(q) \in S
           /\ Tail(q) \in Seq(S) /\ Len(Tail(q)) = Len(q) - 1
           /\ \A i \in 1..(Len(q) - 1) : Tail(q)[i] = q[i + 1]
OBVIOUS

\* A message that is sent, on a connection that is up or not.
LEMMA SentTypes ==
    ASSUME TypeOK, NEW e \in Ends, NEW m \in Message
    PROVE  Sent(e, m) \in Seq(Message)
<1>1. net[Other(e)] \in Seq(Message)
    BY TwoEnds DEF TypeOK
<1> QED
    BY <1>1 DEF Sent

\* The messages that the ends make.
LEMMA MessageTypes ==
    ASSUME TypeOK, NEW e \in Ends
    PROVE  /\ [type |-> "propose", prop |-> config[e]] \in Message
           /\ \A theirs \in Prop : Exchange(e, theirs) \in Message
           /\ \A c \in Cipher, b \in Seq(Nat) : Frame(c, b) \in Message
<1>1. config[e] \in Prop
    BY DEF TypeOK
<1>2. [type |-> "propose", prop |-> config[e]] \in Message
    BY <1>1 DEF Message
<1>3. ASSUME NEW theirs \in Prop
      PROVE  Exchange(e, theirs) \in Message
    <2> DEFINE k == Ephemeral(e, Head(select(config[e], theirs)))
    <2>1. k \in Epubkey
        BY <1>1 DEF Ephemeral, Epubkey, Selected
    <2>2. Exchange(e, theirs) = [type |-> "exchange", epubkey |-> k, by |-> config[e].key,
                                 over |-> <<config[e], theirs, k>>]
        BY DEF Exchange
    <2> HIDE DEF k
    <2>3. config[e].key \in Keys /\ <<config[e], theirs, k>> \in Prop \X Prop \X Epubkey
        BY <1>1, <2>1 DEF Prop
    <2> QED
        BY <2>1, <2>2, <2>3 DEF Message
<1>4. ASSUME NEW c \in Cipher, NEW b \in Seq(Nat)
      PROVE  Frame(c, b) \in Message
    BY DEF Frame, Cipher, Message
<1> QED
    BY <1>2, <1>3, <1>4

\* A cipher that is used once more.
LEMMA AdvanceTypes ==
    ASSUME NEW c \in Cipher
    PROVE  Advance(c) \in Cipher /\ Advance(c).key = c.key /\ Advance(c).iv = c.iv + 1
BY DEF Advance, Cipher

\* The keys that an exchange leads to.
LEMMA KeyTypes ==
    ASSUME TypeOK, NEW e \in Ends, NEW m \in Message, m.type = "exchange", NEW half \in 1..2
    PROVE  [key |-> CipherKey(e, m, half), iv |-> 0] \in Cipher
<1>1. m.epubkey \in Epubkey
    BY DEF Message
<1> QED
    BY <1>1 DEF CipherKey, Epubkey, Cipher, Key

\* What damage makes of a message is still a message.
LEMMA DamagedTypes ==
    ASSUME NEW m \in Message, NEW d \in Damaged(m)
    PROVE  /\ d \in Message
           /\ d.type \in {"garbled", m.type}
           /\ d.type = "exchange" => d.by = m.by /\ d.over = m.over /\ d.epubkey.of = "another"
           /\ d.type = "frame" => FALSE
<1>1. Garbled \in Message /\ Garbled.type = "garbled"
    BY DEF Garbled, Message
<1>2. CASE m.type = "propose"
    <2>1. m = [type |-> "propose", prop |-> m.prop] /\ m.prop \in Prop
        BY <1>2 DEF Message
    <2>2. PICK p : /\ d = Garbled \/ d = [type |-> "propose", prop |-> p]
                   /\ \/ \E k \in Keys : p = [m.prop EXCEPT !.key = k]
                      \/ \E n \in Nonces : p = [m.prop EXCEPT !.nonce = n]
                      \/ p = [m.prop EXCEPT !.exchange = Reverse(m.prop.exchange)]
        BY <1>2, <2>1, ZenonT(40) DEF Damaged
    <2>3. Reverse(m.prop.exchange) \in Seq(Algorithms)
        BY <2>1 DEF Reverse, Prop
    <2>4. p \in Prop
        BY <2>1, <2>2, <2>3 DEF Prop
    <2> QED
        BY <1>1, <1>2, <2>2, <2>4 DEF Message
<1>3. CASE m.type = "exchange"
    <2>1. d = Garbled \/ d = [m EXCEPT !.epubkey.of = "another"]
        BY <1>3 DEF Damaged
    <2>2. /\ m = [type |-> "exchange", epubkey |-> m.epubkey, by |-> m.by, over |-> m.over]
          /\ m.epubkey \in Epubkey /\ m.by \in Keys /\ m.over \in Prop \X Prop \X Epubkey
        BY <1>3 DEF Message
    <2>3. [m.epubkey EXCEPT !.of = "another"] \in Epubkey
          /\ [m.epubkey EXCEPT !.of = "another"].of = "another"
        BY <2>2 DEF Epubkey
    <2>4. CASE d = [m EXCEPT !.epubkey.of = "another"]
        <3>1. d = [type |-> "exchange", epubkey |-> [m.epubkey EXCEPT !.of = "another"],
                   by |-> m.by, over |-> m.over]
            BY <2>2, <2>4
        <3> QED
            BY <1>3, <2>2, <2>3, <3>1 DEF Message
    <2> QED
        BY <1>1, <2>1, <2>4
<1>4. CASE m.type \notin {"propose", "exchange"}
    BY <1>1, <1>4 DEF Damaged
<1> QED
    BY <1>2, <1>3, <1>4

\* A handshake that fails.
LEMMA FailsTypes ==
    ASSUME TypeOK, NEW e \in Ends, Fails(e)
    PROVE  TypeOK'
<1>1. /\ phase' \in [Ends -> Phases] /\ fin' \in [Ends -> BOOLEAN] /\ net' \in [Ends -> Seq(Message)]
      /\ \A d \in Ends : phase'[d] = "exchange" => phase[d] = "exchange"
    BY DEF Fails, TypeOK, Phases
<1> QED
    BY <1>1 DEF Fails, TypeOK, stream

\* What is read goes to the reader or to recv_buf.
LEMMA MinPair ==
    ASSUME NEW x \in Nat, NEW y \in Nat
    PROVE  Min({x, y}) = IF x <= y THEN x ELSE y
BY DEF Min

\* The buffers after a read.
LEMMA DrainTypes ==
    ASSUME TypeOK, NEW e \in Ends, NEW buf \in Seq(Nat), NEW size \in Nat, drain(e, buf, size)
    PROVE  got' \in [Ends -> Seq(Nat)] /\ recv_buf' \in [Ends -> Seq(Nat)]
<1> DEFINE k == Min({size, Len(buf)})
<1>1. k \in 0..Len(buf)
    BY MinPair
<1> HIDE DEF k
<1>2. SubSeq(buf, 1, k) \in Seq(Nat) /\ SubSeq(buf, k + 1, Len(buf)) \in Seq(Nat)
    BY <1>1
<1>3. got[e] \o SubSeq(buf, 1, k) \in Seq(Nat)
    BY <1>2 DEF TypeOK
<1> QED
    BY <1>2, <1>3 DEF drain, k, TypeOK

\* Types are kept by every step.
LEMMA TypeStep ==
    ASSUME TypeOK, [Next]_vars
    PROVE  TypeOK'
<1>1. ASSUME NEW e \in Ends, SendProposition(e)
      PROVE  TypeOK'
    <2>1. Sent(e, [type |-> "propose", prop |-> config[e]]) \in Seq(Message)
        BY SentTypes, MessageTypes
    <2>2. net' \in [Ends -> Seq(Message)]
        BY <1>1, <2>1 DEF SendProposition, TypeOK
    <2>3. phase' \in [Ends -> Phases] /\ \A d \in Ends : phase'[d] = "exchange" => phase[d] = "exchange"
        BY <1>1 DEF SendProposition, TypeOK, Phases
    <2> QED
        BY <1>1, <2>2, <2>3 DEF SendProposition, TypeOK, stream
<1>2. ASSUME NEW e \in Ends, RecvProposition(e)
      PROVE  TypeOK'
    <2> DEFINE m == Head(net[e])
    <2>1. m \in Message /\ Tail(net[e]) \in Seq(Message)
        BY <1>2, HeadTail DEF RecvProposition, TypeOK
    <2>2. CASE m.type = "propose" /\ with_remote(config[e], m.prop)
        <3>1. m.prop \in Prop
            BY <2>1, <2>2 DEF Message
        <3>2. Sent(e, Exchange(e, m.prop)) \in Seq(Message)
            BY <3>1, SentTypes, MessageTypes
        <3>3. /\ remote' = [remote EXCEPT ![e] = m.prop]
              /\ phase' = [phase EXCEPT ![e] = "exchange"]
              /\ net' = [net EXCEPT ![e] = Tail(net[e]), ![Other(e)] = Sent(e, Exchange(e, m.prop))]
              /\ UNCHANGED <<config, seal, open, fin, stream, up, damage>>
            BY <1>2, <2>2 DEF RecvProposition, Answer
        <3> HIDE DEF m
        <3>4. net' \in [Ends -> Seq(Message)]
            BY <2>1, <3>2, <3>3, TwoEnds DEF TypeOK
        <3>5. remote' \in [Ends -> Prop \cup {NoRemote}] /\ phase' \in [Ends -> Phases]
              /\ \A d \in Ends : phase'[d] = "exchange" => remote'[d] \in Prop
            BY <3>1, <3>3 DEF TypeOK, Phases
        <3> QED
            BY <3>3, <3>4, <3>5 DEF TypeOK, stream
    <2>3. CASE ~(m.type = "propose" /\ with_remote(config[e], m.prop))
        BY <1>2, <2>3, FailsTypes DEF RecvProposition
    <2> QED
        BY <2>2, <2>3
<1>3. ASSUME NEW e \in Ends, RecvExchange(e)
      PROVE  TypeOK'
    <2> DEFINE m == Head(net[e])
    <2>1. m \in Message /\ Tail(net[e]) \in Seq(Message)
        BY <1>3, HeadTail DEF RecvExchange, TypeOK
    <2>2. CASE ExchangeAccepted(e, m)
        <3> DEFINE half == LocalHalf(e)
                   local == [key |-> CipherKey(e, m, half), iv |-> 0]
                   far == [key |-> CipherKey(e, m, 3 - half), iv |-> 0]
        <3>1. half \in 1..2 /\ 3 - half \in 1..2
            BY DEF LocalHalf
        <3>2. /\ seal' = [seal EXCEPT ![e] = Advance(local)]
              /\ open' = [open EXCEPT ![e] = far]
              /\ phase' = [phase EXCEPT ![e] = "nonce"]
              /\ net' = [net EXCEPT ![e] = Tail(net[e]), ![Other(e)] = Sent(e, Frame(local, <<remote[e].nonce>>))]
              /\ UNCHANGED <<config, remote, fin, stream, up, damage>>
            BY <1>3, <2>2 DEF RecvExchange, Answer
        <3>3. m.type = "exchange"
            BY <2>2 DEF ExchangeAccepted
        <3> HIDE DEF half, m
        <3>4. local \in Cipher /\ far \in Cipher
            BY <2>1, <3>1, <3>3, KeyTypes
        <3>5. <<remote[e].nonce>> \in Seq(Nat)
            <4>1. remote[e] \in Prop
                BY <1>3 DEF RecvExchange, TypeOK
            <4>2. remote[e].nonce \in Nat
                BY <4>1, SecioAssumption DEF Prop
            <4> QED
                BY <4>2
        <3> HIDE DEF local, far
        <3>6. Sent(e, Frame(local, <<remote[e].nonce>>)) \in Seq(Message)
            BY <3>4, <3>5, SentTypes, MessageTypes
        <3>7. net' \in [Ends -> Seq(Message)]
            BY <2>1, <3>2, <3>6, TwoEnds DEF TypeOK
        <3>8. seal' \in [Ends -> Cipher] /\ open' \in [Ends -> Cipher]
            BY <3>2, <3>4, AdvanceTypes DEF TypeOK
        <3>9. phase' \in [Ends -> Phases] /\ \A d \in Ends : phase'[d] = "exchange" => phase[d] = "exchange"
            BY <3>2 DEF TypeOK, Phases
        <3> QED
            BY <3>2, <3>7, <3>8, <3>9 DEF TypeOK, stream
    <2>3. CASE ~ExchangeAccepted(e, m)
        BY <1>3, <2>3, FailsTypes DEF RecvExchange
    <2> QED
        BY <2>2, <2>3
<1>4. ASSUME NEW e \in Ends, VerifyNonce(e)
      PROVE  TypeOK'
    <2>1. CASE Fails(e)
        BY <2>1, FailsTypes
    <2>2. CASE ~Fails(e)
        <3>1. /\ phase' = [phase EXCEPT ![e] = "done"]
              /\ open' = [open EXCEPT ![e] = Advance(open[e])]
              /\ net' = [net EXCEPT ![e] = Tail(net[e])]
              /\ net[e] # <<>>
              /\ UNCHANGED <<config, remote, seal, fin, stream, up, damage>>
            BY <1>4, <2>2 DEF VerifyNonce
        <3>2. net' \in [Ends -> Seq(Message)]
            BY <3>1, HeadTail DEF TypeOK
        <3>3. open' \in [Ends -> Cipher]
            BY <3>1, AdvanceTypes DEF TypeOK
        <3>4. phase' \in [Ends -> Phases] /\ \A d \in Ends : phase'[d] = "exchange" => phase[d] = "exchange"
            BY <3>1 DEF TypeOK, Phases
        <3> QED
            BY <3>1, <3>2, <3>3, <3>4 DEF TypeOK, stream
    <2> QED
        BY <2>1, <2>2
<1>5. ASSUME NEW e \in Ends, HandshakeEof(e)
      PROVE  TypeOK'
    BY <1>5, FailsTypes DEF HandshakeEof
<1>6. ASSUME NEW e \in Ends, poll_shutdown(e)
      PROVE  TypeOK'
    BY <1>6 DEF poll_shutdown, TypeOK, stream
<1>7. ASSUME NEW e \in Ends, NEW n \in WriteSizes, poll_write(e, n)
      PROVE  TypeOK'
    <2> DEFINE b == [i \in 1..n |-> written[e] + i]
    <2>1. n \in Nat
        BY SecioAssumption
    <2>2. b \in Seq(Nat)
        BY <2>1 DEF TypeOK
    <2>3. net' = [net EXCEPT ![Other(e)] = Sent(e, Frame(seal[e], b))]
        BY <1>7 DEF poll_write
    <2> HIDE DEF b
    <2>4. Sent(e, Frame(seal[e], b)) \in Seq(Message)
        BY <2>2, SentTypes, MessageTypes DEF TypeOK
    <2>5. net' \in [Ends -> Seq(Message)]
        BY <2>3, <2>4, TwoEnds DEF TypeOK
    <2>6. seal' \in [Ends -> Cipher]
        BY <1>7, AdvanceTypes DEF poll_write, TypeOK
    <2>7. written' \in [Ends -> Nat]
        BY <1>7, <2>1 DEF poll_write, TypeOK
    <2> QED
        BY <1>7, <2>5, <2>6, <2>7 DEF poll_write, TypeOK
<1>8. ASSUME NEW e \in Ends, NEW n \in ReadSizes, poll_read(e, n)
      PROVE  TypeOK'
    <2>1. n \in Nat
        BY SecioAssumption
    <2>2. UNCHANGED <<config, phase, remote, seal, fin, written, up, damage>>
        BY <1>8 DEF poll_read
    <2>3. /\ got' \in [Ends -> Seq(Nat)] /\ recv_buf' \in [Ends -> Seq(Nat)]
          /\ net' \in [Ends -> Seq(Message)] /\ open' \in [Ends -> Cipher]
          /\ ended' \in [Ends -> BOOLEAN]
        <3>1. CASE drain(e, recv_buf[e], n) /\ UNCHANGED <<open, net, ended>>
            BY <2>1, <3>1, DrainTypes DEF TypeOK
        <3>2. CASE /\ net[e] # <<>>
                   /\ net' = [net EXCEPT ![e] = Tail(net[e])]
                   /\ open' = [open EXCEPT ![e] = Advance(open[e])]
                   /\ IF Opens(open[e], Head(net[e]))
                      THEN Fill(e, Head(net[e]), n) /\ UNCHANGED ended
                      ELSE ended' = [ended EXCEPT ![e] = TRUE] /\ UNCHANGED <<got, recv_buf>>
            <4>1. net' \in [Ends -> Seq(Message)] /\ Head(net[e]) \in Message
                BY <3>2, HeadTail DEF TypeOK
            <4>2. open' \in [Ends -> Cipher]
                BY <3>2, AdvanceTypes DEF TypeOK
            <4>3. CASE Opens(open[e], Head(net[e]))
                <5>1. Head(net[e]).bytes \in Seq(Nat)
                    BY <4>1, <4>3 DEF Opens, Message
                <5>2. got' \in [Ends -> Seq(Nat)] /\ recv_buf' \in [Ends -> Seq(Nat)]
                    <6>1. CASE n >= Len(Head(net[e]).bytes)
                        <7>1. got[e] \in Seq(Nat)
                            BY DEF TypeOK
                        <7>2. got[e] \o Head(net[e]).bytes \in Seq(Nat)
                            BY <5>1, <7>1
                        <7>3. /\ got' = [got EXCEPT ![e] = got[e] \o Head(net[e]).bytes]
                              /\ recv_buf' = recv_buf
                            BY <3>2, <4>3, <6>1 DEF Fill
                        <7> QED
                            BY <7>2, <7>3 DEF TypeOK
                    <6>2. CASE ~(n >= Len(Head(net[e]).bytes))
                        BY <2>1, <3>2, <4>3, <5>1, <6>2, DrainTypes DEF Fill
                    <6> QED
                        BY <6>1, <6>2
                <5> QED
                    BY <3>2, <4>1, <4>2, <4>3, <5>2 DEF TypeOK
            <4>4. CASE ~Opens(open[e], Head(net[e]))
                BY <3>2, <4>1, <4>2, <4>4 DEF TypeOK
            <4> QED
                BY <4>3, <4>4
        <3>3. CASE ended' = [ended EXCEPT ![e] = TRUE] /\ UNCHANGED <<open, net, got, recv_buf>>
            BY <3>3 DEF TypeOK
        <3> QED
            BY <1>8, <3>1, <3>2, <3>3 DEF poll_read
    <2> QED
        BY <2>2, <2>3 DEF TypeOK
<1>9. ASSUME NEW e \in Ends, Damage(e)
      PROVE  TypeOK'
    <2>0. PICK i \in 1..Len(net[e]) :
              \E m \in Damaged(net[e][i]) \ {net[e][i]} : net' = [net EXCEPT ![e][i] = m]
        BY <1>9 DEF Damage
    <2>1. PICK m \in Damaged(net[e][i]) : net' = [net EXCEPT ![e][i] = m]
        BY <2>0
    <2>2. net[e] \in Seq(Message) /\ net[e][i] \in Message
        BY DEF TypeOK
    <2>3. m \in Message
        BY <2>2, DamagedTypes
    <2>4. [net[e] EXCEPT ![i] = m] \in Seq(Message)
        BY <2>2, <2>3
    <2>5. net' \in [Ends -> Seq(Message)]
        BY <2>1, <2>4 DEF TypeOK
    <2> QED
        BY <1>9, <2>5 DEF Damage, TypeOK, stream
<1>10. ASSUME Cut
       PROVE  TypeOK'
    <2>1. PICK i \in 0..Len(net["a"]), j \in 0..Len(net["b"]) :
              net' = [a |-> SubSeq(net["a"], 1, i), b |-> SubSeq(net["b"], 1, j)]
        BY <1>10 DEF Cut
    <2>2. SubSeq(net["a"], 1, i) \in Seq(Message) /\ SubSeq(net["b"], 1, j) \in Seq(Message)
        BY DEF TypeOK, Ends
    <2>3. net' \in [Ends -> Seq(Message)]
        BY <2>1, <2>2, SMTT(40) DEF Ends
    <2> QED
        BY <1>10, <2>3 DEF Cut, TypeOK, stream
<1>11. ASSUME UNCHANGED vars
       PROVE  TypeOK'
    BY <1>11 DEF vars, stream, TypeOK
<1> QED
    BY <1>1, <1>2, <1>3, <1>4, <1>5, <1>6, <1>7, <1>8, <1>9, <1>10, <1>11 DEF Next, Handshake

\* In every initial state.
LEMMA TypeInit == Init => TypeOK
<1> SUFFICES ASSUME Init
             PROVE  TypeOK
    OBVIOUS
<1>1. Lists \subseteq Seq(Algorithms)
    <2>1. \A x, y \in Algorithms : <<x>> \in Seq(Algorithms) /\ <<x, y>> \in Seq(Algorithms)
        OBVIOUS
    <2>2. <<>> \in Seq(Algorithms)
        OBVIOUS
    <2>3. SUFFICES ASSUME NEW l \in Lists
                   PROVE  l \in Seq(Algorithms)
        OBVIOUS
    <2>4. l = <<>> \/ (\E x \in Algorithms : l = <<x>>) \/ (\E x, y \in Algorithms : l = <<x, y>>)
        BY DEF Lists
    <2> QED
        BY <2>1, <2>2, <2>4
<1>2. config \in [Ends -> Prop]
    BY <1>1 DEF Init, Proposition, Prop
<1>3. seal \in [Ends -> Cipher] /\ open \in [Ends -> Cipher]
    BY DEF Init, Cipher, Key
<1>4. /\ net \in [Ends -> Seq(Message)]
      /\ recv_buf \in [Ends -> Seq(Nat)] /\ got \in [Ends -> Seq(Nat)]
    BY DEF Init
<1> QED
    BY <1>2, <1>3, <1>4 DEF Init, TypeOK, Phases

\* The types of a connection's two ends.
THEOREM SecioTypes == Spec => []TypeOK
<1>1. TypeOK /\ [Next]_vars => TypeOK'
    BY TypeStep
<1> QED
    BY <1>1, TypeInit, PTL DEF Spec

-----------------------------------------------------------------------------
(***************************************************************************)
(* The handshake                                                           *)
(***************************************************************************)

\* The exchange that end e has sent.
OwnEphemeral(e) == Ephemeral(e, Head(select(config[e], remote[e])))

\* An exchange on the way says what the other end has signed, but for its ephemeral key,
\* which may have been exchanged for another.
Signed(e, m) ==
    LET o == Other(e) IN
    /\ remote[o] # NoRemote
    /\ m.by = config[o].key
    /\ m.over = <<config[o], remote[o], OwnEphemeral(o)>>
    /\ m.epubkey.of # "another" => m.epubkey = OwnEphemeral(o)

\* What an end knows whose ciphers are set up.
Established(e) ==
    LET o == Other(e)
        key(half) == [secret |-> {e, o}, algorithm |-> Head(select(config[e], config[o])),
                      half |-> half] IN
    /\ remote[e] = config[o] /\ remote[o] = config[e]
    /\ config[e].key # config[o].key
    /\ hashes_ordering(config[e], config[o]) # "Equal"
    /\ Head(select(config[e], config[o])) = Head(select(config[o], config[e]))
    /\ seal[e].key = key(LocalHalf(e)) /\ open[e].key = key(3 - LocalHalf(e))

\* What is on the way to e.
Carried(e, m) ==
    /\ m.type = "exchange" => Signed(e, m)
    /\ m.type = "frame" => seal[Other(e)].iv > 0

\* What an end knows in each phase.
Phased(e) ==
    /\ phase[e] \in {"start", "propose"} => remote[e] = NoRemote
    /\ phase[e] \in {"exchange", "nonce", "done"} => /\ remote[e] \in Prop
                                                    /\ remote[e].key # config[e].key
    /\ phase[e] \in {"start", "propose", "exchange"} => seal[e].iv = 0
    /\ phase[e] \in {"nonce", "done"} => seal[e].iv > 0
    /\ phase[e] = "done" => seal[Other(e)].iv > 0

Agreement ==
    \A e \in Ends :
        /\ Phased(e)
        /\ seal[e].iv > 0 => Established(e)
        /\ \A i \in 1..Len(net[e]) : Carried(e, net[e][i])

\* hashes_ordering is antisymmetric, so that the ends take different halves of the key.
LEMMA HashesOrdering ==
    ASSUME NEW p \in Prop, NEW q \in Prop
    PROVE  /\ hashes_ordering(p, q) = "Less" <=> hashes_ordering(q, p) = "Greater"
           /\ hashes_ordering(p, q) = "Equal" <=> hashes_ordering(q, p) = "Equal"
           /\ hashes_ordering(p, q) \in {"Less", "Equal", "Greater"}
<1> DEFINE x == digest(q.key, p.nonce)
           y == digest(p.key, q.nonce)
<1>1. p.key \in Nat /\ p.nonce \in Nat /\ q.key \in Nat /\ q.nonce \in Nat
    BY SecioAssumption DEF Prop
<1>2. x \in Nat /\ y \in Nat
    BY <1>1 DEF digest
<1>3. /\ hashes_ordering(p, q) =
             CASE x < y -> "Less" [] x = y -> "Equal" [] x > y -> "Greater"
      /\ hashes_ordering(q, p) =
             CASE y < x -> "Less" [] y = x -> "Equal" [] y > x -> "Greater"
    BY DEF hashes_ordering
<1> HIDE DEF x, y
<1>4. CASE x < y
    BY <1>2, <1>3, <1>4
<1>5. CASE x = y
    BY <1>2, <1>3, <1>5
<1>6. CASE x > y
    BY <1>2, <1>3, <1>6
<1> QED
    BY <1>2, <1>4, <1>5, <1>6

\* Two ends that are both set up have each other's keys.
LEMMA EstablishedPair ==
    ASSUME TypeOK, NEW e \in Ends, Established(e), Established(Other(e))
    PROVE  seal[e].key = open[Other(e)].key /\ open[e].key = seal[Other(e)].key
           /\ seal[e].key # open[e].key
<1> DEFINE o == Other(e)
           key(half) == [secret |-> {e, o}, algorithm |-> Head(select(config[e], config[o])),
                         half |-> half]
<1>1. o \in Ends /\ Other(o) = e
    BY TwoEnds
<1>2. config[e] \in Prop /\ config[o] \in Prop
    BY <1>1 DEF TypeOK
<1>3. LocalHalf(e) \in 1..2 /\ LocalHalf(o) = 3 - LocalHalf(e)
    <2>1. /\ remote[e] = config[o] /\ remote[o] = config[e]
          /\ hashes_ordering(config[e], config[o]) # "Equal"
        BY DEF Established
    <2> QED
        BY <1>2, <2>1, HashesOrdering DEF LocalHalf
<1>4. seal[e].key = key(LocalHalf(e)) /\ open[e].key = key(3 - LocalHalf(e))
    BY DEF Established
<1>5. seal[o].key = key(LocalHalf(o)) /\ open[o].key = key(3 - LocalHalf(o))
    <2>1. {e, o} = {o, e}
        OBVIOUS
    <2> QED
        BY <1>1, <2>1 DEF Established
<1>6. 3 - LocalHalf(o) = LocalHalf(e)
    BY <1>3
<1>7. key(LocalHalf(e)) # key(3 - LocalHalf(e))
    BY <1>3
<1> QED
    BY <1>3, <1>4, <1>5, <1>6, <1>7

\* A step that agrees on nothing new: no end gets a proposition or a cipher, and what comes on
\* the way is old, or damaged, or from an end that is set up.
LEMMA AgreementKept ==
    ASSUME TypeOK, TypeOK', Agreement, UNCHANGED <<config, remote>>,
           \A e \in Ends : /\ seal'[e].key = seal[e].key /\ open'[e].key = open[e].key
                           /\ seal'[e].iv > 0 <=> seal[e].iv > 0,
           \A e \in Ends : \/ phase'[e] \in {phase[e], "failed"}
                           \/ phase[e] = "start" /\ phase'[e] = "propose"
                           \/ phase[e] = "nonce" /\ phase'[e] = "done" /\ seal[Other(e)].iv > 0,
           \A e \in Ends : \A i \in 1..Len(net'[e]) :
               \/ net'[e][i].type \notin {"exchange", "frame"}
               \/ net'[e][i].type = "frame" /\ seal[Other(e)].iv > 0
               \/ \E j \in 1..Len(net[e]) :
                     \/ net'[e][i] = net[e][j]
                     \/ /\ net[e][j].type = "exchange" /\ net'[e][i].type = "exchange"
                        /\ net'[e][i].by = net[e][j].by /\ net'[e][i].over = net[e][j].over
                        /\ net'[e][i].epubkey.of = "another"
    PROVE  Agreement'
<1> SUFFICES ASSUME NEW e \in Ends
             PROVE  /\ Phased(e)'
                    /\ seal'[e].iv > 0 => Established(e)'
                    /\ \A i \in 1..Len(net'[e]) : Carried(e, net[e][i])'
    BY DEF Agreement
<1>0. Other(e) \in Ends /\ seal[e].iv \in Nat /\ seal'[e].iv \in Nat
    BY TwoEnds DEF TypeOK, Cipher
<1>1. Phased(e)'
    BY <1>0 DEF Agreement, Phased
<1>2. ASSUME seal'[e].iv > 0
      PROVE  Established(e)'
    <2>1. Established(e)
        BY <1>2 DEF Agreement
    <2>2. seal'[e].key = seal[e].key /\ open'[e].key = open[e].key
        OBVIOUS
    <2>3. LocalHalf(e)' = LocalHalf(e)
        BY DEF LocalHalf
    <2> QED
        BY <2>1, <2>2, <2>3 DEF Established
<1>3. ASSUME NEW i \in 1..Len(net'[e])
      PROVE  Carried(e, net[e][i])'
    <2> DEFINE m == net'[e][i]
    <2>1. \A n : Signed(e, n)' <=> Signed(e, n)
        BY DEF Signed, OwnEphemeral
    <2>2. CASE m.type \notin {"exchange", "frame"}
        BY <2>2 DEF Carried
    <2>3. CASE m.type = "frame" /\ seal[Other(e)].iv > 0
        BY <1>0, <2>3 DEF Carried
    <2>4. CASE \E j \in 1..Len(net[e]) : m = net[e][j]
        BY <1>0, <2>1, <2>4 DEF Carried, Agreement
    <2>5. ASSUME NEW j \in 1..Len(net[e]),
                 /\ net[e][j].type = "exchange" /\ m.type = "exchange"
                 /\ m.by = net[e][j].by /\ m.over = net[e][j].over /\ m.epubkey.of = "another"
          PROVE  Carried(e, net[e][i])'
        <3>1. Signed(e, net[e][j])
            BY <2>5 DEF Agreement, Carried
        <3>2. Signed(e, m)
            BY <2>5, <3>1 DEF Signed
        <3> QED
            BY <2>1, <2>5, <3>2 DEF Carried
    <2> QED
        BY <2>2, <2>3, <2>4, <2>5 DEF Carried
<1> QED
    BY <1>1, <1>2, <1>3

\* A handshake that fails.
LEMMA AgreementFails ==
    ASSUME TypeOK, TypeOK', Agreement, NEW e \in Ends, Fails(e)
    PROVE  Agreement'
<1>1. /\ UNCHANGED <<config, remote, seal, open>>
      /\ \A d \in Ends : phase'[d] \in {phase[d], "failed"}
      /\ \A d \in Ends : net'[d] = net[d] \/ net'[d] = <<>>
    BY DEF Fails, TypeOK
<1>2. \A d \in Ends : \A i \in 1..Len(net'[d]) : \E j \in 1..Len(net[d]) : net'[d][i] = net[d][j]
    BY <1>1
<1> QED
    BY <1>1, <1>2, AgreementKept

\* What is behind the first message is what was there, and a message sent comes last.
LEMMA AnswerNet ==
    ASSUME TypeOK, NEW e \in Ends, NEW m \in Message, net[e] # <<>>,
           net' = [net EXCEPT ![e] = Tail(net[e]), ![Other(e)] = Sent(e, m)]
    PROVE  /\ Len(net'[e]) = Len(net[e]) - 1
           /\ \A i \in 1..Len(net'[e]) : i + 1 \in 1..Len(net[e]) /\ net'[e][i] = net[e][i + 1]
           /\ up => /\ Len(net'[Other(e)]) = Len(net[Other(e)]) + 1
                    /\ net'[Other(e)][Len(net[Other(e)]) + 1] = m
           /\ ~up => net'[Other(e)] = net[Other(e)]
           /\ \A i \in 1..Len(net[Other(e)]) : net'[Other(e)][i] = net[Other(e)][i]
           /\ \A i \in 1..Len(net'[Other(e)]) : \/ i \in 1..Len(net[Other(e)])
                                                \/ i = Len(net[Other(e)]) + 1 /\ up
<1> DEFINE o == Other(e)
<1>1. o \in Ends /\ o # e /\ net \in [Ends -> Seq(Message)]
    BY TwoEnds DEF TypeOK
<1>2. net'[e] = Tail(net[e]) /\ net'[o] = Sent(e, m)
    BY <1>1
<1>3. net'[o] = IF up THEN Append(net[o], m) ELSE net[o]
    BY <1>2 DEF Sent
<1> HIDE DEF o
<1>4. net[e] \in Seq(Message) /\ net[o] \in Seq(Message)
    BY <1>1
<1>5. /\ Len(Tail(net[e])) = Len(net[e]) - 1
      /\ \A i \in 1..(Len(net[e]) - 1) : Tail(net[e])[i] = net[e][i + 1]
    BY <1>4, HeadTail
<1>6. Len(net[e]) \in Nat /\ Len(net[o]) \in Nat
    BY <1>4
<1>7. /\ Len(net'[e]) = Len(net[e]) - 1
      /\ \A i \in 1..Len(net'[e]) : i + 1 \in 1..Len(net[e]) /\ net'[e][i] = net[e][i + 1]
    <2>1. Len(net'[e]) = Len(net[e]) - 1
        BY <1>2, <1>5
    <2>2. \A i \in 1..(Len(net[e]) - 1) : i + 1 \in 1..Len(net[e])
        BY <1>6
    <2>3. \A i \in 1..(Len(net[e]) - 1) : net'[e][i] = net[e][i + 1]
        BY <1>2, <1>5
    <2> QED
        BY <2>1, <2>2, <2>3
<1>8. CASE up
    <2>1. /\ Len(Append(net[o], m)) = Len(net[o]) + 1
          /\ Append(net[o], m)[Len(net[o]) + 1] = m
          /\ \A i \in 1..Len(net[o]) : Append(net[o], m)[i] = net[o][i]
        BY <1>4
    <2>2. net'[o] = Append(net[o], m)
        BY <1>3, <1>8
    <2>3. \A i \in 1..(Len(net[o]) + 1) : i \in 1..Len(net[o]) \/ i = Len(net[o]) + 1
        BY <1>6
    <2> QED
        BY <1>7, <1>8, <2>1, <2>2, <2>3 DEF o
<1>9. CASE ~up
    <2>1. net'[o] = net[o]
        BY <1>3, <1>9
    <2> QED
        BY <1>7, <1>9, <2>1 DEF o
<1> QED
    BY <1>8, <1>9

\* RecvProposition: nothing has been built on what e has not sent yet.
LEMMA AgreementProposition ==
    ASSUME TypeOK, TypeOK', Agreement, NEW e \in Ends, RecvProposition(e)
    PROVE  Agreement'
<1> DEFINE m == Head(net[e])
           o == Other(e)
<1>1. CASE m.type = "propose" /\ with_remote(config[e], m.prop)
    <2>1. /\ remote' = [remote EXCEPT ![e] = m.prop]
          /\ phase' = [phase EXCEPT ![e] = "exchange"]
          /\ net' = [net EXCEPT ![e] = Tail(net[e]), ![o] = Sent(e, Exchange(e, m.prop))]
          /\ phase[e] = "propose" /\ net[e] # <<>>
          /\ UNCHANGED <<config, seal, open>>
        BY <1>1 DEF RecvProposition, Answer
    <2>2. m \in Message
        BY <2>1, HeadTail DEF TypeOK
    <2>3. m.prop \in Prop /\ m.prop.key # config[e].key
        BY <1>1, <2>2 DEF Message, with_remote
    <2> DEFINE x == Exchange(e, m.prop)
    <2>4. x \in Message
        BY <2>3, MessageTypes
    <2>5. /\ x.type = "exchange" /\ x.by = config[e].key
          /\ x.epubkey = Ephemeral(e, Head(select(config[e], m.prop)))
          /\ x.over = <<config[e], m.prop, Ephemeral(e, Head(select(config[e], m.prop)))>>
        BY DEF Exchange
    <2> HIDE DEF x, m
    <2>6. /\ \A i \in 1..Len(net'[e]) : i + 1 \in 1..Len(net[e]) /\ net'[e][i] = net[e][i + 1]
          /\ \A i \in 1..Len(net'[o]) :
                 \/ i \in 1..Len(net[o]) /\ net'[o][i] = net[o][i]
                 \/ net'[o][i] = x
        BY <2>1, <2>4, AnswerNet, ZenonT(40) DEF x
    <2>7. o \in Ends /\ o # e /\ Other(o) = e /\ \A d \in Ends : d = e \/ d = o
        BY TwoEnds
    <2>8. /\ phase'[e] = "exchange" /\ phase'[o] = phase[o]
          /\ remote'[e] = m.prop /\ remote'[o] = remote[o]
        BY <2>1, <2>7 DEF TypeOK
    <2>9. remote[e] = NoRemote /\ seal[e].iv = 0
        BY <2>1 DEF Agreement, Phased
    <2>10. ~(seal[o].iv > 0)
        <3>1. Established(o) => remote[e] = config[o]
            BY <2>7 DEF Established
        <3>2. config[o] \in Prop
            BY <2>7 DEF TypeOK
        <3>3. ~Established(o)
            BY <2>9, <3>1, <3>2, SomeRemote
        <3> QED
            BY <2>7, <3>3 DEF Agreement
    <2>11. \A i \in 1..Len(net[o]) : net[o][i].type \notin {"exchange", "frame"}
        BY <2>7, <2>9 DEF Agreement, Carried, Signed
    <2>12. Phased(e)' /\ Phased(o)'
        BY <2>1, <2>3, <2>7, <2>8, <2>9, <2>10 DEF Agreement, Phased
    <2>13. ~(seal'[e].iv > 0) /\ ~(seal'[o].iv > 0)
        BY <2>1, <2>9, <2>10
    <2>14. ASSUME NEW i \in 1..Len(net'[e])
           PROVE  Carried(e, net[e][i])'
        <3>1. Carried(e, net[e][i + 1]) /\ net'[e][i] = net[e][i + 1]
            BY <2>6 DEF Agreement
        <3>2. \A n : Signed(e, n) => Signed(e, n)'
            BY <2>1, <2>7, <2>8 DEF Signed, OwnEphemeral
        <3> QED
            BY <2>1, <3>1, <3>2 DEF Carried
    <2>15. ASSUME NEW i \in 1..Len(net'[o])
           PROVE  Carried(o, net[o][i])'
        <3>1. CASE i \in 1..Len(net[o]) /\ net'[o][i] = net[o][i]
            BY <2>11, <3>1 DEF Carried
        <3>2. CASE net'[o][i] = x
            <4>1. remote'[e] # NoRemote
                BY <2>3, <2>8, SomeRemote
            <4>2. Signed(o, net[o][i])'
                BY <2>1, <2>5, <2>7, <2>8, <3>2, <4>1 DEF Signed, OwnEphemeral
            <4> QED
                BY <2>5, <3>2, <4>2 DEF Carried
        <3> QED
            BY <2>6, <3>1, <3>2
    <2> QED
        BY <2>7, <2>12, <2>13, <2>14, <2>15 DEF Agreement
<1>2. CASE ~(m.type = "propose" /\ with_remote(config[e], m.prop))
    BY <1>2, AgreementFails DEF RecvProposition
<1> QED
    BY <1>1, <1>2

\* RecvExchange: the signature covers both propositions and the ephemeral key, so that an
\* exchange that is accepted says that the ends have seen the same.
LEMMA AgreementExchange ==
    ASSUME TypeOK, TypeOK', Agreement, NEW e \in Ends, RecvExchange(e)
    PROVE  Agreement'
<1> DEFINE m == Head(net[e])
           o == Other(e)
<1>1. CASE ExchangeAccepted(e, m)
    <2> DEFINE local == [key |-> CipherKey(e, m, LocalHalf(e)), iv |-> 0]
               x == Frame(local, <<remote[e].nonce>>)
    <2>1. /\ seal' = [seal EXCEPT ![e] = Advance(local)]
          /\ open' = [open EXCEPT ![e] = [key |-> CipherKey(e, m, 3 - LocalHalf(e)), iv |-> 0]]
          /\ phase' = [phase EXCEPT ![e] = "nonce"]
          /\ net' = [net EXCEPT ![e] = Tail(net[e]), ![o] = Sent(e, x)]
          /\ phase[e] = "exchange" /\ net[e] # <<>>
          /\ UNCHANGED <<config, remote>>
        BY <1>1 DEF RecvExchange, Answer
    <2>2. m \in Message /\ m = net[e][1] /\ 1 \in 1..Len(net[e]) /\ m.type = "exchange"
        BY <1>1, <2>1, HeadTail, SMTT(40) DEF TypeOK, ExchangeAccepted
    <2>3. Signed(e, m)
        BY <2>2 DEF Agreement, Carried
    <2>4. o \in Ends /\ o # e /\ Other(o) = e /\ \A d \in Ends : d = e \/ d = o
        BY TwoEnds
    <2> HIDE DEF m
    <2>5. /\ remote[e] = config[o] /\ remote[o] = config[e]
          /\ m.epubkey = Ephemeral(o, Head(select(config[o], config[e])))
        BY <1>1, <2>3 DEF ExchangeAccepted, SignatureVerified, Signed, OwnEphemeral
    <2>6. /\ Head(select(config[e], config[o])) = Head(select(config[o], config[e]))
          /\ hashes_ordering(config[e], config[o]) # "Equal"
        BY <1>1, <2>5 DEF ExchangeAccepted, Ephemeral
    <2>7. config[e].key # config[o].key /\ remote[e] \in Prop
        BY <2>1, <2>5 DEF Agreement, Phased
    <2>8. LocalHalf(e) \in 1..2 /\ 3 - LocalHalf(e) \in 1..2 /\ LocalHalf(e)' = LocalHalf(e)
        BY <2>1 DEF LocalHalf
    <2>9. local \in Cipher
        BY <2>2, <2>8, KeyTypes
    <2>10. x \in Message /\ x.type = "frame"
        <3>0. remote[e].nonce \in Nat
            BY <2>7, SecioAssumption DEF Prop
        <3>1. <<remote[e].nonce>> \in Seq(Nat)
            BY <3>0
        <3>2. x \in Message
            BY <2>9, <3>1, MessageTypes
        <3> QED
            BY <3>2 DEF Frame
    <2>11. /\ seal'[e].key = CipherKey(e, m, LocalHalf(e)) /\ seal'[e].iv = 1
           /\ open'[e].key = CipherKey(e, m, 3 - LocalHalf(e))
           /\ seal'[o] = seal[o] /\ open'[o] = open[o]
           /\ phase'[e] = "nonce" /\ phase'[o] = phase[o]
        BY <2>1, <2>4, <2>9, AdvanceTypes, SMTT(40) DEF TypeOK
    <2> HIDE DEF x, local
    <2>12. Established(e)'
        <3>1. \A half : CipherKey(e, m, half) =
                  [secret |-> {e, o}, algorithm |-> Head(select(config[e], config[o])), half |-> half]
            BY <2>5, <2>6 DEF CipherKey, Ephemeral
        <3> QED
            BY <2>1, <2>5, <2>6, <2>7, <2>8, <2>11, <3>1 DEF Established
    <2>13. ASSUME seal'[o].iv > 0
           PROVE  Established(o)'
        <3>1. Established(o)
            BY <2>4, <2>11, <2>13 DEF Agreement
        <3>2. LocalHalf(o)' = LocalHalf(o)
            BY <2>1 DEF LocalHalf
        <3> QED
            BY <2>1, <2>11, <3>1, <3>2 DEF Established
    <2>14. Phased(e)'
        BY <2>1, <2>5, <2>7, <2>11 DEF Phased
    <2>15. Phased(o)'
        <3>1. Phased(o)
            BY <2>4 DEF Agreement
        <3> QED
            BY <2>1, <2>4, <2>11, <3>1 DEF Phased
    <2>16. /\ \A i \in 1..Len(net'[e]) : i + 1 \in 1..Len(net[e]) /\ net'[e][i] = net[e][i + 1]
           /\ \A i \in 1..Len(net'[o]) :
                  \/ i \in 1..Len(net[o]) /\ net'[o][i] = net[o][i]
                  \/ net'[o][i] = x
        BY <2>1, <2>10, AnswerNet, ZenonT(40)
    <2>17. \A d, n : Signed(d, n)' <=> Signed(d, n)
        BY <2>1 DEF Signed, OwnEphemeral
    <2>18. ASSUME NEW i \in 1..Len(net'[e])
           PROVE  Carried(e, net[e][i])'
        <3>1. Carried(e, net[e][i + 1]) /\ net'[e][i] = net[e][i + 1]
            BY <2>16 DEF Agreement
        <3> QED
            BY <2>11, <2>17, <3>1 DEF Carried
    <2>19. ASSUME NEW i \in 1..Len(net'[o])
           PROVE  Carried(o, net[o][i])'
        <3>1. CASE i \in 1..Len(net[o]) /\ net'[o][i] = net[o][i]
            <4>1. Carried(o, net[o][i])
                BY <2>4, <3>1 DEF Agreement
            <4> QED
                BY <2>4, <2>11, <2>17, <3>1, <4>1 DEF Carried
        <3>2. CASE net'[o][i] = x
            BY <2>4, <2>10, <2>11, <3>2 DEF Carried
        <3> QED
            BY <2>16, <3>1, <3>2
    <2> QED
        BY <2>4, <2>12, <2>13, <2>14, <2>15, <2>18, <2>19 DEF Agreement
<1>2. CASE ~ExchangeAccepted(e, m)
    BY <1>2, AgreementFails DEF RecvExchange
<1> QED
    BY <1>1, <1>2

\* Every step keeps the agreement.
LEMMA AgreementStep ==
    ASSUME TypeOK, TypeOK', Agreement, [Next]_vars
    PROVE  Agreement'
<1> DEFINE Old(d) == \A i \in 1..Len(net'[d]) : \E j \in 1..Len(net[d]) : net'[d][i] = net[d][j]
<1>0. net \in [Ends -> Seq(Message)] /\ \A d \in Ends : Len(net[d]) \in Nat
    BY DEF TypeOK
<1>1. ASSUME NEW e \in Ends, SendProposition(e)
      PROVE  Agreement'
    <2> DEFINE x == [type |-> "propose", prop |-> config[e]]
               o == Other(e)
    <2>1. o \in Ends /\ o # e /\ \A d \in Ends : d = e \/ d = o
        BY TwoEnds
    <2>2. net'[o] = Sent(e, x) /\ net'[e] = net[e]
        BY <1>0, <1>1, <2>1 DEF SendProposition
    <2>3. \A i \in 1..Len(net'[o]) :
              net'[o][i] = x \/ \E j \in 1..Len(net[o]) : net'[o][i] = net[o][j]
        BY <1>0, <2>1, <2>2 DEF Sent
    <2>4. x.type = "propose"
        OBVIOUS
    <2>5. /\ UNCHANGED <<config, remote, seal, open>>
          /\ \A d \in Ends : phase'[d] = phase[d] \/ (phase[d] = "start" /\ phase'[d] = "propose")
        BY <1>1 DEF SendProposition, TypeOK
    <2> HIDE DEF x, o
    <2>6. \A d \in Ends : \A i \in 1..Len(net'[d]) :
              net'[d][i].type \notin {"exchange", "frame"}
              \/ \E j \in 1..Len(net[d]) : net'[d][i] = net[d][j]
        BY <2>1, <2>2, <2>3, <2>4
    <2> QED
        BY <2>5, <2>6, AgreementKept
<1>2. ASSUME NEW e \in Ends, VerifyNonce(e), ~Fails(e)
      PROVE  Agreement'
    <2>1. /\ phase' = [phase EXCEPT ![e] = "done"]
          /\ open' = [open EXCEPT ![e] = Advance(open[e])]
          /\ net' = [net EXCEPT ![e] = Tail(net[e])]
          /\ net[e] # <<>> /\ phase[e] = "nonce" /\ Head(net[e]).type = "frame"
          /\ UNCHANGED <<config, remote, seal>>
        BY <1>2 DEF VerifyNonce, Opens
    <2>2. Head(net[e]) = net[e][1] /\ 1 \in 1..Len(net[e])
        BY <1>0, <2>1, HeadTail
    <2>3. seal[Other(e)].iv > 0
        BY <2>1, <2>2 DEF Agreement, Carried
    <2>4. \A d \in Ends : Old(d)
        BY <1>0, <2>1, HeadTail
    <2>5. \A d \in Ends : open'[d].key = open[d].key
        BY <2>1, AdvanceTypes DEF TypeOK
    <2>6. \A d \in Ends : phase'[d] = phase[d] \/ (d = e /\ phase'[d] = "done")
        BY <2>1 DEF TypeOK
    <2> QED
        BY <2>1, <2>3, <2>4, <2>5, <2>6, AgreementKept
<1>3. ASSUME NEW e \in Ends, NEW n \in WriteSizes, poll_write(e, n)
      PROVE  Agreement'
    <2> DEFINE x == Frame(seal[e], [i \in 1..n |-> written[e] + i])
               o == Other(e)
    <2>1. o \in Ends /\ o # e /\ Other(o) = e /\ \A d \in Ends : d = e \/ d = o
        BY TwoEnds
    <2>2. net'[o] = Sent(e, x) /\ net'[e] = net[e]
        BY <1>0, <1>3, <2>1 DEF poll_write
    <2>3. x.type = "frame"
        BY DEF Frame
    <2> HIDE DEF x
    <2>4. \A i \in 1..Len(net'[o]) :
              net'[o][i] = x \/ \E j \in 1..Len(net[o]) : net'[o][i] = net[o][j]
        BY <1>0, <2>1, <2>2 DEF Sent
    <2>5. seal[e].iv > 0 /\ seal[e].iv \in Nat
        BY <1>3 DEF poll_write, Agreement, Phased, TypeOK, Cipher
    <2>6. /\ UNCHANGED <<config, remote, open, phase>>
          /\ seal' = [seal EXCEPT ![e] = Advance(seal[e])]
        BY <1>3 DEF poll_write
    <2>7. \A d \in Ends : seal'[d].key = seal[d].key /\ (seal'[d].iv > 0 <=> seal[d].iv > 0)
        <3>1. seal[e] \in Cipher
            BY DEF TypeOK
        <3>2. Advance(seal[e]).key = seal[e].key /\ Advance(seal[e]).iv = seal[e].iv + 1
            BY <3>1, AdvanceTypes
        <3> QED
            BY <2>5, <2>6, <3>2, SMTT(40) DEF TypeOK
    <2> HIDE DEF o
    <2>8. \A d \in Ends : \A i \in 1..Len(net'[d]) :
              (net'[d][i].type = "frame" /\ seal[Other(d)].iv > 0)
              \/ \E j \in 1..Len(net[d]) : net'[d][i] = net[d][j]
        BY <2>1, <2>2, <2>3, <2>4, <2>5
    <2> QED
        BY <2>6, <2>7, <2>8, AgreementKept
<1>4. ASSUME NEW e \in Ends, NEW n \in ReadSizes, poll_read(e, n)
      PROVE  Agreement'
    <2>1. /\ UNCHANGED <<config, remote, seal, phase>>
          /\ \/ UNCHANGED <<open, net>>
             \/ /\ net[e] # <<>>
                /\ net' = [net EXCEPT ![e] = Tail(net[e])]
                /\ open' = [open EXCEPT ![e] = Advance(open[e])]
        BY <1>4 DEF poll_read
    <2>2. \A d \in Ends : Old(d)
        BY <1>0, <2>1, HeadTail, SMTT(40)
    <2>3. \A d \in Ends : open'[d].key = open[d].key
        <3>1. open[e] \in Cipher
            BY DEF TypeOK
        <3>2. Advance(open[e]).key = open[e].key
            BY <3>1, AdvanceTypes
        <3> QED
            BY <2>1, <3>2 DEF TypeOK
    <2> QED
        BY <2>1, <2>2, <2>3, AgreementKept
<1>5. ASSUME NEW e \in Ends, Damage(e)
      PROVE  Agreement'
    <2>0. PICK i \in 1..Len(net[e]) :
              \E m \in Damaged(net[e][i]) \ {net[e][i]} : net' = [net EXCEPT ![e][i] = m]
        BY <1>5 DEF Damage
    <2>1. PICK m \in Damaged(net[e][i]) : net' = [net EXCEPT ![e][i] = m]
        BY <2>0
    <2>2. net[e] \in Seq(Message) /\ net[e][i] \in Message
        BY <1>0
    <2>3. /\ m.type \in {"garbled", net[e][i].type} /\ m.type # "frame"
          /\ m.type = "exchange" => m.by = net[e][i].by /\ m.over = net[e][i].over
                                    /\ m.epubkey.of = "another"
        BY <2>2, DamagedTypes
    <2>4. /\ \A d \in Ends : Len(net'[d]) = Len(net[d])
          /\ \A d \in Ends : \A k \in 1..Len(net[d]) :
                 net'[d][k] = net[d][k] \/ (d = e /\ k = i /\ net'[d][k] = m)
        BY <1>0, <2>1, <2>2
    <2>5. \A d \in Ends : \A k \in 1..Len(net'[d]) :
               \/ net'[d][k].type \notin {"exchange", "frame"}
               \/ \E j \in 1..Len(net[d]) :
                     \/ net'[d][k] = net[d][j]
                     \/ /\ net[d][j].type = "exchange" /\ net'[d][k].type = "exchange"
                        /\ net'[d][k].by = net[d][j].by /\ net'[d][k].over = net[d][j].over
                        /\ net'[d][k].epubkey.of = "another"
        BY <2>3, <2>4
    <2> QED
        BY <1>5, <2>5, AgreementKept DEF Damage
<1>6. ASSUME Cut
      PROVE  Agreement'
    <2>1. PICK i \in 0..Len(net["a"]), j \in 0..Len(net["b"]) :
              net' = [a |-> SubSeq(net["a"], 1, i), b |-> SubSeq(net["b"], 1, j)]
        BY <1>6 DEF Cut
    <2>2. net["a"] \in Seq(Message) /\ net["b"] \in Seq(Message)
        BY <1>0 DEF Ends
    <2>3. Old("a") /\ Old("b")
        BY <2>1, <2>2
    <2> QED
        BY <1>6, <2>3, AgreementKept DEF Cut, Ends
<1>7. ASSUME NEW e \in Ends, Fails(e)
      PROVE  Agreement'
    BY <1>7, AgreementFails
<1>8. ASSUME NEW e \in Ends, poll_shutdown(e)
      PROVE  Agreement'
    BY <1>8, AgreementKept DEF poll_shutdown
<1>9. ASSUME UNCHANGED vars
      PROVE  Agreement'
    BY <1>9, AgreementKept DEF vars
<1> QED
    BY <1>1, <1>2, <1>3, <1>4, <1>5, <1>6, <1>7, <1>8, <1>9, AgreementProposition, AgreementExchange
       DEF Next, Handshake, HandshakeEof

\* Nothing is agreed on before the handshake.
LEMMA AgreementInit == Init => Agreement
BY DEF Init, Agreement, Phased

\* A handshake that succeeds has the other end agree with it on who they are, on what they
\* have proposed and on the keys, for any damage on the way: SameSession.
THEOREM PeersShareSession == Spec => []SameSession
<1> DEFINE I == TypeOK /\ Agreement
<1>1. Init => I
    BY TypeInit, AgreementInit
<1>2. I /\ [Next]_vars => I'
    BY TypeStep, AgreementStep
<1>3. I => SameSession
    <2> SUFFICES ASSUME TypeOK, Agreement, NEW e \in Ends, phase[e] = "done"
                 PROVE  /\ remote[e] = config[Other(e)] /\ remote[Other(e)] = config[e]
                        /\ config["a"].key # config["b"].key
                        /\ seal[e].key = open[Other(e)].key /\ open[e].key = seal[Other(e)].key
                        /\ seal[e].key # open[e].key
        BY DEF SameSession
    <2>1. Established(e) /\ Established(Other(e))
        BY TwoEnds DEF Agreement, Phased
    <2>2. config["a"].key # config["b"].key
        BY <2>1 DEF Established, Other, Ends
    <2> QED
        BY <2>1, <2>2, EstablishedPair DEF Established
<1> QED
    BY <1>1, <1>2, <1>3, PTL DEF Spec

-----------------------------------------------------------------------------
(***************************************************************************)
(* The stream.  What is on the way from a writer to a reader is a queue q; *)
(* t is the number of messages that the reader has taken, s that the       *)
(* writer has sent, c the writer's cipher, w the bytes that it has         *)
(* written, u whether the connection is up, d the damage.                  *)
(***************************************************************************)

\* A frame with consecutive bytes.
Data(m) == /\ m.bytes # <<>>
           /\ \A k \in 1..Len(m.bytes) : m.bytes[k] = m.bytes[1] + k - 1

\* The message m is the p-th that was sent, or what damage has made of it.
Slot(c, w, d, p, m) ==
    \/ m.type = "garbled" /\ d > 0
    \/ p = 1 /\ m.type = "propose"
    \/ p = 2 /\ m.type = "exchange"
    \/ /\ p > 2 /\ m.type = "frame" /\ m.key = c.key /\ m.iv = p - 2 /\ m.iv <= c.iv
       /\ p > 3 => Data(m) /\ m.bytes[Len(m.bytes)] <= w
       /\ p = 4 => m.bytes[1] = 1

\* The i-th message on the way is a frame behind the one with the nonce.
DataAt(q, t, i) == t + i > 3 /\ q[i].type = "frame"

Queue(q, t, s, c, w, u, d) ==
    /\ u => Len(q) + t = s
    /\ \A i \in 1..Len(q) : Slot(c, w, d, t + i, q[i])
    /\ \A i \in 1..(Len(q) - 1) :
           DataAt(q, t, i) /\ DataAt(q, t, i + 1)
               => q[i + 1].bytes[1] = q[i].bytes[Len(q[i].bytes)] + 1
    /\ u /\ Len(q) > 0 /\ DataAt(q, t, Len(q)) => q[Len(q)].bytes[Len(q[Len(q)].bytes)] = w

\* A reader that has n bytes goes on with the first message, or has all that was written.
Follows(q, t, n, w, u) ==
    /\ Len(q) > 0 /\ DataAt(q, t, 1) => q[1].bytes[1] = n + 1
    /\ u /\ q = <<>> => n = w

\* The bytes h are the first that were written.
Readable(h, w) == Len(h) <= w /\ \A k \in 1..Len(h) : h[k] = k

\* How many messages end e has sent, and how many it has taken.
SentBy(e) == IF phase[e] = "start" THEN 0 ELSE IF remote[e] = NoRemote THEN 1 ELSE 2 + seal[e].iv
Taken(e) == IF remote[e] = NoRemote THEN 0 ELSE IF phase[e] = "exchange" THEN 1 ELSE 2 + open[e].iv

\* What end e reads, with what is on the way to it.
Flow(e) ==
    LET o == Other(e) IN
    /\ phase[e] # "failed" => Queue(net[e], Taken(e), SentBy(o), seal[o], written[o], up, damage)
    /\ phase[e] \notin {"done", "failed"} => open[e].iv = 0 /\ got[e] = <<>> /\ recv_buf[e] = <<>>
    /\ phase[e] = "done" => open[e].iv > 0 /\ Readable(got[e] \o recv_buf[e], written[o])
    /\ phase[e] = "done" /\ (~ended[e] \/ damage = 0) =>
           Follows(net[e], Taken(e), Len(got[e]) + Len(recv_buf[e]), written[o], up)

Streams == \A e \in Ends : Flow(e) /\ (seal[e].iv <= 1 => written[e] = 0)

\* The bytes of a frame with data.
LEMMA DataTypes ==
    ASSUME NEW m \in Message, m.type = "frame", Data(m)
    PROVE  /\ m.bytes \in Seq(Nat) /\ Len(m.bytes) \in Nat /\ Len(m.bytes) > 0
           /\ m.bytes[1] \in Nat /\ m.bytes[Len(m.bytes)] \in Nat
           /\ m.bytes[Len(m.bytes)] = m.bytes[1] + Len(m.bytes) - 1
<1>1. m.bytes \in Seq(Nat) /\ m.bytes # <<>>
    BY DEF Message, Data
<1>2. Len(m.bytes) \in Nat /\ Len(m.bytes) > 0
    BY <1>1
<1>3. 1 \in 1..Len(m.bytes) /\ Len(m.bytes) \in 1..Len(m.bytes)
    BY <1>2
<1>4. m.bytes[1] \in Nat /\ m.bytes[Len(m.bytes)] \in Nat
    BY <1>1, <1>3
<1>5. m.bytes[Len(m.bytes)] = m.bytes[1] + Len(m.bytes) - 1
    BY <1>3 DEF Data
<1> QED
    BY <1>1, <1>2, <1>4, <1>5

\* The key and the iv of a frame.
LEMMA SlotFrame ==
    ASSUME NEW c, NEW w, NEW d, NEW p, NEW m, Slot(c, w, d, p, m), m.type = "frame"
    PROVE  m.key = c.key /\ m.iv = p - 2
BY DEF Slot

\* A message keeps its place when the writer goes on.
LEMMA SlotGrows ==
    ASSUME NEW c \in Cipher, NEW c2 \in Cipher, NEW w \in Nat, NEW w2 \in Nat, w <= w2,
           NEW d \in Nat, NEW d2 \in Nat, d <= d2,
           c.iv <= c2.iv, c.iv = 0 \/ c.key = c2.key,
           NEW p \in Nat, NEW m \in Message, Slot(c, w, d, p, m)
    PROVE  Slot(c2, w2, d2, p, m)
<1>0. c.iv \in Nat /\ c2.iv \in Nat
    BY DEF Cipher
<1>1. CASE m.type = "garbled" /\ d > 0
    BY <1>1 DEF Slot
<1>2. CASE (p = 1 /\ m.type = "propose") \/ (p = 2 /\ m.type = "exchange")
    BY <1>2 DEF Slot
<1>3. CASE /\ p > 2 /\ m.type = "frame" /\ m.key = c.key /\ m.iv = p - 2 /\ m.iv <= c.iv
           /\ p > 3 => Data(m) /\ m.bytes[Len(m.bytes)] <= w
           /\ p = 4 => m.bytes[1] = 1
    <2>1. m.key = c2.key /\ m.iv <= c2.iv
        BY <1>0, <1>3
    <2>2. p > 3 => m.bytes[Len(m.bytes)] <= w2
        BY <1>3, DataTypes
    <2> QED
        BY <1>3, <2>1, <2>2 DEF Slot
<1> QED
    BY <1>1, <1>2, <1>3 DEF Slot

\* The first message is taken.
LEMMA QueueTake ==
    ASSUME NEW q \in Seq(Message), q # <<>>, NEW t \in Nat, NEW s, NEW c, NEW w, NEW u, NEW d,
           Queue(q, t, s, c, w, u, d)
    PROVE  Queue(Tail(q), t + 1, s, c, w, u, d)
<1> DEFINE r == Tail(q)
<1>1. /\ r \in Seq(Message) /\ Len(r) = Len(q) - 1 /\ Len(q) \in Nat /\ Len(r) \in Nat
      /\ \A i \in 1..Len(r) : r[i] = q[i + 1] /\ i + 1 \in 1..Len(q)
    BY HeadTail
<1> HIDE DEF r
<1>2. \A i \in 1..Len(r) : DataAt(r, t + 1, i) <=> DataAt(q, t, i + 1)
    BY <1>1 DEF DataAt
<1>3. u => Len(r) + (t + 1) = s
    BY <1>1 DEF Queue
<1>4. \A i \in 1..Len(r) : Slot(c, w, d, (t + 1) + i, r[i])
    <2> SUFFICES ASSUME NEW i \in 1..Len(r)
                 PROVE  Slot(c, w, d, (t + 1) + i, r[i])
        OBVIOUS
    <2>1. (t + 1) + i = t + (i + 1)
        BY <1>1
    <2> QED
        BY <1>1, <2>1 DEF Queue
<1>5. ASSUME NEW i \in 1..(Len(r) - 1), DataAt(r, t + 1, i), DataAt(r, t + 1, i + 1)
      PROVE  r[i + 1].bytes[1] = r[i].bytes[Len(r[i].bytes)] + 1
    <2>1. i \in 1..Len(r) /\ i + 1 \in 1..Len(r) /\ i + 1 \in 1..(Len(q) - 1)
        BY <1>1
    <2>2. DataAt(q, t, i + 1) /\ DataAt(q, t, (i + 1) + 1)
        BY <1>2, <1>5, <2>1
    <2>3. q[(i + 1) + 1].bytes[1] = q[i + 1].bytes[Len(q[i + 1].bytes)] + 1
        BY <2>1, <2>2 DEF Queue
    <2> QED
        BY <1>1, <2>1, <2>3
<1>6. ASSUME u, Len(r) > 0, DataAt(r, t + 1, Len(r))
      PROVE  r[Len(r)].bytes[Len(r[Len(r)].bytes)] = w
    <2>1. Len(r) \in 1..Len(r) /\ Len(r) + 1 = Len(q)
        BY <1>1, <1>6
    <2>2. DataAt(q, t, Len(q)) /\ r[Len(r)] = q[Len(q)] /\ Len(q) > 0
        BY <1>1, <1>2, <1>6, <2>1
    <2> QED
        BY <1>6, <2>2 DEF Queue
<1> QED
    BY <1>3, <1>4, <1>5, <1>6 DEF Queue, r

\* The s-th message is sent: a frame with data has the bytes that it adds to those written.
LEMMA QueueSend ==
    ASSUME NEW q \in Seq(Message), NEW t \in Nat, NEW s \in Nat, NEW c \in Cipher, NEW c2 \in Cipher,
           NEW w \in Nat, NEW w2 \in Nat, w <= w2, c.iv <= c2.iv, c.iv = 0 \/ c.key = c2.key,
           NEW d \in Nat, Queue(q, t, s, c, w, TRUE, d),
           NEW x \in Message, Slot(c2, w2, d, s + 1, x),
           s + 1 > 3 /\ x.type = "frame" => x.bytes[1] = w + 1 /\ x.bytes[Len(x.bytes)] = w2
    PROVE  Queue(Append(q, x), t, s + 1, c2, w2, TRUE, d)
<1> DEFINE r == Append(q, x)
           n == Len(q)
<1>1. /\ r \in Seq(Message) /\ Len(r) = n + 1 /\ n \in Nat
      /\ \A i \in 1..n : r[i] = q[i]
      /\ r[n + 1] = x
    OBVIOUS
<1>2. n + t = s
    BY DEF Queue
<1> HIDE DEF r, n
<1>3. \A i \in 1..n : DataAt(r, t, i) <=> DataAt(q, t, i)
    BY <1>1 DEF DataAt
<1>4. \A i \in 1..(n + 1) : i \in 1..n \/ i = n + 1
    BY <1>1
<1>5. \A i \in 1..n : Slot(c2, w2, d, t + i, r[i])
    <2> SUFFICES ASSUME NEW i \in 1..n
                 PROVE  Slot(c2, w2, d, t + i, r[i])
        OBVIOUS
    <2>1. Slot(c, w, d, t + i, q[i]) /\ q[i] \in Message /\ t + i \in Nat
        BY <1>1 DEF Queue, n
    <2>2. Slot(c2, w2, d, t + i, q[i])
        <3>1. d <= d
            OBVIOUS
        <3> QED
            BY <2>1, <3>1, SlotGrows
    <2> QED
        BY <1>1, <2>2
<1>6. \A i \in 1..(n + 1) : Slot(c2, w2, d, t + i, r[i])
    <2>1. t + (n + 1) = s + 1
        BY <1>1, <1>2
    <2> QED
        BY <1>1, <1>4, <1>5, <2>1
<1>7. ASSUME NEW i \in 1..n, DataAt(r, t, i), DataAt(r, t, i + 1)
      PROVE  r[i + 1].bytes[1] = r[i].bytes[Len(r[i].bytes)] + 1
    <2>1. DataAt(q, t, i) /\ r[i] = q[i]
        BY <1>1, <1>3, <1>7
    <2>2. CASE i < n
        <3>1. i \in 1..(n - 1) /\ i + 1 \in 1..n
            BY <1>1, <2>2
        <3>2. DataAt(q, t, i + 1) /\ r[i + 1] = q[i + 1]
            BY <1>1, <1>3, <1>7, <3>1
        <3> QED
            BY <2>1, <3>1, <3>2 DEF Queue, n
    <2>3. CASE i = n
        <3>1. s + 1 > 3 /\ x.type = "frame" /\ r[i + 1] = x
            BY <1>1, <1>2, <1>7, <2>3 DEF DataAt
        <3>2. q[n].bytes[Len(q[n].bytes)] = w
            BY <1>1, <2>1, <2>3 DEF Queue, n
        <3> QED
            BY <2>1, <2>3, <3>1, <3>2
    <2> QED
        BY <1>1, <2>2, <2>3
<1>8. DataAt(r, t, n + 1) => r[n + 1].bytes[Len(r[n + 1].bytes)] = w2
    BY <1>1, <1>2 DEF DataAt
<1>9. Len(r) + t = s + 1 /\ (n + 1) - 1 = n
    BY <1>1, <1>2
<1>10. Queue(r, t, s + 1, c2, w2, TRUE, d)
    BY <1>1, <1>6, <1>7, <1>8, <1>9 DEF Queue
<1> QED
    BY <1>10 DEF r

\* A connection that is down brings nothing more, and may have lost the last messages.
LEMMA QueueDown ==
    ASSUME NEW q \in Seq(Message), NEW t \in Nat, NEW s, NEW s2, NEW c \in Cipher, NEW c2 \in Cipher,
           NEW w \in Nat, NEW w2 \in Nat, w <= w2, c.iv <= c2.iv, c.iv = 0 \/ c.key = c2.key,
           NEW d \in Nat, NEW u, Queue(q, t, s, c, w, u, d), NEW j \in 0..Len(q)
    PROVE  Queue(SubSeq(q, 1, j), t, s2, c2, w2, FALSE, d)
<1> DEFINE r == SubSeq(q, 1, j)
<1>1. /\ Len(r) = j /\ j \in Nat /\ Len(q) \in Nat /\ j <= Len(q)
      /\ \A i \in 1..j : r[i] = q[i] /\ i \in 1..Len(q) /\ q[i] \in Message
    OBVIOUS
<1> HIDE DEF r
<1>2. \A i \in 1..j : Slot(c2, w2, d, t + i, r[i])
    <2> SUFFICES ASSUME NEW i \in 1..j
                 PROVE  Slot(c2, w2, d, t + i, r[i])
        OBVIOUS
    <2>1. Slot(c, w, d, t + i, q[i]) /\ q[i] \in Message /\ t + i \in Nat /\ r[i] = q[i]
        BY <1>1 DEF Queue
    <2>2. Slot(c2, w2, d, t + i, q[i])
        <3>1. d <= d
            OBVIOUS
        <3> QED
            BY <2>1, <3>1, SlotGrows
    <2> QED
        BY <2>1, <2>2
<1>3. ASSUME NEW i \in 1..(j - 1), DataAt(r, t, i), DataAt(r, t, i + 1)
      PROVE  r[i + 1].bytes[1] = r[i].bytes[Len(r[i].bytes)] + 1
    <2>1. i \in 1..j /\ i + 1 \in 1..j /\ i \in 1..(Len(q) - 1)
        BY <1>1
    <2>2. DataAt(q, t, i) /\ DataAt(q, t, i + 1) /\ r[i] = q[i] /\ r[i + 1] = q[i + 1]
        BY <1>1, <1>3, <2>1 DEF DataAt
    <2> QED
        BY <2>1, <2>2 DEF Queue
<1>4. Queue(r, t, s2, c2, w2, FALSE, d)
    BY <1>1, <1>2, <1>3 DEF Queue
<1> QED
    BY <1>4 DEF r

\* A damaged message is no frame any more and keeps its place.
LEMMA QueueDamaged ==
    ASSUME NEW q \in Seq(Message), NEW t \in Nat, NEW s, NEW c \in Cipher, NEW w \in Nat,
           NEW d \in Nat, NEW u, Queue(q, t, s, c, w, u, d),
           NEW i \in 1..Len(q), NEW m \in Message, m.type # "frame", m.type \in {"garbled", q[i].type}
    PROVE  Queue([q EXCEPT ![i] = m], t, s, c, w, u, d + 1)
<1> DEFINE r == [q EXCEPT ![i] = m]
<1>1. /\ Len(r) = Len(q) /\ Len(q) \in Nat
      /\ \A k \in 1..Len(q) : k # i => r[k] = q[k]
      /\ r[i] = m
    OBVIOUS
<1> HIDE DEF r
<1>2. \A k \in 1..Len(q) : DataAt(r, t, k) => r[k] = q[k] /\ DataAt(q, t, k)
    BY <1>1 DEF DataAt
<1>3. ASSUME NEW k \in 1..Len(q)
      PROVE  Slot(c, w, d + 1, t + k, r[k])
    <2>1. Slot(c, w, d, t + k, q[k]) /\ q[k] \in Message /\ t + k \in Nat
        BY <1>1 DEF Queue
    <2>2. c.iv \in Nat
        BY DEF Cipher
    <2>3. Slot(c, w, d + 1, t + k, q[k])
        BY <2>1, <2>2, SlotGrows, SMTT(40)
    <2>4. CASE k = i
        BY <1>1, <2>1, <2>4 DEF Slot
    <2> QED
        BY <1>1, <2>3, <2>4
<1>4. ASSUME NEW k \in 1..(Len(q) - 1), DataAt(r, t, k), DataAt(r, t, k + 1)
      PROVE  r[k + 1].bytes[1] = r[k].bytes[Len(r[k].bytes)] + 1
    <2>1. k \in 1..Len(q) /\ k + 1 \in 1..Len(q)
        BY <1>1
    <2> QED
        BY <1>2, <1>4, <2>1 DEF Queue
<1>5. ASSUME u, Len(q) > 0, DataAt(r, t, Len(q))
      PROVE  r[Len(q)].bytes[Len(r[Len(q)].bytes)] = w
    <2>1. Len(q) \in 1..Len(q)
        BY <1>1, <1>5
    <2> QED
        BY <1>2, <1>5, <2>1 DEF Queue
<1>6. Queue(r, t, s, c, w, u, d + 1)
    BY <1>1, <1>3, <1>4, <1>5 DEF Queue
<1> QED
    BY <1>6 DEF r

\* Damage elsewhere.
LEMMA QueueWorse ==
    ASSUME NEW q \in Seq(Message), NEW t \in Nat, NEW s, NEW c \in Cipher, NEW w \in Nat,
           NEW d \in Nat, NEW u, Queue(q, t, s, c, w, u, d)
    PROVE  Queue(q, t, s, c, w, u, d + 1)
<1>1. ASSUME NEW k \in 1..Len(q)
      PROVE  Slot(c, w, d + 1, t + k, q[k])
    <2>1. Slot(c, w, d, t + k, q[k]) /\ q[k] \in Message /\ t + k \in Nat
        BY DEF Queue
    <2>2. c.iv \in Nat
        BY DEF Cipher
    <2> QED
        BY <2>1, <2>2, SlotGrows
<1> QED
    BY <1>1 DEF Queue

\* The reader goes on while the writer does.
LEMMA FollowsSend ==
    ASSUME NEW q \in Seq(Message), NEW t \in Nat, t >= 3, NEW s \in Nat, NEW c, NEW w \in Nat,
           NEW w2, NEW d, Queue(q, t, s, c, w, TRUE, d), NEW n, Follows(q, t, n, w, TRUE), NEW x,
           s + 1 > 3 /\ x.type = "frame" => x.bytes[1] = w + 1
    PROVE  Follows(Append(q, x), t, n, w2, TRUE)
<1> DEFINE r == Append(q, x)
<1>1. /\ Len(r) = Len(q) + 1 /\ Len(q) \in Nat
      /\ \A i \in 1..Len(q) : r[i] = q[i]
      /\ r[Len(q) + 1] = x /\ r # <<>>
    OBVIOUS
<1>2. Len(q) + t = s
    BY DEF Queue
<1> HIDE DEF r
<1>3. CASE q = <<>>
    <2>1. Len(q) = 0
        BY <1>3
    <2>2. n = w /\ s = t /\ r[1] = x
        BY <1>1, <1>2, <1>3, <2>1 DEF Follows
    <2>3. DataAt(r, t, 1) => r[1].bytes[1] = n + 1
        BY <2>2 DEF DataAt
    <2>4. Follows(r, t, n, w2, TRUE)
        BY <1>1, <2>3 DEF Follows
    <2> QED
        BY <2>4 DEF r
<1>4. CASE q # <<>>
    <2>1. Len(q) > 0 /\ 1 \in 1..Len(q)
        BY <1>1, <1>4
    <2>2. r[1] = q[1]
        BY <1>1, <2>1
    <2>3. Follows(r, t, n, w2, TRUE)
        BY <1>1, <2>1, <2>2 DEF Follows, DataAt
    <2> QED
        BY <2>3 DEF r
<1> QED
    BY <1>3, <1>4

\* ... or while the connection is down.
LEMMA FollowsDown ==
    ASSUME NEW q \in Seq(Message), NEW t, NEW n, NEW w, NEW w2, NEW u, Follows(q, t, n, w, u),
           NEW j \in 0..Len(q)
    PROVE  Follows(SubSeq(q, 1, j), t, n, w2, FALSE)
<1> DEFINE r == SubSeq(q, 1, j)
<1>1. Len(r) = j /\ Len(q) \in Nat /\ \A i \in 1..j : r[i] = q[i]
    OBVIOUS
<1> HIDE DEF r
<1>2. Len(r) > 0 => Len(q) > 0 /\ r[1] = q[1]
    BY <1>1
<1>3. Follows(r, t, n, w2, FALSE)
    BY <1>2 DEF Follows, DataAt
<1> QED
    BY <1>3 DEF r

\* ... or when what comes is damaged.
LEMMA FollowsDamaged ==
    ASSUME NEW q \in Seq(Message), NEW t, NEW n, NEW w, NEW u, Follows(q, t, n, w, u),
           NEW i \in 1..Len(q), NEW m \in Message, m.type # "frame"
    PROVE  Follows([q EXCEPT ![i] = m], t, n, w, u)
<1> DEFINE r == [q EXCEPT ![i] = m]
<1>1. /\ Len(r) = Len(q) /\ Len(q) \in Nat /\ q # <<>> /\ r # <<>>
      /\ \A k \in 1..Len(q) : r[k] = q[k] \/ r[k] = m
    OBVIOUS
<1> HIDE DEF r
<1>2. Follows(r, t, n, w, u)
    BY <1>1 DEF Follows, DataAt
<1> QED
    BY <1>2 DEF r

\* A frame is read: the reader has its bytes behind those that it had.
LEMMA ReadFrame ==
    ASSUME NEW q \in Seq(Message), q # <<>>, NEW t \in Nat, t >= 3, NEW s, NEW c, NEW w \in Nat,
           NEW u, NEW d, Queue(q, t, s, c, w, u, d), NEW h \in Seq(Nat), Readable(h, w),
           Follows(q, t, Len(h), w, u), q[1].type = "frame"
    PROVE  /\ q[1].bytes \in Seq(Nat)
           /\ Readable(h \o q[1].bytes, w)
           /\ Follows(Tail(q), t + 1, Len(h) + Len(q[1].bytes), w, u)
<1> DEFINE b == q[1].bytes
           n == Len(h)
           r == Tail(q)
<1>1. /\ 1 \in 1..Len(q) /\ Len(q) \in Nat /\ q[1] \in Message /\ Len(r) = Len(q) - 1
      /\ r \in Seq(Message) /\ \A i \in 1..Len(r) : r[i] = q[i + 1]
    BY HeadTail
<1>2. t + 1 > 3 /\ DataAt(q, t, 1)
    BY DEF DataAt
<1>3. Slot(c, w, d, t + 1, q[1])
    BY <1>1 DEF Queue
<1>4. Data(q[1]) /\ b[Len(b)] <= w
    BY <1>2, <1>3 DEF Slot
<1>5. b \in Seq(Nat) /\ Len(b) \in Nat /\ Len(b) > 0 /\ b[1] \in Nat /\ b[Len(b)] = b[1] + Len(b) - 1
    BY <1>1, <1>4, DataTypes
<1>6. b[1] = n + 1 /\ n \in Nat
    BY <1>1, <1>2 DEF Follows
<1>7. \A k \in 1..Len(b) : b[k] = n + k
    BY <1>4, <1>5, <1>6 DEF Data
<1>8. b[Len(b)] = n + Len(b)
    <2>1. Len(b) \in 1..Len(b)
        BY <1>5
    <2> QED
        BY <1>7, <2>1
<1> HIDE DEF b, n, r
<1>9. Readable(h \o b, w)
    <2>1. /\ Len(h \o b) = n + Len(b)
          /\ \A k \in 1..n : (h \o b)[k] = h[k]
          /\ \A k \in 1..Len(b) : (h \o b)[n + k] = b[k]
        BY <1>5 DEF n
    <2>2. \A k \in 1..n : h[k] = k
        BY DEF Readable, n
    <2> DEFINE j == h \o b
    <2> HIDE DEF j
    <2>3. ASSUME NEW k \in 1..(n + Len(b))
          PROVE  j[k] = k
        <3>1. CASE k <= n
            <4>1. k \in 1..n
                BY <1>6, <3>1
            <4> QED
                BY <2>1, <2>2, <4>1 DEF j
        <3>2. CASE k > n
            <4>1. k - n \in 1..Len(b) /\ n + (k - n) = k
                BY <1>5, <1>6, <3>2
            <4>2. j[n + (k - n)] = b[k - n] /\ b[k - n] = n + (k - n)
                BY <1>7, <2>1, <4>1 DEF j
            <4> QED
                BY <4>1, <4>2
        <3> QED
            BY <1>5, <1>6, <3>1, <3>2
    <2>4. Len(j) = n + Len(b) /\ Len(j) <= w
        BY <1>4, <1>8, <2>1 DEF j
    <2>5. Readable(j, w)
        BY <2>3, <2>4 DEF Readable
    <2> QED
        BY <2>5 DEF j
<1>10. Follows(r, t + 1, n + Len(b), w, u)
    <2>1. ASSUME Len(r) > 0, DataAt(r, t + 1, 1)
          PROVE  r[1].bytes[1] = (n + Len(b)) + 1
        <3>1. 1 \in 1..Len(r) /\ 1 \in 1..(Len(q) - 1) /\ r[1] = q[1 + 1]
            BY <1>1, <2>1
        <3>2. DataAt(q, t, 1 + 1)
            BY <2>1, <3>1 DEF DataAt
        <3>3. q[1 + 1].bytes[1] = q[1].bytes[Len(q[1].bytes)] + 1
            BY <1>2, <3>1, <3>2 DEF Queue
        <3> QED
            BY <1>8, <3>1, <3>3 DEF b
    <2>2. ASSUME u, r = <<>>
          PROVE  n + Len(b) = w
        <3>1. Len(q) = 1
            BY <1>1, <2>2
        <3>2. q[1].bytes[Len(q[1].bytes)] = w
            BY <1>2, <2>2, <3>1 DEF Queue
        <3> QED
            BY <1>8, <3>2 DEF b
    <2> QED
        BY <2>1, <2>2 DEF Follows
<1> QED
    BY <1>5, <1>9, <1>10 DEF b, n, r

\* What is drained moves from one buffer to the other.
LEMMA JoinSplit ==
    ASSUME NEW g \in Seq(Nat), NEW b \in Seq(Nat), NEW k \in 0..Len(b)
    PROVE  /\ Len(g \o SubSeq(b, 1, k)) + Len(SubSeq(b, k + 1, Len(b))) = Len(g) + Len(b)
           /\ (g \o SubSeq(b, 1, k)) \o SubSeq(b, k + 1, Len(b)) = g \o b
<1> DEFINE x == SubSeq(b, 1, k)
           y == SubSeq(b, k + 1, Len(b))
<1>1. Len(b) \in Nat /\ k \in Nat /\ k <= Len(b)
    OBVIOUS
<1>2. x \in Seq(Nat) /\ y \in Seq(Nat) /\ Len(x) = k /\ Len(y) = Len(b) - k
    BY <1>1
<1>3. x \o y = b
    <2>1. 1 \in 1..(Len(b) + 1) /\ k \in (1 - 1)..Len(b) /\ Len(b) \in k..Len(b)
        BY <1>1
    <2>2. SubSeq(b, 1, k) \o SubSeq(b, k + 1, Len(b)) = SubSeq(b, 1, Len(b))
        BY <2>1, ConcatAdjacentSubSeq
    <2>3. SubSeq(b, 1, Len(b)) = b
        BY SubSeqFull
    <2> QED
        BY <2>2, <2>3
<1> HIDE DEF x, y
<1>4. (g \o x) \o y = g \o b
    <2>1. \A i, j, l \in Seq(Nat) : (i \o j) \o l = i \o (j \o l)
        OBVIOUS
    <2>2. (g \o x) \o y = g \o (x \o y)
        BY <1>2, <2>1, Zenon
    <2> QED
        BY <1>3, <2>2
<1>5. Len(g \o x) = Len(g) + k
    BY <1>2, ConcatProperties
<1>6. Len(g) \in Nat
    OBVIOUS
<1>7. Len(g \o x) + Len(y) = Len(g) + Len(b)
    BY <1>1, <1>2, <1>5, <1>6
<1> QED
    BY <1>4, <1>7 DEF x, y

-----------------------------------------------------------------------------
\* A read into an empty buffer loses what it decrypts; no caller does that.
NoEmptyRead == 0 \notin ReadSizes

\* What the two ends count.
LEMMA CountTypes ==
    ASSUME TypeOK, NEW e \in Ends
    PROVE  /\ Taken(e) \in Nat /\ SentBy(e) \in Nat /\ seal[e] \in Cipher /\ seal[e].iv \in Nat
           /\ open[e] \in Cipher /\ open[e].iv \in Nat /\ written[e] \in Nat
           /\ net[e] \in Seq(Message) /\ got[e] \in Seq(Nat) /\ recv_buf[e] \in Seq(Nat)
           /\ damage \in Nat
<1>1. /\ seal[e] \in Cipher /\ open[e] \in Cipher /\ written[e] \in Nat
      /\ net[e] \in Seq(Message) /\ got[e] \in Seq(Nat) /\ recv_buf[e] \in Seq(Nat)
      /\ damage \in Nat
    BY DEF TypeOK
<1>2. seal[e].iv \in Nat /\ open[e].iv \in Nat
    BY <1>1 DEF Cipher
<1> QED
    BY <1>1, <1>2 DEF Taken, SentBy

\* An end whose handshake has succeeded has taken three messages.
LEMMA DoneTaken ==
    ASSUME TypeOK, Agreement, NEW e \in Ends, phase[e] = "done", open[e].iv > 0
    PROVE  Taken(e) = 2 + open[e].iv /\ Taken(e) >= 3
<1>1. remote[e] # NoRemote
    BY SomeRemote DEF Agreement, Phased
<1>2. open[e].iv \in Nat
    BY CountTypes
<1> QED
    BY <1>1, <1>2 DEF Taken

\* Nothing happens to what e reads.
LEMMA FlowKept ==
    ASSUME TypeOK, NEW e \in Ends, Flow(e), phase'[e] = phase[e], Taken(e)' = Taken(e),
           net'[e] = net[e], open'[e] = open[e], got'[e] = got[e], recv_buf'[e] = recv_buf[e],
           ended'[e] = ended[e], up => SentBy(Other(e))' = SentBy(Other(e)),
           seal'[Other(e)] = seal[Other(e)], written'[Other(e)] = written[Other(e)],
           UNCHANGED <<up, damage>>
    PROVE  Flow(e)'
<1> DEFINE o == Other(e)
<1>1. phase[e] # "failed" =>
          Queue(net[e], Taken(e), SentBy(o)', seal[o], written[o], up, damage)
    BY DEF Flow, Queue
<1>2. phase'[e] # "failed" =>
          Queue(net'[e], Taken(e)', SentBy(o)', seal'[o], written'[o], up', damage')
    BY <1>1
<1> HIDE DEF o
<1>3. Flow(e) <=>
          /\ phase[e] # "failed" => Queue(net[e], Taken(e), SentBy(o), seal[o], written[o], up, damage)
          /\ phase[e] \notin {"done", "failed"} => open[e].iv = 0 /\ got[e] = <<>> /\ recv_buf[e] = <<>>
          /\ phase[e] = "done" => open[e].iv > 0 /\ Readable(got[e] \o recv_buf[e], written[o])
          /\ phase[e] = "done" /\ (~ended[e] \/ damage = 0) =>
                 Follows(net[e], Taken(e), Len(got[e]) + Len(recv_buf[e]), written[o], up)
    BY DEF Flow, o
<1> QED
    BY <1>2, <1>3 DEF Flow, o

\* What was readable stays so.
LEMMA ReadableGrows ==
    ASSUME NEW h, Len(h) \in Nat, NEW w \in Nat, NEW w2 \in Nat, w <= w2, Readable(h, w)
    PROVE  Readable(h, w2)
BY DEF Readable

\* The other end sends x.
LEMMA FlowSend ==
    ASSUME TypeOK, TypeOK', Agreement, NEW e \in Ends, Flow(e), NEW o \in Ends, o = Other(e),
           phase'[e] = phase[e], Taken(e)' = Taken(e), open'[e] = open[e], got'[e] = got[e],
           recv_buf'[e] = recv_buf[e], ended'[e] = ended[e], UNCHANGED <<up, damage>>,
           NEW x \in Message, net'[e] = IF up THEN Append(net[e], x) ELSE net[e],
           SentBy(o)' = SentBy(o) + 1, written[o] <= written'[o],
           seal[o].iv <= seal'[o].iv, seal[o].iv = 0 \/ seal[o].key = seal'[o].key,
           Slot(seal'[o], written'[o], damage, SentBy(o) + 1, x),
           SentBy(o) + 1 > 3 /\ x.type = "frame" =>
               x.bytes[1] = written[o] + 1 /\ x.bytes[Len(x.bytes)] = written'[o]
    PROVE  Flow(e)'
<1> DEFINE q == net[e]
           t == Taken(e)
           s == SentBy(o)
           n == Len(got[e]) + Len(recv_buf[e])
<1>1. /\ q \in Seq(Message) /\ t \in Nat /\ s \in Nat /\ seal[o] \in Cipher /\ seal'[o] \in Cipher
      /\ written[o] \in Nat /\ written'[o] \in Nat /\ damage \in Nat /\ up \in BOOLEAN
      /\ got[e] \in Seq(Nat) /\ recv_buf[e] \in Seq(Nat)
    BY CountTypes DEF TypeOK
<1>2. /\ phase[e] # "failed" => Queue(q, t, s, seal[o], written[o], up, damage)
      /\ phase[e] \notin {"done", "failed"} => open[e].iv = 0 /\ got[e] = <<>> /\ recv_buf[e] = <<>>
      /\ phase[e] = "done" => open[e].iv > 0 /\ Readable(got[e] \o recv_buf[e], written[o])
      /\ phase[e] = "done" /\ (~ended[e] \/ damage = 0) => Follows(q, t, n, written[o], up)
    BY DEF Flow
<1>3. phase[e] = "done" => t >= 3
    BY <1>2, DoneTaken
<1> HIDE DEF q, t, s, n
<1>4. ASSUME phase[e] # "failed"
      PROVE  Queue(net'[e], t, s + 1, seal'[o], written'[o], up, damage)
    <2>1. CASE up
        <3>1. Queue(q, t, s, seal[o], written[o], TRUE, damage)
            BY <1>2, <1>4, <2>1
        <3>2. Slot(seal'[o], written'[o], damage, s + 1, x)
            BY DEF s
        <3>3. s + 1 > 3 /\ x.type = "frame" =>
                  x.bytes[1] = written[o] + 1 /\ x.bytes[Len(x.bytes)] = written'[o]
            BY DEF s
        <3>4. Queue(Append(q, x), t, s + 1, seal'[o], written'[o], TRUE, damage)
            BY <1>1, <3>1, <3>2, <3>3, QueueSend
        <3> QED
            BY <2>1, <3>4 DEF q
    <2>2. CASE ~up
        <3>1. Len(q) \in 0..Len(q)
            BY <1>1
        <3>2. Queue(SubSeq(q, 1, Len(q)), t, s + 1, seal'[o], written'[o], FALSE, damage)
            BY <1>1, <1>2, <1>4, <3>1, QueueDown
        <3>3. SubSeq(q, 1, Len(q)) = q
            BY <1>1, SubSeqFull
        <3> QED
            BY <1>1, <2>2, <3>2, <3>3 DEF q
    <2> QED
        BY <2>1, <2>2
<1>5. ASSUME phase[e] = "done"
      PROVE  Readable(got[e] \o recv_buf[e], written'[o])
    <2>1. Len(got[e] \o recv_buf[e]) \in Nat
        BY <1>1, ConcatProperties, LenProperties
    <2>2. Readable(got[e] \o recv_buf[e], written[o])
        BY <1>2, <1>5
    <2> QED
        BY <1>1, <2>1, <2>2, ReadableGrows
<1>6. ASSUME phase[e] = "done", ~ended[e] \/ damage = 0
      PROVE  Follows(net'[e], t, n, written'[o], up)
    <2>1. CASE up
        <3>1. Queue(q, t, s, seal[o], written[o], TRUE, damage) /\ Follows(q, t, n, written[o], TRUE)
            BY <1>2, <1>6, <2>1
        <3>2. s + 1 > 3 /\ x.type = "frame" => x.bytes[1] = written[o] + 1
            BY DEF s
        <3>3. Follows(Append(q, x), t, n, written'[o], TRUE)
            BY <1>1, <1>3, <1>6, <3>1, <3>2, FollowsSend
        <3> QED
            BY <2>1, <3>3 DEF q
    <2>2. CASE ~up
        <3>1. Len(q) \in 0..Len(q)
            BY <1>1
        <3>2. Follows(SubSeq(q, 1, Len(q)), t, n, written'[o], FALSE)
            BY <1>1, <1>2, <1>6, <3>1, FollowsDown
        <3>3. SubSeq(q, 1, Len(q)) = q
            BY <1>1, SubSeqFull
        <3> QED
            BY <1>1, <2>2, <3>2, <3>3 DEF q
    <2> QED
        BY <2>1, <2>2
<1>7. /\ phase'[e] # "failed" =>
             Queue(net'[e], Taken(e)', SentBy(o)', seal'[o], written'[o], up', damage')
      /\ phase'[e] \notin {"done", "failed"} =>
             open'[e].iv = 0 /\ got'[e] = <<>> /\ recv_buf'[e] = <<>>
      /\ phase'[e] = "done" => open'[e].iv > 0 /\ Readable(got'[e] \o recv_buf'[e], written'[o])
      /\ phase'[e] = "done" /\ (~ended'[e] \/ damage' = 0) =>
             Follows(net'[e], Taken(e)', Len(got'[e]) + Len(recv_buf'[e]), written'[o], up')
    BY <1>2, <1>4, <1>5, <1>6 DEF s, t, n
<1> QED
    BY <1>7 DEF Flow

\* A handshake that fails leaves the other direction as it is.
LEMMA FlowFails ==
    ASSUME TypeOK, Streams, NEW e \in Ends, Fails(e), up => phase[e] # "start"
    PROVE  Streams'
<1> DEFINE o == Other(e)
<1>1. o \in Ends /\ o # e /\ Other(o) = e /\ \A d \in Ends : d = e \/ d = o
    BY TwoEnds
<1>2. phase'[e] = "failed" /\ phase'[o] = phase[o] /\ net'[o] = net[o]
    BY <1>1 DEF Fails, TypeOK
<1>3. UNCHANGED <<config, remote, seal, open, written, recv_buf, got, ended, up, damage>>
    BY DEF Fails, stream
<1>4. Flow(e)'
    BY <1>2 DEF Flow
<1>5. Taken(o)' = Taken(o)
    BY <1>2, <1>3 DEF Taken
<1>6. up => SentBy(e)' = SentBy(e)
    BY <1>2, <1>3 DEF SentBy
<1>7. Flow(o)'
    <2>1. Flow(o)
        BY <1>1 DEF Streams
    <2> HIDE DEF o
    <2> QED
        BY <1>1, <1>2, <1>3, <1>5, <1>6, <2>1, FlowKept
<1> QED
    BY <1>1, <1>3, <1>4, <1>7 DEF Streams

\* The handshake takes its first message, or its second.
LEMMA FlowTake ==
    ASSUME TypeOK, NEW e \in Ends, Flow(e), NEW o \in Ends, o = Other(e),
           phase[e] \notin {"done", "failed"}, phase'[e] \notin {"done", "failed"},
           net[e] # <<>>, net'[e] = Tail(net[e]), Taken(e)' = Taken(e) + 1, open'[e].iv = 0,
           got'[e] = got[e], recv_buf'[e] = recv_buf[e], SentBy(o)' = SentBy(o),
           seal'[o] = seal[o], UNCHANGED <<written, up, damage>>
    PROVE  Flow(e)'
<1>1. /\ Queue(net[e], Taken(e), SentBy(o), seal[o], written[o], up, damage)
      /\ got[e] = <<>> /\ recv_buf[e] = <<>>
    BY DEF Flow
<1>2. net[e] \in Seq(Message) /\ Taken(e) \in Nat
    BY CountTypes
<1>3. Queue(Tail(net[e]), Taken(e) + 1, SentBy(o), seal[o], written[o], up, damage)
    BY <1>1, <1>2, QueueTake
<1>4. Queue(net'[e], Taken(e)', SentBy(o)', seal'[o], written'[o], up', damage')
    BY <1>3
<1> QED
    BY <1>1, <1>4 DEF Flow

\* SendProposition
LEMMA StreamsSendProposition ==
    ASSUME TypeOK, TypeOK', Agreement, Streams, NEW e \in Ends, SendProposition(e)
    PROVE  Streams'
<1> DEFINE x == [type |-> "propose", prop |-> config[e]]
<1>0. PICK o \in Ends : o = Other(e) /\ o # e /\ Other(o) = e /\ \A d \in Ends : d = e \/ d = o
    BY TwoEnds
<1>1. /\ phase[e] = "start" /\ phase' = [phase EXCEPT ![e] = "propose"]
      /\ net' = [net EXCEPT ![o] = Sent(e, x)]
      /\ UNCHANGED <<config, remote, seal, open, written, recv_buf, got, ended, up, damage>>
    BY <1>0 DEF SendProposition, stream
<1>2. x \in Message /\ x.type = "propose"
    BY MessageTypes
<1> HIDE DEF x
<1>3. /\ net'[e] = net[e] /\ net'[o] = IF up THEN Append(net[o], x) ELSE net[o]
      /\ phase'[e] = "propose" /\ phase'[o] = phase[o]
    BY <1>0, <1>1 DEF TypeOK, Sent
<1>4. remote[e] = NoRemote
    BY <1>1 DEF Agreement, Phased
<1>5. /\ Taken(o)' = Taken(o) /\ Taken(e)' = Taken(e) /\ SentBy(o)' = SentBy(o)
      /\ SentBy(e) = 0 /\ SentBy(e)' = SentBy(e) + 1
    BY <1>1, <1>3, <1>4 DEF Taken, SentBy
<1>6. Flow(o)'
    <2>1. Flow(o)
        BY DEF Streams
    <2>2. Slot(seal'[e], written'[e], damage, SentBy(e) + 1, x)
        BY <1>2, <1>5 DEF Slot
    <2>3. seal[e].iv \in Nat /\ written[e] \in Nat
        BY CountTypes
    <2>4. seal[e].iv <= seal'[e].iv /\ seal[e].key = seal'[e].key /\ written[e] <= written'[e]
        BY <1>1, <2>3
    <2> QED
        BY <1>0, <1>1, <1>2, <1>3, <1>5, <2>1, <2>2, <2>4, FlowSend
<1>7. Flow(e)'
    <2>1. Queue(net[e], Taken(e), SentBy(o), seal[o], written[o], up, damage)
          /\ open[e].iv = 0 /\ got[e] = <<>> /\ recv_buf[e] = <<>>
        BY <1>0, <1>1 DEF Streams, Flow
    <2>2. Queue(net'[e], Taken(e)', SentBy(o)', seal'[o], written'[o], up', damage')
        BY <1>1, <1>3, <1>5, <2>1
    <2> QED
        BY <1>0, <1>1, <1>3, <2>1, <2>2 DEF Flow
<1> QED
    BY <1>0, <1>1, <1>6, <1>7 DEF Streams

\* RecvProposition
LEMMA StreamsRecvProposition ==
    ASSUME TypeOK, TypeOK', Agreement, Streams, NEW e \in Ends, RecvProposition(e)
    PROVE  Streams'
<1> DEFINE m == Head(net[e])
           x == Exchange(e, m.prop)
<1>0. PICK o \in Ends : o = Other(e) /\ o # e /\ Other(o) = e /\ \A d \in Ends : d = e \/ d = o
    BY TwoEnds
<1>1. CASE m.type = "propose" /\ with_remote(config[e], m.prop)
    <2>1. /\ remote' = [remote EXCEPT ![e] = m.prop]
          /\ phase' = [phase EXCEPT ![e] = "exchange"]
          /\ net' = [net EXCEPT ![e] = Tail(net[e]), ![o] = Sent(e, x)]
          /\ phase[e] = "propose" /\ net[e] # <<>>
          /\ UNCHANGED <<config, seal, open, written, recv_buf, got, ended, up, damage>>
        BY <1>0, <1>1 DEF RecvProposition, Answer, stream
    <2>2. m \in Message
        BY <2>1, HeadTail DEF TypeOK
    <2>3. m.prop \in Prop
        BY <1>1, <2>2 DEF Message
    <2>4. x \in Message /\ x.type = "exchange"
        BY <2>3, MessageTypes DEF Exchange
    <2> HIDE DEF x, m
    <2>5. /\ net'[e] = Tail(net[e]) /\ net'[o] = IF up THEN Append(net[o], x) ELSE net[o]
          /\ phase'[e] = "exchange" /\ phase'[o] = phase[o]
          /\ remote'[e] = m.prop /\ remote'[o] = remote[o]
        BY <1>0, <2>1 DEF TypeOK, Sent
    <2>6. remote[e] = NoRemote /\ seal[e].iv = 0 /\ remote'[e] # NoRemote
        BY <2>1, <2>3, <2>5, SomeRemote DEF Agreement, Phased
    <2>7. /\ Taken(o)' = Taken(o) /\ Taken(e)' = Taken(e) + 1 /\ SentBy(o)' = SentBy(o)
          /\ SentBy(e) = 1 /\ SentBy(e)' = SentBy(e) + 1
        BY <2>1, <2>5, <2>6 DEF Taken, SentBy
    <2>8. Flow(o)'
        <3>1. Flow(o)
            BY DEF Streams
        <3>2. Slot(seal'[e], written'[e], damage, SentBy(e) + 1, x)
            BY <2>4, <2>7 DEF Slot
        <3>3. seal[e].iv \in Nat /\ written[e] \in Nat
            BY CountTypes
        <3>4. seal[e].iv <= seal'[e].iv /\ seal[e].key = seal'[e].key /\ written[e] <= written'[e]
            BY <2>1, <3>3
        <3> QED
            BY <1>0, <2>1, <2>4, <2>5, <2>7, <3>1, <3>2, <3>4, FlowSend
    <2>9. Flow(e)'
        <3>1. Flow(e) /\ open[e].iv = 0
            BY <2>1 DEF Streams, Flow
        <3> QED
            BY <1>0, <2>1, <2>5, <2>7, <3>1, FlowTake
    <2> QED
        BY <1>0, <2>1, <2>8, <2>9 DEF Streams
<1>2. CASE ~(m.type = "propose" /\ with_remote(config[e], m.prop))
    BY <1>2, FlowFails DEF RecvProposition
<1> QED
    BY <1>1, <1>2

\* RecvExchange
LEMMA StreamsRecvExchange ==
    ASSUME TypeOK, TypeOK', Agreement, Streams, NEW e \in Ends, RecvExchange(e)
    PROVE  Streams'
<1> DEFINE m == Head(net[e])
           local == [key |-> CipherKey(e, m, LocalHalf(e)), iv |-> 0]
           x == Frame(local, <<remote[e].nonce>>)
<1>0. PICK o \in Ends : o = Other(e) /\ o # e /\ Other(o) = e /\ \A d \in Ends : d = e \/ d = o
    BY TwoEnds
<1>1. CASE ExchangeAccepted(e, m)
    <2>1. /\ seal' = [seal EXCEPT ![e] = Advance(local)]
          /\ open' = [open EXCEPT ![e] = [key |-> CipherKey(e, m, 3 - LocalHalf(e)), iv |-> 0]]
          /\ phase' = [phase EXCEPT ![e] = "nonce"]
          /\ net' = [net EXCEPT ![e] = Tail(net[e]), ![o] = Sent(e, x)]
          /\ phase[e] = "exchange" /\ net[e] # <<>>
          /\ UNCHANGED <<config, remote, written, recv_buf, got, ended, up, damage>>
        BY <1>0, <1>1 DEF RecvExchange, Answer, stream
    <2>2. m \in Message /\ m.type = "exchange"
        BY <1>1, <2>1, HeadTail DEF TypeOK, ExchangeAccepted
    <2>3. remote[e] \in Prop /\ seal[e].iv = 0 /\ remote[e] # NoRemote
        BY <2>1, SomeRemote DEF Agreement, Phased
    <2>4. local \in Cipher /\ local.iv = 0
        <3>1. LocalHalf(e) \in 1..2
            BY DEF LocalHalf
        <3> HIDE DEF m
        <3> QED
            BY <2>2, <3>1, KeyTypes
    <2>5. x \in Message /\ x.type = "frame" /\ x.key = local.key /\ x.iv = 1
        <3>1. remote[e].nonce \in Nat
            BY <2>3, SecioAssumption DEF Prop
        <3>2. <<remote[e].nonce>> \in Seq(Nat)
            BY <3>1
        <3> HIDE DEF local
        <3>3. x \in Message
            BY <2>4, <3>2, MessageTypes
        <3> QED
            BY <2>4, <3>3 DEF Frame
    <2> HIDE DEF x, local
    <2>6. /\ net'[e] = Tail(net[e]) /\ net'[o] = IF up THEN Append(net[o], x) ELSE net[o]
          /\ phase'[e] = "nonce" /\ phase'[o] = phase[o]
          /\ seal'[e] = Advance(local) /\ seal'[o] = seal[o]
          /\ open'[e].iv = 0 /\ open'[o] = open[o]
        BY <1>0, <2>1 DEF TypeOK, Sent
    <2>7. seal'[e].iv = 1 /\ seal'[e].key = local.key
        BY <2>4, <2>6, AdvanceTypes
    <2>8. open[e].iv = 0
        BY <2>1 DEF Streams, Flow
    <2>9. /\ Taken(o)' = Taken(o) /\ Taken(e)' = Taken(e) + 1 /\ SentBy(o)' = SentBy(o)
          /\ SentBy(e) = 2 /\ SentBy(e)' = SentBy(e) + 1
        BY <2>1, <2>3, <2>6, <2>7, <2>8 DEF Taken, SentBy
    <2>10. Flow(o)'
        <3>1. Flow(o)
            BY DEF Streams
        <3>2. Slot(seal'[e], written'[e], damage, SentBy(e) + 1, x)
            BY <2>5, <2>7, <2>9 DEF Slot
        <3>3. written[e] \in Nat
            BY CountTypes
        <3>4. seal[e].iv <= seal'[e].iv /\ seal[e].iv = 0 /\ written[e] <= written'[e]
            BY <2>1, <2>3, <2>7, <3>3
        <3>5. ~(SentBy(e) + 1 > 3)
            BY <2>9
        <3>6. /\ got'[o] = got[o] /\ recv_buf'[o] = recv_buf[o] /\ ended'[o] = ended[o]
              /\ UNCHANGED <<up, damage>>
            BY <2>1
        <3> QED
            BY <1>0, <2>5, <2>6, <2>9, <3>1, <3>2, <3>4, <3>5, <3>6, FlowSend
    <2>11. Flow(e)'
        <3>1. Flow(e)
            BY DEF Streams
        <3> QED
            BY <1>0, <2>1, <2>6, <2>9, <3>1, FlowTake
    <2>12. \A d \in Ends : seal'[d].iv <= 1 => written'[d] = 0
        BY <1>0, <2>1, <2>3, <2>6 DEF Streams
    <2> QED
        BY <1>0, <2>10, <2>11, <2>12 DEF Streams
<1>2. CASE ~ExchangeAccepted(e, m)
    BY <1>2, FlowFails DEF RecvExchange
<1> QED
    BY <1>1, <1>2

\* VerifyNonce: the first frame with data is next, if anything has been written.
LEMMA StreamsVerifyNonce ==
    ASSUME TypeOK, TypeOK', Agreement, Streams, NEW e \in Ends, VerifyNonce(e)
    PROVE  Streams'
<1>0. PICK o \in Ends : o = Other(e) /\ o # e /\ Other(o) = e /\ \A d \in Ends : d = e \/ d = o
    BY TwoEnds
<1>1. CASE Fails(e)
    BY <1>1, FlowFails DEF VerifyNonce
<1>2. CASE ~Fails(e)
    <2>1. /\ phase' = [phase EXCEPT ![e] = "done"]
          /\ open' = [open EXCEPT ![e] = Advance(open[e])]
          /\ net' = [net EXCEPT ![e] = Tail(net[e])]
          /\ net[e] # <<>> /\ phase[e] = "nonce" /\ Head(net[e]).type = "frame"
          /\ UNCHANGED <<config, remote, seal, written, recv_buf, got, ended, up, damage>>
        BY <1>2 DEF VerifyNonce, Opens, stream
    <2>2. /\ net[e] \in Seq(Message) /\ Taken(e) \in Nat /\ seal[o].iv \in Nat
          /\ open[e] \in Cipher /\ open[e].iv \in Nat
        BY CountTypes
    <2>3. Head(net[e]) = net[e][1] /\ 1 \in 1..Len(net[e])
        BY <2>1, <2>2, HeadTail
    <2>4. seal[o].iv > 0
        BY <1>0, <2>1, <2>3 DEF Agreement, Carried
    <2>5. remote[e] # NoRemote /\ remote[o] # NoRemote /\ phase[o] # "start"
        <3>1. Established(o) /\ Phased(o) /\ Phased(e)
            BY <2>4 DEF Agreement
        <3>2. remote[o] = config[Other(o)] /\ config[Other(o)] \in Prop
            BY <1>0, <3>1 DEF Established, TypeOK
        <3> QED
            BY <2>1, <2>4, <3>1, <3>2, SomeRemote DEF Phased
    <2>6. Flow(e) /\ Flow(o)
        BY DEF Streams
    <2>7. /\ Queue(net[e], Taken(e), SentBy(o), seal[o], written[o], up, damage)
          /\ open[e].iv = 0 /\ got[e] = <<>> /\ recv_buf[e] = <<>>
        BY <1>0, <2>1, <2>6 DEF Flow
    <2>8. /\ net'[e] = Tail(net[e]) /\ net'[o] = net[o]
          /\ phase'[e] = "done" /\ phase'[o] = phase[o]
          /\ open'[e].iv = 1 /\ open'[o] = open[o]
        BY <1>0, <2>1, <2>2, <2>7, AdvanceTypes DEF TypeOK
    <2>9. /\ Taken(e) = 2 /\ Taken(e)' = 3 /\ Taken(o)' = Taken(o)
          /\ SentBy(o) = 2 + seal[o].iv /\ SentBy(o)' = SentBy(o) /\ SentBy(e)' = SentBy(e)
        BY <2>1, <2>5, <2>7, <2>8 DEF Taken, SentBy
    <2> DEFINE r == Tail(net[e])
    <2>10. Queue(r, 3, SentBy(o), seal[o], written[o], up, damage)
        <3>1. Queue(r, Taken(e) + 1, SentBy(o), seal[o], written[o], up, damage)
            BY <2>1, <2>2, <2>7, QueueTake
        <3> QED
            BY <2>9, <3>1
    <2>11. r \in Seq(Message)
        BY <2>1, <2>2, HeadTail
    <2> HIDE DEF r
    <2>12. Follows(r, 3, 0, written[o], up)
        <3>1. ASSUME Len(r) > 0, DataAt(r, 3, 1)
              PROVE  r[1].bytes[1] = 0 + 1
            <4>1. 1 \in 1..Len(r)
                BY <2>11, <3>1
            <4>2. Slot(seal[o], written[o], damage, 3 + 1, r[1])
                BY <2>10, <4>1 DEF Queue
            <4> QED
                BY <3>1, <4>2 DEF Slot, DataAt
        <3>2. ASSUME up, r = <<>>
              PROVE  0 = written[o]
            <4>1. 3 = 2 + seal[o].iv
                BY <2>9, <2>10, <3>2 DEF Queue
            <4>2. seal[o].iv <= 1
                BY <2>2, <4>1
            <4> QED
                BY <4>2 DEF Streams
        <3> QED
            BY <3>1, <3>2 DEF Follows
    <2>13. Len(<<>>) = 0 /\ <<>> \o <<>> = <<>> /\ Len(<<>>) + Len(<<>>) = 0
        OBVIOUS
    <2>14. Readable(<<>>, written[o])
        <3>1. written[o] \in Nat
            BY CountTypes
        <3> QED
            BY <3>1 DEF Readable
    <2>15. Flow(e)'
        <3>1. /\ Queue(net'[e], Taken(e)', SentBy(o)', seal'[o], written'[o], up', damage')
              /\ phase'[e] = "done" /\ open'[e].iv > 0
              /\ Readable(got'[e] \o recv_buf'[e], written'[o])
              /\ Follows(net'[e], Taken(e)', Len(got'[e]) + Len(recv_buf'[e]), written'[o], up')
            BY <2>1, <2>7, <2>8, <2>9, <2>10, <2>12, <2>13, <2>14 DEF r
        <3> QED
            BY <1>0, <3>1 DEF Flow
    <2>16. Flow(o)'
        BY <1>0, <2>1, <2>6, <2>8, <2>9, FlowKept
    <2> QED
        BY <1>0, <2>1, <2>15, <2>16 DEF Streams
<1> QED
    BY <1>1, <1>2

\* poll_write
LEMMA StreamsWrite ==
    ASSUME TypeOK, TypeOK', Agreement, Streams, NEW e \in Ends, NEW n \in WriteSizes, poll_write(e, n)
    PROVE  Streams'
<1> DEFINE b == [i \in 1..n |-> written[e] + i]
           x == Frame(seal[e], b)
<1>0. PICK o \in Ends : o = Other(e) /\ o # e /\ Other(o) = e /\ \A d \in Ends : d = e \/ d = o
    BY TwoEnds
<1>1. n \in Nat /\ n > 0 /\ seal[e] \in Cipher /\ seal[e].iv \in Nat /\ written[e] \in Nat
    BY CountTypes, SecioAssumption
<1>2. /\ phase[e] = "done" /\ written' = [written EXCEPT ![e] = written[e] + n]
      /\ net' = [net EXCEPT ![o] = Sent(e, x)]
      /\ seal' = [seal EXCEPT ![e] = Advance(seal[e])]
      /\ UNCHANGED <<config, phase, remote, open, recv_buf, got, ended, up, damage>>
    BY <1>0 DEF poll_write
<1>3. /\ b \in Seq(Nat) /\ Len(b) = n /\ b # <<>> /\ b[1] = written[e] + 1
      /\ \A k \in 1..n : b[k] = written[e] + k
    <2>1. b \in Seq(Nat) /\ Len(b) = n
        BY <1>1
    <2> QED
        BY <1>1, <2>1
<1> HIDE DEF b
<1>4. /\ x \in Message /\ x.type = "frame" /\ x.key = seal[e].key
      /\ x.iv = seal[e].iv + 1 /\ x.bytes = b
    <2>1. x \in Message
        BY <1>1, <1>3, MessageTypes
    <2> QED
        BY <2>1 DEF Frame
<1> HIDE DEF x
<1>5. /\ net'[e] = net[e] /\ net'[o] = IF up THEN Append(net[o], x) ELSE net[o]
      /\ written'[e] = written[e] + n /\ written'[o] = written[o]
      /\ seal'[e] = Advance(seal[e]) /\ seal'[o] = seal[o]
    BY <1>0, <1>2 DEF TypeOK, Sent
<1>6. seal'[e].iv = seal[e].iv + 1 /\ seal'[e].key = seal[e].key
    BY <1>1, <1>5, AdvanceTypes
<1>7. seal[e].iv > 0 /\ remote[e] # NoRemote
    BY <1>2, SomeRemote DEF Agreement, Phased
<1>8. /\ Taken(e)' = Taken(e) /\ Taken(o)' = Taken(o) /\ SentBy(o)' = SentBy(o)
      /\ SentBy(e) = 2 + seal[e].iv /\ SentBy(e)' = SentBy(e) + 1
    BY <1>1, <1>2, <1>5, <1>6, <1>7 DEF Taken, SentBy
<1>9. b[Len(b)] = written'[e] /\ x.bytes[1] = written[e] + 1 /\ x.bytes[Len(x.bytes)] = written'[e]
    BY <1>1, <1>3, <1>4, <1>5
<1>10. Slot(seal'[e], written'[e], damage, SentBy(e) + 1, x)
    <2>1. Data(x)
        BY <1>1, <1>3, <1>4 DEF Data
    <2>2. SentBy(e) + 1 = 4 => x.bytes[1] = 1
        <3>1. SentBy(e) + 1 = 4 => written[e] = 0
            BY <1>1, <1>8 DEF Streams
        <3> QED
            BY <1>9, <3>1
    <2>3. x.bytes[Len(x.bytes)] <= written'[e]
        BY <1>1, <1>5, <1>9
    <2>4. SentBy(e) + 1 > 2 /\ x.iv = (SentBy(e) + 1) - 2 /\ x.iv <= seal'[e].iv
        BY <1>1, <1>4, <1>6, <1>8
    <2> QED
        BY <1>4, <1>6, <2>1, <2>2, <2>3, <2>4 DEF Slot
<1>11. Flow(o)'
    <2>1. Flow(o)
        BY DEF Streams
    <2>2. seal[e].iv <= seal'[e].iv /\ seal[e].key = seal'[e].key /\ written[e] <= written'[e]
        BY <1>1, <1>5, <1>6
    <2>3. /\ phase'[o] = phase[o] /\ open'[o] = open[o] /\ got'[o] = got[o]
          /\ recv_buf'[o] = recv_buf[o] /\ ended'[o] = ended[o] /\ UNCHANGED <<up, damage>>
        BY <1>2
    <2> QED
        BY <1>0, <1>4, <1>5, <1>8, <1>9, <1>10, <2>1, <2>2, <2>3, FlowSend
<1>12. Flow(e)'
    <2>1. Flow(e)
        BY DEF Streams
    <2> QED
        BY <1>0, <1>2, <1>5, <1>8, <2>1, FlowKept
<1>13. \A d \in Ends : seal'[d].iv <= 1 => written'[d] = 0
    BY <1>0, <1>1, <1>5, <1>6, <1>7 DEF Streams
<1> QED
    BY <1>0, <1>11, <1>12, <1>13 DEF Streams

\* drain loses nothing of a buffer.
LEMMA DrainKeeps ==
    ASSUME TypeOK, NEW e \in Ends, NEW buf \in Seq(Nat), NEW size \in Nat, drain(e, buf, size)
    PROVE  /\ got'[e] \o recv_buf'[e] = got[e] \o buf
           /\ Len(got'[e]) + Len(recv_buf'[e]) = Len(got[e]) + Len(buf)
           /\ \A d \in Ends : d # e => got'[d] = got[d] /\ recv_buf'[d] = recv_buf[d]
<1> DEFINE k == Min({size, Len(buf)})
<1>1. k \in 0..Len(buf)
    BY MinPair
<1>2. /\ got' = [got EXCEPT ![e] = got[e] \o SubSeq(buf, 1, k)]
      /\ recv_buf' = [recv_buf EXCEPT ![e] = SubSeq(buf, k + 1, Len(buf))]
    BY DEF drain
<1> HIDE DEF k
<1>3. /\ got'[e] = got[e] \o SubSeq(buf, 1, k) /\ recv_buf'[e] = SubSeq(buf, k + 1, Len(buf))
      /\ \A d \in Ends : d # e => got'[d] = got[d] /\ recv_buf'[d] = recv_buf[d]
    BY <1>2 DEF TypeOK
<1>4. got[e] \in Seq(Nat)
    BY DEF TypeOK
<1> QED
    BY <1>1, <1>3, <1>4, JoinSplit, ZenonT(40)

\* A frame that is read into a buffer with room is with the reader and in recv_buf.
LEMMA FillKeeps ==
    ASSUME TypeOK, NEW e \in Ends, NEW m, m.bytes \in Seq(Nat), NEW size \in Nat, Fill(e, m, size),
           recv_buf[e] = <<>>
    PROVE  /\ got'[e] \o recv_buf'[e] = (got[e] \o recv_buf[e]) \o m.bytes
           /\ Len(got'[e]) + Len(recv_buf'[e]) = Len(got[e] \o recv_buf[e]) + Len(m.bytes)
           /\ \A d \in Ends : d # e => got'[d] = got[d] /\ recv_buf'[d] = recv_buf[d]
<1> DEFINE b == m.bytes
<1>1. got[e] \in Seq(Nat) /\ b \in Seq(Nat)
    BY DEF TypeOK
<1>2. got[e] \o recv_buf[e] = got[e]
    BY <1>1
<1> HIDE DEF b
<1>3. CASE size >= Len(b)
    <2>1. got' = [got EXCEPT ![e] = got[e] \o b] /\ recv_buf' = recv_buf
        BY <1>3 DEF Fill, b
    <2>2. /\ got'[e] = got[e] \o b /\ recv_buf'[e] = <<>>
          /\ \A d \in Ends : d # e => got'[d] = got[d] /\ recv_buf'[d] = recv_buf[d]
        BY <2>1 DEF TypeOK
    <2>3. /\ got[e] \o b \in Seq(Nat) /\ Len(got[e] \o b) = Len(got[e]) + Len(b)
          /\ Len(got[e]) \in Nat /\ Len(b) \in Nat
        BY <1>1
    <2>4. (got[e] \o b) \o <<>> = got[e] \o b /\ Len(<<>>) = 0
        BY <2>3
    <2>5. Len(got[e] \o b) + Len(<<>>) = Len(got[e]) + Len(b)
        BY <2>3, <2>4
    <2> QED
        BY <1>2, <2>2, <2>4, <2>5 DEF b
<1>4. CASE ~(size >= Len(b))
    <2>1. drain(e, b, size)
        BY <1>4 DEF Fill, b
    <2> QED
        BY <1>1, <1>2, <2>1, DrainKeeps DEF b
<1> QED
    BY <1>3, <1>4

\* poll_read
LEMMA StreamsRead ==
    ASSUME NoEmptyRead, TypeOK, TypeOK', Agreement, Streams, NEW e \in Ends, NEW n \in ReadSizes,
           poll_read(e, n)
    PROVE  Streams'
<1> DEFINE h == got[e] \o recv_buf[e]
<1>0. PICK o \in Ends : o = Other(e) /\ o # e /\ Other(o) = e /\ \A d \in Ends : d = e \/ d = o
    BY TwoEnds
<1>1. n \in Nat /\ n > 0
    BY SecioAssumption DEF NoEmptyRead
<1>2. /\ phase[e] = "done" /\ ~ended[e]
      /\ UNCHANGED <<config, phase, remote, seal, written, up, damage>>
    BY DEF poll_read
<1>3. Flow(e) /\ Flow(o)
    BY DEF Streams
<1>4. /\ Queue(net[e], Taken(e), SentBy(o), seal[o], written[o], up, damage)
      /\ open[e].iv > 0 /\ Readable(h, written[o])
      /\ Follows(net[e], Taken(e), Len(got[e]) + Len(recv_buf[e]), written[o], up)
    BY <1>0, <1>2, <1>3 DEF Flow
<1>5. /\ net[e] \in Seq(Message) /\ open[e] \in Cipher /\ open[e].iv \in Nat /\ seal[o] \in Cipher
      /\ got[e] \in Seq(Nat) /\ recv_buf[e] \in Seq(Nat) /\ written[o] \in Nat /\ damage \in Nat
    BY CountTypes
<1>6. Len(h) = Len(got[e]) + Len(recv_buf[e]) /\ h \in Seq(Nat)
    BY <1>5
<1>7. Taken(e) = 2 + open[e].iv /\ Taken(e) >= 3 /\ remote[e] # NoRemote
    BY <1>2, <1>4, DoneTaken, SomeRemote DEF Agreement, Phased
<1>8. SentBy(o)' = SentBy(o) /\ SentBy(e)' = SentBy(e)
    BY <1>2 DEF SentBy
<1> HIDE DEF h
<1>9. SUFFICES /\ Queue(net'[e], Taken(e)', SentBy(o), seal[o], written[o], up, damage)
               /\ open'[e].iv > 0 /\ Readable(got'[e] \o recv_buf'[e], written[o])
               /\ ~ended'[e] \/ damage = 0 =>
                     Follows(net'[e], Taken(e)', Len(got'[e]) + Len(recv_buf'[e]), written[o], up)
               /\ open'[o] = open[o] /\ net'[o] = net[o] /\ got'[o] = got[o]
               /\ recv_buf'[o] = recv_buf[o] /\ ended'[o] = ended[o]
    <2>1. Flow(e)'
        <3>1. /\ phase'[e] = "done"
              /\ Queue(net'[e], Taken(e)', SentBy(o)', seal'[o], written'[o], up', damage')
              /\ open'[e].iv > 0 /\ Readable(got'[e] \o recv_buf'[e], written'[o])
              /\ ~ended'[e] \/ damage' = 0 =>
                    Follows(net'[e], Taken(e)', Len(got'[e]) + Len(recv_buf'[e]), written'[o], up')
            BY <1>2, <1>8, <1>9
        <3> QED
            BY <1>0, <3>1 DEF Flow
    <2>2. Taken(o)' = Taken(o)
        BY <1>2, <1>9 DEF Taken
    <2>3. Flow(o)'
        BY <1>0, <1>2, <1>3, <1>8, <1>9, <2>2, FlowKept
    <2> QED
        BY <1>0, <1>2, <2>1, <2>3 DEF Streams
<1>10. CASE drain(e, recv_buf[e], n) /\ UNCHANGED <<open, net, ended>>
    <2>1. Taken(e)' = Taken(e)
        BY <1>2, <1>10 DEF Taken
    <2>2. /\ got'[e] \o recv_buf'[e] = h
          /\ Len(got'[e]) + Len(recv_buf'[e]) = Len(got[e]) + Len(recv_buf[e])
          /\ got'[o] = got[o] /\ recv_buf'[o] = recv_buf[o]
        BY <1>0, <1>1, <1>5, <1>10, DrainKeeps DEF h
    <2> QED
        BY <1>4, <1>10, <2>1, <2>2
<1>11. CASE ended' = [ended EXCEPT ![e] = TRUE] /\ UNCHANGED <<open, net, got, recv_buf>>
    <2>1. Taken(e)' = Taken(e)
        BY <1>2, <1>11 DEF Taken
    <2>2. ended'[o] = ended[o]
        BY <1>0, <1>11 DEF TypeOK
    <2> QED
        BY <1>4, <1>11, <2>1, <2>2 DEF h
<1>12. CASE /\ Min({n, Len(recv_buf[e])}) = 0 /\ net[e] # <<>>
            /\ net' = [net EXCEPT ![e] = Tail(net[e])]
            /\ open' = [open EXCEPT ![e] = Advance(open[e])]
            /\ IF Opens(open[e], Head(net[e]))
               THEN Fill(e, Head(net[e]), n) /\ UNCHANGED ended
               ELSE ended' = [ended EXCEPT ![e] = TRUE] /\ UNCHANGED <<got, recv_buf>>
    <2>1. recv_buf[e] = <<>>
        <3>1. Len(recv_buf[e]) = 0
            <4>1. Len(recv_buf[e]) \in Nat
                BY <1>5
            <4> QED
                BY <1>1, <1>12, <4>1, MinPair
        <3> QED
            BY <1>5, <3>1
    <2> DEFINE m == net[e][1]
    <2>2. Head(net[e]) = m /\ 1 \in 1..Len(net[e]) /\ m \in Message
        BY <1>5, <1>12, HeadTail
    <2>3. /\ net'[e] = Tail(net[e]) /\ net'[o] = net[o]
          /\ open'[e].iv = open[e].iv + 1 /\ open'[o] = open[o]
        BY <1>0, <1>5, <1>12, AdvanceTypes DEF TypeOK
    <2>4. Taken(e)' = Taken(e) + 1 /\ open'[e].iv > 0 /\ Taken(e) \in Nat
        BY <1>2, <1>5, <1>7, <2>3 DEF Taken
    <2>5. Queue(net'[e], Taken(e)', SentBy(o), seal[o], written[o], up, damage)
        <3>1. Queue(Tail(net[e]), Taken(e) + 1, SentBy(o), seal[o], written[o], up, damage)
            BY <1>4, <1>5, <1>12, <2>4, QueueTake
        <3> QED
            BY <2>3, <2>4, <3>1
    <2>6. Slot(seal[o], written[o], damage, Taken(e) + 1, m)
        BY <1>4, <2>2 DEF Queue
    <2> HIDE DEF m
    <2>7. Taken(e) + 1 > 3 /\ (Taken(e) + 1) - 2 = open[e].iv + 1
        BY <1>5, <1>7
    <2>8. CASE m.type = "frame"
        <3>1. Opens(open[e], m)
            <4>1. m.key = seal[o].key /\ m.iv = (Taken(e) + 1) - 2
                BY <2>6, <2>8, SlotFrame
            <4>2. open[e].key = seal[o].key
                <5>1. Established(e) /\ Established(o)
                    BY <1>0, <1>2 DEF Agreement, Phased
                <5> QED
                    BY <1>0, <5>1, EstablishedPair
            <4> QED
                BY <2>7, <2>8, <4>1, <4>2 DEF Opens
        <3>2. Fill(e, m, n) /\ UNCHANGED ended
            BY <1>12, <2>2, <3>1
        <3>3. Follows(net[e], Taken(e), Len(h), written[o], up)
            BY <1>4, <1>6
        <3>4. /\ m.bytes \in Seq(Nat)
              /\ Readable(h \o m.bytes, written[o])
              /\ Follows(Tail(net[e]), Taken(e) + 1, Len(h) + Len(m.bytes), written[o], up)
            BY <1>4, <1>5, <1>6, <1>7, <1>12, <2>4, <2>8, <3>3, ReadFrame DEF m
        <3>5. /\ got'[e] \o recv_buf'[e] = h \o m.bytes
              /\ Len(got'[e]) + Len(recv_buf'[e]) = Len(h) + Len(m.bytes)
              /\ got'[o] = got[o] /\ recv_buf'[o] = recv_buf[o]
            BY <1>0, <1>1, <2>1, <3>2, <3>4, FillKeeps DEF h
        <3> QED
            BY <2>3, <2>4, <2>5, <3>2, <3>4, <3>5
    <2>9. CASE m.type # "frame"
        <3>1. damage > 0
            BY <1>7, <2>4, <2>6, <2>9 DEF Slot
        <3>2. ~Opens(open[e], m)
            BY <2>9 DEF Opens
        <3>3. ended' = [ended EXCEPT ![e] = TRUE] /\ UNCHANGED <<got, recv_buf>>
            BY <1>12, <2>2, <3>2
        <3>4. ended'[e] = TRUE /\ ended'[o] = ended[o]
            BY <1>0, <3>3 DEF TypeOK
        <3>5. ~(~ended'[e] \/ damage = 0)
            BY <1>5, <3>1, <3>4
        <3>6. Readable(got'[e] \o recv_buf'[e], written[o])
            BY <1>4, <3>3 DEF h
        <3> QED
            BY <2>3, <2>4, <2>5, <3>3, <3>4, <3>5, <3>6
    <2> QED
        BY <2>8, <2>9
<1> QED
    BY <1>10, <1>11, <1>12 DEF poll_read

\* Damage
LEMMA StreamsDamage ==
    ASSUME TypeOK, TypeOK', Agreement, Streams, NEW e \in Ends, Damage(e)
    PROVE  Streams'
<1>0. PICK o \in Ends : o = Other(e) /\ o # e /\ Other(o) = e /\ \A d \in Ends : d = e \/ d = o
    BY TwoEnds
<1>1. PICK i \in 1..Len(net[e]) :
          \E m \in Damaged(net[e][i]) \ {net[e][i]} : net' = [net EXCEPT ![e][i] = m]
    BY DEF Damage
<1>2. PICK m \in Damaged(net[e][i]) : net' = [net EXCEPT ![e][i] = m]
    BY <1>1
<1>3. damage' = damage + 1
      /\ UNCHANGED <<config, phase, remote, seal, open, written, recv_buf, got, ended, up>>
    BY DEF Damage, stream
<1>4. \A d \in Ends : /\ net[d] \in Seq(Message) /\ Taken(d) \in Nat /\ seal[d] \in Cipher
                      /\ written[d] \in Nat /\ damage \in Nat
    BY CountTypes
<1>5. m \in Message /\ m.type # "frame" /\ m.type \in {"garbled", net[e][i].type}
    <2>1. net[e][i] \in Message
        BY <1>4
    <2> QED
        BY <2>1, DamagedTypes
<1>6. net'[e] = [net[e] EXCEPT ![i] = m] /\ net'[o] = net[o]
    BY <1>0, <1>2 DEF TypeOK
<1>7. \A d \in Ends : Taken(d)' = Taken(d) /\ SentBy(d)' = SentBy(d)
    BY <1>3 DEF Taken, SentBy
<1>8. Flow(e) /\ Flow(o)
    BY DEF Streams
<1>9. Flow(e)'
    <2>1. phase[e] # "failed" =>
              Queue([net[e] EXCEPT ![i] = m], Taken(e), SentBy(o), seal[o], written[o], up, damage + 1)
        BY <1>0, <1>4, <1>5, <1>8, QueueDamaged DEF Flow
    <2>2. phase[e] = "done" /\ ~ended[e] =>
              Follows([net[e] EXCEPT ![i] = m], Taken(e), Len(got[e]) + Len(recv_buf[e]), written[o], up)
        BY <1>0, <1>4, <1>5, <1>8, FollowsDamaged DEF Flow
    <2>3. damage + 1 # 0
        BY <1>4
    <2>4. /\ phase'[e] # "failed" =>
                 Queue(net'[e], Taken(e)', SentBy(o)', seal'[o], written'[o], up', damage')
          /\ phase'[e] = "done" /\ (~ended'[e] \/ damage' = 0) =>
                 Follows(net'[e], Taken(e)', Len(got'[e]) + Len(recv_buf'[e]), written'[o], up')
        BY <1>3, <1>6, <1>7, <2>1, <2>2, <2>3
    <2>5. /\ phase'[e] \notin {"done", "failed"} =>
                 open'[e].iv = 0 /\ got'[e] = <<>> /\ recv_buf'[e] = <<>>
          /\ phase'[e] = "done" => open'[e].iv > 0 /\ Readable(got'[e] \o recv_buf'[e], written'[o])
        BY <1>0, <1>3, <1>8 DEF Flow
    <2> QED
        BY <1>0, <2>4, <2>5 DEF Flow
<1>10. Flow(o)'
    <2>1. phase[o] # "failed" =>
              Queue(net[o], Taken(o), SentBy(e), seal[e], written[e], up, damage + 1)
        BY <1>0, <1>4, <1>8, QueueWorse DEF Flow
    <2>2. phase[o] = "done" /\ ~ended[o] =>
              Follows(net[o], Taken(o), Len(got[o]) + Len(recv_buf[o]), written[e], up)
        BY <1>0, <1>8 DEF Flow
    <2>3. damage + 1 # 0
        BY <1>4
    <2>4. /\ phase'[o] # "failed" =>
                 Queue(net'[o], Taken(o)', SentBy(e)', seal'[e], written'[e], up', damage')
          /\ phase'[o] = "done" /\ (~ended'[o] \/ damage' = 0) =>
                 Follows(net'[o], Taken(o)', Len(got'[o]) + Len(recv_buf'[o]), written'[e], up')
        BY <1>3, <1>6, <1>7, <2>1, <2>2, <2>3
    <2>5. /\ phase'[o] \notin {"done", "failed"} =>
                 open'[o].iv = 0 /\ got'[o] = <<>> /\ recv_buf'[o] = <<>>
          /\ phase'[o] = "done" => open'[o].iv > 0 /\ Readable(got'[o] \o recv_buf'[o], written'[e])
        BY <1>0, <1>3, <1>8 DEF Flow
    <2> QED
        BY <1>0, <2>4, <2>5 DEF Flow
<1> QED
    BY <1>0, <1>3, <1>9, <1>10 DEF Streams

\* Cut
LEMMA StreamsCut ==
    ASSUME TypeOK, TypeOK', Streams, Cut
    PROVE  Streams'
<1>1. PICK i \in 0..Len(net["a"]), j \in 0..Len(net["b"]) :
          net' = [a |-> SubSeq(net["a"], 1, i), b |-> SubSeq(net["b"], 1, j)]
    BY DEF Cut
<1>2. up' = FALSE
      /\ UNCHANGED <<config, phase, remote, seal, open, written, recv_buf, got, ended, damage>>
    BY DEF Cut, stream
<1>3. \A d \in Ends : \E k \in 0..Len(net[d]) : net'[d] = SubSeq(net[d], 1, k)
    BY <1>1, SMTT(40) DEF Ends
<1>4. ASSUME NEW e \in Ends
      PROVE  Flow(e)'
    <2>0. PICK o \in Ends : o = Other(e)
        BY TwoEnds
    <2>1. PICK k \in 0..Len(net[e]) : net'[e] = SubSeq(net[e], 1, k)
        BY <1>3
    <2>2. /\ net[e] \in Seq(Message) /\ Taken(e) \in Nat /\ seal[o] \in Cipher
          /\ written[o] \in Nat /\ damage \in Nat /\ seal[o].iv \in Nat
        BY CountTypes
    <2>3. Taken(e)' = Taken(e)
        BY <1>2 DEF Taken
    <2>4. Flow(e)
        BY DEF Streams
    <2>5. phase[e] # "failed" =>
              Queue(SubSeq(net[e], 1, k), Taken(e), SentBy(o)', seal[o], written[o], FALSE, damage)
        <3>1. written[o] <= written[o] /\ seal[o].iv <= seal[o].iv
            BY <2>2
        <3> QED
            BY <2>0, <2>2, <2>4, <3>1, QueueDown DEF Flow
    <2>6. phase[e] = "done" /\ (~ended[e] \/ damage = 0) =>
              Follows(SubSeq(net[e], 1, k), Taken(e), Len(got[e]) + Len(recv_buf[e]), written[o], FALSE)
        BY <2>0, <2>2, <2>4, FollowsDown DEF Flow
    <2>7. /\ phase'[e] # "failed" =>
                 Queue(net'[e], Taken(e)', SentBy(o)', seal'[o], written'[o], up', damage')
          /\ phase'[e] = "done" /\ (~ended'[e] \/ damage' = 0) =>
                 Follows(net'[e], Taken(e)', Len(got'[e]) + Len(recv_buf'[e]), written'[o], up')
        BY <1>2, <2>1, <2>3, <2>5, <2>6
    <2>8. /\ phase'[e] \notin {"done", "failed"} =>
                 open'[e].iv = 0 /\ got'[e] = <<>> /\ recv_buf'[e] = <<>>
          /\ phase'[e] = "done" => open'[e].iv > 0 /\ Readable(got'[e] \o recv_buf'[e], written'[o])
        BY <1>2, <2>0, <2>4 DEF Flow
    <2> QED
        BY <2>0, <2>7, <2>8 DEF Flow
<1> QED
    BY <1>2, <1>4 DEF Streams

\* Every step keeps the streams.
LEMMA StreamsStep ==
    ASSUME NoEmptyRead, TypeOK, TypeOK', Agreement, Streams, [Next]_vars
    PROVE  Streams'
<1>1. ASSUME NEW e \in Ends, HandshakeEof(e)
      PROVE  Streams'
    BY <1>1, FlowFails DEF HandshakeEof
<1>2. ASSUME UNCHANGED <<phase, remote, seal, open, net, written, recv_buf, got, ended, up, damage>>
      PROVE  Streams'
    <2> SUFFICES ASSUME NEW e \in Ends
                 PROVE  Flow(e)' /\ (seal'[e].iv <= 1 => written'[e] = 0)
        BY DEF Streams
    <2>1. Taken(e)' = Taken(e) /\ SentBy(Other(e))' = SentBy(Other(e))
        BY <1>2 DEF Taken, SentBy
    <2>2. Flow(e)
        BY DEF Streams
    <2>3. Flow(e)'
        BY <1>2, <2>1, <2>2, FlowKept
    <2> QED
        BY <1>2, <2>3 DEF Streams
<1>3. ASSUME NEW e \in Ends, poll_shutdown(e)
      PROVE  Streams'
    BY <1>2, <1>3 DEF poll_shutdown, stream
<1>4. CASE UNCHANGED vars
    BY <1>2, <1>4 DEF vars, stream
<1> QED
    BY <1>1, <1>3, <1>4, StreamsSendProposition, StreamsRecvProposition, StreamsRecvExchange,
       StreamsVerifyNonce, StreamsWrite, StreamsRead, StreamsDamage, StreamsCut DEF Next, Handshake

\* Nothing is written before the handshake.
LEMMA StreamsInit == Init => Streams
<1> SUFFICES ASSUME Init, NEW e \in Ends
             PROVE  Flow(e) /\ written[e] = 0
    BY DEF Streams
<1>1. /\ phase[e] = "start" /\ net[e] = <<>> /\ got[e] = <<>> /\ recv_buf[e] = <<>>
      /\ open[e].iv = 0 /\ written[e] = 0
    BY DEF Init
<1>2. Taken(e) = 0 /\ SentBy(Other(e)) = 0
    BY TwoEnds DEF Init, Taken, SentBy
<1>3. Queue(<<>>, 0, 0, seal[Other(e)], written[Other(e)], up, damage)
    BY DEF Queue
<1> QED
    BY <1>1, <1>2, <1>3 DEF Flow

\* What a reader has got, what is buffered and what is on the way are what was written.
LEMMA StreamsIntact ==
    ASSUME TypeOK, Agreement, Streams
    PROVE  StreamIntact
<1> SUFFICES ASSUME NEW e \in Ends, phase[e] = "done"
             PROVE  /\ IsPrefix(got[e] \o recv_buf[e], [i \in 1..written[Other(e)] |-> i])
                    /\ up /\ damage = 0 =>
                          /\ \A i \in 1..Len(net[e]) : \A k \in 1..Len(net[e][i].bytes) :
                                 net[e][i].bytes[k] = Before(e, i) + k
                          /\ Before(e, Len(net[e]) + 1) = written[Other(e)]
    BY DEF StreamIntact
<1> DEFINE h == got[e] \o recv_buf[e]
           q == net[e]
           t == Taken(e)
<1>0. PICK o \in Ends : o = Other(e)
    BY TwoEnds
<1>1. /\ q \in Seq(Message) /\ t \in Nat /\ written[o] \in Nat
      /\ got[e] \in Seq(Nat) /\ recv_buf[e] \in Seq(Nat)
    BY CountTypes
<1>2. h \in Seq(Nat) /\ Len(h) = Len(got[e]) + Len(recv_buf[e])
    BY <1>1, ConcatProperties
<1>3. /\ Queue(q, t, SentBy(o), seal[o], written[o], up, damage)
      /\ open[e].iv > 0 /\ Readable(h, written[o])
      /\ damage = 0 => Follows(q, t, Len(h), written[o], up)
    BY <1>0, <1>2 DEF Streams, Flow
<1>4. t >= 3
    BY <1>3, DoneTaken
<1>5. \A i : Before(e, i) = IF i = 1 THEN Len(h) ELSE q[i - 1].bytes[Len(q[i - 1].bytes)]
    BY DEF Before, Last
<1> HIDE DEF h, q, t
<1> DEFINE l == Len(h)
<1>5a. l \in Nat /\ Len(h) = l
    BY <1>2, LenProperties
<1> HIDE DEF l
<1>6. IsPrefix(h, [i \in 1..written[o] |-> i])
    <2> DEFINE f == [i \in 1..written[o] |-> i]
    <2>1. f \in Seq(Nat) /\ Len(f) = written[o]
        BY <1>1
    <2>2. \A k \in 1..Len(h) : h[k] = k /\ f[k] = k
        <3> SUFFICES ASSUME NEW k \in 1..Len(h)
                     PROVE  h[k] = k /\ f[k] = k
            OBVIOUS
        <3>1. h[k] = k /\ Len(h) <= written[o]
            BY <1>3 DEF Readable
        <3>2. k \in 1..written[o]
            BY <1>1, <1>5a, <3>1
        <3> QED
            BY <3>1, <3>2
    <2>3. Len(h) <= Len(f)
        BY <1>3, <2>1 DEF Readable
    <2> HIDE DEF f
    <2>4. SubSeq(h, 1, Len(h)) = h
        BY <1>2, SubSeqFull
    <2>5. SubSeq(f, 1, Len(h)) = h
        <3> DEFINE g == SubSeq(f, 1, Len(h))
        <3>1. g \in Seq(Nat) /\ Len(g) = Len(h) /\ \A k \in 1..Len(h) : g[k] = f[k]
            <4>1. l \in 0..Len(f)
                BY <1>1, <1>5a, <2>1, <2>3
            <4>2. /\ SubSeq(f, 1, l) \in Seq(Nat) /\ Len(SubSeq(f, 1, l)) = l
                  /\ \A k \in 1..l : SubSeq(f, 1, l)[k] = f[k]
                BY <1>5a, <2>1, <4>1
            <4> QED
                BY <1>5a, <4>2
        <3> HIDE DEF g
        <3>2. \A k \in 1..Len(h) : g[k] = h[k]
            BY <2>2, <3>1
        <3>3. g = h
            BY <1>2, <3>1, <3>2, SeqEqual
        <3> QED
            BY <3>3 DEF g
    <2>6. IsPrefix(h, f)
        BY <2>3, <2>4, <2>5 DEF IsPrefix
    <2> QED
        BY <2>6 DEF f
<1>7. ASSUME up, damage = 0
      PROVE  /\ \A i \in 1..Len(q) : \A k \in 1..Len(q[i].bytes) : q[i].bytes[k] = Before(e, i) + k
             /\ Before(e, Len(q) + 1) = written[o]
    <2>1. Len(q) \in Nat /\ \A i \in 1..Len(q) : q[i] \in Message
        BY <1>1
    <2>2. \A i \in 1..Len(q) : q[i].type = "frame" /\ Data(q[i]) /\ DataAt(q, t, i)
        <3> SUFFICES ASSUME NEW i \in 1..Len(q)
                     PROVE  q[i].type = "frame" /\ Data(q[i]) /\ DataAt(q, t, i)
            OBVIOUS
        <3>1. Slot(seal[o], written[o], damage, t + i, q[i])
            BY <1>3 DEF Queue
        <3>2. t + i > 3
            BY <1>1, <1>4, <2>1
        <3> QED
            BY <1>1, <1>7, <2>1, <3>1, <3>2 DEF Slot, DataAt
    <2>3. Follows(q, t, Len(h), written[o], TRUE)
        BY <1>3, <1>7
    <2>4. ASSUME NEW i \in 1..Len(q), NEW k \in 1..Len(q[i].bytes)
          PROVE  q[i].bytes[k] = Before(e, i) + k
        <3>1. /\ q[i].bytes[1] \in Nat /\ Len(q[i].bytes) \in Nat
              /\ q[i].bytes[k] = q[i].bytes[1] + k - 1
            BY <2>1, <2>2, DataTypes DEF Data
        <3>2. CASE i = 1
            <4>1. q[1].bytes[1] = Len(h) + 1
                BY <2>1, <2>2, <2>3, <3>2 DEF Follows
            <4>2. Before(e, i) = Len(h)
                BY <1>5, <3>2
            <4> QED
                BY <1>5a, <3>1, <3>2, <4>1, <4>2
        <3>3. CASE i # 1
            <4>1. i - 1 \in 1..(Len(q) - 1) /\ i - 1 \in 1..Len(q) /\ (i - 1) + 1 = i
                BY <2>1, <3>3
            <4>2. DataAt(q, t, i - 1) /\ DataAt(q, t, (i - 1) + 1)
                BY <2>2, <4>1
            <4>3. q[(i - 1) + 1].bytes[1] = q[i - 1].bytes[Len(q[i - 1].bytes)] + 1
                BY <1>3, <4>1, <4>2 DEF Queue
            <4>4. q[i].bytes[1] = Before(e, i) + 1
                BY <1>5, <3>3, <4>1, <4>3
            <4>5. Before(e, i) \in Nat
                <5>1. q[i - 1].bytes[Len(q[i - 1].bytes)] \in Nat
                    BY <2>1, <2>2, <4>1, DataTypes
                <5> QED
                    BY <1>5, <3>3, <5>1
            <4> QED
                BY <3>1, <4>4, <4>5
        <3> QED
            BY <3>2, <3>3
    <2>5. Before(e, Len(q) + 1) = written[o]
        <3>1. CASE q = <<>>
            <4>1. Len(q) + 1 = 1 /\ Len(h) = written[o]
                BY <2>3, <3>1 DEF Follows
            <4> QED
                BY <1>5, <4>1
        <3>2. CASE q # <<>>
            <4>1. Len(q) > 0 /\ Len(q) \in 1..Len(q) /\ (Len(q) + 1) - 1 = Len(q) /\ Len(q) + 1 # 1
                BY <1>1, <3>2
            <4>2. q[Len(q)].bytes[Len(q[Len(q)].bytes)] = written[o]
                BY <1>3, <1>7, <2>2, <4>1 DEF Queue
            <4> QED
                BY <1>5, <4>1, <4>2
        <3> QED
            BY <3>1, <3>2
    <2> QED
        BY <2>4, <2>5
<1> QED
    BY <1>0, <1>6, <1>7 DEF h, q

\* A reader gets what the other end has written, whatever the sizes of frames and buffers,
\* the damage and the moment when the connection breaks, if no buffer that is read into is
\* empty: StreamIntact.
THEOREM StreamsAreIntact == NoEmptyRead /\ Spec => []StreamIntact
<1> DEFINE I == TypeOK /\ Agreement /\ Streams
<1> SUFFICES ASSUME NoEmptyRead
             PROVE  Spec => []StreamIntact
    OBVIOUS
<1>1. Init => I
    BY TypeInit, AgreementInit, StreamsInit
<1>2. I /\ [Next]_vars => I'
    BY TypeStep, AgreementStep, StreamsStep
<1>3. I => StreamIntact
    BY StreamsIntact
<1> QED
    BY <1>1, <1>2, <1>3, PTL DEF Spec

=============================================================================
