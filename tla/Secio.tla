------------------------------- MODULE Secio -------------------------------
(***************************************************************************)
(* secio: the handshake of two ends of a connection, and the encrypted     *)
(* stream that it leaves.  Each end runs handshake (procedure.rs) as one   *)
(* task that waits for three messages: the remote's proposition, its       *)
(* exchange, and its own nonce sent back through the encrypted stream.     *)
(*                                                                         *)
(* Cryptography is what the code relies on: a signature or a sealed frame  *)
(* names its key and what it covers, an agreed secret is the pair of       *)
(* ephemeral keys.  Bytes of the stream are numbered by their position.    *)
(* A message can be damaged on the way, and the connection can break.      *)
(***************************************************************************)
EXTENDS Integers, FiniteSets, Sequences, FiniteSetsExt, SequencesExt

CONSTANTS Keys,        \* public keys of peers: numbers
          Nonces,      \* random numbers that an end may draw
          Algorithms,  \* names of key agreements that may be proposed
          Known,       \* ... those that this version has
          ReadSizes,   \* sizes of the buffers that are read into
          WriteSizes,  \* ... that are written
          MaxBytes,    \* bound: bytes written by both ends
          MaxDamage    \* bound: messages that are damaged

ASSUME SecioAssumption ==
    /\ Keys \subseteq Nat /\ Nonces \subseteq Nat /\ Known \subseteq Algorithms
    /\ ReadSizes \subseteq Nat /\ WriteSizes \subseteq Nat \ {0}
    /\ MaxBytes \in Nat /\ MaxDamage \in Nat

Ends == {"a", "b"}
Other(e) == IF e = "a" THEN "b" ELSE "a"

VARIABLES config,    \* of each end: its proposition
          phase,     \* ... what its handshake waits for, or how it has ended
          remote,    \* ... the proposition it has received
          seal,      \* ... encode_cipher: the key and the iv
          open,      \* ... decode_cipher
          net,       \* ... messages on the way to it
          fin,       \* ... it writes no more
          written,   \* ... how many bytes it has written
          recv_buf,  \* ... what it has decrypted and not yet given to the reader
          got,       \* ... what the reader has got
          ended,     \* ... the reader has got an error
          up,        \* the connection
          damage     \* bounded by MaxDamage

stream == <<written, recv_buf, got, ended>>
vars == <<config, phase, remote, seal, open, net, fin, stream, up, damage>>

-----------------------------------------------------------------------------
(***************************************************************************)
(* handshake_context.rs and support.rs.  The proposals for key agreements, *)
(* ciphers and digests are three lists from which the same code selects;   *)
(* the lists of key agreements stand for all three.                        *)
(***************************************************************************)
Lists == {<<>>} \cup {<<x>> : x \in Algorithms}
         \cup {<<x, y>> : x \in Algorithms, y \in Algorithms}
Proposition == [key : Keys, nonce : Nonces, exchange : {l \in Lists : IsInjective(l)}]
NoRemote == [key |-> -1]

\* sha256 of a public key and a nonce.
digest(key, nonce) == (key + nonce) % 3

\* hashes_ordering: sha256(remote key, own nonce) compared with sha256(own key, remote nonce).
hashes_ordering(own, theirs) ==
    LET oh1 == digest(theirs.key, own.nonce)
        oh2 == digest(own.key, theirs.nonce) IN
    CASE oh1 < oh2 -> "Less" [] oh1 = oh2 -> "Equal" [] oh1 > oh2 -> "Greater"

\* Mutant: every end prefers its own list.
select_ours(own, theirs) ==
    SelectSeq(own.exchange, LAMBDA x : Contains(theirs.exchange, x) /\ x \in Known)

\* select_agreement, select_cipher, select_digest: the first of the list of the end whose
\* hash is greater that the other has too and that is known here; empty if there is none.
select(own, theirs) ==
    LET first == hashes_ordering(own, theirs) = "Greater"
        a == IF first THEN own.exchange ELSE theirs.exchange
        b == IF first THEN theirs.exchange ELSE own.exchange IN
    SelectSeq(a, LAMBDA x : Contains(b, x) /\ x \in Known)

\* with_remote: the proposition that is accepted.
with_remote(own, theirs) == theirs.key # own.key /\ select(own, theirs) # <<>>

(***************************************************************************)
(* procedure.rs                                                            *)
(***************************************************************************)
Garbled == [type |-> "garbled"]

\* generate_agreement and with_ephemeral: the ephemeral key of an end.
Ephemeral(e, algorithm) == [of |-> e, algorithm |-> algorithm]

\* The Exchange of end e: its ephemeral key, and a signature that covers both propositions.
Exchange(e, theirs) ==
    LET epubkey == Ephemeral(e, Head(select(config[e], theirs))) IN
    [type |-> "exchange", epubkey |-> epubkey, by |-> config[e].key,
     over |-> <<config[e], theirs, epubkey>>]

\* Mutant: any signature will do.
AnySignature(e, m) == m.by \in Keys

\* The remote's signature, with the key and the proposition that have been received.
SignatureVerified(e, m) ==
    /\ m.by = remote[e].key
    /\ m.over = <<remote[e], config[e], m.epubkey>>

\* agree, stretch_key and generate_stream_cipher_and_hmac: the cipher keys for the local
\* and for the remote half of the stretched key.
CipherKey(e, m, half) ==
    [secret |-> {e, m.epubkey.of}, algorithm |-> m.epubkey.algorithm, half |-> half]
LocalHalf(e) == IF hashes_ordering(config[e], remote[e]) = "Less" THEN 2 ELSE 1

\* A frame sealed with the key and the next iv of a cipher.
Frame(cipher, bytes) ==
    [type |-> "frame", key |-> cipher.key, iv |-> cipher.iv + 1, bytes |-> bytes]
Opens(cipher, m) == m.type = "frame" /\ m.key = cipher.key /\ m.iv = cipher.iv + 1
Advance(cipher) == [cipher EXCEPT !.iv = @ + 1]

\* A message is sent; on a broken connection it is lost.
Sent(e, m) == IF up THEN Append(net[Other(e)], m) ELSE net[Other(e)]
Answer(e, m) == net' = [net EXCEPT ![e] = Tail(@), ![Other(e)] = Sent(e, m)]

\* The task returns an error and the socket is dropped.
Fails(e) ==
    /\ phase' = [phase EXCEPT ![e] = "failed"]
    /\ fin' = [fin EXCEPT ![e] = TRUE]
    /\ net' = [net EXCEPT ![e] = <<>>]
    /\ UNCHANGED <<config, remote, seal, open, stream, up, damage>>

SendProposition(e) ==
    /\ phase[e] = "start"
    /\ net' = [net EXCEPT ![Other(e)] = Sent(e, [type |-> "propose", prop |-> config[e]])]
    /\ phase' = [phase EXCEPT ![e] = "propose"]
    /\ UNCHANGED <<config, remote, seal, open, fin, stream, up, damage>>

RecvProposition(e) ==
    LET m == Head(net[e]) IN
    /\ phase[e] = "propose" /\ net[e] # <<>>
    /\ IF m.type = "propose" /\ with_remote(config[e], m.prop)
       THEN /\ remote' = [remote EXCEPT ![e] = m.prop]
            /\ phase' = [phase EXCEPT ![e] = "exchange"]
            /\ Answer(e, Exchange(e, m.prop))
            /\ UNCHANGED <<config, seal, open, fin, stream, up, damage>>
       ELSE Fails(e)

ExchangeAccepted(e, m) ==
    /\ m.type = "exchange" /\ SignatureVerified(e, m)
    /\ m.epubkey.algorithm = Head(select(config[e], remote[e]))    \* agree
    /\ hashes_ordering(config[e], remote[e]) # "Equal"

\* The remote's exchange; the remote's nonce goes back in the first sealed frame.
RecvExchange(e) ==
    LET m == Head(net[e])
        local == [key |-> CipherKey(e, m, LocalHalf(e)), iv |-> 0] IN
    /\ phase[e] = "exchange" /\ net[e] # <<>>
    /\ IF ExchangeAccepted(e, m)
       THEN /\ seal' = [seal EXCEPT ![e] = Advance(local)]
            /\ open' = [open EXCEPT ![e] = [key |-> CipherKey(e, m, 3 - LocalHalf(e)), iv |-> 0]]
            /\ phase' = [phase EXCEPT ![e] = "nonce"]
            /\ Answer(e, Frame(local, <<remote[e].nonce>>))
            /\ UNCHANGED <<config, remote, fin, stream, up, damage>>
       ELSE Fails(e)

\* verify_nonce
VerifyNonce(e) ==
    LET m == Head(net[e]) IN
    /\ phase[e] = "nonce" /\ net[e] # <<>>
    /\ IF Opens(open[e], m) /\ m.bytes = <<config[e].nonce>>
       THEN /\ phase' = [phase EXCEPT ![e] = "done"]
            /\ open' = [open EXCEPT ![e] = Advance(@)]
            /\ net' = [net EXCEPT ![e] = Tail(@)]
            /\ UNCHANGED <<config, remote, seal, fin, stream, up, damage>>
       ELSE Fails(e)

\* Nothing more comes while the handshake waits, or a broken connection is noticed.
HandshakeEof(e) ==
    /\ phase[e] \in {"start", "propose", "exchange", "nonce"}
    /\ ~up \/ (phase[e] # "start" /\ net[e] = <<>> /\ fin[Other(e)])
    /\ Fails(e)

-----------------------------------------------------------------------------
(***************************************************************************)
(* codec/secure_stream.rs.  A caller reads no more after an error, as the  *)
(* yamux session does.                                                     *)
(***************************************************************************)
Bytes == written["a"] + written["b"]

\* poll_write: one frame.
poll_write(e, n) ==
    /\ phase[e] = "done" /\ ~fin[e] /\ Bytes + n <= MaxBytes
    /\ written' = [written EXCEPT ![e] = @ + n]
    /\ net' = [net EXCEPT ![Other(e)] =
                  Sent(e, Frame(seal[e], [i \in 1..n |-> written[e] + i]))]
    /\ seal' = [seal EXCEPT ![e] = Advance(@)]
    /\ UNCHANGED <<config, phase, remote, open, fin, recv_buf, got, ended, up, damage>>

\* drain: what of the buffer fits.
drain(e, buf, size) ==
    /\ got' = [got EXCEPT ![e] = @ \o SubSeq(buf, 1, Min({size, Len(buf)}))]
    /\ recv_buf' = [recv_buf EXCEPT ![e] = SubSeq(buf, Min({size, Len(buf)}) + 1, Len(buf))]

\* Mutant: what does not fit is kept as well as given to the reader.
FillKeepsAll(e, m, size) ==
    /\ got' = [got EXCEPT ![e] = @ \o SubSeq(m.bytes, 1, Min({size, Len(m.bytes)}))]
    /\ IF size >= Len(m.bytes) THEN UNCHANGED recv_buf
                               ELSE recv_buf' = [recv_buf EXCEPT ![e] = m.bytes]

\* A decrypted frame goes to the reader if it fits, else through recv_buf.
Fill(e, m, size) ==
    IF size >= Len(m.bytes)
    THEN /\ got' = [got EXCEPT ![e] = @ \o m.bytes]
         /\ UNCHANGED recv_buf
    ELSE drain(e, m.bytes, size)

\* poll_read: recv_buf first; then the next frame, which fits or goes through recv_buf.
poll_read(e, size) ==
    /\ phase[e] = "done" /\ ~ended[e]
    /\ \/ /\ Min({size, Len(recv_buf[e])}) > 0
          /\ drain(e, recv_buf[e], size)
          /\ UNCHANGED <<open, net, ended>>
       \/ /\ Min({size, Len(recv_buf[e])}) = 0 /\ net[e] # <<>>
          /\ net' = [net EXCEPT ![e] = Tail(@)]
          /\ open' = [open EXCEPT ![e] = Advance(@)]
          /\ IF Opens(open[e], Head(net[e]))
             THEN Fill(e, Head(net[e]), size) /\ UNCHANGED ended
             ELSE ended' = [ended EXCEPT ![e] = TRUE] /\ UNCHANGED <<got, recv_buf>>
       \/ /\ Min({size, Len(recv_buf[e])}) = 0 /\ net[e] = <<>> /\ (fin[Other(e)] \/ ~up)
          /\ ended' = [ended EXCEPT ![e] = TRUE]
          /\ UNCHANGED <<open, net, got, recv_buf>>
    /\ UNCHANGED <<config, phase, remote, seal, fin, written, up, damage>>

\* poll_shutdown: what is written is flushed first.
poll_shutdown(e) ==
    /\ phase[e] = "done" /\ ~fin[e]
    /\ fin' = [fin EXCEPT ![e] = TRUE]
    /\ UNCHANGED <<config, phase, remote, seal, open, net, stream, up, damage>>

-----------------------------------------------------------------------------
(***************************************************************************)
(* The network                                                             *)
(***************************************************************************)

\* What a message may become: a proposition with a wrong field, an exchange with another
\* connection's key, or something that no longer parses.
Damaged(m) ==
    {Garbled} \cup
    CASE m.type = "propose" ->
            {[m EXCEPT !.prop.key = k] : k \in Keys} \cup {[m EXCEPT !.prop.nonce = n] : n \in Nonces}
            \cup {[m EXCEPT !.prop.exchange = Reverse(@)]}
      [] m.type = "exchange" -> {[m EXCEPT !.epubkey.of = "another"]}
      [] OTHER -> {}

Damage(e) ==
    /\ damage < MaxDamage /\ damage' = damage + 1
    /\ \E i \in 1..Len(net[e]) : \E m \in Damaged(net[e][i]) \ {net[e][i]} :
          net' = [net EXCEPT ![e][i] = m]
    /\ UNCHANGED <<config, phase, remote, seal, open, fin, stream, up>>

\* The connection breaks: each end may still get some of what was on the way.
Cut ==
    /\ up /\ up' = FALSE
    /\ \E i \in 0..Len(net["a"]), j \in 0..Len(net["b"]) :
          net' = [a |-> SubSeq(net["a"], 1, i), b |-> SubSeq(net["b"], 1, j)]
    /\ UNCHANGED <<config, phase, remote, seal, open, fin, stream, damage>>

-----------------------------------------------------------------------------
\* Each end has a proposition of its own; both may belong to one peer.  Key and nonce of
\* the first end are fixed and those of the other vary, so that the hashes come in any order.
Init ==
    /\ config \in [Ends -> Proposition]
    /\ config["a"].key = Min(Keys) /\ config["a"].nonce = Min(Nonces)
    /\ phase = [e \in Ends |-> "start"] /\ remote = [e \in Ends |-> NoRemote]
    /\ seal = [e \in Ends |-> [key |-> NoRemote, iv |-> 0]] /\ open = seal
    /\ net = [e \in Ends |-> <<>>] /\ recv_buf = net /\ got = net
    /\ fin = [e \in Ends |-> FALSE] /\ ended = fin
    /\ written = [e \in Ends |-> 0]
    /\ up = TRUE /\ damage = 0

Handshake(e) ==
    SendProposition(e) \/ RecvProposition(e) \/ RecvExchange(e) \/ VerifyNonce(e) \/ HandshakeEof(e)

Next ==
    \/ \E e \in Ends :
          \/ Handshake(e) \/ poll_shutdown(e) \/ Damage(e)
          \/ \E n \in WriteSizes : poll_write(e, n)
          \/ \E n \in ReadSizes : poll_read(e, n)
    \/ Cut

Spec == Init /\ [][Next]_vars

\* The handshake's task is polled when its message has come.
FairSpec == Spec /\ \A e \in Ends : WF_vars(Handshake(e))

-----------------------------------------------------------------------------
(***************************************************************************)
(* Properties                                                              *)
(***************************************************************************)

\* When the handshake of one end succeeds, the other end is the peer that it takes it for,
\* both have the same propositions, so that both have selected the same algorithms, and
\* each opens what the other seals, with a key for each direction; although any message
\* may have been damaged.
SameSession ==
    \A e \in Ends : phase[e] = "done" =>
        /\ remote[e] = config[Other(e)] /\ remote[Other(e)] = config[e]
        /\ config["a"].key # config["b"].key
        /\ seal[e].key = open[Other(e)].key /\ open[e].key = seal[Other(e)].key
        /\ seal[e].key # open[e].key

\* The byte that comes before the i-th message on the way to a reader.
Before(e, i) == IF i = 1 THEN Len(got[e] \o recv_buf[e]) ELSE Last(net[e][i - 1].bytes)

\* A reader gets what the other end has written, in order, whatever the sizes of frames
\* and buffers: damaged frames and a broken connection cut it short but leave no gap, and
\* without them all that is not yet read is in recv_buf or on the way, frame after frame,
\* so that the end of the stream comes after the last byte.
StreamIntact ==
    \A e \in Ends : phase[e] = "done" =>
        /\ IsPrefix(got[e] \o recv_buf[e], [i \in 1..written[Other(e)] |-> i])
        /\ up /\ damage = 0 =>
              /\ \A i \in 1..Len(net[e]) : \A k \in 1..Len(net[e][i].bytes) :
                     net[e][i].bytes[k] = Before(e, i) + k
              /\ Before(e, Len(net[e]) + 1) = written[Other(e)]

Compatible ==
    /\ config["a"].key # config["b"].key
    /\ hashes_ordering(config["a"], config["b"]) # "Equal"
    /\ ToSet(config["a"].exchange) \cap ToSet(config["b"].exchange) \cap Known # {}

\* Two peers that have an algorithm in common, in whatever order each prefers them, both
\* succeed, unless the connection breaks or damages a message.
PeersConnect ==
    Compatible ~> \/ \A e \in Ends : phase[e] = "done"
                  \/ ~up \/ damage > 0
=============================================================================
