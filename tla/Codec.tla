------------------------------- MODULE Codec -------------------------------
(***************************************************************************)
(* The messages that tentacle and its protocols exchange: how the code     *)
(* that is written by hand encodes them with the generated builders and    *)
(* decodes what arrives.  A message is on its way; its sender may be of a  *)
(* newer version and know one field more, and the bytes may be damaged     *)
(* (some programs of the network are not this one).  The protocols decode  *)
(* whatever arrives.                                                       *)
(***************************************************************************)
EXTENDS Multiaddr

CONSTANTS Messages,     \* [kind, value]: what is sent
          MaxFaults,    \* bound: damages to a message
          FaultBytes    \* bound: bytes that damage puts in

ASSUME CodecAssumption == MaxFaults \in Nat /\ FaultBytes \subseteq 0..127

VARIABLES msg,      \* the message that was encoded
          buf,      \* its bytes
          faults    \* how often they were damaged

vars == <<msg, buf, faults>>

D == INSTANCE DiscoveryMol
P == INSTANCE PingMol
I == INSTANCE IdentifyMol
H == INSTANCE HandshakeMol
S == INSTANCE ProtocolSelectMol

to_le_bytes(n, size) == [i \in 1..size |-> (n \div 256 ^ (i - 1)) % 256]
from_le(b) == FoldLeft(LAMBDA n, i : n + b[i] * 256 ^ (i - 1), 0, [i \in 1..Len(b) |-> i])

\* from_compatible_slice refuses, an accessor panics, or the message is made.
Decoded(accepted, entity, message) ==
    IF ~accepted THEN Done(None) ELSE IF entity.ok THEN Done(message) ELSE Panic

\* LengthDelimitedCodec: four bytes, the most significant first, and the frame.
delimit(b) == Reverse(pack_number(Len(b))) \o b

undelimit(b) ==
    LET n == IF Len(b) < 4 THEN 0 ELSE unpack_number(Reverse(SubSeq(b, 1, 4))) IN
    IF Len(b) < 4 THEN None
    ELSE IF Len(b) < 4 + n THEN None ELSE Some(SubSeq(b, 5, 4 + n))

-----------------------------------------------------------------------------
(***************************************************************************)
(* discovery/src/protocol.rs                                               *)
(***************************************************************************)
DiscoveryEncode(m) ==
    D!DiscoveryMessageBuilder(<<[item |-> m.item, of |->
        CASE m.item = "GetNodes" ->
                <<to_le_bytes(m.version, 4), to_le_bytes(m.count, 4),
                  IF m.listen_port = None THEN None ELSE Some(to_le_bytes(m.listen_port[1], 2))>>
          [] m.item = "Nodes" ->
                <<IF m.announce THEN <<1>> ELSE <<0>>,
                  [i \in 1..Len(m.items) |-> <<m.items[i]>>]>>]>>)

DiscoveryDecode(b) ==
    LET entity == D!DiscoveryMessage(b)
        payload == entity.val[1]
        of == payload.of IN
    Decoded(D!DiscoveryMessageReader(b, TRUE), entity,
        IF payload.item = "GetNodes"
        THEN Some([item |-> "GetNodes", version |-> from_le(of[1]), count |-> from_le(of[2]),
                   listen_port |-> IF of[3] = None THEN None ELSE Some(from_le(of[3][1]))])
        ELSE IF /\ of[1][1] \in {0, 1}
                /\ \A i \in 1..Len(of[2]) : \A j \in 1..Len(of[2][i][1]) :
                       try_from(of[2][i][1][j])
             THEN Some([item |-> "Nodes", announce |-> of[1][1] = 1,
                        items |-> [i \in 1..Len(of[2]) |-> of[2][i][1]]])
             ELSE None)

encode(m) == delimit(DiscoveryEncode(m))

decode(b) == IF undelimit(b) = None THEN Done(None) ELSE DiscoveryDecode(undelimit(b)[1])

(***************************************************************************)
(* ping/src/lib.rs, identify/src/protocol.rs                               *)
(***************************************************************************)
build_ping(nonce) == P!PingMessageBuilder(<<[item |-> "Ping", of |-> <<to_le_bytes(nonce, 4)>>]>>)
build_pong(nonce) == P!PingMessageBuilder(<<[item |-> "Pong", of |-> <<to_le_bytes(nonce, 4)>>]>>)

PingDecode(b) ==
    LET entity == P!PingMessage(b)
        payload == entity.val[1] IN
    Decoded(P!PingMessageReader(b, TRUE), entity,
            Some([item |-> payload.item, nonce |-> from_le(payload.of[1])]))

IdentifyEncode(m) ==
    I!IdentifyMessageBuilder(<<[i \in 1..Len(m.listen_addrs) |-> <<m.listen_addrs[i]>>],
                               <<m.observed_addr>>, m.identify>>)

IdentifyDecode(b) ==
    LET entity == I!IdentifyMessage(b)
        val == entity.val IN
    Decoded(I!IdentifyMessageReader(b, TRUE), entity,
        IF /\ try_from(val[2][1])
           /\ \A i \in 1..Len(val[1]) : try_from(val[1][i][1])
        THEN Some([listen_addrs |-> [i \in 1..Len(val[1]) |-> val[1][i][1]],
                   observed_addr |-> val[2][1], identify |-> val[3]])
        ELSE None)

(***************************************************************************)
(* secio/src/handshake/handshake_struct.rs, protocol_select/mod.rs         *)
(***************************************************************************)
ProposeEncode(m) == H!ProposeBuilder(<<m.rand, m.pubkey, m.exchange, m.ciphers, m.hashes>>)

ProposeDecode(b) ==
    LET entity == H!Propose(b)
        val == entity.val IN
    Decoded(H!ProposeReader(b, TRUE), entity,
        IF from_utf8(val[3]) /\ from_utf8(val[4]) /\ from_utf8(val[5])
        THEN Some([rand |-> val[1], pubkey |-> val[2], exchange |-> val[3],
                   ciphers |-> val[4], hashes |-> val[5]])
        ELSE None)

ExchangeEncode(m) == H!ExchangeBuilder(<<m.epubkey, m.signature>>)

ExchangeDecode(b) ==
    LET entity == H!Exchange(b) IN
    Decoded(H!ExchangeReader(b, TRUE), entity,
            Some([epubkey |-> entity.val[1], signature |-> entity.val[2]]))

PublicKeyEncode(key) == H!PublicKeyBuilder([item |-> "Secp256k1", of |-> key])

PublicKeyDecode(b) ==
    LET entity == H!PublicKey(b) IN
    Decoded(H!PublicKeyReader(b, TRUE), entity, Some(entity.val.of))

ProtocolInfoEncode(m) == S!ProtocolInfoBuilder(<<m.name, m.support_versions>>)

ProtocolInfoDecode(b) ==
    LET entity == S!ProtocolInfo(b)
        val == entity.val IN
    Decoded(S!ProtocolInfoReader(b, TRUE), entity,
        IF from_utf8(val[1]) /\ \A i \in 1..Len(val[2]) : from_utf8(val[2][i])
        THEN Some([name |-> val[1], support_versions |-> val[2]])
        ELSE None)

-----------------------------------------------------------------------------
Encode(m) ==
    CASE m.kind = "discovery" -> encode(m.value)
      [] m.kind = "ping"      -> IF m.value.item = "Ping" THEN build_ping(m.value.nonce)
                                                          ELSE build_pong(m.value.nonce)
      [] m.kind = "identify"  -> IdentifyEncode(m.value)
      [] m.kind = "propose"   -> ProposeEncode(m.value)
      [] m.kind = "exchange"  -> ExchangeEncode(m.value)
      [] m.kind = "pubkey"    -> PublicKeyEncode(m.value)
      [] m.kind = "select"    -> ProtocolInfoEncode(m.value)
      [] m.kind = "multiaddr" -> from_iter(m.value)

Decode(kind, b) ==
    CASE kind = "discovery" -> decode(b)
      [] kind = "ping"      -> PingDecode(b)
      [] kind = "identify"  -> IdentifyDecode(b)
      [] kind = "propose"   -> ProposeDecode(b)
      [] kind = "exchange"  -> ExchangeDecode(b)
      [] kind = "pubkey"    -> PublicKeyDecode(b)
      [] kind = "select"    -> ProtocolInfoDecode(b)
      [] kind = "multiaddr" ->
            Done(IF try_from(b) THEN Some([i \in 1..Len(iter(b).val) |-> iter(b).val[i].p])
                 ELSE None)

\* A sender of a newer version has one field more in a table.
MoreFields(b) ==
    LET n == ItemsDeclared(b) IN TableBuild([i \in 1..n |-> Item(b, n, i)] \o <<<<7, 7>>>>)

\* ... or in the table within its payload.
MoreFieldsInside(b) ==
    LET payload == Field(b, 1) IN
    TableBuild(<<UnionBuild(UnionId(payload), MoreFields(UnionItem(payload)))>>)

Newer(m, b) ==
    CASE m.kind = "ping"      -> {MoreFields(b), MoreFieldsInside(b)}
      [] m.kind = "discovery" -> {delimit(MoreFields(From(b, 4))),
                                  delimit(MoreFieldsInside(From(b, 4)))}
      [] m.kind \in {"identify", "propose", "exchange", "select"} -> {MoreFields(b)}
      [] OTHER -> {}

Init ==
    /\ msg \in Messages
    /\ buf \in {Encode(msg)} \cup Newer(msg, Encode(msg))
    /\ faults = 0

Damage(b) == faults < MaxFaults /\ faults' = faults + 1 /\ buf' = b /\ UNCHANGED msg

Change == \E i \in 1..Len(buf), x \in FaultBytes : Damage([buf EXCEPT ![i] = x])
Cut == buf # <<>> /\ Damage(Front(buf))
Grow == \E x \in FaultBytes : Damage(Append(buf, x))

Next == Change \/ Cut \/ Grow

Spec == Init /\ [][Next]_vars

-----------------------------------------------------------------------------
(***************************************************************************)
(* Properties                                                              *)
(***************************************************************************)

\* Whatever arrives, decoding it returns: what verify lets pass, the accessors can read
\* without going out of bounds.  The generated accessors slice without a check and the
\* decoders read numbers through raw pointers, so this rests on verify alone.
DecodeNeverPanics == Decode(msg.kind, buf).ok

\* What one peer encodes the other decodes to the same message, also when the sender
\* knows a field that the receiver does not.
DecodeInverts == faults = 0 => Decode(msg.kind, buf).val = Some(msg.value)

Payload == IF msg.kind = "discovery" THEN undelimit(buf) ELSE Some(buf)

Accepted(kind, b) ==
    CASE kind = "discovery" -> D!DiscoveryMessageReader(b, FALSE)
      [] kind = "ping"      -> P!PingMessageReader(b, FALSE)
      [] kind = "identify"  -> I!IdentifyMessageReader(b, FALSE)
      [] kind = "propose"   -> H!ProposeReader(b, FALSE)
      [] kind = "exchange"  -> H!ExchangeReader(b, FALSE)
      [] kind = "pubkey"    -> H!PublicKeyReader(b, FALSE)
      [] kind = "select"    -> S!ProtocolInfoReader(b, FALSE)
      [] kind = "multiaddr" -> try_from(b)

Rebuilt(kind, b) ==
    CASE kind = "discovery" -> D!DiscoveryMessageBuilder(D!DiscoveryMessage(b).val)
      [] kind = "ping"      -> P!PingMessageBuilder(P!PingMessage(b).val)
      [] kind = "identify"  -> I!IdentifyMessageBuilder(I!IdentifyMessage(b).val)
      [] kind = "propose"   -> H!ProposeBuilder(H!Propose(b).val)
      [] kind = "exchange"  -> H!ExchangeBuilder(H!Exchange(b).val)
      [] kind = "pubkey"    -> H!PublicKeyBuilder(H!PublicKey(b).val)
      [] kind = "select"    -> S!ProtocolInfoBuilder(S!ProtocolInfo(b).val)
      [] kind = "multiaddr" ->
            LET found == iter(b).val
                last == found[Len(found)].p IN
            IF b = <<>> THEN b ELSE replace(push(pop(b), last), Len(found), Some(last))[1]

\* A value has one encoding: what strict verification, or Multiaddr::try_from, lets pass
\* is byte for byte what a builder writes for the value read from it.  Signatures cover
\* the bytes of a message and addresses are compared and hashed as bytes.
OneEncoding ==
    Payload # None =>
        (Accepted(msg.kind, Payload[1]) => Rebuilt(msg.kind, Payload[1]) = Payload[1])
=============================================================================
