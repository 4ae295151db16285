------------------------------- MODULE PingMol -------------------------------
(***************************************************************************)
(* protocols/ping/src/protocol_mol.rs, generated from protocol.mol: the    *)
(* messages of the ping protocol.                                          *)
(***************************************************************************)
EXTENDS Molecule

Uint32Reader(b, compatible) == ArrayVerify(4, b)
Uint32(b) == Array(4, b)
Uint32Builder(v) == ArrayBuild(v)

PingReader(b, compatible) ==
    /\ TableVerify(b, 1, compatible)
    /\ Uint32Reader(Field(b, 1), compatible)   \* nonce

Ping(b) ==
    All(<<Accessor(Uint32, b, 1, 1)>>)

PingBuilder(v) ==
    TableBuild(<<Uint32Builder(v[1])>>)

PongReader(b, compatible) ==
    /\ TableVerify(b, 1, compatible)
    /\ Uint32Reader(Field(b, 1), compatible)   \* nonce

Pong(b) ==
    All(<<Accessor(Uint32, b, 1, 1)>>)

PongBuilder(v) ==
    TableBuild(<<Uint32Builder(v[1])>>)

\* item_id of an item
PingPayloadUnion(name) == CASE name = "Ping" -> 0 [] name = "Pong" -> 1

PingPayloadReader(b, compatible) ==
    /\ Len(b) >= NUMBER_SIZE
    /\ \/ UnionId(b) = 0 /\ PingReader(UnionItem(b), compatible)
       \/ UnionId(b) = 1 /\ PongReader(UnionItem(b), compatible)

PingPayload(b) ==
    CASE UnionId(b) = 0 -> Union(Ping, "Ping", b)
      [] UnionId(b) = 1 -> Union(Pong, "Pong", b)
      [] OTHER -> Panic

PingPayloadBuilder(v) ==
    UnionBuild(PingPayloadUnion(v.item),
               CASE v.item = "Ping" -> PingBuilder(v.of)
                 [] v.item = "Pong" -> PongBuilder(v.of))

PingMessageReader(b, compatible) ==
    /\ TableVerify(b, 1, compatible)
    /\ PingPayloadReader(Field(b, 1), compatible)   \* payload

PingMessage(b) ==
    All(<<Accessor(PingPayload, b, 1, 1)>>)

PingMessageBuilder(v) ==
    TableBuild(<<PingPayloadBuilder(v[1])>>)
=============================================================================
