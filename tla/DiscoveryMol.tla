---------------------------- MODULE DiscoveryMol ----------------------------
(***************************************************************************)
(* protocols/discovery/src/protocol_mol.rs, generated from protocol.mol:   *)
(* the messages of the discovery protocol.                                 *)
(***************************************************************************)
EXTENDS Molecule

BytesReader(b, compatible) == FixVecVerify(b)
Bytes(b) == FixVec(b)
BytesBuilder(v) == FixVecBuild(v)

BytesVecReader(b, compatible) == DynVecVerify(BytesReader, b, compatible)
BytesVec(b, i) == DynVecGet(Bytes, b, i)
BytesVecIterator(b) == DynVecIter(BytesVec, b)
BytesVecBuilder(v) == DynVecBuild([i \in 1..Len(v) |-> BytesBuilder(v[i])])

NodeReader(b, compatible) ==
    /\ TableVerify(b, 1, compatible)
    /\ BytesVecReader(Field(b, 1), compatible)   \* addresses

Node(b) ==
    All(<<Accessor(BytesVecIterator, b, 1, 1)>>)

NodeBuilder(v) ==
    TableBuild(<<BytesVecBuilder(v[1])>>)

NodeVecReader(b, compatible) == DynVecVerify(NodeReader, b, compatible)
NodeVec(b, i) == DynVecGet(Node, b, i)
NodeVecIterator(b) == DynVecIter(NodeVec, b)
NodeVecBuilder(v) == DynVecBuild([i \in 1..Len(v) |-> NodeBuilder(v[i])])

Uint32Reader(b, compatible) == ArrayVerify(4, b)
Uint32(b) == Array(4, b)
Uint32Builder(v) == ArrayBuild(v)

Uint16Reader(b, compatible) == ArrayVerify(2, b)
Uint16(b) == Array(2, b)
Uint16Builder(v) == ArrayBuild(v)

BoolReader(b, compatible) == ArrayVerify(1, b)
Bool(b) == Array(1, b)
BoolBuilder(v) == ArrayBuild(v)

PortOptReader(b, compatible) == OptionVerify(Uint16Reader, b, compatible)
PortOpt(b) == Option(Uint16, b)
PortOptBuilder(v) == OptionBuild(Uint16Builder, v)

GetNodesReader(b, compatible) ==
    /\ TableVerify(b, 3, compatible)
    /\ Uint32Reader(Field(b, 1), compatible)   \* version
    /\ Uint32Reader(Field(b, 2), compatible)   \* count
    /\ PortOptReader(Field(b, 3), compatible)   \* listen_port

GetNodes(b) ==
    All(<<Accessor(Uint32, b, 3, 1),
          Accessor(Uint32, b, 3, 2),
          Accessor(PortOpt, b, 3, 3)>>)

GetNodesBuilder(v) ==
    TableBuild(<<Uint32Builder(v[1]), Uint32Builder(v[2]), PortOptBuilder(v[3])>>)

NodesReader(b, compatible) ==
    /\ TableVerify(b, 2, compatible)
    /\ BoolReader(Field(b, 1), compatible)   \* announce
    /\ NodeVecReader(Field(b, 2), compatible)   \* items

Nodes(b) ==
    All(<<Accessor(Bool, b, 2, 1),
          Accessor(NodeVecIterator, b, 2, 2)>>)

NodesBuilder(v) ==
    TableBuild(<<BoolBuilder(v[1]), NodeVecBuilder(v[2])>>)

\* item_id of an item
DiscoveryPayloadUnion(name) == CASE name = "GetNodes" -> 0 [] name = "Nodes" -> 1

DiscoveryPayloadReader(b, compatible) ==
    /\ Len(b) >= NUMBER_SIZE
    /\ \/ UnionId(b) = 0 /\ GetNodesReader(UnionItem(b), compatible)
       \/ UnionId(b) = 1 /\ NodesReader(UnionItem(b), compatible)

DiscoveryPayload(b) ==
    CASE UnionId(b) = 0 -> Union(GetNodes, "GetNodes", b)
      [] UnionId(b) = 1 -> Union(Nodes, "Nodes", b)
      [] OTHER -> Panic

DiscoveryPayloadBuilder(v) ==
    UnionBuild(DiscoveryPayloadUnion(v.item),
               CASE v.item = "GetNodes" -> GetNodesBuilder(v.of)
                 [] v.item = "Nodes"    -> NodesBuilder(v.of))

DiscoveryMessageReader(b, compatible) ==
    /\ TableVerify(b, 1, compatible)
    /\ DiscoveryPayloadReader(Field(b, 1), compatible)   \* payload

DiscoveryMessage(b) ==
    All(<<Accessor(DiscoveryPayload, b, 1, 1)>>)

DiscoveryMessageBuilder(v) ==
    TableBuild(<<DiscoveryPayloadBuilder(v[1])>>)
=============================================================================
