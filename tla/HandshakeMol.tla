---------------------------- MODULE HandshakeMol ----------------------------
(***************************************************************************)
(* secio/src/handshake/handshake_mol.rs, generated from handshake.mol:     *)
(* public keys and the messages of the secio handshake.                    *)
(***************************************************************************)
EXTENDS Molecule

Secp256k1Reader(b, compatible) == FixVecVerify(b)
Secp256k1(b) == FixVec(b)
Secp256k1Builder(v) == FixVecBuild(v)

BytesReader(b, compatible) == FixVecVerify(b)
Bytes(b) == FixVec(b)
BytesBuilder(v) == FixVecBuild(v)

StringReader(b, compatible) == FixVecVerify(b)
String(b) == FixVec(b)
StringBuilder(v) == FixVecBuild(v)

\* item_id of an item
PublicKeyUnion(name) == CASE name = "Secp256k1" -> 0

PublicKeyReader(b, compatible) ==
    /\ Len(b) >= NUMBER_SIZE
    /\ UnionId(b) = 0 /\ Secp256k1Reader(UnionItem(b), compatible)

PublicKey(b) ==
    CASE UnionId(b) = 0 -> Union(Secp256k1, "Secp256k1", b)
      [] OTHER -> Panic

PublicKeyBuilder(v) ==
    UnionBuild(PublicKeyUnion(v.item),
               Secp256k1Builder(v.of))

ProposeReader(b, compatible) ==
    /\ TableVerify(b, 5, compatible)
    /\ BytesReader(Field(b, 1), compatible)   \* rand
    /\ BytesReader(Field(b, 2), compatible)   \* pubkey
    /\ StringReader(Field(b, 3), compatible)   \* exchanges
    /\ StringReader(Field(b, 4), compatible)   \* ciphers
    /\ StringReader(Field(b, 5), compatible)   \* hashes

Propose(b) ==
    All(<<Accessor(Bytes, b, 5, 1),
          Accessor(Bytes, b, 5, 2),
          Accessor(String, b, 5, 3),
          Accessor(String, b, 5, 4),
          Accessor(String, b, 5, 5)>>)

ProposeBuilder(v) ==
    TableBuild(<<BytesBuilder(v[1]), BytesBuilder(v[2]),
                 StringBuilder(v[3]), StringBuilder(v[4]), StringBuilder(v[5])>>)

ExchangeReader(b, compatible) ==
    /\ TableVerify(b, 2, compatible)
    /\ BytesReader(Field(b, 1), compatible)   \* epubkey
    /\ BytesReader(Field(b, 2), compatible)   \* signature

Exchange(b) ==
    All(<<Accessor(Bytes, b, 2, 1),
          Accessor(Bytes, b, 2, 2)>>)

ExchangeBuilder(v) ==
    TableBuild(<<BytesBuilder(v[1]), BytesBuilder(v[2])>>)
=============================================================================
