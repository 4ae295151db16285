----------------------------- MODULE IdentifyMol -----------------------------
(***************************************************************************)
(* protocols/identify/src/protocol_mol.rs, generated from protocol.mol:    *)
(* the message of the identify protocol.                                   *)
(***************************************************************************)
EXTENDS Molecule

BytesReader(b, compatible) == FixVecVerify(b)
Bytes(b) == FixVec(b)
BytesBuilder(v) == FixVecBuild(v)

AddressReader(b, compatible) ==
    /\ TableVerify(b, 1, compatible)
    /\ BytesReader(Field(b, 1), compatible)   \* bytes

Address(b) ==
    All(<<Accessor(Bytes, b, 1, 1)>>)

AddressBuilder(v) ==
    TableBuild(<<BytesBuilder(v[1])>>)

AddressVecReader(b, compatible) == DynVecVerify(AddressReader, b, compatible)
AddressVec(b, i) == DynVecGet(Address, b, i)
AddressVecIterator(b) == DynVecIter(AddressVec, b)
AddressVecBuilder(v) == DynVecBuild([i \in 1..Len(v) |-> AddressBuilder(v[i])])

IdentifyMessageReader(b, compatible) ==
    /\ TableVerify(b, 3, compatible)
    /\ AddressVecReader(Field(b, 1), compatible)   \* listen_addrs
    /\ AddressReader(Field(b, 2), compatible)   \* observed_addr
    /\ BytesReader(Field(b, 3), compatible)   \* identify

IdentifyMessage(b) ==
    All(<<Accessor(AddressVecIterator, b, 3, 1),
          Accessor(Address, b, 3, 2),
          Accessor(Bytes, b, 3, 3)>>)

IdentifyMessageBuilder(v) ==
    TableBuild(<<AddressVecBuilder(v[1]), AddressBuilder(v[2]), BytesBuilder(v[3])>>)
=============================================================================
