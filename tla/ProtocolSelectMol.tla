-------------------------- MODULE ProtocolSelectMol --------------------------
(***************************************************************************)
(* tentacle/src/protocol_select/protocol_select_mol.rs, generated from     *)
(* protocol_select.mol: the message by which two peers agree on the        *)
(* version of a protocol.                                                  *)
(***************************************************************************)
EXTENDS Molecule

StringReader(b, compatible) == FixVecVerify(b)
String(b) == FixVec(b)
StringBuilder(v) == FixVecBuild(v)

StringVecReader(b, compatible) == DynVecVerify(StringReader, b, compatible)
StringVec(b, i) == DynVecGet(String, b, i)
StringVecIterator(b) == DynVecIter(StringVec, b)
StringVecBuilder(v) == DynVecBuild([i \in 1..Len(v) |-> StringBuilder(v[i])])

ProtocolInfoReader(b, compatible) ==
    /\ TableVerify(b, 2, compatible)
    /\ StringReader(Field(b, 1), compatible)   \* name
    /\ StringVecReader(Field(b, 2), compatible)   \* support_versions

ProtocolInfo(b) ==
    All(<<Accessor(String, b, 2, 1),
          Accessor(StringVecIterator, b, 2, 2)>>)

ProtocolInfoBuilder(v) ==
    TableBuild(<<StringBuilder(v[1]), StringVecBuilder(v[2])>>)
=============================================================================
