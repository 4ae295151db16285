------------------------------ MODULE Molecule ------------------------------
(***************************************************************************)
(* The layouts of molecule, the serialisation of every message of tentacle *)
(* and its protocols.  The code is generated: every type of a schema has   *)
(* an entity with accessors, a Reader with verify, and a Builder, and all  *)
(* types of one kind (array, vector, option, union, table) have the same   *)
(* code but for their names, their item types and their field counts.      *)
(* This module holds what the kinds have in common, the modules that       *)
(* extend it one definition per entity, reader and builder.                *)
(*                                                                         *)
(* A slice is a sequence of bytes.  An accessor slices without checking    *)
(* and panics when it is out of range, so what it returns is a result:     *)
(* `ok' says that nothing panicked.                                        *)
(***************************************************************************)
EXTENDS Integers, Sequences, SequencesExt

NUMBER_SIZE == 4

\* A Number is a little-endian u32; the caller has checked that four bytes are there.
unpack_number(b) == b[1] + 256 * b[2] + 65536 * b[3] + 16777216 * b[4]

pack_number(n) == <<n % 256, (n \div 256) % 256, (n \div 65536) % 256, n \div 16777216>>

\* slice[from..] of the code.
From(b, from) == SubSeq(b, from + 1, Len(b))

Done(v) == [ok |-> TRUE, val |-> v]
Panic == [ok |-> FALSE, val |-> <<>>]

\* Item applied to slice[start..end], unless that is out of range.
At(Item(_), b, start, end) ==
    IF 0 <= start /\ start <= end /\ end <= Len(b) THEN Item(SubSeq(b, start + 1, end))
    ELSE Panic

\* A number read at `from' by an accessor; -1 when that panics.
NumberAt(b, from) == IF from + NUMBER_SIZE <= Len(b) THEN unpack_number(From(b, from)) ELSE -1

\* All parts of a compound were read.
All(parts) ==
    IF \A i \in 1..Len(parts) : parts[i].ok THEN Done([i \in 1..Len(parts) |-> parts[i].val])
    ELSE Panic

-----------------------------------------------------------------------------
(***************************************************************************)
(* Arrays of bytes and vectors of bytes                                    *)
(***************************************************************************)
ArrayVerify(size, b) == Len(b) = size

\* nth0, nth1, ...
Array(size, b) == IF Len(b) >= size THEN Done(SubSeq(b, 1, size)) ELSE Panic

ArrayBuild(v) == v

\* Mutant: the count is compared as an upper bound only.
FixVecVerifyShort(b) ==
    /\ Len(b) >= NUMBER_SIZE
    /\ Len(b) <= NUMBER_SIZE + unpack_number(b)

\* Mutant: one byte too many is let through.
FixVecVerifyLoose(b) ==
    /\ Len(b) >= NUMBER_SIZE
    /\ Len(b) - NUMBER_SIZE - unpack_number(b) \in {0, 1}

FixVecVerify(b) ==
    /\ Len(b) >= NUMBER_SIZE
    /\ Len(b) = NUMBER_SIZE + unpack_number(b)

\* raw_data is what follows the header; get_unchecked of every index below len is
\* within it.
FixVec(b) ==
    IF NumberAt(b, 0) >= 0 /\ NUMBER_SIZE + NumberAt(b, 0) <= Len(b)
    THEN Done(From(b, NUMBER_SIZE))
    ELSE Panic

FixVecBuild(v) == pack_number(Len(v)) \o v

-----------------------------------------------------------------------------
(***************************************************************************)
(* Vectors of items of any size, and tables                                *)
(***************************************************************************)

\* The offsets that the header names, and the end of the slice.
Offsets(b, count) ==
    [i \in 1..(count + 1) |->
        IF i <= count THEN unpack_number(From(b, NUMBER_SIZE * i)) ELSE Len(b)]

\* The header is there, the first offset is its size, and no item has a negative size.
HeaderVerify(b, count) ==
    /\ Len(b) >= NUMBER_SIZE * (count + 1)
    /\ \A i \in 1..count : Offsets(b, count)[i] <= Offsets(b, count)[i + 1]

\* offset_first as a count of items
ItemsDeclared(b) == unpack_number(From(b, NUMBER_SIZE)) \div 4 - 1

FirstOffsetVerify(b) ==
    /\ Len(b) >= NUMBER_SIZE * 2
    /\ unpack_number(From(b, NUMBER_SIZE)) % 4 = 0
    /\ unpack_number(From(b, NUMBER_SIZE)) >= NUMBER_SIZE * 2

Item(b, count, i) == SubSeq(b, Offsets(b, count)[i] + 1, Offsets(b, count)[i + 1])

TotalSizeVerify(b) == Len(b) >= NUMBER_SIZE /\ Len(b) = unpack_number(b)

DynVecVerify(ItemReader(_, _), b, compatible) ==
    /\ TotalSizeVerify(b)
    /\ \/ Len(b) = NUMBER_SIZE
       \/ /\ FirstOffsetVerify(b)
          /\ HeaderVerify(b, ItemsDeclared(b))
          /\ \A i \in 1..ItemsDeclared(b) : ItemReader(Item(b, ItemsDeclared(b), i), compatible)

\* item_count; -1 when it panics
DynVecLen(b) ==
    IF NumberAt(b, 0) = NUMBER_SIZE THEN 0
    ELSE IF NumberAt(b, NUMBER_SIZE) >= 4 THEN NumberAt(b, NUMBER_SIZE) \div 4 - 1 ELSE -1

\* get_unchecked: where an item ends, and the item.
ItemEnd(b, i) == IF i = DynVecLen(b) THEN Len(b) ELSE NumberAt(b, NUMBER_SIZE * (i + 1))

DynVecGet(Entity(_), b, i) == At(Entity, b, NumberAt(b, NUMBER_SIZE * i), ItemEnd(b, i))

\* The iterator: every index below len.
DynVecIter(Get(_, _), b) ==
    IF DynVecLen(b) < 0 THEN Panic
    ELSE All([i \in 1..DynVecLen(b) |-> Get(b, i)])

\* Total size, offsets and items; `write' of a vector or a table with items.
Packed(items) ==
    LET header == NUMBER_SIZE * (Len(items) + 1)
        size(k) == FoldLeft(LAMBDA n, item : n + Len(item), 0, SubSeq(items, 1, k))
        numbers == [i \in 1..(Len(items) + 1) |->
                       pack_number(header + IF i = 1 THEN size(Len(items)) ELSE size(i - 2))] IN
    FlattenSeq(numbers) \o FlattenSeq(items)

\* A vector without items is its size alone.
DynVecBuild(items) == IF items = <<>> THEN pack_number(NUMBER_SIZE) ELSE Packed(items)

\* verify of a table up to its fields: a compatible reader lets more of them pass.
TableVerify(b, fields, compatible) ==
    /\ TotalSizeVerify(b)
    /\ FirstOffsetVerify(b)
    /\ ItemsDeclared(b) >= fields
    /\ compatible \/ ItemsDeclared(b) = fields
    /\ HeaderVerify(b, ItemsDeclared(b))

Field(b, i) == Item(b, ItemsDeclared(b), i)

\* Mutant: the last field takes what follows it as well.
FieldEndsLast(b, fields, i) ==
    IF i = fields THEN Len(b) ELSE NumberAt(b, NUMBER_SIZE * (i + 1))

\* Where a field ends; has_extra_fields decides it for the last one.
FieldEnd(b, fields, i) ==
    IF i = fields /\ DynVecLen(b) = fields THEN Len(b)
    ELSE NumberAt(b, NUMBER_SIZE * (i + 1))

\* The accessor of a field.
Accessor(Entity(_), b, fields, i) ==
    IF DynVecLen(b) < 0 THEN Panic
    ELSE At(Entity, b, NumberAt(b, NUMBER_SIZE * i), FieldEnd(b, fields, i))

TableBuild(parts) == Packed(parts)

-----------------------------------------------------------------------------
(***************************************************************************)
(* Options and unions                                                      *)
(***************************************************************************)
None == <<>>
Some(v) == <<v>>

OptionVerify(ItemReader(_, _), b, compatible) == b = <<>> \/ ItemReader(b, compatible)

Option(Entity(_), b) ==
    IF b = <<>> THEN Done(None)
    ELSE IF Entity(b).ok THEN Done(Some(Entity(b).val)) ELSE Panic

OptionBuild(Builder(_), v) == IF v = None THEN <<>> ELSE Builder(v[1])

\* The item id, or -1 when the header is broken.
UnionId(b) == NumberAt(b, 0)

UnionItem(b) == From(b, NUMBER_SIZE)

\* to_enum: the item with its name, ids count from 0.
Union(Entity(_), name, b) ==
    IF Entity(UnionItem(b)).ok THEN Done([item |-> name, of |-> Entity(UnionItem(b)).val])
    ELSE Panic

UnionBuild(id, bytes) == pack_number(id) \o bytes
=============================================================================
