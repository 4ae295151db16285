----------------------------- MODULE Multiaddr -----------------------------
(***************************************************************************)
(* The binary form of addresses, multiaddr/src.  A Multiaddr is kept as    *)
(* bytes, compared as bytes (it is a key of the service's tables) and      *)
(* parsed each time it is looked at; a protocol is its name and the bytes  *)
(* of its argument.                                                        *)
(***************************************************************************)
EXTENDS Molecule

Code(name) ==
    CASE name = "Dns4" -> 54  [] name = "Dns6" -> 55  [] name = "Ip4" -> 4
      [] name = "Ip6" -> 41   [] name = "P2P" -> 421  [] name = "Tcp" -> 6
      [] name = "Tls" -> 448  [] name = "Ws" -> 477   [] name = "Wss" -> 478
      [] name = "Memory" -> 777

Names == {"Dns4", "Dns6", "Ip4", "Ip6", "P2P", "Tcp", "Tls", "Ws", "Wss", "Memory"}

\* The protocols whose argument has its length in front ...
Sized == {"Dns4", "Dns6", "Tls", "P2P"}

\* ... and the length of the argument of the others.
ArgSize(name) ==
    CASE name = "Ip4" -> 4 [] name = "Ip6" -> 16 [] name = "Tcp" -> 2 [] name = "Memory" -> 8
      [] OTHER -> 0

SHA256_CODE == 18
SHA256_SIZE == 32

\* The parser refuses its input.
Error == Panic

\* unsigned_varint: seven bits a byte, the least first.
varint(n) == IF n < 128 THEN <<n>> ELSE <<(n % 128) + 128, n \div 128>>

\* A number and what follows it.  A byte below 128 ends the number, and one that is
\* longer than necessary is refused; four bytes hold every id and length that occurs.
decode_varint(b) ==
    LET ends == {k \in 1..4 : k <= Len(b) /\ b[k] < 128 /\ \A j \in 1..(k - 1) : b[j] >= 128}
        k == CHOOSE k \in ends : TRUE
        digits == [i \in 1..k |-> (b[i] % 128) * 128 ^ (i - 1)] IN
    IF ends = {} THEN Error
    ELSE IF k > 1 /\ b[k] = 0 THEN Error
    ELSE Done([n |-> FoldLeft(LAMBDA x, y : x + y, 0, digits), rest |-> From(b, k)])

\* from_utf8: the names that occur are ASCII.
from_utf8(b) == \A i \in 1..Len(b) : b[i] < 128

check_p2p(data) ==
    LET code == decode_varint(data) IN
    /\ code.ok /\ code.val.n = SHA256_CODE
    /\ Len(code.val.rest) = SHA256_SIZE + 1
    /\ code.val.rest[1] = SHA256_SIZE

ArgOk(name, arg) ==
    CASE name \in {"Dns4", "Dns6", "Tls"} -> from_utf8(arg)
      [] name = "P2P" -> check_p2p(arg)
      [] OTHER -> TRUE

\* split_header, and the protocol that its first part makes.
split_header(name, n, b) ==
    IF Len(b) >= n /\ ArgOk(name, SubSeq(b, 1, n))
    THEN Done([p |-> [name |-> name, arg |-> SubSeq(b, 1, n)], rest |-> From(b, n)])
    ELSE Error

\* Protocol::from_bytes: the first protocol and the rest of the bytes.
from_bytes(b) ==
    LET id == decode_varint(b)
        names == {name \in Names : Code(name) = id.val.n}
        name == CHOOSE name \in names : TRUE
        n == decode_varint(id.val.rest) IN
    IF ~id.ok THEN Error
    ELSE IF names = {} THEN Error
    ELSE IF name \notin Sized THEN split_header(name, ArgSize(name), id.val.rest)
    ELSE IF n.ok THEN split_header(name, n.val.n, n.val.rest) ELSE Error

write_to_bytes(p) ==
    varint(Code(p.name)) \o (IF p.name \in Sized THEN varint(Len(p.arg)) ELSE <<>>) \o p.arg

\* Multiaddr::from_iter
from_iter(ps) == FlattenSeq([i \in 1..Len(ps) |-> write_to_bytes(ps[i])])

RECURSIVE iter(_)
\* Iter::next until the bytes are used up: the protocols, and the bytes of each.
iter(b) ==
    LET first == from_bytes(b) IN
    IF b = <<>> THEN Done(<<>>)
    ELSE IF ~first.ok THEN Error
    ELSE LET others == iter(first.val.rest)
             size == Len(b) - Len(first.val.rest) IN
         IF others.ok
         THEN Done(<<[p |-> first.val.p, bytes |-> SubSeq(b, 1, size)]>> \o others.val)
         ELSE Error

\* Multiaddr::try_from
try_from(b) == iter(b).ok

push(b, p) == b \o write_to_bytes(p)

\* Multiaddr::pop: what is left before the last protocol.
pop(b) ==
    LET found == iter(b).val IN
    IF b = <<>> THEN b ELSE SubSeq(b, 1, Len(b) - Len(found[Len(found)].bytes))

\* Multiaddr::replace of the protocol at an index by the option that `by' yields.
replace(b, at, by) ==
    LET found == iter(b).val IN
    IF at \in 1..Len(found) /\ by # None
    THEN Some(from_iter([i \in 1..Len(found) |-> IF i = at THEN by[1] ELSE found[i].p]))
    ELSE None
=============================================================================
