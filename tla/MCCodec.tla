------------------------------ MODULE MCCodec ------------------------------
(***************************************************************************)
(* One or two messages of every kind for Codec: fields empty and not,      *)
(* vectors of no, one and two items, options with and without a value.     *)
(***************************************************************************)
EXTENDS Codec

Ip(last, port) ==
    <<[name |-> "Ip4", arg |-> <<10, 0, 0, last>>], [name |-> "Tcp", arg |-> <<0, port>>]>>

Peer == [name |-> "P2P", arg |-> <<SHA256_CODE, SHA256_SIZE>> \o [i \in 1..32 |-> 9]]

MCMessages ==
    {[kind |-> "discovery", value |-> v] : v \in {
        [item |-> "GetNodes", version |-> 0, count |-> 1000, listen_port |-> Some(300)],
        [item |-> "GetNodes", version |-> 1, count |-> 3, listen_port |-> None],
        [item |-> "Nodes", announce |-> TRUE, items |-> <<>>],
        [item |-> "Nodes", announce |-> FALSE,
         items |-> <<<<from_iter(Ip(1, 8)), <<>>>>, <<>>>>]}}
    \cup {[kind |-> "ping", value |-> v] : v \in {
        [item |-> "Ping", nonce |-> 70000], [item |-> "Pong", nonce |-> 1]}}
    \cup {[kind |-> "identify", value |-> v] : v \in {
        [listen_addrs |-> <<from_iter(Ip(1, 8))>>, observed_addr |-> from_iter(Ip(2, 8)),
         identify |-> <<5>>],
        [listen_addrs |-> <<>>, observed_addr |-> <<>>, identify |-> <<>>]}}
    \cup {[kind |-> "propose", value |->
             [rand |-> <<1, 2>>, pubkey |-> <<3>>, exchange |-> <<80>>, ciphers |-> <<>>,
              hashes |-> <<83>>]],
          [kind |-> "exchange", value |-> [epubkey |-> <<4, 4>>, signature |-> <<6>>]],
          [kind |-> "pubkey", value |-> <<2, 3, 4>>]}
    \cup {[kind |-> "select", value |-> v] : v \in {
        [name |-> <<112>>, support_versions |-> <<<<49>>, <<50, 46>>>>],
        [name |-> <<>>, support_versions |-> <<>>]}}
    \cup {[kind |-> "multiaddr", value |-> v] : v \in {
        Ip(1, 8) \o <<Peer>>,
        <<[name |-> "Dns4", arg |-> <<97, 98>>], [name |-> "Tcp", arg |-> <<1, 1>>],
          [name |-> "Ws", arg |-> <<>>]>>,
        <<[name |-> "Tls", arg |-> <<>>], [name |-> "Memory", arg |-> <<0, 0, 0, 0, 0, 0, 0, 1>>],
          [name |-> "Wss", arg |-> <<>>]>>,
        <<[name |-> "Ip6", arg |-> [i \in 1..16 |-> i]], [name |-> "Dns6", arg |-> <<97>>]>>}}
=============================================================================
