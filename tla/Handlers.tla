----------------------------- MODULE Handlers -----------------------------
(***************************************************************************)
(* A protocol handler of the service, and the streams that feed it.        *)
(* ServiceProtocolStream (protocol_handle_stream.rs) takes the events of   *)
(* all streams of its protocol from one channel and calls the handler: the *)
(* ping, the identify or the discovery protocol, or the one of connector   *)
(* and p2p-node, which share a table with the service's own handler.       *)
(*                                                                         *)
(* The events of one stream come in order, those of different streams, of  *)
(* one session too, in any order.  Sessions close when they will.  The     *)
(* peers follow the protocol: each sends what the protocol has it send,    *)
(* once for each stream, and answers; only their lists may be too long.    *)
(***************************************************************************)
EXTENDS Integers, FiniteSets, Sequences, FiniteSetsExt, SequencesExt

CONSTANTS Sessions,
          Kinds,     \* handlers to look at: some of ping, identify, discovery, connector
          MaxOpens,  \* bound: streams that are opened
          MaxTicks   \* bound: times that a timer makes a difference

ASSUME HandlersAssumption ==
    /\ IsFiniteSet(Sessions) /\ Kinds \subseteq {"ping", "identify", "discovery", "connector"}
    /\ MaxOpens \in Nat /\ MaxTicks \in Nat

VARIABLES kind,      \* the handler
          secio,     \* the service has a key, so that sessions have a remote_pubkey
          outbound,  \* of each session: its type
          closed,    \* ... the flag in its context
          stream,    \* ... its stream: none, open, or broken without notice
          out,       \* ... of each of its streams: events not yet handled
          said,      \* ... what the peer has sent on the present stream, unasked
          heard,     \* ... what is on the way to the peer
          opens,     \* ... streams opened; together bounded by MaxOpens
          told,      \* ... what the service's own handler has been told of it
          h,         \* the handler's state
          ticks,     \* bounded by MaxTicks
          shutdown   \* no, set: the flag is set, ended: the handler's task has ended

net == <<closed, stream, out, said, heard, opens>>
vars == <<kind, secio, outbound, net, told, h, ticks, shutdown>>

None == [none |-> TRUE]
Msg(type, nonce) == [type |-> type, nonce |-> nonce]
Connected == Msg("Connected", 0)
Disconnected == Msg("Disconnected", 0)

-----------------------------------------------------------------------------
(***************************************************************************)
(* The handlers.  g is the state of the handler: the sessions of its       *)
(* ServiceProtocolStream, its own map from sessions to infos, and so on;   *)
(* g.sends are messages for the peers.                                     *)
(***************************************************************************)
Send(g, s, m) == [g EXCEPT !.sends[s] = Append(@, m)]
disconnect(g, s) == [g EXCEPT !.asked = @ \cup {s}]

\* misbehave: the application is told, and says whether to disconnect.
Blame(g, s, what) == [g EXCEPT !.blamed = @ \cup {<<s, what>>}]
misbehave(g, s, what) == {Blame(g, s, what), disconnect(Blame(g, s, what), s)}

PingConnected(g, s) ==
    IF ~secio THEN disconnect(g, s)
    ELSE IF g.infos[s] # None THEN g
    ELSE [g EXCEPT !.infos[s] = [processing |-> FALSE, nonce |-> 0]]

IdentifyConnected(g, s) ==
    IF ~secio THEN [disconnect(g, s) EXCEPT !.secio_enabled = FALSE]
    ELSE Send([g EXCEPT !.infos[s] = [has_received |-> FALSE]], s, Msg("Identify", 0))

\* SessionState::new: an outbound session is asked for its nodes.
DiscoveryConnected(g, s) ==
    LET state == [received_get_nodes |-> FALSE, received_nodes |-> FALSE,
                  listen |-> outbound[s], announce |-> FALSE]
        known == [g EXCEPT !.infos[s] = state] IN
    IF outbound[s] THEN Send(known, s, Msg("GetNodes", 0)) ELSE known

\* add_protocol of connector and p2p-node
ConnectorConnected(g, s) == [g EXCEPT !.shared[s] = [entry |-> TRUE, protocol |-> TRUE]]

connected(g, s) ==
    CASE kind = "ping" -> PingConnected(g, s)
      [] kind = "identify" -> IdentifyConnected(g, s)
      [] kind = "discovery" -> DiscoveryConnected(g, s)
      [] kind = "connector" -> ConnectorConnected(g, s)

\* Of infos, all but those of the sessions in S.
Without(g, S) == [g EXCEPT !.infos = [s \in Sessions |-> IF s \in S THEN None ELSE @[s]]]

\* IdentifyProtocol::disconnected: "RemoteInfo must exists"
IdentifyDisconnected(g, S) ==
    IF ~g.secio_enabled THEN g
    ELSE [Without(g, S) EXCEPT !.panicked = @ \/ \E s \in S : g.infos[s] = None]

\* disconnected, for each of the sessions in S.
disconnected(g, S) ==
    CASE kind \in {"ping", "discovery"} -> Without(g, S)
      [] kind = "identify" -> IdentifyDisconnected(g, S)
      [] kind = "connector" ->
            [g EXCEPT !.shared = [s \in Sessions |-> IF s \in S THEN [@[s] EXCEPT !.protocol = FALSE]
                                                     ELSE @[s]]]

\* A pong must answer the ping that is being processed.
PingReceived(g, s, m) ==
    IF m.type = "Ping" THEN Send(g, s, Msg("Pong", m.nonce))
    ELSE IF g.infos[s] = [processing |-> TRUE, nonce |-> m.nonce]
         THEN [g EXCEPT !.infos[s].processing = FALSE]
         ELSE disconnect(g, s)

\* check_duplicate comes first; then the application takes the addresses or disconnects.
IdentifyReceived(g, s, m) ==
    IF ~g.secio_enabled THEN {g}
    ELSE IF g.infos[s] = None THEN {[g EXCEPT !.panicked = TRUE]}
    ELSE IF g.infos[s].has_received THEN misbehave(g, s, "Duplicate")
    ELSE LET first == [g EXCEPT !.infos[s].has_received = TRUE] IN {first, disconnect(first, s)}

\* The answer to GetNodes; an inbound peer may have told the port that it listens on.
SendNodes(g, s, port) ==
    LET info == g.infos[s]
        known == [info EXCEPT !.received_get_nodes = TRUE, !.listen = info.listen \/ port] IN
    Send([g EXCEPT !.infos[s] = known], s, Msg("Nodes", 0))

\* GetNodes: a duplicate that the application lets pass is answered again.
GetNodesReceived(g, s) ==
    IF g.infos[s].received_get_nodes
    THEN LET b == Blame(g, s, "Duplicate") IN
         {disconnect(b, s)} \cup {SendNodes(b, s, port) : port \in BOOLEAN}
    ELSE {SendNodes(g, s, port) : port \in BOOLEAN}

\* Mutant: the nodes of an announcement count as the first ones.
NodesTakenOnce(g, s, announce) ==
    IF g.infos[s] = None THEN {g}
    ELSE IF ~announce /\ g.infos[s].received_nodes THEN misbehave(g, s, "Duplicate")
    ELSE {[g EXCEPT !.infos[s].received_nodes = TRUE]}

\* Nodes that are not announced come once.
NodesTaken(g, s, announce) ==
    IF g.infos[s] = None \/ announce THEN {g}
    ELSE IF g.infos[s].received_nodes THEN misbehave(g, s, "Duplicate")
    ELSE {[g EXCEPT !.infos[s].received_nodes = TRUE]}

\* verify_nodes_message comes first: lists that are too long are for the application to
\* judge, which may let them pass.  How long a list is is left open.
NodesReceived(g, s, announce) ==
    LET b == Blame(g, s, "TooMany") IN
    {disconnect(b, s)} \cup NodesTaken(b, s, announce) \cup NodesTaken(g, s, announce)

DiscoveryReceived(g, s, m) ==
    IF m.type # "GetNodes" THEN NodesReceived(g, s, m.type = "Announce")
    ELSE IF g.infos[s] = None THEN {g}
    ELSE GetNodesReceived(g, s)

\* The message goes to the mailbox of the session's protocol, which must exist.
ConnectorReceived(g, s) ==
    IF g.shared[s].entry /\ g.shared[s].protocol THEN g ELSE [g EXCEPT !.panicked = TRUE]

\* What the handler's received may lead to.
received(g, s, m) ==
    CASE kind = "ping" -> {PingReceived(g, s, m)}
      [] kind = "identify" -> IdentifyReceived(g, s, m)
      [] kind = "discovery" -> DiscoveryReceived(g, s, m)
      [] kind = "connector" -> {ConnectorReceived(g, s)}

-----------------------------------------------------------------------------
(***************************************************************************)
(* The timers                                                              *)
(***************************************************************************)
Infos(g) == {s \in Sessions : g.infos[s] # None}

\* SEND_PING_TOKEN: a ping to everyone that is not being pinged.
SendPing(g) ==
    LET peers == {s \in Infos(g) : ~g.infos[s].processing} IN
    [g EXCEPT !.infos = [s \in Sessions |-> IF s \in peers THEN [@[s] EXCEPT !.nonce = ticks + 1]
                                            ELSE @[s]],
              !.sends = [s \in Sessions |-> IF s \in peers THEN Append(@[s], Msg("Ping", ticks + 1))
                                            ELSE @[s]]]

\* CHECK_TIMEOUT_TOKEN: late are those of the pings being processed that are too old.
CheckTimeout(g, late) ==
    [g EXCEPT !.blamed = @ \cup {<<s, "Timeout">> : s \in {x \in late \cap Infos(g) : g.infos[x].processing}}]

\* IdentifyProtocol::notify
IdentifyTimeout(g, late) ==
    LET named == {s \in late \cap Infos(g) : g.secio_enabled /\ g.infos[s].has_received} IN
    {[g EXCEPT !.blamed = @ \cup {<<s, "Timeout">> : s \in named}, !.asked = @ \cup bad] :
        bad \in SUBSET named}

\* DiscoveryProtocol::notify: the announcements that wait are sent; the address of a
\* session whose turn it is will be announced to some, those that do not seem to know it
\* (addr_known is a Bloom filter that forgets).
Announce(g, due) ==
    LET listen == \E s \in Infos(g) : g.infos[s].listen
        waiting == {s \in Infos(g) : g.infos[s].announce} IN
    [g EXCEPT !.sends = [s \in Sessions |-> IF s \in waiting THEN Append(@[s], Msg("Announce", 0)) ELSE @[s]],
              !.infos = [s \in Sessions |-> IF s \in Infos(g) THEN [@[s] EXCEPT !.announce = listen /\ s \in due]
                                            ELSE @[s]]]

\* What a timer's notify may lead to; S is chosen by the time that has passed.
notify(g, S) ==
    CASE kind = "ping" -> {SendPing(g), CheckTimeout(g, S)}
      [] kind = "identify" -> IdentifyTimeout(g, S)
      [] kind = "discovery" -> {Announce(g, S)}
      [] kind = "connector" -> {g}

-----------------------------------------------------------------------------
(***************************************************************************)
(* protocol_handle_stream.rs                                               *)
(***************************************************************************)
Forget(g, S) == disconnected([g EXCEPT !.sessions = @ \ S], S \cap g.sessions)

\* Mutant: closed sessions are left alone.
NoSweep(g) == g

\* handle_event, first: the sessions that have been closed are disconnected.
Sweep(g) == Forget(g, {s \in g.sessions : closed[s]})

\* handle_event, then: the event itself.
Handled(g, s, m) ==
    CASE m = Connected -> {[connected(g, s) EXCEPT !.sessions = @ \cup {s}]}
      [] m = Disconnected -> {Forget(g, {s})}
      [] OTHER -> IF s \in g.sessions /\ ~closed[s] THEN received(g, s, m) ELSE {g}

\* What is sent reaches the stream that is open, if one is.
Deliver(g) ==
    /\ heard' = [s \in Sessions |-> IF stream[s] = "open" THEN heard[s] \o g.sends[s] ELSE heard[s]]
    /\ h' = [g EXCEPT !.sends = [s \in Sessions |-> <<>>]]

\* run: an event is taken and handled.  When the flag is set in between, only a
\* Disconnected is, and the task ends.
Handle(s, i) ==
    LET m == Head(out[s][i]) IN
    /\ shutdown # "ended" /\ ~h.panicked
    /\ out[s][i] # <<>>
    /\ out' = [out EXCEPT ![s][i] = Tail(@)]
    /\ IF shutdown = "set" /\ m # Disconnected
       THEN UNCHANGED <<h, heard>>
       ELSE \E g \in Handled(Sweep(h), s, m) : Deliver(g)
    /\ shutdown' = IF shutdown = "set" THEN "ended" ELSE "no"
    /\ UNCHANGED <<kind, secio, outbound, closed, stream, said, opens, told, ticks>>

\* A timer fires: notify, and it is set again.
Notify(S) ==
    /\ shutdown = "no" /\ ~h.panicked /\ kind # "connector"
    /\ ticks < MaxTicks /\ ticks' = ticks + 1
    /\ \E g \in notify(Sweep(h), S) : Deliver(g)
    /\ UNCHANGED <<kind, secio, outbound, closed, stream, out, said, opens, told, shutdown>>

\* A timer fires when the bound is used up: only the sweep is looked at.
LateNotify ==
    /\ shutdown = "no" /\ ~h.panicked /\ kind # "connector"
    /\ ticks = MaxTicks
    /\ h' = Sweep(h)
    /\ UNCHANGED <<kind, secio, outbound, net, told, ticks, shutdown>>

\* The service sets the flag, and run finds it.
Shutdown ==
    /\ \/ shutdown = "no" /\ shutdown' = "set"
       \/ shutdown = "set" /\ shutdown' = "ended"
    /\ UNCHANGED <<kind, secio, outbound, net, told, h, ticks>>

-----------------------------------------------------------------------------
(***************************************************************************)
(* Streams and sessions (module Session), as the handler sees them         *)
(***************************************************************************)
Opened == MapThenSumSet(LAMBDA s : opens[s], Sessions)
Newest(s) == Len(out[s])

Open(s) ==
    /\ ~closed[s] /\ stream[s] = "none" /\ Opened < MaxOpens
    /\ opens' = [opens EXCEPT ![s] = @ + 1]
    /\ stream' = [stream EXCEPT ![s] = "open"]
    /\ out' = [out EXCEPT ![s] = Append(@, <<Connected>>)]
    /\ said' = [said EXCEPT ![s] = {}]
    /\ heard' = [heard EXCEPT ![s] = <<>>]
    /\ UNCHANGED <<kind, secio, outbound, closed, told, h, ticks, shutdown>>

\* close_proto_stream: Disconnected follows what is buffered, in a task of its own.
CloseStream(s) ==
    /\ stream[s] = "open"
    /\ stream' = [stream EXCEPT ![s] = "none"]
    /\ out' = [out EXCEPT ![s][Newest(s)] = Append(@, Disconnected)]
    /\ UNCHANGED <<kind, secio, outbound, closed, said, heard, opens, told, h, ticks, shutdown>>

\* The flush of a stream fails: no Disconnected, and what is buffered is lost.
BreakStream(s) ==
    /\ stream[s] = "open"
    /\ stream' = [stream EXCEPT ![s] = "broken"]
    /\ \E n \in 0..Len(out[s][Newest(s)]) : out' = [out EXCEPT ![s][Newest(s)] = SubSeq(@, 1, n)]
    /\ UNCHANGED <<kind, secio, outbound, closed, said, heard, opens, told, h, ticks, shutdown>>

CloseSession(s) ==
    /\ ~closed[s]
    /\ closed' = [closed EXCEPT ![s] = TRUE]
    /\ UNCHANGED <<kind, secio, outbound, stream, out, said, heard, opens, told, h, ticks, shutdown>>

\* recv_frame: a message of the peer.
Receive(s, m) ==
    /\ stream[s] = "open"
    /\ out' = [out EXCEPT ![s][Newest(s)] = Append(@, m)]
    /\ UNCHANGED <<kind, secio, outbound, closed, stream, opens, told, h, ticks, shutdown>>

\* What a peer sends unasked, once for each stream.
Unasked(s) ==
    CASE kind = "ping" -> {"Ping"}
      [] kind = "identify" -> {"Identify"}
      [] kind = "discovery" -> {"Announce"} \cup (IF outbound[s] THEN {} ELSE {"GetNodes"})
      [] kind = "connector" -> {"Data"}

PeerSends(s, type) ==
    /\ type \in Unasked(s) \ said[s]
    /\ said' = [said EXCEPT ![s] = @ \cup {type}]
    /\ Receive(s, Msg(type, 0))
    /\ UNCHANGED heard

\* A peer answers what it hears.
PeerAnswers(s) ==
    LET m == Head(heard[s]) IN
    /\ heard[s] # <<>>
    /\ heard' = [heard EXCEPT ![s] = Tail(@)]
    /\ CASE m.type = "Ping" -> Receive(s, Msg("Pong", m.nonce))
         [] m.type = "GetNodes" -> Receive(s, Msg("Nodes", 0))
         [] OTHER -> UNCHANGED <<kind, secio, outbound, closed, stream, out, opens, told, h, ticks, shutdown>>
    /\ UNCHANGED said

(***************************************************************************)
(* The service's own handler of connector and p2p-node, in another task    *)
(***************************************************************************)

\* SessionOpen, add_session: p2p-node rejects inbound sessions.
SessionOpen(s) ==
    /\ kind = "connector" /\ told[s] = "none"
    /\ told' = [told EXCEPT ![s] = "open"]
    /\ \/ h' = [h EXCEPT !.shared[s].entry = TRUE]
       \/ ~outbound[s] /\ h' = disconnect(h, s)
    /\ UNCHANGED <<kind, secio, outbound, net, ticks, shutdown>>

\* SessionClose, remove_session
SessionClose(s) ==
    /\ kind = "connector" /\ told[s] = "open" /\ closed[s]
    /\ told' = [told EXCEPT ![s] = "closed"]
    /\ h' = [h EXCEPT !.shared[s] = [entry |-> FALSE, protocol |-> FALSE]]
    /\ UNCHANGED <<kind, secio, outbound, net, ticks, shutdown>>

-----------------------------------------------------------------------------
Init ==
    /\ kind \in Kinds /\ secio \in BOOLEAN /\ outbound \in [Sessions -> BOOLEAN]
    /\ closed = [s \in Sessions |-> FALSE] /\ stream = [s \in Sessions |-> "none"]
    /\ out = [s \in Sessions |-> <<>>] /\ heard = out
    /\ said = [s \in Sessions |-> {}] /\ opens = [s \in Sessions |-> 0]
    /\ told = stream /\ ticks = 0 /\ shutdown = "no"
    /\ h = [sessions |-> {}, infos |-> [s \in Sessions |-> None], secio_enabled |-> TRUE,
            shared |-> [s \in Sessions |-> [entry |-> FALSE, protocol |-> FALSE]],
            asked |-> {}, blamed |-> {}, panicked |-> FALSE, sends |-> out]

Next ==
    \/ \E s \in Sessions :
          \/ \E i \in 1..Len(out[s]) : Handle(s, i)
          \/ Open(s) \/ CloseStream(s) \/ BreakStream(s) \/ CloseSession(s)
          \/ \E type \in Unasked(s) : PeerSends(s, type)
          \/ PeerAnswers(s) \/ SessionOpen(s) \/ SessionClose(s)
    \/ \E S \in SUBSET Sessions : Notify(S)
    \/ LateNotify \/ Shutdown

Spec == Init /\ [][Next]_vars

\* A stream of a closed session ends, its events are handled, and timers fire.
Fairness ==
    /\ \A s \in Sessions : WF_vars(CloseStream(s) /\ closed[s])
    /\ \A s \in Sessions, i \in 1..MaxOpens : WF_vars(i <= Len(out[s]) /\ Handle(s, i))
    /\ WF_vars(\E S \in SUBSET Sessions : Notify(S)) /\ WF_vars(LateNotify)

FairSpec == Spec /\ Fairness

-----------------------------------------------------------------------------
(***************************************************************************)
(* Properties                                                              *)
(***************************************************************************)

\* A session that has been closed is forgotten for good by a handler that has a timer,
\* and by the ServiceProtocolStream: although its streams may break without a
\* Disconnected, Connected may be handled after the close, and a Disconnected may come
\* for a session that is already forgotten, which must not make identify panic.
SessionForgotten ==
    \A s \in Sessions :
        (closed[s] /\ kind # "connector")
            ~> ([](s \notin h.sessions /\ h.infos[s] = None) \/ shutdown # "no")

\* A peer that sends each message once, and answers once, is never reported for a
\* duplicate, whatever the order in which its messages, its announcements and our own
\* requests cross; as long as the protocol is opened once in a session.
NoFalseDuplicate ==
    \A s \in Sessions : opens[s] <= 1 => <<s, "Duplicate">> \notin h.blamed

(***************************************************************************)
(* Things the repository says and the code does not do.                    *)
(***************************************************************************)

\* ping/src/lib.rs: "peer must send a pong has same nonce to respond a ping".  A peer that
\* does so is not disconnected.
PongAccepted == kind = "ping" /\ secio => h.asked = {}

\* identify/src/lib.rs, of a timeout: "receive identify message timeout".  A peer whose
\* message has been received is not reported for it.
TimeoutIsSilence ==
    kind = "identify" =>
        \A s \in Infos(h) : h.infos[s].has_received => <<s, "Timeout">> \notin h.blamed

\* A protocol that is opened again is known to the handler when all its events are handled.
OpenIsKnown ==
    \A s \in Sessions :
        (stream[s] = "open" /\ \A i \in 1..Newest(s) : out[s][i] = <<>>) => s \in h.sessions

\* connector/src/shared.rs: after the end of a session the table has no entry for it.
NoGhostSession == \A s \in Sessions : (told[s] = "closed" /\ stream[s] = "none"
                                      /\ \A i \in 1..Newest(s) : out[s][i] = <<>>) => ~h.shared[s].entry
=============================================================================
