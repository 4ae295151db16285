------------------------------ MODULE Sending ------------------------------
(***************************************************************************)
(* The way of a message from the service to the wire: the service hands it *)
(* to the session (service.rs, handle_message), the session puts it in the *)
(* PriorityBuffer of the protocol's stream (session.rs, buffer.rs), and    *)
(* the stream's task writes it to its sink (substream.rs).  Four queues,   *)
(* each with a lane for high and one for normal priority, and three tasks. *)
(* pending_data_size, shared by all of them, counts what is on the way;    *)
(* when it is too much and a stream is stuck, the session is killed.       *)
(*                                                                         *)
(* A message is the number it gets when the session accepts it for a       *)
(* stream; all have size one.  The channels are those of module Channel:   *)
(* bounded, high priority first.  The sink takes any number of frames,     *)
(* then none until it is polled again.                                     *)
(***************************************************************************)
EXTENDS Integers, FiniteSets, Sequences, FiniteSetsExt, SequencesExt

CONSTANTS Protos,
          send_buffer_size,
          send_event_size,
          ChannelCap,     \* what the channel of a session or of a stream holds
          MaxMessages,    \* bound: messages and close commands that are sent
          MaxOpens        \* bound: streams that are opened

ASSUME SendingAssumption ==
    /\ IsFiniteSet(Protos)
    /\ send_buffer_size \in Nat /\ send_event_size \in Nat
    /\ ChannelCap \in Nat \ {0} /\ MaxMessages \in Nat /\ MaxOpens \in Nat

Priority == {"high", "normal"}

VARIABLES hand,      \* what the service waits to put in the session's channel
          inbox,     \* the session's channel
          buffer,    \* of each protocol: the session's PriorityBuffer
          chan,      \* ... the channel to the stream
          writes,    \* ... high_write_buf and write_buf
          accepted,  \* ... how many messages the session has accepted for the stream
          wire,      \* ... how many of them its sink has taken
          phase,     \* ... closed; open; dead, which the session does not know yet
          pending,   \* pending_data_size
          state,     \* Normal; killed or ended
          sent,      \* bounded by MaxMessages
          opens      \* bounded by MaxOpens

queues == <<buffer, chan, writes>>
vars == <<hand, inbox, queues, accepted, wire, phase, pending, state, sent, opens>>

Close == 0                                  \* ProtocolEvent::Close in a lane
Empty == [pri \in Priority |-> <<>>]
Size(q) == Len(q.high) + Len(q.normal)
Room(q) == Size(q) < ChannelCap

IsMessage(e) == e # Close

\* The first n of a queue, high priority first, and the rest.
First(q, n) ==
    [high |-> SubSeq(q.high, 1, Min({n, Len(q.high)})),
     normal |-> SubSeq(q.normal, 1, n - Len(q.high))]
Rest(q, n) ==
    [high |-> SubSeq(q.high, n + 1, Len(q.high)),
     normal |-> SubSeq(q.normal, Max({n - Len(q.high), 0}) + 1, Len(q.normal))]
Join(q, r) == [pri \in Priority |-> q[pri] \o r[pri]]
Push(q, pri, e) == [q EXCEPT ![pri] = Append(@, e)]

-----------------------------------------------------------------------------
(***************************************************************************)
(* service.rs                                                              *)
(***************************************************************************)

\* handle_message: counted first, then sent, however long that takes.
handle_message(p, pri) ==
    /\ hand = <<>> /\ sent < MaxMessages
    /\ sent' = sent + 1
    /\ pending' = pending + 1
    /\ hand' = <<[proto |-> p, pri |-> pri, close |-> FALSE]>>
    /\ UNCHANGED <<inbox, queues, accepted, wire, phase, state, opens>>

\* protocol_close
protocol_close(p) ==
    /\ hand = <<>> /\ sent < MaxMessages
    /\ sent' = sent + 1
    /\ hand' = <<[proto |-> p, pri |-> "high", close |-> TRUE]>>
    /\ UNCHANGED <<inbox, queues, accepted, wire, phase, pending, state, opens>>

\* SessionController::send: the event is lost when the session is gone.
SessionSend ==
    /\ hand # <<>>
    /\ \/ /\ state # "Normal"
          /\ UNCHANGED inbox
       \/ /\ state = "Normal" /\ Room(inbox)
          /\ inbox' = Push(inbox, hand[1].pri, hand[1])
    /\ hand' = <<>>
    /\ UNCHANGED <<queues, accepted, wire, phase, pending, state, sent, opens>>

-----------------------------------------------------------------------------
(***************************************************************************)
(* buffer.rs: try_send moves what the channel has room for, and clears the *)
(* buffer when the channel is closed.                                      *)
(***************************************************************************)
Moved(p, b) ==
    IF phase[p] = "dead" THEN 0 ELSE Min({Size(b), ChannelCap - Size(chan[p])})

BufferAfter(p, b) == IF phase[p] = "dead" THEN Empty ELSE Rest(b, Moved(p, b))
ChanAfter(p, b) == Join(chan[p], First(b, Moved(p, b)))

try_send(p, b) ==
    /\ buffer' = [buffer EXCEPT ![p] = BufferAfter(p, b)]
    /\ chan' = [chan EXCEPT ![p] = ChanAfter(p, b)]

(***************************************************************************)
(* session.rs                                                              *)
(***************************************************************************)

\* recv_service and handle_session_event: a message for a protocol that is not open is
\* dropped; it stays counted.
recv_service ==
    LET lane == IF inbox.high # <<>> THEN "high" ELSE "normal"
        e == Head(inbox[lane])
        p == e.proto IN
    /\ state = "Normal" /\ inbox # Empty
    /\ inbox' = [inbox EXCEPT ![lane] = Tail(@)]
    /\ IF phase[p] = "closed"
       THEN UNCHANGED <<buffer, chan, accepted>>
       ELSE IF e.close
            THEN try_send(p, Push(buffer[p], "high", Close)) /\ UNCHANGED accepted
            ELSE /\ accepted' = [accepted EXCEPT ![p][e.pri] = @ + 1]
                 /\ try_send(p, Push(buffer[p], e.pri, accepted[p][e.pri] + 1))
    /\ UNCHANGED <<hand, writes, wire, phase, pending, state, sent, opens>>

Waiting == {p \in Protos : buffer[p] # Empty}
Stuck(p) == BufferAfter(p, buffer[p]) # Empty

\* The session's task ends; its streams see that it is closed and end too.
End(how) ==
    /\ state' = how
    /\ inbox' = Empty
    /\ buffer' = [p \in Protos |-> Empty] /\ chan' = buffer' /\ writes' = buffer'
    /\ phase' = [p \in Protos |-> "closed"]

Serve(S) ==
    /\ buffer' = [p \in Protos |-> IF p \in S THEN BufferAfter(p, buffer[p]) ELSE buffer[p]]
    /\ chan' = [p \in Protos |-> IF p \in S THEN ChanAfter(p, buffer[p]) ELSE chan[p]]
    /\ UNCHANGED <<inbox, writes, phase, state>>

\* distribute_to_substream: the streams are served in the order of a HashMap, up to the
\* first that is stuck; if too much is pending then, the session is killed.
distribute_to_substream ==
    /\ state = "Normal" /\ Waiting # {}
    /\ \/ /\ \A p \in Waiting : ~Stuck(p)
          /\ Serve(Waiting)
       \/ \E stuck \in Waiting : \E before \in SUBSET (Waiting \ {stuck}) :
             /\ Stuck(stuck) /\ \A p \in before : ~Stuck(p)
             /\ IF pending > send_buffer_size THEN End("killed") ELSE Serve(before \cup {stuck})
    /\ UNCHANGED <<hand, accepted, wire, pending, sent, opens>>

\* The session ends for any other reason.
SessionEnds ==
    /\ state = "Normal"
    /\ End("ended")
    /\ UNCHANGED <<hand, accepted, wire, pending, sent, opens>>

\* open_protocol: a new stream.
open_protocol(p) ==
    /\ state = "Normal" /\ phase[p] = "closed" /\ opens < MaxOpens
    /\ opens' = opens + 1
    /\ phase' = [phase EXCEPT ![p] = "open"]
    /\ accepted' = [accepted EXCEPT ![p] = [pri \in Priority |-> 0]]
    /\ wire' = [wire EXCEPT ![p] = [pri \in Priority |-> 0]]
    /\ UNCHANGED <<hand, inbox, queues, pending, state, sent>>

\* handle_stream_event, ProtocolEvent::Close: the buffer goes with the stream.
StreamClosed(p) ==
    /\ state = "Normal" /\ phase[p] = "dead"
    /\ phase' = [phase EXCEPT ![p] = "closed"]
    /\ buffer' = [buffer EXCEPT ![p] = Empty]
    /\ UNCHANGED <<hand, inbox, chan, writes, accepted, wire, pending, state, sent, opens>>

-----------------------------------------------------------------------------
(***************************************************************************)
(* substream.rs: Substream, and SubstreamWritePart which has the same code *)
(***************************************************************************)

\* Mutant: the frame that the sink does not take goes to the end of its queue.
PushBackOnPending(p, w, n) ==
    LET left == Rest(w, n)
        lane == IF left.high # <<>> THEN "high" ELSE "normal" IN
    /\ writes' = [writes EXCEPT ![p] =
                     IF Size(left) = 0 THEN left
                     ELSE [left EXCEPT ![lane] = Append(Tail(@), Head(@))]]
    /\ wire' = [wire EXCEPT ![p] = [pri \in Priority |-> @[pri] + Len(First(w, n)[pri])]]
    /\ pending' = pending - n

\* Mutant: a frame is taken off the count before the sink is asked.
DecrBeforeReady(p, w, n) ==
    /\ writes' = [writes EXCEPT ![p] = Rest(w, n)]
    /\ wire' = [wire EXCEPT ![p] = [pri \in Priority |-> @[pri] + Len(First(w, n)[pri])]]
    /\ pending' = pending - Min({n + 1, Size(w)})

\* send_data: the sink takes n frames; one that it does not take is put back in front.
send_data(p, w, n) ==
    /\ writes' = [writes EXCEPT ![p] = Rest(w, n)]
    /\ wire' = [wire EXCEPT ![p] = [pri \in Priority |-> @[pri] + Len(First(w, n)[pri])]]
    /\ pending' = pending - n

\* The stream's task ends: what is queued for it is dropped, and stays counted.
Dead(p) ==
    /\ phase' = [phase EXCEPT ![p] = "dead"]
    /\ chan' = [chan EXCEPT ![p] = Empty]
    /\ writes' = [writes EXCEPT ![p] = Empty]

\* Mutant: only write_buf is looked at.
FlushNormal(p, n) ==
    /\ phase[p] = "open" /\ writes[p].normal # <<>> /\ n <= Size(writes[p])
    /\ send_data(p, writes[p], n)
    /\ UNCHANGED <<hand, inbox, buffer, chan, accepted, phase, state, sent, opens>>

\* flush
Flush(p, n) ==
    /\ phase[p] = "open" /\ writes[p] # Empty /\ n <= Size(writes[p])
    /\ send_data(p, writes[p], n)
    /\ UNCHANGED <<hand, inbox, buffer, chan, accepted, phase, state, sent, opens>>

\* handle_proto_event: Close, or a message that goes behind the others of its priority.
handle_proto_event(p, lane, n) ==
    LET e == Head(chan[p][lane])
        w == Push(writes[p], lane, e) IN
    IF e = Close
    THEN n = 0 /\ Dead(p) /\ UNCHANGED <<wire, pending>>
    ELSE /\ n <= Size(w)
         /\ send_data(p, w, n)
         /\ chan' = [chan EXCEPT ![p][lane] = Tail(@)]
         /\ UNCHANGED phase

\* recv_event: while write_buf is long nothing is received.
recv_event(p, n) ==
    /\ phase[p] = "open" /\ Len(writes[p].normal) <= send_event_size /\ chan[p] # Empty
    /\ handle_proto_event(p, IF chan[p].high # <<>> THEN "high" ELSE "normal", n)
    /\ UNCHANGED <<hand, inbox, buffer, accepted, state, sent, opens>>

\* The sink or the peer fails.
StreamEnds(p) ==
    /\ phase[p] = "open"
    /\ Dead(p)
    /\ UNCHANGED <<hand, inbox, buffer, accepted, wire, pending, state, sent, opens>>

-----------------------------------------------------------------------------
Init ==
    /\ hand = <<>> /\ inbox = Empty
    /\ buffer = [p \in Protos |-> Empty] /\ chan = buffer /\ writes = buffer
    /\ accepted = [p \in Protos |-> [pri \in Priority |-> 0]] /\ wire = accepted
    /\ phase = [p \in Protos |-> "closed"] /\ opens = 0
    /\ pending = 0 /\ state = "Normal" /\ sent = 0

Next ==
    \/ SessionSend \/ recv_service \/ distribute_to_substream \/ SessionEnds
    \/ \E p \in Protos :
          \/ \E pri \in Priority : handle_message(p, pri)
          \/ protocol_close(p) \/ open_protocol(p) \/ StreamClosed(p) \/ StreamEnds(p)
          \/ \E n \in 0..MaxMessages : Flush(p, n) \/ recv_event(p, n)

Spec == Init /\ [][Next]_vars

\* The three tasks are polled when they have something to do (module Channel: nobody is
\* left waiting), and the sink of a stream that does not fail takes frames again, which is
\* what YamuxPair shows for a peer that reads.
Fairness ==
    /\ WF_vars(SessionSend) /\ WF_vars(recv_service) /\ WF_vars(distribute_to_substream)
    /\ \A p \in Protos :
          /\ WF_vars(\E n \in 1..MaxMessages : Flush(p, n))
          /\ WF_vars(\E n \in 0..MaxMessages : recv_event(p, n))
          /\ WF_vars(StreamClosed(p))

FairSpec == Spec /\ Fairness

-----------------------------------------------------------------------------
(***************************************************************************)
(* Properties                                                              *)
(***************************************************************************)
\* What is queued for a stream, the oldest first.
Lane(p, pri) == writes[p][pri] \o chan[p][pri] \o buffer[p][pri]

\* Where the messages are: in the lanes of the streams, in the session's channel, and in
\* the service's hand.
InLane(p, pri) ==
    {<<p, pri, i>> : i \in {j \in 1..Len(Lane(p, pri)) : IsMessage(Lane(p, pri)[j])}}
InLanes == UNION {InLane(p, pri) : p \in Protos, pri \in Priority}

InInbox == Cardinality({i \in 1..Len(inbox.high) : ~inbox.high[i].close}) + Len(inbox.normal)

InHand == IF hand # <<>> /\ ~hand[1].close THEN 1 ELSE 0

OnTheWay == Cardinality(InLanes) + InInbox + InHand

\* pending_data_size covers every message on the way, wherever the three tasks are, so
\* that fetch_sub never wraps to a size that kills the session, and what is queued is
\* never underestimated.
PendingCovers == pending >= OnTheWay

\* Of each priority, what the session accepted for a live stream is on the wire or in the
\* write buffer, the channel and the session's buffer, in this order, with nothing
\* skipped, repeated or overtaken, through every full channel and every sink that is not
\* ready.
NothingSkipped ==
    \A p \in Protos, pri \in Priority : phase[p] = "open" =>
        LET q == Lane(p, pri) IN
        /\ \A i \in 1..Len(q) : IsMessage(q[i]) => q[i] \in (wire[p][pri] + 1)..accepted[p][pri]
        /\ \A i, j \in 1..Len(q) : i < j /\ IsMessage(q[i]) /\ IsMessage(q[j]) => q[i] < q[j]
        /\ \A n \in (wire[p][pri] + 1)..accepted[p][pri] : \E i \in 1..Len(q) : q[i] = n

Queued(p) == \E pri \in Priority : wire[p][pri] < accepted[p][pri]

\* No more messages and close commands come from the service.
TrafficStops == <>[][sent' = sent]_sent

\* After a burst, what is accepted reaches the wire unless the stream or the session ends:
\* a stream that is stuck, for which distribute_to_substream leaves the others for later,
\* and a long write buffer, for which a stream receives nothing, come loose again however
\* the three tasks are interleaved.  Under traffic that never stops this does not hold: the
\* high lane and the streams served earlier go first, and a message may wait for ever.
BurstDrains ==
    TrafficStops =>
        \A p \in Protos : (phase[p] = "open" /\ Queued(p)) ~> (phase[p] # "open" \/ ~Queued(p))

(***************************************************************************)
(* One thing the repository says and the code does not do.                 *)
(***************************************************************************)

\* session.rs, of a session that is killed: "user allow buffer size" is below the "current
\* buffer size".  But messages that were dropped are counted for ever.
KilledWhenFull ==
    [][state = "Normal" /\ state' = "killed" => OnTheWay > send_buffer_size]_vars
=============================================================================
