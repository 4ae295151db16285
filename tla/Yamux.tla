------------------------------- MODULE Yamux -------------------------------
(***************************************************************************)
(* Two yamux sessions, tentacle/yamux/src/session.rs, joined by a reliable *)
(* byte stream, and the StreamHandles (YamuxStream) that their owners use. *)
(*                                                                         *)
(* A Session is polled by one task, its handles by others; they meet only  *)
(* in channels.  So every step of Session::poll_next (a timer tick, flush, *)
(* a control command, a frame, an event) is an action, and every call of a *)
(* handle's method is one.  The methods of Session are functions from the  *)
(* session before to the session after.                                    *)
(***************************************************************************)
EXTENDS YamuxStream, FiniteSets, SequencesExt

CONSTANTS MaxStreamId,       \* u32::MAX, the width of next_stream_id
          ClientMaxWindow,   \* max_stream_window_size of the client's config
          ServerMaxWindow,   \* ... and of the server's
          ClientMaxStreams,  \* max_stream_count of the client's config
          ServerMaxStreams,  \* ... and of the server's
          accept_backlog,    \* of both configs
          ChannelCap,        \* frames that fit in a handle's channel(8)
          SinkCap,           \* frames that fit in the Framed sink and the socket
          ClientCommands,    \* what the owner of the client session may ask of it
          ServerCommands,    \* ... and the owner of the server session
          ClientCalls,       \* do the client's owners of handles shut them down, drop them?
          ServerCalls,       \* ... and the server's
          Watched,           \* the stream whose refinement of YamuxPair is checked
          MayBreak,          \* may the connection fail?
          Written,           \* bound: the streams that are written to
          OpenerBytes,       \* bound: bytes written to such a stream by its opener
          AcceptorBytes,     \* ... and by the other side
          MaxWrite,          \* bound: the largest buffer given to poll_write
          MaxEvents,         \* bound: handles stop at so many unread events
          ClientPings,       \* bound: keepalive pings of the client's session
          ServerPings,       \* ... and of the server's
          MaxGoAways         \* bound: an owner stops at so many unread GoAways

ASSUME SessionAssumption ==
    /\ MaxStreamId \in Nat
    /\ ClientMaxWindow \in InitialWindow..U32Max
    /\ ServerMaxWindow \in InitialWindow..U32Max
    /\ ClientMaxStreams \in Nat /\ ServerMaxStreams \in Nat /\ accept_backlog \in Nat
    /\ ChannelCap \in Nat \ {0} /\ SinkCap \in Nat \ {0}
    /\ ClientCommands \cup ServerCommands \subseteq {"OpenStream", "Shutdown", "GoAway"}
    /\ ClientCalls \cup ServerCalls \subseteq {"Shutdown", "Drop"}
    /\ MayBreak \in BOOLEAN /\ Watched \in 1..MaxStreamId
    /\ Written \subseteq 1..MaxStreamId
    /\ OpenerBytes \in Nat /\ AcceptorBytes \in Nat /\ MaxWrite \in Nat
    /\ ClientPings \in Nat /\ ServerPings \in Nat
    /\ MaxEvents \in Nat /\ MaxGoAways \in Nat

VARIABLE node   \* node[e]: the session of side e, its socket and its handles

Side == {"client", "server"}

Peer(e) == IF e = "client" THEN "server" ELSE "client"

StreamId == 1..MaxStreamId

\* The side that chooses a stream's id: odd ones are the client's.
Opener(id) == IF id % 2 = 1 THEN "client" ELSE "server"

max_window_size(e) == IF e = "client" THEN ClientMaxWindow ELSE ServerMaxWindow

max_stream_count(e) == IF e = "client" THEN ClientMaxStreams ELSE ServerMaxStreams

Commands(e) == IF e = "client" THEN ClientCommands ELSE ServerCommands

Calls(e) == IF e = "client" THEN ClientCalls ELSE ServerCalls

MaxPings(e) == IF e = "client" THEN ClientPings ELSE ServerPings

MaxBytes(e, id) ==
    IF id \notin Written THEN 0 ELSE IF e = Opener(id) THEN OpenerBytes ELSE AcceptorBytes

new_ping(flags, id) ==
    [ty |-> "Ping", stream_id |-> 0, flags |-> flags, length |-> id, upto |-> 0]

\* length is the code: 0 Normal, 1 ProtocolError.
new_go_away(code) ==
    [ty |-> "GoAway", stream_id |-> 0, flags |-> {}, length |-> code, upto |-> 0]

SessionFrame == [ty : {"Data", "WindowUpdate", "Ping", "GoAway"}, stream_id : Nat,
                 flags : SUBSET Flag, length : Nat, upto : Nat]

StreamEvent == [kind : {"Frame"}, frame : Frame]
               \cup [kind : {"Closed"}, id : StreamId] \cup [kind : {"GoAway"}]

Session ==
    [eof : BOOLEAN, remote_go_away : BOOLEAN, local_go_away : BOOLEAN,
     next_stream_id : Nat, pings : SUBSET Nat, ping_id : Nat,
     streams : SUBSET StreamId,        \* the ids that have a frame_sender
     pending_streams : Seq(StreamId),
     write_pending_frames : Seq(SessionFrame),
     read_pending_frames : Seq(Frame),
     events : Seq(StreamEvent),        \* what event_receiver holds
     out : Seq(SessionFrame),          \* sent, not yet read by the peer
     h : [StreamId -> StreamHandle],
     life : [StreamId -> {"none", "live", "gone"}],
     chan : [StreamId -> Seq(Frame)],  \* what each frame_receiver holds
     ended : BOOLEAN,                  \* poll_next returned None or an error; dropped
     failed : SUBSET StreamId]         \* history: streams with a protocol error

\* Mutant: both sides number their streams alike.
NewSessionSameIds(e) ==
    [eof |-> FALSE, remote_go_away |-> FALSE, local_go_away |-> FALSE,
     next_stream_id |-> 1, pings |-> {}, ping_id |-> 0,
     streams |-> {}, pending_streams |-> <<>>,
     write_pending_frames |-> <<>>, read_pending_frames |-> <<>>,
     events |-> <<>>, out |-> <<>>,
     h |-> [id \in StreamId |-> NewHandle(id, "Init", max_window_size(e))],
     life |-> [id \in StreamId |-> "none"], chan |-> [id \in StreamId |-> <<>>],
     ended |-> FALSE, failed |-> {}]

\* Session::new
NewSession(e) ==
    [eof |-> FALSE, remote_go_away |-> FALSE, local_go_away |-> FALSE,
     next_stream_id |-> IF e = "client" THEN 1 ELSE 2, pings |-> {}, ping_id |-> 0,
     streams |-> {}, pending_streams |-> <<>>,
     write_pending_frames |-> <<>>, read_pending_frames |-> <<>>,
     events |-> <<>>, out |-> <<>>,
     h |-> [id \in StreamId |-> NewHandle(id, "Init", max_window_size(e))],
     life |-> [id \in StreamId |-> "none"], chan |-> [id \in StreamId |-> <<>>],
     ended |-> FALSE, failed |-> {}]

Init == node = [e \in Side |-> NewSession(e)]

is_dead(s) == (s.remote_go_away /\ s.local_go_away) \/ s.eof

-----------------------------------------------------------------------------
(***************************************************************************)
(* Sending                                                                 *)
(***************************************************************************)

\* Frames move to the sink until it is full.  A dead session drops the frame it
\* has taken.
send_all(s) ==
    LET q == s.write_pending_frames
        k == Min({Len(q), SinkCap - Len(s.out)}) IN
    IF is_dead(s)
    THEN [s EXCEPT !.write_pending_frames = SubSeq(q, 2, Len(q))]
    ELSE [s EXCEPT !.out = @ \o SubSeq(q, 1, k),
                   !.write_pending_frames = SubSeq(q, k + 1, Len(q))]

send_frame(s, f) == send_all([s EXCEPT !.write_pending_frames = Append(@, f)])

send_go_away_with_code(s, code) ==
    [send_frame([s EXCEPT !.write_pending_frames = <<>>], new_go_away(code))
       EXCEPT !.local_go_away = TRUE]

shutdown(s) == IF is_dead(s) THEN s ELSE send_go_away_with_code(s, 0)

\* A handle's method ran: its frames and its event go to the session, in order.
EventsOf(o, id) ==
    [i \in 1..Len(o.frames) |-> [kind |-> "Frame", frame |-> o.frames[i]]]
    \o CASE o.event = "Closed" -> <<[kind |-> "Closed", id |-> id]>>
         [] o.event = "GoAway" -> <<[kind |-> "GoAway"]>>
         [] OTHER              -> <<>>

\* After the session is dropped nothing can be sent to it.
WithHandle(s, id, o) ==
    [s EXCEPT !.h[id] = o.h,
              !.events = IF s.ended THEN @ ELSE @ \o EventsOf(o, id),
              !.failed = IF o.event = "GoAway" THEN @ \cup {id} ELSE @]

create_stream(s, e, id, state) ==
    WithHandle([s EXCEPT !.streams = @ \cup {id}, !.life[id] = "live"],
               id, send_window_update(NewHandle(id, state, max_window_size(e))))

\* checked_add(2) of create_stream(None) fails: StreamsExhausted.
Exhausted(s) == s.next_stream_id + 2 > MaxStreamId

CanOpen(s) == ~is_dead(s) /\ ~s.remote_go_away /\ ~Exhausted(s)

\* The id advances even if it is taken (DuplicateStream).
open_stream(s, e) ==
    LET t == [s EXCEPT !.next_stream_id = @ + 2] IN
    IF s.next_stream_id \in s.streams THEN t
    ELSE create_stream(t, e, s.next_stream_id, "Init")

-----------------------------------------------------------------------------
(***************************************************************************)
(* Distributing to the substreams                                          *)
(***************************************************************************)

\* Mutant: a full channel is taken for a disconnected one.
ToChannelFullIsGone(a, f) ==
    LET id == f.stream_id IN
    CASE id \notin a.s.streams -> a
      [] id \in a.s.streams /\ a.s.life[id] # "gone" /\ Len(a.s.chan[id]) < ChannelCap ->
            [a EXCEPT !.s.chan[id] = Append(@, f)]
      [] OTHER -> [a EXCEPT !.s.streams = @ \ {id}]

\* The last part of distribute_to_substream for one frame: a is the session, the
\* substreams blocked so far and whether the function has returned.
ToChannel(a, f) ==
    LET id == f.stream_id IN
    CASE id \notin a.s.streams -> a
      [] id \in a.s.streams /\ a.s.life[id] = "gone" ->
            [a EXCEPT !.s.streams = @ \ {id}]
      [] id \in a.s.streams /\ a.s.life[id] # "gone" /\ Len(a.s.chan[id]) < ChannelCap ->
            [a EXCEPT !.s.chan[id] = Append(@, f)]
      [] OTHER ->
            [a EXCEPT !.s.read_pending_frames = Append(@, f), !.blocked = @ \cup {id}]

\* The stream will have no handle here.
Refuse(s, id) == [s EXCEPT !.life[id] = IF @ = "none" THEN "gone" ELSE @]

\* A SYN arrives while we are going away: RST, and the function returns.
RefuseAll(a, id) ==
    [a EXCEPT !.s = send_frame(Refuse(@, id), new_window_update({"Rst"}, id, 0, InitialWindow)),
              !.returned = TRUE]

\* The stream of a protocol error.
Blamed(s, id) == [s EXCEPT !.failed = @ \cup {id}]

\* poll_next will return the stream.
Announced(s, id) == [s EXCEPT !.pending_streams = Append(@, id)]

Accepted(a, e, id) ==
    IF id \in a.s.streams
    THEN [a EXCEPT !.s = Blamed(send_go_away_with_code(a.s, 1), id), !.returned = TRUE]
    ELSE [a EXCEPT !.s = Announced(create_stream(a.s, e, id, "SynReceived"), id)]

\* At a limit: the RST waits for the next flush.
Postponed(s, f) == [s EXCEPT !.write_pending_frames = Append(@, f)]

Rejected(a, id) ==
    [a EXCEPT !.s = Postponed(Refuse(a.s, id),
                              new_window_update({"Ack", "Rst"}, id, 0, InitialWindow))]

\* The first part: what a SYN does.
OnSyn(a, e, id) ==
    IF a.s.local_go_away THEN RefuseAll(a, id)
    ELSE IF /\ Cardinality(a.s.streams) < max_stream_count(e)
            /\ Len(a.s.pending_streams) < accept_backlog
         THEN Accepted(a, e, id)
         ELSE Rejected(a, id)

\* Mutant: one blocked substream blocks them all.
DistributeBlocksAll(a, e, f) ==
    LET id == f.stream_id
        b == IF "Syn" \in f.flags THEN OnSyn(a, e, id) ELSE a IN
    IF a.returned THEN a
    ELSE IF a.blocked # {}
         THEN [a EXCEPT !.s.read_pending_frames = Append(@, f)]
         ELSE IF b.returned THEN b ELSE ToChannel(b, f)

Distribute(a, e, f) ==
    LET id == f.stream_id
        b == IF "Syn" \in f.flags THEN OnSyn(a, e, id) ELSE a IN
    IF a.returned THEN a
    ELSE IF id \in a.blocked
         THEN [a EXCEPT !.s.read_pending_frames = Append(@, f)]
         ELSE IF b.returned THEN b ELSE ToChannel(b, f)

Undistributed(s) ==
    [s |-> [s EXCEPT !.read_pending_frames = <<>>], blocked |-> {}, returned |-> FALSE]

\* after[n] is what the loop has done with the first n frames.
distribute_to_substream(s, e) ==
    LET q == s.read_pending_frames
        after[n \in 0..Len(q)] == IF n = 0 THEN Undistributed(s)
                                  ELSE Distribute(after[n - 1], e, q[n]) IN
    after[Len(q)].s

\* Mutant: what waits for a substream is not offered to it again.
FlushWritesOnly(s, e) ==
    IF s.write_pending_frames = <<>> THEN s ELSE send_all(s)

flush(s, e) ==
    IF s.read_pending_frames = <<>> /\ s.write_pending_frames = <<>> THEN s
    ELSE distribute_to_substream(send_all(s), e)

-----------------------------------------------------------------------------
(***************************************************************************)
(* Receiving                                                               *)
(***************************************************************************)
\* Mutant: split_off keeps the answered ping.
PingAckKeepsOwn(s, f) ==
    IF "Syn" \in f.flags THEN send_frame(s, new_ping({"Ack"}, f.length))
    ELSE [s EXCEPT !.pings = {id \in @ : id >= f.length}]

handle_ping(s, f) ==
    IF "Syn" \in f.flags THEN send_frame(s, new_ping({"Ack"}, f.length))
    ELSE [s EXCEPT !.pings = {id \in @ : id > f.length}]

\* Mutant: a peer's GoAway is answered but the session goes on reading.
GoAwayNotNoted(s) ==
    LET t == [s EXCEPT !.write_pending_frames = <<>>] IN
    IF s.local_go_away THEN t ELSE send_go_away_with_code(t, 0)

handle_go_away(s) ==
    LET t == [s EXCEPT !.remote_go_away = TRUE, !.write_pending_frames = <<>>] IN
    IF s.local_go_away THEN t ELSE send_go_away_with_code(t, 0)

handle_session_frame(s, e, f) ==
    CASE f.ty \in {"Data", "WindowUpdate"} ->
            distribute_to_substream([s EXCEPT !.read_pending_frames = Append(@, f)], e)
      [] f.ty = "Ping"   -> handle_ping(s, f)
      [] f.ty = "GoAway" -> handle_go_away(s)

handle_event(s, event) ==
    CASE event.kind = "Frame"  -> send_frame(s, event.frame)
      [] event.kind = "Closed" -> [s EXCEPT !.streams = @ \ {event.id}]
      [] event.kind = "GoAway" -> send_go_away_with_code(s, 1)

-----------------------------------------------------------------------------
(***************************************************************************)
(* The steps of poll_next                                                  *)
(***************************************************************************)
Polled(e) == ~node[e].ended /\ ~is_dead(node[e])

Becomes(e, s) == node' = [node EXCEPT ![e] = s]

Flush(e) ==
    /\ Polled(e) /\ flush(node[e], e) # node[e]
    /\ Becomes(e, flush(node[e], e))

\* poll_next returns the next stream to the owner.
AcceptStream(e) ==
    /\ Polled(e) /\ node[e].pending_streams # <<>>
    /\ Becomes(e, [node[e] EXCEPT !.pending_streams = Tail(@)])

\* Command::OpenStream, or the owner calls open_stream.
OpenStream(e) ==
    /\ "OpenStream" \in Commands(e)
    /\ ~node[e].ended /\ CanOpen(node[e])
    /\ Becomes(e, open_stream(node[e], e))

UnreadGoAways(s) ==
    Len(SelectSeq(s.out \o s.write_pending_frames, LAMBDA f : f.ty = "GoAway"))

\* Command::Shutdown, or the owner calls shutdown.
ShutdownSession(e) ==
    /\ "Shutdown" \in Commands(e) /\ UnreadGoAways(node[e]) < MaxGoAways
    /\ Polled(e)
    /\ Becomes(e, shutdown(node[e]))

\* The owner calls send_go_away.
GoAway(e) ==
    /\ "GoAway" \in Commands(e) /\ UnreadGoAways(node[e]) < MaxGoAways
    /\ Polled(e)
    /\ Becomes(e, send_go_away_with_code(node[e], 0))

\* recv_frames: the socket holds a frame.
RecvFrame(e) ==
    /\ Polled(e) /\ node[Peer(e)].out # <<>>
    /\ node' = [node EXCEPT ![e] = handle_session_frame(@, e, Head(node[Peer(e)].out)),
                            ![Peer(e)].out = Tail(@)]

\* recv_frames: the peer has closed the socket.
RecvEof(e) ==
    /\ Polled(e) /\ node[Peer(e)].ended /\ node[Peer(e)].out = <<>>
    /\ Becomes(e, [node[e] EXCEPT !.eof = TRUE])

\* recv_events; it follows recv_frames even when that made the session dead.
RecvEvent(e) ==
    /\ ~node[e].ended /\ node[e].events # <<>>
    /\ Becomes(e, handle_event([node[e] EXCEPT !.events = Tail(@)], Head(node[e].events)))

(***************************************************************************)
(* The session is over: its owner drops it.  With it go its queues and the *)
(* senders of its streams' channels, and what the sink still holds may be  *)
(* lost; i frames reach the socket.                                        *)
(***************************************************************************)
Dropped(s, i) ==
    [s EXCEPT !.ended = TRUE, !.streams = {}, !.events = <<>>,
              !.write_pending_frames = <<>>, !.read_pending_frames = <<>>,
              !.pings = {}, !.out = SubSeq(@, 1, i)]

Over(e) == \E i \in 0..Len(node[e].out) : Becomes(e, Dropped(node[e], i))

\* poll_next returns None.
PollEnd(e) == ~node[e].ended /\ is_dead(node[e]) /\ Over(e)

\* Mutant: the tick after GoAway does nothing.
GoAwayTimeoutIgnored(e) == Polled(e) /\ node[e].local_go_away /\ UNCHANGED node

\* The keepalive interval fires; after GoAway it is the write timeout.
GoAwayTimeout(e) ==
    /\ Polled(e) /\ node[e].local_go_away
    /\ Becomes(e, [node[e] EXCEPT !.remote_go_away = TRUE])

keep_alive(e) ==
    /\ Polled(e) /\ ~node[e].local_go_away /\ node[e].ping_id < MaxPings(e)
    /\ Becomes(e, [send_frame(node[e], new_ping({"Syn"}, node[e].ping_id + 1))
                     EXCEPT !.ping_id = @ + 1, !.pings = @ \cup {node[e].ping_id + 1}])

\* A ping is older than TIMEOUT: poll_next returns an error.
PingTimeout(e) ==
    /\ Polled(e) /\ ~node[e].local_go_away /\ node[e].pings # {} /\ Over(e)

\* The socket fails, or the peer has closed it and a write fails.
IoError(e) == Polled(e) /\ (MayBreak \/ node[Peer(e)].ended) /\ Over(e)

SessionStep(e) ==
    \/ Flush(e) \/ AcceptStream(e) \/ RecvFrame(e) \/ RecvEof(e) \/ RecvEvent(e)
    \/ OpenStream(e) \/ ShutdownSession(e) \/ GoAway(e)
    \/ keep_alive(e) \/ GoAwayTimeout(e) \/ PingTimeout(e) \/ IoError(e) \/ PollEnd(e)

-----------------------------------------------------------------------------
(***************************************************************************)
(* The calls of the handles' owners                                        *)
(***************************************************************************)
Owned(e, id) == node[e].life[id] = "live" /\ id \notin Range(node[e].pending_streams)

Does(e, id, outcome) == Becomes(e, WithHandle(node[e], id, outcome))

\* poll_read: one frame is taken from the channel ...
HandleRecvFrame(e, id) ==
    LET s == node[e] IN
    /\ Owned(e, id) /\ CanRecv(s.h[id]) /\ s.chan[id] # <<>>
    /\ Becomes(e, WithHandle([s EXCEPT !.chan[id] = Tail(@)], id,
                             handle_frame(s.h[id], Head(s.chan[id]))))

\* ... or the session has dropped its end of it ...
HandleRecvEnd(e, id) ==
    LET s == node[e] IN
    /\ Owned(e, id) /\ CanRecv(s.h[id]) /\ s.chan[id] = <<>> /\ id \notin s.streams
    /\ Does(e, id, Disconnected(s.h[id]))

\* ... and n buffered bytes are handed out.
Read(e, id, n) ==
    /\ Owned(e, id) /\ n <= node[e].h[id].read_buf
    /\ Does(e, id, poll_read(node[e].h[id], n))

Write(e, id, w) ==
    LET g == node[e].h[id] IN
    /\ Owned(e, id) /\ ~node[e].ended
    /\ g.state \in WritableStates /\ g.send_window > 0
    /\ g.sent + w <= MaxBytes(e, id) /\ Len(node[e].events) < MaxEvents
    /\ Does(e, id, poll_write(g, Min({g.send_window, w})))

WriteBroken(e, id) ==
    LET g == node[e].h[id] IN
    /\ Owned(e, id) /\ node[e].ended
    /\ g.state \in WritableStates /\ g.send_window > 0
    /\ Does(e, id, PollWriteBroken(g))

WritePending(e, id) ==
    LET g == node[e].h[id] IN
    /\ Owned(e, id)
    /\ g.state \in WritableStates /\ g.send_window = 0
    /\ Does(e, id, PollWritePending(g))

Shutdown(e, id) ==
    /\ "Shutdown" \in Calls(e) /\ Owned(e, id) /\ Len(node[e].events) < MaxEvents
    /\ Does(e, id, close(node[e].h[id]))

\* An owner drops its handle, or a dropped session those in pending_streams.
DropHandle(e, id) ==
    LET s == node[e] IN
    /\ s.life[id] = "live"
    /\ \/ "Drop" \in Calls(e) /\ Owned(e, id)
       \/ s.ended /\ ~Owned(e, id)
    /\ Becomes(e, WithHandle([s EXCEPT !.life[id] = "gone", !.chan[id] = <<>>], id,
                             IF s.ended THEN Outcome(s.h[id], <<>>, "None")
                                        ELSE drop(s.h[id])))

HandleStep(e, id) ==
    \/ HandleRecvFrame(e, id) \/ HandleRecvEnd(e, id)
    \/ \E n \in 1..node[e].h[id].read_buf : Read(e, id, n)
    \/ \E w \in 1..MaxWrite : Write(e, id, w)
    \/ WriteBroken(e, id) \/ WritePending(e, id)
    \/ Shutdown(e, id) \/ DropHandle(e, id)

Next == \E e \in Side : SessionStep(e) \/ \E id \in StreamId : HandleStep(e, id)

Spec == Init /\ [][Next]_node

(***************************************************************************)
(* The executor polls a session again when one of its wakers fires, and    *)
(* every queue that poll_next reads registers one.  The owner polls until  *)
(* the session ends, and reads from its streams.  Nobody is obliged to     *)
(* open, write, close or fail.  A timer that was set fires.                *)
(***************************************************************************)
HandleReads(e, id) ==
    \/ HandleRecvFrame(e, id) \/ HandleRecvEnd(e, id)
    \/ \E n \in 1..node[e].h[id].read_buf : Read(e, id, n)

\* A dropped session's pending_streams go with it.
DropPending(e, id) == ~Owned(e, id) /\ DropHandle(e, id)

TimerFairness == \A e \in Side : WF_node(GoAwayTimeout(e)) /\ WF_node(PollEnd(e))

TimerSpec == Spec /\ TimerFairness

PollFairness ==
    \A e \in Side :
        /\ WF_node(Flush(e)) /\ WF_node(AcceptStream(e))
        /\ WF_node(RecvFrame(e) \/ RecvEof(e)) /\ WF_node(RecvEvent(e))
        /\ \A id \in StreamId : WF_node(HandleReads(e, id)) /\ WF_node(DropPending(e, id))

FairSpec == Spec /\ TimerFairness /\ PollFairness

-----------------------------------------------------------------------------
(***************************************************************************)
(* Properties                                                              *)
(***************************************************************************)
TypeOK == node \in [Side -> Session]

Live(s, id) == s.life[id] = "live" /\ ~s.ended

\* No SYN is left in read_pending_frames.  distribute_to_substream returns early at
\* a SYN when the session is going away and forgets the rest of the frames it took:
\* this is what makes that harmless to the other streams.
SynNeverQueued ==
    \A e \in Side : \A i \in 1..Len(node[e].read_pending_frames) :
        "Syn" \notin node[e].read_pending_frames[i].flags

\* While its session runs a stream that can still receive keeps its frame_sender:
\* late Closed events, removals on disconnection and id reuse never cut it off.
RegisteredWhileReadable ==
    \A e \in Side, id \in StreamId :
        Live(node[e], id) /\ node[e].h[id].state \in ReadableStates => id \in node[e].streams

\* Two conforming sessions never accuse each other of a protocol error.
NoProtocolError == \A e \in Side : node[e].failed = {}

\* What a handle has told its session, as frames: an event that is none stands as a
\* frame of no stream.
NoFrame == new_ping({"Ack"}, 0)

FramesOf(events) ==
    [i \in 1..Len(events) |-> IF events[i].kind = "Frame" THEN events[i].frame ELSE NoFrame]

\* All that is on its way from the session s to the stream id of the session r, the
\* next frame to be taken first.
OnItsWay(s, r, id) ==
    (r.chan[id] \o r.read_pending_frames)
    \o ((s.out \o s.write_pending_frames) \o FramesOf(s.events))

\* sum[n] counts the bytes of id among the first n frames.
SumLength(q, id) ==
    LET sum[n \in 0..Len(q)] ==
            IF n = 0 THEN 0
            ELSE sum[n - 1] + IF q[n].ty = "Data" /\ q[n].stream_id = id
                              THEN q[n].length ELSE 0 IN
    sum[Len(q)]

\* The unbounded event channel cannot be filled without end: the Data that a stream
\* has anywhere on its way fits in the window of the receiving side.
DataBounded ==
    \A e \in Side, id \in StreamId :
        LET r == node[Peer(e)] IN
        SumLength(OnItsWay(node[e], r, id), id) + r.h[id].read_buf
            <= max_window_size(Peer(e))

\* A ping counts as unanswered only while it, or its answer, is on its way: as long
\* as nobody goes away every answer takes exactly its ping out of `pings', so that
\* keep_alive can only time out on a peer that is late.
PingsInFlight ==
    \A e \in Side :
        LET s == node[e]
            r == node[Peer(e)] IN
        (~s.ended /\ ~r.ended /\ ~s.local_go_away /\ ~r.local_go_away) =>
            s.pings = {f.length : f \in
                {g \in Range(s.out \o s.write_pending_frames) :
                     g.ty = "Ping" /\ "Syn" \in g.flags}
                \cup
                {g \in Range(r.out \o r.write_pending_frames) :
                     g.ty = "Ping" /\ "Ack" \in g.flags}}

(***************************************************************************)
(* Each stream is a YamuxPair: whatever the two sessions do, its two ends  *)
(* see a FIFO pipe that may be cut.  The pipe to an end is what its        *)
(* channel holds, then what its session still has for it, then what the    *)
(* peer's session has sent or will send.  A GoAway ends it: a peer that    *)
(* reads it is dead, so the frames that send_go_away_with_code clears can  *)
(* leave no gap.                                                           *)
(***************************************************************************)
SideOf(id, end) == IF end = "opener" THEN Opener(id) ELSE Peer(Opener(id))

Finished(s) == s.ended \/ is_dead(s)

UntilGoAway(q) ==
    LET n == SelectInSeq(q, LAMBDA f : f.ty = "GoAway") IN
    IF n = 0 THEN q ELSE SubSeq(q, 1, n - 1)

Pipe(e, id) ==
    LET s == node[e]
        r == node[Peer(e)]
        coming == r.out \o IF Finished(r) THEN <<>>
                           ELSE r.write_pending_frames \o FramesOf(r.events) IN
    IF s.life[id] = "gone" \/ s.h[id].state = "Closed" THEN <<>>
    ELSE s.chan[id] \o
         IF Finished(s) THEN <<>>
         ELSE SelectSeq(s.read_pending_frames \o UntilGoAway(coming),
                        LAMBDA f : f.stream_id = id)

Pair == INSTANCE YamuxPair WITH
    StreamId <- Watched,
    OpenerMaxWindow <- max_window_size(SideOf(Watched, "opener")),
    AcceptorMaxWindow <- max_window_size(SideOf(Watched, "acceptor")),
    MaxPipe <- 1000,
    h <- [end \in {"opener", "acceptor"} |-> node[SideOf(Watched, end)].h[Watched]],
    life <- [end \in {"opener", "acceptor"} |-> node[SideOf(Watched, end)].life[Watched]],
    pipe <- [end \in {"opener", "acceptor"} |-> Pipe(SideOf(Watched, end), Watched)],
    cut <- [end \in {"opener", "acceptor"} |->
               LET e == SideOf(Watched, end) IN
               Finished(node[e]) \/ Finished(node[Peer(e)]) \/ node[Peer(e)].local_go_away],
    dropped <- [end \in {"opener", "acceptor"} |-> node[SideOf(Watched, end)].ended],
    failed <- [end \in {"opener", "acceptor"} |-> Watched \in node[SideOf(Watched, end)].failed]

\* The stream Watched implements the abstract stream.
StreamIsPair == Pair!Spec

\* With fair sessions and owners it also keeps the abstract stream's promises: what
\* is in flight is read.
StreamIsFair == Pair!Fairness

\* A session that has sent GoAway ends, even if its peer never answers.
GoAwayEnds == \A e \in Side : node[e].local_go_away ~> node[e].ended

(***************************************************************************)
(* One thing the repository says and the code does not do.                 *)
(***************************************************************************)

Quiet(s) == /\ s.events = <<>> /\ s.out = <<>>
            /\ s.write_pending_frames = <<>> /\ s.read_pending_frames = <<>>

\* CHANGELOG: "Fix yamux leak mem".  When both handles of a stream are gone and no
\* frame or event is left anywhere, the sessions should hold nothing for it.
NothingHeldForGoneStream ==
    \A id \in StreamId :
        (\A e \in Side : node[e].life[id] = "gone" /\ Quiet(node[e])) =>
            \A e \in Side : id \notin node[e].streams
=============================================================================
