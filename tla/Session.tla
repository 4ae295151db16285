------------------------------ MODULE Session ------------------------------
(***************************************************************************)
(* The life of one tentacle session, tentacle/src/session.rs: the task     *)
(* that polls it, the tasks of its protocol streams (substream.rs), its    *)
(* own protocol handlers as far as it waits for them, and what the service *)
(* does with the session (session_close in service.rs).                    *)
(*                                                                         *)
(* An event is sent by a task spawned for the purpose or waits in a        *)
(* buffer, so events of different senders arrive in any order: an event is *)
(* in flight until it is handled.  A poll of the session handles at most   *)
(* one event of its streams and one of the service; a poll that handles    *)
(* both is two steps here, which ends as the code's poll does, for the     *)
(* second is dropped unless the first leaves the state Normal.  Messages   *)
(* of the protocols, and the events for handlers, are left out.            *)
(***************************************************************************)
EXTENDS Naturals

CONSTANTS Protos,        \* the protocols of the service
          Exclusive,     \* those that have a session-level handler
          MaxStreams     \* bound: protocol streams opened in the session

ASSUME SessionAssumption ==
    Exclusive \subseteq Protos /\ Protos # {} /\ MaxStreams \in Nat \ {0}

VARIABLES ses,       \* the Session, and whether its task is done
          sub,       \* sub[i]: the Substream with id i, and its events in flight
          net,       \* the muxer below, the streams that it takes no data of, negotiations,
                     \* the timer
          svc,       \* what the service knows, and a SessionClose in flight
          handles    \* the session-level handlers that have not ended

vars == <<ses, sub, net, svc, handles>>

Streams == 0..(MaxStreams - 1)

SessionState == {"RemoteClose", "LocalClose", "Normal", "Abnormal"}

SessionType ==
    [state : SessionState, closed : BOOLEAN, substreams : SUBSET Streams,
     proto_streams : [Protos -> SUBSET Streams], next_stream : 0..MaxStreams,
     receiving : BOOLEAN, done : BOOLEAN]

\* inbox: a Close from the session; closing: Close events on their way to the session.
SubstreamType ==
    [proto : Protos, life : {"none", "run", "done"}, dead : BOOLEAN, inbox : BOOLEAN,
     closing : 0..2]

NetType ==
    [mux : {"up", "RemoteClose", "Abnormal", "off"}, full : SUBSET Streams,
     opening : [Protos -> BOOLEAN], timer : BOOLEAN]

NoStream(p) ==
    [proto |-> p, life |-> "none", dead |-> FALSE, inbox |-> FALSE, closing |-> 0]

\* session_open: an outbound session opens protocols at once, an inbound one waits.
Init ==
    /\ ses = [state |-> "Normal", closed |-> FALSE, substreams |-> {},
              proto_streams |-> [p \in Protos |-> {}], next_stream |-> 0,
              receiving |-> TRUE, done |-> FALSE]
    /\ sub = [i \in Streams |-> NoStream(CHOOSE p \in Protos : TRUE)]
    /\ \E opening \in [Protos -> BOOLEAN] :
          net = [mux |-> "up", full |-> {}, opening |-> opening, timer |-> TRUE]
    /\ svc = [session |-> "open", closing |-> FALSE]
    /\ handles = Exclusive

-----------------------------------------------------------------------------
(***************************************************************************)
(* The end of Session::poll_next: what the state s of the session and u of *)
(* the streams, after the events, call for.                                *)
(***************************************************************************)
clean(s) == [s EXCEPT !.substreams = {}, !.receiving = FALSE]

\* Mutant: the flag that the streams and handlers look at is not set.
CloseWithoutFlag(s) ==
    /\ ses' = clean(s)
    /\ svc' = [svc EXCEPT !.closing = svc.session # "gone"]

\* The service is told by a task of its own.
close_session(s) ==
    /\ ses' = [clean(s) EXCEPT !.closed = TRUE]
    /\ svc' = [svc EXCEPT !.closing = svc.session # "gone"]

\* Close is pushed to all streams.
CloseStreams(s, u) == [i \in Streams |-> [u[i] EXCEPT !.inbox = @ \/ i \in s.substreams]]

\* When the flag is set already, close_all_proto closes the session.
close_all_proto(s, u) ==
    \/ s.closed /\ close_session(s) /\ sub' = u
    \/ /\ ~s.closed
       /\ ses' = [s EXCEPT !.closed = TRUE]
       /\ sub' = CloseStreams(s, u)
       /\ UNCHANGED svc

NoProtos(s) == \A p \in Protos : s.proto_streams[p] = {}

\* wait_handle_poll: the session's handlers are told to stop, and waited for.
wait_handle_poll(s) == [s EXCEPT !.done = handles = {}]

\* Mutant: a session that the peer has closed waits for its protocols to close.
WaitForProtocols(s, u) ==
    \/ /\ \/ s.state \in {"LocalClose", "Abnormal"}
          \/ s.state = "RemoteClose" /\ NoProtos(s)
       /\ close_session(wait_handle_poll([s EXCEPT !.proto_streams = [p \in Protos |-> {}]]))
       /\ sub' = u
    \/ /\ s.state = "RemoteClose" /\ ~NoProtos(s)
       /\ ses' = [s EXCEPT !.closed = TRUE] /\ sub' = CloseStreams(s, u) /\ UNCHANGED svc
    \/ s.state = "Normal" /\ ses' = s /\ sub' = u /\ UNCHANGED svc

EndPoll(s, u) ==
    \/ /\ \/ s.state \in {"LocalClose", "Abnormal"}
          \/ s.state = "RemoteClose" /\ NoProtos(s)
       /\ close_session(wait_handle_poll([s EXCEPT !.proto_streams = [p \in Protos |-> {}]]))
       /\ sub' = u
    \/ s.state = "RemoteClose" /\ ~NoProtos(s) /\ close_all_proto(s, u)
    \/ s.state = "Normal" /\ ses' = s /\ sub' = u /\ UNCHANGED svc

(***************************************************************************)
(* Session::poll_next with one event                                       *)
(***************************************************************************)
Polled == ~ses.done /\ ses.state # "LocalClose"

\* Mutant: the poll that finds the connection closed by the peer returns at once.
RemoteCloseReturns ==
    /\ ~ses.done /\ ses.state \in {"LocalClose", "RemoteClose"}
    /\ ses' = [ses EXCEPT !.done = TRUE]
    /\ UNCHANGED <<sub, net, svc, handles>>

\* The double check at the head.
LocalCloseFound ==
    /\ ~ses.done /\ ses.state = "LocalClose"
    /\ ses' = [ses EXCEPT !.done = TRUE]
    /\ UNCHANGED <<sub, net, svc, handles>>

\* flush: a stream that takes no more with too much data pending, or a service that has
\* gone, makes the session Abnormal.
FlushFailed ==
    /\ Polled /\ (ses.substreams # {} \/ svc.session = "gone")
    /\ EndPoll([ses EXCEPT !.state = "Abnormal"], sub)
    /\ UNCHANGED <<net, handles>>

\* A poll after one that handled something, or when a handler waited for has ended.
PollAgain ==
    /\ Polled /\ ses.state # "Normal"
    /\ EndPoll(ses, sub)
    /\ UNCHANGED <<net, handles>>

\* A negotiation has ended: well, not, or with a name that is not known here.
Negotiated(p) ==
    /\ Polled /\ net.opening[p]
    /\ net' = [net EXCEPT !.opening[p] = FALSE]
    /\ UNCHANGED handles

\* A protocol that is open already is not opened twice.
open_protocol(p) ==
    /\ Negotiated(p)
    /\ \/ ses.proto_streams[p] # {} /\ EndPoll(ses, sub)
       \/ /\ ses.proto_streams[p] = {} /\ ses.next_stream < MaxStreams
          /\ LET i == ses.next_stream IN
             EndPoll([ses EXCEPT !.substreams = @ \cup {i}, !.proto_streams[p] = {i},
                                 !.next_stream = @ + 1],
                     [sub EXCEPT ![i] = [NoStream(p) EXCEPT !.life = "run"]])

SelectError(p) ==
    /\ Negotiated(p)
    /\ EndPoll(ses, sub)

UnknownName(p) ==
    /\ Negotiated(p)
    /\ EndPoll([ses EXCEPT !.state = "Abnormal"], sub)

\* Mutant: the protocol is removed whichever of its streams has closed.
ForgetAnyStream(i) ==
    /\ Polled /\ sub[i].closing > 0
    /\ EndPoll([ses EXCEPT !.substreams = @ \ {i}, !.proto_streams[sub[i].proto] = {}],
               [sub EXCEPT ![i].closing = @ - 1])
    /\ UNCHANGED <<net, handles>>

\* ProtocolEvent::Close; a stream that closes twice sends it twice.
StreamClosed(i) ==
    /\ Polled /\ sub[i].closing > 0
    /\ EndPoll([ses EXCEPT !.substreams = @ \ {i},
                           !.proto_streams[sub[i].proto] = IF i \in ses.substreams THEN {} ELSE @],
               [sub EXCEPT ![i].closing = @ - 1])
    /\ UNCHANGED <<net, handles>>

\* ProtocolEvent::TimeoutCheck, once.
TimeoutCheck ==
    /\ Polled /\ net.timer
    /\ net' = [net EXCEPT !.timer = FALSE]
    /\ EndPoll([ses EXCEPT !.state = IF ses.substreams = {} THEN "LocalClose" ELSE @], sub)
    /\ UNCHANGED handles

\* The end of a channel: the session has closed both, or nobody can send to it any more.
ChannelEnds ==
    /\ Polled
    /\ ~ses.receiving \/ (svc.session # "open" /\ net.mux = "off")
    /\ EndPoll([clean(ses) EXCEPT !.state = "LocalClose"], sub)
    /\ UNCHANGED <<net, handles>>

\* Events of the service are dropped unless the state is Normal.
FromService == Polled /\ ses.state = "Normal" /\ ses.receiving /\ svc.session = "open"

\* SessionEvent::SessionClose, from disconnect or the graceful shutdown.
SessionClose ==
    /\ FromService
    /\ \/ ses.substreams = {} /\ close_session(ses) /\ UNCHANGED sub
       \/ /\ ses.substreams # {}
          /\ EndPoll([ses EXCEPT !.state = "LocalClose", !.closed = TRUE], CloseStreams(ses, sub))
    /\ UNCHANGED <<net, handles>>

\* SessionEvent::ProtocolOpen, or StreamStart for a stream that the peer opened: a
\* negotiation starts.
ProtocolOpen(p) ==
    /\ Polled /\ ses.state = "Normal" /\ ses.receiving
    /\ (svc.session = "open" /\ ses.proto_streams[p] = {}) \/ net.mux # "off"
    /\ ~net.opening[p]
    /\ net' = [net EXCEPT !.opening[p] = TRUE]
    /\ UNCHANGED <<ses, sub, svc, handles>>

\* SessionEvent::ProtocolClose.
ProtocolClose(p) ==
    /\ FromService
    /\ sub' = [i \in Streams |->
                  [sub[i] EXCEPT !.inbox = @ \/ i \in ses.proto_streams[p] \cap ses.substreams]]
    /\ UNCHANGED <<ses, net, svc, handles>>

\* SessionEvent::ChangeState, from the muxer's task; dropped unless the state is Normal.
ChangeState ==
    /\ Polled /\ net.mux \in {"RemoteClose", "Abnormal"}
    /\ net' = [net EXCEPT !.mux = "off"]
    /\ EndPoll([ses EXCEPT !.state = IF @ = "Normal" THEN net.mux ELSE @], sub)
    /\ UNCHANGED handles

-----------------------------------------------------------------------------
(***************************************************************************)
(* Substream::poll_next                                                    *)
(***************************************************************************)
Running(i) == sub[i].life = "run"

Healthy(i) == Running(i) /\ ~sub[i].dead /\ ~ses.closed

\* Close for the session, unless that is closing anyway.
close_proto_stream(s) == [s EXCEPT !.closing = IF ses.closed THEN @ ELSE @ + 1]

Ended(s) == [s EXCEPT !.life = "done", !.dead = TRUE, !.inbox = FALSE]

\* Mutant: the poll that has closed the stream does not end its task.
FinishAgain(i) ==
    /\ Running(i) /\ (sub[i].dead \/ ses.closed)
    /\ sub' = [sub EXCEPT ![i] = [close_proto_stream(@) EXCEPT !.dead = TRUE]]
    /\ UNCHANGED <<ses, net, svc, handles>>

\* The head of the poll that finds the stream dead or the session closed.
Finish(i) ==
    /\ Running(i) /\ (sub[i].dead \/ ses.closed)
    /\ sub' = [sub EXCEPT ![i] = Ended(close_proto_stream(@))]
    /\ UNCHANGED <<ses, net, svc, handles>>

\* flush fails at a frame the codec refuses: error_close, and the task ends.
FlushError(i) ==
    /\ Healthy(i)
    /\ sub' = [sub EXCEPT ![i] = Ended(close_proto_stream(@))]
    /\ UNCHANGED <<ses, net, svc, handles>>

\* flush fails because the stream below is reset or its session gone: error_close returns
\* at once, and the task ends.
BrokenPipe(i) ==
    /\ Healthy(i)
    /\ sub' = [sub EXCEPT ![i] = Ended(@)]
    /\ UNCHANGED <<ses, net, svc, handles>>

\* recv_frame: an error of the codec or of before_receive; the next poll closes again.
CodecError(i) ==
    /\ Healthy(i)
    /\ sub' = [sub EXCEPT ![i] = [close_proto_stream(@) EXCEPT !.dead = TRUE]]
    /\ UNCHANGED <<ses, net, svc, handles>>

\* The end of the stream, a connection error, an error sending, a handler that is gone.
Dies(i) ==
    /\ Healthy(i)
    /\ sub' = [sub EXCEPT ![i].dead = TRUE]
    /\ UNCHANGED <<ses, net, svc, handles>>

\* flush and send_data: messages come while the stream below, whose peer does not read,
\* takes nothing, and write_buf gets longer than send_event_size ...
WriteBlocked(i) ==
    /\ Healthy(i) /\ i \notin net.full
    /\ net' = [net EXCEPT !.full = @ \cup {i}]
    /\ UNCHANGED <<ses, sub, svc, handles>>

\* ... until it takes some again.
WriteResumed(i) ==
    /\ Healthy(i) /\ i \in net.full
    /\ net' = [net EXCEPT !.full = @ \ {i}]
    /\ UNCHANGED <<ses, sub, svc, handles>>

\* Mutant: only the end of the channel is acted on.
recv_end_only(i) ==
    /\ Healthy(i) /\ i \notin net.full /\ i \notin ses.substreams
    /\ sub' = [sub EXCEPT ![i].dead = TRUE]
    /\ UNCHANGED <<ses, net, svc, handles>>

\* Close, or the end of the channel when the session has let go of it; while write_buf is
\* long the channel is not looked at.
recv_event(i) ==
    /\ Healthy(i) /\ i \notin net.full
    /\ (sub[i].inbox \/ i \notin ses.substreams)
    /\ sub' = [sub EXCEPT ![i].dead = TRUE]
    /\ UNCHANGED <<ses, net, svc, handles>>

-----------------------------------------------------------------------------
(***************************************************************************)
(* Handlers, muxer and service                                             *)
(***************************************************************************)

\* A session-level handler ends when it is told to, or at an event that finds the session
\* closed.
HandlerEnds(p) ==
    /\ p \in handles /\ ses.closed
    /\ handles' = handles \ {p}
    /\ UNCHANGED <<ses, sub, net, svc>>

\* InnerSocket: the muxer ends, of itself, by an error or because the session closed it.
MuxEnds(state) ==
    /\ net.mux = "up"
    /\ net' = [net EXCEPT !.mux = IF ses.receiving THEN state ELSE "off"]
    /\ UNCHANGED <<ses, sub, svc, handles>>

\* session_close of the service, told by the session: reported, once.
session_close ==
    /\ svc.closing
    /\ svc' = [session |-> IF svc.session = "open" THEN "closed" ELSE svc.session,
               closing |-> FALSE]
    /\ UNCHANGED <<ses, sub, net, handles>>

\* Shutdown(true): the service reports the session closed and goes.
QuickShutdown ==
    /\ svc.session = "open"
    /\ svc' = [session |-> "gone", closing |-> FALSE]
    /\ UNCHANGED <<ses, sub, net, handles>>

-----------------------------------------------------------------------------
Next ==
    \/ LocalCloseFound \/ FlushFailed \/ PollAgain \/ TimeoutCheck \/ ChannelEnds
    \/ SessionClose \/ ChangeState \/ session_close \/ QuickShutdown
    \/ \E p \in Protos : \/ open_protocol(p) \/ SelectError(p) \/ UnknownName(p)
                         \/ ProtocolOpen(p) \/ ProtocolClose(p)
                         \/ HandlerEnds(p)
    \/ \E i \in Streams :
          \/ StreamClosed(i) \/ Finish(i) \/ FlushError(i) \/ BrokenPipe(i) \/ CodecError(i)
          \/ Dies(i) \/ WriteBlocked(i) \/ WriteResumed(i) \/ recv_event(i)
    \/ \E state \in {"RemoteClose", "Abnormal"} : MuxEnds(state)

Spec == Init /\ [][Next]_vars

\* A stream whose write_buf is long waits for the stream below alone: no Close and no end of
\* its channel wakes it, but the end of the muxer does.
Woken(i) == sub[i].dead \/ i \notin net.full \/ net.mux # "up"

\* The muxer that clean has told to close ends (GoAwayEnds of module Yamux).
MuxCloses == ~ses.receiving /\ \E state \in {"RemoteClose", "Abnormal"} : MuxEnds(state)

(***************************************************************************)
(* The runtime polls a task again when something it waits for has          *)
(* happened, and what was sent arrives.  Each time that a stream has room  *)
(* in write_buf it takes the next event of its channel, where only a       *)
(* bounded number is before Close: hence strong fairness.  Nobody is       *)
(* obliged to send events, to read, to fail, to close or to shut down.     *)
(***************************************************************************)
Fairness ==
    /\ WF_vars(LocalCloseFound) /\ WF_vars(PollAgain) /\ WF_vars(ChannelEnds)
    /\ WF_vars(ChangeState) /\ WF_vars(session_close) /\ WF_vars(MuxCloses)
    /\ \A i \in Streams : /\ WF_vars(StreamClosed(i)) /\ WF_vars(Woken(i) /\ Finish(i))
                          /\ SF_vars(recv_event(i))
    /\ \A p \in Protos : WF_vars(HandlerEnds(p))

FairSpec == Spec /\ Fairness

-----------------------------------------------------------------------------
\* Types of the state; a stream that closes twice has no more than two Close events on their
\* way (close_proto_stream).
TypeOK ==
    /\ ses \in SessionType
    /\ sub \in [Streams -> SubstreamType]
    /\ net \in NetType
    /\ svc \in [session : {"open", "closed", "gone"}, closing : BOOLEAN]
    /\ handles \subseteq Exclusive

\* While the session is open a healthy stream is the one that proto_streams names: it
\* gets the protocol's messages and Close, and no protocol has two (open_protocol).
Registered ==
    \A i \in Streams : Healthy(i) =>
        i \in ses.substreams /\ ses.proto_streams[sub[i].proto] = {i}

\* The service takes a session for closed only when its streams see it closed too, and
\* the task of a session ends only when the service was told or is being told: neither
\* side keeps what the other has given up (close_session, poll_next, session_close).
EndIsReported ==
    /\ svc.closing \/ svc.session = "closed" => ses.closed
    /\ ses.done => ses.closed /\ (svc.closing \/ svc.session # "open")

\* A session whose connection is gone, or that is being closed, ends and is reported,
\* whatever its protocols do (poll_next, wait_handle_poll).
SessionEnds ==
    net.mux # "up" \/ ses.state # "Normal" \/ ses.closed ~> ses.done /\ svc.session # "open"

\* When a session closes all its streams end, the blocked ones too, although those do not
\* look at their channel; a stream alone that is told to close ends unless its peer never
\* reads again (recv_event, poll_next, clean).
StreamsEnd ==
    \A i \in Streams :
        /\ Running(i) /\ ses.closed ~> ~Running(i)
        /\ Running(i) /\ sub[i].inbox ~> ~Running(i) \/ [](i \in net.full)

\* The session forgets a stream that has ended, so that the protocol can be opened again
\* (close_proto_stream, handle_stream_event).
EndedIsForgotten == \A i \in Streams : sub[i].life = "done" ~> i \notin ses.substreams
=============================================================================
