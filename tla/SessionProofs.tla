--------------------------- MODULE SessionProofs ---------------------------
(***************************************************************************)
(* Proofs about Session: its types, that a healthy stream is registered,   *)
(* and that the end of a session is reported, for any number of protocols  *)
(* and streams.                                                            *)
(***************************************************************************)
EXTENDS Session, TLAPS

ServiceType == [session : {"open", "closed", "gone"}, closing : BOOLEAN]

\* The registers s of the session and u of the streams fit: streams are numbered once, one
\* that has sent Close is dead, and until the flag is set the streams of the session are
\* the ones that its protocols name, all healthy ones among them.
Kept(s, u) ==
    /\ \A i \in Streams : i >= s.next_stream => u[i].life = "none" /\ u[i].closing = 0
    /\ \A i \in s.substreams : i < s.next_stream
    /\ \A i \in Streams : /\ u[i].closing > 0 => u[i].dead
                          /\ u[i].life = "run" => u[i].closing < 2
    /\ ~s.closed => /\ \A i \in s.substreams : s.proto_streams[u[i].proto] = {i}
                    /\ \A i \in Streams : u[i].life = "run" /\ ~u[i].dead => i \in s.substreams

\* The service hears only of a session that is closed.
Heard(s, v) == v.closing \/ v.session = "closed" => s.closed

\* LocalClose and the end of the task come after the report.
Told(s, v) ==
    s.done \/ s.state = "LocalClose" => s.closed /\ (v.closing \/ v.session # "open")

Inductive == TypeOK /\ Kept(ses, sub) /\ Heard(ses, svc) /\ Told(ses, svc)

-----------------------------------------------------------------------------
(***************************************************************************)
(* The end of a poll                                                       *)
(***************************************************************************)

\* close_session leaves a session that is closed, let go of and reported.
LEMMA CloseSession ==
    ASSUME NEW s \in SessionType, NEW u \in [Streams -> SubstreamType], Kept(s, u),
           svc \in ServiceType, close_session(s)
    PROVE  /\ ses' \in SessionType /\ svc' \in ServiceType
           /\ Kept(ses', u) /\ Heard(ses', svc') /\ Told(ses', svc')
           /\ ses'.done = s.done
<1>1. ses' = [s EXCEPT !.substreams = {}, !.receiving = FALSE, !.closed = TRUE]
    BY DEF close_session, clean, SessionType
<1>2. ses' \in SessionType
    BY <1>1 DEF SessionType
<1>3. ses'.closed /\ ses'.substreams = {} /\ ses'.done = s.done
      /\ ses'.next_stream = s.next_stream
    BY <1>1 DEF SessionType
<1>4. svc' \in ServiceType /\ svc'.session = svc.session /\ svc'.closing = (svc.session # "gone")
    BY DEF close_session, ServiceType
<1>5. Kept(ses', u)
    BY <1>3 DEF Kept
<1>6. Heard(ses', svc') /\ Told(ses', svc')
    BY <1>3, <1>4 DEF Heard, Told
<1> QED
    BY <1>2, <1>3, <1>4, <1>5, <1>6

\* A Close for every stream of a session changes nothing that Kept looks at.
LEMMA InboxKept ==
    ASSUME NEW s \in SessionType, NEW u \in [Streams -> SubstreamType], Kept(s, u),
           NEW w \in [Streams -> SubstreamType],
           \A i \in Streams : /\ w[i].proto = u[i].proto /\ w[i].life = u[i].life
                              /\ w[i].dead = u[i].dead /\ w[i].closing = u[i].closing
    PROVE  Kept(s, w)
<1>1. s.substreams \subseteq Streams
    BY DEF SessionType
<1> QED
    BY <1>1 DEF Kept

\* CloseStreams is such a change.
LEMMA CloseStreamsKept ==
    ASSUME NEW s \in SessionType, NEW u \in [Streams -> SubstreamType], Kept(s, u)
    PROVE  CloseStreams(s, u) \in [Streams -> SubstreamType] /\ Kept(s, CloseStreams(s, u))
<1> DEFINE w == CloseStreams(s, u)
<1>1. ASSUME NEW i \in Streams
      PROVE  /\ w[i] \in SubstreamType
             /\ w[i].proto = u[i].proto /\ w[i].life = u[i].life
             /\ w[i].dead = u[i].dead /\ w[i].closing = u[i].closing
    <2>1. u[i] \in SubstreamType
        OBVIOUS
    <2>2. w[i] = [u[i] EXCEPT !.inbox = u[i].inbox \/ i \in s.substreams]
        BY <2>1 DEF CloseStreams
    <2>3. (u[i].inbox \/ i \in s.substreams) \in BOOLEAN
        BY Zenon DEF SubstreamType
    <2> QED
        BY <2>1, <2>2, <2>3 DEF SubstreamType
<1>2. w \in [Streams -> SubstreamType]
    BY <1>1 DEF CloseStreams
<1> QED
    BY <1>1, <1>2, InboxKept

\* The flag set, Kept asks for less.
LEMMA ClosedKept ==
    ASSUME NEW s \in SessionType, NEW u \in [Streams -> SubstreamType], Kept(s, u),
           NEW t \in SessionType, t.closed, t.next_stream = s.next_stream,
           t.substreams \subseteq s.substreams
    PROVE  Kept(t, u)
BY DEF Kept

\* However a poll ends, the session and its streams fit, and an end is reported.
LEMMA EndOfPoll ==
    ASSUME NEW s \in SessionType, NEW u \in [Streams -> SubstreamType], Kept(s, u),
           svc \in ServiceType, Heard(s, svc), ~s.done, EndPoll(s, u)
    PROVE  /\ ses' \in SessionType /\ sub' \in [Streams -> SubstreamType] /\ svc' \in ServiceType
           /\ Kept(ses', sub') /\ Heard(ses', svc') /\ Told(ses', svc')
<1>1. CASE (s.state \in {"LocalClose", "Abnormal"} \/ (s.state = "RemoteClose" /\ NoProtos(s)))
           /\ close_session(wait_handle_poll([s EXCEPT !.proto_streams = [p \in Protos |-> {}]]))
           /\ sub' = u
    <2> DEFINE t == [s EXCEPT !.proto_streams = [p \in Protos |-> {}]]
               w == wait_handle_poll(t)
    <2>1. t \in SessionType
        BY DEF SessionType
    <2>2. w = [t EXCEPT !.done = (handles = {})]
        BY DEF wait_handle_poll
    <2>3. w \in SessionType
        BY <2>1, <2>2 DEF SessionType
    <2>4. w.closed = s.closed /\ w.substreams = s.substreams /\ w.next_stream = s.next_stream
        BY <2>2 DEF SessionType
    <2>5. PICK c \in SessionType : c = [w EXCEPT !.closed = TRUE]
        BY <2>3 DEF SessionType
    <2>6. Kept(c, u)
        BY <2>3, <2>4, <2>5, ClosedKept DEF SessionType
    <2>7. close_session(c)
        BY <1>1, <2>3, <2>5 DEF close_session, clean, SessionType
    <2> QED
        BY <1>1, <2>6, <2>7, CloseSession
<1>2. CASE s.state = "RemoteClose" /\ ~NoProtos(s) /\ close_all_proto(s, u)
    <2>1. CASE s.closed /\ close_session(s) /\ sub' = u
        BY <2>1, CloseSession
    <2>2. CASE ~s.closed /\ ses' = [s EXCEPT !.closed = TRUE] /\ sub' = CloseStreams(s, u)
               /\ UNCHANGED svc
        <3>1. /\ ses' \in SessionType /\ ses'.closed /\ ~ses'.done /\ ses'.state = "RemoteClose"
              /\ ses'.next_stream = s.next_stream /\ ses'.substreams = s.substreams
            BY <1>2, <2>2 DEF SessionType
        <3>2. sub' \in [Streams -> SubstreamType] /\ Kept(s, sub')
            BY <2>2, CloseStreamsKept
        <3>3. Kept(ses', sub')
            BY <3>1, <3>2, ClosedKept
        <3> QED
            BY <2>2, <3>1, <3>2, <3>3 DEF Heard, Told
    <2> QED
        BY <1>2, <2>1, <2>2 DEF close_all_proto
<1>3. CASE s.state = "Normal" /\ ses' = s /\ sub' = u /\ UNCHANGED svc
    BY <1>3 DEF Told
<1> QED
    BY <1>1, <1>2, <1>3 DEF EndPoll

-----------------------------------------------------------------------------
(***************************************************************************)
(* The events                                                              *)
(***************************************************************************)

\* Registers that agree where Kept looks.
LEMMA SameKept ==
    ASSUME NEW s \in SessionType, NEW u \in [Streams -> SubstreamType], Kept(s, u),
           NEW t \in SessionType, t.closed = s.closed, t.next_stream = s.next_stream,
           t.substreams = s.substreams, t.proto_streams = s.proto_streams
    PROVE  Kept(t, u)
BY DEF Kept

\* The value of a stream that is opened.
LEMMA NewStream ==
    ASSUME NEW p \in Protos
    PROVE  [NoStream(p) EXCEPT !.life = "run"] \in SubstreamType
<1>1. 0 \in 0..2 /\ FALSE \in BOOLEAN /\ "none" \in {"none", "run", "done"}
    OBVIOUS
<1>2. NoStream(p) \in SubstreamType
    BY <1>1, Zenon DEF NoStream, SubstreamType
<1>3. \A z \in SubstreamType : [z EXCEPT !.life = "run"] \in SubstreamType
    BY DEF SubstreamType
<1> QED
    BY <1>2, <1>3, Zenon

\* open_protocol: a new stream under the next number.
LEMMA OpenKept ==
    ASSUME NEW s \in SessionType, NEW u \in [Streams -> SubstreamType], Kept(s, u),
           NEW p \in Protos, s.proto_streams[p] = {}, s.next_stream < MaxStreams,
           NEW t \in SessionType, NEW w \in [Streams -> SubstreamType],
           t.closed = s.closed, t.next_stream = s.next_stream + 1,
           t.substreams = s.substreams \cup {s.next_stream},
           t.proto_streams = [s.proto_streams EXCEPT ![p] = {s.next_stream}],
           w = [u EXCEPT ![s.next_stream] = [NoStream(p) EXCEPT !.life = "run"]]
    PROVE  Kept(t, w)
<1> DEFINE n == s.next_stream
<1>1. n \in Streams /\ n \in Nat
    BY SessionAssumption DEF SessionType, Streams
<1>2. /\ w[n].proto = p /\ w[n].life = "run" /\ ~w[n].dead /\ w[n].closing = 0
    BY <1>1 DEF NoStream
<1>3. \A i \in Streams \ {n} : w[i] = u[i]
    BY <1>1
<1>4. s.substreams \subseteq Streams /\ n \notin s.substreams
    BY <1>1 DEF Kept, SessionType, Streams
<1>5. s.proto_streams \in [Protos -> SUBSET Streams] /\ \A i \in Streams : u[i].proto \in Protos
    BY DEF SessionType, SubstreamType
<1>6. \A i \in Streams : i >= t.next_stream => w[i].life = "none" /\ w[i].closing = 0
    BY <1>1, <1>3 DEF Kept, Streams
<1>7. \A i \in t.substreams : i < t.next_stream
    BY <1>1, <1>4 DEF Kept, Streams
<1>8. \A i \in Streams : /\ w[i].closing > 0 => w[i].dead
                         /\ w[i].life = "run" => w[i].closing < 2
    BY <1>2, <1>3 DEF Kept
<1>9. ASSUME ~t.closed
      PROVE  /\ \A i \in t.substreams : t.proto_streams[w[i].proto] = {i}
             /\ \A i \in Streams : w[i].life = "run" /\ ~w[i].dead => i \in t.substreams
    <2>1. \A i \in s.substreams : u[i].proto # p
        BY <1>9 DEF Kept
    <2> QED
        BY <1>1, <1>2, <1>3, <1>4, <1>5, <1>9, <2>1 DEF Kept
<1> QED
    BY <1>6, <1>7, <1>8, <1>9 DEF Kept

\* One stream changes, and is not revived.
LEMMA StreamKept ==
    ASSUME NEW s \in SessionType, NEW u \in [Streams -> SubstreamType], Kept(s, u),
           NEW i \in Streams, NEW v \in SubstreamType, v.proto = u[i].proto,
           u[i].life # "none" \/ u[i].closing > 0,
           v.closing > 0 => v.dead, v.life = "run" => v.closing < 2,
           v.life = "run" /\ ~v.dead => u[i].life = "run" /\ ~u[i].dead
    PROVE  /\ [u EXCEPT ![i] = v] \in [Streams -> SubstreamType]
           /\ Kept(s, [u EXCEPT ![i] = v])
<1>1. PICK w \in [Streams -> SubstreamType] : w = [u EXCEPT ![i] = v]
    OBVIOUS
<1>2. w[i] = v /\ \A j \in Streams \ {i} : w[j] = u[j]
    BY <1>1
<1>3. s.substreams \subseteq Streams
    BY DEF SessionType
<1>4. ~(i >= s.next_stream)
    BY DEF Kept, SubstreamType
<1>5. Kept(s, w)
    BY <1>2, <1>3, <1>4 DEF Kept
<1> QED
    BY <1>1, <1>5

\* ProtocolEvent::Close: the stream is dead, and forgotten with its protocol.
LEMMA ForgetKept ==
    ASSUME NEW s \in SessionType, NEW u \in [Streams -> SubstreamType], Kept(s, u),
           NEW i \in Streams, u[i].dead, NEW t \in SessionType,
           t.closed = s.closed, t.next_stream = s.next_stream,
           t.substreams = s.substreams \ {i},
           t.proto_streams = [s.proto_streams EXCEPT
                                 ![u[i].proto] = IF i \in s.substreams THEN {} ELSE @]
    PROVE  Kept(t, u)
<1>1. s.substreams \subseteq Streams /\ s.proto_streams \in [Protos -> SUBSET Streams]
      /\ \A j \in Streams : u[j].proto \in Protos
    BY DEF SessionType, SubstreamType
<1>2. ASSUME ~t.closed, NEW j \in t.substreams
      PROVE  t.proto_streams[u[j].proto] = {j}
    <2>1. s.proto_streams[u[j].proto] = {j} /\ j # i /\ j \in Streams
        BY <1>1, <1>2 DEF Kept
    <2>2. i \in s.substreams => u[j].proto # u[i].proto
        BY <1>2, <2>1 DEF Kept
    <2> QED
        BY <1>1, <2>1, <2>2
<1> QED
    BY <1>2 DEF Kept

-----------------------------------------------------------------------------
(***************************************************************************)
(* The steps                                                               *)
(***************************************************************************)

\* Init
LEMMA InitInductive == Init => Inductive
<1> SUFFICES ASSUME Init PROVE Inductive
    OBVIOUS
<1>1. (CHOOSE p \in Protos : TRUE) \in Protos
    BY SessionAssumption
<1>2. \A i \in Streams : sub[i] \in SubstreamType /\ sub[i].life = "none" /\ sub[i].closing = 0
    BY <1>1 DEF Init, NoStream, SubstreamType
<1>3. ses \in SessionType
    <2>1. 0 \in 0..MaxStreams
        BY SessionAssumption
    <2> QED
        BY <2>1 DEF Init, SessionType, SessionState
<1>4. net \in NetType
    <2>1. PICK opening \in [Protos -> BOOLEAN] :
             net = [mux |-> "up", full |-> {}, opening |-> opening, timer |-> TRUE]
        BY Zenon DEF Init
    <2> QED
        BY <2>1 DEF NetType
<1>5. sub \in [Streams -> SubstreamType]
    BY <1>2 DEF Init
<1>6. TypeOK
    <2>1. svc \in ServiceType /\ handles \subseteq Exclusive
        BY DEF Init, ServiceType
    <2> QED
        BY <1>3, <1>4, <1>5, <2>1 DEF TypeOK, ServiceType
<1>7. ses.substreams = {}
    BY DEF Init
<1>8. Kept(ses, sub)
    BY <1>2, <1>7 DEF Kept
<1> QED
    BY <1>6, <1>8 DEF Init, Inductive, Heard, Told

\* What a poll that ends with registers s and u has to show.
LEMMA PollInductive ==
    ASSUME Inductive, Polled, NEW s \in SessionType, NEW u \in [Streams -> SubstreamType],
           Kept(s, u), s.closed = ses.closed, ~s.done, EndPoll(s, u),
           net' \in NetType, UNCHANGED handles
    PROVE  Inductive'
<1>1. svc \in ServiceType /\ Heard(s, svc)
    BY DEF Inductive, TypeOK, ServiceType, Heard
<1> QED
    BY <1>1, EndOfPoll DEF Inductive, TypeOK, ServiceType

\* The polls that change no more than the state before they end.
LEMMA StateInductive ==
    ASSUME Inductive, Polled, NEW x \in SessionState, EndPoll([ses EXCEPT !.state = x], sub),
           net' \in NetType, UNCHANGED handles
    PROVE  Inductive'
<1>1. PICK s \in SessionType : s = [ses EXCEPT !.state = x]
    BY DEF Inductive, TypeOK, SessionType
<1>2. /\ s.closed = ses.closed /\ s.next_stream = ses.next_stream /\ ~s.done
      /\ s.substreams = ses.substreams /\ s.proto_streams = ses.proto_streams
    BY <1>1 DEF Inductive, TypeOK, SessionType, Polled
<1>3. Kept(s, sub)
    BY <1>2, SameKept DEF Inductive, TypeOK
<1> QED
    BY <1>1, <1>2, <1>3, PollInductive DEF Inductive, TypeOK

\* The polls that handle a negotiation that has ended.
LEMMA NegotiatedInductive ==
    ASSUME Inductive, NEW p \in Protos, open_protocol(p) \/ SelectError(p) \/ UnknownName(p)
    PROVE  Inductive'
<1>1. Polled /\ UNCHANGED handles
    BY DEF open_protocol, SelectError, UnknownName, Negotiated
<1>2. net' \in NetType
    <2>1. net \in NetType /\ net' = [net EXCEPT !.opening[p] = FALSE]
        BY DEF Inductive, TypeOK, open_protocol, SelectError, UnknownName, Negotiated
    <2> QED
        BY <2>1 DEF NetType
<1>3. ASSUME EndPoll(ses, sub) PROVE Inductive'
    BY <1>1, <1>2, <1>3, PollInductive DEF Inductive, TypeOK, Polled
<1>4. ASSUME UnknownName(p) PROVE Inductive'
    BY <1>1, <1>2, <1>4, StateInductive DEF UnknownName, SessionState
<1>5. ASSUME open_protocol(p), ~EndPoll(ses, sub) PROVE Inductive'
    <2> DEFINE n == ses.next_stream
    <2>1. /\ ses.proto_streams[p] = {} /\ n < MaxStreams
          /\ EndPoll([ses EXCEPT !.substreams = @ \cup {n}, !.proto_streams[p] = {n},
                                 !.next_stream = @ + 1],
                     [sub EXCEPT ![n] = [NoStream(p) EXCEPT !.life = "run"]])
        BY <1>5 DEF open_protocol
    <2>2. ses \in SessionType /\ sub \in [Streams -> SubstreamType] /\ Kept(ses, sub)
        BY DEF Inductive, TypeOK
    <2>3. n \in Streams /\ n + 1 \in 0..MaxStreams
        BY <2>1, <2>2, SessionAssumption DEF SessionType, Streams
    <2>4. PICK t \in SessionType :
             t = [ses EXCEPT !.substreams = @ \cup {n}, !.proto_streams[p] = {n},
                             !.next_stream = @ + 1]
        BY <2>2, <2>3 DEF SessionType
    <2>5. /\ t.closed = ses.closed /\ t.next_stream = n + 1 /\ t.done = ses.done
          /\ t.substreams = ses.substreams \cup {n}
          /\ t.proto_streams = [ses.proto_streams EXCEPT ![p] = {n}]
        BY <2>2, <2>4 DEF SessionType
    <2>6. [NoStream(p) EXCEPT !.life = "run"] \in SubstreamType
        BY NewStream
    <2>7. PICK w \in [Streams -> SubstreamType] :
             w = [sub EXCEPT ![n] = [NoStream(p) EXCEPT !.life = "run"]]
        BY <2>2, <2>3, <2>6
    <2>8. Kept(t, w)
        BY <2>1, <2>2, <2>5, <2>7, OpenKept
    <2> QED
        BY <1>1, <1>2, <2>1, <2>4, <2>5, <2>7, <2>8, PollInductive DEF Polled
<1> QED
    BY <1>3, <1>4, <1>5 DEF SelectError

\* The poll that handles a Close from a stream.
LEMMA StreamClosedInductive ==
    ASSUME Inductive, NEW i \in Streams, StreamClosed(i)
    PROVE  Inductive'
<1> DEFINE v == [sub[i] EXCEPT !.closing = @ - 1]
<1>1. ses \in SessionType /\ sub \in [Streams -> SubstreamType] /\ Kept(ses, sub)
      /\ sub[i] \in SubstreamType /\ sub[i].closing > 0 /\ Polled /\ net \in NetType
    BY DEF Inductive, TypeOK, StreamClosed
<1>2. sub[i].dead
    BY <1>1 DEF Kept
<1>3. /\ v \in SubstreamType /\ v.proto = sub[i].proto /\ v.life = sub[i].life
      /\ v.dead = sub[i].dead /\ v.closing = sub[i].closing - 1
    BY <1>1 DEF SubstreamType
<1>4. PICK w \in [Streams -> SubstreamType] : w = [sub EXCEPT ![i] = v]
    BY <1>1, <1>3
<1>5. Kept(ses, w) /\ w[i].dead /\ w[i].proto = sub[i].proto
    <2>1. w[i] = v
        BY <1>1, <1>4
    <2>2. sub[i].life = "run" => sub[i].closing < 2
        BY <1>1 DEF Kept
    <2>3. v.life = "run" => v.closing < 2
        BY <1>1, <1>3, <2>2 DEF SubstreamType
    <2>4. Kept(ses, w)
        BY <1>1, <1>2, <1>3, <1>4, <2>3, StreamKept
    <2> QED
        BY <1>2, <1>3, <2>1, <2>4
<1>6. PICK t \in SessionType :
         t = [ses EXCEPT !.substreams = @ \ {i},
                         !.proto_streams[sub[i].proto] = IF i \in ses.substreams THEN {} ELSE @]
    <2>1. sub[i].proto \in Protos
        BY <1>1 DEF SubstreamType
    <2> QED
        BY <1>1, <2>1 DEF SessionType
<1>7. /\ t.closed = ses.closed /\ t.next_stream = ses.next_stream /\ t.done = ses.done
      /\ t.substreams = ses.substreams \ {i}
      /\ t.proto_streams = [ses.proto_streams EXCEPT
                               ![sub[i].proto] = IF i \in ses.substreams THEN {} ELSE @]
    BY <1>1, <1>6 DEF SessionType
<1>8. Kept(t, w)
    BY <1>1, <1>5, <1>7, ForgetKept, SMTT(40)
<1>9. EndPoll(t, w) /\ UNCHANGED <<net, handles>>
    BY <1>4, <1>6 DEF StreamClosed
<1> QED
    BY <1>1, <1>4, <1>6, <1>7, <1>8, <1>9, PollInductive DEF Polled

\* The polls that only look at the state, the timer or the channels.
LEMMA StatePollsInductive ==
    ASSUME Inductive, FlushFailed \/ PollAgain \/ TimeoutCheck \/ ChangeState
    PROVE  Inductive'
<1>1. net \in NetType /\ ses \in SessionType /\ ses.state \in SessionState
    BY DEF Inductive, TypeOK, SessionType
<1>2. ses = [ses EXCEPT !.state = ses.state]
    BY <1>1 DEF SessionType
<1>3. CASE FlushFailed
    BY <1>1, <1>3, StateInductive DEF FlushFailed, SessionState
<1>4. CASE PollAgain
    BY <1>1, <1>2, <1>4, StateInductive DEF PollAgain
<1>5. CASE TimeoutCheck
    <2>1. net' \in NetType
        BY <1>1, <1>5 DEF TimeoutCheck, NetType
    <2>2. PICK x \in SessionState : x = IF ses.substreams = {} THEN "LocalClose" ELSE ses.state
        BY <1>1 DEF SessionState
    <2> QED
        BY <1>5, <2>1, <2>2, StateInductive DEF TimeoutCheck
<1>6. CASE ChangeState
    <2>1. net' \in NetType
        BY <1>1, <1>6 DEF ChangeState, NetType
    <2>2. PICK x \in SessionState : x = IF ses.state = "Normal" THEN net.mux ELSE ses.state
        BY <1>1, <1>6 DEF SessionState, ChangeState
    <2> QED
        BY <1>6, <2>1, <2>2, StateInductive DEF ChangeState
<1> QED
    BY <1>3, <1>4, <1>5, <1>6

\* The poll that finds the end of a channel ends as if it had not cleaned up first.
LEMMA ChannelEndsInductive ==
    ASSUME Inductive, ChannelEnds
    PROVE  Inductive'
<1> DEFINE s == [ses EXCEPT !.state = "LocalClose"]
           c == [clean(ses) EXCEPT !.state = "LocalClose"]
           none == [p \in Protos |-> {}]
<1>1. ses \in SessionType
    BY DEF Inductive, TypeOK
<1>2. s.state = "LocalClose" /\ c.state = "LocalClose"
    BY <1>1 DEF clean, SessionType
<1>3. /\ close_session(wait_handle_poll([c EXCEPT !.proto_streams = none]))
      /\ sub' = sub
    BY <1>2 DEF ChannelEnds, EndPoll
<1>4. clean(wait_handle_poll([c EXCEPT !.proto_streams = none]))
        = clean(wait_handle_poll([s EXCEPT !.proto_streams = none]))
    BY <1>1 DEF clean, wait_handle_poll, SessionType
<1>5. EndPoll(s, sub)
    BY <1>2, <1>3, <1>4 DEF EndPoll, close_session
<1> QED
    BY <1>5, StateInductive DEF ChannelEnds, SessionState, Inductive, TypeOK

\* SessionClose: a session without streams is closed at once, another one with its streams.
LEMMA SessionCloseInductive ==
    ASSUME Inductive, SessionClose
    PROVE  Inductive'
<1>1. /\ ses \in SessionType /\ sub \in [Streams -> SubstreamType] /\ svc \in ServiceType
      /\ Kept(ses, sub) /\ UNCHANGED <<net, handles>>
    BY DEF Inductive, TypeOK, ServiceType, SessionClose
<1>2. CASE close_session(ses) /\ UNCHANGED sub
    BY <1>1, <1>2, CloseSession DEF Inductive, TypeOK, ServiceType
<1>3. CASE EndPoll([ses EXCEPT !.state = "LocalClose", !.closed = TRUE], CloseStreams(ses, sub))
    <2>1. PICK t \in SessionType : t = [ses EXCEPT !.state = "LocalClose", !.closed = TRUE]
        BY <1>1 DEF SessionType, SessionState
    <2>2. /\ t.closed /\ t.next_stream = ses.next_stream /\ t.substreams = ses.substreams
          /\ t.done = ses.done
        BY <1>1, <2>1 DEF SessionType
    <2>3. PICK w \in [Streams -> SubstreamType] : w = CloseStreams(ses, sub) /\ Kept(ses, w)
        BY <1>1, CloseStreamsKept
    <2>4. Kept(t, w)
        BY <1>1, <2>2, <2>3, ClosedKept
    <2>5. Heard(t, svc) /\ ~t.done /\ EndPoll(t, w)
        BY <1>3, <2>1, <2>2, <2>3 DEF Heard, SessionClose, FromService, Polled
    <2> QED
        BY <1>1, <2>4, <2>5, EndOfPoll DEF Inductive, TypeOK, ServiceType
<1> QED
    BY <1>2, <1>3 DEF SessionClose

\* The steps of a stream.
LEMMA SubstreamInductive ==
    ASSUME Inductive, NEW i \in Streams,
           \/ Finish(i) \/ FlushError(i) \/ BrokenPipe(i) \/ CodecError(i) \/ Dies(i)
           \/ recv_event(i)
    PROVE  Inductive'
<1>1. /\ ses \in SessionType /\ sub \in [Streams -> SubstreamType] /\ sub[i] \in SubstreamType
      /\ Kept(ses, sub) /\ sub[i].life = "run" /\ sub[i].closing < 2
      /\ ~sub[i].dead => sub[i].closing = 0
    <2>1. sub[i].life = "run"
        BY DEF Finish, FlushError, BrokenPipe, CodecError, Dies, recv_event, Healthy, Running
    <2>2. sub[i].closing \in 0..2 /\ Kept(ses, sub)
        BY DEF Inductive, TypeOK, SubstreamType
    <2> QED
        BY <2>1, <2>2 DEF Inductive, TypeOK, Kept
<1>2. UNCHANGED <<ses, net, svc, handles>>
    BY DEF Finish, FlushError, BrokenPipe, CodecError, Dies, recv_event
<1>3. ASSUME NEW v \in SubstreamType, sub' = [sub EXCEPT ![i] = v], v.proto = sub[i].proto,
             v.dead, v.life = "run" => v.closing < 2
      PROVE  Inductive'
    <2>1. sub' \in [Streams -> SubstreamType] /\ Kept(ses, sub')
        BY <1>1, <1>3, StreamKept
    <2>2. Kept(ses', sub') /\ Heard(ses', svc') /\ Told(ses', svc')
        BY <1>2, <2>1 DEF Inductive
    <2> QED
        BY <1>2, <2>1, <2>2 DEF Inductive, TypeOK
<1>4. PICK k \in SubstreamType : k = close_proto_stream(sub[i])
    <2>1. sub[i].closing \in 0..2
        BY <1>1 DEF SubstreamType
    <2>2. PICK c \in 0..2 : c = IF ses.closed THEN sub[i].closing ELSE sub[i].closing + 1
        BY <1>1, <2>1
    <2>3. close_proto_stream(sub[i]) = [sub[i] EXCEPT !.closing = c]
        BY <2>2 DEF close_proto_stream
    <2> QED
        BY <1>1, <2>3 DEF SubstreamType
<1>5. k.proto = sub[i].proto /\ (~sub[i].dead => k.closing < 2)
    BY <1>1, <1>4 DEF close_proto_stream, SubstreamType
<1>6. ASSUME NEW x \in SubstreamType
      PROVE  /\ Ended(x) \in SubstreamType /\ Ended(x).proto = x.proto /\ Ended(x).dead
             /\ Ended(x).life = "done"
    BY <1>6 DEF Ended, SubstreamType
<1>7. CASE Finish(i) \/ FlushError(i)
    BY <1>3, <1>4, <1>5, <1>6, <1>7 DEF Finish, FlushError
<1>8. CASE BrokenPipe(i)
    BY <1>1, <1>3, <1>6, <1>8 DEF BrokenPipe
<1>9. CASE CodecError(i)
    <2>1. PICK v \in SubstreamType : v = [k EXCEPT !.dead = TRUE]
        BY DEF SubstreamType
    <2>2. v.dead /\ v.proto = k.proto /\ v.closing = k.closing
        BY <2>1 DEF SubstreamType
    <2>3. sub' = [sub EXCEPT ![i] = v] /\ ~sub[i].dead
        BY <1>4, <1>9, <2>1 DEF CodecError, Healthy
    <2> QED
        BY <1>3, <1>5, <2>2, <2>3
<1>10. CASE Dies(i) \/ recv_event(i)
    <2>1. PICK v \in SubstreamType : v = [sub[i] EXCEPT !.dead = TRUE]
        BY <1>1 DEF SubstreamType
    <2>2. v.dead /\ v.proto = sub[i].proto /\ v.closing = sub[i].closing
        BY <1>1, <2>1 DEF SubstreamType
    <2>3. sub' = [sub EXCEPT ![i] = v]
        BY <1>10, <2>1 DEF Dies, recv_event
    <2> QED
        BY <1>1, <1>3, <2>2, <2>3
<1> QED
    BY <1>7, <1>8, <1>9, <1>10

\* The steps of others, and the two that leave the registers alone.
LEMMA OthersInductive ==
    ASSUME Inductive,
           \/ LocalCloseFound \/ session_close \/ QuickShutdown
           \/ \E p \in Protos : ProtocolOpen(p) \/ ProtocolClose(p) \/ HandlerEnds(p)
           \/ \E state \in {"RemoteClose", "Abnormal"} : MuxEnds(state)
           \/ \E i \in Streams : WriteBlocked(i) \/ WriteResumed(i)
    PROVE  Inductive'
<1>1. /\ ses \in SessionType /\ sub \in [Streams -> SubstreamType] /\ svc \in ServiceType
      /\ net \in NetType /\ handles \subseteq Exclusive
      /\ Kept(ses, sub) /\ Heard(ses, svc) /\ Told(ses, svc)
    BY DEF Inductive, TypeOK, ServiceType
<1>2. CASE LocalCloseFound
    <2>1. /\ ses' \in SessionType /\ ses'.closed = ses.closed /\ ses'.state = ses.state
          /\ ses'.next_stream = ses.next_stream /\ ses'.substreams = ses.substreams
          /\ ses'.proto_streams = ses.proto_streams
        BY <1>1, <1>2 DEF LocalCloseFound, SessionType
    <2>2. UNCHANGED <<sub, net, svc, handles>> /\ ses.state = "LocalClose"
        BY <1>2 DEF LocalCloseFound
    <2>3. Kept(ses', sub)
        BY <1>1, <2>1, SameKept
    <2>4. Heard(ses', svc) /\ Told(ses', svc)
        BY <1>1, <2>1, <2>2 DEF Heard, Told
    <2> QED
        BY <1>1, <2>1, <2>2, <2>3, <2>4 DEF Inductive, TypeOK, ServiceType
<1>3. CASE session_close \/ QuickShutdown
    <2>1. svc' \in ServiceType
        <3>1. PICK x \in {"open", "closed", "gone"} : svc' = [session |-> x, closing |-> FALSE]
            <4>1. svc.session \in {"open", "closed", "gone"}
                BY <1>1 DEF ServiceType
            <4> QED
                BY <1>3, <4>1 DEF session_close, QuickShutdown
        <3> QED
            BY <3>1 DEF ServiceType
    <2>2. Heard(ses, svc') /\ Told(ses, svc')
        BY <1>1, <1>3 DEF session_close, QuickShutdown, Heard, Told, ServiceType
    <2> QED
        BY <1>1, <1>3, <2>1, <2>2
        DEF session_close, QuickShutdown, Inductive, TypeOK, ServiceType
<1>4. ASSUME NEW p \in Protos, ProtocolClose(p) PROVE Inductive'
    <2>1. ASSUME NEW i \in Streams
          PROVE  /\ sub'[i] \in SubstreamType
                 /\ sub'[i].proto = sub[i].proto /\ sub'[i].life = sub[i].life
                 /\ sub'[i].dead = sub[i].dead /\ sub'[i].closing = sub[i].closing
        <3>1. sub[i] \in SubstreamType
            BY <1>1
        <3>2. PICK b \in BOOLEAN :
                 b = (sub[i].inbox \/ i \in ses.proto_streams[p] \cap ses.substreams)
            OBVIOUS
        <3>3. sub'[i] = [sub[i] EXCEPT !.inbox = b]
            BY <1>4, <3>2 DEF ProtocolClose
        <3> QED
            BY <3>1, <3>3 DEF SubstreamType
    <2>2. sub' \in [Streams -> SubstreamType]
        BY <1>4, <2>1 DEF ProtocolClose
    <2>3. Kept(ses, sub')
        BY <1>1, <2>1, <2>2, InboxKept
    <2> QED
        BY <1>1, <1>4, <2>2, <2>3 DEF ProtocolClose, Inductive, TypeOK, ServiceType
<1>5. ASSUME NEW p \in Protos, ProtocolOpen(p) PROVE Inductive'
    <2>1. net' \in NetType
        BY <1>1, <1>5 DEF ProtocolOpen, NetType
    <2> QED
        BY <1>1, <1>5, <2>1 DEF ProtocolOpen, Inductive, TypeOK, ServiceType
<1>6. ASSUME NEW p \in Protos, HandlerEnds(p) PROVE Inductive'
    BY <1>1, <1>6 DEF HandlerEnds, Inductive, TypeOK, ServiceType
<1>7. ASSUME NEW state \in {"RemoteClose", "Abnormal"}, MuxEnds(state) PROVE Inductive'
    <2>1. net' \in NetType
        BY <1>1, <1>7 DEF MuxEnds, NetType
    <2> QED
        BY <1>1, <1>7, <2>1 DEF MuxEnds, Inductive, TypeOK, ServiceType
<1>8. ASSUME NEW i \in Streams, WriteBlocked(i) \/ WriteResumed(i) PROVE Inductive'
    <2>1. net' \in NetType
        BY <1>1, <1>8 DEF WriteBlocked, WriteResumed, NetType
    <2> QED
        BY <1>1, <1>8, <2>1 DEF WriteBlocked, WriteResumed, Inductive, TypeOK, ServiceType
<1> QED
    BY <1>2, <1>3, <1>4, <1>5, <1>6, <1>7, <1>8

\* Every step keeps the invariant.
LEMMA NextInductive == Inductive /\ [Next]_vars => Inductive'
<1> SUFFICES ASSUME Inductive, [Next]_vars PROVE Inductive'
    OBVIOUS
<1>1. CASE UNCHANGED vars
    BY <1>1 DEF vars, Inductive, TypeOK, Kept, Heard, Told, Healthy, Running
<1>2. CASE Next
    BY <1>2, NegotiatedInductive, StreamClosedInductive, StatePollsInductive,
       ChannelEndsInductive, SessionCloseInductive, SubstreamInductive, OthersInductive
    DEF Next
<1> QED
    BY <1>1, <1>2

\* The invariant that the theorems rest on holds always.
THEOREM SessionInductive == Spec => []Inductive
BY InitInductive, NextInductive, PTL DEF Spec

\* Types: in particular no stream has more than two Close events on their way
\* (close_proto_stream).
THEOREM SessionTypes == Spec => []TypeOK
<1>1. Inductive => TypeOK
    BY DEF Inductive
<1> QED
    BY <1>1, SessionInductive, PTL

\* While the session is open a healthy stream is the one its protocol names, for any number
\* of protocols and of streams opened and closed before it (open_protocol,
\* handle_stream_event).
THEOREM HealthyIsRegistered == Spec => []Registered
<1>1. Inductive => Registered
    BY DEF Inductive, Kept, Registered, Healthy, Running
<1> QED
    BY <1>1, SessionInductive, PTL

\* No session task ends unreported, and no session is reported that is not closed
\* (close_session, poll_next, session_close).
THEOREM SessionEndIsReported == Spec => []EndIsReported
<1>1. Inductive => EndIsReported
    BY DEF Inductive, Heard, Told, EndIsReported
<1> QED
    BY <1>1, SessionInductive, PTL
=============================================================================
