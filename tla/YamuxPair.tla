----------------------------- MODULE YamuxPair -----------------------------
(***************************************************************************)
(* The two StreamHandles of one yamux substream.  The two sessions between *)
(* them are abstracted to what they promise a stream: a FIFO pipe in each  *)
(* direction which may be cut, losing a suffix of what is in flight        *)
(* (GoAway, EOF, a dropped session), but never reorders or drops a frame   *)
(* in the middle.  Yamux.tla models the sessions themselves.               *)
(***************************************************************************)
EXTENDS YamuxStream

CONSTANTS StreamId,           \* the id the opener's session chose
          OpenerMaxWindow,    \* max_stream_window_size of the opener's config
          AcceptorMaxWindow,  \* ... and of the acceptor's
          OpenerBytes,        \* bound: bytes the opener writes
          AcceptorBytes,      \* ... and the acceptor
          MaxWrite,           \* bound: the largest buffer given to poll_write
          MaxPipe             \* bound: poll_write stops at so many frames in flight

ASSUME ConfigAssumption ==
    /\ StreamId \in Nat
    /\ OpenerMaxWindow \in InitialWindow..U32Max
    /\ AcceptorMaxWindow \in InitialWindow..U32Max
    /\ OpenerBytes \in Nat /\ AcceptorBytes \in Nat
    /\ MaxWrite \in Nat /\ MaxPipe \in Nat

VARIABLES h,        \* h[e]: the handle at end e
          life,     \* life[e]: does that handle exist?
          pipe,     \* pipe[e]: the frames on their way to e
          cut,      \* cut[e]: no further frame will be added to pipe[e]
          dropped,  \* dropped[e]: e's Session was dropped, both channels are closed
          failed    \* failed[e]: e's handle asked for GoAway(ProtocolError)

vars == <<h, life, pipe, cut, dropped, failed>>

End == {"opener", "acceptor"}

Peer(e) == IF e = "opener" THEN "acceptor" ELSE "opener"

max_window_size(e) == IF e = "opener" THEN OpenerMaxWindow ELSE AcceptorMaxWindow

MaxBytes(e) == IF e = "opener" THEN OpenerBytes ELSE AcceptorBytes

Init ==
    /\ h = [e \in End |-> NewHandle(StreamId, "Init", max_window_size(e))]
    /\ life = [e \in End |-> "none"]
    /\ pipe = [e \in End |-> <<>>]
    /\ cut = [e \in End |-> FALSE]
    /\ dropped = [e \in End |-> FALSE]
    /\ failed = [e \in End |-> FALSE]

-----------------------------------------------------------------------------
(***************************************************************************)
(* A frame reaches a handle unless the way is cut, the handle is gone, or  *)
(* it is Closed: its session then has no entry for it, or it never reads.  *)
(***************************************************************************)
Takes(e) == ~cut[e] /\ life[e] # "gone" /\ h[e].state # "Closed"

Arrive(e, frames) == IF Takes(e) THEN pipe[e] \o frames ELSE pipe[e]

\* End e does what a StreamHandle method does; `rest' stays in its own pipe.
Does(e, outcome, rest) ==
    /\ h' = [h EXCEPT ![e] = outcome.h]
    /\ pipe' = [pipe EXCEPT ![e] = IF outcome.h.state = "Closed" THEN <<>> ELSE rest,
                            ![Peer(e)] = Arrive(Peer(e), outcome.frames)]
    /\ failed' = [failed EXCEPT ![e] = @ \/ outcome.event = "GoAway"]
    /\ UNCHANGED <<cut, dropped>>

\* Session::open_stream: create_stream(None) and the SYN it queues.
Open ==
    /\ life["opener"] = "none" /\ ~dropped["opener"]
    /\ life' = [life EXCEPT !["opener"] = "live"]
    /\ Does("opener",
            send_window_update(NewHandle(StreamId, "Init", OpenerMaxWindow)),
            pipe["opener"])

\* The acceptor's session creates the stream; the SYN frame itself is then
\* delivered to the new handle, which takes its credit from it.
Accept ==
    /\ life["acceptor"] = "none" /\ ~dropped["acceptor"] /\ pipe["acceptor"] # <<>>
    /\ "Syn" \in Head(pipe["acceptor"]).flags
    /\ life' = [life EXCEPT !["acceptor"] = "live"]
    /\ Does("acceptor",
            send_window_update(NewHandle(StreamId, "SynReceived", AcceptorMaxWindow)),
            pipe["acceptor"])

\* The acceptor's session is going away or at a limit: it answers RST and never
\* has an entry for the stream.
Reject ==
    /\ life["acceptor"] = "none" /\ ~dropped["acceptor"] /\ pipe["acceptor"] # <<>>
    /\ "Syn" \in Head(pipe["acceptor"]).flags
    /\ life' = [life EXCEPT !["acceptor"] = "gone"]
    /\ \E flags \in {{"Rst"}, {"Ack", "Rst"}} :
          Does("acceptor",
               Outcome(h["acceptor"],
                       <<new_window_update(flags, StreamId, 0,
                             h["acceptor"].rcvd + h["acceptor"].recv_window)>>, "None"),
               <<>>)

\* One turn of recv_frames: the next frame is handled.
RecvFrame(e) ==
    /\ life[e] = "live" /\ CanRecv(h[e]) /\ pipe[e] # <<>>
    /\ Does(e, handle_frame(h[e], Head(pipe[e])), Tail(pipe[e]))
    /\ UNCHANGED life

\* recv_frames finds the channel disconnected: the session is gone.
RecvEnd(e) ==
    /\ life[e] = "live" /\ CanRecv(h[e]) /\ pipe[e] = <<>> /\ dropped[e]
    /\ Does(e, Disconnected(h[e]), <<>>)
    /\ UNCHANGED life

\* poll_read hands out n of the buffered bytes.
Read(e, n) ==
    /\ life[e] = "live" /\ n <= h[e].read_buf
    /\ Does(e, poll_read(h[e], n), pipe[e])
    /\ UNCHANGED life

Min(a, b) == IF a <= b THEN a ELSE b

\* poll_write of a buffer of w bytes (w = 0 sends an empty frame).
Write(e, w) ==
    /\ life[e] = "live" /\ ~dropped[e]
    /\ h[e].state \in WritableStates /\ h[e].send_window > 0
    /\ h[e].sent + w <= MaxBytes(e) /\ Len(pipe[Peer(e)]) < MaxPipe
    /\ Does(e, poll_write(h[e], Min(h[e].send_window, w)), pipe[e])
    /\ UNCHANGED life

WriteBroken(e) ==
    /\ life[e] = "live" /\ dropped[e]
    /\ h[e].state \in WritableStates /\ h[e].send_window > 0
    /\ Does(e, PollWriteBroken(h[e]), pipe[e])
    /\ UNCHANGED life

WritePending(e) ==
    /\ life[e] = "live"
    /\ h[e].state \in WritableStates /\ h[e].send_window = 0
    /\ Does(e, PollWritePending(h[e]), pipe[e])
    /\ UNCHANGED life

Shutdown(e) ==
    /\ life[e] = "live"
    /\ Does(e, close(h[e]), pipe[e])
    /\ UNCHANGED life

DropHandle(e) ==
    /\ life[e] = "live"
    /\ life' = [life EXCEPT ![e] = "gone"]
    /\ Does(e, IF dropped[e] THEN Outcome(h[e], <<>>, "None") ELSE drop(h[e]), <<>>)

\* What the sessions may do to the stream: the ends in c get no more frames,
\* and only the first i (j) of those in flight to the opener (acceptor).
Cut(c, i, j) ==
    /\ pipe' = [e \in End |->
                   IF e \in c THEN SubSeq(pipe[e], 1, IF e = "opener" THEN i ELSE j)
                              ELSE pipe[e]]
    /\ cut' = [e \in End |-> cut[e] \/ e \in c]

\* A GoAway was sent or a session died, and with it the frames it still held.
Lose(c, i, j) ==
    /\ Cut(c, i, j)
    /\ UNCHANGED <<h, life, dropped, failed>>

\* Session e is dropped: its streams' channels are closed.
DropSession(e, i, j) ==
    /\ ~dropped[e]
    /\ dropped' = [dropped EXCEPT ![e] = TRUE]
    /\ Cut(End, i, j)
    /\ UNCHANGED <<h, life, failed>>

SessionFails ==
    \E i \in 0..Len(pipe["opener"]), j \in 0..Len(pipe["acceptor"]) :
        \/ \E c \in (SUBSET End) \ {{}} : Lose(c, i, j)
        \/ \E e \in End : DropSession(e, i, j)

HandleStep(e) ==
    \/ RecvFrame(e) \/ RecvEnd(e)
    \/ \E n \in 1..h[e].read_buf : Read(e, n)
    \/ \E w \in 0..MaxWrite : Write(e, w)
    \/ WriteBroken(e) \/ WritePending(e) \/ Shutdown(e) \/ DropHandle(e)

Next == Open \/ Accept \/ Reject \/ (\E e \in End : HandleStep(e)) \/ SessionFails

Spec == Init /\ [][Next]_vars

(***************************************************************************)
(* Both applications keep reading: a reader is woken by the channel and    *)
(* polled again by the executor, and tentacle's substream reads in a loop. *)
(* Nobody is obliged to write, to close or to fail.                        *)
(***************************************************************************)
Reads(e) == RecvFrame(e) \/ RecvEnd(e) \/ \E n \in 1..h[e].read_buf : Read(e, n)

Fairness == /\ WF_vars(Accept \/ Reject)
            /\ \A e \in End : WF_vars(Reads(e))

FairSpec == Spec /\ Fairness
-----------------------------------------------------------------------------
(***************************************************************************)
(* Properties                                                              *)
(***************************************************************************)
TypeOK ==
    /\ h \in [End -> StreamHandle]
    /\ life \in [End -> {"none", "live", "gone"}]
    /\ pipe \in [End -> Seq(Frame)]
    /\ cut \in [End -> BOOLEAN]
    /\ dropped \in [End -> BOOLEAN]
    /\ failed \in [End -> BOOLEAN]

\* The u32 subtraction of send_window_update never underflows: what is buffered
\* and what is granted fit in the maximum; and no writer holds more credit than
\* the other side's maximum, so checked_add cannot fail.
WindowSafe ==
    \A e \in End : /\ h[e].recv_window + h[e].read_buf <= max_window_size(e)
                   /\ h[e].send_window <= max_window_size(Peer(e))

\* Two conforming ends never make each other send GoAway(ProtocolError): no
\* RecvWindowExceeded, no window overflow, no unexpected flag, in any interleaving
\* of reads, writes, half-closes, drops and session failures.
NoProtocolError == \A e \in End : ~failed[e]

IsData(f) == f.ty = "Data"

\* Where a frame starts: the position of its first byte, or the credit before it.
Start(f) == f.upto - f.length

\* An end of file announced by FIN is never premature: when the FIN has been
\* processed every byte the peer ever wrote has been received, whatever happened to
\* the sessions, and nothing is written after it.
FinComplete == \A e \in End : h[e].fin => h[e].rcvd = h[Peer(e)].sent

\* No wakeup is lost: a writer whose waker is stored really has an empty window.
NoLostWakeup == \A e \in End : h[e].writeable_wake => h[e].send_window = 0

\* Credit once granted to a writer is never taken back, and the receiver's limit
\* never shrinks: both only grow, and the writer's stays below.
CreditGrows ==
    [][\A e \in End :
          /\ h'[e].sent + h'[e].send_window >= h[e].sent + h[e].send_window
          /\ h'[e].rcvd + h'[e].recv_window >= h[e].rcvd + h[e].recv_window
          /\ h'[e].sent + h'[e].send_window <= h'[Peer(e)].rcvd + h'[Peer(e)].recv_window
      ]_vars

(***************************************************************************)
(* The inductive invariant behind the safety properties.  Its parts speak  *)
(* of one end: its handle g, the frames q on their way to it, the handle r *)
(* of the other end.                                                       *)
(***************************************************************************)

\* g's credit, then the window updates in flight, then r's own limit: each starts
\* where the one before it ended or later.
CreditOK(g, q, r) ==
    /\ g.sent + g.send_window <= r.rcvd + r.recv_window
    /\ \A i \in 1..Len(q) :
          ~IsData(q[i]) => /\ g.sent + g.send_window <= Start(q[i])
                           /\ q[i].upto <= r.rcvd + r.recv_window
    /\ \A i, j \in 1..Len(q) :
          i < j /\ ~IsData(q[i]) /\ ~IsData(q[j]) => q[i].upto <= Start(q[j])

\* The bytes g has received, then the Data frames in flight, then what r has sent.
DataOK(g, q, r) ==
    /\ g.rcvd <= r.sent
    /\ \A i \in 1..Len(q) :
          IsData(q[i]) => g.rcvd <= Start(q[i]) /\ q[i].upto <= r.sent
    /\ \A i, j \in 1..Len(q) :
          i < j /\ IsData(q[i]) /\ IsData(q[j]) => q[i].upto <= Start(q[j])

\* No Data frame starts later than where its predecessor, or read_buf, ends.
NoGap(g, q) ==
    \A i \in 1..Len(q) :
        IsData(q[i]) => \/ Start(q[i]) = g.rcvd
                        \/ \E j \in 1..(i - 1) : IsData(q[j]) /\ q[j].upto = Start(q[i])

\* Bytes are delivered in order, none twice and none skipped: what the reader was
\* given, then read_buf, then the Data frames in flight, each where an earlier one
\* ends, and no two of them overlap.
InOrder == \A e \in End : /\ h[e].read + h[e].read_buf = h[e].rcvd
                          /\ DataOK(h[e], pipe[e], h[Peer(e)])
                          /\ NoGap(h[e], pipe[e])

\* The last byte r has sent before index i is received or in flight.
Complete(g, q, i, r) ==
    \/ g.rcvd = r.sent
    \/ \E j \in 1..(i - 1) : IsData(q[j]) /\ q[j].upto = r.sent

\* A FIN was processed by g or is on its way to it.
Announced(g, q) == g.fin \/ \E i \in 1..Len(q) : "Fin" \in q[i].flags

\* A FIN follows everything r has sent.
FinOK(g, q, r) ==
    /\ g.fin => g.rcvd = r.sent /\ g.state \notin ReadableStates
    /\ \A i \in 1..Len(q) :
          "Fin" \in q[i].flags => /\ Complete(g, q, i, r)
                                  /\ \A j \in (i + 1)..Len(q) : ~IsData(q[j])

\* End e will not send Data any more.
Finished(e) == \/ h[e].state \in {"LocalClosing", "Closed", "Reset"}
               \/ life[e] = "gone" \/ dropped[e]

HandleOK(e) ==
    /\ h[e].max_recv_window = max_window_size(e)
    /\ h[e].recv_window + h[e].read_buf <= max_window_size(e)
    /\ h[e].read + h[e].read_buf = h[e].rcvd
    /\ h[e].writeable_wake => h[e].send_window = 0
    /\ life[e] = "none" => h[e] = NewHandle(StreamId, "Init", max_window_size(e))
    /\ life[e] = "gone" \/ h[e].state = "Closed" => pipe[e] = <<>>
    /\ dropped[e] => cut[e] /\ cut[Peer(e)]
    /\ ~failed[e]

\* The strengthening of the invariants above that every step preserves.
Inductive ==
    /\ TypeOK
    /\ \A e \in End :
          /\ HandleOK(e)
          /\ CreditOK(h[e], pipe[e], h[Peer(e)])
          /\ DataOK(h[e], pipe[e], h[Peer(e)])
          /\ NoGap(h[e], pipe[e])
          /\ FinOK(h[e], pipe[e], h[Peer(e)])
          /\ Announced(h[e], pipe[e]) => Finished(Peer(e))
          /\ Takes(e) => Complete(h[e], pipe[e], Len(pipe[e]) + 1, h[Peer(e)])

\* What is written is received, as long as the receiver is there and readable and
\* the sessions hold.
Delivered ==
    \A e \in End : \A n \in 1..MaxBytes(e) :
        h[e].sent >= n ~>
            \/ h[Peer(e)].rcvd >= n
            \/ cut[Peer(e)]
            \/ life[Peer(e)] = "gone" \/ h[Peer(e)].state \notin ReadableStates

\* A writer with an empty window always gets credit again while both ends are open:
\* the updates that send_window_update omits never leave a writer stuck.
WriterUnblocked ==
    \A e \in End :
        h[e].writeable_wake ~>
            \/ ~h[e].writeable_wake
            \/ cut[e] \/ cut[Peer(e)]
            \/ life[e] = "gone" \/ life[Peer(e)] = "gone"
            \/ h[e].state \notin ReadableStates
            \/ h[Peer(e)].state \notin ReadableStates

(***************************************************************************)
(* Two things the repository says and the code does not do.                *)
(***************************************************************************)

\* error.rs: "Remote sub stream is closed, but local can still send data to remote".
\* A writer whose remote half-closed but keeps reading should get credit again.
HalfClosedWriterUnblocked ==
    \A e \in End :
        (h[e].writeable_wake /\ h[e].state = "RemoteClosing" /\ h[e].send_window = 0) ~>
            \/ h[e].send_window > 0
            \/ cut[e] \/ cut[Peer(e)]
            \/ life[e] = "gone" \/ life[Peer(e)] = "gone"
            \/ h[e].state # "RemoteClosing"
            \/ h[Peer(e)].state # "LocalClosing"

\* stream.rs, on frame_receiver: "if the sender closed means session closed the
\* stream should close too".  A writer parked when its session goes should be told.
ParkedWriterLearnsSessionEnd ==
    \A e \in End : (dropped[e] /\ h[e].writeable_wake) ~>
                       (~h[e].writeable_wake \/ life[e] = "gone"
                        \/ h[e].state \notin WritableStates)
=============================================================================
