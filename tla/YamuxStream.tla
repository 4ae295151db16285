---------------------------- MODULE YamuxStream ----------------------------
(***************************************************************************)
(* The yamux substream, tentacle/yamux/src/stream.rs: the fields of a      *)
(* StreamHandle and what each of its methods does to them and sends to the *)
(* session.  The module has no variables: YamuxPair and Yamux run these    *)
(* operators, one in an abstract and one in a concrete session.            *)
(*                                                                         *)
(* Payload bytes are abstracted to their position in the sender's byte     *)
(* stream.  Some fields are history, they exist in no Rust struct:         *)
(*   sent, rcvd  bytes accepted by poll_write / put into read_buf so far;  *)
(*   read        bytes handed out by poll_read so far;                     *)
(*   fin         a FIN of the peer has been processed;                     *)
(*   upto        (of a frame) for Data the position after its last byte,   *)
(*               for WindowUpdate the total credit its sender has granted, *)
(*               this update included.                                     *)
(***************************************************************************)
EXTENDS Integers, Sequences

CONSTANTS InitialWindow,   \* INITIAL_STREAM_WINDOW, which both sides assume
          U32Max           \* u32::MAX, the width of the window counters

ASSUME WindowAssumption ==
    InitialWindow \in Nat \ {0} /\ U32Max \in Nat /\ InitialWindow <= U32Max

Flag == {"Syn", "Ack", "Fin", "Rst"}

Frame == [ty : {"Data", "WindowUpdate"}, stream_id : Nat, flags : SUBSET Flag,
          length : Nat, upto : Nat]

new_data(flags, id, len, upto) ==
    [ty |-> "Data", stream_id |-> id, flags |-> flags, length |-> len, upto |-> upto]

new_window_update(flags, id, delta, upto) ==
    [ty |-> "WindowUpdate", stream_id |-> id, flags |-> flags, length |-> delta,
     upto |-> upto]

StreamState == {"Init", "SynSent", "SynReceived", "Established",
                "LocalClosing", "RemoteClosing", "Closed", "Reset"}

\* The states in which close() starts a half-close and a FIN half-closes.
OpenStates == {"Init", "SynSent", "SynReceived", "Established"}

\* recv_frames returns an error before it looks at the channel in the others.
ReadableStates == OpenStates \cup {"LocalClosing"}

\* poll_write refuses with BrokenPipe in the others.
WritableStates == OpenStates \cup {"RemoteClosing"}

StreamHandle ==
    [id : Nat, state : StreamState, max_recv_window : Nat,
     recv_window : Nat, send_window : Nat,
     read_buf : Nat,                \* read_buf.len()
     writeable_wake : BOOLEAN,      \* is a parked writer's waker stored?
     sent : Nat, rcvd : Nat, read : Nat, fin : BOOLEAN]

NewHandle(id, state, max_window_size) ==
    [id |-> id, state |-> state, max_recv_window |-> max_window_size,
     recv_window |-> InitialWindow, send_window |-> InitialWindow,
     read_buf |-> 0, writeable_wake |-> FALSE,
     sent |-> 0, rcvd |-> 0, read |-> 0, fin |-> FALSE]

(***************************************************************************)
(* What a method leaves behind: the handle, the frames it hands to the     *)
(* session and the event that follows them on the same channel.            *)
(***************************************************************************)
Outcome(h, frames, event) == [h |-> h, frames |-> frames, event |-> event]

get_flags(h) == CASE h.state = "Init"        -> {"Syn"}
                  [] h.state = "SynReceived" -> {"Ack"}
                  [] OTHER                   -> {}

\* get_flags also advances the state; this is the handle it leaves behind.
Flagged(h) == [h EXCEPT !.state = CASE @ = "Init"        -> "SynSent"
                                    [] @ = "SynReceived" -> "Established"
                                    [] OTHER             -> @]

(***************************************************************************)
(* send_window_update: the whole free part of the buffer is granted, but   *)
(* an update below half of the maximum is omitted unless flags ride on it. *)
(***************************************************************************)
delta(h) == h.max_recv_window - h.read_buf - h.recv_window

\* Mutant: the credit is announced but not added to our own window.
WindowUpdateNotBooked(h) ==
    IF delta(h) < h.max_recv_window \div 2 /\ get_flags(h) = {}
    THEN Outcome(Flagged(h), <<>>, "None")
    ELSE Outcome(Flagged(h),
                 <<new_window_update(get_flags(h), h.id, delta(h),
                                     h.rcvd + h.recv_window + delta(h))>>, "None")

\* Mutant: bytes still in read_buf are granted again.
WindowUpdateIgnoresBuffer(h) ==
    LET d == h.max_recv_window - h.recv_window IN
    IF d < h.max_recv_window \div 2 /\ get_flags(h) = {}
    THEN Outcome(Flagged(h), <<>>, "None")
    ELSE Outcome([Flagged(h) EXCEPT !.recv_window = @ + d],
                 <<new_window_update(get_flags(h), h.id, d,
                                     h.rcvd + h.recv_window + d)>>, "None")

\* Mutant: an update is omitted unless it is larger than the whole window.
WindowUpdateOmitted(h) ==
    IF delta(h) <= h.max_recv_window /\ get_flags(h) = {}
    THEN Outcome(Flagged(h), <<>>, "None")
    ELSE Outcome([Flagged(h) EXCEPT !.recv_window = @ + delta(h)],
                 <<new_window_update(get_flags(h), h.id, delta(h),
                                     h.rcvd + h.recv_window + delta(h))>>, "None")

send_window_update(h) ==
    IF delta(h) < h.max_recv_window \div 2 /\ get_flags(h) = {}
    THEN Outcome(Flagged(h), <<>>, "None")
    ELSE Outcome([Flagged(h) EXCEPT !.recv_window = @ + delta(h)],
                 <<new_window_update(get_flags(h), h.id, delta(h),
                                     h.rcvd + h.recv_window + delta(h))>>, "None")

-----------------------------------------------------------------------------
(***************************************************************************)
(* Receiving                                                               *)
(***************************************************************************)

\* process_flags fails (UnexpectedFlag).
UnexpectedFlag(state, flags) == "Fin" \in flags /\ state \notin ReadableStates

\* The state after process_flags: first Ack, then Fin, then Rst.
process_flags(state, flags) ==
    CASE "Rst" \in flags                                 -> "Reset"
      [] "Rst" \notin flags /\ "Fin" \in flags
                            /\ state = "LocalClosing"    -> "Closed"
      [] "Rst" \notin flags /\ "Fin" \in flags
                            /\ state # "LocalClosing"    -> "RemoteClosing"
      [] flags \cap {"Rst", "Fin"} = {} /\ "Ack" \in flags
                            /\ state = "SynSent"         -> "SynReceived"
      [] OTHER                                           -> state

\* The errors that make poll_read call send_go_away.
FrameError(h, f) ==
    \/ UnexpectedFlag(h.state, f.flags)
    \/ f.ty = "WindowUpdate" /\ h.send_window + f.length > U32Max   \* InvalidMsgType
    \/ f.ty = "Data" /\ f.length > h.recv_window                    \* RecvWindowExceeded

WithFlags(h, f) == [h EXCEPT !.state = process_flags(@, f.flags),
                             !.fin = @ \/ "Fin" \in f.flags]

\* Mutant: the parked writer's waker is kept instead of taken.
WindowUpdateKeepsWaker(h, f) ==
    [WithFlags(h, f) EXCEPT !.send_window = @ + f.length]

handle_window_update(h, f) ==
    [WithFlags(h, f) EXCEPT !.send_window = @ + f.length, !.writeable_wake = FALSE]

handle_data(h, f) ==
    [WithFlags(h, f) EXCEPT !.read_buf = f.length, !.rcvd = f.upto,
                            !.recv_window = @ - f.length]

(***************************************************************************)
(* One turn of the loop of recv_frames: a frame is taken from the channel. *)
(* On an error poll_read closes the handle and has the session send        *)
(* GoAway(ProtocolError).                                                  *)
(***************************************************************************)
handle_frame(h, f) ==
    IF FrameError(h, f)
    THEN Outcome([WithFlags(h, f) EXCEPT !.state = "LocalClosing"], <<>>, "GoAway")
    ELSE Outcome(IF f.ty = "Data" THEN handle_data(h, f) ELSE handle_window_update(h, f),
                 <<>>, "None")

\* Mutant: the loop goes on although read_buf still holds bytes.
CanRecvOverBuffer(h) == h.state \in ReadableStates

\* Mutant: a stream that was half-closed here no longer receives.
CanRecvUnlessClosing(h) == h.state \in OpenStates /\ h.read_buf = 0

CanRecv(h) == h.state \in ReadableStates /\ h.read_buf = 0

\* The channel from the session is disconnected: its sender was dropped.
Disconnected(h) == Outcome([h EXCEPT !.state = "RemoteClosing"], <<>>, "None")

(***************************************************************************)
(* The rest of poll_read: n bytes go to the caller and the window is       *)
(* reopened.                                                               *)
(***************************************************************************)
poll_read(h, n) ==
    LET g == [h EXCEPT !.read_buf = @ - n, !.read = @ + n] IN
    IF h.state \in {"RemoteClosing", "Closed", "Reset"}
    THEN Outcome(g, <<>>, "None")
    ELSE send_window_update(g)

-----------------------------------------------------------------------------
(***************************************************************************)
(* Sending                                                                 *)
(***************************************************************************)

\* Mutant: the window is not charged for what is sent.
WriteNotCharged(h, n) ==
    Outcome([Flagged(h) EXCEPT !.sent = @ + n],
            <<new_data(get_flags(h), h.id, n, h.sent + n)>>, "None")

\* Mutant: the window is charged for the header too.
WriteChargesHeader(h, n) ==
    Outcome([Flagged(h) EXCEPT !.send_window = @ - n - 1, !.sent = @ + n],
            <<new_data(get_flags(h), h.id, n, h.sent + n)>>, "None")

\* poll_write, n = min(send_window, buf.len()), when the session takes the frame.
poll_write(h, n) ==
    Outcome([Flagged(h) EXCEPT !.send_window = @ - n, !.sent = @ + n],
            <<new_data(get_flags(h), h.id, n, h.sent + n)>>, "None")

\* poll_write when the session is gone: get_flags has run, nothing is charged.
PollWriteBroken(h) == Outcome(Flagged(h), <<>>, "None")

\* poll_write with an empty window: the waker is stored.
PollWritePending(h) == Outcome([h EXCEPT !.writeable_wake = TRUE], <<>>, "None")

send_close(h) == <<new_window_update({"Fin"}, h.id, 0, h.rcvd + h.recv_window)>>

\* Mutant: a half-close leaves the stream writable.
CloseStaysOpen(h) ==
    CASE h.state \in OpenStates      -> Outcome(h, send_close(h), "None")
      [] h.state = "RemoteClosing"   -> Outcome([h EXCEPT !.state = "Closed"],
                                                send_close(h), "Closed")
      [] OTHER                       -> Outcome([h EXCEPT !.state = "Closed"],
                                                <<>>, "Closed")

\* close(), called by poll_shutdown.
close(h) ==
    CASE h.state \in OpenStates      -> Outcome([h EXCEPT !.state = "LocalClosing"],
                                                send_close(h), "None")
      [] h.state = "RemoteClosing"   -> Outcome([h EXCEPT !.state = "Closed"],
                                                send_close(h), "Closed")
      [] OTHER                       -> Outcome([h EXCEPT !.state = "Closed"],
                                                <<>>, "Closed")

\* Drop: an unfinished stream is reset, and the session told to forget it.
drop(h) ==
    CASE h.state = "Closed"                    -> Outcome(h, <<>>, "None")
      [] h.state \in {"LocalClosing", "Reset"} -> Outcome(h, <<>>, "Closed")
      [] OTHER -> Outcome(Flagged(h),
                          <<new_window_update(get_flags(h) \cup {"Rst"}, h.id, 0,
                                              h.rcvd + h.recv_window)>>, "Closed")
=============================================================================
