------------------------------ MODULE Channel ------------------------------
(***************************************************************************)
(* The bounded two-priority mpsc channel, tentacle/src/channel/bound.rs,   *)
(* over the lock-free queue of queue.rs.  Tasks send through their Senders *)
(* while one task owns the Receiver; every action is one atomic operation  *)
(* or one critical section, so they interleave as threads do.              *)
(*                                                                         *)
(* The unbounded channel of unbound.rs is this one when `buffer' is never  *)
(* exceeded: the same steps without parking.                               *)
(***************************************************************************)
EXTENDS Integers, Sequences, FiniteSets

CONSTANTS Tasks,      \* the tasks that send; Senders are named after the tasks
          First,      \* the Sender that channel() returned
          Shared,     \* do all tasks send through First, or each through its own Sender?
          buffer      \* the buffer size given to channel()

ASSUME ChannelAssumption ==
    /\ IsFiniteSet(Tasks) /\ First \in Tasks
    /\ Shared \in BOOLEAN
    /\ buffer \in Nat

\* The Sender whose methods task t calls.
Uses(t) == IF Shared THEN First ELSE t

VARIABLES inner,   \* BoundedInner, shared by all
          snd,     \* snd[s]: the Sender of task s
          st,      \* st[t]: where task t is in its call, and was it woken?
          rx       \* the Receiver and the task that owns it

vars == <<inner, snd, st, rx>>

\* A node of a queue: who has still to link it (nobody, once it is linked), and, in
\* parked_queue, whose handle it carries.  The contents of messages do not matter.
Node == [unlinked : SUBSET Tasks]

ParkedNode == [unlinked : SUBSET Tasks, val : Tasks]

\* The steps of a send between the increment of num_messages and the push.
Counted == {"park", "park_link", "park_check", "push"}

SenderSteps == Counted \cup {"poll_ready", "poll_unparked", "start_send", "try_send", "inc",
                             "link", "signal"}

BoundedInner ==
    [is_open : BOOLEAN, num_messages : Nat, quick_message_queue : Seq(Node),
     message_queue : Seq(Node), parked_queue : Seq(ParkedNode), recv_task : BOOLEAN]

Sender ==
    [life : {"none", "live", "gone"}, maybe_parked : BOOLEAN, is_parked : BOOLEAN,
     task : SUBSET Tasks]

Caller == [pc : SenderSteps \cup {"idle", "pending"}, woken : BOOLEAN]

Receiver ==
    [pc : {"idle", "wait", "quick", "normal", "state", "register", "unpark_one", "dec",
           "unpark_all", "ended"},
     mode : {"poll", "recheck", "try", "close", "drain"}, woken : BOOLEAN]

Init ==
    /\ inner = [is_open |-> TRUE, num_messages |-> 0, quick_message_queue |-> <<>>,
                message_queue |-> <<>>, parked_queue |-> <<>>, recv_task |-> FALSE]
    /\ snd = [s \in Tasks |-> [life |-> IF s = First THEN "live" ELSE "none",
                               maybe_parked |-> FALSE, is_parked |-> FALSE, task |-> {}]]
    /\ st = [t \in Tasks |-> [pc |-> "idle", woken |-> FALSE]]
    /\ rx = [pc |-> "idle", mode |-> "poll", woken |-> FALSE]

-----------------------------------------------------------------------------
(***************************************************************************)
(* Queue.  push swaps the head and links the node in a second step; in     *)
(* between pop finds the queue inconsistent there and pop_spin waits.      *)
(***************************************************************************)
link(q, t) == [i \in 1..Len(q) |-> [q[i] EXCEPT !.unlinked = @ \ {t}]]

\* pop_spin returns None, or Some.
PopsNone(q) == q = <<>>

PopsSome(q) == q # <<>> /\ Head(q).unlinked = {}

-----------------------------------------------------------------------------
(***************************************************************************)
(* Sender                                                                  *)
(***************************************************************************)
Goes(t, pc) == st' = [st EXCEPT ![t].pc = pc]

set_closed(i) == [i EXCEPT !.is_open = FALSE]

\* recv_task.wake().  A wakeup counts when the task registered it in the poll it is in.
wake(i, r) == IF i.recv_task /\ r.mode = "recheck" THEN [r EXCEPT !.woken = TRUE] ELSE r

Clone(s, c) ==
    /\ snd[s].life = "live" /\ snd[c].life = "none"
    /\ snd' = [snd EXCEPT ![c].life = "live"]
    /\ UNCHANGED <<inner, st, rx>>

\* The task calls try_send or async_send, or their quick forms.
Call(t, call) ==
    /\ snd[Uses(t)].life = "live" /\ st[t].pc = "idle"
    /\ Goes(t, call)
    /\ UNCHANGED <<inner, snd, rx>>

PollReady(t) ==
    /\ st[t].pc = "poll_ready"
    /\ Goes(t, IF inner.is_open THEN "poll_unparked" ELSE "idle")
    /\ UNCHANGED <<inner, snd, rx>>

Parked(s) == snd[s].maybe_parked /\ snd[s].is_parked

\* poll_unparked, with the caller's waker in poll_ready and without in try_send.  What
\* is in the handle already is replaced.
poll_unparked(t, waker, pending, ready) ==
    LET s == Uses(t) IN
    /\ Goes(t, IF Parked(s) THEN pending ELSE ready)
    /\ snd' = [snd EXCEPT ![s] = IF Parked(s) THEN [@ EXCEPT !.task = waker]
                                ELSE [@ EXCEPT !.maybe_parked = FALSE]]
    /\ UNCHANGED <<inner, rx>>

PollUnparked(t) ==
    st[t].pc = "poll_unparked" /\ poll_unparked(t, {t}, "pending", "start_send")

\* try_send, called as such or by start_send when poll_ready was ready.
TrySend(t) ==
    st[t].pc \in {"start_send", "try_send"} /\ poll_unparked(t, {}, "idle", "inc")

\* Mutant: a sender that parks is not counted.
IncSkipsParked(t) ==
    /\ st[t].pc = "inc" /\ inner.is_open
    /\ Goes(t, IF inner.num_messages + 1 > buffer THEN "park" ELSE "push")
    /\ inner' = [inner EXCEPT !.num_messages = IF @ + 1 > buffer THEN @ ELSE @ + 1]
    /\ UNCHANGED <<snd, rx>>

\* Mutant: fetch_add, and only then a look at the open bit.
IncBeforeOpenCheck(t) ==
    /\ st[t].pc = "inc"
    /\ Goes(t, IF ~inner.is_open THEN "idle"
               ELSE IF inner.num_messages + 1 > buffer THEN "park" ELSE "push")
    /\ inner' = [inner EXCEPT !.num_messages = @ + 1]
    /\ UNCHANGED <<snd, rx>>

\* Mutant: the test for parking uses the number before the increment.
IncTestsOldNumber(t) ==
    /\ st[t].pc = "inc" /\ inner.is_open
    /\ Goes(t, IF inner.num_messages > buffer THEN "park" ELSE "push")
    /\ inner' = [inner EXCEPT !.num_messages = @ + 1]
    /\ UNCHANGED <<snd, rx>>

inc_num_messages(t) ==
    /\ st[t].pc = "inc"
    /\ \/ /\ ~inner.is_open
          /\ Goes(t, "idle")
          /\ UNCHANGED inner
       \/ /\ inner.is_open
          /\ Goes(t, IF inner.num_messages + 1 > buffer THEN "park" ELSE "push")
          /\ inner' = [inner EXCEPT !.num_messages = @ + 1]
    /\ UNCHANGED <<snd, rx>>

\* park.  Nobody looks at the handle before it is in the queue.
Park(t) ==
    /\ st[t].pc = "park"
    /\ snd' = [snd EXCEPT ![Uses(t)] = [@ EXCEPT !.task = {}, !.is_parked = TRUE]]
    /\ inner' = [inner EXCEPT !.parked_queue = Append(@, [unlinked |-> {t}, val |-> Uses(t)])]
    /\ Goes(t, "park_link")
    /\ UNCHANGED rx

ParkLink(t) ==
    /\ st[t].pc = "park_link"
    /\ inner' = [inner EXCEPT !.parked_queue = link(@, t)]
    /\ Goes(t, "park_check")
    /\ UNCHANGED <<snd, rx>>

ParkCheck(t) ==
    /\ st[t].pc = "park_check"
    /\ snd' = [snd EXCEPT ![Uses(t)].maybe_parked = inner.is_open]
    /\ Goes(t, "push")
    /\ UNCHANGED <<inner, rx>>

\* The priority, chosen by the call, is not looked at before.
Push(t) ==
    /\ st[t].pc = "push"
    /\ \/ inner' = [inner EXCEPT !.quick_message_queue = Append(@, [unlinked |-> {t}])]
       \/ inner' = [inner EXCEPT !.message_queue = Append(@, [unlinked |-> {t}])]
    /\ Goes(t, "link")
    /\ UNCHANGED <<snd, rx>>

Link(t) ==
    /\ st[t].pc = "link"
    /\ inner' = [inner EXCEPT !.quick_message_queue = link(@, t),
                              !.message_queue = link(@, t)]
    /\ Goes(t, "signal")
    /\ UNCHANGED <<snd, rx>>

\* recv_task.wake(), at the end of a send and of close_channel.
Signal(t) ==
    /\ st[t].pc = "signal"
    /\ inner' = [inner EXCEPT !.recv_task = FALSE]
    /\ rx' = wake(inner, rx)
    /\ Goes(t, "idle")
    /\ UNCHANGED snd

\* A task that waits in async_send is polled again, as a rule because it was woken.
Repoll(t) ==
    /\ st[t].pc = "pending"
    /\ st' = [st EXCEPT ![t] = [@ EXCEPT !.pc = "poll_ready", !.woken = FALSE]]
    /\ UNCHANGED <<inner, snd, rx>>

\* The future of async_send is dropped.
Cancel(t) ==
    /\ st[t].pc = "pending"
    /\ st' = [st EXCEPT ![t] = [@ EXCEPT !.pc = "idle", !.woken = FALSE]]
    /\ UNCHANGED <<inner, snd, rx>>

\* No call through Sender s is under way: its owner may borrow it mutably or drop it.
Unused(s) == snd[s].life = "live" /\ \A t \in Tasks : t = s \/ Uses(t) = s => st[t].pc = "idle"

close_channel(s) ==
    /\ Unused(s)
    /\ inner' = set_closed(inner)
    /\ Goes(s, "signal")
    /\ UNCHANGED <<snd, rx>>

num_senders == Cardinality({s \in Tasks : snd[s].life = "live"})

\* Mutant: the last Sender closes the channel and does not wake the receiver.
DropSenderSilently(s) ==
    /\ Unused(s)
    /\ snd' = [snd EXCEPT ![s] = [@ EXCEPT !.life = "gone", !.maybe_parked = FALSE]]
    /\ inner' = IF num_senders = 1 THEN set_closed(inner) ELSE inner
    /\ UNCHANGED <<st, rx>>

\* Drop for BoundedSenderInner; the last one closes the channel.
DropSender(s) ==
    /\ Unused(s)
    /\ snd' = [snd EXCEPT ![s] = [@ EXCEPT !.life = "gone", !.maybe_parked = FALSE]]
    /\ \/ num_senders = 1 /\ inner' = set_closed(inner) /\ Goes(s, "signal")
       \/ num_senders > 1 /\ UNCHANGED <<inner, st>>
    /\ UNCHANGED rx

-----------------------------------------------------------------------------
(***************************************************************************)
(* Receiver                                                                *)
(***************************************************************************)
Returns(pc) == IF pc = "idle" THEN [rx EXCEPT !.pc = pc, !.mode = "poll", !.woken = FALSE]
               ELSE [rx EXCEPT !.pc = pc]

RxGoes(pc) == rx' = Returns(pc)

Pops == [rx EXCEPT !.pc = "unpark_one", !.mode = IF @ = "drain" THEN @ ELSE "poll",
                   !.woken = FALSE]

Between == {"idle", "wait"}   \* the owner is not in a call

PollNext ==
    /\ rx.pc \in Between
    /\ rx' = [rx EXCEPT !.pc = "quick", !.mode = "poll", !.woken = FALSE]
    /\ UNCHANGED <<inner, snd, st>>

TryNext ==
    /\ rx.pc \in Between
    /\ rx' = [rx EXCEPT !.pc = "quick", !.mode = "try"]
    /\ UNCHANGED <<inner, snd, st>>

\* next_message pops from the quick queue first.
PopQuick ==
    /\ rx.pc = "quick"
    /\ \/ /\ PopsSome(inner.quick_message_queue)
          /\ rx' = Pops
          /\ inner' = [inner EXCEPT !.quick_message_queue = Tail(@)]
       \/ /\ PopsNone(inner.quick_message_queue)
          /\ RxGoes("normal")
          /\ UNCHANGED inner
    /\ UNCHANGED <<snd, st>>

PopNormal ==
    /\ rx.pc = "normal"
    /\ \/ /\ PopsSome(inner.message_queue)
          /\ rx' = Pops
          /\ inner' = [inner EXCEPT !.message_queue = Tail(@)]
       \/ /\ PopsNone(inner.message_queue)
          /\ RxGoes("state")
          /\ UNCHANGED inner
    /\ UNCHANGED <<snd, st>>

\* Mutant: the stored waker is dropped and not woken.
NotifyWithoutWake(s) ==
    /\ snd' = [snd EXCEPT ![s] = [@ EXCEPT !.is_parked = FALSE, !.task = {}]]
    /\ UNCHANGED st

\* SenderTask::notify, on the handle that pop_spin of the parked queue returns.
notify(s) ==
    /\ snd' = [snd EXCEPT ![s] = [@ EXCEPT !.is_parked = FALSE, !.task = {}]]
    /\ st' = [t \in Tasks |-> [st[t] EXCEPT !.woken = @ \/ (t \in snd[s].task /\ st[t].pc = "pending")]]

PopParked ==
    /\ PopsSome(inner.parked_queue)
    /\ notify(Head(inner.parked_queue).val)
    /\ inner' = [inner EXCEPT !.parked_queue = Tail(@)]

\* Mutant: unpark only while the channel is over its buffer size.
UnparkOnlyWhenFull ==
    /\ rx.pc = "unpark_one"
    /\ \/ inner.num_messages > buffer /\ PopParked
       \/ /\ inner.num_messages <= buffer \/ PopsNone(inner.parked_queue)
          /\ UNCHANGED <<inner, snd, st>>
    /\ RxGoes("dec")

unpark_one ==
    /\ rx.pc = "unpark_one"
    /\ \/ PopParked
       \/ PopsNone(inner.parked_queue) /\ UNCHANGED <<inner, snd, st>>
    /\ RxGoes("dec")

\* The message is returned, or thrown away by drop.
dec_num_messages ==
    /\ rx.pc = "dec"
    /\ inner' = [inner EXCEPT !.num_messages = @ - 1]
    /\ RxGoes(IF rx.mode = "drain" THEN "quick" ELSE "idle")
    /\ UNCHANGED <<snd, st>>

\* Mutant: the open bit alone.
ClosedWithoutCount == ~inner.is_open

is_closed == ~inner.is_open /\ inner.num_messages = 0

\* Both queues were empty: the end, or wait; drop looks again at once.
LoadState ==
    /\ rx.pc = "state"
    /\ RxGoes(IF is_closed THEN "ended"
              ELSE CASE rx.mode = "poll" -> "register"
                     [] rx.mode = "recheck" -> "wait"
                     [] rx.mode = "try" -> "idle"
                     [] OTHER -> "quick")   \* "drain"
    /\ UNCHANGED <<inner, snd, st>>

\* Mutant: no second look at the queues.
RegisterAndWait ==
    /\ rx.pc = "register"
    /\ inner' = [inner EXCEPT !.recv_task = TRUE]
    /\ rx' = [rx EXCEPT !.pc = "wait", !.mode = "recheck"]
    /\ UNCHANGED <<snd, st>>

Register ==
    /\ rx.pc = "register"
    /\ inner' = [inner EXCEPT !.recv_task = TRUE]
    /\ rx' = [rx EXCEPT !.pc = "quick", !.mode = "recheck"]
    /\ UNCHANGED <<snd, st>>

\* close(), called by the owner or by drop; the owner's calls that would do nothing
\* are left out.
Close(mode) ==
    /\ rx.pc \in Between
    /\ mode = "drain" \/ inner.is_open \/ inner.parked_queue # <<>>
    /\ inner' = set_closed(inner)
    /\ rx' = [rx EXCEPT !.pc = "unpark_all", !.mode = mode]
    /\ UNCHANGED <<snd, st>>

UnparkAll ==
    /\ rx.pc = "unpark_all"
    /\ \/ PopParked /\ UNCHANGED rx
       \/ /\ PopsNone(inner.parked_queue)
          /\ RxGoes(IF rx.mode = "drain" THEN "quick" ELSE "idle")
          /\ UNCHANGED <<inner, snd, st>>

-----------------------------------------------------------------------------
SendStep(t) ==
    \/ PollReady(t) \/ PollUnparked(t) \/ TrySend(t) \/ inc_num_messages(t)
    \/ Park(t) \/ ParkLink(t) \/ ParkCheck(t)
    \/ Push(t) \/ Link(t) \/ Signal(t)

RecvStep ==
    \/ PopQuick \/ PopNormal \/ LoadState \/ Register
    \/ unpark_one \/ dec_num_messages \/ UnparkAll

Next ==
    \/ \E t \in Tasks : SendStep(t) \/ Repoll(t) \/ Cancel(t)
    \/ \E t \in Tasks, call \in {"poll_ready", "try_send"} : Call(t, call)
    \/ \E s, c \in Tasks : Clone(s, c)
    \/ \E s \in Tasks : close_channel(s) \/ DropSender(s)
    \/ RecvStep \/ PollNext \/ TryNext
    \/ \E mode \in {"close", "drain"} : Close(mode)

Spec == Init /\ [][Next]_vars

(***************************************************************************)
(* A thread that is in a call goes on.  A task that waits is polled when   *)
(* it was woken, and only then for sure.  The owner of the receiver asks   *)
(* for the next message until the end.                                     *)
(***************************************************************************)
Fairness ==
    /\ \A t \in Tasks : WF_vars(SendStep(t)) /\ WF_vars(st[t].woken /\ Repoll(t))
    /\ WF_vars(RecvStep)
    /\ WF_vars((rx.pc = "idle" \/ rx.woken) /\ PollNext)

FairSpec == Spec /\ Fairness

-----------------------------------------------------------------------------
TypeOK ==
    /\ inner \in BoundedInner
    /\ snd \in [Tasks -> Sender]
    /\ st \in [Tasks -> Caller]
    /\ rx \in Receiver

InFlight == {t \in Tasks : st[t].pc \in Counted}

Stored == Len(inner.quick_message_queue) + Len(inner.message_queue)

Holding == IF rx.pc \in {"unpark_one", "dec"} THEN 1 ELSE 0

\* num_messages counts the messages in the queues, those whose sender has not pushed
\* them yet and the one being received, exactly: fetch_sub never underflows into the
\* open bit, and is_closed is never true with a message still to come.
CountExact == inner.num_messages = Stored + Cardinality(InFlight) + Holding

\* The tasks that have parked, if they had to, and whose message is still to come.
Pushing == {t \in Tasks : st[t].pc \in {"park_link", "park_check", "push"}}

Unparks == IF rx.pc = "unpark_one" THEN 1 ELSE 0

\* There are never more parked handles than messages to come: every receive unparks
\* one sender, so a receiver that empties the queues leaves nobody parked.
ParkedCovered == Len(inner.parked_queue) <= Stored + Cardinality(Pushing) + Unparks

Created == {s \in Tasks : snd[s].life # "none"}

\* The channel is bounded: `buffer' and one message for each Sender there ever was.
Bounded ==
    Stored <= buffer + Cardinality(Created)

\* At the end nothing is left behind: no message, none on its way, no task waiting
\* that was not woken.
EndIsEnd ==
    rx.pc = "ended" =>
        /\ Stored = 0 /\ InFlight = {} /\ ~inner.is_open
        /\ \A t \in Tasks : st[t].pc = "pending" => st[t].woken

(***************************************************************************)
(* The inductive invariants behind them: Counting, whoever uses which      *)
(* Sender, and Inductive, when Senders are not shared.                     *)
(***************************************************************************)
ClosedOK ==
    /\ rx.pc = "ended" => ~inner.is_open /\ inner.num_messages = 0
    /\ rx.pc = "unpark_all" => ~inner.is_open

Counting == TypeOK /\ CountExact /\ ParkedCovered /\ ClosedOK

Carries(q, s) == \E i \in 1..Len(q) : q[i].val = s

Once(q) == \A i, j \in 1..Len(q) : q[i].val = q[j].val => i = j

\* A handle is in parked_queue once, while is_parked says so.
HandlesOK ==
    /\ \A s \in Tasks : snd[s].is_parked <=> Carries(inner.parked_queue, s)
    /\ Once(inner.parked_queue)

\* A parked Sender does not send again before its handle is taken out of the queue,
\* unless the channel is closed.
SenderOK(s) ==
    /\ st[s].pc = "park" => ~snd[s].is_parked
    /\ inner.is_open /\ st[s].pc = "inc" => ~snd[s].is_parked
    /\ inner.is_open /\ snd[s].is_parked /\ snd[s].life = "live" =>
          snd[s].maybe_parked \/ st[s].pc \in {"park_link", "park_check"}
    /\ snd[s].life = "none" => st[s].pc = "idle" /\ ~snd[s].is_parked
    /\ snd[s].life = "gone" => st[s].pc \in {"idle", "signal"}

\* Who waits was woken, or its waker is with its handle in parked_queue.
WaiterOK(t) == st[t].pc = "pending" => st[t].woken \/ (t \in snd[t].task /\ snd[t].is_parked)

SendersOK == \A s \in Tasks : SenderOK(s) /\ WaiterOK(s)

Debtors == {s \in Tasks : st[s].pc = "park" \/ snd[s].is_parked}

\* The message in hand is counted, and the Sender that paid for it unparked.
Unparked == IF rx.pc = "dec" THEN 1 ELSE 0

\* While the channel is open each message beyond `buffer' has a Sender that pays for it
\* by being parked.
DebtOK ==
    /\ inner.is_open => inner.num_messages <= buffer + Cardinality(Debtors) + Unparked
    /\ inner.num_messages <= buffer + Cardinality(Created) + Unparked

Inductive == Counting /\ HandlesOK /\ SendersOK /\ DebtOK

\* Messages that are in the queues are received, or drained by drop: no wakeup of
\* the receiver is lost.
AllReceived == Stored > 0 ~> Holding = 1

\* A task that waits for room is woken as long as the receiver goes on: poll_ready
\* promises that the task "is queued to be notified once capacity is available".
SenderProceeds == \A t \in Tasks : st[t].pc = "pending" ~> st[t].pc # "pending"

\* When the last Sender is dropped, or either side closes the channel, it ends, and
\* so does drop of the Receiver, which spins until the senders have pushed.
ClosedEnds == ~inner.is_open ~> rx.pc = "ended"
=============================================================================
