--------------------------- MODULE ChannelProofs ---------------------------
(***************************************************************************)
(* Proofs about Channel, for any number of tasks, any buffer size and      *)
(* every interleaving of their atomic operations with the receiver's.      *)
(***************************************************************************)
EXTENDS Channel, FiniteSetTheorems, TLAPS

Pc == SenderSteps \cup {"idle", "pending"}

RxPc == {"idle", "wait", "quick", "normal", "state", "register", "unpark_one", "dec",
         "unpark_all", "ended"}

-----------------------------------------------------------------------------
(***************************************************************************)
(* Queues                                                                  *)
(***************************************************************************)

\* link keeps a queue of messages what it is, and its length.
LEMMA LinkNode ==
    ASSUME NEW q \in Seq(Node), NEW t \in Tasks
    PROVE  link(q, t) \in Seq(Node) /\ Len(link(q, t)) = Len(q)
<1>1. \A i \in 1..Len(q) : q[i] \in Node
  OBVIOUS
<1>2. \A i \in 1..Len(q) : [q[i] EXCEPT !.unlinked = @ \ {t}] \in Node
  BY <1>1, Zenon DEF Node
<1>3. Len(q) \in Nat
  OBVIOUS
<1>4. link(q, t) \in [1..Len(q) -> Node]
  BY <1>2, Zenon DEF link
<1> QED BY <1>3, <1>4, SMT

\* The same for parked_queue, where the handles stay in their places too.
LEMMA LinkParked ==
    ASSUME NEW q \in Seq(ParkedNode), NEW t \in Tasks
    PROVE  /\ link(q, t) \in Seq(ParkedNode) /\ Len(link(q, t)) = Len(q)
           /\ \A i \in 1..Len(q) : link(q, t)[i].val = q[i].val
<1>1. \A i \in 1..Len(q) : q[i] \in ParkedNode
  OBVIOUS
<1>2. \A i \in 1..Len(q) : /\ [q[i] EXCEPT !.unlinked = @ \ {t}] \in ParkedNode
                           /\ [q[i] EXCEPT !.unlinked = @ \ {t}].val = q[i].val
  BY <1>1, Zenon DEF ParkedNode
<1>3. Len(q) \in Nat
  OBVIOUS
<1>4. link(q, t) \in [1..Len(q) -> ParkedNode]
  BY <1>2, Zenon DEF link
<1>5. \A i \in 1..Len(q) : link(q, t)[i].val = q[i].val
  BY <1>2, Zenon DEF link
<1> QED BY <1>3, <1>4, <1>5, SMT

-----------------------------------------------------------------------------
(***************************************************************************)
(* The parts of the state, when one of them changes.                       *)
(***************************************************************************)

\* A task goes on; the others stay where they are.
Moves(t, pc) ==
    /\ st' \in [Tasks -> Caller]
    /\ st'[t].pc = pc
    /\ \A u \in Tasks : u # t => st'[u] = st[u]

\* Goes is such a move.
LEMMA GoesMoves ==
    ASSUME TypeOK, NEW t \in Tasks, NEW pc \in Pc, Goes(t, pc)
    PROVE  Moves(t, pc)
<1>1. ASSUME NEW f \in [Tasks -> Caller]
      PROVE  /\ [f EXCEPT ![t].pc = pc] \in [Tasks -> Caller]
             /\ [f EXCEPT ![t].pc = pc][t].pc = pc
             /\ [f EXCEPT ![t].pc = pc][t].woken = f[t].woken
             /\ \A u \in Tasks : u # t => [f EXCEPT ![t].pc = pc][u] = f[u]
  BY DEF Caller, Pc
<1> QED BY <1>1, Zenon DEF TypeOK, Goes, Moves

\* Setting num_messages leaves the queues and the open bit alone.
LEMMA InnerNum ==
    ASSUME NEW i \in BoundedInner, NEW n \in Nat
    PROVE  /\ [i EXCEPT !.num_messages = n] \in BoundedInner
           /\ [i EXCEPT !.num_messages = n].num_messages = n
           /\ [i EXCEPT !.num_messages = n].is_open = i.is_open
           /\ [i EXCEPT !.num_messages = n].quick_message_queue = i.quick_message_queue
           /\ [i EXCEPT !.num_messages = n].message_queue = i.message_queue
           /\ [i EXCEPT !.num_messages = n].parked_queue = i.parked_queue
  BY Zenon DEF BoundedInner

\* Setting parked_queue leaves the messages, their count and the open bit alone.
LEMMA InnerParked ==
    ASSUME NEW i \in BoundedInner, NEW q \in Seq(ParkedNode)
    PROVE  /\ [i EXCEPT !.parked_queue = q] \in BoundedInner
           /\ [i EXCEPT !.parked_queue = q].num_messages = i.num_messages
           /\ [i EXCEPT !.parked_queue = q].is_open = i.is_open
           /\ [i EXCEPT !.parked_queue = q].quick_message_queue = i.quick_message_queue
           /\ [i EXCEPT !.parked_queue = q].message_queue = i.message_queue
           /\ [i EXCEPT !.parked_queue = q].parked_queue = q
  BY Zenon DEF BoundedInner

\* Setting the quick queue leaves the rest alone.
LEMMA InnerQuick ==
    ASSUME NEW i \in BoundedInner, NEW q \in Seq(Node)
    PROVE  /\ [i EXCEPT !.quick_message_queue = q] \in BoundedInner
           /\ [i EXCEPT !.quick_message_queue = q].num_messages = i.num_messages
           /\ [i EXCEPT !.quick_message_queue = q].is_open = i.is_open
           /\ [i EXCEPT !.quick_message_queue = q].quick_message_queue = q
           /\ [i EXCEPT !.quick_message_queue = q].message_queue = i.message_queue
           /\ [i EXCEPT !.quick_message_queue = q].parked_queue = i.parked_queue
  BY Zenon DEF BoundedInner

\* Setting the normal queue leaves the rest alone.
LEMMA InnerNormal ==
    ASSUME NEW i \in BoundedInner, NEW q \in Seq(Node)
    PROVE  /\ [i EXCEPT !.message_queue = q] \in BoundedInner
           /\ [i EXCEPT !.message_queue = q].num_messages = i.num_messages
           /\ [i EXCEPT !.message_queue = q].is_open = i.is_open
           /\ [i EXCEPT !.message_queue = q].message_queue = q
           /\ [i EXCEPT !.message_queue = q].quick_message_queue = i.quick_message_queue
           /\ [i EXCEPT !.message_queue = q].parked_queue = i.parked_queue
  BY Zenon DEF BoundedInner

\* set_closed clears the open bit and nothing else.
LEMMA InnerClosed ==
    ASSUME NEW i \in BoundedInner
    PROVE  /\ set_closed(i) \in BoundedInner
           /\ set_closed(i).num_messages = i.num_messages
           /\ ~set_closed(i).is_open
           /\ set_closed(i).quick_message_queue = i.quick_message_queue
           /\ set_closed(i).message_queue = i.message_queue
           /\ set_closed(i).parked_queue = i.parked_queue
  BY Zenon DEF BoundedInner, set_closed

\* Registering or waking recv_task leaves the rest alone.
LEMMA InnerRecvTask ==
    ASSUME NEW i \in BoundedInner, NEW b \in BOOLEAN
    PROVE  /\ [i EXCEPT !.recv_task = b] \in BoundedInner
           /\ [i EXCEPT !.recv_task = b].num_messages = i.num_messages
           /\ [i EXCEPT !.recv_task = b].is_open = i.is_open
           /\ [i EXCEPT !.recv_task = b].quick_message_queue = i.quick_message_queue
           /\ [i EXCEPT !.recv_task = b].message_queue = i.message_queue
           /\ [i EXCEPT !.recv_task = b].parked_queue = i.parked_queue
  BY Zenon DEF BoundedInner

\* The receiver's next step, within next_message.
LEMMA RxMoves ==
    ASSUME TypeOK, NEW pc \in RxPc, RxGoes(pc)
    PROVE  rx' \in Receiver /\ rx'.pc = pc
  BY Zenon DEF TypeOK, RxGoes, Returns, Receiver, RxPc

\* The receiver has taken a message out.
LEMMA RxPops ==
    ASSUME TypeOK, rx' = Pops
    PROVE  rx' \in Receiver /\ rx'.pc = "unpark_one"
  BY Zenon DEF TypeOK, Pops, Receiver

\* recv_task.wake() does not move the receiver.
LEMMA RxWoken ==
    ASSUME TypeOK, rx' = wake(inner, rx)
    PROVE  rx' \in Receiver /\ rx'.pc = rx.pc
  BY Zenon DEF TypeOK, wake, Receiver

-----------------------------------------------------------------------------
(***************************************************************************)
(* Cardinalities                                                           *)
(***************************************************************************)
LEMMA TasksFinite ==
    ASSUME NEW S \in SUBSET Tasks
    PROVE  IsFiniteSet(S) /\ Cardinality(S) \in Nat
  BY ChannelAssumption, FS_Subset, FS_CardinalityType

\* Two sets of tasks that agree except about t.
LEMMA OneTask ==
    ASSUME NEW S \in SUBSET Tasks, NEW R \in SUBSET Tasks, NEW t \in Tasks,
           \A u \in Tasks : u # t => (u \in S <=> u \in R)
    PROVE  /\ (t \in S <=> t \in R) => Cardinality(R) = Cardinality(S)
           /\ t \notin S /\ t \in R => Cardinality(R) = Cardinality(S) + 1
           /\ t \in S /\ t \notin R => Cardinality(S) = Cardinality(R) + 1
<1>1. CASE t \in S <=> t \in R
  <2>1. S = R
    BY <1>1
  <2> QED BY <1>1, <2>1
<1>2. CASE t \notin S /\ t \in R
  <2>1. R = S \cup {t}
    BY <1>2
  <2> QED BY <1>2, <2>1, TasksFinite, FS_AddElement
<1>3. CASE t \in S /\ t \notin R
  <2>1. S = R \cup {t}
    BY <1>3
  <2> QED BY <1>3, <2>1, TasksFinite, FS_AddElement
<1> QED BY <1>1, <1>2, <1>3

PushingPc == {"park_link", "park_check", "push"}

\* The numbers in the invariants are natural numbers.
LEMMA Naturals ==
    ASSUME TypeOK
    PROVE  /\ inner.num_messages \in Nat /\ Stored \in Nat
           /\ Len(inner.quick_message_queue) \in Nat /\ Len(inner.message_queue) \in Nat
           /\ Len(inner.parked_queue) \in Nat
           /\ Cardinality(InFlight) \in Nat /\ Cardinality(Pushing) \in Nat
           /\ Holding \in Nat /\ Unparks \in Nat
<1>1. Cardinality(InFlight) \in Nat /\ Cardinality(Pushing) \in Nat
  BY TasksFinite DEF InFlight, Pushing
<1>2. /\ inner.num_messages \in Nat /\ inner.quick_message_queue \in Seq(Node)
      /\ inner.message_queue \in Seq(Node) /\ inner.parked_queue \in Seq(ParkedNode)
  BY Zenon DEF TypeOK, BoundedInner
<1>3. ASSUME NEW S, NEW q \in Seq(S) PROVE Len(q) \in Nat
  OBVIOUS
<1>4. \A m, n \in Nat : m + n \in Nat
  OBVIOUS
<1>5. 0 \in Nat /\ 1 \in Nat
  OBVIOUS
<1> QED BY <1>1, <1>2, <1>3, <1>4, <1>5, Zenon DEF Stored, Holding, Unparks

\* The same about the next state's sets.
LEMMA NaturalsNext == Cardinality(InFlight)' \in Nat /\ Cardinality(Pushing)' \in Nat
  BY TasksFinite DEF InFlight, Pushing

\* What a step of one task does to the sets of tasks.
LEMMA MovesSets ==
    ASSUME NEW t \in Tasks, NEW pc \in Pc, Moves(t, pc)
    PROVE  /\ (st[t].pc \in Counted <=> pc \in Counted)
                 => Cardinality(InFlight)' = Cardinality(InFlight)
           /\ st[t].pc \notin Counted /\ pc \in Counted
                 => Cardinality(InFlight)' = Cardinality(InFlight) + 1
           /\ st[t].pc \in Counted /\ pc \notin Counted
                 => Cardinality(InFlight) = Cardinality(InFlight)' + 1
           /\ (st[t].pc \in PushingPc <=> pc \in PushingPc)
                 => Cardinality(Pushing)' = Cardinality(Pushing)
           /\ st[t].pc \notin PushingPc /\ pc \in PushingPc
                 => Cardinality(Pushing)' = Cardinality(Pushing) + 1
           /\ st[t].pc \in PushingPc /\ pc \notin PushingPc
                 => Cardinality(Pushing) = Cardinality(Pushing)' + 1
<1>1. InFlight \in SUBSET Tasks /\ InFlight' \in SUBSET Tasks
      /\ Pushing \in SUBSET Tasks /\ Pushing' \in SUBSET Tasks
  BY DEF InFlight, Pushing
<1>2. /\ t \in InFlight <=> st[t].pc \in Counted
      /\ t \in InFlight' <=> pc \in Counted
      /\ t \in Pushing <=> st[t].pc \in PushingPc
      /\ t \in Pushing' <=> pc \in PushingPc
  BY Zenon DEF InFlight, Pushing, PushingPc, Moves
<1>3. \A u \in Tasks : u # t => (u \in InFlight <=> u \in InFlight')
  BY Zenon DEF InFlight, Moves
<1>4. \A u \in Tasks : u # t => (u \in Pushing <=> u \in Pushing')
  BY Zenon DEF Pushing, Moves
<1>5. /\ (t \in InFlight <=> t \in InFlight') => Cardinality(InFlight') = Cardinality(InFlight)
      /\ t \notin InFlight /\ t \in InFlight' => Cardinality(InFlight') = Cardinality(InFlight) + 1
      /\ t \in InFlight /\ t \notin InFlight' => Cardinality(InFlight) = Cardinality(InFlight') + 1
  BY <1>1, <1>3, OneTask, Zenon
<1>6. /\ (t \in Pushing <=> t \in Pushing') => Cardinality(Pushing') = Cardinality(Pushing)
      /\ t \notin Pushing /\ t \in Pushing' => Cardinality(Pushing') = Cardinality(Pushing) + 1
      /\ t \in Pushing /\ t \notin Pushing' => Cardinality(Pushing) = Cardinality(Pushing') + 1
  BY <1>1, <1>4, OneTask, Zenon
<1> QED BY <1>2, <1>5, <1>6, Zenon

\* A step of a task that leaves the numbers alone.
LEMMA Calm ==
    ASSUME Counting, TypeOK', NEW t \in Tasks, NEW pc \in Pc, Moves(t, pc),
           st[t].pc \in Counted <=> pc \in Counted,
           st[t].pc \in PushingPc <=> pc \in PushingPc,
           inner'.num_messages = inner.num_messages, Stored' = Stored,
           Len(inner.parked_queue)' = Len(inner.parked_queue),
           rx'.pc = rx.pc, inner'.is_open => inner.is_open
    PROVE  Counting'
<1>1. Holding' = Holding /\ Unparks' = Unparks
  BY Zenon DEF Holding, Unparks
<1>2. Cardinality(InFlight)' = Cardinality(InFlight) /\ Cardinality(Pushing)' = Cardinality(Pushing)
  BY MovesSets, Zenon
<1>3. CountExact' /\ ParkedCovered'
  BY <1>1, <1>2, Zenon DEF Counting, CountExact, ParkedCovered
<1>4. ClosedOK'
  BY Zenon DEF Counting, ClosedOK
<1> QED BY <1>3, <1>4 DEF Counting

-----------------------------------------------------------------------------
(***************************************************************************)
(* Senders                                                                 *)
(***************************************************************************)
LEMMA UsesTask == ASSUME NEW t \in Tasks PROVE Uses(t) \in Tasks
  BY ChannelAssumption DEF Uses

\* One Sender changes.
LEMMA SenderSet ==
    ASSUME TypeOK, NEW s \in Tasks, NEW x \in Sender, snd' = [snd EXCEPT ![s] = x]
    PROVE  /\ snd' \in [Tasks -> Sender] /\ snd'[s] = x
           /\ \A u \in Tasks : u # s => snd'[u] = snd[u]
  BY Zenon DEF TypeOK

\* Storing a waker leaves the rest of a Sender alone.
LEMMA SenderTask ==
    ASSUME NEW x \in Sender, NEW w \in SUBSET Tasks
    PROVE  /\ [x EXCEPT !.task = w] \in Sender
           /\ [x EXCEPT !.task = w].life = x.life
           /\ [x EXCEPT !.task = w].maybe_parked = x.maybe_parked
           /\ [x EXCEPT !.task = w].is_parked = x.is_parked
           /\ [x EXCEPT !.task = w].task = w
  BY Zenon DEF Sender

\* Setting maybe_parked leaves the rest of a Sender alone.
LEMMA SenderMaybeParked ==
    ASSUME NEW x \in Sender, NEW b \in BOOLEAN
    PROVE  /\ [x EXCEPT !.maybe_parked = b] \in Sender
           /\ [x EXCEPT !.maybe_parked = b].life = x.life
           /\ [x EXCEPT !.maybe_parked = b].maybe_parked = b
           /\ [x EXCEPT !.maybe_parked = b].is_parked = x.is_parked
           /\ [x EXCEPT !.maybe_parked = b].task = x.task
  BY Zenon DEF Sender

\* Setting is_parked and the waker leaves the rest of a Sender alone.
LEMMA SenderIsParked ==
    ASSUME NEW x \in Sender, NEW b \in BOOLEAN
    PROVE  /\ [x EXCEPT !.is_parked = b, !.task = {}] \in Sender
           /\ [x EXCEPT !.is_parked = b, !.task = {}].life = x.life
           /\ [x EXCEPT !.is_parked = b, !.task = {}].maybe_parked = x.maybe_parked
           /\ [x EXCEPT !.is_parked = b, !.task = {}].is_parked = b
           /\ [x EXCEPT !.is_parked = b, !.task = {}].task = {}
  BY Zenon DEF Sender

\* Creating or dropping a Sender leaves its handle alone.
LEMMA SenderLife ==
    ASSUME NEW x \in Sender
    PROVE  /\ [x EXCEPT !.life = "gone", !.maybe_parked = FALSE] \in Sender
           /\ [x EXCEPT !.life = "gone", !.maybe_parked = FALSE].life = "gone"
           /\ [x EXCEPT !.life = "gone", !.maybe_parked = FALSE].is_parked = x.is_parked
           /\ [x EXCEPT !.life = "gone", !.maybe_parked = FALSE].task = x.task
           /\ [x EXCEPT !.life = "live"] \in Sender
           /\ [x EXCEPT !.life = "live"].life = "live"
           /\ [x EXCEPT !.life = "live"].is_parked = x.is_parked
           /\ [x EXCEPT !.life = "live"].task = x.task
  BY Zenon DEF Sender

\* poll_unparked keeps the types and moves its task to one of two steps.
LEMMA PollUnparkedType ==
    ASSUME TypeOK, NEW t \in Tasks, NEW waker \in SUBSET Tasks, NEW pending \in Pc,
           NEW ready \in Pc, poll_unparked(t, waker, pending, ready)
    PROVE  /\ TypeOK'
           /\ \A u \in Tasks : u # Uses(t) => snd'[u] = snd[u]
           /\ Parked(Uses(t)) => /\ Moves(t, pending)
                                 /\ snd'[Uses(t)] = [snd[Uses(t)] EXCEPT !.task = waker]
           /\ ~Parked(Uses(t)) => /\ Moves(t, ready)
                                  /\ snd'[Uses(t)] = [snd[Uses(t)] EXCEPT !.maybe_parked = FALSE]
<1> DEFINE s == Uses(t)
<1>1. s \in Tasks
  BY UsesTask, Zenon
<1>2. /\ [snd[s] EXCEPT !.task = waker] \in Sender
      /\ [snd[s] EXCEPT !.maybe_parked = FALSE] \in Sender
  BY <1>1, SenderTask, SenderMaybeParked, Zenon DEF TypeOK
<1>3. CASE Parked(s)
  <2>1. Goes(t, pending) /\ snd' = [snd EXCEPT ![s] = [snd[s] EXCEPT !.task = waker]]
    BY <1>3 DEF poll_unparked
  <2>2. /\ snd' \in [Tasks -> Sender] /\ snd'[s] = [snd[s] EXCEPT !.task = waker]
        /\ \A u \in Tasks : u # s => snd'[u] = snd[u]
    BY <1>1, <1>2, <2>1, SenderSet, Zenon
  <2>3. Moves(t, pending)
    BY <2>1, GoesMoves, Zenon
  <2> QED BY <1>3, <2>2, <2>3, Zenon DEF TypeOK, poll_unparked, Moves
<1>4. CASE ~Parked(s)
  <2>1. Goes(t, ready) /\ snd' = [snd EXCEPT ![s] = [snd[s] EXCEPT !.maybe_parked = FALSE]]
    BY <1>4 DEF poll_unparked
  <2>2. /\ snd' \in [Tasks -> Sender] /\ snd'[s] = [snd[s] EXCEPT !.maybe_parked = FALSE]
        /\ \A u \in Tasks : u # s => snd'[u] = snd[u]
    BY <1>1, <1>2, <2>1, SenderSet, Zenon
  <2>3. Moves(t, ready)
    BY <2>1, GoesMoves, Zenon
  <2> QED BY <1>4, <2>2, <2>3, Zenon DEF TypeOK, poll_unparked, Moves
<1> QED BY <1>3, <1>4, Zenon

\* poll_unparked counts nothing.
LEMMA PollUnparkedCounting ==
    ASSUME Counting, NEW t \in Tasks, NEW waker \in SUBSET Tasks, NEW pending \in Pc,
           NEW ready \in Pc, poll_unparked(t, waker, pending, ready),
           st[t].pc \notin Counted, pending \notin Counted, ready \notin Counted
    PROVE  Counting'
<1>1. PushingPc \subseteq Counted
  BY DEF PushingPc, Counted
<1>2. TypeOK' /\ (Moves(t, pending) \/ Moves(t, ready))
  BY PollUnparkedType, Zenon DEF Counting
<1>3. /\ inner'.num_messages = inner.num_messages /\ Stored' = Stored
      /\ Len(inner.parked_queue)' = Len(inner.parked_queue)
      /\ rx'.pc = rx.pc /\ (inner'.is_open => inner.is_open)
  BY Zenon DEF poll_unparked, Stored
<1> QED BY <1>1, <1>2, <1>3, Calm, Zenon

\* Which steps of a send are counted, and which come after parking.
LEMMA PcIn ==
    /\ {"idle", "pending", "poll_ready", "poll_unparked", "start_send", "try_send", "inc",
        "park", "park_link", "park_check", "push", "link", "signal"} \subseteq Pc
    /\ \A pc \in {"idle", "pending", "poll_ready", "poll_unparked", "start_send", "try_send",
                  "inc", "link", "signal"} : pc \notin Counted /\ pc \notin PushingPc
    /\ \A pc \in PushingPc : pc \in Counted
    /\ "park" \in Counted /\ "park" \notin PushingPc
    /\ "park_link" \in PushingPc /\ "park_check" \in PushingPc /\ "push" \in PushingPc
  BY DEF Pc, SenderSteps, Counted, PushingPc

Idlers == {"idle", "pending", "poll_ready", "poll_unparked", "start_send", "try_send",
                  "inc", "link", "signal"}

\* A step of a task which is not in the counted part, with inner unchanged.
LEMMA IdlerCounting ==
    ASSUME Counting, NEW t \in Tasks, NEW pc \in Idlers, Moves(t, pc), st[t].pc \in Idlers,
           inner' \in BoundedInner, snd' \in [Tasks -> Sender], rx' \in Receiver,
           inner'.num_messages = inner.num_messages,
           Stored' = Stored, Len(inner.parked_queue)' = Len(inner.parked_queue),
           inner'.is_open => inner.is_open, rx'.pc = rx.pc
    PROVE  Counting'
<1>1. TypeOK'
  BY Zenon DEF TypeOK, Moves
<1>2. pc \in Pc
  BY PcIn, Zenon DEF Idlers
<1>3. pc \notin Counted /\ pc \notin PushingPc /\ st[t].pc \notin Counted /\ st[t].pc \notin PushingPc
  BY PcIn, Zenon DEF Idlers
<1> QED BY <1>1, <1>2, <1>3, Calm, Zenon

\* A send before it is counted and after the push.
LEMMA QuietSteps ==
    ASSUME Counting, NEW t \in Tasks,
           \/ PollReady(t) \/ PollUnparked(t) \/ TrySend(t) \/ Link(t) \/ Signal(t)
           \/ Repoll(t) \/ Cancel(t) \/ \E call \in {"poll_ready", "try_send"} : Call(t, call)
    PROVE  Counting'
<1>0. TypeOK
  BY Zenon DEF Counting
<1>1. CASE PollReady(t)
  <2>1. PICK pc \in {"poll_unparked", "idle"} : Goes(t, pc)
    BY <1>1 DEF PollReady
  <2>2. Moves(t, pc)
    BY <1>0, <2>1, PcIn, GoesMoves, Zenon
  <2> QED BY <1>0, <1>1, <2>2, IdlerCounting, Zenon DEF PollReady, Idlers, TypeOK, Stored
<1>2. CASE PollUnparked(t)
  BY <1>2, PcIn, PollUnparkedCounting, Zenon DEF PollUnparked
<1>3. CASE TrySend(t)
  BY <1>3, PcIn, PollUnparkedCounting, Zenon DEF TrySend
<1>4. CASE Link(t)
  <2>1. Moves(t, "signal")
    BY <1>0, <1>4, PcIn, GoesMoves, Zenon DEF Link
  <2>2. inner \in BoundedInner /\ inner.quick_message_queue \in Seq(Node)
        /\ inner.message_queue \in Seq(Node)
    BY <1>0, Zenon DEF TypeOK, BoundedInner
  <2> DEFINE q == link(inner.quick_message_queue, t)
             m == link(inner.message_queue, t)
  <2>4. /\ q \in Seq(Node) /\ Len(q) = Len(inner.quick_message_queue)
        /\ m \in Seq(Node) /\ Len(m) = Len(inner.message_queue)
    BY <2>2, LinkNode, Zenon
  <2> DEFINE i == [inner EXCEPT !.quick_message_queue = q]
  <2>5. inner' = [i EXCEPT !.message_queue = m]
    BY <1>4, Zenon DEF Link
  <2>6. /\ i \in BoundedInner /\ i.num_messages = inner.num_messages
        /\ i.parked_queue = inner.parked_queue /\ i.is_open = inner.is_open
        /\ i.quick_message_queue = q
    BY <2>2, <2>4, InnerQuick, Zenon
  <2> HIDE DEF q, m, i
  <2>3. /\ inner' \in BoundedInner /\ inner'.num_messages = inner.num_messages
        /\ inner'.parked_queue = inner.parked_queue
        /\ (inner'.is_open => inner.is_open) /\ Stored' = Stored
    <3>1. /\ inner' \in BoundedInner /\ inner'.num_messages = inner.num_messages
          /\ inner'.parked_queue = inner.parked_queue /\ inner'.is_open = inner.is_open
          /\ inner'.quick_message_queue = q /\ inner'.message_queue = m
      BY <2>4, <2>5, <2>6, InnerNormal, Zenon
    <3> QED BY <2>4, <3>1, Zenon DEF Stored
  <2> QED BY <1>0, <1>4, <2>1, <2>3, IdlerCounting, Zenon DEF Link, Idlers, TypeOK
<1>5. CASE Signal(t)
  <2>1. Moves(t, "idle")
    BY <1>0, <1>5, PcIn, GoesMoves, Zenon DEF Signal
  <2>2. rx' \in Receiver /\ rx'.pc = rx.pc
    BY <1>0, <1>5, RxWoken, Zenon DEF Signal
  <2>3. /\ inner' \in BoundedInner /\ inner'.num_messages = inner.num_messages
        /\ inner'.parked_queue = inner.parked_queue
        /\ (inner'.is_open => inner.is_open) /\ Stored' = Stored
    BY <1>0, <1>5, InnerRecvTask, Zenon DEF Signal, Stored, TypeOK
  <2> QED BY <1>0, <1>5, <2>1, <2>2, <2>3, IdlerCounting, Zenon DEF Signal, Idlers, TypeOK
<1>6. CASE \E call \in {"poll_ready", "try_send"} : Call(t, call)
  <2>1. PICK call \in {"poll_ready", "try_send"} : Call(t, call)
    BY <1>6
  <2>2. Moves(t, call)
    BY <1>0, <2>1, PcIn, GoesMoves, Zenon DEF Call
  <2> QED BY <1>0, <2>1, <2>2, IdlerCounting, Zenon DEF Call, Idlers, TypeOK, Stored
<1>7. CASE Repoll(t) \/ Cancel(t)
  <2>1. PICK pc \in {"poll_ready", "idle"} :
            st' = [st EXCEPT ![t] = [@ EXCEPT !.pc = pc, !.woken = FALSE]]
    BY <1>7 DEF Repoll, Cancel
  <2>2. /\ st' \in [Tasks -> Caller] /\ st'[t].pc = pc
        /\ \A u \in Tasks : u # t => st'[u] = st[u]
    BY <1>0, <2>1, PcIn DEF TypeOK, Caller, Pc
  <2> QED BY <1>0, <1>7, <2>2, IdlerCounting, Zenon DEF Repoll, Cancel, Idlers, TypeOK, Stored, Moves
<1> QED BY <1>1, <1>2, <1>3, <1>4, <1>5, <1>6, <1>7

\* inc_num_messages: a message is counted before it is pushed.
LEMMA IncCounting ==
    ASSUME Counting, NEW t \in Tasks, inc_num_messages(t) PROVE Counting'
<1>0. TypeOK
  BY Zenon DEF Counting
<1>1. CASE ~inner.is_open
  <2>1. Goes(t, "idle") /\ UNCHANGED <<inner, snd, rx>> /\ st[t].pc = "inc"
    BY <1>1, Zenon DEF inc_num_messages
  <2>2. Moves(t, "idle")
    BY <1>0, <2>1, PcIn, GoesMoves, Zenon
  <2> QED BY <1>0, <2>1, <2>2, IdlerCounting, Zenon DEF Idlers, TypeOK, Stored
<1>2. CASE inner.is_open
  <2>1. PICK pc \in {"park", "push"} :
          /\ Goes(t, pc) /\ st[t].pc = "inc" /\ UNCHANGED <<snd, rx>>
          /\ inner' = [inner EXCEPT !.num_messages = inner.num_messages + 1]
    BY <1>2 DEF inc_num_messages
  <2>2. pc \in Pc /\ Moves(t, pc)
    BY <1>0, <2>1, PcIn, GoesMoves, Zenon
  <2>3. inner.num_messages + 1 \in Nat
    BY <1>0, Naturals
  <2>4. inner \in BoundedInner
    BY <1>0, Zenon DEF TypeOK
  <2>5. /\ inner' \in BoundedInner /\ inner'.num_messages = inner.num_messages + 1
        /\ inner'.parked_queue = inner.parked_queue /\ (inner'.is_open => inner.is_open)
        /\ inner'.quick_message_queue = inner.quick_message_queue
        /\ inner'.message_queue = inner.message_queue
    BY <2>1, <2>3, <2>4, InnerNum, Zenon
  <2>6. TypeOK'
    BY <1>0, <2>1, <2>2, <2>5, Zenon DEF TypeOK, Moves
  <2>7. Stored' = Stored /\ Holding' = Holding /\ Unparks' = Unparks
    BY <2>1, <2>5, Zenon DEF Stored, Holding, Unparks
  <2>8. /\ Cardinality(InFlight)' = Cardinality(InFlight) + 1
        /\ Cardinality(Pushing)' = Cardinality(Pushing)
           \/ Cardinality(Pushing)' = Cardinality(Pushing) + 1
    BY <2>1, <2>2, PcIn, MovesSets, Zenon
  <2>9. CountExact'
    <3>1. Stored \in Nat /\ Cardinality(InFlight) \in Nat /\ Holding \in Nat
      BY <1>0, Naturals, Zenon
    <3>2. (Stored + Cardinality(InFlight) + Holding) + 1
             = Stored + (Cardinality(InFlight) + 1) + Holding
      BY <3>1, SMT
    <3> QED BY <2>5, <2>7, <2>8, <3>2, Zenon DEF Counting, CountExact
  <2>10. ParkedCovered'
    <3>1. \A a, b, c, d \in Nat : a <= b + c + d => a <= b + (c + 1) + d
      OBVIOUS
    <3> QED BY <1>0, <2>5, <2>7, <2>8, <3>1, Naturals, Zenon DEF Counting, ParkedCovered
  <2>11. ClosedOK'
    BY <1>2, <2>1, Zenon DEF Counting, ClosedOK
  <2> QED BY <2>6, <2>9, <2>10, <2>11, Zenon DEF Counting
<1> QED BY <1>1, <1>2

\* The steps of park.
LEMMA ParkCounting ==
    ASSUME Counting, NEW t \in Tasks, Park(t) PROVE Counting'
<1>0. TypeOK /\ Uses(t) \in Tasks
  BY UsesTask, Zenon DEF Counting
<1>1. Moves(t, "park_link") /\ "park_link" \in Pc
  BY <1>0, PcIn, GoesMoves, Zenon DEF Park
<1> DEFINE n == [unlinked |-> {t}, val |-> Uses(t)]
           q == Append(inner.parked_queue, n)
<1>2. inner \in BoundedInner /\ inner.parked_queue \in Seq(ParkedNode)
  BY <1>0, Zenon DEF TypeOK, BoundedInner
<1>3. n \in ParkedNode
  BY <1>0 DEF ParkedNode
<1>4. q \in Seq(ParkedNode) /\ Len(q) = Len(inner.parked_queue) + 1
  <2> HIDE DEF n
  <2> QED BY <1>2, <1>3
<1>5. inner' = [inner EXCEPT !.parked_queue = q]
  BY Zenon DEF Park
<1> HIDE DEF q
<1>6. /\ inner' \in BoundedInner /\ inner'.num_messages = inner.num_messages
      /\ inner'.parked_queue = q /\ (inner'.is_open => inner.is_open)
      /\ inner'.quick_message_queue = inner.quick_message_queue
      /\ inner'.message_queue = inner.message_queue
  BY <1>2, <1>4, <1>5, InnerParked, Zenon
<1>7. snd' \in [Tasks -> Sender]
  <2>1. snd' = [snd EXCEPT ![Uses(t)] = [snd[Uses(t)] EXCEPT !.task = {}, !.is_parked = TRUE]]
    BY DEF Park
  <2>2. \A x \in Sender : [x EXCEPT !.task = {}, !.is_parked = TRUE] \in Sender
    BY Zenon DEF Sender
  <2>3. snd[Uses(t)] \in Sender
    BY <1>0, Zenon DEF TypeOK
  <2> QED BY <1>0, <2>1, <2>2, <2>3, SenderSet, Zenon
<1>8. TypeOK'
  BY <1>0, <1>1, <1>6, <1>7, Zenon DEF TypeOK, Moves, Park
<1>9. Stored' = Stored /\ Holding' = Holding /\ Unparks' = Unparks
  BY <1>6, Zenon DEF Stored, Holding, Unparks, Park
<1>10. /\ Cardinality(InFlight)' = Cardinality(InFlight)
       /\ Cardinality(Pushing)' = Cardinality(Pushing) + 1
  BY <1>1, PcIn, MovesSets, Zenon DEF Park
<1>11. CountExact'
  BY <1>6, <1>9, <1>10, Zenon DEF Counting, CountExact
<1>12. ParkedCovered'
  <2>1. \A a, b, c, d \in Nat : a <= b + c + d => a + 1 <= b + (c + 1) + d
    OBVIOUS
  <2> QED BY <1>0, <1>4, <1>6, <1>9, <1>10, <2>1, Naturals, ZenonT(40) DEF Counting, ParkedCovered
<1>13. ClosedOK'
  BY <1>6, Zenon DEF Counting, ClosedOK, Park
<1> QED BY <1>8, <1>11, <1>12, <1>13, Zenon DEF Counting

\* The second half of the push of a handle.
LEMMA ParkLinkCounting ==
    ASSUME Counting, NEW t \in Tasks, ParkLink(t) PROVE Counting'
<1>0. TypeOK
  BY Zenon DEF Counting
<1>1. Moves(t, "park_check") /\ "park_check" \in Pc
  BY <1>0, PcIn, GoesMoves, Zenon DEF ParkLink
<1>2. inner \in BoundedInner /\ inner.parked_queue \in Seq(ParkedNode)
  BY <1>0, Zenon DEF TypeOK, BoundedInner
<1> DEFINE q == link(inner.parked_queue, t)
<1>3. q \in Seq(ParkedNode) /\ Len(q) = Len(inner.parked_queue)
  BY <1>2, LinkParked, Zenon
<1>4. inner' = [inner EXCEPT !.parked_queue = q]
  BY Zenon DEF ParkLink
<1> HIDE DEF q
<1>5. /\ inner' \in BoundedInner /\ inner'.num_messages = inner.num_messages
      /\ inner'.parked_queue = q /\ (inner'.is_open => inner.is_open)
      /\ inner'.quick_message_queue = inner.quick_message_queue
      /\ inner'.message_queue = inner.message_queue
  BY <1>2, <1>3, <1>4, InnerParked, Zenon
<1>6. TypeOK' /\ Stored' = Stored /\ rx'.pc = rx.pc
  BY <1>0, <1>1, <1>5, Zenon DEF TypeOK, Moves, ParkLink, Stored
<1> QED BY <1>1, <1>3, <1>5, <1>6, PcIn, Calm, Zenon DEF ParkLink

\* park reads the open bit.
LEMMA ParkCheckCounting ==
    ASSUME Counting, NEW t \in Tasks, ParkCheck(t) PROVE Counting'
<1>0. TypeOK /\ Uses(t) \in Tasks
  BY UsesTask, Zenon DEF Counting
<1>1. Moves(t, "push") /\ "push" \in Pc
  BY <1>0, PcIn, GoesMoves, Zenon DEF ParkCheck
<1>2. snd' \in [Tasks -> Sender]
  <2>1. snd' = [snd EXCEPT ![Uses(t)] = [snd[Uses(t)] EXCEPT !.maybe_parked = inner.is_open]]
    BY Zenon DEF ParkCheck
  <2>2. snd[Uses(t)] \in Sender /\ inner.is_open \in BOOLEAN
    BY <1>0, Zenon DEF TypeOK, BoundedInner
  <2> QED BY <1>0, <2>1, <2>2, SenderMaybeParked, SenderSet, Zenon
<1>3. TypeOK' /\ Stored' = Stored
  BY <1>0, <1>1, <1>2, Zenon DEF TypeOK, Moves, ParkCheck, Stored
<1> QED BY <1>1, <1>3, PcIn, Calm, Zenon DEF ParkCheck

\* The push: the message is now in a queue and no more on its way.
LEMMA PushCounting ==
    ASSUME Counting, NEW t \in Tasks, Push(t) PROVE Counting'
<1>0. TypeOK
  BY Zenon DEF Counting
<1>1. Moves(t, "link") /\ "link" \in Pc
  BY <1>0, PcIn, GoesMoves, Zenon DEF Push
<1>2. /\ inner \in BoundedInner /\ inner.message_queue \in Seq(Node)
      /\ inner.quick_message_queue \in Seq(Node)
  BY <1>0, Zenon DEF TypeOK, BoundedInner
<1>3. ASSUME NEW q \in Seq(Node)
      PROVE  Append(q, [unlinked |-> {t}]) \in Seq(Node) /\ Len(Append(q, [unlinked |-> {t}])) = Len(q) + 1
  <2>1. [unlinked |-> {t}] \in Node
    BY DEF Node
  <2> QED BY <2>1
<1>4. ASSUME NEW q \in Seq(Node) PROVE Len(q) \in Nat
  OBVIOUS
<1>5. \A a, b \in Nat : (a + 1) + b = (a + b) + 1 /\ a + (b + 1) = (a + b) + 1
  OBVIOUS
<1>6. /\ inner' \in BoundedInner /\ inner'.num_messages = inner.num_messages
      /\ inner'.parked_queue = inner.parked_queue /\ (inner'.is_open => inner.is_open)
      /\ Stored' = Stored + 1
  <2>1. CASE inner' = [inner EXCEPT !.quick_message_queue =
                         Append(inner.quick_message_queue, [unlinked |-> {t}])]
    <3> DEFINE q == Append(inner.quick_message_queue, [unlinked |-> {t}])
    <3>1. q \in Seq(Node) /\ Len(q) = Len(inner.quick_message_queue) + 1
      BY <1>2, <1>3, Zenon
    <3> HIDE DEF q
    <3>2. inner' = [inner EXCEPT !.quick_message_queue = q]
      BY <2>1, Zenon DEF q
    <3>3. /\ inner' \in BoundedInner /\ inner'.num_messages = inner.num_messages
          /\ inner'.parked_queue = inner.parked_queue /\ (inner'.is_open => inner.is_open)
          /\ inner'.quick_message_queue = q /\ inner'.message_queue = inner.message_queue
      BY <1>2, <3>1, <3>2, InnerQuick, Zenon
    <3>4. Stored' = Stored + 1
      BY <1>2, <1>4, <1>5, <3>1, <3>3, ZenonT(40) DEF Stored
    <3> QED BY <3>3, <3>4
  <2>2. CASE inner' = [inner EXCEPT !.message_queue =
                         Append(inner.message_queue, [unlinked |-> {t}])]
    <3> DEFINE q == Append(inner.message_queue, [unlinked |-> {t}])
    <3>1. q \in Seq(Node) /\ Len(q) = Len(inner.message_queue) + 1
      BY <1>2, <1>3, Zenon
    <3> HIDE DEF q
    <3>2. inner' = [inner EXCEPT !.message_queue = q]
      BY <2>2, Zenon DEF q
    <3>3. /\ inner' \in BoundedInner /\ inner'.num_messages = inner.num_messages
          /\ inner'.parked_queue = inner.parked_queue /\ (inner'.is_open => inner.is_open)
          /\ inner'.message_queue = q /\ inner'.quick_message_queue = inner.quick_message_queue
      BY <1>2, <3>1, <3>2, InnerNormal, Zenon
    <3>4. Stored' = Stored + 1
      BY <1>2, <1>4, <1>5, <3>1, <3>3, ZenonT(40) DEF Stored
    <3> QED BY <3>3, <3>4
  <2> QED BY <2>1, <2>2, Zenon DEF Push
<1>7. TypeOK'
  BY <1>0, <1>1, <1>6, Zenon DEF TypeOK, Moves, Push
<1>8. Holding' = Holding /\ Unparks' = Unparks
  BY Zenon DEF Holding, Unparks, Push
<1>9. /\ Cardinality(InFlight) = Cardinality(InFlight)' + 1
      /\ Cardinality(Pushing) = Cardinality(Pushing)' + 1
  BY <1>1, PcIn, MovesSets, Zenon DEF Push
<1>10. CountExact'
  <2>1. Stored \in Nat /\ Cardinality(InFlight)' \in Nat /\ Holding \in Nat
    BY <1>0, Naturals, NaturalsNext, Zenon
  <2>2. Stored + (Cardinality(InFlight)' + 1) + Holding = (Stored + 1) + Cardinality(InFlight)' + Holding
    BY <2>1, SMT
  <2> QED BY <1>6, <1>8, <1>9, <2>2, Zenon DEF Counting, CountExact
<1>11. ParkedCovered'
  <2>1. Stored \in Nat /\ Cardinality(Pushing)' \in Nat /\ Unparks \in Nat
    BY <1>0, Naturals, NaturalsNext, Zenon
  <2>2. Stored + (Cardinality(Pushing)' + 1) + Unparks = (Stored + 1) + Cardinality(Pushing)' + Unparks
    BY <2>1, SMT
  <2> QED BY <1>6, <1>8, <1>9, <2>2, Zenon DEF Counting, ParkedCovered
<1>12. ClosedOK'
  BY <1>6, Zenon DEF Counting, ClosedOK, Push
<1> QED BY <1>7, <1>10, <1>11, <1>12, Zenon DEF Counting

\* Clone, close_channel and drop of a Sender.
LEMMA OwnerCounting ==
    ASSUME Counting, NEW s \in Tasks,
           close_channel(s) \/ DropSender(s) \/ \E c \in Tasks : Clone(s, c)
    PROVE  Counting'
<1>0. TypeOK
  BY Zenon DEF Counting
<1>1. /\ set_closed(inner) \in BoundedInner
      /\ set_closed(inner).num_messages = inner.num_messages /\ ~set_closed(inner).is_open
      /\ set_closed(inner).quick_message_queue = inner.quick_message_queue
      /\ set_closed(inner).message_queue = inner.message_queue
      /\ set_closed(inner).parked_queue = inner.parked_queue
  BY <1>0, InnerClosed, Zenon DEF TypeOK
<1>2. CASE close_channel(s)
  <2>1. /\ Goes(s, "signal") /\ st[s].pc = "idle" /\ inner' = set_closed(inner)
        /\ UNCHANGED <<snd, rx>>
    BY <1>2, Zenon DEF close_channel, Unused
  <2>2. Moves(s, "signal")
    BY <1>0, <2>1, PcIn, GoesMoves, Zenon
  <2>3. Stored' = Stored
    BY <1>1, <2>1, Zenon DEF Stored
  <2> QED BY <1>0, <1>1, <2>1, <2>2, <2>3, IdlerCounting, Zenon DEF Idlers, TypeOK
<1>3. CASE DropSender(s)
  <2>1. /\ snd' = [snd EXCEPT ![s] = [snd[s] EXCEPT !.life = "gone", !.maybe_parked = FALSE]]
        /\ st[s].pc = "idle" /\ UNCHANGED rx
        /\ \/ Goes(s, "signal") /\ inner' = set_closed(inner)
           \/ UNCHANGED <<inner, st>>
    BY <1>3, Zenon DEF DropSender, Unused
  <2>2. snd' \in [Tasks -> Sender]
    BY <1>0, <2>1, SenderLife, SenderSet, Zenon DEF TypeOK
  <2>3. CASE Goes(s, "signal") /\ inner' = set_closed(inner)
    <3>1. Moves(s, "signal")
      BY <1>0, <2>3, PcIn, GoesMoves, Zenon
    <3>2. Stored' = Stored
      BY <1>1, <2>3, Zenon DEF Stored
    <3> QED BY <1>0, <1>1, <2>1, <2>2, <2>3, <3>1, <3>2, IdlerCounting, Zenon DEF Idlers, TypeOK
  <2>4. CASE UNCHANGED <<inner, st>>
    <3>1. Moves(s, "idle")
      BY <1>0, <2>1, <2>4, Zenon DEF Moves, TypeOK
    <3> QED BY <1>0, <2>1, <2>2, <2>4, <3>1, IdlerCounting, Zenon DEF Idlers, TypeOK, Stored
  <2> QED BY <2>1, <2>3, <2>4
<1>4. CASE \E c \in Tasks : Clone(s, c)
  <2>1. PICK c \in Tasks : Clone(s, c)
    BY <1>4
  <2>2. snd' = [snd EXCEPT ![c] = [snd[c] EXCEPT !.life = "live"]] /\ UNCHANGED <<inner, st, rx>>
    BY <2>1, Zenon DEF Clone
  <2>3. snd' \in [Tasks -> Sender]
    BY <1>0, <2>2, SenderLife, SenderSet, Zenon DEF TypeOK
  <2>4. TypeOK' /\ CountExact' /\ ParkedCovered' /\ ClosedOK'
    BY <1>0, <2>2, <2>3, Zenon DEF TypeOK, Counting, CountExact, ParkedCovered, ClosedOK,
       Stored, InFlight, Holding, Pushing, Unparks
  <2> QED BY <2>4 DEF Counting
<1> QED BY <1>2, <1>3, <1>4

-----------------------------------------------------------------------------
(***************************************************************************)
(* The receiver                                                            *)
(***************************************************************************)
Stays == \A u \in Tasks : st'[u].pc = st[u].pc

\* Tasks that stay where they are stay in the sets counted.
LEMMA StaysSets ==
    ASSUME Stays PROVE InFlight' = InFlight /\ Pushing' = Pushing
  BY DEF Stays, InFlight, Pushing

\* A step of the receiver that takes nothing out of a queue.
LEMMA RxCalm ==
    ASSUME Counting, TypeOK', Stays,
           inner'.num_messages = inner.num_messages, Stored' = Stored,
           Len(inner.parked_queue)' = Len(inner.parked_queue),
           rx.pc \notin {"unpark_one", "dec"}, rx'.pc \notin {"unpark_one", "dec"},
           rx'.pc = "ended" => ~inner'.is_open /\ inner'.num_messages = 0,
           rx'.pc = "unpark_all" => ~inner'.is_open
    PROVE  Counting'
<1>1. Holding' = Holding /\ Unparks' = Unparks
  BY DEF Holding, Unparks
<1>2. InFlight' = InFlight /\ Pushing' = Pushing
  BY StaysSets
<1>3. CountExact' /\ ParkedCovered'
  BY <1>1, <1>2, Zenon DEF Counting, CountExact, ParkedCovered
<1>4. ClosedOK'
  BY Zenon DEF ClosedOK
<1> QED BY <1>3, <1>4 DEF Counting

\* The same when only the receiver changes.
LEMMA RxQuiet ==
    ASSUME Counting, UNCHANGED <<inner, snd, st>>, rx' \in Receiver,
           rx.pc \notin {"unpark_one", "dec"}, rx'.pc \notin {"unpark_one", "dec"},
           rx'.pc = "ended" => ~inner.is_open /\ inner.num_messages = 0,
           rx'.pc = "unpark_all" => ~inner.is_open
    PROVE  Counting'
<1>1. TypeOK' /\ Stays /\ Stored' = Stored
  BY Zenon DEF Counting, TypeOK, Stays, Stored
<1> QED BY <1>1, RxCalm, Zenon

\* Polling, the look at the state and the registration count nothing.
LEMMA RxQuietSteps ==
    ASSUME Counting, PollNext \/ TryNext \/ LoadState \/ Register
    PROVE  Counting'
<1>0. TypeOK
  BY Zenon DEF Counting
<1>1. CASE PollNext \/ TryNext
  <2>1. rx' \in Receiver /\ rx'.pc = "quick"
    BY <1>0, <1>1, Zenon DEF PollNext, TryNext, TypeOK, Receiver
  <2>2. rx.pc \notin {"unpark_one", "dec"}
    BY <1>1 DEF PollNext, TryNext, Between
  <2> QED BY <1>1, <2>1, <2>2, RxQuiet DEF PollNext, TryNext
<1>2. CASE LoadState
  <2>1. rx.mode \in {"poll", "recheck", "try", "close", "drain"}
    BY <1>0, Zenon DEF TypeOK, Receiver
  <2>2. CASE is_closed
    <3>1. RxGoes("ended")
      BY <1>2, <2>2, Zenon DEF LoadState
    <3>2. rx' \in Receiver /\ rx'.pc = "ended"
      BY <1>0, <3>1, RxMoves DEF RxPc
    <3> QED BY <1>2, <2>2, <3>2, RxQuiet DEF LoadState, is_closed
  <2>3. CASE ~is_closed
    <3>1. PICK pc \in {"register", "wait", "idle", "quick"} : RxGoes(pc)
      BY <1>2, <2>1, <2>3 DEF LoadState
    <3>2. rx' \in Receiver /\ rx'.pc = pc
      BY <1>0, <3>1, RxMoves DEF RxPc
    <3> QED BY <1>2, <3>2, RxQuiet DEF LoadState
  <2> QED BY <2>2, <2>3
<1>3. CASE Register
  <2>1. inner' = [inner EXCEPT !.recv_task = TRUE] /\ inner \in BoundedInner
    BY <1>0, <1>3, Zenon DEF Register, TypeOK
  <2>2. /\ inner' \in BoundedInner /\ inner'.num_messages = inner.num_messages
        /\ inner'.parked_queue = inner.parked_queue /\ inner'.is_open = inner.is_open
        /\ Stored' = Stored
    BY <2>1, InnerRecvTask, Zenon DEF Stored
  <2>3. rx' \in Receiver /\ rx'.pc = "quick" /\ rx.pc = "register"
    BY <1>0, <1>3, Zenon DEF Register, TypeOK, Receiver
  <2>4. TypeOK' /\ Stays
    BY <1>0, <1>3, <2>2, <2>3, Zenon DEF TypeOK, Register, Stays
  <2>5. rx.pc \notin {"unpark_one", "dec"} /\ rx'.pc \notin {"unpark_one", "dec", "ended", "unpark_all"}
    BY <2>3
  <2> QED BY <2>2, <2>4, <2>5, RxCalm, Zenon
<1> QED BY <1>1, <1>2, <1>3

\* Popping shortens a queue by one.
LEMMA TailNode ==
    ASSUME NEW S, NEW q \in Seq(S), q # <<>>
    PROVE  /\ Tail(q) \in Seq(S) /\ Len(q) = Len(Tail(q)) + 1 /\ Len(Tail(q)) \in Nat
           /\ Head(q) \in S
  OBVIOUS

\* A message is taken out of a queue.
LEMMA PopCounting ==
    ASSUME Counting, inner' \in BoundedInner, rx' \in Receiver,
           rx.pc \in {"quick", "normal"}, rx'.pc = "unpark_one",
           inner'.num_messages = inner.num_messages, inner'.parked_queue = inner.parked_queue,
           Stored' \in Nat, Stored = Stored' + 1, UNCHANGED <<snd, st>>
    PROVE  Counting'
<1>1. TypeOK /\ TypeOK' /\ Stays
  BY Zenon DEF Counting, TypeOK, Stays
<1>2. InFlight' = InFlight /\ Pushing' = Pushing
  BY <1>1, StaysSets
<1>3. Holding = 0 /\ Holding' = 1 /\ Unparks = 0 /\ Unparks' = 1
  BY DEF Holding, Unparks
<1>4. Stored \in Nat /\ Cardinality(InFlight) \in Nat /\ Cardinality(Pushing) \in Nat
  BY <1>1, Naturals, Zenon
<1>5. /\ (Stored' + 1) + Cardinality(InFlight) + 0 = Stored' + Cardinality(InFlight) + 1
      /\ (Stored' + 1) + Cardinality(Pushing) + 0 = Stored' + Cardinality(Pushing) + 1
  BY <1>4
<1>6. CountExact' /\ ParkedCovered'
  BY <1>2, <1>3, <1>5, Zenon DEF Counting, CountExact, ParkedCovered
<1>7. ClosedOK'
  BY DEF ClosedOK
<1> QED BY <1>1, <1>6, <1>7 DEF Counting

\* A pop moves one message from a queue into the receiver's hand.
LEMMA PopSteps ==
    ASSUME Counting, PopQuick \/ PopNormal PROVE Counting'
<1>0. TypeOK
  BY Zenon DEF Counting
<1>1. /\ inner \in BoundedInner /\ inner.message_queue \in Seq(Node)
      /\ inner.quick_message_queue \in Seq(Node)
  BY <1>0, Zenon DEF TypeOK, BoundedInner
<1>2. \A a, b \in Nat : /\ (a + 1) + b = (a + b) + 1 /\ a + (b + 1) = (a + b) + 1 /\ a + b \in Nat
  OBVIOUS
<1>3. ASSUME NEW q \in Seq(Node) PROVE Len(q) \in Nat
  OBVIOUS
<1>4. CASE PopQuick /\ PopsSome(inner.quick_message_queue)
  <2> DEFINE q == Tail(inner.quick_message_queue)
  <2>1. /\ rx' = Pops /\ rx.pc = "quick" /\ UNCHANGED <<snd, st>>
        /\ inner.quick_message_queue # <<>>
        /\ inner' = [inner EXCEPT !.quick_message_queue = q]
    BY <1>4, Zenon DEF PopQuick, PopsNone, PopsSome
  <2>2. q \in Seq(Node) /\ Len(inner.quick_message_queue) = Len(q) + 1 /\ Len(q) \in Nat
    BY <1>1, <2>1, TailNode, Zenon
  <2> HIDE DEF q
  <2>3. /\ inner' \in BoundedInner /\ inner'.num_messages = inner.num_messages
        /\ inner'.parked_queue = inner.parked_queue
        /\ inner'.quick_message_queue = q /\ inner'.message_queue = inner.message_queue
    BY <1>1, <2>1, <2>2, InnerQuick, Zenon
  <2>4. Len(inner.message_queue) \in Nat
    BY <1>1, <1>3, Zenon
  <2>5. Stored' \in Nat /\ Stored = Stored' + 1
    <3>1. /\ Stored = Len(inner.quick_message_queue) + Len(inner.message_queue)
          /\ Stored' = Len(q) + Len(inner.message_queue)
      BY <2>3, Zenon DEF Stored
    <3>2. (Len(q) + 1) + Len(inner.message_queue) = (Len(q) + Len(inner.message_queue)) + 1 /\ Len(q) + Len(inner.message_queue) \in Nat
      BY <1>2, <2>2, <2>4, Zenon
    <3> QED BY <2>2, <3>1, <3>2, Zenon
  <2>6. rx' \in Receiver /\ rx'.pc = "unpark_one"
    BY <1>0, <2>1, RxPops, Zenon
  <2> QED BY <2>1, <2>3, <2>5, <2>6, PopCounting, Zenon
<1>5. CASE PopNormal /\ PopsSome(inner.message_queue)
  <2> DEFINE q == Tail(inner.message_queue)
  <2>1. /\ rx' = Pops /\ rx.pc = "normal" /\ UNCHANGED <<snd, st>>
        /\ inner.message_queue # <<>>
        /\ inner' = [inner EXCEPT !.message_queue = q]
    BY <1>5, Zenon DEF PopNormal, PopsNone, PopsSome
  <2>2. q \in Seq(Node) /\ Len(inner.message_queue) = Len(q) + 1 /\ Len(q) \in Nat
    BY <1>1, <2>1, TailNode, Zenon
  <2> HIDE DEF q
  <2>3. /\ inner' \in BoundedInner /\ inner'.num_messages = inner.num_messages
        /\ inner'.parked_queue = inner.parked_queue
        /\ inner'.message_queue = q /\ inner'.quick_message_queue = inner.quick_message_queue
    BY <1>1, <2>1, <2>2, InnerNormal, Zenon
  <2>4. Len(inner.quick_message_queue) \in Nat
    BY <1>1, <1>3, Zenon
  <2>5. Stored' \in Nat /\ Stored = Stored' + 1
    <3>1. /\ Stored = Len(inner.quick_message_queue) + Len(inner.message_queue)
          /\ Stored' = Len(inner.quick_message_queue) + Len(q)
      BY <2>3, Zenon DEF Stored
    <3>2. Len(inner.quick_message_queue) + (Len(q) + 1) = (Len(inner.quick_message_queue) + Len(q)) + 1 /\ Len(inner.quick_message_queue) + Len(q) \in Nat
      BY <1>2, <2>2, <2>4, Zenon
    <3> QED BY <2>2, <3>1, <3>2, Zenon
  <2>6. rx' \in Receiver /\ rx'.pc = "unpark_one"
    BY <1>0, <2>1, RxPops, Zenon
  <2> QED BY <2>1, <2>3, <2>5, <2>6, PopCounting, Zenon
<1>6. CASE PopQuick /\ ~PopsSome(inner.quick_message_queue)
  <2>1. RxGoes("normal") /\ UNCHANGED <<inner, snd, st>> /\ rx.pc = "quick"
    BY <1>6, Zenon DEF PopQuick
  <2>2. rx' \in Receiver /\ rx'.pc = "normal"
    BY <1>0, <2>1, RxMoves DEF RxPc
  <2> QED BY <2>1, <2>2, RxQuiet
<1>7. CASE PopNormal /\ ~PopsSome(inner.message_queue)
  <2>1. RxGoes("state") /\ UNCHANGED <<inner, snd, st>> /\ rx.pc = "normal"
    BY <1>7, Zenon DEF PopNormal
  <2>2. rx' \in Receiver /\ rx'.pc = "state"
    BY <1>0, <2>1, RxMoves DEF RxPc
  <2> QED BY <2>1, <2>2, RxQuiet
<1> QED BY <1>4, <1>5, <1>6, <1>7

\* A handle is taken out of parked_queue, and its task notified.
LEMMA PopParkedType ==
    ASSUME TypeOK, PopParked
    PROVE  /\ inner' \in BoundedInner /\ inner'.num_messages = inner.num_messages
           /\ inner'.is_open = inner.is_open /\ Stored' = Stored
           /\ inner'.parked_queue = Tail(inner.parked_queue) /\ inner.parked_queue # <<>>
           /\ Len(inner.parked_queue) = Len(inner.parked_queue)' + 1
           /\ Len(inner.parked_queue)' \in Nat
           /\ Head(inner.parked_queue).val \in Tasks
           /\ snd' \in [Tasks -> Sender] /\ st' \in [Tasks -> Caller] /\ Stays
<1>1. inner \in BoundedInner /\ inner.parked_queue \in Seq(ParkedNode)
  BY Zenon DEF TypeOK, BoundedInner
<1> DEFINE q == Tail(inner.parked_queue)
           s == Head(inner.parked_queue).val
<1>2. /\ inner.parked_queue # <<>> /\ inner' = [inner EXCEPT !.parked_queue = q] /\ notify(s)
  BY Zenon DEF PopParked, PopsSome
<1>3. /\ q \in Seq(ParkedNode) /\ Len(inner.parked_queue) = Len(q) + 1 /\ Len(q) \in Nat
      /\ Head(inner.parked_queue) \in ParkedNode
  BY <1>1, <1>2, TailNode, Zenon
<1>4. s \in Tasks
  BY <1>3, Zenon DEF ParkedNode
<1> HIDE DEF q, s
<1>5. /\ inner' \in BoundedInner /\ inner'.num_messages = inner.num_messages
      /\ inner'.is_open = inner.is_open /\ Stored' = Stored
      /\ inner'.parked_queue = q
  BY <1>1, <1>2, <1>3, InnerParked, Zenon DEF Stored
<1>6. snd' \in [Tasks -> Sender]
  <2>1. snd[s] \in Sender
    BY <1>4, Zenon DEF TypeOK
  <2> QED BY <1>2, <1>4, <2>1, SenderIsParked, SenderSet, Zenon DEF notify
<1>7. st' \in [Tasks -> Caller] /\ Stays
  <2>1. ASSUME NEW x \in Caller, NEW P
        PROVE  /\ [x EXCEPT !.woken = @ \/ P] \in Caller
               /\ [x EXCEPT !.woken = @ \/ P].pc = x.pc
    BY DEF Caller
  <2>2. \A t \in Tasks : st[t] \in Caller
    BY Zenon DEF TypeOK
  <2> QED BY <1>2, <2>1, <2>2, Zenon DEF notify, Stays
<1> QED BY <1>2, <1>3, <1>4, <1>5, <1>6, <1>7, Zenon DEF q, s

\* unpark_one takes out the handle that the message in hand covered.
LEMMA UnparkOneCounting ==
    ASSUME Counting, unpark_one PROVE Counting'
<1>0. TypeOK
  BY Zenon DEF Counting
<1>1. rx.pc = "unpark_one" /\ rx' \in Receiver /\ rx'.pc = "dec"
  BY <1>0, RxMoves DEF RxPc, unpark_one
<1>2. Holding = 1 /\ Holding' = 1 /\ Unparks = 1 /\ Unparks' = 0
  BY <1>1 DEF Holding, Unparks
<1>3. Stored \in Nat /\ Cardinality(Pushing) \in Nat /\ Len(inner.parked_queue) \in Nat
  BY <1>0, Naturals, Zenon
<1>4. ClosedOK'
  BY <1>1 DEF ClosedOK
<1>5. CASE PopParked
  <2>1. /\ inner' \in BoundedInner /\ inner'.num_messages = inner.num_messages /\ Stored' = Stored
        /\ Len(inner.parked_queue) = Len(inner.parked_queue)' + 1
        /\ Len(inner.parked_queue)' \in Nat
        /\ snd' \in [Tasks -> Sender] /\ st' \in [Tasks -> Caller] /\ Stays
    BY <1>0, <1>5, PopParkedType, Zenon
  <2>2. InFlight' = InFlight /\ Pushing' = Pushing
    BY <2>1, StaysSets
  <2>3. CountExact'
    BY <1>2, <2>1, <2>2, Zenon DEF Counting, CountExact
  <2>4. \A a, b, c \in Nat : a + 1 <= b + c + 1 => a <= b + c + 0
    OBVIOUS
  <2>5. ParkedCovered'
    BY <1>2, <1>3, <2>1, <2>2, <2>4, Zenon DEF Counting, ParkedCovered
  <2> QED BY <1>1, <1>4, <2>1, <2>3, <2>5, Zenon DEF Counting, TypeOK
<1>6. CASE PopsNone(inner.parked_queue) /\ UNCHANGED <<inner, snd, st>>
  <2>1. Len(inner.parked_queue) = 0
    BY <1>6 DEF PopsNone
  <2>2. \A b, c \in Nat : 0 <= b + c + 0
    OBVIOUS
  <2>3. Stored' = Stored /\ InFlight' = InFlight /\ Pushing' = Pushing
    BY <1>6, Zenon DEF Stored, InFlight, Pushing
  <2>4. CountExact'
    BY <1>2, <1>6, <2>3, Zenon DEF Counting, CountExact
  <2>5. ParkedCovered'
    BY <1>2, <1>3, <1>6, <2>1, <2>2, <2>3, Zenon DEF ParkedCovered
  <2> QED BY <1>0, <1>1, <1>4, <1>6, <2>4, <2>5, Zenon DEF Counting, TypeOK
<1> QED BY <1>5, <1>6 DEF unpark_one

\* dec_num_messages: the counter is at least 1, so it does not wrap into the open bit.
LEMMA DecCounting ==
    ASSUME Counting, dec_num_messages PROVE Counting'
<1>0. TypeOK
  BY Zenon DEF Counting
<1>1. PICK pc \in {"quick", "idle"} : RxGoes(pc)
  BY DEF dec_num_messages
<1>2. rx.pc = "dec" /\ rx' \in Receiver /\ rx'.pc = pc
  BY <1>0, <1>1, RxMoves DEF RxPc, dec_num_messages
<1>3. Holding = 1 /\ Holding' = 0 /\ Unparks = 0 /\ Unparks' = 0
  BY <1>2 DEF Holding, Unparks
<1>4. Stored \in Nat /\ Cardinality(InFlight) \in Nat /\ inner.num_messages \in Nat
  BY <1>0, Naturals, Zenon
<1>5. /\ inner.num_messages - 1 \in Nat
      /\ inner.num_messages - 1 = Stored + Cardinality(InFlight) + 0
  BY <1>3, <1>4 DEF Counting, CountExact
<1>6. inner \in BoundedInner /\ inner' = [inner EXCEPT !.num_messages = inner.num_messages - 1]
  BY <1>0, Zenon DEF TypeOK, dec_num_messages
<1>7. /\ inner' \in BoundedInner /\ inner'.num_messages = inner.num_messages - 1
      /\ inner'.parked_queue = inner.parked_queue /\ Stored' = Stored
  BY <1>5, <1>6, InnerNum, Zenon DEF Stored
<1>8. InFlight' = InFlight /\ Pushing' = Pushing
  BY Zenon DEF dec_num_messages, InFlight, Pushing
<1>9. CountExact'
  BY <1>3, <1>5, <1>7, <1>8, Zenon DEF CountExact
<1>10. ParkedCovered'
  BY <1>3, <1>7, <1>8, Zenon DEF Counting, ParkedCovered
<1>11. ClosedOK'
  BY <1>2 DEF ClosedOK
<1>12. TypeOK'
  BY <1>0, <1>2, <1>7, Zenon DEF TypeOK, dec_num_messages
<1> QED BY <1>9, <1>10, <1>11, <1>12 DEF Counting

\* close, and the loop in it.
LEMMA CloseCounting ==
    ASSUME Counting, UnparkAll \/ \E mode \in {"close", "drain"} : Close(mode)
    PROVE  Counting'
<1>0. TypeOK
  BY Zenon DEF Counting
<1>1. CASE \E mode \in {"close", "drain"} : Close(mode)
  <2>1. PICK mode \in {"close", "drain"} : Close(mode)
    BY <1>1
  <2>2. inner' = set_closed(inner) /\ inner \in BoundedInner /\ UNCHANGED <<snd, st>>
    BY <1>0, <2>1, Zenon DEF Close, TypeOK
  <2>3. /\ inner' \in BoundedInner /\ inner'.num_messages = inner.num_messages
        /\ inner'.parked_queue = inner.parked_queue /\ ~inner'.is_open /\ Stored' = Stored
    BY <2>2, InnerClosed, Zenon DEF Stored
  <2>4. rx' \in Receiver /\ rx'.pc = "unpark_all"
    BY <1>0, <2>1, Zenon DEF Close, TypeOK, Receiver
  <2>5. rx.pc \notin {"unpark_one", "dec"} /\ rx'.pc \notin {"unpark_one", "dec", "ended"}
    BY <2>1, <2>4 DEF Close, Between
  <2>6. TypeOK' /\ Stays
    BY <1>0, <2>2, <2>3, <2>4, Zenon DEF TypeOK, Stays
  <2> QED BY <2>3, <2>5, <2>6, RxCalm, Zenon
<1>2. CASE UnparkAll /\ PopParked /\ UNCHANGED rx
  <2>1. /\ inner' \in BoundedInner /\ inner'.num_messages = inner.num_messages /\ Stored' = Stored
        /\ Len(inner.parked_queue) = Len(inner.parked_queue)' + 1
        /\ Len(inner.parked_queue)' \in Nat /\ inner'.is_open = inner.is_open
        /\ snd' \in [Tasks -> Sender] /\ st' \in [Tasks -> Caller] /\ Stays
    BY <1>0, <1>2, PopParkedType, Zenon
  <2>2. InFlight' = InFlight /\ Pushing' = Pushing
    BY <2>1, StaysSets
  <2>3. rx.pc = "unpark_all" /\ Unparks = 0 /\ Unparks' = 0 /\ Holding' = Holding
    BY <1>2 DEF UnparkAll, Holding, Unparks
  <2>4. Stored \in Nat /\ Cardinality(Pushing) \in Nat
    BY <1>0, Naturals, Zenon
  <2>5. \A a, b, c \in Nat : a + 1 <= b + c + 0 => a <= b + c + 0
    OBVIOUS
  <2>6. CountExact'
    BY <2>1, <2>2, <2>3, Zenon DEF Counting, CountExact
  <2>7. ParkedCovered'
    BY <2>1, <2>2, <2>3, <2>4, <2>5, Zenon DEF Counting, ParkedCovered
  <2>8. ClosedOK'
    BY <1>2, <2>1, Zenon DEF Counting, ClosedOK
  <2>9. TypeOK'
    BY <1>0, <1>2, <2>1, Zenon DEF TypeOK
  <2> QED BY <2>6, <2>7, <2>8, <2>9 DEF Counting
<1>3. CASE UnparkAll /\ ~(PopParked /\ UNCHANGED rx)
  <2>0. /\ RxGoes(IF rx.mode = "drain" THEN "quick" ELSE "idle") /\ rx.pc = "unpark_all"
        /\ UNCHANGED <<inner, snd, st>>
    BY <1>3, Zenon DEF UnparkAll
  <2>1. PICK pc \in {"quick", "idle"} : RxGoes(pc) /\ rx.pc = "unpark_all"
    BY <2>0
  <2>2. rx' \in Receiver /\ rx'.pc = pc
    BY <1>0, <2>1, RxMoves DEF RxPc
  <2> QED BY <2>0, <2>1, <2>2, RxQuiet
<1> QED BY <1>1, <1>2, <1>3

-----------------------------------------------------------------------------
(***************************************************************************)
(* Counting                                                                *)
(***************************************************************************)
LEMMA InitCounting == ASSUME Init PROVE Counting
<1>1. Cardinality({}) = 0
  BY FS_EmptySet
<1>2. InFlight = {} /\ Pushing = {}
  BY DEF Init, InFlight, Pushing, Counted
<1>3. inner \in BoundedInner
  BY DEF Init, BoundedInner
<1>4. snd \in [Tasks -> Sender]
  BY DEF Init, Sender
<1>5. st \in [Tasks -> Caller] /\ rx \in Receiver
  BY DEF Init, Caller, Receiver
<1>6. Stored = 0 /\ Holding = 0 /\ Unparks = 0 /\ Len(inner.parked_queue) = 0 /\ inner.num_messages = 0
  BY DEF Init, Stored, Holding, Unparks
<1>7. CountExact /\ ParkedCovered
  BY <1>1, <1>2, <1>6 DEF CountExact, ParkedCovered
<1>8. ClosedOK
  BY DEF Init, ClosedOK
<1> QED BY <1>3, <1>4, <1>5, <1>7, <1>8 DEF Counting, TypeOK

\* Every step of every thread keeps the counts.
LEMMA NextCounting == ASSUME Counting, [Next]_vars PROVE Counting'
<1>1. ASSUME NEW t \in Tasks, SendStep(t) \/ Repoll(t) \/ Cancel(t) PROVE Counting'
  BY <1>1, QuietSteps, IncCounting, ParkCounting, ParkLinkCounting, ParkCheckCounting,
     PushCounting, Zenon DEF SendStep
<1>2. ASSUME NEW t \in Tasks, NEW call \in {"poll_ready", "try_send"}, Call(t, call)
      PROVE  Counting'
  BY <1>2, QuietSteps, Zenon
<1>3. ASSUME NEW s \in Tasks, NEW c \in Tasks, Clone(s, c) PROVE Counting'
  BY <1>3, OwnerCounting, Zenon
<1>4. ASSUME NEW s \in Tasks, close_channel(s) \/ DropSender(s) PROVE Counting'
  BY <1>4, OwnerCounting, Zenon
<1>5. ASSUME RecvStep \/ PollNext \/ TryNext PROVE Counting'
  BY <1>5, RxQuietSteps, PopSteps, UnparkOneCounting, DecCounting, CloseCounting, Zenon
     DEF RecvStep
<1>6. ASSUME NEW mode \in {"close", "drain"}, Close(mode) PROVE Counting'
  BY <1>6, CloseCounting, Zenon
<1>7. ASSUME UNCHANGED vars PROVE Counting'
  BY <1>7, Zenon DEF vars, Counting, TypeOK, CountExact, ParkedCovered, ClosedOK, Stored,
     InFlight, Pushing, Holding, Unparks
<1> QED BY <1>1, <1>2, <1>3, <1>4, <1>5, <1>6, <1>7, Zenon DEF Next

\* The counter, the queues, the parked handles and the tasks agree in every reachable
\* state of the channel, whether tasks share a Sender or not.
THEOREM AlwaysCounting == Spec => []Counting
  BY InitCounting, NextCounting, PTL DEF Spec

\* num_messages is exact: it counts what is in the queues, on its way and in hand, and
\* so dec_num_messages never takes it below zero.
THEOREM CountIsExact == Spec => []CountExact
<1>1. Counting => CountExact
  BY DEF Counting
<1> QED BY <1>1, AlwaysCounting, PTL

\* A receiver that empties the queues unparks every handle in parked_queue.
THEOREM ParkedAreCovered == Spec => []ParkedCovered
<1>1. Counting => ParkedCovered
  BY DEF Counting
<1> QED BY <1>1, AlwaysCounting, PTL

\* Types: num_messages is a natural number, the queues hold nodes.
THEOREM ChannelTypes == Spec => []TypeOK
<1>1. Counting => TypeOK
  BY DEF Counting
<1> QED BY <1>1, AlwaysCounting, PTL

-----------------------------------------------------------------------------
(***************************************************************************)
(* parked_queue                                                            *)
(***************************************************************************)
LEMMA CarriesAppend ==
    ASSUME NEW q \in Seq(ParkedNode), NEW n \in ParkedNode, Once(q), ~Carries(q, n.val)
    PROVE  /\ Once(Append(q, n))
           /\ \A s : Carries(Append(q, n), s) <=> Carries(q, s) \/ s = n.val
<1> DEFINE p == Append(q, n)
<1>1. /\ Len(p) = Len(q) + 1 /\ Len(q) \in Nat /\ p[Len(q) + 1] = n
      /\ \A i \in 1..Len(q) : p[i] = q[i]
  OBVIOUS
<1> HIDE DEF p
<1>2. \A i \in 1..Len(p) : i \in 1..Len(q) \/ i = Len(q) + 1
  BY <1>1
<1>3. \A i \in 1..Len(q) : i \in 1..Len(p) /\ Len(q) + 1 \in 1..Len(p)
  BY <1>1
<1>4. Len(q) + 1 \in 1..Len(p)
  BY <1>1
<1>5. \A s : Carries(p, s) <=> Carries(q, s) \/ s = n.val
  BY <1>1, <1>2, <1>3, <1>4, Zenon DEF Carries
<1>6. Once(p)
  BY <1>1, <1>2, Zenon DEF Once, Carries
<1> QED BY <1>5, <1>6 DEF p

\* A pop takes out one handle, which is not in the queue again.
LEMMA CarriesTail ==
    ASSUME NEW q \in Seq(ParkedNode), q # <<>>, Once(q)
    PROVE  /\ Once(Tail(q)) /\ Carries(q, Head(q).val)
           /\ \A s : Carries(Tail(q), s) <=> Carries(q, s) /\ s # Head(q).val
<1> DEFINE p == Tail(q)
<1>1. /\ Len(q) = Len(p) + 1 /\ Len(p) \in Nat /\ Head(q) = q[1]
      /\ \A i \in 1..Len(p) : p[i] = q[i + 1]
  OBVIOUS
<1> HIDE DEF p
<1>2. 1 \in 1..Len(q)
  BY <1>1
<1>3. \A i \in 1..Len(p) : i + 1 \in 1..Len(q) /\ i + 1 # 1
  BY <1>1
<1>4. \A i \in 1..Len(q) : i # 1 => i - 1 \in 1..Len(p) /\ (i - 1) + 1 = i
  BY <1>1
<1>5. \A i, j \in 1..Len(p) : i + 1 = j + 1 => i = j
  BY <1>1
<1>6. ASSUME NEW i \in 1..Len(p), NEW j \in 1..Len(p), p[i].val = p[j].val PROVE i = j
  <2>1. q[i + 1].val = q[j + 1].val /\ i + 1 \in 1..Len(q) /\ j + 1 \in 1..Len(q)
    BY <1>1, <1>3, <1>6, Zenon
  <2>2. i + 1 = j + 1
    BY <2>1, Zenon DEF Once
  <2> QED BY <1>5, <2>2, Zenon
<1>7. ASSUME NEW s, Carries(p, s) PROVE Carries(q, s) /\ s # Head(q).val
  <2>1. PICK i \in 1..Len(p) : p[i].val = s
    BY <1>7 DEF Carries
  <2>2. q[i + 1].val = s /\ i + 1 \in 1..Len(q) /\ i + 1 # 1
    BY <1>1, <1>3, <2>1, Zenon
  <2> QED BY <1>1, <1>2, <2>2, Zenon DEF Once, Carries
<1>8. ASSUME NEW s, Carries(q, s), s # Head(q).val PROVE Carries(p, s)
  <2>1. PICK i \in 1..Len(q) : q[i].val = s
    BY <1>8 DEF Carries
  <2>2. i # 1
    BY <1>1, <1>8, <2>1, Zenon
  <2>3. i - 1 \in 1..Len(p) /\ (i - 1) + 1 = i
    BY <1>4, <2>2, Zenon
  <2>4. p[i - 1].val = s
    BY <1>1, <2>1, <2>3, Zenon
  <2> QED BY <2>3, <2>4, Zenon DEF Carries
<1>9. Carries(q, Head(q).val)
  BY <1>1, <1>2, Zenon DEF Carries
<1> QED BY <1>6, <1>7, <1>8, <1>9, Zenon DEF p, Once

\* Linking a node moves no handle.
LEMMA CarriesLink ==
    ASSUME NEW q \in Seq(ParkedNode), NEW t \in Tasks, Once(q)
    PROVE  Once(link(q, t)) /\ \A s : Carries(link(q, t), s) <=> Carries(q, s)
  BY LinkParked, ZenonT(40) DEF Once, Carries

-----------------------------------------------------------------------------
(***************************************************************************)
(* When no Sender is shared.  The invariant says the same of every Sender; *)
(* a step of a task disturbs it for the task's own Sender only.            *)
(***************************************************************************)

\* A step of task t leaves the other Senders as they should be.
LEMMA OthersOK ==
    ASSUME SendersOK, NEW t \in Tasks,
           \A u \in Tasks : u # t => snd'[u] = snd[u] /\ st'[u] = st[u],
           inner'.is_open => inner.is_open, SenderOK(t)', WaiterOK(t)'
    PROVE  SendersOK'
<1>1. ASSUME NEW u \in Tasks, u # t PROVE SenderOK(u)' /\ WaiterOK(u)'
  <2>1. snd'[u] = snd[u] /\ st'[u] = st[u] /\ SenderOK(u) /\ WaiterOK(u)
    BY <1>1, Zenon DEF SendersOK
  <2> QED BY <2>1, Zenon DEF SenderOK, WaiterOK
<1> QED BY <1>1, Zenon DEF SendersOK

\* The cardinalities in DebtOK are natural numbers.
LEMMA SetsOfSenders ==
    /\ Cardinality(Debtors) \in Nat /\ Cardinality(Debtors)' \in Nat
    /\ Cardinality(Created) \in Nat /\ Cardinality(Created)' \in Nat
  BY TasksFinite DEF Debtors, Created

\* Senders are created and never forgotten.
LEMMA CreatedGrows ==
    ASSUME \A u \in Tasks : snd[u].life # "none" => snd'[u].life # "none"
    PROVE  Cardinality(Created) <= Cardinality(Created)'
<1>1. Created \subseteq Created' /\ IsFiniteSet(Created')
  BY TasksFinite DEF Created
<1> QED BY <1>1, FS_Subset, Zenon

\* Whoever pays has a Sender.
LEMMA DebtorsCreated ==
    ASSUME SendersOK' PROVE Cardinality(Debtors)' <= Cardinality(Created)'
<1>1. Debtors' \subseteq Created' /\ IsFiniteSet(Created')
  BY TasksFinite DEF Created, Debtors, SendersOK, SenderOK
<1> QED BY <1>1, FS_Subset, Zenon

\* The debt, when nobody parks or is unparked and the counter does not grow.
LEMMA DebtKept ==
    ASSUME DebtOK, TypeOK, inner'.num_messages = inner.num_messages, Unparked' = Unparked,
           inner'.is_open => inner.is_open,
           \A u \in Tasks : snd[u].life # "none" => snd'[u].life # "none",
           \A u \in Tasks : (st'[u].pc = "park" \/ snd'[u].is_parked)
                               <=> (st[u].pc = "park" \/ snd[u].is_parked)
    PROVE  DebtOK'
<1>1. Debtors' = Debtors
  BY DEF Debtors
<1>2. Cardinality(Created) <= Cardinality(Created)'
  BY CreatedGrows
<1>3. /\ inner.num_messages \in Nat /\ Unparked \in Nat
      /\ Cardinality(Created) \in Nat /\ Cardinality(Created)' \in Nat /\ buffer \in Nat
  BY Naturals, SetsOfSenders, ChannelAssumption DEF Unparked
<1>4. \A n, c, d, u \in Nat : n <= buffer + c + u /\ c <= d => n <= buffer + d + u
  BY ChannelAssumption
<1> QED BY <1>1, <1>2, <1>3, <1>4, Zenon DEF DebtOK

\* A step of task t that neither counts a message nor parks.
LEMMA TaskInductive ==
    ASSUME Inductive, Counting', NEW t \in Tasks,
           \A u \in Tasks : u # t => snd'[u] = snd[u] /\ st'[u] = st[u],
           inner'.is_open => inner.is_open, inner'.num_messages = inner.num_messages,
           rx'.pc = rx.pc, Once(inner.parked_queue'),
           \A s \in Tasks : Carries(inner.parked_queue', s) <=> Carries(inner.parked_queue, s),
           snd'[t].is_parked <=> snd[t].is_parked, st'[t].pc = "park" <=> st[t].pc = "park",
           snd[t].life # "none" => snd'[t].life # "none", SenderOK(t)', WaiterOK(t)'
    PROVE  Inductive'
<1>1. HandlesOK'
  BY Zenon DEF Inductive, HandlesOK
<1>2. SendersOK'
  BY OthersOK, Zenon DEF Inductive
<1>3. DebtOK'
  <2>1. Unparked' = Unparked
    BY Zenon DEF Unparked
  <2>2. \A u \in Tasks : snd[u].life # "none" => snd'[u].life # "none"
    BY Zenon
  <2>3. \A u \in Tasks : (st'[u].pc = "park" \/ snd'[u].is_parked)
                            <=> (st[u].pc = "park" \/ snd[u].is_parked)
    BY Zenon
  <2> QED BY <2>1, <2>2, <2>3, DebtKept, Zenon DEF Inductive, Counting
<1> QED BY <1>1, <1>2, <1>3 DEF Inductive

\* The same when its Sender does not change.
LEMMA PcInductive ==
    ASSUME Inductive, Counting', NEW t \in Tasks, NEW pc, st' \in [Tasks -> Caller], st'[t].pc = pc,
           \A u \in Tasks : u # t => st'[u] = st[u], UNCHANGED snd,
           inner'.is_open => inner.is_open, inner'.num_messages = inner.num_messages,
           rx'.pc = rx.pc, Once(inner.parked_queue'),
           \A s \in Tasks : Carries(inner.parked_queue', s) <=> Carries(inner.parked_queue, s),
           st[t].pc # "park", pc \notin {"park", "inc", "pending"},
           snd[t].life = "live" \/ pc = "idle",
           st[t].pc \in {"park_link", "park_check"} => pc \in {"park_link", "park_check"}
    PROVE  Inductive'
<1>1. SenderOK(t) /\ snd'[t] = snd[t]
  BY Zenon DEF Inductive, SendersOK
<1>2. snd[t].life = "live" => snd[t].life # "none" /\ snd[t].life # "gone"
  OBVIOUS
<1>3. SenderOK(t)'
  BY <1>1, <1>2, Zenon DEF SenderOK
<1>4. WaiterOK(t)'
  BY Zenon DEF WaiterOK
<1> QED BY <1>1, <1>3, <1>4, TaskInductive, Zenon

\* Whoever is in a call has a Sender.
LEMMA InCall ==
    ASSUME Inductive, NEW t \in Tasks, st[t].pc \notin {"idle", "signal"}
    PROVE  snd[t].life = "live"
<1>1. snd[t].life \in {"none", "live", "gone"}
  BY Zenon DEF Inductive, Counting, TypeOK, Sender
<1> QED BY <1>1 DEF Inductive, SendersOK, SenderOK

\* A step that leaves parked_queue alone.
LEMMA SameQueue ==
    ASSUME Inductive, inner'.parked_queue = inner.parked_queue
    PROVE  /\ Once(inner.parked_queue')
           /\ \A s \in Tasks : Carries(inner.parked_queue', s) <=> Carries(inner.parked_queue, s)
  BY Zenon DEF Inductive, HandlesOK

\* The steps of a send that change neither the Sender nor the counter.
LEMMA PcSteps ==
    ASSUME Inductive, Counting', NEW t \in Tasks,
           \/ PollReady(t) \/ Push(t) \/ Link(t) \/ Signal(t) \/ Repoll(t) \/ Cancel(t)
           \/ \E call \in {"poll_ready", "try_send"} : ~Shared /\ Call(t, call)
    PROVE  Inductive'
<1>0. TypeOK /\ inner \in BoundedInner
  BY Zenon DEF Inductive, Counting, TypeOK
<1>1. CASE PollReady(t)
  <2>1. PICK pc \in {"poll_unparked", "idle"} : Goes(t, pc)
    BY <1>1 DEF PollReady
  <2>2. Moves(t, pc)
    BY <1>0, <2>1, PcIn, GoesMoves, Zenon
  <2>3. st[t].pc = "poll_ready" /\ UNCHANGED <<inner, snd, rx>>
    BY <1>1, Zenon DEF PollReady
  <2>4. snd[t].life = "live" /\ pc \notin {"park", "inc", "pending"}
    BY <2>1, <2>3, InCall
  <2>5. Once(inner.parked_queue')
        /\ \A s \in Tasks : Carries(inner.parked_queue', s) <=> Carries(inner.parked_queue, s)
    BY <2>3, SameQueue, Zenon
  <2>6. st[t].pc # "park" /\ st[t].pc \notin {"park_link", "park_check"}
    BY <2>3
  <2> QED BY <2>2, <2>3, <2>4, <2>5, <2>6, PcInductive, Zenon DEF Moves
<1>2. CASE Push(t)
  <2>1. Moves(t, "link")
    BY <1>0, <1>2, PcIn, GoesMoves, Zenon DEF Push
  <2>2. st[t].pc = "push" /\ UNCHANGED <<snd, rx>>
    BY <1>2, Zenon DEF Push
  <2>3. /\ inner'.is_open = inner.is_open /\ inner'.num_messages = inner.num_messages
        /\ inner'.parked_queue = inner.parked_queue
    BY <1>0, <1>2 DEF Push, BoundedInner
  <2>4. snd[t].life = "live"
    BY <2>2, InCall
  <2>5. Once(inner.parked_queue')
        /\ \A s \in Tasks : Carries(inner.parked_queue', s) <=> Carries(inner.parked_queue, s)
    BY <2>3, SameQueue, Zenon
  <2>6. st[t].pc # "park" /\ st[t].pc \notin {"park_link", "park_check"}
    BY <2>2
  <2> QED BY <2>1, <2>2, <2>3, <2>4, <2>5, <2>6, PcInductive, Zenon DEF Moves
<1>3. CASE Link(t)
  <2>1. Moves(t, "signal")
    BY <1>0, <1>3, PcIn, GoesMoves, Zenon DEF Link
  <2>2. st[t].pc = "link" /\ UNCHANGED <<snd, rx>>
    BY <1>3, Zenon DEF Link
  <2>3. /\ inner'.is_open = inner.is_open /\ inner'.num_messages = inner.num_messages
        /\ inner'.parked_queue = inner.parked_queue
    BY <1>0, <1>3 DEF Link, BoundedInner
  <2>4. snd[t].life = "live"
    BY <2>2, InCall
  <2>5. Once(inner.parked_queue')
        /\ \A s \in Tasks : Carries(inner.parked_queue', s) <=> Carries(inner.parked_queue, s)
    BY <2>3, SameQueue, Zenon
  <2>6. st[t].pc # "park" /\ st[t].pc \notin {"park_link", "park_check"}
    BY <2>2
  <2> QED BY <2>1, <2>2, <2>3, <2>4, <2>5, <2>6, PcInductive, Zenon DEF Moves
<1>4. CASE Signal(t)
  <2>1. Moves(t, "idle")
    BY <1>0, <1>4, PcIn, GoesMoves, Zenon DEF Signal
  <2>2. st[t].pc = "signal" /\ UNCHANGED snd /\ rx'.pc = rx.pc
    BY <1>0, <1>4, RxWoken, Zenon DEF Signal
  <2>3. /\ inner'.is_open = inner.is_open /\ inner'.num_messages = inner.num_messages
        /\ inner'.parked_queue = inner.parked_queue
    BY <1>0, <1>4 DEF Signal, BoundedInner
  <2>5. Once(inner.parked_queue')
        /\ \A s \in Tasks : Carries(inner.parked_queue', s) <=> Carries(inner.parked_queue, s)
    BY <2>3, SameQueue, Zenon
  <2>6. st[t].pc # "park" /\ st[t].pc \notin {"park_link", "park_check"}
    BY <2>2
  <2> QED BY <2>1, <2>2, <2>3, <2>5, <2>6, PcInductive, Zenon DEF Moves
<1>5. CASE Repoll(t) \/ Cancel(t)
  <2>1. PICK pc \in {"poll_ready", "idle"} :
            st' = [st EXCEPT ![t] = [@ EXCEPT !.pc = pc, !.woken = FALSE]]
    BY <1>5 DEF Repoll, Cancel
  <2>2. /\ st' \in [Tasks -> Caller] /\ st'[t].pc = pc
        /\ \A u \in Tasks : u # t => st'[u] = st[u]
    BY <1>0, <2>1, PcIn DEF TypeOK, Caller, Pc
  <2>3. st[t].pc = "pending" /\ UNCHANGED <<inner, snd, rx>>
    BY <1>5, Zenon DEF Repoll, Cancel
  <2>4. snd[t].life = "live" /\ pc \notin {"park", "inc", "pending"}
    BY <2>1, <2>3, InCall
  <2>5. Once(inner.parked_queue')
        /\ \A s \in Tasks : Carries(inner.parked_queue', s) <=> Carries(inner.parked_queue, s)
    BY <2>3, SameQueue, Zenon
  <2>6. st[t].pc # "park" /\ st[t].pc \notin {"park_link", "park_check"}
    BY <2>3
  <2> QED BY <2>2, <2>3, <2>4, <2>5, <2>6, PcInductive, Zenon
<1>6. CASE \E call \in {"poll_ready", "try_send"} : ~Shared /\ Call(t, call)
  <2>1. PICK call \in {"poll_ready", "try_send"} : ~Shared /\ Call(t, call)
    BY <1>6
  <2>2. Moves(t, call)
    BY <1>0, <2>1, PcIn, GoesMoves, Zenon DEF Call
  <2>3. st[t].pc = "idle" /\ UNCHANGED <<inner, snd, rx>> /\ snd[t].life = "live"
    BY <2>1, Zenon DEF Call, Uses
  <2>4. call \notin {"park", "inc", "pending"}
    BY <2>1
  <2>5. Once(inner.parked_queue')
        /\ \A s \in Tasks : Carries(inner.parked_queue', s) <=> Carries(inner.parked_queue, s)
    BY <2>3, SameQueue, Zenon
  <2>6. st[t].pc # "park" /\ st[t].pc \notin {"park_link", "park_check"}
    BY <2>3
  <2> QED BY <2>2, <2>3, <2>4, <2>5, <2>6, PcInductive, Zenon DEF Moves
<1> QED BY <1>1, <1>2, <1>3, <1>4, <1>5, <1>6

\* poll_unparked, on behalf of poll_ready and of try_send.
LEMMA PollUnparkedInductive ==
    ASSUME ~Shared, Inductive, Counting', NEW t \in Tasks, PollUnparked(t) \/ TrySend(t)
    PROVE  Inductive'
<1>0. TypeOK /\ inner \in BoundedInner /\ snd[t] \in Sender /\ SenderOK(t) /\ Uses(t) = t
  BY Zenon DEF Inductive, Counting, TypeOK, SendersOK, Uses
<1>1. /\ st[t].pc \in {"poll_unparked", "start_send", "try_send"}
      /\ UNCHANGED <<inner, rx>>
  BY Zenon DEF PollUnparked, TrySend, poll_unparked
<1>2. snd[t].life = "live"
  BY <1>1, InCall
<1>3. PICK waker \in SUBSET Tasks, pending \in {"pending", "idle"}, ready \in {"start_send", "inc"} :
        poll_unparked(t, waker, pending, ready) /\ (pending = "pending" => waker = {t})
  BY DEF PollUnparked, TrySend
<1>4. /\ \A u \in Tasks : u # t => snd'[u] = snd[u]
      /\ Parked(t) => Moves(t, pending) /\ snd'[t] = [snd[t] EXCEPT !.task = waker]
      /\ ~Parked(t) => Moves(t, ready) /\ snd'[t] = [snd[t] EXCEPT !.maybe_parked = FALSE]
  <2>1. pending \in Pc /\ ready \in Pc
    BY <1>3, PcIn, Zenon
  <2> QED BY <1>0, <1>3, <2>1, PollUnparkedType, ZenonT(40)
<1>5. Once(inner.parked_queue')
      /\ \A s \in Tasks : Carries(inner.parked_queue', s) <=> Carries(inner.parked_queue, s)
  BY <1>1, SameQueue, Zenon
<1>6. st[t].pc # "park" /\ st[t].pc \notin {"park_link", "park_check"}
  BY <1>1
<1>7. CASE Parked(t)
  <2>1. /\ snd'[t].life = "live" /\ snd'[t].is_parked = snd[t].is_parked
        /\ snd'[t].maybe_parked = snd[t].maybe_parked /\ snd'[t].task = waker
    <3>1. snd'[t] = [snd[t] EXCEPT !.task = waker]
      BY <1>4, <1>7, Zenon
    <3>2. /\ [snd[t] EXCEPT !.task = waker].life = snd[t].life
          /\ [snd[t] EXCEPT !.task = waker].is_parked = snd[t].is_parked
          /\ [snd[t] EXCEPT !.task = waker].maybe_parked = snd[t].maybe_parked
          /\ [snd[t] EXCEPT !.task = waker].task = waker
      BY <1>0, SenderTask, Zenon
    <3> QED BY <1>2, <3>1, <3>2, Zenon
  <2>2. st'[t].pc = pending /\ \A u \in Tasks : u # t => st'[u] = st[u]
    BY <1>4, <1>7, Zenon DEF Moves
  <2>3. snd[t].maybe_parked /\ snd[t].is_parked
    BY <1>7, Zenon DEF Parked
  <2>4. pending \notin {"park", "inc", "park_link", "park_check"}
    BY <1>3
  <2>5. SenderOK(t)'
    BY <2>1, <2>2, <2>3, <2>4, Zenon DEF SenderOK
  <2>6. WaiterOK(t)'
    BY <1>3, <2>1, <2>2, <2>3 DEF WaiterOK
  <2> QED BY <1>1, <1>4, <1>5, <1>6, <2>1, <2>2, <2>4, <2>5, <2>6, TaskInductive, Zenon
<1>8. CASE ~Parked(t)
  <2>1. /\ snd'[t].life = "live" /\ snd'[t].is_parked = snd[t].is_parked
        /\ snd'[t].maybe_parked = FALSE
    BY <1>0, <1>2, <1>4, <1>8, SenderMaybeParked, Zenon
  <2>2. st'[t].pc = ready /\ \A u \in Tasks : u # t => st'[u] = st[u]
    BY <1>4, <1>8, Zenon DEF Moves
  <2>3. inner.is_open => ~snd[t].is_parked
    BY <1>0, <1>2, <1>6, <1>8, Zenon DEF Parked, SenderOK
  <2>4. ready \notin {"park", "pending", "idle"}
    BY <1>3
  <2>5. SenderOK(t)'
    BY <1>1, <2>1, <2>2, <2>3, <2>4 DEF SenderOK
  <2>6. WaiterOK(t)'
    BY <2>2, <2>4 DEF WaiterOK
  <2> QED BY <1>1, <1>4, <1>5, <1>6, <2>1, <2>2, <2>4, <2>5, <2>6, TaskInductive, Zenon
<1> QED BY <1>7, <1>8

\* ParkLink and ParkCheck.
LEMMA ParkStepsInductive ==
    ASSUME ~Shared, Inductive, Counting', NEW t \in Tasks, ParkLink(t) \/ ParkCheck(t)
    PROVE  Inductive'
<1>0. TypeOK /\ inner \in BoundedInner /\ snd[t] \in Sender /\ SenderOK(t) /\ Uses(t) = t
  BY Zenon DEF Inductive, Counting, TypeOK, SendersOK, Uses
<1>1. CASE ParkLink(t)
  <2>1. Moves(t, "park_check") /\ st[t].pc = "park_link" /\ UNCHANGED <<snd, rx>>
    BY <1>0, <1>1, PcIn, GoesMoves, Zenon DEF ParkLink
  <2>2. inner.parked_queue \in Seq(ParkedNode)
    BY <1>0, Zenon DEF BoundedInner
  <2>3. /\ inner'.is_open = inner.is_open /\ inner'.num_messages = inner.num_messages
        /\ inner'.parked_queue = link(inner.parked_queue, t)
    BY <1>0, <1>1, Zenon DEF ParkLink, BoundedInner
  <2>4. Once(inner.parked_queue')
        /\ \A s \in Tasks : Carries(inner.parked_queue', s) <=> Carries(inner.parked_queue, s)
    <3>1. Once(inner.parked_queue)
      BY Zenon DEF Inductive, HandlesOK
    <3>2. /\ Once(link(inner.parked_queue, t))
          /\ \A s : Carries(link(inner.parked_queue, t), s) <=> Carries(inner.parked_queue, s)
      BY <2>2, <3>1, CarriesLink, Zenon
    <3> QED BY <2>3, <3>2, Zenon
  <2>5. snd[t].life = "live"
    BY <2>1, InCall
  <2>6. st[t].pc # "park"
    BY <2>1
  <2> QED BY <2>1, <2>3, <2>4, <2>5, <2>6, PcInductive, Zenon DEF Moves
<1>2. CASE ParkCheck(t)
  <2>1. Moves(t, "push") /\ st[t].pc = "park_check" /\ UNCHANGED <<inner, rx>>
    BY <1>0, <1>2, PcIn, GoesMoves, Zenon DEF ParkCheck
  <2>2. snd[t].life = "live" /\ inner.is_open \in BOOLEAN
    BY <1>0, <2>1, InCall DEF BoundedInner
  <2>3. snd' = [snd EXCEPT ![t] = [snd[t] EXCEPT !.maybe_parked = inner.is_open]]
    BY <1>0, <1>2, Zenon DEF ParkCheck
  <2>4. /\ snd'[t] = [snd[t] EXCEPT !.maybe_parked = inner.is_open]
        /\ \A u \in Tasks : u # t => snd'[u] = snd[u]
    BY <1>0, <2>2, <2>3, SenderMaybeParked, SenderSet, Zenon
  <2>5. /\ snd'[t].life = "live" /\ snd'[t].is_parked = snd[t].is_parked
        /\ snd'[t].maybe_parked = inner.is_open
    <3>1. /\ [snd[t] EXCEPT !.maybe_parked = inner.is_open].life = snd[t].life
          /\ [snd[t] EXCEPT !.maybe_parked = inner.is_open].is_parked = snd[t].is_parked
          /\ [snd[t] EXCEPT !.maybe_parked = inner.is_open].maybe_parked = inner.is_open
      BY <1>0, <2>2, SenderMaybeParked, Zenon
    <3> QED BY <2>2, <2>4, <3>1, Zenon
  <2>6. Once(inner.parked_queue')
        /\ \A s \in Tasks : Carries(inner.parked_queue', s) <=> Carries(inner.parked_queue, s)
    BY <2>1, SameQueue, Zenon
  <2>7. st'[t].pc = "push" /\ \A u \in Tasks : u # t => st'[u] = st[u]
    BY <2>1, Zenon DEF Moves
  <2>8. SenderOK(t)'
    BY <2>1, <2>5, <2>7, Zenon DEF SenderOK
  <2>9. WaiterOK(t)'
    BY <2>7, Zenon DEF WaiterOK
  <2>10. (st'[t].pc = "park" <=> st[t].pc = "park") /\ snd'[t].life # "none"
    BY <2>1, <2>5, <2>7
  <2> QED BY <2>1, <2>4, <2>5, <2>6, <2>7, <2>8, <2>9, <2>10, TaskInductive, Zenon
<1> QED BY <1>1, <1>2

\* park: the handle goes into the queue, once.
LEMMA ParkInductive ==
    ASSUME ~Shared, Inductive, Counting', NEW t \in Tasks, Park(t)
    PROVE  Inductive'
<1>0. TypeOK /\ inner \in BoundedInner /\ snd[t] \in Sender /\ SenderOK(t) /\ Uses(t) = t
  BY Zenon DEF Inductive, Counting, TypeOK, SendersOK, Uses
<1>1. Moves(t, "park_link") /\ st[t].pc = "park" /\ UNCHANGED rx
  BY <1>0, PcIn, GoesMoves, Zenon DEF Park
<1>2. st'[t].pc = "park_link" /\ \A u \in Tasks : u # t => st'[u] = st[u]
  BY <1>1, Zenon DEF Moves
<1>3. snd[t].life = "live" /\ ~snd[t].is_parked
  BY <1>0, <1>1, InCall DEF SenderOK
<1>4. snd' = [snd EXCEPT ![t] = [snd[t] EXCEPT !.task = {}, !.is_parked = TRUE]]
  BY <1>0, Zenon DEF Park
<1>5. /\ snd'[t].life = "live" /\ snd'[t].is_parked
      /\ \A u \in Tasks : u # t => snd'[u] = snd[u]
  <2>1. /\ [snd[t] EXCEPT !.task = {}, !.is_parked = TRUE].life = "live"
        /\ [snd[t] EXCEPT !.task = {}, !.is_parked = TRUE].is_parked
        /\ [snd[t] EXCEPT !.task = {}, !.is_parked = TRUE] \in Sender
    BY <1>0, <1>3, Zenon DEF Sender
  <2> QED BY <1>0, <1>4, <2>1, SenderSet, Zenon
<1> DEFINE n == [unlinked |-> {t}, val |-> t]
<1>6. /\ inner'.is_open = inner.is_open /\ inner'.num_messages = inner.num_messages
      /\ inner'.parked_queue = Append(inner.parked_queue, n)
  BY <1>0, Zenon DEF Park, BoundedInner
<1>7. inner.parked_queue \in Seq(ParkedNode) /\ n \in ParkedNode /\ n.val = t
  BY <1>0 DEF BoundedInner, ParkedNode
<1> HIDE DEF n
<1>8. /\ Once(inner.parked_queue) /\ ~Carries(inner.parked_queue, t)
      /\ \A s \in Tasks : snd[s].is_parked <=> Carries(inner.parked_queue, s)
  BY <1>3, Zenon DEF Inductive, HandlesOK
<1>9. /\ Once(inner'.parked_queue)
      /\ \A s : Carries(inner'.parked_queue, s) <=> Carries(inner.parked_queue, s) \/ s = t
  <2>1. ~Carries(inner.parked_queue, n.val)
    BY <1>7, <1>8, Zenon
  <2>2. /\ Once(Append(inner.parked_queue, n))
        /\ \A s : Carries(Append(inner.parked_queue, n), s)
                    <=> Carries(inner.parked_queue, s) \/ s = n.val
    BY <1>7, <1>8, <2>1, CarriesAppend, Zenon
  <2> QED BY <1>6, <1>7, <2>2, Zenon
<1>10. HandlesOK'
  BY <1>5, <1>8, <1>9, Zenon DEF HandlesOK
<1>11. SendersOK'
  <2>1. SenderOK(t)'
    BY <1>2, <1>5, Zenon DEF SenderOK
  <2>2. WaiterOK(t)'
    BY <1>2, Zenon DEF WaiterOK
  <2> QED BY <1>2, <1>5, <1>6, <2>1, <2>2, OthersOK, Zenon DEF Inductive
<1>12. DebtOK'
  <2>1. Unparked' = Unparked
    BY <1>1, Zenon DEF Unparked
  <2>2. \A u \in Tasks : snd[u].life # "none" => snd'[u].life # "none"
    BY <1>5, Zenon
  <2>3. \A u \in Tasks : (st'[u].pc = "park" \/ snd'[u].is_parked)
                            <=> (st[u].pc = "park" \/ snd[u].is_parked)
    BY <1>1, <1>2, <1>5, Zenon
  <2> QED BY <1>0, <1>6, <2>1, <2>2, <2>3, DebtKept, Zenon DEF Inductive
<1> QED BY <1>10, <1>11, <1>12 DEF Inductive

\* A message is counted: below the limit, or its Sender goes and parks.
LEMMA IncInductive ==
    ASSUME ~Shared, Inductive, Counting', NEW t \in Tasks, inc_num_messages(t)
    PROVE  Inductive'
<1>0. TypeOK /\ inner \in BoundedInner /\ SenderOK(t) /\ snd[t] \in Sender
  BY Zenon DEF Inductive, Counting, TypeOK, SendersOK
<1>1. st[t].pc = "inc" /\ UNCHANGED <<snd, rx>>
  BY Zenon DEF inc_num_messages
<1>2. snd[t].life = "live"
  BY <1>1, InCall
<1>3. CASE ~inner.is_open
  <2>1. Goes(t, "idle") /\ UNCHANGED inner
    BY <1>3, Zenon DEF inc_num_messages
  <2>2. Moves(t, "idle")
    BY <1>0, <2>1, PcIn, GoesMoves, Zenon
  <2>3. Once(inner.parked_queue')
        /\ \A s \in Tasks : Carries(inner.parked_queue', s) <=> Carries(inner.parked_queue, s)
    BY <2>1, SameQueue, Zenon
  <2>4. st[t].pc # "park" /\ st[t].pc \notin {"park_link", "park_check"}
    BY <1>1
  <2> QED BY <1>1, <2>1, <2>2, <2>3, <2>4, PcInductive, Zenon DEF Moves
<1>4. CASE inner.is_open
  <2>1. PICK pc \in {"park", "push"} :
          /\ Goes(t, pc) /\ inner' = [inner EXCEPT !.num_messages = inner.num_messages + 1]
          /\ pc = "push" => ~(inner.num_messages + 1 > buffer)
    BY <1>4 DEF inc_num_messages
  <2>2. Moves(t, pc)
    BY <1>0, <2>1, PcIn, GoesMoves, Zenon
  <2>3. /\ inner'.is_open = inner.is_open /\ inner'.num_messages = inner.num_messages + 1
        /\ inner'.parked_queue = inner.parked_queue
    BY <1>0, <2>1, Zenon DEF BoundedInner
  <2>4. st'[t].pc = pc /\ \A u \in Tasks : u # t => st'[u] = st[u]
    BY <2>2, Zenon DEF Moves
  <2>5. ~snd[t].is_parked /\ snd'[t] = snd[t]
    BY <1>0, <1>1, <1>4, Zenon DEF SenderOK
  <2>6. HandlesOK'
    BY <1>1, <2>3, Zenon DEF Inductive, HandlesOK
  <2>7. SendersOK'
    <3>1. SenderOK(t)'
      BY <1>2, <2>4, <2>5, Zenon DEF SenderOK
    <3>2. WaiterOK(t)'
      BY <2>1, <2>4 DEF WaiterOK
    <3> QED BY <1>1, <2>3, <2>4, <3>1, <3>2, OthersOK, Zenon DEF Inductive
  <2>8. /\ inner.num_messages \in Nat /\ Unparked \in Nat /\ Unparked' = Unparked /\ buffer \in Nat
        /\ Cardinality(Debtors) \in Nat /\ Cardinality(Debtors)' \in Nat
        /\ Cardinality(Created) \in Nat /\ Cardinality(Created)' \in Nat
    BY <1>0, <1>1, Naturals, SetsOfSenders, ChannelAssumption DEF Unparked
  <2>9. CASE pc = "push"
    <3>1. inner.num_messages + 1 <= buffer
      BY <2>1, <2>8, <2>9
    <3>2. \A c, u \in Nat : inner.num_messages + 1 <= buffer + c + u
      BY <2>8, <3>1
    <3>3. DebtOK'
      BY <2>3, <2>8, <3>2, Zenon DEF DebtOK
    <3> QED BY <2>6, <2>7, <3>3 DEF Inductive
  <2>10. CASE pc = "park"
    <3>1. t \notin Debtors /\ t \in Debtors' /\ \A u \in Tasks : u # t => (u \in Debtors <=> u \in Debtors')
      BY <1>1, <2>4, <2>5, <2>10 DEF Debtors
    <3>2. Debtors \in SUBSET Tasks /\ Debtors' \in SUBSET Tasks
      BY DEF Debtors
    <3>3. Cardinality(Debtors') = Cardinality(Debtors) + 1
      BY <3>1, <3>2, OneTask, Zenon
    <3>4. Cardinality(Debtors)' <= Cardinality(Created)'
      BY <2>7, DebtorsCreated, Zenon
    <3>5. inner.num_messages <= buffer + Cardinality(Debtors) + Unparked
      BY <1>4, Zenon DEF Inductive, DebtOK
    <3>6. \A m, d, c, u \in Nat : m <= buffer + d + u /\ d + 1 <= c =>
             m + 1 <= buffer + (d + 1) + u /\ m + 1 <= buffer + c + u
      BY <2>8
    <3>7. DebtOK'
      <4>1. /\ inner.num_messages + 1 <= buffer + (Cardinality(Debtors) + 1) + Unparked
            /\ inner.num_messages + 1 <= buffer + Cardinality(Created)' + Unparked
        BY <2>8, <3>3, <3>4, <3>5, <3>6
      <4> QED BY <2>3, <2>8, <3>3, <4>1, Zenon DEF DebtOK
    <3> QED BY <2>6, <2>7, <3>7 DEF Inductive
  <2> QED BY <2>9, <2>10
<1> QED BY <1>3, <1>4

\* Clone, close_channel and drop of a Sender.
LEMMA OwnerInductive ==
    ASSUME Inductive, Counting', NEW s \in Tasks,
           close_channel(s) \/ DropSender(s) \/ \E c \in Tasks : Clone(s, c)
    PROVE  Inductive'
<1>0. TypeOK /\ inner \in BoundedInner /\ \A u \in Tasks : snd[u] \in Sender /\ SenderOK(u)
  BY Zenon DEF Inductive, Counting, TypeOK, SendersOK
<1>1. /\ set_closed(inner).num_messages = inner.num_messages /\ ~set_closed(inner).is_open
      /\ set_closed(inner).parked_queue = inner.parked_queue
  BY <1>0, InnerClosed, Zenon
<1>2. CASE close_channel(s)
  <2>1. /\ Goes(s, "signal") /\ st[s].pc = "idle" /\ inner' = set_closed(inner)
        /\ UNCHANGED <<snd, rx>> /\ snd[s].life = "live"
    BY <1>2, Zenon DEF close_channel, Unused
  <2>2. Moves(s, "signal")
    BY <1>0, <2>1, PcIn, GoesMoves, Zenon
  <2>3. Once(inner.parked_queue')
        /\ \A u \in Tasks : Carries(inner.parked_queue', u) <=> Carries(inner.parked_queue, u)
    BY <1>1, <2>1, SameQueue, Zenon
  <2>4. st[s].pc # "park" /\ st[s].pc \notin {"park_link", "park_check"}
    BY <2>1
  <2> QED BY <1>1, <2>1, <2>2, <2>3, <2>4, PcInductive, Zenon DEF Moves
<1>3. CASE DropSender(s)
  <2>1. /\ snd' = [snd EXCEPT ![s] = [snd[s] EXCEPT !.life = "gone", !.maybe_parked = FALSE]]
        /\ st[s].pc = "idle" /\ UNCHANGED rx /\ snd[s].life = "live"
        /\ \/ Goes(s, "signal") /\ inner' = set_closed(inner)
           \/ UNCHANGED <<inner, st>>
    BY <1>3, Zenon DEF DropSender, Unused
  <2>2. /\ snd'[s] = [snd[s] EXCEPT !.life = "gone", !.maybe_parked = FALSE]
        /\ \A u \in Tasks : u # s => snd'[u] = snd[u]
    BY <1>0, <2>1, SenderLife, SenderSet, Zenon
  <2>3. snd'[s].life = "gone" /\ snd'[s].is_parked = snd[s].is_parked
    <3>1. /\ [snd[s] EXCEPT !.life = "gone", !.maybe_parked = FALSE].life = "gone"
          /\ [snd[s] EXCEPT !.life = "gone", !.maybe_parked = FALSE].is_parked = snd[s].is_parked
      BY <1>0, SenderLife, Zenon
    <3> QED BY <2>2, <3>1, Zenon
  <2>4. /\ st'[s].pc \in {"idle", "signal"} /\ \A u \in Tasks : u # s => st'[u] = st[u]
        /\ inner'.is_open => inner.is_open
        /\ inner'.num_messages = inner.num_messages /\ inner'.parked_queue = inner.parked_queue
    <3>1. CASE Goes(s, "signal") /\ inner' = set_closed(inner)
      <4>1. Moves(s, "signal")
        BY <1>0, <3>1, PcIn, GoesMoves, Zenon
      <4> QED BY <1>1, <3>1, <4>1, Zenon DEF Moves
    <3>2. CASE UNCHANGED <<inner, st>>
      BY <2>1, <3>2, Zenon
    <3> QED BY <2>1, <3>1, <3>2
  <2>5. Once(inner.parked_queue')
        /\ \A u \in Tasks : Carries(inner.parked_queue', u) <=> Carries(inner.parked_queue, u)
    BY <2>4, SameQueue, Zenon
  <2>6. SenderOK(s)'
    BY <2>3, <2>4, Zenon DEF SenderOK
  <2>7. WaiterOK(s)'
    BY <2>4, Zenon DEF WaiterOK
  <2>8. (st'[s].pc = "park" <=> st[s].pc = "park") /\ snd'[s].life # "none"
    BY <2>1, <2>3, <2>4
  <2> QED BY <2>1, <2>2, <2>3, <2>4, <2>5, <2>6, <2>7, <2>8, TaskInductive, Zenon
<1>4. CASE \E c \in Tasks : Clone(s, c)
  <2>1. PICK c \in Tasks : Clone(s, c)
    BY <1>4
  <2>2. /\ snd' = [snd EXCEPT ![c] = [snd[c] EXCEPT !.life = "live"]] /\ UNCHANGED <<inner, st, rx>>
        /\ snd[c].life = "none"
    BY <2>1, Zenon DEF Clone
  <2>3. /\ snd'[c] = [snd[c] EXCEPT !.life = "live"]
        /\ \A u \in Tasks : u # c => snd'[u] = snd[u]
    BY <1>0, <2>2, SenderLife, SenderSet, Zenon
  <2>4. snd'[c].life = "live" /\ snd'[c].is_parked = snd[c].is_parked
    <3>1. /\ [snd[c] EXCEPT !.life = "live"].life = "live"
          /\ [snd[c] EXCEPT !.life = "live"].is_parked = snd[c].is_parked
      BY <1>0, SenderLife, Zenon
    <3> QED BY <2>3, <3>1, Zenon
  <2>5. st'[c].pc = "idle" /\ st[c].pc = "idle" /\ ~snd[c].is_parked
    BY <1>0, <2>2, Zenon DEF SenderOK
  <2>6. Once(inner.parked_queue')
        /\ \A u \in Tasks : Carries(inner.parked_queue', u) <=> Carries(inner.parked_queue, u)
    BY <2>2, SameQueue, Zenon
  <2>7. SenderOK(c)'
    BY <2>4, <2>5, Zenon DEF SenderOK
  <2>8. WaiterOK(c)'
    BY <2>5, Zenon DEF WaiterOK
  <2>9. snd'[c].life # "none"
    BY <2>4
  <2>10. \A u \in Tasks : u # c => st'[u] = st[u]
    BY <2>2, Zenon
  <2> QED BY <2>2, <2>3, <2>4, <2>5, <2>6, <2>7, <2>8, <2>9, <2>10, TaskInductive, Zenon
<1> QED BY <1>2, <1>3, <1>4

\* A step of the receiver that unparks nobody.
LEMMA RxInductive ==
    ASSUME Inductive, Counting', UNCHANGED <<snd, st>>, inner'.is_open => inner.is_open,
           inner'.parked_queue = inner.parked_queue,
           inner'.num_messages + Unparked <= inner.num_messages + Unparked'
    PROVE  Inductive'
<1>1. HandlesOK'
  BY Zenon DEF Inductive, HandlesOK
<1>2. SendersOK'
  BY Zenon DEF Inductive, SendersOK, SenderOK, WaiterOK
<1>3. Debtors' = Debtors /\ Created' = Created
  BY Zenon DEF Debtors, Created
<1>4. /\ inner.num_messages \in Nat /\ inner'.num_messages \in Nat
  BY Zenon DEF Inductive, Counting, TypeOK, BoundedInner
<1>5. /\ Unparked \in Nat /\ Unparked' \in Nat /\ buffer \in Nat
      /\ Cardinality(Debtors) \in Nat /\ Cardinality(Created) \in Nat
  BY SetsOfSenders, ChannelAssumption DEF Unparked
<1>6. \A m, n, u, v, c \in Nat :
         m + u <= n + v /\ n <= buffer + c + u => m <= buffer + c + v
  BY <1>5
<1>7. /\ inner.num_messages <= buffer + Cardinality(Debtors) + Unparked =>
            inner'.num_messages <= buffer + Cardinality(Debtors) + Unparked'
      /\ inner.num_messages <= buffer + Cardinality(Created) + Unparked =>
            inner'.num_messages <= buffer + Cardinality(Created) + Unparked'
  BY <1>4, <1>5, <1>6
<1>8. DebtOK'
  BY <1>3, <1>7, Zenon DEF Inductive, DebtOK
<1> QED BY <1>1, <1>2, <1>8 DEF Inductive

\* What notify does to a task.
LEMMA CallerWoken ==
    ASSUME NEW x \in Caller, NEW P
    PROVE  /\ [x EXCEPT !.woken = x.woken \/ P].pc = x.pc
           /\ [x EXCEPT !.woken = x.woken \/ P].woken = (x.woken \/ P)
BY Zenon DEF Caller

\* A handle is taken out: its task is woken if it waits.
LEMMA PopParkedInductive ==
    ASSUME Inductive, PopParked
    PROVE  /\ HandlesOK' /\ SendersOK' /\ Created' = Created
           /\ Cardinality(Debtors) = Cardinality(Debtors)' + 1
<1>0. TypeOK /\ inner.parked_queue \in Seq(ParkedNode)
  BY Zenon DEF Inductive, Counting, TypeOK, BoundedInner
<1>a. PICK s \in Tasks : s = Head(inner.parked_queue).val
  BY <1>0, PopParkedType, Zenon
<1>1. /\ inner'.parked_queue = Tail(inner.parked_queue) /\ inner.parked_queue # <<>>
      /\ s \in Tasks /\ inner'.is_open = inner.is_open /\ Stays
  BY <1>0, <1>a, PopParkedType, Zenon
<1>2. notify(s)
  BY <1>a, Zenon DEF PopParked
<1>3. Once(inner.parked_queue)
  BY Zenon DEF Inductive, HandlesOK
<1>4. /\ Once(Tail(inner.parked_queue)) /\ Carries(inner.parked_queue, s)
      /\ \A u : Carries(Tail(inner.parked_queue), u) <=> Carries(inner.parked_queue, u) /\ u # s
  BY <1>0, <1>1, <1>3, <1>a, CarriesTail, Zenon
<1>5. snd[s] \in Sender /\ snd[s].is_parked
  BY <1>0, <1>1, <1>4, Zenon DEF TypeOK, Inductive, HandlesOK
<1>6. /\ snd'[s] = [snd[s] EXCEPT !.is_parked = FALSE, !.task = {}]
      /\ \A u \in Tasks : u # s => snd'[u] = snd[u]
  BY <1>0, <1>1, <1>2, <1>5, SenderIsParked, SenderSet, Zenon DEF notify
<1>7. snd'[s].life = snd[s].life /\ ~snd'[s].is_parked
  <2>1. /\ [snd[s] EXCEPT !.is_parked = FALSE, !.task = {}].life = snd[s].life
        /\ ~[snd[s] EXCEPT !.is_parked = FALSE, !.task = {}].is_parked
    BY <1>5, SenderIsParked, Zenon
  <2> QED BY <1>6, <2>1, Zenon
<1>8. /\ \A u \in Tasks : st'[u].pc = st[u].pc
      /\ \A u \in Tasks : st[u].woken => st'[u].woken
      /\ s \in snd[s].task /\ st[s].pc = "pending" => st'[s].woken
  <2>1. ASSUME NEW u \in Tasks
        PROVE  /\ st'[u].pc = st[u].pc
               /\ st[u].woken => st'[u].woken
               /\ u \in snd[s].task /\ st[u].pc = "pending" => st'[u].woken
    <3> DEFINE P == u \in snd[s].task /\ st[u].pc = "pending"
    <3>1. st[u] \in Caller
      BY <1>0, <2>1, Zenon DEF TypeOK
    <3>2. st'[u] = [st[u] EXCEPT !.woken = st[u].woken \/ P]
      BY <1>2, <2>1, Zenon DEF notify
    <3> HIDE DEF P
    <3>3. /\ st'[u].pc = st[u].pc
          /\ st'[u].woken = (st[u].woken \/ P)
      <4>1. /\ [st[u] EXCEPT !.woken = st[u].woken \/ P].pc = st[u].pc
            /\ [st[u] EXCEPT !.woken = st[u].woken \/ P].woken = (st[u].woken \/ P)
        BY <3>1, CallerWoken
      <4> QED BY <3>2, <4>1, Zenon
    <3>4. (st[u].woken => st'[u].woken) /\ (P => st'[u].woken)
      BY <3>3, Zenon
    <3> QED BY <3>3, <3>4, Zenon DEF P
  <2> QED BY <1>1, <2>1, Zenon
<1>9. HandlesOK'
  BY <1>1, <1>4, <1>6, <1>7, Zenon DEF Inductive, HandlesOK
<1>10. SendersOK'
  <2>1. ASSUME NEW u \in Tasks, u # s PROVE SenderOK(u)' /\ WaiterOK(u)'
    <3>1. /\ snd'[u] = snd[u] /\ st'[u].pc = st[u].pc /\ (st[u].woken => st'[u].woken)
          /\ SenderOK(u) /\ WaiterOK(u)
      BY <1>6, <1>8, <2>1, Zenon DEF Inductive, SendersOK
    <3> QED BY <1>1, <3>1, Zenon DEF SenderOK, WaiterOK
  <2>2. SenderOK(s) /\ WaiterOK(s)
    BY <1>1, Zenon DEF Inductive, SendersOK
  <2>3. st'[s].pc = st[s].pc
    BY <1>1, <1>8, Zenon
  <2>4. SenderOK(s)'
    <3>1. snd[s].life = "none" => st[s].pc = "idle"
      BY <2>2, Zenon DEF SenderOK
    <3>2. snd[s].life = "gone" => st[s].pc \in {"idle", "signal"}
      BY <2>2, Zenon DEF SenderOK
    <3> QED BY <1>7, <2>3, <3>1, <3>2, Zenon DEF SenderOK
  <2>5. WaiterOK(s)'
    <3>1. st[s].pc = "pending" => st[s].woken \/ s \in snd[s].task
      BY <2>2, Zenon DEF WaiterOK
    <3>2. st[s].woken => st'[s].woken
      BY <1>1, <1>8, Zenon
    <3> QED BY <1>8, <2>3, <3>1, <3>2, Zenon DEF WaiterOK
  <2> QED BY <2>1, <2>4, <2>5, Zenon DEF SendersOK
<1>11. Created' = Created
  BY <1>6, <1>7 DEF Created
<1>12. st[s].pc # "park"
  BY <1>1, <1>5, Zenon DEF Inductive, SendersOK, SenderOK
<1>13. s \in Debtors /\ s \notin Debtors' /\ \A u \in Tasks : u # s => (u \in Debtors <=> u \in Debtors')
  BY <1>1, <1>5, <1>6, <1>7, <1>8, <1>12, Zenon DEF Debtors
<1>14. Debtors \in SUBSET Tasks /\ Debtors' \in SUBSET Tasks
  BY DEF Debtors
<1>15. Cardinality(Debtors) = Cardinality(Debtors') + 1
  BY <1>1, <1>13, <1>14, OneTask, Zenon
<1> QED BY <1>9, <1>10, <1>11, <1>15

\* unpark_one, and the pop of unpark_all.
LEMMA UnparkInductive ==
    ASSUME Inductive, Counting', PopParked,
           \/ rx.pc = "unpark_one" /\ rx'.pc = "dec"
           \/ rx.pc = "unpark_all" /\ rx' = rx
    PROVE  Inductive'
<1>0. TypeOK /\ ClosedOK /\ DebtOK
  BY Zenon DEF Inductive, Counting
<1>1. /\ HandlesOK' /\ SendersOK' /\ Created' = Created
      /\ Cardinality(Debtors) = Cardinality(Debtors)' + 1
  BY PopParkedInductive
<1>2. inner'.num_messages = inner.num_messages /\ inner'.is_open = inner.is_open
  BY <1>0, PopParkedType, Zenon
<1>3. /\ inner.num_messages \in Nat /\ buffer \in Nat
      /\ Cardinality(Debtors) \in Nat /\ Cardinality(Created) \in Nat
      /\ Cardinality(Debtors)' \in Nat
  <2>1. inner.num_messages \in Nat
    BY <1>0, Zenon DEF TypeOK, BoundedInner
  <2>2. Debtors' \in SUBSET Tasks
    BY DEF Debtors
  <2>3. Cardinality(Debtors') \in Nat
    BY <2>2, TasksFinite, FS_CardinalityType, FS_Subset, Zenon
  <2> QED BY <2>1, <2>3, SetsOfSenders, ChannelAssumption
<1>4. DebtOK'
  <2>1. CASE rx.pc = "unpark_one" /\ rx'.pc = "dec"
    <3>1. Unparked = 0 /\ Unparked' = 1
      BY <2>1 DEF Unparked
    <3> QED BY <1>0, <1>1, <1>2, <1>3, <3>1 DEF DebtOK
  <2>2. CASE rx.pc = "unpark_all" /\ rx' = rx
    <3>1. ~inner.is_open
      BY <1>0, <2>2, Zenon DEF ClosedOK
    <3>2. Unparked' = Unparked
      BY <2>2 DEF Unparked
    <3> QED BY <1>0, <1>1, <1>2, <3>1, <3>2, Zenon DEF DebtOK
  <2> QED BY <2>1, <2>2
<1> QED BY <1>1, <1>4 DEF Inductive

\* The steps of the receiver.
LEMMA RecvInductive ==
    ASSUME Inductive, Counting',
           RecvStep \/ PollNext \/ TryNext \/ \E mode \in {"close", "drain"} : Close(mode)
    PROVE  Inductive'
<1>0. TypeOK /\ inner \in BoundedInner /\ inner.num_messages \in Nat
  BY Zenon DEF Inductive, Counting, TypeOK, BoundedInner
<1>1. ASSUME UNCHANGED <<snd, st>>, rx.pc # "dec", inner'.is_open => inner.is_open,
             inner'.parked_queue = inner.parked_queue,
             inner'.num_messages = inner.num_messages
      PROVE  Inductive'
  <2>1. Unparked = 0 /\ Unparked' \in Nat
    BY <1>1 DEF Unparked
  <2>2. inner'.num_messages + Unparked <= inner.num_messages + Unparked'
    BY <1>0, <1>1, <2>1
  <2> QED BY <1>1, <2>2, RxInductive
<1>2. CASE PollNext \/ TryNext \/ LoadState
  <2>1. UNCHANGED <<inner, snd, st>> /\ rx.pc # "dec"
    BY <1>2 DEF PollNext, TryNext, LoadState, Between
  <2> QED BY <1>1, <2>1, Zenon
<1>3. CASE PopQuick
  <2>1. UNCHANGED <<snd, st>> /\ rx.pc # "dec"
    BY <1>3 DEF PopQuick
  <2>2. /\ inner'.is_open = inner.is_open /\ inner'.parked_queue = inner.parked_queue
        /\ inner'.num_messages = inner.num_messages
    <3>1. PICK q \in {inner.quick_message_queue, Tail(inner.quick_message_queue)} :
             inner' = inner \/ inner' = [inner EXCEPT !.quick_message_queue = q]
      BY <1>3, Zenon DEF PopQuick
    <3> QED BY <1>0, <3>1, Zenon DEF BoundedInner
  <2> QED BY <1>1, <2>1, <2>2, Zenon
<1>4. CASE PopNormal
  <2>1. UNCHANGED <<snd, st>> /\ rx.pc # "dec"
    BY <1>4 DEF PopNormal
  <2>2. /\ inner'.is_open = inner.is_open /\ inner'.parked_queue = inner.parked_queue
        /\ inner'.num_messages = inner.num_messages
    <3>1. PICK q \in {inner.message_queue, Tail(inner.message_queue)} :
             inner' = inner \/ inner' = [inner EXCEPT !.message_queue = q]
      BY <1>4, Zenon DEF PopNormal
    <3> QED BY <1>0, <3>1, Zenon DEF BoundedInner
  <2> QED BY <1>1, <2>1, <2>2, Zenon
<1>5. CASE Register
  <2>1. UNCHANGED <<snd, st>> /\ rx.pc # "dec"
    BY <1>5 DEF Register
  <2>2. inner' = [inner EXCEPT !.recv_task = TRUE]
    BY <1>5, Zenon DEF Register
  <2>3. /\ inner'.is_open = inner.is_open /\ inner'.parked_queue = inner.parked_queue
        /\ inner'.num_messages = inner.num_messages
    BY <1>0, <2>2, InnerRecvTask, Zenon
  <2> QED BY <1>1, <2>1, <2>3, Zenon
<1>6. CASE \E mode \in {"close", "drain"} : Close(mode)
  <2>1. UNCHANGED <<snd, st>> /\ rx.pc # "dec"
    BY <1>6 DEF Close, Between
  <2>2. inner' = set_closed(inner)
    BY <1>6, Zenon DEF Close
  <2>3. /\ ~inner'.is_open /\ inner'.parked_queue = inner.parked_queue
        /\ inner'.num_messages = inner.num_messages
    BY <1>0, <2>2, InnerClosed, Zenon
  <2> QED BY <1>1, <2>1, <2>3, Zenon
<1>7. CASE unpark_one
  <2>1. rx.pc = "unpark_one" /\ rx'.pc = "dec"
    BY <1>0, <1>7, RxMoves DEF RxPc, unpark_one
  <2>2. CASE PopParked
    BY <2>1, <2>2, UnparkInductive
  <2>3. CASE UNCHANGED <<inner, snd, st>>
    BY <1>1, <2>1, <2>3
  <2> QED BY <1>7, <2>2, <2>3 DEF unpark_one
<1>8. CASE UnparkAll
  <2>1. rx.pc = "unpark_all"
    BY <1>8, Zenon DEF UnparkAll
  <2>2. CASE PopParked /\ UNCHANGED rx
    BY <2>1, <2>2, UnparkInductive
  <2>3. CASE UNCHANGED <<inner, snd, st>>
    BY <1>1, <2>1, <2>3
  <2> QED BY <1>8, <2>2, <2>3, Zenon DEF UnparkAll
<1>9. CASE dec_num_messages
  <2>1. rx.pc = "dec" /\ UNCHANGED <<snd, st>>
    BY <1>9, Zenon DEF dec_num_messages
  <2>2. PICK pc \in {"quick", "idle"} : RxGoes(pc)
    BY <1>9 DEF dec_num_messages
  <2>3. rx'.pc = pc
    BY <1>0, <2>2, RxMoves DEF RxPc
  <2>4. Unparked = 1 /\ Unparked' = 0
    BY <2>1, <2>3 DEF Unparked
  <2>5. inner' = [inner EXCEPT !.num_messages = inner.num_messages - 1]
    BY <1>9, Zenon DEF dec_num_messages
  <2>6. /\ inner'.is_open = inner.is_open /\ inner'.parked_queue = inner.parked_queue
        /\ inner'.num_messages = inner.num_messages - 1
    BY <1>0, <2>5, Zenon DEF BoundedInner
  <2>7. inner'.num_messages + Unparked <= inner.num_messages + Unparked'
    BY <1>0, <2>4, <2>6
  <2> QED BY <2>1, <2>6, <2>7, RxInductive
<1> QED BY <1>2, <1>3, <1>4, <1>5, <1>6, <1>7, <1>8, <1>9, Zenon DEF RecvStep

-----------------------------------------------------------------------------
(***************************************************************************)
(* Senders that are not shared                                             *)
(***************************************************************************)
\* A new channel: nobody has counted a message or parked.
LEMMA InitInductive == ASSUME Init PROVE Inductive
<1>1. \A s \in Tasks : snd[s].is_parked = FALSE /\ snd[s].life \in {"none", "live"}
  BY DEF Init
<1>2. \A t \in Tasks : st[t].pc = "idle"
  BY DEF Init
<1>3. inner.parked_queue = <<>> /\ inner.num_messages = 0 /\ rx.pc = "idle"
  BY DEF Init
<1>4. HandlesOK
  BY <1>1, <1>3 DEF HandlesOK, Carries, Once
<1>5. SendersOK
  BY <1>1, <1>2 DEF SendersOK, SenderOK, WaiterOK
<1>6. DebtOK
  <2>1. Cardinality(Debtors) \in Nat /\ Cardinality(Created) \in Nat /\ Unparked = 0
    BY <1>3, SetsOfSenders DEF Unparked
  <2> QED BY <1>3, <2>1, ChannelAssumption DEF DebtOK
<1> QED BY <1>4, <1>5, <1>6, InitCounting DEF Inductive

\* Every step of every thread keeps the invariant, if no two tasks use one Sender.
LEMMA NextInductive == ASSUME ~Shared, Inductive, [Next]_vars PROVE Inductive'
<1>0. Counting'
  BY NextCounting DEF Inductive
<1>1. ASSUME NEW t \in Tasks, SendStep(t) \/ Repoll(t) \/ Cancel(t) PROVE Inductive'
  BY <1>0, <1>1, PcSteps, PollUnparkedInductive, IncInductive, ParkInductive,
     ParkStepsInductive, Zenon DEF SendStep
<1>2. ASSUME NEW t \in Tasks, NEW call \in {"poll_ready", "try_send"}, Call(t, call)
      PROVE  Inductive'
  BY <1>0, <1>2, PcSteps, Zenon
<1>3. ASSUME NEW s \in Tasks,
             close_channel(s) \/ DropSender(s) \/ \E c \in Tasks : Clone(s, c)
      PROVE  Inductive'
  BY <1>0, <1>3, OwnerInductive, Zenon
<1>4. ASSUME RecvStep \/ PollNext \/ TryNext \/ \E mode \in {"close", "drain"} : Close(mode)
      PROVE  Inductive'
  BY <1>0, <1>4, RecvInductive, Zenon
<1>5. ASSUME UNCHANGED vars PROVE Inductive'
  <2>1. UNCHANGED <<inner, snd, st, rx>>
    BY <1>5 DEF vars
  <2>2. HandlesOK'
    BY <2>1, Zenon DEF Inductive, HandlesOK
  <2>3. SendersOK'
    BY <2>1, Zenon DEF Inductive, SendersOK, SenderOK, WaiterOK
  <2>4. DebtOK'
    BY <2>1, Zenon DEF Inductive, DebtOK, Debtors, Created, Unparked
  <2> QED BY <1>0, <2>2, <2>3, <2>4 DEF Inductive
<1> QED BY <1>1, <1>2, <1>3, <1>4, <1>5, Zenon DEF Next

\* With a Sender for each task, a handle is in parked_queue at most once, a parked Sender
\* does not send before it is taken out, a task that waits has left its waker with it, and
\* each message beyond `buffer' has a parked Sender that pays for it.
THEOREM AlwaysInductive == ASSUME ~Shared PROVE Spec => []Inductive
  BY InitInductive, NextInductive, PTL DEF Spec

\* The channel is bounded: however the threads interleave, the queues never hold more than
\* `buffer' messages and one for each Sender there ever was.
THEOREM ChannelIsBounded == ASSUME ~Shared PROVE Spec => []Bounded
<1>1. ASSUME Inductive PROVE Bounded
  <2>1. /\ inner.num_messages \in Nat /\ Stored \in Nat /\ Cardinality(InFlight) \in Nat
        /\ Cardinality(Created) \in Nat /\ buffer \in Nat
    BY <1>1, Naturals, SetsOfSenders, ChannelAssumption DEF Inductive, Counting
  <2>2. /\ Holding \in Nat /\ Unparked \in Nat /\ Unparked <= Holding
    BY DEF Holding, Unparked
  <2>3. inner.num_messages = Stored + Cardinality(InFlight) + Holding
    BY <1>1 DEF Inductive, Counting, CountExact
  <2>4. inner.num_messages <= buffer + Cardinality(Created) + Unparked
    BY <1>1 DEF Inductive, DebtOK
  <2> QED BY <2>1, <2>2, <2>3, <2>4 DEF Bounded
<1> QED BY <1>1, AlwaysInductive, PTL

\* When the receiver sees the end the channel is closed and empty, no send is between its
\* count and its push, and every task that waits for room was woken.
THEOREM TheEndIsTheEnd == ASSUME ~Shared PROVE Spec => []EndIsEnd
<1>1. ASSUME Inductive, rx.pc = "ended"
      PROVE  /\ Stored = 0 /\ InFlight = {} /\ ~inner.is_open
             /\ \A t \in Tasks : st[t].pc = "pending" => st[t].woken
  <2>0. TypeOK
    BY <1>1 DEF Inductive, Counting
  <2>1. ~inner.is_open /\ inner.num_messages = 0
    BY <1>1, Zenon DEF Inductive, Counting, ClosedOK
  <2>2. /\ Stored \in Nat /\ Cardinality(InFlight) \in Nat /\ Cardinality(Pushing) \in Nat
        /\ Len(inner.parked_queue) \in Nat
    BY <2>0, Naturals, Zenon
  <2>3. Holding = 0 /\ Unparks = 0
    BY <1>1 DEF Holding, Unparks
  <2>4. Stored = 0 /\ Cardinality(InFlight) = 0
    BY <1>1, <2>1, <2>2, <2>3 DEF Inductive, Counting, CountExact
  <2>5. InFlight = {}
    <3>1. InFlight \in SUBSET Tasks
      BY DEF InFlight
    <3> QED BY <2>4, <3>1, TasksFinite, FS_EmptySet, Zenon
  <2>6. Pushing = {}
    BY <2>5 DEF InFlight, Pushing, Counted
  <2>7. Cardinality(Pushing) = 0
    BY <2>6, FS_EmptySet, Zenon
  <2>8. Len(inner.parked_queue) = 0
    BY <1>1, <2>2, <2>3, <2>4, <2>7 DEF Inductive, Counting, ParkedCovered
  <2>9. ASSUME NEW t \in Tasks, st[t].pc = "pending" PROVE st[t].woken
    <3>1. ~Carries(inner.parked_queue, t)
      BY <2>8 DEF Carries
    <3>2. ~snd[t].is_parked
      BY <1>1, <2>9, <3>1, Zenon DEF Inductive, HandlesOK
    <3> QED BY <1>1, <2>9, <3>2, Zenon DEF Inductive, SendersOK, WaiterOK
  <2> QED BY <2>1, <2>4, <2>5, <2>9, Zenon
<1>2. Inductive => EndIsEnd
  BY <1>1, Zenon DEF EndIsEnd
<1> QED BY <1>2, AlwaysInductive, PTL
=============================================================================
