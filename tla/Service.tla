------------------------------ MODULE Service ------------------------------
(***************************************************************************)
(* The service of tentacle, tentacle/src/service.rs: it dials and listens, *)
(* opens a session for each connection, and ends when it is told to or has *)
(* nothing left to do.  Its loop handles one event of a session or one     *)
(* task of the control at a time; between two of them it is at `run', the  *)
(* head of the loop.  Dialing, listening, handshakes and listeners are     *)
(* futures of the FutureTaskManager, service/future_task.rs, which send    *)
(* their result as a SessionEvent.                                         *)
(*                                                                         *)
(* A result is taken when the service handles it: the future that sends it *)
(* waits for room in the channel and can be delayed at will, so any order  *)
(* of results is possible.  An address is a host with or without a peer    *)
(* id; sessions are abstract, module Session models one.                   *)
(***************************************************************************)
EXTENDS Integers, FiniteSets, Sequences, SequencesExt

CONSTANTS Keys,           \* the public keys of peers
          Anonymous,      \* no public key, no peer id: the service has no key pair
          DialAddresses,  \* what the control dials, [host, peer]
          ListenAddresses,
          Binds,          \* of an address, those that listening on it may be bound to
          InboundHosts,   \* where incoming connections come from
          Secio,          \* whether the service has a key pair
          max_connection_number,
          MaxCommands,    \* bound: commands of the control and panics of handlers
          MaxInbound      \* bound: connections that come in

Address == [host : {a.host : a \in DialAddresses} \cup InboundHosts, peer : Keys \cup {Anonymous}]

ASSUME ServiceAssumption ==
    /\ Anonymous \notin Keys
    /\ DialAddresses \subseteq Address
    /\ Binds \in [ListenAddresses -> SUBSET ListenAddresses]
    /\ Secio \in BOOLEAN
    /\ max_connection_number \in Nat /\ MaxInbound \in Nat /\ MaxCommands \in Nat

VARIABLES state,           \* State: Running(num), Forever or PreShutdown
          sessions,        \* the open sessions: id -> [address, remote_pubkey, ty]
          next_session,
          dial_protocols,  \* the addresses that are being dialed
          listens,         \* the addresses listened on
          told,            \* ... and what the handlers know of them
          tasks,           \* the futures: [id, kind, address, stage], kind is dial, listen,
                           \* listener, report (of a listener's end), handshake or user
          running,         \* the tasks of the sessions: running, told to close, closed
          log,             \* what the ServiceHandle saw of each session
          ended,           \* the loop is left
          manager,         \* the FutureTaskManager runs
          given,           \* bounded by MaxCommands
          inbound          \* bounded by MaxInbound

service == <<state, sessions, next_session, dial_protocols, listens, told, ended>>
bounds == <<given, inbound>>
vars == <<service, tasks, running, log, manager, bounds>>

-----------------------------------------------------------------------------
(***************************************************************************)
(* service/config.rs: State                                                *)
(***************************************************************************)
increase(s) == IF s.mode = "Running" THEN [s EXCEPT !.num = @ + 1] ELSE s
decrease(s) == IF s.mode = "Running" THEN [s EXCEPT !.num = @ - 1] ELSE s
pre_shutdown == [mode |-> "PreShutdown", num |-> 0]
is_shutdown(s) == s.mode = "PreShutdown" \/ (s.mode = "Running" /\ s.num = 0)

(***************************************************************************)
(* service/future_task.rs.  A future is sent to the manager by a task of   *)
(* its own and started when the manager takes it.  The id tells it from    *)
(* the others of its kind and address, which is all the manager's vacant   *)
(* id is for.                                                              *)
(***************************************************************************)
NewTask(kind, address) ==
    [id |-> CHOOSE id \in 1..(Cardinality(tasks) + 1) :
                \A t \in tasks : t.kind = kind /\ t.address = address => t.id # id,
     kind |-> kind, address |-> address, stage |-> "queued"]

\* Send a future to the manager.
Spawn(kind, address) == tasks' = tasks \cup {NewTask(kind, address)}

\* What a future has to do is done and its id is sent to the manager: remove_task.
remove_task(t) == tasks' = tasks \ {t}

\* A future that was signalled may go on until it is polled and sees the signal.
Running(kind) == {t \in tasks : t.kind = kind /\ t.stage # "queued"}

add_task ==
    \E t \in tasks :
        /\ t.stage = "queued" /\ manager
        /\ tasks' = (tasks \ {t}) \cup {[t EXCEPT !.stage = "running"]}
        /\ UNCHANGED <<service, running, log, manager, bounds>>

\* Mutant: the senders are dropped, and nothing is sent.
DropManagerSilently ==
    /\ ended /\ manager
    /\ manager' = FALSE
    /\ UNCHANGED <<service, tasks, running, log, bounds>>

\* wait_handle_poll tells the manager to end, or it sees the shutdown flag: it takes no more
\* futures, and sends each of those it has started a signal.
DropManager ==
    /\ ended /\ manager
    /\ manager' = FALSE
    /\ tasks' = {[t EXCEPT !.stage = IF @ = "running" THEN "signalled" ELSE @] : t \in tasks}
    /\ UNCHANGED <<service, running, log, bounds>>

\* A future sees its signal; one that the manager never took is dropped with the channel.
FutureStops ==
    \E t \in tasks :
        /\ ~manager /\ t.stage \in {"queued", "signalled"}
        /\ remove_task(t)
        /\ UNCHANGED <<service, running, log, manager, bounds>>

\* A future of the user ends, if it ever does; the result of another one is lost when there
\* is no service to take it.
FutureEnds ==
    \E t \in tasks :
        /\ t.stage # "queued" /\ t.kind # "listener" /\ (t.kind = "user" \/ ended)
        /\ remove_task(t)
        /\ UNCHANGED <<service, running, log, manager, bounds>>

-----------------------------------------------------------------------------
(***************************************************************************)
(* The head of the loop                                                    *)
(***************************************************************************)

\* Mutant: only new addresses are told.
TellNewListens(l) == IF Cardinality(l) > Cardinality(told) THEN l ELSE told

\* try_update_listens: the handlers are told when the number of addresses has changed.
try_update_listens(l) == IF Cardinality(l) = Cardinality(told) THEN told ELSE l

\* The loop is left when there is nothing to do, else the handlers are told.
run(st, ss, l) ==
    LET end == l = {} /\ is_shutdown(st) /\ DOMAIN ss = {} IN
    /\ state' = st /\ sessions' = ss /\ listens' = l
    /\ ended' = end
    /\ told' = IF end THEN told ELSE try_update_listens(l)

Log(id, event) == [log EXCEPT ![id] = Append(@, event)]

Without(f, S) == [x \in DOMAIN f \ S |-> f[x]]

-----------------------------------------------------------------------------
(***************************************************************************)
(* Tasks of the control: handle_service_task                               *)
(***************************************************************************)
Given ==
    /\ ~ended /\ given < MaxCommands
    /\ given' = given + 1
    /\ UNCHANGED <<manager, inbound>>

\* Mutant: the address is not looked up in dial_protocols.
DialAgain(a) ==
    /\ Given
    /\ dial_protocols' = dial_protocols \cup {a}
    /\ Spawn("dial", a)
    /\ run(increase(state), sessions, listens)
    /\ UNCHANGED <<next_session, running, log>>

\* dial_inner: an address that is being dialed is not dialed again.
Dial(a) ==
    /\ Given
    /\ IF a \in dial_protocols
       THEN /\ UNCHANGED <<dial_protocols, tasks>>
            /\ run(state, sessions, listens)
       ELSE /\ dial_protocols' = dial_protocols \cup {a}
            /\ Spawn("dial", a)
            /\ run(increase(state), sessions, listens)
    /\ UNCHANGED <<next_session, running, log>>

\* ... and when no transport takes the address, it stays in dial_protocols.
DialUnsupported(a) ==
    /\ Given /\ a \notin dial_protocols
    /\ dial_protocols' = dial_protocols \cup {a}
    /\ run(state, sessions, listens)
    /\ UNCHANGED <<next_session, tasks, running, log>>

\* Mutant: the count is raised when listening has started.
ListenUncounted(a) ==
    /\ Given /\ a \notin listens
    /\ Spawn("listen", a)
    /\ run(state, sessions, listens)
    /\ UNCHANGED <<next_session, dial_protocols, running, log>>

\* listen_inner: an address that is listened on is not listened on again.
Listen(a) ==
    /\ Given /\ a \notin listens
    /\ Spawn("listen", a)
    /\ run(increase(state), sessions, listens)
    /\ UNCHANGED <<next_session, dial_protocols, running, log>>

\* send_future_task: a future of the user's.
FutureTask ==
    /\ Given
    /\ Spawn("user", Anonymous)
    /\ run(state, sessions, listens)
    /\ UNCHANGED <<next_session, dial_protocols, running, log>>

\* Disconnect and SessionClose of a session: its task is told and will report its end.
Disconnect(id) ==
    /\ Given
    /\ id \in DOMAIN sessions
    /\ run(state, sessions, listens)
    /\ running' = [running EXCEPT ![id] = "told"]
    /\ UNCHANGED <<next_session, dial_protocols, tasks, log>>

\* Shutdown(false): the listens are closed, the sessions told to close.
ShutdownGracefully ==
    /\ run(pre_shutdown, sessions, {})
    /\ running' = [id \in DOMAIN running |-> IF id \in DOMAIN sessions THEN "told" ELSE running[id]]
    /\ UNCHANGED <<next_session, dial_protocols, log>>

Close == Given /\ ShutdownGracefully /\ UNCHANGED tasks

\* Shutdown(true): every session is closed as if it had reported its end.
Shutdown ==
    /\ Given
    /\ run(pre_shutdown, <<>>, {})
    /\ log' = [id \in DOMAIN log |->
                  IF id \in DOMAIN sessions THEN Append(log[id], "SessionClose") ELSE log[id]]
    /\ UNCHANGED <<next_session, dial_protocols, tasks, running>>

-----------------------------------------------------------------------------
(***************************************************************************)
(* Events of sessions and futures: handle_session_event                    *)
(***************************************************************************)

\* The next id that no session has; a usize does not wrap around in practice.
generate_next_session ==
    Min({id \in (next_session + 1)..(next_session + 1 + Cardinality(DOMAIN sessions)) :
             id \notin DOMAIN sessions})

\* The limit counts the open sessions, and dials and listens under way.
reached_max_connection_limit(st) ==
    max_connection_number < Cardinality(DOMAIN sessions) + st.num

\* The session that session_open takes for the same connection.
Repeated(address, key) ==
    Secio /\ \E id \in DOMAIN sessions :
        sessions[id].remote_pubkey = key /\ sessions[id].address = address

PeerIdNotMatch(address, key) == Secio /\ address.peer \notin {Anonymous, key}

\* A connection that is over the limit is dropped, without a word.
session_open(st, address, key, ty) ==
    IF reached_max_connection_limit(st)
    THEN /\ run(st, sessions, listens)
         /\ UNCHANGED <<dial_protocols, next_session, running, log>>
    ELSE /\ dial_protocols' = dial_protocols \ {address}
         /\ IF Repeated(address, key) \/ PeerIdNotMatch(address, key)
            THEN /\ run(st, sessions, listens)
                 /\ UNCHANGED <<next_session, running, log>>
            ELSE LET id == generate_next_session
                     new == [address |-> IF Secio THEN [address EXCEPT !.peer = key] ELSE address,
                             remote_pubkey |-> key, ty |-> ty] IN
                 /\ next_session' = id
                 /\ run(st, [x \in DOMAIN sessions \cup {id} |->
                                IF x = id THEN new ELSE sessions[x]], listens)
                 /\ running' = Append(running, "running")
                 /\ log' = Append(log, <<"SessionOpen">>)

RemoteKey == IF Secio THEN Keys ELSE {Anonymous}

HandshakeSuccess(t, key, ty) ==
    /\ ~ended
    /\ remove_task(t)
    /\ session_open(IF ty = "Outbound" THEN decrease(state) ELSE state, t.address, key, ty)
    /\ UNCHANGED <<manager, bounds>>

\* The result of a future that dials: its handshake has succeeded, or it has failed.
DialSuccess == \E t \in Running("dial"), key \in RemoteKey : HandshakeSuccess(t, key, "Outbound")

DialError ==
    \E t \in Running("dial") :
        /\ ~ended
        /\ remove_task(t)
        /\ dial_protocols' = dial_protocols \ {t.address}
        /\ run(decrease(state), sessions, listens)
        /\ UNCHANGED <<next_session, running, log, manager, bounds>>

\* An incoming connection: its handshake fails silently or makes a session.
InboundSuccess ==
    \E t \in Running("handshake"), key \in RemoteKey : HandshakeSuccess(t, key, "Inbound")

InboundError ==
    \E t \in Running("handshake") :
        /\ ~ended
        /\ remove_task(t)
        /\ UNCHANGED <<service, running, log, manager, bounds>>

\* A port is bound once: while a listener is alive another bind of its address fails.
Bound(a) == \E t \in tasks : t.kind = "listener" /\ t.address = a

\* The transport says what the address was bound to: a port, an address for a name.
ListenStart ==
    \E t \in Running("listen") : \E listen_address \in Binds[t.address] :
        /\ ~ended /\ ~Bound(listen_address)
        /\ tasks' = (tasks \ {t}) \cup {NewTask("listener", listen_address)}
        /\ run(decrease(state), sessions, listens \cup {listen_address})
        /\ UNCHANGED <<next_session, dial_protocols, running, log, manager, bounds>>

\* Listener::close: a listener fails, which a future of its own is to report.
ListenerFails ==
    \E t \in Running("listener") :
        /\ tasks' = (tasks \ {t}) \cup {NewTask("report", t.address)}
        /\ UNCHANGED <<service, running, log, manager, bounds>>

\* Of a future that was to listen, and of a listener that has failed.
ListenError(kind) ==
    \E t \in Running(kind) :
        /\ ~ended
        /\ remove_task(t)
        /\ IF t.address \in listens
           THEN run(state, sessions, listens \ {t.address})
           ELSE run(decrease(state), sessions, listens)
        /\ UNCHANGED <<next_session, dial_protocols, running, log, manager, bounds>>

\* Listener::handshake, whether or not the service shuts down.
Incoming ==
    \E t \in Running("listener"), host \in InboundHosts :
        /\ inbound < MaxInbound
        /\ inbound' = inbound + 1
        /\ Spawn("handshake", [host |-> host, peer |-> Anonymous])
        /\ UNCHANGED <<service, running, log, manager, given>>

\* Mutant: the end of a session is reported as often as the session reports it.
SessionCloseAgain(id) ==
    /\ ~ended /\ running[id] \in {"running", "told", "closed"}
    /\ running' = [running EXCEPT ![id] = IF @ = "closed" THEN "gone" ELSE "closed"]
    /\ run(state, Without(sessions, {id}), listens)
    /\ log' = Log(id, "SessionClose")
    /\ UNCHANGED <<next_session, dial_protocols, tasks, manager, bounds>>

\* session_close: a session that ends, because it was told to or by itself, reports it
\* once or twice.
SessionClose(id) ==
    /\ ~ended /\ running[id] \in {"running", "told", "closed"}
    /\ running' = [running EXCEPT ![id] = IF @ = "closed" THEN "gone" ELSE "closed"]
    /\ run(state, Without(sessions, {id}), listens)
    /\ log' = IF id \in DOMAIN sessions THEN Log(id, "SessionClose") ELSE log
    /\ UNCHANGED <<next_session, dial_protocols, tasks, manager, bounds>>

\* ProtocolHandleError: a handler of a protocol has panicked.
HandleError == Given /\ ShutdownGracefully /\ UNCHANGED tasks

-----------------------------------------------------------------------------

\* A service that runs for ever, or has called listen or dial before run.
Init ==
    /\ \/ /\ state = [mode |-> "Forever", num |-> 0]
          /\ dial_protocols = {} /\ listens = {} /\ tasks = {}
       \/ \E a \in UNION {Binds[r] : r \in ListenAddresses} :
             /\ state = [mode |-> "Running", num |-> 0]
             /\ dial_protocols = {} /\ listens = {a}
             /\ tasks = {[id |-> 1, kind |-> "listener", address |-> a, stage |-> "queued"]}
       \/ \E a \in DialAddresses :
             /\ state = [mode |-> "Running", num |-> 1]
             /\ dial_protocols = {a} /\ listens = {}
             /\ tasks = {[id |-> 1, kind |-> "dial", address |-> a, stage |-> "queued"]}
    /\ told = listens
    /\ sessions = <<>> /\ next_session = 0 /\ running = <<>> /\ log = <<>>
    /\ ended = FALSE /\ manager = TRUE
    /\ given = 0 /\ inbound = 0

Next ==
    \/ \E a \in DialAddresses : Dial(a) \/ DialUnsupported(a)
    \/ \E a \in ListenAddresses : Listen(a)
    \/ \E id \in DOMAIN running : Disconnect(id) \/ SessionClose(id)
    \/ FutureTask \/ Close \/ Shutdown \/ HandleError
    \/ DialSuccess \/ DialError \/ InboundSuccess \/ InboundError
    \/ ListenStart \/ ListenError("listen") \/ ListenError("report") \/ ListenerFails \/ Incoming
    \/ add_task \/ DropManager \/ FutureStops \/ FutureEnds

Spec == Init /\ [][Next]_vars

\* The loop and the manager are polled, transports and handshakes have a timeout, and a
\* session that is told to close ends (module Session).  Nothing is said of a future of the
\* user's but that it is polled, so that it sees its signal.
Fairness ==
    /\ WF_vars(add_task) /\ WF_vars(DropManager) /\ WF_vars(FutureStops)
    /\ WF_vars(DialSuccess \/ DialError) /\ WF_vars(InboundSuccess \/ InboundError)
    /\ WF_vars(ListenStart \/ ListenError("listen")) /\ WF_vars(ListenError("report"))
    /\ \A id \in 1..(MaxCommands + MaxInbound + 1) :
           WF_vars(id \in DOMAIN running /\ running[id] = "told" /\ SessionClose(id))

FairSpec == Spec /\ Fairness

-----------------------------------------------------------------------------
(***************************************************************************)
(* Properties                                                              *)
(***************************************************************************)
Pending(kind) == {t \in tasks : t.kind = kind}

\* While an address is about to be listened on it is not listened on yet, and no other
\* listen is under way that may be bound to the same.
ListensApart ==
    \A t \in Pending("listen") :
        /\ t.address \notin listens /\ Binds[t.address] \cap listens = {}
        /\ \A u \in Pending("listen") : t # u => Binds[t.address] \cap Binds[u.address] = {}

\* The count of State is the number of dials and listens that are under way: the service
\* does not end by itself while a result is still to come nor waits for one that never
\* comes, and `*num -= 1' never wraps.
CountExact ==
    state.mode = "Running" /\ ~ended =>
        state.num = Cardinality(Pending("dial")) + Cardinality(Pending("listen"))

\* The count of State is exact, although the error of a listener and that of a listen share
\* one handler, as long as the user never listens twice on what is one address to the
\* system: ListenError tells the two errors apart by `listens' alone.
PendingCounted == []ListensApart => []CountExact

\* While an address is dialed its entry is in dial_protocols, so that it is not dialed
\* a second time and session_open finds the protocols to open.
DialsRemembered ==
    /\ \A t \in Pending("dial") : ~ended => t.address \in dial_protocols
    /\ \A t, u \in Pending("dial") : t.address = u.address => t = u

\* The ServiceHandle sees one SessionOpen and then one SessionClose of every session,
\* the latter exactly when it has left `sessions', however often the session reports its
\* end and whether it is closed, dropped in a quick shutdown or ends by itself.
SessionsReported ==
    \A id \in DOMAIN log :
        log[id] = IF id \in DOMAIN sessions THEN <<"SessionOpen">>
                                            ELSE <<"SessionOpen", "SessionClose">>

\* The handlers know the addresses that are listened on, although they are told only
\* when the number of addresses differs from what they know.
ListensCurrent == ~ended => told = listens

\* When the service has ended its futures end and none is started any more: dials and
\* handshakes under way, futures of the user that never end by themselves, those the manager
\* has not taken yet, and what a listener still starts before it sees its signal.
FuturesEnd == ended ~> [](tasks = {})

(***************************************************************************)
(* What the repository says and the code does not do.                      *)
(***************************************************************************)

\* service/control.rs, close: "1. close all listens [...] 4. close service".  But a dial,
\* a listen or a handshake that was under way opens a session or listens again, and nobody
\* closes that.
ShutdownEnds == state.mode = "PreShutdown" ~> ended

\* builder.rs: "The limit of max open connection(file descriptors)".  But it is tested
\* before the new session counts, and with `<'.
ConnectionsLimited == Cardinality(DOMAIN sessions) <= max_connection_number

\* ... so that there may be one more, and never two, whatever handshakes finish at once.
ConnectionsBounded == Cardinality(DOMAIN sessions) <= max_connection_number + 1

\* service.rs: "If a connection to the same address has been established with the same
\* public key, then this duplicated connection will be closed."
NoRepeatedConnection ==
    Secio => \A i, j \in DOMAIN sessions :
        sessions[i].remote_pubkey = sessions[j].remote_pubkey
            /\ sessions[i].address = sessions[j].address => i = j
=============================================================================
