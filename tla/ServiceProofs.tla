--------------------------- MODULE ServiceProofs ---------------------------
(***************************************************************************)
(* Proofs about Service, for any addresses, keys, limits and numbers of    *)
(* commands: what the service counts and remembers of the futures under    *)
(* way, and what its handle is told of its sessions.                       *)
(***************************************************************************)
EXTENDS Service, FiniteSetTheorems, TLAPS

Kind == {"dial", "listen", "listener", "report", "handshake", "user"}

\* What a future is about: an address, or nothing for one of the user's.
Place == Address \cup ListenAddresses \cup {Anonymous}

TaskOf(K, A) == [id : Nat, kind : K, address : A, stage : {"queued", "running", "signalled"}]

Task == TaskOf(Kind \ {"listen"}, Place) \cup TaskOf({"listen"}, ListenAddresses)

TypeOK ==
    /\ state \in [mode : {"Running", "Forever", "PreShutdown"}, num : Int]
    /\ ended \in BOOLEAN /\ manager \in BOOLEAN
    /\ tasks \subseteq Task /\ IsFiniteSet(tasks)
    /\ next_session \in Nat
    /\ running \in Seq({"running", "told", "closed", "gone"})
    /\ log \in Seq(Seq({"SessionOpen", "SessionClose"}))
    /\ Len(running) = next_session /\ Len(log) = next_session
    /\ DOMAIN sessions \subseteq 1..next_session

\* No two futures are taken for one another.
UniqueIds ==
    \A t, u \in tasks : t.id = u.id /\ t.kind = u.kind /\ t.address = u.address => t = u

-----------------------------------------------------------------------------
(***************************************************************************)
(* The tasks of a kind                                                     *)
(***************************************************************************)
OfKind(T, k) == {t \in T : t.kind = k}

\* A task more is one more of its kind.
LEMMA AddOfKind ==
    ASSUME NEW T, IsFiniteSet(T), NEW n, n \notin T, NEW k
    PROVE  /\ IsFiniteSet(T \cup {n})
           /\ Cardinality(OfKind(T, k)) \in Nat
           /\ Cardinality(OfKind(T \cup {n}, k)) =
                  IF n.kind = k THEN Cardinality(OfKind(T, k)) + 1 ELSE Cardinality(OfKind(T, k))
<1>1. IsFiniteSet(OfKind(T, k))
    BY FS_Subset DEF OfKind
<1>2. Cardinality(OfKind(T, k)) \in Nat
    BY <1>1, FS_CardinalityType
<1>3. IsFiniteSet(T \cup {n})
    BY FS_AddElement
<1>4. CASE n.kind = k
    <2>1. OfKind(T \cup {n}, k) = OfKind(T, k) \cup {n} /\ n \notin OfKind(T, k)
        BY <1>4 DEF OfKind
    <2> QED
        BY <1>1, <1>2, <1>3, <1>4, <2>1, FS_AddElement
<1>5. CASE n.kind # k
    <2>1. OfKind(T \cup {n}, k) = OfKind(T, k)
        BY <1>5 DEF OfKind
    <2> QED
        BY <1>2, <1>3, <1>5, <2>1
<1> QED
    BY <1>4, <1>5

\* A task less is one less of its kind.
LEMMA RemoveOfKind ==
    ASSUME NEW T, IsFiniteSet(T), NEW t \in T, NEW k
    PROVE  /\ IsFiniteSet(T \ {t})
           /\ Cardinality(OfKind(T \ {t}, k)) \in Nat
           /\ Cardinality(OfKind(T, k)) =
                  IF t.kind = k THEN Cardinality(OfKind(T \ {t}, k)) + 1
                                ELSE Cardinality(OfKind(T \ {t}, k))
<1> DEFINE R == T \ {t}
<1>1. IsFiniteSet(R) /\ t \notin R /\ R \cup {t} = T
    BY FS_RemoveElement
<1> HIDE DEF R
<1>2. Cardinality(OfKind(R, k)) \in Nat
      /\ Cardinality(OfKind(R \cup {t}, k)) =
             IF t.kind = k THEN Cardinality(OfKind(R, k)) + 1 ELSE Cardinality(OfKind(R, k))
    BY <1>1, AddOfKind
<1> QED
    BY <1>1, <1>2 DEF R

\* future_task.rs, add_task: there is a vacant id for a new task, however many there are.
LEMMA VacantId ==
    ASSUME IsFiniteSet(tasks), NEW kind, NEW address
    PROVE  LET n == NewTask(kind, address) IN
           /\ n.id \in Nat
           /\ \A t \in tasks : t.kind = kind /\ t.address = address => t.id # n.id
           /\ n \notin tasks
           /\ n = [id |-> n.id, kind |-> kind, address |-> address, stage |-> "queued"]
<1> DEFINE c == Cardinality(tasks)
           Vacant(id) == \A t \in tasks : t.kind = kind /\ t.address = address => t.id # id
<1>1. c \in Nat
    BY FS_CardinalityType
<1>2. ASSUME \A id \in 1..(c + 1) : ~Vacant(id)
      PROVE  FALSE
    <2> DEFINE f == [id \in 1..(c + 1) |-> CHOOSE t \in tasks : t.id = id]
    <2>1. \A id \in 1..(c + 1) : f[id] \in tasks /\ f[id].id = id
        BY <1>2
    <2>2. f \in [1..(c + 1) -> tasks]
        BY <2>1
    <2>3. IsFiniteSet(1..(c + 1)) /\ Cardinality(1..(c + 1)) = c + 1
        BY <1>1, FS_Interval
    <2> HIDE DEF f
    <2>4. c < Cardinality(1..(c + 1))
        BY <1>1, <2>3
    <2>5. \E x, y \in 1..(c + 1) : x # y /\ f[x] = f[y]
        BY <2>2, <2>3, <2>4, FS_PigeonHole
    <2> QED
        BY <2>1, <2>5
<1>3. PICK v \in 1..(c + 1) : Vacant(v)
    BY <1>2
<1> DEFINE i == CHOOSE id \in 1..(c + 1) :
                    \A t \in tasks : t.kind = kind /\ t.address = address => t.id # id
<1>4. i \in 1..(c + 1) /\ Vacant(i)
    BY <1>3
<1>5. NewTask(kind, address) = [id |-> i, kind |-> kind, address |-> address, stage |-> "queued"]
    BY DEF NewTask
<1> HIDE DEF i
<1> QED
    BY <1>1, <1>4, <1>5

-----------------------------------------------------------------------------
(***************************************************************************)
(* Types and ids                                                           *)
(***************************************************************************)

\* State::increase and State::decrease keep the mode, and count in Running only.
LEMMA StateTypes ==
    ASSUME TypeOK
    PROVE  /\ increase(state) \in [mode : {"Running", "Forever", "PreShutdown"}, num : Int]
           /\ decrease(state) \in [mode : {"Running", "Forever", "PreShutdown"}, num : Int]
           /\ increase(state).mode = state.mode /\ decrease(state).mode = state.mode
           /\ increase(state).num = IF state.mode = "Running" THEN state.num + 1 ELSE state.num
           /\ decrease(state).num = IF state.mode = "Running" THEN state.num - 1 ELSE state.num
BY DEF TypeOK, increase, decrease

\* A new future is a task with an id of its own.
LEMMA SpawnTypes ==
    ASSUME TypeOK, UniqueIds, NEW k \in Kind, NEW a \in Place, k = "listen" => a \in ListenAddresses,
           NEW R \in SUBSET tasks, tasks' = R \cup {NewTask(k, a)}
    PROVE  tasks' \subseteq Task /\ IsFiniteSet(tasks') /\ UniqueIds'
<1>1. IsFiniteSet(tasks) /\ tasks \subseteq Task
    BY DEF TypeOK
<1> DEFINE n == NewTask(k, a)
<1>2. /\ n.id \in Nat /\ \A t \in tasks : t.kind = k /\ t.address = a => t.id # n.id
      /\ n = [id |-> n.id, kind |-> k, address |-> a, stage |-> "queued"]
    BY <1>1, VacantId
<1>3. IsFiniteSet(R) /\ IsFiniteSet(R \cup {n})
    BY <1>1, FS_Subset, FS_AddElement
<1> HIDE DEF n
<1>4. n \in Task
    BY <1>2 DEF Task, TaskOf
<1>5. tasks' = R \cup {n}
    BY DEF n
<1> QED
    BY <1>1, <1>2, <1>3, <1>4, <1>5 DEF UniqueIds

\* A sequence with one element replaced.
LEMMA ReplaceElement ==
    ASSUME NEW S, NEW q \in Seq(S), NEW i \in 1..Len(q), NEW e \in S
    PROVE  [q EXCEPT ![i] = e] \in Seq(S) /\ Len([q EXCEPT ![i] = e]) = Len(q)
OBVIOUS

\* A future that is done or stopped leaves the others as they are.
LEMMA RemoveTypes ==
    ASSUME TypeOK, UniqueIds, NEW R \in SUBSET tasks, tasks' = R
    PROVE  tasks' \subseteq Task /\ IsFiniteSet(tasks') /\ UniqueIds'
BY FS_Subset DEF TypeOK, UniqueIds

\* generate_next_session: the id after the last one is free.
LEMMA NextSession ==
    ASSUME TypeOK
    PROVE  generate_next_session = next_session + 1
<1> DEFINE c == Cardinality(DOMAIN sessions)
           n == next_session + 1
           S == {id \in n..(n + c) : id \notin DOMAIN sessions}
<1>1. next_session \in Nat /\ n \in Nat /\ c \in Nat
    <2>1. IsFiniteSet(1..next_session) /\ next_session \in Nat
        BY FS_Interval DEF TypeOK
    <2> QED
        BY <2>1, FS_Subset, FS_CardinalityType DEF TypeOK
<1>2. n \notin DOMAIN sessions
    BY <1>1 DEF TypeOK
<1>3. generate_next_session = Min(S)
    BY DEF generate_next_session
<1> HIDE DEF c, n
<1>4. n \in S /\ \A x \in S : x \in Nat /\ n <= x
    BY <1>1, <1>2
<1> HIDE DEF S
<1>5. Min(S) \in S /\ \A x \in S : Min(S) <= x
    <2>1. Min(S) = CHOOSE x \in S : \A y \in S : x <= y
        BY Zenon DEF Min
    <2>2. \E x \in S : \A y \in S : x <= y
        BY <1>4
    <2> QED
        BY <2>1, <2>2
<1>6. Min(S) = n
    <2> DEFINE m == Min(S)
    <2>1. m \in Nat /\ n <= m /\ m <= n
        BY <1>4, <1>5
    <2> HIDE DEF m
    <2>2. m = n
        BY <1>1, <2>1
    <2> QED
        BY <2>2 DEF m
<1> QED
    BY <1>3, <1>6 DEF n

\* DropManager: the futures stay what they are, but for their stage.
LEMMA SignalledTasks ==
    ASSUME TypeOK, DropManager
    PROVE  /\ IsFiniteSet(tasks')
           /\ \A n \in tasks' : \E t \in tasks :
                  /\ n = [t EXCEPT !.stage = IF @ = "running" THEN "signalled" ELSE @]
                  /\ n.id = t.id /\ n.kind = t.kind /\ n.address = t.address /\ n \in Task
<1> DEFINE g(t) == [t EXCEPT !.stage = IF @ = "running" THEN "signalled" ELSE @]
           f == [t \in tasks |-> g(t)]
<1>1. tasks' = {g(t) : t \in tasks} /\ IsFiniteSet(tasks) /\ tasks \subseteq Task
    BY DEF DropManager, TypeOK
<1>2. \A t \in Task : g(t).id = t.id /\ g(t).kind = t.kind /\ g(t).address = t.address /\ g(t) \in Task
    BY DEF Task, TaskOf
<1>3. f \in Surjection(tasks, tasks')
    BY <1>1 DEF Surjection
<1> HIDE DEF f
<1>4. IsFiniteSet(tasks')
    BY <1>1, <1>3, FS_Surjection
<1>5. ASSUME NEW n \in tasks'
      PROVE  \E t \in tasks :
                 /\ n = g(t)
                 /\ n.id = t.id /\ n.kind = t.kind /\ n.address = t.address /\ n \in Task
    <2>1. PICK t \in tasks : n = g(t)
        BY <1>1
    <2>2. g(t).id = t.id /\ g(t).kind = t.kind /\ g(t).address = t.address /\ g(t) \in Task
        BY <1>1, <1>2
    <2> HIDE DEF g
    <2> QED
        BY <2>1, <2>2
<1> QED
    BY <1>4, <1>5, Zenon

\* session_open gives a new session the next id, its task and its line of the log.
LEMMA OpenTypes ==
    ASSUME TypeOK, NEW st, NEW address, NEW key, NEW ty,
           st \in [mode : {"Running", "Forever", "PreShutdown"}, num : Int],
           session_open(st, address, key, ty)
    PROVE  /\ state' = st /\ ended' \in BOOLEAN
           /\ next_session' \in Nat
           /\ running' \in Seq({"running", "told", "closed", "gone"})
           /\ log' \in Seq(Seq({"SessionOpen", "SessionClose"}))
           /\ Len(running') = next_session' /\ Len(log') = next_session'
           /\ DOMAIN sessions' \subseteq 1..next_session'
<1>1. CASE UNCHANGED <<next_session, running, log>> /\ run(st, sessions, listens)
    BY <1>1 DEF TypeOK, run
<1>2. CASE ~(UNCHANGED <<next_session, running, log>> /\ run(st, sessions, listens))
    <2> DEFINE r == "running"
    <2>1. /\ next_session' = next_session + 1
          /\ running' = Append(running, r)
          /\ log' = Append(log, <<"SessionOpen">>)
          /\ state' = st /\ ended' \in BOOLEAN
          /\ DOMAIN sessions' = DOMAIN sessions \cup {next_session + 1}
        BY <1>2, NextSession DEF session_open, run
    <2>2. r \in {"running", "told", "closed", "gone"}
        OBVIOUS
    <2>3. <<"SessionOpen">> \in Seq({"SessionOpen", "SessionClose"})
        OBVIOUS
    <2> HIDE DEF r
    <2>4. next_session' \in Nat /\ DOMAIN sessions' \subseteq 1..next_session'
        BY <2>1 DEF TypeOK
    <2>5. running' \in Seq({"running", "told", "closed", "gone"})
          /\ Len(running') = next_session'
        BY <2>1, <2>2 DEF TypeOK
    <2>6. log' \in Seq(Seq({"SessionOpen", "SessionClose"})) /\ Len(log') = next_session'
        BY <2>1, <2>3 DEF TypeOK
    <2> QED
        BY <2>1, <2>4, <2>5, <2>6
<1> QED
    BY <1>1, <1>2

\* A step that opens no session and closes none.
LEMMA RestTypes ==
    ASSUME TypeOK, NEW st, NEW l,
           st \in [mode : {"Running", "Forever", "PreShutdown"}, num : Int],
           run(st, sessions, l), UNCHANGED <<next_session, running, log, manager>>,
           tasks' \subseteq Task, IsFiniteSet(tasks')
    PROVE  TypeOK'
BY DEF TypeOK, run

\* TypeOK and the ids of the tasks are kept by every step.
LEMMA TypeStep ==
    ASSUME TypeOK, UniqueIds, [Next]_vars
    PROVE  TypeOK' /\ UniqueIds'
<1> DEFINE St == [mode : {"Running", "Forever", "PreShutdown"}, num : Int]
<1>1. state \in St /\ increase(state) \in St /\ decrease(state) \in St /\ pre_shutdown \in St
    BY StateTypes DEF TypeOK, pre_shutdown
<1> HIDE DEF St
<1>2. DialAddresses \subseteq Place /\ ListenAddresses \subseteq Place /\ Anonymous \in Place
    BY ServiceAssumption DEF Place
<1>3. \A t \in tasks : t.address \in Place /\ (t.kind = "listen" => t.address \in ListenAddresses)
    BY <1>2 DEF TypeOK, Task, TaskOf
<1>4. ASSUME NEW a \in DialAddresses, Dial(a) \/ DialUnsupported(a)
      PROVE  TypeOK' /\ UniqueIds'
    <2>1. CASE UNCHANGED tasks /\ run(state, sessions, listens)
        <3>1. tasks' \subseteq Task /\ IsFiniteSet(tasks') /\ UniqueIds'
            BY <2>1, RemoveTypes
        <3>2. UNCHANGED <<next_session, running, log, manager>>
            BY <1>4 DEF Dial, DialUnsupported, Given
        <3> QED
            BY <1>1, <2>1, <3>1, <3>2, RestTypes DEF St
    <2>2. CASE Spawn("dial", a) /\ run(increase(state), sessions, listens)
        <3>1. tasks' \subseteq Task /\ IsFiniteSet(tasks') /\ UniqueIds'
            BY <1>2, <2>2, SpawnTypes DEF Spawn, Kind
        <3>2. UNCHANGED <<next_session, running, log, manager>>
            BY <1>4 DEF Dial, DialUnsupported, Given
        <3> QED
            BY <1>1, <2>2, <3>1, <3>2, RestTypes DEF St
    <2> QED
        BY <1>4, <2>1, <2>2 DEF Dial, DialUnsupported
<1>5. ASSUME NEW a \in ListenAddresses, Listen(a)
      PROVE  TypeOK' /\ UniqueIds'
    <2>1. tasks' \subseteq Task /\ IsFiniteSet(tasks') /\ UniqueIds'
        BY <1>2, <1>5, SpawnTypes DEF Listen, Spawn, Kind
    <2>2. UNCHANGED <<next_session, running, log, manager>> /\ run(increase(state), sessions, listens)
        BY <1>5 DEF Listen, Given
    <2> QED
        BY <1>1, <2>1, <2>2, RestTypes DEF St
<1>6. ASSUME NEW id \in DOMAIN running, Disconnect(id)
      PROVE  TypeOK' /\ UniqueIds'
    BY <1>6 DEF Disconnect, Given, run, TypeOK, UniqueIds
<1>7. ASSUME NEW id \in DOMAIN running, SessionClose(id)
      PROVE  TypeOK' /\ UniqueIds'
    <2>1. UniqueIds'
        BY <1>7 DEF SessionClose, UniqueIds
    <2>2. /\ running' \in Seq({"running", "told", "closed", "gone"})
          /\ Len(running') = Len(running)
        BY <1>7 DEF SessionClose, TypeOK
    <2>3. log' \in Seq(Seq({"SessionOpen", "SessionClose"})) /\ Len(log') = Len(log)
        <3>1. id \in 1..Len(log) /\ log \in Seq(Seq({"SessionOpen", "SessionClose"}))
            BY DEF TypeOK
        <3>2. Append(log[id], "SessionClose") \in Seq({"SessionOpen", "SessionClose"})
            BY <3>1
        <3>3. log' = log \/ log' = [log EXCEPT ![id] = Append(log[id], "SessionClose")]
            BY <1>7 DEF SessionClose, Log
        <3>4. [log EXCEPT ![id] = Append(log[id], "SessionClose")]
                  \in Seq(Seq({"SessionOpen", "SessionClose"}))
              /\ Len([log EXCEPT ![id] = Append(log[id], "SessionClose")]) = Len(log)
            BY <3>1, <3>2, ReplaceElement
        <3> QED
            BY <3>1, <3>3, <3>4
    <2> QED
        BY <1>7, <2>1, <2>2, <2>3 DEF SessionClose, run, Without, TypeOK
<1>8. ASSUME Close \/ HandleError
      PROVE  TypeOK' /\ UniqueIds'
    <2>1. /\ running' = [id \in DOMAIN running |->
                             IF id \in DOMAIN sessions THEN "told" ELSE running[id]]
          /\ UNCHANGED <<next_session, log, tasks, manager>>
          /\ run(pre_shutdown, sessions, {})
        BY <1>8 DEF Close, HandleError, ShutdownGracefully, Given
    <2>2. /\ running' \in Seq({"running", "told", "closed", "gone"})
          /\ Len(running') = Len(running)
        BY <2>1 DEF TypeOK
    <2> QED
        BY <1>1, <2>1, <2>2 DEF run, TypeOK, UniqueIds, St
<1>9. ASSUME Shutdown
      PROVE  TypeOK' /\ UniqueIds'
    <2>1. /\ log' = [id \in DOMAIN log |-> IF id \in DOMAIN sessions
                                           THEN Append(log[id], "SessionClose") ELSE log[id]]
          /\ UNCHANGED <<next_session, running, tasks, manager>>
          /\ run(pre_shutdown, <<>>, {})
        BY <1>9 DEF Shutdown, Given
    <2>2. log' \in Seq(Seq({"SessionOpen", "SessionClose"})) /\ Len(log') = Len(log)
        BY <2>1 DEF TypeOK
    <2> QED
        BY <1>1, <2>1, <2>2 DEF run, TypeOK, UniqueIds, St
<1>10. ASSUME NEW t \in tasks, NEW key, NEW ty, HandshakeSuccess(t, key, ty)
       PROVE  TypeOK' /\ UniqueIds'
    <2> DEFINE st == IF ty = "Outbound" THEN decrease(state) ELSE state
    <2>1. st \in St /\ session_open(st, t.address, key, ty) /\ UNCHANGED manager
        BY <1>1, <1>10 DEF HandshakeSuccess
    <2>2. tasks' \subseteq Task /\ IsFiniteSet(tasks') /\ UniqueIds'
        BY <1>10, RemoveTypes DEF HandshakeSuccess, remove_task
    <2> HIDE DEF st
    <2>3. /\ state' = st /\ ended' \in BOOLEAN
          /\ next_session' \in Nat
          /\ running' \in Seq({"running", "told", "closed", "gone"})
          /\ log' \in Seq(Seq({"SessionOpen", "SessionClose"}))
          /\ Len(running') = next_session' /\ Len(log') = next_session'
          /\ DOMAIN sessions' \subseteq 1..next_session'
        BY <2>1, OpenTypes DEF St
    <2> QED
        BY <2>1, <2>2, <2>3 DEF TypeOK, St
<1>11. ASSUME DialError
       PROVE  TypeOK' /\ UniqueIds'
    <2>1. PICK t \in Running("dial") : remove_task(t) /\ run(decrease(state), sessions, listens)
              /\ UNCHANGED <<next_session, running, log, manager>>
        BY <1>11 DEF DialError
    <2>2. tasks' \subseteq Task /\ IsFiniteSet(tasks') /\ UniqueIds'
        BY <2>1, RemoveTypes DEF remove_task
    <2> QED
        BY <1>1, <2>1, <2>2, RestTypes DEF St
<1>12. ASSUME InboundError
       PROVE  TypeOK' /\ UniqueIds'
    <2>1. PICK t \in Running("handshake") :
              remove_task(t) /\ UNCHANGED <<service, running, log, manager>>
        BY <1>12 DEF InboundError
    <2>2. tasks' \subseteq Task /\ IsFiniteSet(tasks') /\ UniqueIds'
        BY <2>1, RemoveTypes DEF remove_task
    <2> QED
        BY <2>1, <2>2 DEF TypeOK, service
<1>13. ASSUME ListenStart
       PROVE  TypeOK' /\ UniqueIds'
    <2>1. PICK t \in Running("listen") : \E b \in Binds[t.address] :
              /\ tasks' = (tasks \ {t}) \cup {NewTask("listener", b)}
              /\ run(decrease(state), sessions, listens \cup {b})
              /\ UNCHANGED <<next_session, running, log, manager>>
        BY <1>13 DEF ListenStart
    <2>3. PICK b \in Binds[t.address] :
              /\ tasks' = (tasks \ {t}) \cup {NewTask("listener", b)}
              /\ run(decrease(state), sessions, listens \cup {b})
        BY <2>1
    <2>a. b \in Place /\ "listener" \in Kind
        BY <1>2, <1>3, ServiceAssumption DEF Running, Kind
    <2>b. tasks \ {t} \in SUBSET tasks
        OBVIOUS
    <2>2. tasks' \subseteq Task /\ IsFiniteSet(tasks') /\ UniqueIds'
        BY <2>3, <2>a, <2>b, SpawnTypes
    <2> QED
        BY <1>1, <2>1, <2>2, <2>3, RestTypes DEF St
<1>14. ASSUME NEW kind, ListenError(kind)
       PROVE  TypeOK' /\ UniqueIds'
    <2>1. PICK t \in Running(kind) :
              /\ remove_task(t)
              /\ \/ run(state, sessions, listens \ {t.address})
                 \/ run(decrease(state), sessions, listens)
              /\ UNCHANGED <<next_session, running, log, manager>>
        BY <1>14 DEF ListenError
    <2>2. tasks' \subseteq Task /\ IsFiniteSet(tasks') /\ UniqueIds'
        BY <2>1, RemoveTypes DEF remove_task
    <2>3. CASE run(state, sessions, listens \ {t.address})
        BY <1>1, <2>1, <2>2, <2>3, RestTypes DEF St
    <2>4. CASE run(decrease(state), sessions, listens)
        BY <1>1, <2>1, <2>2, <2>4, RestTypes DEF St
    <2> QED
        BY <2>1, <2>3, <2>4
<1>15. ASSUME ListenerFails
       PROVE  TypeOK' /\ UniqueIds'
    <2>1. PICK t \in Running("listener") :
              /\ tasks' = (tasks \ {t}) \cup {NewTask("report", t.address)}
              /\ UNCHANGED <<service, running, log, manager>>
        BY <1>15 DEF ListenerFails
    <2>a. t.address \in Place /\ "report" \in Kind
        BY <1>3 DEF Running, Kind
    <2>b. tasks \ {t} \in SUBSET tasks
        OBVIOUS
    <2>2. tasks' \subseteq Task /\ IsFiniteSet(tasks') /\ UniqueIds'
        BY <2>1, <2>a, <2>b, SpawnTypes
    <2> QED
        BY <2>1, <2>2 DEF TypeOK, service
<1>16. ASSUME Incoming
       PROVE  TypeOK' /\ UniqueIds'
    <2>1. PICK host \in InboundHosts :
              /\ Spawn("handshake", [host |-> host, peer |-> Anonymous])
              /\ UNCHANGED <<service, running, log, manager>>
        BY <1>16 DEF Incoming
    <2>2. [host |-> host, peer |-> Anonymous] \in Place
        BY DEF Address, Place
    <2>3. tasks' \subseteq Task /\ IsFiniteSet(tasks') /\ UniqueIds'
        BY <2>1, <2>2, SpawnTypes DEF Spawn, Kind
    <2> QED
        BY <2>1, <2>3 DEF TypeOK, service
<1>17. ASSUME add_task
       PROVE  TypeOK' /\ UniqueIds'
    <2>1. PICK t \in tasks :
              /\ tasks' = (tasks \ {t}) \cup {[t EXCEPT !.stage = "running"]}
              /\ UNCHANGED <<service, running, log, manager>>
        BY <1>17 DEF add_task
    <2> DEFINE n == [t EXCEPT !.stage = "running"]
    <2>2. n \in Task /\ n.id = t.id /\ n.kind = t.kind /\ n.address = t.address
        BY DEF TypeOK, Task, TaskOf
    <2>3. IsFiniteSet(tasks')
        BY <2>1, FS_RemoveElement, FS_AddElement DEF TypeOK
    <2> HIDE DEF n
    <2>4. tasks' \subseteq Task
        BY <2>1, <2>2 DEF n, TypeOK
    <2>5. tasks' = (tasks \ {t}) \cup {n}
        BY <2>1 DEF n
    <2>6. ASSUME NEW u \in tasks \ {t}
          PROVE  ~(u.id = n.id /\ u.kind = n.kind /\ u.address = n.address)
        BY <2>2 DEF UniqueIds
    <2>7. UniqueIds'
        BY <2>5, <2>6 DEF UniqueIds
    <2> QED
        BY <2>1, <2>3, <2>4, <2>7 DEF TypeOK, service
<1>18. ASSUME DropManager
       PROVE  TypeOK' /\ UniqueIds'
    <2>1. IsFiniteSet(tasks') /\ tasks' \subseteq Task
        BY <1>18, SignalledTasks
    <2>2. UniqueIds'
        BY <1>18, SignalledTasks DEF UniqueIds
    <2>3. UNCHANGED <<service, running, log>> /\ manager' \in BOOLEAN
        BY <1>18 DEF DropManager
    <2> QED
        BY <2>1, <2>2, <2>3 DEF TypeOK, service
<1>20. ASSUME FutureTask
       PROVE  TypeOK' /\ UniqueIds'
    <2>1. tasks' \subseteq Task /\ IsFiniteSet(tasks') /\ UniqueIds'
        BY <1>2, <1>20, SpawnTypes DEF FutureTask, Spawn, Kind
    <2>2. UNCHANGED <<next_session, running, log, manager>> /\ run(state, sessions, listens)
        BY <1>20 DEF FutureTask, Given
    <2> QED
        BY <1>1, <2>1, <2>2, RestTypes DEF St
<1>21. ASSUME FutureStops \/ FutureEnds
       PROVE  TypeOK' /\ UniqueIds'
    <2>1. PICK t \in tasks : remove_task(t) /\ UNCHANGED <<service, running, log, manager>>
        BY <1>21 DEF FutureStops, FutureEnds
    <2>2. tasks' \subseteq Task /\ IsFiniteSet(tasks') /\ UniqueIds'
        BY <2>1, RemoveTypes DEF remove_task
    <2> QED
        BY <2>1, <2>2 DEF TypeOK, service
<1>19. ASSUME UNCHANGED vars
       PROVE  TypeOK' /\ UniqueIds'
    BY <1>19 DEF vars, service, TypeOK, UniqueIds
<1> QED
    BY <1>4, <1>5, <1>6, <1>7, <1>8, <1>9, <1>10, <1>11, <1>12, <1>13, <1>14, <1>15, <1>16,
       <1>17, <1>18, <1>19, <1>20, <1>21 DEF Next, DialSuccess, InboundSuccess, Running

\* In every initial state.
LEMMA TypeInit == Init => TypeOK /\ UniqueIds
<1> SUFFICES ASSUME Init
             PROVE  TypeOK /\ UniqueIds
    OBVIOUS
<1>1. DialAddresses \subseteq Place /\ UNION {Binds[r] : r \in ListenAddresses} \subseteq Place
    BY ServiceAssumption DEF Place
<1>2. /\ state \in [mode : {"Running", "Forever", "PreShutdown"}, num : Int]
      /\ tasks \subseteq Task /\ UniqueIds
    BY <1>1 DEF Init, Task, TaskOf, Kind, UniqueIds
<1>3. IsFiniteSet(tasks)
    <2>1. tasks = {} \/ \E t : tasks = {t}
        BY DEF Init
    <2> QED
        BY <2>1, FS_EmptySet, FS_Singleton
<1>4. /\ running = <<>> /\ log = <<>> /\ sessions = <<>> /\ next_session = 0
      /\ ended \in BOOLEAN /\ manager \in BOOLEAN
    BY DEF Init
<1>5. DOMAIN sessions \subseteq 1..next_session
    BY <1>4
<1> QED
    BY <1>2, <1>3, <1>4, <1>5 DEF TypeOK

\* The service's types; futures are told apart by their ids, however many come and go.
THEOREM ServiceTypes == Spec => [](TypeOK /\ UniqueIds)
<1>1. TypeOK /\ UniqueIds /\ [Next]_vars => TypeOK' /\ UniqueIds'
    BY TypeStep
<1> QED
    BY <1>1, TypeInit, PTL DEF Spec

-----------------------------------------------------------------------------
(***************************************************************************)
(* What the ServiceHandle is told                                          *)
(***************************************************************************)

\* What the log of a session comes to.
LEMMA AppendToOne ==
    ASSUME NEW x, NEW y
    PROVE  Append(<<x>>, y) = <<x, y>>
<1> DEFINE p == Append(<<x>>, y)
           q == <<x, y>>
<1>1. p \in Seq({x, y}) /\ Len(p) = 2 /\ p[1] = x /\ p[2] = y
    OBVIOUS
<1>2. q \in Seq({x, y}) /\ Len(q) = 2 /\ q[1] = x /\ q[2] = y
    OBVIOUS
<1> HIDE DEF p, q
<1>3. \A i \in 1..2 : p[i] = q[i]
    BY <1>1, <1>2
<1>4. p = q
    BY <1>1, <1>2, <1>3
<1> QED
    BY <1>4 DEF p, q

\* A step that leaves sessions and log alone.
LEMMA ReportedSame ==
    ASSUME SessionsReported, UNCHANGED <<sessions, log>>
    PROVE  SessionsReported'
BY DEF SessionsReported

\* session_open tells of the new session, and only of that.
LEMMA ReportedOpen ==
    ASSUME TypeOK, SessionsReported, NEW st, NEW address, NEW key, NEW ty,
           session_open(st, address, key, ty)
    PROVE  SessionsReported'
<1>1. CASE UNCHANGED <<next_session, running, log>> /\ run(st, sessions, listens)
    BY <1>1, ReportedSame DEF run
<1>2. CASE ~(UNCHANGED <<next_session, running, log>> /\ run(st, sessions, listens))
    <2>1. /\ log' = Append(log, <<"SessionOpen">>)
          /\ DOMAIN sessions' = DOMAIN sessions \cup {next_session + 1}
        BY <1>2, NextSession DEF session_open, run
    <2>2. Len(log) = next_session /\ log \in Seq(Seq({"SessionOpen", "SessionClose"}))
          /\ <<"SessionOpen">> \in Seq({"SessionOpen", "SessionClose"})
        BY DEF TypeOK
    <2>3. DOMAIN log' = 1..(next_session + 1) /\ DOMAIN log = 1..next_session
        BY <2>1, <2>2
    <2>4. log'[next_session + 1] = <<"SessionOpen">>
          /\ \A id \in 1..next_session : log'[id] = log[id]
        BY <2>1, <2>2
    <2>5. next_session \in Nat
        BY DEF TypeOK
    <2> QED
        BY <2>1, <2>3, <2>4, <2>5 DEF SessionsReported
<1> QED
    BY <1>1, <1>2

\* Every step keeps what the handle was told in line with the open sessions.
LEMMA ReportedStep ==
    ASSUME TypeOK, SessionsReported, [Next]_vars
    PROVE  SessionsReported'
<1>0. /\ log \in Seq(Seq({"SessionOpen", "SessionClose"}))
      /\ DOMAIN log = DOMAIN running
      /\ \A id \in DOMAIN sessions : id \in DOMAIN log
    BY DEF TypeOK
<1>1. ASSUME NEW a \in DialAddresses, Dial(a) \/ DialUnsupported(a)
      PROVE  SessionsReported'
    BY <1>1, ReportedSame DEF Dial, DialUnsupported, run
<1>2. ASSUME NEW a \in ListenAddresses, Listen(a)
      PROVE  SessionsReported'
    BY <1>2, ReportedSame DEF Listen, run
<1>3. ASSUME NEW id \in DOMAIN running, Disconnect(id)
      PROVE  SessionsReported'
    BY <1>3, ReportedSame DEF Disconnect, run
<1>4. ASSUME NEW id \in DOMAIN running, SessionClose(id)
      PROVE  SessionsReported'
    <2>1. DOMAIN sessions' = DOMAIN sessions \ {id}
        BY <1>4 DEF SessionClose, run, Without
    <2>2. CASE id \in DOMAIN sessions
        <3>1. log' = [log EXCEPT ![id] = Append(log[id], "SessionClose")]
            BY <1>4, <2>2 DEF SessionClose, Log
        <3>2. log[id] = <<"SessionOpen">>
            BY <1>0, <2>2 DEF SessionsReported
        <3>3. Append(<<"SessionOpen">>, "SessionClose") = <<"SessionOpen", "SessionClose">>
            BY AppendToOne
        <3>4. log' = [log EXCEPT ![id] = <<"SessionOpen", "SessionClose">>]
            BY <3>1, <3>2, <3>3
        <3> QED
            BY <1>0, <2>1, <2>2, <3>4 DEF SessionsReported
    <2>3. CASE id \notin DOMAIN sessions
        <3>1. log' = log /\ DOMAIN sessions' = DOMAIN sessions
            BY <1>4, <2>1, <2>3 DEF SessionClose
        <3> QED
            BY <3>1 DEF SessionsReported
    <2> QED
        BY <2>2, <2>3
<1>5. ASSUME Close \/ HandleError
      PROVE  SessionsReported'
    BY <1>5, ReportedSame DEF Close, HandleError, ShutdownGracefully, run
<1>6. ASSUME Shutdown
      PROVE  SessionsReported'
    <2>1. /\ log' = [id \in DOMAIN log |-> IF id \in DOMAIN sessions
                                           THEN Append(log[id], "SessionClose") ELSE log[id]]
          /\ DOMAIN sessions' = {}
        BY <1>6 DEF Shutdown, run
    <2>2. Append(<<"SessionOpen">>, "SessionClose") = <<"SessionOpen", "SessionClose">>
        BY AppendToOne
    <2> QED
        BY <2>1, <2>2 DEF SessionsReported
<1>7. ASSUME NEW t, NEW key, NEW ty, HandshakeSuccess(t, key, ty)
      PROVE  SessionsReported'
    BY <1>7, ReportedOpen DEF HandshakeSuccess
<1>8. ASSUME DialError \/ InboundError
      PROVE  SessionsReported'
    BY <1>8, ReportedSame DEF DialError, InboundError, run, service
<1>9. ASSUME ListenStart \/ ListenerFails
      PROVE  SessionsReported'
    BY <1>9, ReportedSame DEF ListenStart, ListenerFails, run, service
<1>10. ASSUME NEW kind, ListenError(kind)
       PROVE  SessionsReported'
    BY <1>10, ReportedSame DEF ListenError, run
<1>11. ASSUME Incoming \/ add_task \/ DropManager \/ FutureStops \/ FutureEnds
       PROVE  SessionsReported'
    BY <1>11, ReportedSame DEF Incoming, add_task, DropManager, FutureStops, FutureEnds, service
<1>13. ASSUME FutureTask
       PROVE  SessionsReported'
    BY <1>13, ReportedSame DEF FutureTask, run
<1>12. ASSUME UNCHANGED vars
       PROVE  SessionsReported'
    BY <1>12, ReportedSame DEF vars, service
<1> QED
    BY <1>1, <1>2, <1>3, <1>4, <1>5, <1>6, <1>7, <1>8, <1>9, <1>10, <1>11, <1>12, <1>13
       DEF Next, DialSuccess, InboundSuccess

\* service.rs, session_open and session_close: whatever the dials, handshakes, closes and
\* shutdowns, the handle sees each session open once and close once, in that order.
THEOREM SessionsAreReported == Spec => []SessionsReported
<1>1. Init => SessionsReported
    <2> SUFFICES ASSUME Init
                 PROVE  DOMAIN log = {}
        BY DEF SessionsReported
    <2>1. log = <<>>
        BY DEF Init
    <2> QED
        BY <2>1
<1>2. TypeOK /\ SessionsReported /\ [Next]_vars => SessionsReported'
    BY ReportedStep
<1> QED
    BY <1>1, <1>2, ServiceTypes, PTL DEF Spec

-----------------------------------------------------------------------------
(***************************************************************************)
(* The count of what is under way                                          *)
(***************************************************************************)

Count(kind) == Cardinality(OfKind(tasks, kind))

\* The count, and that it is zero when it is not used.
Counted ==
    /\ ~manager => ended
    /\ state.mode # "Running" => state.num = 0
    /\ state.mode = "Running" => state.num \in Nat
    /\ state.mode = "Running" /\ ~ended =>
           state.num = Count("dial") + Count("listen")

\* Until the service is told to end, an address that has a listener, or the report of its
\* end, is in `listens', and there is one of them: with ListensApart, an error is that of a
\* listener exactly when the address is in `listens'.
Listened ==
    state.mode = "Running" =>
        \A t \in tasks :
            t.kind \in {"listener", "report"} =>
                /\ t.address \in listens
                /\ \A u \in tasks :
                       u.kind \in {"listener", "report"} /\ t.address = u.address => t = u

\* A dial that is under way is remembered, once; no incoming connection has its address.
Dialing ==
    \A t \in tasks :
        /\ t.kind = "dial" => /\ t.address \in dial_protocols \cap DialAddresses
                              /\ \A u \in tasks : u.kind = "dial" /\ u.address = t.address => t = u
        /\ t.kind = "handshake" => t.address \notin DialAddresses

\* What starting a future does to the numbers of futures of each kind.
LEMMA CountSpawn ==
    ASSUME TypeOK, NEW k, NEW a, tasks' = tasks \cup {NewTask(k, a)}, NEW c
    PROVE  /\ Count(c) \in Nat
           /\ Count(c)' = IF k = c THEN Count(c) + 1 ELSE Count(c)
<1> DEFINE n == NewTask(k, a)
<1>1. IsFiniteSet(tasks) /\ n \notin tasks /\ n.kind = k
    BY VacantId DEF TypeOK
<1> HIDE DEF n
<1>2. tasks' = tasks \cup {n}
    BY DEF n
<1>3. /\ Cardinality(OfKind(tasks, c)) \in Nat
      /\ Cardinality(OfKind(tasks \cup {n}, c)) =
             IF n.kind = c THEN Cardinality(OfKind(tasks, c)) + 1 ELSE Cardinality(OfKind(tasks, c))
    BY <1>1, AddOfKind
<1> QED
    BY <1>1, <1>2, <1>3 DEF Count

\* ... what the end of one does.
LEMMA CountRemove ==
    ASSUME TypeOK, NEW t \in tasks, tasks' = tasks \ {t}, NEW c
    PROVE  /\ Count(c)' \in Nat
           /\ Count(c) = IF t.kind = c THEN Count(c)' + 1 ELSE Count(c)'
<1>1. IsFiniteSet(tasks)
    BY DEF TypeOK
<1>2. /\ Cardinality(OfKind(tasks \ {t}, c)) \in Nat
      /\ Cardinality(OfKind(tasks, c)) =
             IF t.kind = c THEN Cardinality(OfKind(tasks \ {t}, c)) + 1
                           ELSE Cardinality(OfKind(tasks \ {t}, c))
    BY <1>1, RemoveOfKind, ZenonT(40)
<1> QED
    BY <1>2 DEF Count

\* ... and a future that makes room for another.
LEMMA CountSwap ==
    ASSUME TypeOK, NEW t \in tasks, NEW n, n \notin tasks \ {t},
           tasks' = (tasks \ {t}) \cup {n}, NEW c, t.kind # c \/ n.kind # c
    PROVE  /\ Count(c) \in Nat /\ Count(c)' \in Nat
           /\ Count(c)' = IF t.kind = c THEN Count(c) - 1
                          ELSE IF n.kind = c THEN Count(c) + 1 ELSE Count(c)
<1> DEFINE R == tasks \ {t}
<1>1. IsFiniteSet(tasks)
    BY DEF TypeOK
<1>2. /\ IsFiniteSet(R)
      /\ Cardinality(OfKind(R, c)) \in Nat
      /\ Count(c) = IF t.kind = c THEN Cardinality(OfKind(R, c)) + 1 ELSE Cardinality(OfKind(R, c))
    BY <1>1, RemoveOfKind DEF Count
<1>3. n \notin R /\ tasks' = R \cup {n}
    OBVIOUS
<1> HIDE DEF R
<1>4. Cardinality(OfKind(R \cup {n}, c)) =
          IF n.kind = c THEN Cardinality(OfKind(R, c)) + 1 ELSE Cardinality(OfKind(R, c))
    BY <1>2, <1>3, AddOfKind
<1>5. Count(c)' = Cardinality(OfKind(R \cup {n}, c))
    BY <1>3 DEF Count
<1> QED
    BY <1>2, <1>4, <1>5

\* Every step keeps the count.
LEMMA CountedStep ==
    ASSUME ListensApart, TypeOK, UniqueIds, Counted, Listened, [Next]_vars
    PROVE  Counted'
<1>1. \A c : Count(c) \in Nat
    BY FS_Subset, FS_CardinalityType DEF TypeOK, Count, OfKind
<1>2. /\ state.num \in Int /\ state.mode \in {"Running", "Forever", "PreShutdown"}
      /\ state.mode # "Running" => state.num = 0
      /\ state.mode = "Running" => state.num \in Nat
      /\ state.mode = "Running" /\ ~ended => state.num = Count("dial") + Count("listen")
      /\ ended \in BOOLEAN /\ manager \in BOOLEAN /\ (~ended => manager)
    BY DEF TypeOK, Counted
<1>3. /\ increase(state).mode = state.mode /\ decrease(state).mode = state.mode
      /\ increase(state).num = IF state.mode = "Running" THEN state.num + 1 ELSE state.num
      /\ decrease(state).num = IF state.mode = "Running" THEN state.num - 1 ELSE state.num
    BY StateTypes
<1>4. ASSUME ~ended, UNCHANGED manager, state' = increase(state), Count("dial")' \in Nat,
             Count("dial")' + Count("listen")' = Count("dial") + Count("listen") + 1
      PROVE  Counted'
    BY <1>1, <1>2, <1>3, <1>4 DEF Counted
<1>5. ASSUME ~ended, UNCHANGED manager, state' = decrease(state),
             Count("dial")' \in Nat, Count("listen")' \in Nat,
             Count("dial")' + Count("listen")' + 1 = Count("dial") + Count("listen")
      PROVE  Counted'
    BY <1>1, <1>2, <1>3, <1>5 DEF Counted
<1>6. ASSUME UNCHANGED <<manager, state>>, ended => ended',
             ~ended => Count("dial")' = Count("dial") /\ Count("listen")' = Count("listen")
      PROVE  Counted'
    BY <1>1, <1>2, <1>6 DEF Counted
<1>7. ASSUME ~ended, UNCHANGED manager, state'.mode # "Running", state'.num = 0
      PROVE  Counted'
    BY <1>2, <1>7 DEF Counted
<1>8. ASSUME NEW a \in DialAddresses, Dial(a) \/ DialUnsupported(a)
      PROVE  Counted'
    <2>1. ~ended /\ UNCHANGED manager
        BY <1>8 DEF Dial, DialUnsupported, Given
    <2>2. CASE UNCHANGED tasks /\ run(state, sessions, listens)
        BY <1>2, <1>6, <2>1, <2>2 DEF run, Count
    <2>3. CASE Spawn("dial", a) /\ run(increase(state), sessions, listens)
        <3>1. tasks' = tasks \cup {NewTask("dial", a)} /\ state' = increase(state)
            BY <2>3 DEF Spawn, run
        <3>2. Count("dial")' = Count("dial") + 1 /\ Count("listen")' = Count("listen")
            BY <3>1, CountSpawn
        <3> QED
            BY <1>1, <1>4, <2>1, <3>1, <3>2
    <2> QED
        BY <1>8, <2>2, <2>3 DEF Dial, DialUnsupported
<1>9. ASSUME NEW a \in ListenAddresses, Listen(a)
      PROVE  Counted'
    <2>1. ~ended /\ UNCHANGED manager /\ state' = increase(state)
          /\ tasks' = tasks \cup {NewTask("listen", a)}
        BY <1>9 DEF Listen, Given, Spawn, run
    <2>2. Count("dial")' = Count("dial") /\ Count("listen")' = Count("listen") + 1
        BY <2>1, CountSpawn
    <2> QED
        BY <1>1, <1>4, <2>1, <2>2
<1>10. ASSUME NEW id \in DOMAIN running, Disconnect(id) \/ SessionClose(id)
       PROVE  Counted'
    <2>1. ~ended /\ UNCHANGED <<manager, tasks, state>>
        BY <1>10 DEF Disconnect, SessionClose, Given, run
    <2> QED
        BY <1>2, <1>6, <2>1 DEF Count
<1>11. ASSUME Close \/ HandleError \/ Shutdown
       PROVE  Counted'
    <2>1. ~ended /\ UNCHANGED manager /\ state' = pre_shutdown
        BY <1>11 DEF Close, HandleError, Shutdown, ShutdownGracefully, Given, run
    <2> QED
        BY <1>7, <2>1 DEF pre_shutdown
<1>12. ASSUME NEW t \in Running("dial"), NEW key, HandshakeSuccess(t, key, "Outbound")
       PROVE  Counted'
    <2>1. ~ended /\ UNCHANGED manager /\ tasks' = tasks \ {t} /\ t \in tasks /\ t.kind = "dial"
          /\ state' = decrease(state)
        BY <1>12 DEF HandshakeSuccess, remove_task, Running, session_open, run
    <2>2. /\ Count("dial")' \in Nat /\ Count("listen")' \in Nat
          /\ Count("dial") = Count("dial")' + 1 /\ Count("listen") = Count("listen")'
        BY <2>1, CountRemove
    <2> QED
        BY <1>5, <2>1, <2>2
<1>13. ASSUME NEW t \in Running("handshake"), NEW key, HandshakeSuccess(t, key, "Inbound")
       PROVE  Counted'
    <2>1. ~ended /\ UNCHANGED <<manager, state>> /\ tasks' = tasks \ {t} /\ t \in tasks
          /\ t.kind = "handshake"
        BY <1>13 DEF HandshakeSuccess, remove_task, Running, session_open, run
    <2>2. Count("dial") = Count("dial")' /\ Count("listen") = Count("listen")'
        BY <2>1, CountRemove
    <2> QED
        BY <1>6, <2>1, <2>2
<1>14. ASSUME DialError
       PROVE  Counted'
    <2>1. PICK t \in Running("dial") : ~ended /\ UNCHANGED manager /\ tasks' = tasks \ {t}
              /\ state' = decrease(state)
        BY <1>14 DEF DialError, remove_task, run
    <2>2. t \in tasks /\ t.kind = "dial"
        BY DEF Running
    <2>3. /\ Count("dial")' \in Nat /\ Count("listen")' \in Nat
          /\ Count("dial") = Count("dial")' + 1 /\ Count("listen") = Count("listen")'
        BY <2>1, <2>2, CountRemove
    <2> QED
        BY <1>5, <2>1, <2>3
<1>15. ASSUME InboundError
       PROVE  Counted'
    <2>1. PICK t \in Running("handshake") : ~ended /\ UNCHANGED <<manager, state>>
              /\ tasks' = tasks \ {t}
        BY <1>15 DEF InboundError, remove_task, service
    <2>2. t \in tasks /\ t.kind = "handshake"
        BY DEF Running
    <2>3. Count("dial") = Count("dial")' /\ Count("listen") = Count("listen")'
        BY <2>1, <2>2, CountRemove
    <2> QED
        BY <1>6, <2>1, <2>3
<1>16. ASSUME ListenStart
       PROVE  Counted'
    <2>1. PICK t \in Running("listen") : \E b \in Binds[t.address] :
              /\ ~ended /\ UNCHANGED manager /\ state' = decrease(state)
              /\ tasks' = (tasks \ {t}) \cup {NewTask("listener", b)}
        BY <1>16 DEF ListenStart, run
    <2>5. PICK b \in Binds[t.address] : tasks' = (tasks \ {t}) \cup {NewTask("listener", b)}
        BY <2>1
    <2> DEFINE n == NewTask("listener", b)
    <2>2. t \in tasks /\ t.kind = "listen" /\ n \notin tasks /\ n.kind = "listener"
        BY VacantId DEF Running, TypeOK
    <2> HIDE DEF n
    <2>3. tasks' = (tasks \ {t}) \cup {n}
        BY <2>5 DEF n
    <2>4. /\ Count("dial")' = Count("dial")
          /\ Count("listen")' = Count("listen") - 1 /\ Count("listen")' \in Nat
        BY <2>2, <2>3, CountSwap
    <2> QED
        BY <1>1, <1>5, <2>1, <2>4
<1>17. ASSUME NEW kind \in {"listen", "report"}, ListenError(kind)
       PROVE  Counted'
    <2>1. PICK t \in Running(kind) :
              /\ ~ended /\ UNCHANGED manager /\ tasks' = tasks \ {t}
              /\ state' = IF t.address \in listens THEN state ELSE decrease(state)
        BY <1>17 DEF ListenError, remove_task, run
    <2>2. t \in tasks /\ t.kind = kind
        BY DEF Running
    <2>3. CASE state.mode # "Running"
        BY <1>2, <1>3, <1>7, <2>1, <2>3
    <2>4. CASE state.mode = "Running" /\ kind = "listen"
        <3>1. state' = decrease(state)
            BY <2>1, <2>2, <2>4 DEF ListensApart, Pending
        <3>2. /\ Count("dial")' \in Nat /\ Count("listen")' \in Nat
              /\ Count("dial") = Count("dial")' /\ Count("listen") = Count("listen")' + 1
            BY <2>1, <2>2, <2>4, CountRemove
        <3> QED
            BY <1>5, <2>1, <3>1, <3>2
    <2>5. CASE state.mode = "Running" /\ kind = "report"
        <3>1. state' = state
            BY <2>1, <2>2, <2>5 DEF Listened
        <3>2. Count("dial") = Count("dial")' /\ Count("listen") = Count("listen")'
            BY <2>1, <2>2, <2>5, CountRemove
        <3> QED
            BY <1>6, <2>1, <3>1, <3>2
    <2> QED
        BY <2>3, <2>4, <2>5
<1>18. ASSUME ListenerFails
       PROVE  Counted'
    <2>1. PICK t \in Running("listener") : UNCHANGED <<manager, state, ended>>
              /\ tasks' = (tasks \ {t}) \cup {NewTask("report", t.address)}
        BY <1>18 DEF ListenerFails, service
    <2> DEFINE n == NewTask("report", t.address)
    <2>2. t \in tasks /\ t.kind = "listener" /\ n \notin tasks /\ n.kind = "report"
        BY VacantId DEF Running, TypeOK
    <2> HIDE DEF n
    <2>3. tasks' = (tasks \ {t}) \cup {n}
        BY <2>1 DEF n
    <2>4. Count("dial")' = Count("dial") /\ Count("listen")' = Count("listen")
        BY <2>2, <2>3, CountSwap
    <2> QED
        BY <1>6, <2>1, <2>2, <2>4
<1>19. ASSUME Incoming
       PROVE  Counted'
    <2>1. PICK t \in Running("listener"), host \in InboundHosts : UNCHANGED <<manager, state, ended>>
              /\ tasks' = tasks \cup {NewTask("handshake", [host |-> host, peer |-> Anonymous])}
        BY <1>19 DEF Incoming, service, Spawn
    <2>2. Count("dial")' = Count("dial") /\ Count("listen")' = Count("listen")
        BY <2>1, CountSpawn
    <2> QED
        BY <1>6, <2>1, <2>2
<1>20. ASSUME add_task
       PROVE  Counted'
    <2>1. PICK t \in tasks : UNCHANGED <<manager, state, ended>> /\ manager /\ t.stage = "queued"
              /\ tasks' = (tasks \ {t}) \cup {[t EXCEPT !.stage = "running"]}
        BY <1>20 DEF add_task, service
    <2> DEFINE n == [t EXCEPT !.stage = "running"]
    <2>2. n.kind = t.kind /\ n.id = t.id /\ n.address = t.address
        BY DEF TypeOK, Task, TaskOf
    <2> HIDE DEF n
    <2>3. n \notin tasks \ {t} /\ tasks' = (tasks \ {t}) \cup {n} /\ IsFiniteSet(tasks)
        BY <2>1, <2>2 DEF n, UniqueIds, TypeOK
    <2>4. ASSUME NEW c
          PROVE  Count(c)' = Count(c)
        <3> DEFINE R == tasks \ {t}
        <3>1. /\ IsFiniteSet(R)
              /\ Count(c) = IF t.kind = c THEN Cardinality(OfKind(R, c)) + 1
                            ELSE Cardinality(OfKind(R, c))
            BY <2>3, RemoveOfKind DEF Count
        <3>2. n \notin R /\ tasks' = R \cup {n}
            BY <2>3
        <3> HIDE DEF R
        <3>3. Cardinality(OfKind(R \cup {n}, c)) =
                  IF n.kind = c THEN Cardinality(OfKind(R, c)) + 1 ELSE Cardinality(OfKind(R, c))
            BY <3>1, <3>2, AddOfKind
        <3>4. Count(c)' = Cardinality(OfKind(R \cup {n}, c))
            BY <3>2 DEF Count
        <3> QED
            BY <2>2, <3>1, <3>3, <3>4
    <2> QED
        BY <1>6, <2>1, <2>4
<1>21. ASSUME DropManager
       PROVE  Counted'
    BY <1>2, <1>21 DEF DropManager, Counted, service
<1>23. ASSUME FutureTask
       PROVE  Counted'
    <2>1. ~ended /\ UNCHANGED <<manager, state>> /\ tasks' = tasks \cup {NewTask("user", Anonymous)}
        BY <1>23 DEF FutureTask, Given, Spawn, run
    <2>2. Count("dial")' = Count("dial") /\ Count("listen")' = Count("listen")
        BY <2>1, CountSpawn
    <2> QED
        BY <1>6, <2>1, <2>2
<1>24. ASSUME FutureStops
       PROVE  Counted'
    <2>1. UNCHANGED <<manager, state, ended>> /\ ended
        BY <1>2, <1>24 DEF FutureStops, service
    <2> QED
        BY <1>6, <2>1
<1>25. ASSUME FutureEnds
       PROVE  Counted'
    <2>1. PICK t \in tasks : UNCHANGED <<manager, state, ended>> /\ tasks' = tasks \ {t}
              /\ (t.kind = "user" \/ ended)
        BY <1>25 DEF FutureEnds, remove_task, service
    <2>2. CASE t.kind = "user"
        <3>1. Count("dial") = Count("dial")' /\ Count("listen") = Count("listen")'
            BY <2>1, <2>2, CountRemove
        <3> QED
            BY <1>6, <2>1, <3>1
    <2>3. CASE ended
        BY <1>6, <2>1, <2>3
    <2> QED
        BY <2>1, <2>2, <2>3
<1>22. ASSUME UNCHANGED vars
       PROVE  Counted'
    BY <1>6, <1>22 DEF vars, service, Count
<1> QED
    BY <1>8, <1>9, <1>10, <1>11, <1>12, <1>13, <1>14, <1>15, <1>16, <1>17, <1>18, <1>19,
       <1>20, <1>21, <1>22, <1>23, <1>24, <1>25 DEF Next, DialSuccess, InboundSuccess

\* A task set that lost tasks, or got one of a kind that has nothing to do with listening.
LEMMA ListenedFewer ==
    ASSUME Listened, NEW R \in SUBSET tasks, NEW n, UNCHANGED listens, state'.mode = state.mode,
           n.kind \notin {"listener", "report"}, tasks' = R \/ tasks' = R \cup {n}
    PROVE  Listened'
BY DEF Listened

\* Every step keeps listens and listeners apart.
LEMMA ListenedStep ==
    ASSUME ListensApart, TypeOK, UniqueIds, Listened, [Next]_vars
    PROVE  Listened'
<1>1. /\ state.mode \in {"Running", "Forever", "PreShutdown"}
      /\ increase(state).mode = state.mode /\ decrease(state).mode = state.mode
    BY StateTypes DEF TypeOK
<1>2. ASSUME NEW R \in SUBSET tasks, UNCHANGED listens, state'.mode = state.mode, tasks' = R
      PROVE  Listened'
    BY <1>2 DEF Listened
<1>3. ASSUME state'.mode # "Running"
      PROVE  Listened'
    BY <1>3 DEF Listened
<1>4. ASSUME NEW a \in DialAddresses, Dial(a) \/ DialUnsupported(a)
      PROVE  Listened'
    <2> DEFINE n == NewTask("dial", a)
    <2>1. n.kind = "dial"
        BY VacantId DEF TypeOK
    <2>2. UNCHANGED listens /\ state'.mode = state.mode /\ (tasks' = tasks \/ tasks' = tasks \cup {n})
        BY <1>1, <1>4 DEF Dial, DialUnsupported, Spawn, run
    <2> HIDE DEF n
    <2> QED
        BY <2>1, <2>2, ListenedFewer
<1>5. ASSUME NEW a \in ListenAddresses, Listen(a)
      PROVE  Listened'
    <2> DEFINE n == NewTask("listen", a)
    <2>1. n.kind = "listen"
        BY VacantId DEF TypeOK
    <2>2. UNCHANGED listens /\ state'.mode = state.mode /\ tasks' = tasks \cup {n}
        BY <1>1, <1>5 DEF Listen, Spawn, run
    <2> HIDE DEF n
    <2> QED
        BY <2>1, <2>2, ListenedFewer
<1>6. ASSUME NEW id \in DOMAIN running, Disconnect(id) \/ SessionClose(id)
      PROVE  Listened'
    <2>1. UNCHANGED <<listens, state, tasks>>
        BY <1>6 DEF Disconnect, SessionClose, run
    <2> QED
        BY <2>1 DEF Listened
<1>7. ASSUME Close \/ HandleError \/ Shutdown
      PROVE  Listened'
    BY <1>3, <1>7 DEF Close, HandleError, Shutdown, ShutdownGracefully, run, pre_shutdown
<1>8. ASSUME NEW t \in tasks, NEW key, NEW ty, HandshakeSuccess(t, key, ty)
      PROVE  Listened'
    <2>1. UNCHANGED listens /\ tasks' = tasks \ {t} /\ state'.mode = state.mode
        BY <1>1, <1>8 DEF HandshakeSuccess, session_open, run, remove_task
    <2> QED
        BY <1>2, <2>1
<1>9. ASSUME DialError \/ InboundError
      PROVE  Listened'
    <2>1. PICK t \in tasks : UNCHANGED listens /\ tasks' = tasks \ {t} /\ state'.mode = state.mode
        BY <1>1, <1>9 DEF DialError, InboundError, run, remove_task, service, Running
    <2> QED
        BY <1>2, <2>1
<1>10. ASSUME ListenStart
       PROVE  Listened'
    <2>1. PICK t \in Running("listen") : \E b \in Binds[t.address] :
              /\ state'.mode = state.mode
              /\ listens' = listens \cup {b}
              /\ tasks' = (tasks \ {t}) \cup {NewTask("listener", b)}
        BY <1>1, <1>10 DEF ListenStart, run
    <2>5. PICK b \in Binds[t.address] :
              listens' = listens \cup {b} /\ tasks' = (tasks \ {t}) \cup {NewTask("listener", b)}
        BY <2>1
    <2> DEFINE n == NewTask("listener", b)
    <2>2. n.kind = "listener" /\ n.address = b /\ t \in tasks /\ t.kind = "listen"
        BY VacantId DEF TypeOK, Running
    <2> HIDE DEF n
    <2>3. tasks' = (tasks \ {t}) \cup {n}
        BY <2>5 DEF n
    <2>4. SUFFICES ASSUME state.mode = "Running"
                   PROVE  Listened'
        BY <1>3, <2>1
    <2>6. b \notin listens
        BY <2>2 DEF ListensApart, Pending
    <2>7. \A u \in tasks : u.kind \in {"listener", "report"} => u.address # b
        BY <2>4, <2>6 DEF Listened
    <2> QED
        BY <2>2, <2>3, <2>4, <2>5, <2>7 DEF Listened
<1>11. ASSUME NEW kind \in {"listen", "report"}, ListenError(kind)
       PROVE  Listened'
    <2>1. PICK t \in Running(kind) : state'.mode = state.mode /\ tasks' = tasks \ {t}
              /\ listens' = listens \ {t.address}
        BY <1>1, <1>11 DEF ListenError, run, remove_task
    <2>2. t \in tasks /\ t.kind = kind
        BY DEF Running
    <2>3. SUFFICES ASSUME state.mode = "Running"
                   PROVE  Listened'
        BY <1>3, <2>1
    <2>4. \A u \in tasks \ {t} : u.kind \in {"listener", "report"} => u.address # t.address
        <3>1. CASE kind = "listen"
            <4>1. t.address \notin listens
                BY <2>2, <3>1 DEF ListensApart, Pending
            <4> QED
                BY <2>3, <4>1 DEF Listened
        <3>2. CASE kind = "report"
            BY <2>2, <2>3, <3>2 DEF Listened
        <3> QED
            BY <1>11, <3>1, <3>2
    <2> QED
        BY <2>1, <2>3, <2>4 DEF Listened
<1>12. ASSUME ListenerFails
       PROVE  Listened'
    <2>1. PICK t \in Running("listener") : UNCHANGED <<state, listens>>
              /\ tasks' = (tasks \ {t}) \cup {NewTask("report", t.address)}
        BY <1>12 DEF ListenerFails, service
    <2> DEFINE n == NewTask("report", t.address)
    <2>2. n.kind = "report" /\ n.address = t.address /\ t \in tasks /\ t.kind = "listener"
        BY VacantId DEF TypeOK, Running
    <2> HIDE DEF n
    <2>3. tasks' = (tasks \ {t}) \cup {n}
        BY <2>1 DEF n
    <2> QED
        BY <2>1, <2>2, <2>3 DEF Listened
<1>13. ASSUME Incoming
       PROVE  Listened'
    <2>1. PICK host \in InboundHosts : UNCHANGED <<state, listens>>
              /\ tasks' = tasks \cup {NewTask("handshake", [host |-> host, peer |-> Anonymous])}
        BY <1>13 DEF Incoming, service, Spawn
    <2> DEFINE n == NewTask("handshake", [host |-> host, peer |-> Anonymous])
    <2>2. n.kind = "handshake"
        BY VacantId DEF TypeOK
    <2> HIDE DEF n
    <2>3. tasks' = tasks \cup {n}
        BY <2>1 DEF n
    <2> QED
        BY <2>1, <2>2, <2>3, ListenedFewer
<1>14. ASSUME add_task
       PROVE  Listened'
    <2>1. PICK t \in tasks : UNCHANGED <<state, listens>>
              /\ tasks' = (tasks \ {t}) \cup {[t EXCEPT !.stage = "running"]}
        BY <1>14 DEF add_task, service
    <2> DEFINE n == [t EXCEPT !.stage = "running"]
    <2>2. n.kind = t.kind /\ n.address = t.address
        BY DEF TypeOK, Task, TaskOf
    <2> HIDE DEF n
    <2>3. tasks' = (tasks \ {t}) \cup {n}
        BY <2>1 DEF n
    <2> QED
        BY <2>1, <2>2, <2>3 DEF Listened
<1>15. ASSUME DropManager
       PROVE  Listened'
    <2>1. UNCHANGED <<state, listens>>
        BY <1>15 DEF DropManager, service
    <2> QED
        BY <1>15, <2>1, SignalledTasks DEF Listened
<1>17. ASSUME FutureTask
       PROVE  Listened'
    <2> DEFINE n == NewTask("user", Anonymous)
    <2>1. n.kind = "user"
        BY VacantId DEF TypeOK
    <2>2. UNCHANGED listens /\ state'.mode = state.mode /\ tasks' = tasks \cup {n}
        BY <1>17 DEF FutureTask, Spawn, run
    <2> HIDE DEF n
    <2> QED
        BY <2>1, <2>2, ListenedFewer
<1>18. ASSUME FutureStops \/ FutureEnds
       PROVE  Listened'
    <2>1. PICK t \in tasks : UNCHANGED listens /\ tasks' = tasks \ {t} /\ state'.mode = state.mode
        BY <1>18 DEF FutureStops, FutureEnds, remove_task, service
    <2> QED
        BY <1>2, <2>1
<1>16. ASSUME UNCHANGED vars
       PROVE  Listened'
    BY <1>16 DEF vars, service, Listened
<1> QED
    BY <1>4, <1>5, <1>6, <1>7, <1>8, <1>9, <1>10, <1>11, <1>12, <1>13, <1>14, <1>15, <1>16,
       <1>17, <1>18 DEF Next, DialSuccess, InboundSuccess, Running

\* The three initial states.
LEMMA CountedInit == Init => Counted /\ Listened
<1> SUFFICES ASSUME Init
             PROVE  Counted /\ Listened
    OBVIOUS
<1>1. Listened
    BY DEF Init, Listened
<1>2. CASE tasks = {} /\ state = [mode |-> "Forever", num |-> 0]
    BY <1>1, <1>2 DEF Init, Counted
<1>3. ASSUME NEW t, tasks = {t},
             \/ t.kind = "listener" /\ state = [mode |-> "Running", num |-> 0]
             \/ t.kind = "dial" /\ state = [mode |-> "Running", num |-> 1]
      PROVE  Counted
    <2>1. CASE t.kind = "listener" /\ state = [mode |-> "Running", num |-> 0]
        <3>1. OfKind(tasks, "dial") = {} /\ OfKind(tasks, "listen") = {}
            BY <1>3, <2>1 DEF OfKind
        <3>2. Count("dial") = 0 /\ Count("listen") = 0
            BY <3>1, FS_EmptySet DEF Count
        <3> QED
            BY <2>1, <3>2 DEF Counted, Init
    <2>2. CASE t.kind = "dial" /\ state = [mode |-> "Running", num |-> 1]
        <3>1. OfKind(tasks, "dial") = {t} /\ OfKind(tasks, "listen") = {}
            BY <1>3, <2>2 DEF OfKind
        <3>2. Count("dial") = 1 /\ Count("listen") = 0
            BY <3>1, FS_EmptySet, FS_Singleton DEF Count
        <3> QED
            BY <2>2, <3>2 DEF Counted, Init
    <2> QED
        BY <1>3, <2>1, <2>2
<1>4. ASSUME NEW a, state = [mode |-> "Running", num |-> 0],
             tasks = {[id |-> 1, kind |-> "listener", address |-> a, stage |-> "queued"]}
      PROVE  Counted
    <2> DEFINE t == [id |-> 1, kind |-> "listener", address |-> a, stage |-> "queued"]
    <2>1. tasks = {t} /\ t.kind = "listener"
        BY <1>4
    <2> HIDE DEF t
    <2> QED
        BY <1>3, <1>4, <2>1
<1>5. ASSUME NEW a, state = [mode |-> "Running", num |-> 1],
             tasks = {[id |-> 1, kind |-> "dial", address |-> a, stage |-> "queued"]}
      PROVE  Counted
    <2> DEFINE t == [id |-> 1, kind |-> "dial", address |-> a, stage |-> "queued"]
    <2>1. tasks = {t} /\ t.kind = "dial"
        BY <1>5
    <2> HIDE DEF t
    <2> QED
        BY <1>3, <1>5, <2>1
<1> QED
    BY <1>1, <1>2, <1>4, <1>5 DEF Init

\* State counts what is under way, by TypeOK and the two invariants above.
LEMMA CountInvariant == Spec /\ []ListensApart => [](TypeOK /\ Counted /\ Listened)
<1>1. ListensApart /\ TypeOK /\ UniqueIds /\ Counted /\ Listened /\ [Next]_vars
          => Counted' /\ Listened'
    BY CountedStep, ListenedStep
<1> QED
    BY <1>1, CountedInit, ServiceTypes, PTL DEF Spec

\* service/config.rs, State: the count that keeps the service running is the number of its
\* dials and listens under way, exactly, through every success, error and shutdown, for a
\* user that never listens twice on one address.
THEOREM PendingIsCounted == Spec => PendingCounted
<1>1. TypeOK /\ Counted => CountExact
    BY DEF Counted, CountExact, Count, OfKind, Pending
<1> QED
    BY <1>1, CountInvariant, PTL DEF PendingCounted

\* session_open tests the limit before the new session counts.
LEMMA BoundedStep ==
    ASSUME TypeOK, Counted, ConnectionsBounded, [Next]_vars
    PROVE  ConnectionsBounded'
<1>0. /\ IsFiniteSet(DOMAIN sessions) /\ Cardinality(DOMAIN sessions) \in Nat
      /\ max_connection_number \in Nat
    <2>1. IsFiniteSet(1..next_session)
        BY FS_Interval DEF TypeOK
    <2> QED
        BY <2>1, FS_Subset, FS_CardinalityType, ServiceAssumption DEF TypeOK
<1>1. ASSUME DOMAIN sessions' \subseteq DOMAIN sessions
      PROVE  ConnectionsBounded'
    <2>1. Cardinality(DOMAIN sessions') \in Nat
          /\ Cardinality(DOMAIN sessions') <= Cardinality(DOMAIN sessions)
        BY <1>0, <1>1, FS_Subset, FS_CardinalityType
    <2> QED
        BY <1>0, <2>1 DEF ConnectionsBounded
<1>2. ASSUME NEW st, NEW address, NEW key, NEW ty, st.num \in Nat,
             session_open(st, address, key, ty)
      PROVE  ConnectionsBounded'
    <2>1. CASE sessions' = sessions
        BY <1>1, <2>1
    <2>2. CASE sessions' # sessions
        <3>1. /\ ~reached_max_connection_limit(st)
              /\ DOMAIN sessions' = DOMAIN sessions \cup {next_session + 1}
            BY <1>2, <2>2, NextSession DEF session_open, run
        <3>2. Cardinality(DOMAIN sessions) <= max_connection_number
            BY <1>0, <1>2, <3>1 DEF reached_max_connection_limit
        <3>3. Cardinality(DOMAIN sessions') <= Cardinality(DOMAIN sessions) + 1
              /\ Cardinality(DOMAIN sessions') \in Nat
            BY <1>0, <3>1, FS_AddElement, FS_CardinalityType, SMTT(40)
        <3> QED
            BY <1>0, <3>2, <3>3 DEF ConnectionsBounded
    <2> QED
        BY <2>1, <2>2
<1>3. ASSUME NEW t \in Running("dial"), NEW key, HandshakeSuccess(t, key, "Outbound")
      PROVE  ConnectionsBounded'
    <2>1. Count("dial") \in Nat /\ Count("dial") >= 1 /\ Count("listen") \in Nat
        <3>1. IsFiniteSet(tasks) /\ t \in tasks /\ t.kind = "dial"
            BY DEF TypeOK, Running
        <3>2. /\ Cardinality(OfKind(tasks \ {t}, "dial")) \in Nat
              /\ Cardinality(OfKind(tasks, "dial")) = Cardinality(OfKind(tasks \ {t}, "dial")) + 1
              /\ Cardinality(OfKind(tasks \ {t}, "listen")) \in Nat
              /\ Cardinality(OfKind(tasks, "listen")) = Cardinality(OfKind(tasks \ {t}, "listen"))
            BY <3>1, RemoveOfKind
        <3> QED
            BY <3>2 DEF Count
    <2>2. ~ended
        BY <1>3 DEF HandshakeSuccess
    <2>3. decrease(state).num \in Nat
        BY <2>1, <2>2, StateTypes DEF Counted, TypeOK
    <2> QED
        BY <1>2, <1>3, <2>3 DEF HandshakeSuccess
<1>4. ASSUME NEW t, NEW key, HandshakeSuccess(t, key, "Inbound")
      PROVE  ConnectionsBounded'
    <2>1. state.num \in Nat
        BY DEF Counted, TypeOK
    <2> QED
        BY <1>2, <1>4, <2>1 DEF HandshakeSuccess
<1>5. ASSUME NEW id, SessionClose(id)
      PROVE  ConnectionsBounded'
    BY <1>1, <1>5 DEF SessionClose, run, Without
<1>6. ASSUME Shutdown
      PROVE  ConnectionsBounded'
    BY <1>1, <1>6 DEF Shutdown, run
<1>7. ASSUME NEW a, Dial(a) \/ DialUnsupported(a) \/ Listen(a)
      PROVE  ConnectionsBounded'
    BY <1>1, <1>7 DEF Dial, DialUnsupported, Listen, run
<1>8. ASSUME NEW id, Disconnect(id)
      PROVE  ConnectionsBounded'
    BY <1>1, <1>8 DEF Disconnect, run
<1>9. ASSUME Close \/ HandleError \/ DialError \/ InboundError \/ ListenStart \/ ListenerFails
      PROVE  ConnectionsBounded'
    BY <1>1, <1>9 DEF Close, HandleError, ShutdownGracefully, DialError, InboundError, ListenStart,
                      ListenerFails, run, service
<1>10. ASSUME NEW kind, ListenError(kind)
       PROVE  ConnectionsBounded'
    BY <1>1, <1>10 DEF ListenError, run
<1>11. ASSUME Incoming \/ add_task \/ DropManager \/ FutureStops \/ FutureEnds \/ UNCHANGED vars
       PROVE  ConnectionsBounded'
    BY <1>1, <1>11 DEF Incoming, add_task, DropManager, FutureStops, FutureEnds, vars, service
<1>12. ASSUME FutureTask
       PROVE  ConnectionsBounded'
    BY <1>1, <1>12 DEF FutureTask, run
<1> QED
    BY <1>3, <1>4, <1>5, <1>6, <1>7, <1>8, <1>9, <1>10, <1>11, <1>12
       DEF Next, DialSuccess, InboundSuccess

\* service.rs, reached_max_connection_limit: however many handshakes finish at once, there
\* are never more sessions than one over the limit.
THEOREM ConnectionsAreBounded == Spec /\ []ListensApart => []ConnectionsBounded
<1>1. Init => ConnectionsBounded
    <2>1. Init => DOMAIN sessions = {}
        <3>1. Init => sessions = <<>>
            BY DEF Init
        <3> QED
            BY <3>1
    <2>2. Cardinality({}) = 0 /\ max_connection_number \in Nat
        BY FS_EmptySet, ServiceAssumption
    <2> QED
        BY <2>1, <2>2 DEF ConnectionsBounded
<1>2. TypeOK /\ Counted /\ ConnectionsBounded /\ [Next]_vars => ConnectionsBounded'
    BY BoundedStep
<1> QED
    BY <1>1, <1>2, CountInvariant, PTL DEF Spec

-----------------------------------------------------------------------------
(***************************************************************************)
(* The dials that are remembered                                           *)
(***************************************************************************)

\* Incoming connections come from ports that nobody is dialed at.  session_open forgets the
\* address of every new session, also of one that came in.
InboundApart == \A host \in InboundHosts : [host |-> host, peer |-> Anonymous] \notin DialAddresses

\* Fewer futures, and as many addresses remembered.
LEMMA DialingFewer ==
    ASSUME Dialing, NEW R \in SUBSET tasks, NEW n, dial_protocols \subseteq dial_protocols',
           n.kind \notin {"dial", "handshake"}, tasks' = R \/ tasks' = R \cup {n}
    PROVE  Dialing'
BY DEF Dialing

\* A future with its result, whose address is forgotten or not.
LEMMA DialingDone ==
    ASSUME Dialing, NEW t \in tasks, t.kind \in {"dial", "handshake"}, tasks' = tasks \ {t},
           dial_protocols' = dial_protocols \/ dial_protocols' = dial_protocols \ {t.address}
    PROVE  Dialing'
<1>1. \A u \in tasks' : u.kind = "dial" => u.address # t.address
    BY DEF Dialing
<1> QED
    BY <1>1 DEF Dialing

\* Every step keeps the dials remembered.
LEMMA DialingStep ==
    ASSUME InboundApart, TypeOK, Dialing, [Next]_vars
    PROVE  Dialing'
<1>1. \A k, a : NewTask(k, a).kind = k /\ NewTask(k, a).address = a
    BY VacantId DEF TypeOK
<1>2. ASSUME UNCHANGED <<tasks, dial_protocols>>
      PROVE  Dialing'
    BY <1>2 DEF Dialing
<1>3. ASSUME NEW a \in DialAddresses, Dial(a) \/ DialUnsupported(a)
      PROVE  Dialing'
    <2>1. CASE UNCHANGED <<tasks, dial_protocols>>
        BY <1>2, <2>1
    <2>2. CASE UNCHANGED tasks /\ dial_protocols' = dial_protocols \cup {a}
        BY <2>2 DEF Dialing
    <2>3. CASE a \notin dial_protocols /\ Spawn("dial", a) /\ dial_protocols' = dial_protocols \cup {a}
        <3> DEFINE n == NewTask("dial", a)
        <3>1. n.kind = "dial" /\ n.address = a /\ tasks' = tasks \cup {n}
            BY <1>1, <2>3 DEF Spawn
        <3> HIDE DEF n
        <3>2. \A u \in tasks : u.kind = "dial" => u.address # a
            BY <2>3 DEF Dialing
        <3> QED
            BY <2>3, <3>1, <3>2 DEF Dialing
    <2> QED
        BY <1>3, <2>1, <2>2, <2>3 DEF Dial, DialUnsupported
<1>4. ASSUME NEW a \in ListenAddresses, Listen(a)
      PROVE  Dialing'
    <2> DEFINE n == NewTask("listen", a)
    <2>1. n.kind = "listen" /\ tasks' = tasks \cup {n} /\ UNCHANGED dial_protocols
        BY <1>1, <1>4 DEF Listen, Spawn
    <2> HIDE DEF n
    <2> QED
        BY <2>1, DialingFewer
<1>5. ASSUME NEW id, Disconnect(id) \/ SessionClose(id)
      PROVE  Dialing'
    BY <1>2, <1>5 DEF Disconnect, SessionClose
<1>6. ASSUME Close \/ HandleError \/ Shutdown
      PROVE  Dialing'
    BY <1>2, <1>6 DEF Close, HandleError, ShutdownGracefully, Shutdown
<1>7. ASSUME NEW kind \in {"dial", "handshake"}, NEW t \in Running(kind), NEW key, NEW ty,
             HandshakeSuccess(t, key, ty)
      PROVE  Dialing'
    <2>1. t \in tasks /\ t.kind \in {"dial", "handshake"}
        BY <1>7 DEF Running
    <2>2. tasks' = tasks \ {t}
          /\ (dial_protocols' = dial_protocols \/ dial_protocols' = dial_protocols \ {t.address})
        BY <1>7 DEF HandshakeSuccess, remove_task, session_open
    <2> QED
        BY <2>1, <2>2, DialingDone
<1>8. ASSUME DialError \/ InboundError
      PROVE  Dialing'
    <2>1. PICK t \in tasks :
              /\ t.kind \in {"dial", "handshake"} /\ tasks' = tasks \ {t}
              /\ dial_protocols' = dial_protocols \/ dial_protocols' = dial_protocols \ {t.address}
        BY <1>8 DEF DialError, InboundError, remove_task, service, Running
    <2> QED
        BY <2>1, DialingDone
<1>9. ASSUME NEW kind, ListenError(kind)
      PROVE  Dialing'
    <2>1. PICK t \in Running(kind) : tasks' = tasks \ {t} /\ UNCHANGED dial_protocols
        BY <1>9 DEF ListenError, remove_task
    <2> QED
        BY <2>1 DEF Dialing
<1>10. ASSUME ListenStart \/ ListenerFails
       PROVE  Dialing'
    <2>1. UNCHANGED dial_protocols /\ \E t \in tasks, k \in {"listener", "report"} : \E a :
              tasks' = (tasks \ {t}) \cup {NewTask(k, a)}
        BY <1>10 DEF ListenStart, ListenerFails, service, Running
    <2>3. PICK t \in tasks, k \in {"listener", "report"} : \E a :
              tasks' = (tasks \ {t}) \cup {NewTask(k, a)}
        BY <2>1
    <2>4. PICK a : tasks' = (tasks \ {t}) \cup {NewTask(k, a)}
        BY <2>3
    <2> DEFINE n == NewTask(k, a)
               R == tasks \ {t}
    <2>2. n.kind \in {"listener", "report"} /\ tasks' = R \cup {n} /\ R \in SUBSET tasks
        BY <1>1, <2>4
    <2> HIDE DEF n, R
    <2> QED
        BY <2>1, <2>2, DialingFewer
<1>11. ASSUME Incoming
       PROVE  Dialing'
    <2>1. PICK host \in InboundHosts : UNCHANGED dial_protocols
              /\ tasks' = tasks \cup {NewTask("handshake", [host |-> host, peer |-> Anonymous])}
        BY <1>11 DEF Incoming, service, Spawn
    <2> DEFINE n == NewTask("handshake", [host |-> host, peer |-> Anonymous])
    <2>2. n.kind = "handshake" /\ n.address \notin DialAddresses
        BY <1>1 DEF InboundApart
    <2> HIDE DEF n
    <2>3. tasks' = tasks \cup {n}
        BY <2>1 DEF n
    <2> QED
        BY <2>1, <2>2, <2>3 DEF Dialing
<1>12. ASSUME add_task
       PROVE  Dialing'
    <2>1. PICK t \in tasks : UNCHANGED dial_protocols
              /\ tasks' = (tasks \ {t}) \cup {[t EXCEPT !.stage = "running"]}
        BY <1>12 DEF add_task, service
    <2> DEFINE n == [t EXCEPT !.stage = "running"]
    <2>2. n.kind = t.kind /\ n.address = t.address
        BY DEF TypeOK, Task, TaskOf
    <2> HIDE DEF n
    <2>3. tasks' = (tasks \ {t}) \cup {n}
        BY <2>1 DEF n
    <2> QED
        BY <2>1, <2>2, <2>3 DEF Dialing
<1>13. ASSUME DropManager
       PROVE  Dialing'
    <2>1. UNCHANGED dial_protocols
        BY <1>13 DEF DropManager, service
    <2> QED
        BY <1>13, <2>1, SignalledTasks DEF Dialing
<1>15. ASSUME FutureTask
       PROVE  Dialing'
    <2> DEFINE n == NewTask("user", Anonymous)
    <2>1. n.kind = "user" /\ tasks' = tasks \cup {n} /\ UNCHANGED dial_protocols
        BY <1>1, <1>15 DEF FutureTask, Spawn
    <2> HIDE DEF n
    <2> QED
        BY <2>1, DialingFewer
<1>16. ASSUME FutureStops \/ FutureEnds
       PROVE  Dialing'
    <2>1. PICK t \in tasks : tasks' = tasks \ {t} /\ UNCHANGED dial_protocols
        BY <1>16 DEF FutureStops, FutureEnds, remove_task, service
    <2> QED
        BY <2>1 DEF Dialing
<1>14. ASSUME UNCHANGED vars
       PROVE  Dialing'
    BY <1>2, <1>14 DEF vars, service
<1> QED
    BY <1>3, <1>4, <1>5, <1>6, <1>7, <1>8, <1>9, <1>10, <1>11, <1>12, <1>13, <1>14, <1>15,
       <1>16 DEF Next, DialSuccess, InboundSuccess

\* service.rs, dial_inner: an address whose dial is under way is in dial_protocols, whatever
\* other dials succeed or fail, and is not dialed a second time.
THEOREM DialsAreRemembered == InboundApart /\ Spec => []DialsRemembered
<1>1. Init => Dialing
    BY DEF Init, Dialing
<1>2. InboundApart /\ TypeOK /\ Dialing /\ [Next]_vars => Dialing'
    BY DialingStep
<1>3. Dialing => DialsRemembered
    BY DEF Dialing, DialsRemembered, Pending
<1>4. CASE InboundApart
    BY <1>1, <1>2, <1>3, <1>4, ServiceTypes, PTL DEF Spec
<1>5. CASE ~InboundApart
    BY <1>5
<1> QED
    BY <1>4, <1>5

-----------------------------------------------------------------------------
(***************************************************************************)
(* What the handlers know of the listens                                   *)
(***************************************************************************)

\* At most one address comes or goes at a time, or all go at once.
LEMMA ToldOfChange ==
    ASSUME IsFiniteSet(listens), ListensCurrent, ~ended, NEW st, NEW ss, NEW l, NEW a,
           l = listens \/ l = listens \cup {a} \/ l = listens \ {a} \/ l = {},
           run(st, ss, l)
    PROVE  IsFiniteSet(listens') /\ ListensCurrent'
<1>1. told = listens
    BY DEF ListensCurrent
<1>2. IsFiniteSet(l) /\ (Cardinality(l) = Cardinality(listens) => l = listens)
    <2>0. Cardinality(listens) \in Nat
        BY FS_CardinalityType
    <2>1. CASE l = listens \cup {a}
        BY <2>0, <2>1, FS_AddElement
    <2>2. CASE l = listens \ {a}
        BY <2>0, <2>2, FS_RemoveElement
    <2>3. CASE l = {}
        BY <2>0, <2>3, FS_EmptySet
    <2> QED
        BY <2>1, <2>2, <2>3
<1>3. listens' = l /\ (ended' \/ told' = try_update_listens(l))
    BY DEF run
<1> QED
    BY <1>1, <1>2, <1>3 DEF ListensCurrent, try_update_listens

\* Every step keeps the handlers informed.
LEMMA ToldStep ==
    ASSUME IsFiniteSet(listens), ListensCurrent, [Next]_vars
    PROVE  IsFiniteSet(listens') /\ ListensCurrent'
<1>1. ASSUME UNCHANGED service
      PROVE  IsFiniteSet(listens') /\ ListensCurrent'
    BY <1>1 DEF service, ListensCurrent
<1>2. ASSUME NEW st, NEW ss, NEW l, NEW a, ~ended, run(st, ss, l),
             l = listens \/ l = listens \cup {a} \/ l = listens \ {a} \/ l = {}
      PROVE  IsFiniteSet(listens') /\ ListensCurrent'
    BY <1>2, ToldOfChange
<1>3. ASSUME NEW a, Dial(a) \/ DialUnsupported(a) \/ Listen(a)
      PROVE  IsFiniteSet(listens') /\ ListensCurrent'
    BY <1>2, <1>3 DEF Dial, DialUnsupported, Listen, Given
<1>4. ASSUME NEW id, Disconnect(id) \/ SessionClose(id)
      PROVE  IsFiniteSet(listens') /\ ListensCurrent'
    BY <1>2, <1>4 DEF Disconnect, SessionClose, Given
<1>5. ASSUME Close \/ HandleError \/ Shutdown
      PROVE  IsFiniteSet(listens') /\ ListensCurrent'
    BY <1>2, <1>5 DEF Close, HandleError, Shutdown, ShutdownGracefully, Given
<1>6. ASSUME NEW t, NEW key, NEW ty, HandshakeSuccess(t, key, ty)
      PROVE  IsFiniteSet(listens') /\ ListensCurrent'
    <2>1. ~ended /\ \E st, ss : run(st, ss, listens)
        BY <1>6 DEF HandshakeSuccess, session_open
    <2> QED
        BY <1>2, <2>1
<1>7. ASSUME DialError
      PROVE  IsFiniteSet(listens') /\ ListensCurrent'
    BY <1>2, <1>7 DEF DialError
<1>8. ASSUME ListenStart
      PROVE  IsFiniteSet(listens') /\ ListensCurrent'
    BY <1>2, <1>8 DEF ListenStart
<1>9. ASSUME NEW kind, ListenError(kind)
      PROVE  IsFiniteSet(listens') /\ ListensCurrent'
    BY <1>2, <1>9 DEF ListenError
<1>11. ASSUME FutureTask
       PROVE  IsFiniteSet(listens') /\ ListensCurrent'
    BY <1>2, <1>11 DEF FutureTask, Given
<1>10. ASSUME \/ InboundError \/ ListenerFails \/ Incoming \/ add_task \/ DropManager
              \/ FutureStops \/ FutureEnds \/ UNCHANGED vars
       PROVE  IsFiniteSet(listens') /\ ListensCurrent'
    BY <1>1, <1>10 DEF InboundError, ListenerFails, Incoming, add_task, DropManager, FutureStops,
                       FutureEnds, vars
<1> QED
    BY <1>3, <1>4, <1>5, <1>6, <1>7, <1>8, <1>9, <1>10, <1>11 DEF Next, DialSuccess, InboundSuccess

\* service.rs, try_update_listens: the handlers know the addresses listened on, although they
\* are told only when the number of addresses has changed.
THEOREM ListensAreCurrent == Spec => []ListensCurrent
<1>1. Init => IsFiniteSet(listens) /\ ListensCurrent
    <2> SUFFICES ASSUME Init
                 PROVE  IsFiniteSet(listens) /\ told = listens
        BY DEF ListensCurrent
    <2>1. (listens = {} \/ \E a : listens = {a}) /\ told = listens
        BY DEF Init
    <2> QED
        BY <2>1, FS_EmptySet, FS_Singleton
<1>2. IsFiniteSet(listens) /\ ListensCurrent /\ [Next]_vars => IsFiniteSet(listens') /\ ListensCurrent'
    BY ToldStep
<1>3. IsFiniteSet(listens') <=> IsFiniteSet(listens)'
    OBVIOUS
<1> QED
    BY <1>1, <1>2, <1>3, PTL DEF Spec

=============================================================================
