-------------------------- MODULE TraceTransport_proofs --------------------------
(***************************************************************************)
(* Theorems about TraceTransport, for any number of applications, any      *)
(* length of the kernel's queue and any number of losses and faults.       *)
(***************************************************************************)
EXTENDS TraceTransport, SequenceLemmas, TLAPS

(* Before anything happens nothing is on its way. *)
LEMMA InitInv == Init => OrderInv
<1>. SUFFICES ASSUME Init PROVE OrderInv
  OBVIOUS
<1>1. DOMAIN log = {} /\ DOMAIN queue = {} /\ ~ Handling
  BY DEF Init, Down, Handling
<1>2. TypeOK
  <2>1. srv \in [pc : ServerPcs, msg : Nat]
    BY DEF Init, Down, ServerPcs
  <2>2. cl \in [Clients -> [pc : {"idle", "send"}, calls : Nat, fits : BOOLEAN]]
    BY DEF Init
  <2>3. queue \in Seq(Nat) /\ accepted \in Seq(BOOLEAN)
        /\ log \in Seq([msg : Nat, whole : BOOLEAN])
    BY DEF Init
  <2>. QED
    BY <1>1, <2>1, <2>2, <2>3 DEF Init, TypeOK
<1>3. LogInOrder /\ WayInOrder
  BY <1>1 DEF LogInOrder, WayInOrder
<1>. QED
  BY <1>2, <1>3 DEF OrderInv

(* A datagram that the kernel takes gets a number above all others. *)
LEMMA SendInv == ASSUME OrderInv, NEW c \in Clients, Send(c) PROVE OrderInv'
<1>. USE DEF OrderInv
<1>1. cl' \in [Clients -> [pc : {"idle", "send"}, calls : Nat, fits : BOOLEAN]]
  BY DEF Send, TypeOK
<1>2. CASE sock_path # "bound"
  BY <1>1, <1>2 DEF Send, TypeOK, LogInOrder, WayInOrder, clientRest, Handling, Numbers
<1>3. CASE sock_path = "bound"
  <2>1. /\ accepted' = Append(accepted, cl[c].fits)
        /\ queue' = Append(queue, Len(accepted) + 1)
        /\ UNCHANGED clientRest
    BY <1>3 DEF Send
  <2>2. /\ accepted \in Seq(BOOLEAN) /\ cl[c].fits \in BOOLEAN
        /\ queue \in Seq(Nat) /\ Len(accepted) \in Nat
    BY DEF TypeOK
  <2>3. accepted' \in Seq(BOOLEAN) /\ Len(accepted') = Len(accepted) + 1
    BY <2>1, <2>2, AppendEntry
  <2>4. /\ queue' \in Seq(Nat)
        /\ DOMAIN queue = 1 .. Len(queue) /\ DOMAIN queue' = 1 .. Len(queue) + 1
        /\ \A k \in DOMAIN queue : queue'[k] = queue[k]
        /\ queue'[Len(queue) + 1] = Len(accepted) + 1
        /\ Len(queue) \in Nat
    BY <2>1, <2>2, AppendEntry
  <2>5. \A j \in DOMAIN queue' : \/ j \in DOMAIN queue /\ queue'[j] = queue[j]
                                 \/ j = Len(queue) + 1 /\ queue'[j] = Len(accepted) + 1
    BY <2>4
  <2>6. TypeOK'
    BY <1>1, <2>1, <2>2, <2>3, <2>4, <2>5 DEF TypeOK, clientRest, Handling, Numbers
  <2>7. LogInOrder'
    BY <2>1 DEF LogInOrder, clientRest
  <2>8. WayInOrder'
    <3>1. \A i \in DOMAIN log : log[i].msg < Len(accepted) + 1
      BY <2>2 DEF TypeOK, Numbers
    <3>2. Handling => srv.msg < Len(accepted) + 1
      BY <2>2 DEF TypeOK, Numbers
    <3>3. \A j \in DOMAIN queue : queue[j] < Len(accepted) + 1
      BY <2>2 DEF TypeOK, Numbers
    <3>4. \A i, j \in DOMAIN queue' : i < j => queue'[i] < queue'[j]
      BY <2>4, <2>5, <3>3 DEF WayInOrder
    <3>. QED
      BY <2>1, <2>5, <3>1, <3>2, <3>4 DEF WayInOrder, clientRest, Handling
  <2>. QED
    BY <2>6, <2>7, <2>8
<1>. QED
  BY <1>2, <1>3

(* The thread takes the datagram that comes right after what is stored. *)
LEMMA RecvInv == OrderInv /\ Recv => OrderInv'
<1>. SUFFICES ASSUME OrderInv, Recv PROVE OrderInv'
  OBVIOUS
<1>. USE DEF OrderInv
<1>1. /\ srv' = [pc |-> "handle", msg |-> Head(queue)]
      /\ queue' = Tail(queue) /\ queue # <<>> /\ queue \in Seq(Nat)
      /\ UNCHANGED <<daemonRest, sock_path, out_file, log, faults>>
  BY DEF Recv, TypeOK
<1>2. /\ srv'.msg = queue[1] /\ 1 \in DOMAIN queue
      /\ queue' \in Seq(Nat)
      /\ \A k \in DOMAIN queue' :
           k + 1 \in DOMAIN queue /\ k \in Nat \ {0} /\ queue'[k] = queue[k + 1]
  BY <1>1, TakeEntry
<1>3. TypeOK'
  BY <1>1, <1>2 DEF TypeOK, daemonRest, Handling, Numbers, ServerPcs
<1>4. LogInOrder'
  BY <1>1 DEF LogInOrder
<1>5. WayInOrder'
  <2>1. \A i \in DOMAIN log' : log'[i].msg < srv'.msg
    BY <1>1, <1>2 DEF WayInOrder
  <2>2. \A j \in DOMAIN queue' : srv'.msg < queue'[j]
    BY <1>2 DEF WayInOrder
  <2>3. \A i \in DOMAIN log', j \in DOMAIN queue' : log'[i].msg < queue'[j]
    BY <1>1, <1>2 DEF WayInOrder
  <2>4. \A i, j \in DOMAIN queue' : i < j => queue'[i] < queue'[j]
    BY <1>2 DEF WayInOrder
  <2>. QED
    BY <2>1, <2>2, <2>3, <2>4 DEF WayInOrder
<1>. QED
  BY <1>3, <1>4, <1>5

(* A line that is written, whole or not, comes after those in the file. *)
LEMMA WriteInv == OrderInv /\ WriteLine => OrderInv'
<1>. SUFFICES ASSUME OrderInv, WriteLine PROVE OrderInv'
  OBVIOUS
<1>. USE DEF OrderInv
<1>1. /\ srv.pc = "write" /\ srv' = Receiving
      /\ faults' \in {faults, faults + 1}
      /\ UNCHANGED <<daemonRest, sock_path, queue, out_file>>
  BY DEF WriteLine, With, NotWhole
<1>2. CASE log' = log
  BY <1>1, <1>2 DEF TypeOK, LogInOrder, WayInOrder, daemonRest, Receiving, Handling, Numbers,
    ServerPcs
<1>3. ASSUME NEW e \in [msg : Nat, whole : BOOLEAN], e.msg = srv.msg, log' = Append(log, e)
      PROVE OrderInv'
  <2>1. log \in Seq([msg : Nat, whole : BOOLEAN]) /\ srv.msg \in Numbers /\ Handling
    BY <1>1 DEF TypeOK, Handling
  <2>2. /\ log' \in Seq([msg : Nat, whole : BOOLEAN])
        /\ DOMAIN log = 1 .. Len(log) /\ DOMAIN log' = 1 .. Len(log) + 1
        /\ \A k \in DOMAIN log : log'[k] = log[k]
        /\ log'[Len(log) + 1] = e
        /\ Len(log) \in Nat
    BY <1>3, <2>1, AppendEntry
  <2>3. \A k \in DOMAIN log' : \/ k \in DOMAIN log /\ log'[k].msg = log[k].msg
                               \/ k = Len(log) + 1 /\ log'[k].msg = srv.msg
    BY <1>3, <2>2
  <2>4. TypeOK'
    <3>1. srv' \in [pc : ServerPcs, msg : Nat] /\ ~ Handling'
      BY <1>1 DEF Receiving, ServerPcs, Handling
    <3>2. \A i \in DOMAIN log' : log'[i].msg \in Numbers'
      BY <1>1, <2>1, <2>3 DEF TypeOK, daemonRest, Numbers
    <3>3. faults' \in Nat
      BY <1>1 DEF TypeOK
    <3>. QED
      BY <1>1, <2>2, <3>1, <3>2, <3>3 DEF TypeOK, daemonRest, Numbers
  <2>5. LogInOrder'
    <3>1. \A k \in DOMAIN log : log[k].msg < srv.msg
      BY <2>1 DEF WayInOrder
    <3>. QED
      BY <2>2, <2>3, <3>1 DEF LogInOrder
  <2>6. WayInOrder'
    BY <1>1, <2>1, <2>3 DEF WayInOrder, Receiving, Handling
  <2>. QED
    BY <2>4, <2>5, <2>6
<1>4. \/ log' = log
      \/ \E w \in BOOLEAN : log' = Append(log, [msg |-> srv.msg, whole |-> w])
  BY DEF WriteLine, With, NotWhole
<1>5. srv.msg \in Nat
  BY DEF TypeOK
<1>6. ASSUME NEW w \in BOOLEAN, log' = Append(log, [msg |-> srv.msg, whole |-> w])
      PROVE OrderInv'
  BY <1>3, <1>5, <1>6
<1>. QED
  BY <1>2, <1>4, <1>6

(* OrderInv is inductive. *)
LEMMA StepInv == OrderInv /\ [Next]_vars => OrderInv'
<1>. SUFFICES ASSUME OrderInv, [Next]_vars PROVE OrderInv'
  OBVIOUS
<1>. USE DEF OrderInv
<1>1. ASSUME NEW c \in Clients, Trace(c) PROVE OrderInv'
  BY <1>1 DEF Trace, TypeOK, LogInOrder, WayInOrder, clientRest, Handling, Numbers
<1>2. CASE Start \/ NoListener \/ Bind \/ BindFails
  <2>1. CASE Start
    BY <2>1 DEF Start, Receiving, TypeOK, LogInOrder, WayInOrder, daemonRest, Handling, Numbers,
      ServerPcs
  <2>2. CASE NoListener
    BY <2>2 DEF NoListener, Receiving, TypeOK, LogInOrder, WayInOrder, daemonRest, Handling,
      Numbers, ServerPcs
  <2>3. CASE Bind
    BY <2>3 DEF Bind, Receiving, TypeOK, LogInOrder, WayInOrder, daemonRest, Handling, Numbers,
      ServerPcs
  <2>4. CASE BindFails
    BY <2>4 DEF BindFails, Receiving, TypeOK, LogInOrder, WayInOrder, daemonRest, Handling,
      Numbers, ServerPcs
  <2>. QED
    BY <1>2, <2>1, <2>2, <2>3, <2>4
<1>3. CASE HandleMessage
  BY <1>3 DEF HandleMessage, Malformed, Receiving, TypeOK, LogInOrder, WayInOrder, daemonRest, Handling,
    Numbers, ServerPcs
<1>4. CASE OpenFile
  <2>1. /\ srv.pc = "store"
        /\ srv' \in {[srv EXCEPT !.pc = "write"], Receiving}
        /\ out_file' \in BOOLEAN /\ faults' \in Nat
        /\ UNCHANGED <<daemonRest, sock_path, queue, log>>
    <3>1. out_file' \in BOOLEAN
      BY <1>4, Zenon DEF OpenFile, AfterOpen, TypeOK
    <3>2. faults' \in Nat
      <4>1. faults' = faults \/ faults' = faults + 1
        BY <1>4, Zenon DEF OpenFile, AfterOpen
      <4>. QED
        BY <4>1 DEF TypeOK
    <3>3. srv' = [srv EXCEPT !.pc = "write"] \/ srv' = Receiving
      BY <1>4, Zenon DEF OpenFile, AfterOpen
    <3>. QED
      BY <1>4, <3>1, <3>2, <3>3, Zenon DEF OpenFile, AfterOpen
  <2>2. srv' \in [pc : ServerPcs, msg : Nat] /\ (Handling' => srv'.msg = srv.msg /\ Handling)
    <3>1. CASE srv' = [srv EXCEPT !.pc = "write"]
      BY <2>1, <3>1 DEF TypeOK, ServerPcs, Handling
    <3>2. CASE srv' = Receiving
      BY <3>2 DEF Receiving, ServerPcs, Handling
    <3>. QED
      BY <2>1, <3>1, <3>2
  <2>3. TypeOK'
    BY <2>1, <2>2 DEF TypeOK, daemonRest, Numbers
  <2>. QED
    BY <2>1, <2>2, <2>3 DEF LogInOrder, WayInOrder
<1>5. CASE Terminate
  <2>1. /\ srv' = Down /\ queue' = <<>> /\ out_file' = FALSE /\ kills' \in Nat
        /\ sock_path' \in {"none", "bound", "stale"}
        /\ UNCHANGED <<cl, accepted, log, faults>>
    BY <1>5 DEF Terminate, TypeOK
  <2>2. srv' \in [pc : ServerPcs, msg : Nat] /\ ~ Handling'
    BY <2>1 DEF Down, ServerPcs, Handling
  <2>3. DOMAIN queue' = {} /\ queue' \in Seq(Nat)
    BY <2>1
  <2>4. TypeOK'
    BY <2>1, <2>2, <2>3 DEF TypeOK, Numbers
  <2>. QED
    BY <2>1, <2>2, <2>3, <2>4 DEF LogInOrder, WayInOrder
<1>6. CASE Rest \/ UNCHANGED vars
  BY <1>6 DEF Rest, vars, TypeOK, LogInOrder, WayInOrder, Handling, Numbers
<1>. QED
  BY <1>1, <1>2, <1>3, <1>4, <1>5, <1>6, SendInv, RecvInv, WriteInv DEF Next, Daemon

(* The inductive invariant holds in every reachable state. *)
THEOREM Invariance == Spec => []OrderInv
  BY InitInv, StepInv, PTL DEF Spec

-------------------------------------------------------------------------------
(* The types of the trace transport; whatever the thread handles, the      *)
(* kernel holds or the file contains was accepted from a client.           *)
THEOREM TypeCorrect == Spec => []TypeOK
<1>1. OrderInv => TypeOK
  BY DEF OrderInv
<1>. QED
  BY <1>1, Invariance, PTL

(* The file holds every trace at most once and in the order of acceptance, *)
(* over any number of disk faults, terminations and restarts.              *)
THEOREM StoredInOrder == Spec => []LogInOrder
<1>1. OrderInv => LogInOrder
  BY DEF OrderInv
<1>. QED
  BY <1>1, Invariance, PTL

(* A path that takes datagrams is the path of a thread that receives them. *)
THEOREM NoDeafSocket == Spec => []BoundIsReceived
<1>1. Init => BoundIsReceived
  BY DEF Init, BoundIsReceived, Down
<1>2. OrderInv /\ BoundIsReceived /\ [Next]_vars => BoundIsReceived'
  <2>. SUFFICES ASSUME OrderInv, BoundIsReceived, [Next]_vars PROVE BoundIsReceived'
    OBVIOUS
  <2>. USE DEF BoundIsReceived
  <2>. srv \in [pc : ServerPcs, msg : Nat]
    BY DEF OrderInv, TypeOK
  <2>1. ASSUME NEW c \in Clients, Trace(c) \/ Send(c) PROVE BoundIsReceived'
    BY <2>1 DEF Trace, Send, clientRest
  <2>2. CASE Start \/ NoListener \/ Bind \/ BindFails
    BY <2>2 DEF Start, NoListener, Bind, BindFails, Receiving
  <2>3. CASE Recv \/ HandleMessage
    BY <2>3 DEF Recv, HandleMessage, Malformed, Receiving
  <2>4. CASE OpenFile \/ WriteLine
    <3>1. CASE OpenFile
      BY <3>1 DEF OpenFile, AfterOpen, Receiving
    <3>2. CASE WriteLine
      <4>1. srv.pc = "write" /\ srv' = Receiving /\ UNCHANGED <<sock_path, queue>>
        BY <3>2, Zenon DEF WriteLine
      <4>. QED
        BY <4>1 DEF Receiving
    <3>. QED
      BY <2>4, <3>1, <3>2
  <2>5. CASE Terminate \/ Rest \/ UNCHANGED vars
    BY <2>5 DEF Terminate, Rest, Down, vars
  <2>. QED
    BY <2>1, <2>2, <2>3, <2>4, <2>5 DEF Next, Daemon
<1>. QED
  BY <1>1, <1>2, Invariance, PTL DEF Spec

(* While the daemon is not terminated and the disk does not fail, every    *)
(* trace that was accepted and fits is whole in the file, or on its way.   *)
THEOREM NoGap == Spec => []NoUnexplainedGap
<1>. DEFINE InFile(i) == [msg |-> i, whole |-> TRUE] \in Range(log)
            InHand(i) == Handling /\ srv.msg = i
            InQueue(i) == \E j \in DOMAIN queue : queue[j] = i
            Accounted(i) == InFile(i) \/ InHand(i) \/ InQueue(i)
<1>1. Init => NoUnexplainedGap
  <2>. SUFFICES ASSUME Init PROVE NoUnexplainedGap
    OBVIOUS
  <2>1. accepted = <<>>
    BY DEF Init
  <2>2. Numbers = {}
    BY <2>1 DEF Numbers
  <2>. QED
    BY <2>2 DEF NoUnexplainedGap
<1>2. OrderInv /\ NoUnexplainedGap /\ [Next]_vars => NoUnexplainedGap'
  <2>. SUFFICES ASSUME OrderInv, NoUnexplainedGap, [Next]_vars PROVE NoUnexplainedGap'
    OBVIOUS
  <2>. USE DEF OrderInv
  <2>1. /\ accepted \in Seq(BOOLEAN) /\ Len(accepted) \in Nat
        /\ queue \in Seq(Nat) /\ kills \in Nat /\ faults \in Nat
        /\ log \in Seq([msg : Nat, whole : BOOLEAN])
        /\ srv \in [pc : ServerPcs, msg : Nat]
    BY DEF TypeOK
  \* A step that accepts nothing and loses sight of nothing.
  <2>2. ASSUME kills' = 0 => kills = 0, faults' = 0 => faults = 0,
               accepted' = accepted,
               ASSUME NEW i \in Numbers, accepted[i], kills' = 0, faults' = 0, Accounted(i)
               PROVE  Accounted(i)'
        PROVE  NoUnexplainedGap'
    <3>. SUFFICES ASSUME kills' = 0, faults' = 0, NEW i \in Numbers', accepted'[i]
                  PROVE  Accounted(i)'
      BY DEF NoUnexplainedGap
    <3>1. i \in Numbers /\ accepted[i]
      BY <2>2 DEF Numbers
    <3>2. Accounted(i)
      BY <2>2, <3>1 DEF NoUnexplainedGap
    <3>. QED
      BY <2>2, <3>1, <3>2
  <2>3. ASSUME NEW c \in Clients, Trace(c) PROVE NoUnexplainedGap'
    BY <2>2, <2>3 DEF Trace, clientRest, Handling
  <2>4. ASSUME NEW c \in Clients, Send(c) PROVE NoUnexplainedGap'
    <3>1. CASE sock_path # "bound"
      BY <2>2, <2>4, <3>1 DEF Send, clientRest, Handling
    <3>2. CASE sock_path = "bound"
      <4>1. /\ accepted' = Append(accepted, cl[c].fits)
            /\ queue' = Append(queue, Len(accepted) + 1)
            /\ UNCHANGED clientRest
        BY <2>4, <3>2 DEF Send
      <4>2. /\ Len(accepted') = Len(accepted) + 1
            /\ \A k \in Numbers : accepted'[k] = accepted[k]
        <5>1. cl[c].fits \in BOOLEAN
          BY DEF TypeOK
        <5>. QED
          BY <2>1, <4>1, <5>1, AppendEntry DEF Numbers
      <4>3. /\ DOMAIN queue' = 1 .. Len(queue) + 1 /\ Len(queue) \in Nat
            /\ DOMAIN queue = 1 .. Len(queue)
            /\ \A k \in DOMAIN queue : queue'[k] = queue[k]
            /\ queue'[Len(queue) + 1] = Len(accepted) + 1
        BY <2>1, <4>1, AppendEntry
      <4>. SUFFICES ASSUME kills = 0, faults = 0, NEW i \in Numbers', accepted'[i]
                    PROVE  Accounted(i)'
        BY <4>1 DEF NoUnexplainedGap, clientRest
      <4>4. CASE i = Len(accepted) + 1
        BY <4>3, <4>4
      <4>5. CASE i # Len(accepted) + 1
        <5>1. i \in Numbers /\ accepted[i]
          BY <2>1, <4>2, <4>5 DEF Numbers
        <5>2. Accounted(i)
          BY <5>1 DEF NoUnexplainedGap
        <5>3. InQueue(i) => InQueue(i)'
          BY <4>3
        <5>. QED
          BY <4>1, <5>2, <5>3 DEF clientRest, Handling
      <4>. QED
        BY <4>4, <4>5
    <3>. QED
      BY <3>1, <3>2
  <2>5. CASE Start \/ NoListener \/ Bind \/ BindFails
    BY <2>2, <2>5 DEF Start, NoListener, Bind, BindFails, daemonRest, Handling
  <2>6. CASE Recv
    <3>1. /\ srv.pc = "recv" /\ srv' = [pc |-> "handle", msg |-> Head(queue)]
          /\ queue' = Tail(queue) /\ queue # <<>>
          /\ UNCHANGED <<daemonRest, log, faults>>
      BY <2>6 DEF Recv
    <3>2. /\ srv'.msg = queue[1] /\ Handling' /\ ~ Handling
          /\ \A k \in DOMAIN queue : k = 1 \/ (k - 1 \in DOMAIN queue' /\ queue'[k - 1] = queue[k])
      <4>1. /\ DOMAIN queue = 1 .. Len(queue) /\ Len(queue) \in Nat
            /\ queue' \in Seq(Nat) /\ Len(queue') = Len(queue) - 1
            /\ DOMAIN queue' = 1 .. Len(queue')
            /\ \A k \in 1 .. Len(queue') : queue'[k] = queue[k + 1]
        BY <2>1, <3>1, HeadTailProperties, LenProperties
      <4>2. Head(queue) = queue[1]
        BY <2>1, <3>1, TakeEntry
      <4>. QED
        BY <3>1, <4>1, <4>2 DEF Handling
    <3>3. ASSUME NEW i \in Numbers, Accounted(i) PROVE Accounted(i)'
      <4>1. InFile(i) => InFile(i)'
        BY <3>1
      <4>2. ASSUME InQueue(i) PROVE InHand(i)' \/ InQueue(i)'
        BY <3>2, <4>2
      <4>. QED
        BY <3>2, <3>3, <4>1, <4>2
    <3>. QED
      BY <2>2, <3>1, <3>3 DEF daemonRest
  <2>7. CASE HandleMessage
    <3>1. /\ srv' = (IF accepted[srv.msg] THEN [srv EXCEPT !.pc = "store"] ELSE Receiving)
          /\ UNCHANGED <<daemonRest, queue, log, faults>>
      BY <2>7 DEF HandleMessage, Malformed
    <3>2. ASSUME NEW i \in Numbers, accepted[i], InHand(i) PROVE InHand(i)'
      BY <2>1, <3>1, <3>2 DEF Handling
    <3>. QED
      BY <2>2, <3>1, <3>2 DEF daemonRest
  <2>8. CASE OpenFile
    <3>1. /\ srv.pc = "store" /\ UNCHANGED <<daemonRest, queue, log>>
          /\ \/ srv' = [srv EXCEPT !.pc = "write"] /\ faults' = faults
             \/ srv' = Receiving /\ faults' = faults + 1
      BY <2>8, Zenon DEF OpenFile, AfterOpen
    <3>2. ASSUME NEW i \in Numbers, InHand(i), faults' = 0 PROVE InHand(i)'
      BY <2>1, <3>1, <3>2 DEF Handling
    <3>3. faults' = 0 => faults = 0
      BY <2>1, <3>1
    <3>. QED
      BY <2>2, <3>1, <3>2, <3>3 DEF daemonRest
  <2>9. CASE WriteLine
    <3>1. /\ srv.pc = "write" /\ UNCHANGED <<daemonRest, queue>>
          /\ \/ log' = Append(log, [msg |-> srv.msg, whole |-> TRUE]) /\ faults' = faults
             \/ faults' = faults + 1
      BY <2>9, Zenon DEF WriteLine, With
    <3>2. faults' = 0 => faults = 0
      BY <2>1, <3>1
    <3>3. ASSUME NEW i \in Numbers, faults' = 0, InFile(i) \/ InHand(i) PROVE InFile(i)'
      <4>1. log' = Append(log, [msg |-> srv.msg, whole |-> TRUE])
        BY <2>1, <3>1, <3>3
      <4>2. srv.msg \in Nat /\ [msg |-> srv.msg, whole |-> TRUE] \in [msg : Nat, whole : BOOLEAN]
        BY <2>1
      <4>3. /\ DOMAIN log = 1 .. Len(log) /\ DOMAIN log' = 1 .. Len(log) + 1
            /\ Len(log) \in Nat
            /\ \A k \in DOMAIN log : log'[k] = log[k]
            /\ log'[Len(log) + 1] = [msg |-> srv.msg, whole |-> TRUE]
        BY <2>1, <4>1, <4>2, AppendEntry
      <4>4. CASE InHand(i)
        BY <4>3, <4>4 DEF Range
      <4>5. CASE InFile(i)
        <5>1. PICK k \in DOMAIN log : log[k] = [msg |-> i, whole |-> TRUE]
          BY <4>5 DEF Range
        <5>2. k \in DOMAIN log' /\ log'[k] = log[k]
          BY <4>3
        <5>. QED
          BY <5>1, <5>2, Zenon DEF Range
      <4>. QED
        BY <3>3, <4>4, <4>5
    <3>4. ASSUME NEW i \in Numbers, InQueue(i) PROVE InQueue(i)'
      BY <3>1, <3>4
    <3>. QED
      BY <2>2, <3>1, <3>2, <3>3, <3>4 DEF daemonRest
  <2>10. CASE Terminate
    <3>1. kills' # 0
      BY <2>1, <2>10 DEF Terminate
    <3>. QED
      BY <3>1 DEF NoUnexplainedGap
  <2>11. CASE Rest \/ UNCHANGED vars
    BY <2>2, <2>11 DEF Rest, vars, Handling
  <2>. QED
    BY <2>3, <2>4, <2>5, <2>6, <2>7, <2>8, <2>9, <2>10, <2>11 DEF Next, Daemon
<1>. QED
  BY <1>1, <1>2, Invariance, PTL DEF Spec

(* Tracing implements a trace log: a datagram the kernel takes is an       *)
(* Accept, a line that is written a Store, every other step a stutter.     *)
THEOREM Refinement == Spec => ImplementsTraceLog
<1>. DEFINE L == [i \in DOMAIN log |-> log[i].msg]
<1>1. Init => Abstract!Init
  <2>. SUFFICES ASSUME Init PROVE Len(accepted) = 0 /\ L = <<>>
    BY DEF Abstract!Init
  <2>. QED
    BY DEF Init
<1>2. OrderInv /\ [Next]_vars => [Abstract!Next]_<<Len(accepted), L>>
  <2>. SUFFICES ASSUME OrderInv, [Next]_vars PROVE [Abstract!Next]_<<Len(accepted), L>>
    OBVIOUS
  <2>1. ASSUME NEW c \in Clients, Send(c) PROVE [Abstract!Next]_<<Len(accepted), L>>
    <3>1. CASE sock_path = "bound"
      <4>1. accepted' = Append(accepted, cl[c].fits) /\ log' = log
        BY <2>1, <3>1 DEF Send, clientRest
      <4>2. Len(accepted') = Len(accepted) + 1
        BY <2>1, <4>1, AppendEntry DEF OrderInv, TypeOK
      <4>. QED
        BY <4>1, <4>2 DEF Abstract!Next, Abstract!Accept
    <3>2. CASE sock_path # "bound"
      BY <2>1, <3>2 DEF Send, clientRest
    <3>. QED
      BY <3>1, <3>2
  <2>2. CASE WriteLine
    <3>1. srv.msg \in Numbers /\ \A k \in DOMAIN log : log[k].msg < srv.msg
      BY <2>2 DEF WriteLine, OrderInv, TypeOK, WayInOrder, Handling
    <3>2. ASSUME NEW w \in BOOLEAN, log' = Append(log, [msg |-> srv.msg, whole |-> w])
          PROVE L' = Append(L, srv.msg)
      <4>1. /\ log \in Seq([msg : Nat, whole : BOOLEAN])
            /\ [msg |-> srv.msg, whole |-> w] \in [msg : Nat, whole : BOOLEAN]
            /\ srv.msg \in Nat
        BY DEF OrderInv, TypeOK
      <4>2. /\ DOMAIN log = 1 .. Len(log) /\ DOMAIN log' = 1 .. Len(log) + 1
            /\ \A k \in DOMAIN log : log'[k] = log[k]
            /\ log'[Len(log) + 1] = [msg |-> srv.msg, whole |-> w]
            /\ Len(log) \in Nat
        BY <3>2, <4>1, AppendEntry
      <4>3. L \in Seq(Nat) /\ Len(L) = Len(log)
        <5>1. \A k \in 1 .. Len(log) : log[k].msg \in Nat
          <6>1. accepted \in Seq(BOOLEAN) /\ \A k \in DOMAIN log : log[k].msg \in Numbers
            BY DEF OrderInv, TypeOK
          <6>2. Len(accepted) \in Nat
            BY <6>1, LenProperties
          <6>3. Numbers \subseteq Nat
            BY <6>2 DEF Numbers
          <6>. QED
            BY <4>2, <6>1, <6>3
        <5>2. L \in [1 .. Len(log) -> Nat]
          BY <4>2, <5>1
        <5>3. L \in Seq(Nat)
          BY <4>2, <5>2
        <5>4. DOMAIN L = 1 .. Len(log) /\ DOMAIN L = 1 .. Len(L) /\ Len(L) \in Nat
          BY <4>2, <5>3, LenProperties
        <5>5. \A m, n \in Nat : 1 .. m = 1 .. n => m = n
          <6>. SUFFICES ASSUME NEW m \in Nat, NEW n \in Nat, 1 .. m = 1 .. n, m < n
                        PROVE  FALSE
            OBVIOUS
          <6>. n \in 1 .. n /\ n \notin 1 .. m
            OBVIOUS
          <6>. QED
            OBVIOUS
        <5>. QED
          BY <4>2, <5>3, <5>4, <5>5
      <4>4. /\ Append(L, srv.msg) \in Seq(Nat)
            /\ DOMAIN Append(L, srv.msg) = 1 .. Len(log) + 1
            /\ \A k \in 1 .. Len(log) : Append(L, srv.msg)[k] = L[k]
            /\ Append(L, srv.msg)[Len(log) + 1] = srv.msg
        BY <4>1, <4>2, <4>3, AppendEntry
      <4>5. L' = [k \in DOMAIN log' |-> log'[k].msg]
        OBVIOUS
      <4>6. Append(L, srv.msg) = [k \in 1 .. Len(log) + 1 |-> Append(L, srv.msg)[k]]
        BY <4>4, LenProperties
      <4>7. \A k \in 1 .. Len(log) + 1 : log'[k].msg = Append(L, srv.msg)[k]
        BY <4>2, <4>4
      <4>. QED
        BY <4>2, <4>5, <4>6, <4>7
    <3>3. \/ log' = log
          \/ \E w \in BOOLEAN : log' = Append(log, [msg |-> srv.msg, whole |-> w])
      BY <2>2 DEF WriteLine, With, NotWhole
    <3>4. accepted' = accepted
      BY <2>2 DEF WriteLine, daemonRest
    <3>5. L' = Append(L, srv.msg) => Abstract!Store
      BY <3>1, <3>4 DEF Abstract!Store, Numbers
    <3>. QED
      BY <3>2, <3>3, <3>4, <3>5 DEF Abstract!Next
  <2>3. ASSUME NEW c \in Clients, Trace(c) PROVE UNCHANGED <<accepted, log>>
    BY <2>3 DEF Trace, clientRest
  <2>4. CASE Start \/ NoListener \/ Bind \/ BindFails \/ Recv \/ HandleMessage \/ OpenFile
    BY <2>4 DEF Start, NoListener, Bind, BindFails, Recv, HandleMessage, OpenFile, daemonRest
  <2>5. CASE Terminate \/ Rest \/ UNCHANGED vars
    BY <2>5 DEF Terminate, Rest, vars
  <2>. QED
    BY <2>1, <2>2, <2>3, <2>4, <2>5 DEF Next, Daemon
<1>. QED
  BY <1>1, <1>2, Invariance, PTL DEF Spec, ImplementsTraceLog, Abstract!Spec
================================================================================
