----------------------------- MODULE TraceTransport -----------------------------
(***************************************************************************)
(* Tracing: the library's send_trace_message                               *)
(* (lib/src/transport-client/cl_transport_domsock_client.c, called by the  *)
(* trace and join calls of lib/src/clacks-api/clacks.c), the transport     *)
(* thread of the trace daemon (clacksd/src/transport-server/               *)
(* cl_transport_domsock.c) and the file it writes                          *)
(* (clacksd/src/storage/cl_file_module.c).                                 *)
(*                                                                         *)
(* A trace is a datagram to a path in the file system.  The kernel numbers *)
(* the datagrams it accepts; accepted[i] says whether number i fits into   *)
(* the 1024 bytes the daemon receives into.  TRACE and JOIN messages       *)
(* differ in the line they become and in nothing else.                     *)
(***************************************************************************)
EXTENDS Integers, Sequences, FiniteSets, Functions

CONSTANTS
  Clients,              \* the applications
  QueueLen,             \* datagrams the kernel holds for a receiver
  MaxTraces,            \* bound: calls per client
  MaxKills,             \* bound: times the daemon is terminated
  MaxFaults             \* bound: times opening or writing the file goes wrong

ASSUME QueueAssumption == QueueLen \in Nat \ {0}

VARIABLES
  srv,                  \* the transport thread, and the datagram it is handling
  sock_path,            \* "none", "bound" to the thread's socket, or left over: "stale"
  queue,                \* datagrams the kernel holds for the thread
  cl,                   \* the clients
  accepted,             \* history: the datagrams the kernel took, see above
  out_file,             \* the daemon has its file open
  log,                  \* the lines of the file
  kills, faults         \* how often the environment struck

vars == <<srv, sock_path, queue, cl, accepted, out_file, log, kills, faults>>

Down == [pc |-> "down", msg |-> 0]
Receiving == [pc |-> "recv", msg |-> 0]

Init ==
  /\ srv = Down
  /\ sock_path = "none"
  /\ queue = <<>>
  /\ cl = [c \in Clients |-> [pc |-> "idle", calls |-> 0, fits |-> TRUE]]
  /\ accepted = <<>>
  /\ out_file = FALSE
  /\ log = <<>>
  /\ kills = 0
  /\ faults = 0

-------------------------------------------------------------------------------
(* The clients. *)
clientRest == <<srv, sock_path, out_file, log, kills, faults>>

Trace(c) ==
  /\ cl[c].pc = "idle"
  /\ cl[c].calls < MaxTraces
  /\ \E fits \in BOOLEAN :
       cl' = [cl EXCEPT ![c] = [pc |-> "send", calls |-> @.calls + 1, fits |-> fits]]
  /\ UNCHANGED <<clientRest, queue, accepted>>

(* sendto() waits while the receiver's queue is full, and fails when no    *)
(* socket is bound to the path.  The result is dropped: the trace is lost. *)
Send(c) ==
  /\ cl[c].pc = "send"
  /\ \/ /\ sock_path = "bound"
        /\ Len(queue) < QueueLen
        /\ accepted' = Append(accepted, cl[c].fits)
        /\ queue' = Append(queue, Len(accepted) + 1)
     \/ /\ sock_path # "bound"
        /\ UNCHANGED <<accepted, queue>>
  /\ cl' = [cl EXCEPT ![c].pc = "idle"]
  /\ UNCHANGED clientRest

-------------------------------------------------------------------------------
(* The daemon. *)
daemonRest == <<cl, accepted, kills>>

(* main() gets to where it creates the transport thread. *)
Start ==
  /\ srv.pc = "down"
  /\ srv' = [srv EXCEPT !.pc = "bind"]
  /\ UNCHANGED <<daemonRest, sock_path, queue, out_file, log, faults>>

(* There is no thread to run it, or no socket for it: main() sleeps on and *)
(* the path stays what it is.                                              *)
NoListener ==
  /\ srv.pc = "bind"
  /\ srv' = [srv EXCEPT !.pc = "ended"]
  /\ UNCHANGED <<daemonRest, sock_path, queue, out_file, log, faults>>

Bind ==
  /\ srv.pc = "bind"
  /\ sock_path = "none"
  /\ sock_path' = "bound"
  /\ srv' = Receiving
  /\ UNCHANGED <<daemonRest, queue, out_file, log, faults>>

(* The path is taken, if only by a file that was left behind: the file is  *)
(* removed and the thread ends, while main() sleeps on.                    *)
BindFails ==
  /\ srv.pc = "bind"
  /\ sock_path # "none"
  /\ sock_path' = "none"
  /\ srv' = [srv EXCEPT !.pc = "ended"]
  /\ UNCHANGED <<daemonRest, queue, out_file, log, faults>>

Recv ==
  /\ srv.pc = "recv"
  /\ queue # <<>>
  /\ srv' = [pc |-> "handle", msg |-> Head(queue)]
  /\ queue' = Tail(queue)
  /\ UNCHANGED <<daemonRest, sock_path, out_file, log, faults>>

\* What handle_message comes to when a message does not unpack: a thread that
\* gives up, one that stores what the failed unpacking returned, and the thread.
Malformed_GiveUp == [srv EXCEPT !.pc = "ended"]

Malformed_Store == [pc |-> "store", msg |-> 0]

Malformed == Receiving

(* handle_message: what was cut off at the end of rd_buf includes the last *)
(* required field, flags, so the message does not unpack.                  *)
HandleMessage ==
  /\ srv.pc = "handle"
  /\ srv' = IF accepted[srv.msg] THEN [srv EXCEPT !.pc = "store"] ELSE Malformed
  /\ UNCHANGED <<daemonRest, sock_path, queue, out_file, log, faults>>

\* With the file open, on to the write - or leaving it at having opened it.
AfterOpen_Return == IF out_file THEN [srv EXCEPT !.pc = "write"] ELSE Receiving

AfterOpen == [srv EXCEPT !.pc = "write"]

(* _store_trace_message: open the file if this has not been done yet. *)
OpenFile ==
  /\ srv.pc = "store"
  /\ \/ /\ out_file' = TRUE
        /\ srv' = AfterOpen
        /\ UNCHANGED faults
     \/ /\ ~ out_file
        /\ faults < MaxFaults
        /\ faults' = faults + 1
        /\ srv' = Receiving
        /\ UNCHANGED out_file
  /\ UNCHANGED <<daemonRest, sock_path, queue, log>>

With(whole) == Append(log, [msg |-> srv.msg, whole |-> whole])

\* The file after a write that fails or is cut short, which is taken for
\* success too - and after one that is tried again.
NotWhole_Again == {Append(With(FALSE), [msg |-> srv.msg, whole |-> TRUE])}

NotWhole == {log, With(FALSE)}

(* write() appends the line, or not, or a part of it when the disk fills up. *)
WriteLine ==
  /\ srv.pc = "write"
  /\ srv' = Receiving
  /\ \/ log' = With(TRUE) /\ UNCHANGED faults
     \/ faults < MaxFaults /\ faults' = faults + 1 /\ log' \in NotWhole
  /\ UNCHANGED <<daemonRest, sock_path, queue, out_file>>

(* SIGTERM at any moment.  The kernel throws away what it held for the     *)
(* thread's socket; the socket's file stays.                               *)
Terminate ==
  /\ kills < MaxKills
  /\ srv.pc # "down"
  /\ kills' = kills + 1
  /\ srv' = Down
  /\ queue' = <<>>
  /\ sock_path' = IF sock_path = "bound" THEN "stale" ELSE sock_path
  /\ out_file' = FALSE
  /\ UNCHANGED <<cl, accepted, log, faults>>

Daemon ==
  Bind \/ BindFails \/ Recv \/ HandleMessage \/ OpenFile \/ WriteLine

Rest ==
  /\ \A c \in Clients : cl[c].pc = "idle" /\ cl[c].calls = MaxTraces
  /\ srv.pc \in {"ended", "recv"}
  /\ queue = <<>>
  /\ UNCHANGED vars

Next ==
  \/ Start \/ NoListener \/ Daemon \/ Terminate
  \/ \E c \in Clients : Trace(c) \/ Send(c)
  \/ Rest

Spec == Init /\ [][Next]_vars

(* A running thread and a call of the library go on when they can. *)
Fairness == WF_vars(Daemon) /\ \A c \in Clients : WF_vars(Send(c))

FairSpec == Spec /\ Fairness

-------------------------------------------------------------------------------
ServerPcs == {"down", "bind", "recv", "handle", "store", "write", "ended"}
Handling == srv.pc \in {"handle", "store", "write"}
Numbers == 1 .. Len(accepted)

(* Types; what the thread or the kernel holds was accepted. *)
TypeOK ==
  /\ srv \in [pc : ServerPcs, msg : Nat]
  /\ Handling => srv.msg \in Numbers
  /\ sock_path \in {"none", "bound", "stale"}
  /\ queue \in Seq(Nat) /\ \A i \in DOMAIN queue : queue[i] \in Numbers
  /\ cl \in [Clients -> [pc : {"idle", "send"}, calls : Nat, fits : BOOLEAN]]
  /\ accepted \in Seq(BOOLEAN)
  /\ out_file \in BOOLEAN
  /\ log \in Seq([msg : Nat, whole : BOOLEAN])
  /\ \A i \in DOMAIN log : log[i].msg \in Numbers
  /\ kills \in Nat
  /\ faults \in Nat

(* The file holds every trace at most once and in the order in which the   *)
(* kernel accepted them, so that those of one application are in the order *)
(* of its calls: over a queue, faults of the disk, and daemons that come   *)
(* after one another.                                                      *)
LogInOrder == \A i, j \in DOMAIN log : i < j => log[i].msg < log[j].msg

(* Why it is so: what the thread handles is later than what is in the      *)
(* file, what the kernel holds later still and in order.                   *)
WayInOrder ==
  /\ Handling =>
       /\ \A i \in DOMAIN log : log[i].msg < srv.msg
       /\ \A j \in DOMAIN queue : srv.msg < queue[j]
  /\ \A i \in DOMAIN log, j \in DOMAIN queue : log[i].msg < queue[j]
  /\ \A i, j \in DOMAIN queue : i < j => queue[i] < queue[j]

(* A path that takes datagrams has a thread that receives them: no sender  *)
(* ever fills the queue of a thread that has ended.                        *)
BoundIsReceived ==
  /\ sock_path = "bound" <=> srv.pc \in {"recv", "handle", "store", "write"}
  /\ sock_path # "bound" => queue = <<>>

(* The inductive invariant. *)
OrderInv == TypeOK /\ LogInOrder /\ WayInOrder

(* The file has no gap that nobody was told of: as long as nothing was     *)
(* terminated and the disk did not fail, the traces accepted that fit are  *)
(* in the file, each a whole line, in the thread's hands or in the queue.  *)
NoUnexplainedGap ==
  kills = 0 /\ faults = 0 =>
    \A i \in Numbers :
      accepted[i] => \/ [msg |-> i, whole |-> TRUE] \in Range(log)
                     \/ (Handling /\ srv.msg = i)
                     \/ \E j \in DOMAIN queue : queue[j] = i

Abstract == INSTANCE TraceLog WITH
  accepted <- Len(accepted), log <- [i \in DOMAIN log |-> log[i].msg]

(* Tracing implements the promise of a trace log. *)
ImplementsTraceLog == Abstract!Spec

(* A call that traces returns, whatever becomes of the daemon: a sender    *)
(* that waits for room is let go.                                          *)
SendReturns == \A c \in Clients : cl[c].pc = "send" ~> cl[c].pc = "idle"

(* A trace that was accepted and fits gets into the file, as a whole line, *)
(* unless the daemon is terminated or the disk fails.                      *)
TraceGetsStored ==
  \A i \in 1 .. Cardinality(Clients) * MaxTraces :
    i \in Numbers /\ accepted[i] ~>
      \/ [msg |-> i, whole |-> TRUE] \in Range(log)
      \/ kills > 0 \/ faults > 0
===============================================================================
