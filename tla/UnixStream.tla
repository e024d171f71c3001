------------------------------- MODULE UnixStream -------------------------------
(***************************************************************************)
(* A connected pair of AF_UNIX SOCK_STREAM sockets, as far as id_client.c  *)
(* and id_dom_socket.c use one: the kernel's part, which is not in the     *)
(* repository.  A stream is a record of functions over its two ends:       *)
(*   open[e]   end e has not been closed                                   *)
(*   in[e]     what end e has still to read, one entry per write           *)
(*   err[e]    the next read at e of an empty queue fails (ECONNRESET)     *)
(* One write is read by one read.  A byte stream promises that only while  *)
(* at most one write is under way; see LockStep in module IdService.       *)
(***************************************************************************)
EXTENDS Naturals, Sequences

Ends == {"client", "server"}
Peer(e) == IF e = "client" THEN "server" ELSE "client"

(* The streams whose entries are messages of set M. *)
Streams(M) == [open : [Ends -> BOOLEAN], in : [Ends -> Seq(M)], err : [Ends -> BOOLEAN]]

NoStream == [open |-> [e \in Ends |-> FALSE],
             in   |-> [e \in Ends |-> <<>>],
             err  |-> [e \in Ends |-> FALSE]]

\* What a successful connect() makes; the server end exists before accept().
NewStream == [NoStream EXCEPT !.open = [e \in Ends |-> TRUE]]

-------------------------------------------------------------------------------
\* write() at e fails: the peer has closed.
Broken(s, e) == ~ s.open[Peer(e)]

\* read() at e returns data, fails, returns 0; with none of them it waits.
HasData(s, e) == s.in[e] # <<>>
IsReset(s, e) == s.in[e] = <<>> /\ s.err[e]
AtEof(s, e) == s.in[e] = <<>> /\ ~ s.err[e] /\ Broken(s, e)

Data(s, e) == Head(s.in[e])

Written(s, e, m) == [s EXCEPT !.in[Peer(e)] = Append(@, m)]
Consumed(s, e) == [s EXCEPT !.in[e] = Tail(@)]
ResetSeen(s, e) == [s EXCEPT !.err[e] = FALSE]

\* close() at e.  The peer learns of data that e had not read, or of a
\* connection that was never accepted (abort), by a reset.
Closed(s, e, abort) ==
  LET p == Peer(e)
  IN  [open |-> [s.open EXCEPT ![e] = FALSE],
       in   |-> [s.in EXCEPT ![e] = <<>>],
       err  |-> [s.err EXCEPT ![e] = FALSE,
                              ![p] = s.open[p] /\ (@ \/ abort \/ HasData(s, e))]]
===============================================================================
