------------------------------ MODULE StreamLemmas ------------------------------
(***************************************************************************)
(* What the operators of UnixStream do to each part of a stream, for       *)
(* messages of any set M.                                                  *)
(***************************************************************************)
EXTENDS UnixStream, SequenceLemmas

(* A connection begins open at both ends and empty. *)
LEMMA NewStreams ==
  ASSUME NEW M
  PROVE  /\ NoStream \in Streams(M) /\ NewStream \in Streams(M)
         /\ \A e \in Ends : /\ NoStream.open[e] = FALSE /\ NewStream.open[e] = TRUE
                            /\ NoStream.in[e] = <<>> /\ NewStream.in[e] = <<>>
                            /\ NoStream.err[e] = FALSE /\ NewStream.err[e] = FALSE
<1>1. <<>> \in Seq(M)
  OBVIOUS
<1>. QED
  BY <1>1 DEF NoStream, NewStream, Streams

(* A write reaches the other end, and only that. *)
LEMMA WrittenParts ==
  ASSUME NEW M, NEW s \in Streams(M), NEW e \in Ends, NEW m \in M
  PROVE  /\ Written(s, e, m) \in Streams(M)
         /\ Written(s, e, m).open = s.open /\ Written(s, e, m).err = s.err
         /\ Written(s, e, m).in[Peer(e)] = Append(s.in[Peer(e)], m)
         /\ Written(s, e, m).in[e] = s.in[e]
<1>1. /\ s.in \in [Ends -> Seq(M)] /\ Peer(e) \in Ends /\ Peer(e) # e
      /\ s.in[Peer(e)] \in Seq(M) /\ s.open \in [Ends -> BOOLEAN] /\ s.err \in [Ends -> BOOLEAN]
  BY DEF Streams, Ends, Peer
<1>2. Append(s.in[Peer(e)], m) \in Seq(M)
  BY <1>1, AppendEntry
<1>3. Written(s, e, m) = [s EXCEPT !.in = [s.in EXCEPT ![Peer(e)] = Append(@, m)]]
  BY DEF Written
<1>4. [s.in EXCEPT ![Peer(e)] = Append(@, m)] \in [Ends -> Seq(M)]
  BY <1>1, <1>2
<1>. QED
  BY <1>1, <1>3, <1>4 DEF Streams

(* A read takes the first message of its end, and only that. *)
LEMMA ConsumedParts ==
  ASSUME NEW M, NEW s \in Streams(M), NEW e \in Ends, HasData(s, e)
  PROVE  /\ Consumed(s, e) \in Streams(M) /\ Data(s, e) \in M
         /\ Consumed(s, e).open = s.open /\ Consumed(s, e).err = s.err
         /\ Consumed(s, e).in[e] = Tail(s.in[e])
         /\ Consumed(s, e).in[Peer(e)] = s.in[Peer(e)]
<1>1. /\ s.in \in [Ends -> Seq(M)] /\ Peer(e) \in Ends /\ Peer(e) # e
      /\ s.in[e] \in Seq(M) /\ s.open \in [Ends -> BOOLEAN] /\ s.err \in [Ends -> BOOLEAN]
  BY DEF Streams, Ends, Peer
<1>2. Tail(s.in[e]) \in Seq(M) /\ Head(s.in[e]) \in M
  BY <1>1, TakeEntry DEF HasData
<1>3. Consumed(s, e) = [s EXCEPT !.in = [s.in EXCEPT ![e] = Tail(@)]]
  BY DEF Consumed
<1>4. [s.in EXCEPT ![e] = Tail(@)] \in [Ends -> Seq(M)]
  BY <1>1, <1>2
<1>. QED
  BY <1>1, <1>2, <1>3, <1>4 DEF Streams, Data

(* A reset is seen once. *)
LEMMA ResetSeenParts ==
  ASSUME NEW M, NEW s \in Streams(M), NEW e \in Ends
  PROVE  /\ ResetSeen(s, e) \in Streams(M)
         /\ ResetSeen(s, e).open = s.open /\ ResetSeen(s, e).in = s.in
         /\ ResetSeen(s, e).err[e] = FALSE
         /\ ResetSeen(s, e).err[Peer(e)] = s.err[Peer(e)]
<1>1. s.err \in [Ends -> BOOLEAN] /\ Peer(e) \in Ends /\ Peer(e) # e
  BY DEF Streams, Ends, Peer
<1>2. ResetSeen(s, e) = [s EXCEPT !.err = [s.err EXCEPT ![e] = FALSE]]
  BY DEF ResetSeen
<1>3. [s.err EXCEPT ![e] = FALSE] \in [Ends -> BOOLEAN]
  BY <1>1
<1>4. [s.err EXCEPT ![e] = FALSE][e] = FALSE /\ [s.err EXCEPT ![e] = FALSE][Peer(e)] = s.err[Peer(e)]
  BY <1>1
<1>. QED
  BY <1>2, <1>3, <1>4 DEF Streams

(* A close leaves its end shut and empty, and what the other end has still *)
(* to read.                                                                *)
LEMMA ClosedParts ==
  ASSUME NEW M, NEW s \in Streams(M), NEW e \in Ends, NEW abort \in BOOLEAN
  PROVE  /\ Closed(s, e, abort) \in Streams(M)
         /\ Closed(s, e, abort).open[e] = FALSE
         /\ Closed(s, e, abort).open[Peer(e)] = s.open[Peer(e)]
         /\ Closed(s, e, abort).in[e] = <<>>
         /\ Closed(s, e, abort).in[Peer(e)] = s.in[Peer(e)]
         /\ Closed(s, e, abort).err[e] = FALSE
<1>. DEFINE p == Peer(e)
            open == [s.open EXCEPT ![e] = FALSE]
            in == [s.in EXCEPT ![e] = <<>>]
            err == [s.err EXCEPT ![e] = FALSE,
                                 ![p] = s.open[p] /\ (@ \/ abort \/ HasData(s, e))]
<1>1. /\ s.in \in [Ends -> Seq(M)] /\ s.open \in [Ends -> BOOLEAN] /\ s.err \in [Ends -> BOOLEAN]
      /\ p \in Ends /\ p # e /\ <<>> \in Seq(M)
  BY DEF Streams, Ends, Peer
<1>2. Closed(s, e, abort) = [open |-> open, in |-> in, err |-> err]
  BY DEF Closed
<1>3. err \in [Ends -> BOOLEAN] /\ err[e] = FALSE
  BY <1>1
<1>4. /\ open \in [Ends -> BOOLEAN] /\ in \in [Ends -> Seq(M)]
      /\ open[e] = FALSE /\ open[p] = s.open[p] /\ in[e] = <<>> /\ in[p] = s.in[p]
  BY <1>1
<1>. HIDE DEF open, in, err
<1>5. [open |-> open, in |-> in, err |-> err] \in Streams(M)
  BY <1>3, <1>4 DEF Streams
<1>. QED
  BY <1>2, <1>3, <1>4, <1>5

(* The same, end by end, for a close that resets nothing by itself. *)
LEMMA ClientCloses ==
  ASSUME NEW M, NEW s \in Streams(M)
  PROVE  /\ Closed(s, "client", FALSE) \in Streams(M)
         /\ Closed(s, "client", FALSE).open["client"] = FALSE
         /\ Closed(s, "client", FALSE).open["server"] = s.open["server"]
         /\ Closed(s, "client", FALSE).in["client"] = <<>>
         /\ Closed(s, "client", FALSE).in["server"] = s.in["server"]
<1>1. "client" \in Ends /\ FALSE \in BOOLEAN
  BY DEF Ends
<1>2. /\ Closed(s, "client", FALSE) \in Streams(M)
      /\ Closed(s, "client", FALSE).open["client"] = FALSE
      /\ Closed(s, "client", FALSE).open[Peer("client")] = s.open[Peer("client")]
      /\ Closed(s, "client", FALSE).in["client"] = <<>>
      /\ Closed(s, "client", FALSE).in[Peer("client")] = s.in[Peer("client")]
  BY <1>1, ClosedParts
<1>. QED
  BY <1>2 DEF Peer

(* The server's end. *)
LEMMA ServerCloses ==
  ASSUME NEW M, NEW s \in Streams(M), NEW abort \in BOOLEAN
  PROVE  /\ Closed(s, "server", abort) \in Streams(M)
         /\ Closed(s, "server", abort).open["server"] = FALSE
         /\ Closed(s, "server", abort).open["client"] = s.open["client"]
         /\ Closed(s, "server", abort).in["server"] = <<>>
         /\ Closed(s, "server", abort).in["client"] = s.in["client"]
<1>1. "server" \in Ends
  BY DEF Ends
<1>2. /\ Closed(s, "server", abort) \in Streams(M)
      /\ Closed(s, "server", abort).open["server"] = FALSE
      /\ Closed(s, "server", abort).open[Peer("server")] = s.open[Peer("server")]
      /\ Closed(s, "server", abort).in["server"] = <<>>
      /\ Closed(s, "server", abort).in[Peer("server")] = s.in[Peer("server")]
  BY <1>1, ClosedParts
<1>. QED
  BY <1>2 DEF Peer

(* A write at the client's end. *)
LEMMA ClientWritten ==
  ASSUME NEW M, NEW s \in Streams(M), NEW m \in M
  PROVE  /\ Written(s, "client", m) \in Streams(M)
         /\ Written(s, "client", m).open = s.open
         /\ Written(s, "client", m).in["client"] = s.in["client"]
         /\ Written(s, "client", m).in["server"] = Append(s.in["server"], m)
<1>1. "client" \in Ends
  BY DEF Ends
<1>2. /\ Written(s, "client", m) \in Streams(M)
      /\ Written(s, "client", m).open = s.open
      /\ Written(s, "client", m).in["client"] = s.in["client"]
      /\ Written(s, "client", m).in[Peer("client")] = Append(s.in[Peer("client")], m)
  BY <1>1, WrittenParts
<1>. QED
  BY <1>2 DEF Peer

(* A write at the server's end. *)
LEMMA ServerWritten ==
  ASSUME NEW M, NEW s \in Streams(M), NEW m \in M
  PROVE  /\ Written(s, "server", m) \in Streams(M)
         /\ Written(s, "server", m).open = s.open
         /\ Written(s, "server", m).in["server"] = s.in["server"]
         /\ Written(s, "server", m).in["client"] = Append(s.in["client"], m)
<1>1. "server" \in Ends
  BY DEF Ends
<1>2. /\ Written(s, "server", m) \in Streams(M)
      /\ Written(s, "server", m).open = s.open
      /\ Written(s, "server", m).in["server"] = s.in["server"]
      /\ Written(s, "server", m).in[Peer("server")] = Append(s.in[Peer("server")], m)
  BY <1>1, WrittenParts
<1>. QED
  BY <1>2 DEF Peer

(* A read at the client's end. *)
LEMMA ClientConsumes ==
  ASSUME NEW M, NEW s \in Streams(M), HasData(s, "client")
  PROVE  /\ Consumed(s, "client") \in Streams(M) /\ Data(s, "client") \in M
         /\ Consumed(s, "client").open = s.open /\ Consumed(s, "client").err = s.err
         /\ Consumed(s, "client").in["client"] = Tail(s.in["client"])
         /\ Consumed(s, "client").in["server"] = s.in["server"]
<1>1. "client" \in Ends
  BY DEF Ends
<1>2. /\ Consumed(s, "client") \in Streams(M) /\ Data(s, "client") \in M
      /\ Consumed(s, "client").open = s.open /\ Consumed(s, "client").err = s.err
      /\ Consumed(s, "client").in["client"] = Tail(s.in["client"])
      /\ Consumed(s, "client").in[Peer("client")] = s.in[Peer("client")]
  BY <1>1, ConsumedParts
<1>. QED
  BY <1>2 DEF Peer

(* A read at the server's end. *)
LEMMA ServerConsumes ==
  ASSUME NEW M, NEW s \in Streams(M), HasData(s, "server")
  PROVE  /\ Consumed(s, "server") \in Streams(M) /\ Data(s, "server") \in M
         /\ Consumed(s, "server").open = s.open /\ Consumed(s, "server").err = s.err
         /\ Consumed(s, "server").in["server"] = Tail(s.in["server"])
         /\ Consumed(s, "server").in["client"] = s.in["client"]
<1>1. "server" \in Ends
  BY DEF Ends
<1>2. /\ Consumed(s, "server") \in Streams(M) /\ Data(s, "server") \in M
      /\ Consumed(s, "server").open = s.open /\ Consumed(s, "server").err = s.err
      /\ Consumed(s, "server").in["server"] = Tail(s.in["server"])
      /\ Consumed(s, "server").in[Peer("server")] = s.in[Peer("server")]
  BY <1>1, ConsumedParts
<1>. QED
  BY <1>2 DEF Peer
================================================================================
