-------------------------- MODULE ClientThreads_proofs --------------------------
(***************************************************************************)
(* Theorems about the threads of one application that race on dom_sock,    *)
(* for any number of threads and calls.  The inductive invariant is        *)
(* ThreadsInv; one lemma for each of its parts says that every step keeps  *)
(* that part.                                                              *)
(***************************************************************************)
EXTENDS ClientThreads, StreamLemmas, FiniteSetTheorems, TLAPS

(* The number of descriptors the calls may make. *)
LEMMA SocksRange ==
  /\ Cardinality(Threads) \in Nat
  /\ Cardinality(Threads) * MaxCalls \in Nat
  /\ NoSock \notin Socks /\ Socks \subseteq Nat
  /\ IsFiniteSet(Threads \X (1 .. MaxCalls))
  /\ Cardinality(Threads \X (1 .. MaxCalls)) = Cardinality(Threads) * MaxCalls
<1>1. Cardinality(Threads) \in Nat
  BY ThreadsAssumption, FS_CardinalityType
<1>2. \A m, n \in Nat : m * n \in Nat
  OBVIOUS
<1>3. Cardinality(Threads) * MaxCalls \in Nat
  BY <1>1, <1>2, CallsAssumption
<1>4. IsFiniteSet(1 .. MaxCalls) /\ Cardinality(1 .. MaxCalls) = MaxCalls
  BY CallsAssumption, FS_Interval
<1>5. /\ IsFiniteSet(Threads \X (1 .. MaxCalls))
      /\ Cardinality(Threads \X (1 .. MaxCalls)) = Cardinality(Threads) * MaxCalls
  BY <1>4, ThreadsAssumption, FS_Product
<1>6. NoSock \notin Socks /\ Socks \subseteq Nat
  BY <1>3 DEF Socks, NoSock
<1>. QED
  BY <1>1, <1>3, <1>5, <1>6

(* Before the first call there is no descriptor and no answer. *)
LEMMA InitInv == Init => ThreadsInv
<1>. SUFFICES ASSUME Init PROVE ThreadsInv
  OBVIOUS
<1>1. /\ \A t \in Threads : th[t] = [pc |-> "idle", calls |-> 0, fd |-> NoSock, ids |-> <<>>]
      /\ th = [t \in Threads |-> [pc |-> "idle", calls |-> 0, fd |-> NoSock, ids |-> <<>>]]
      /\ \A k \in Socks : conn[k] = NoStream
      /\ conn = [k \in Socks |-> NoStream]
      /\ dom_sock = 0 /\ made = 0 /\ fds = {} /\ backlog = <<>> /\ clock = 0 /\ server = FALSE
      /\ srv = [pc |-> "accept", conn |-> NoSock]
  BY DEF Init, NoSock
<1>2. /\ NoStream \in Streams(Nat) /\ NoStream.open["client"] = FALSE
      /\ NoStream.in["client"] = <<>>
  BY NewStreams DEF Ends
<1>3. Range(<<>>) = {}
  BY DEF Range
<1>4. Typed
  <2>1. [pc |-> "idle", calls |-> 0, fd |-> NoSock, ids |-> <<>>]
          \in [pc : ThreadPcs, calls : Nat, fd : Nat, ids : Seq(Nat)]
    BY DEF ThreadPcs, NoSock
  <2>2. th \in [Threads -> [pc : ThreadPcs, calls : Nat, fd : Nat, ids : Seq(Nat)]]
    BY <1>1, <2>1
  <2>3. conn \in [Socks -> Streams(Nat)] /\ backlog \in Seq(Socks)
    BY <1>1, <1>2
  <2>4. \A t \in Threads : ~ At(t, "reading")
    BY <1>1 DEF At
  <2>. QED
    BY <1>1, <2>2, <2>3, <2>4 DEF Typed
<1>5. TypeOK
  <2>1. \A k \in Socks : conn[k].open["client"] = FALSE /\ ~ Connected(k)
    BY <1>1, <1>2 DEF Connected
  <2>2. \A t \in Threads : /\ th[t].pc \in ThreadPcs /\ th[t].calls \in 0 .. MaxCalls
                           /\ th[t].fd \in 0 .. made /\ Range(th[t].ids) \subseteq 0 .. clock
    BY <1>1, <1>3, CallsAssumption DEF ThreadPcs, NoSock
  <2>3. \A k \in Socks : conn[k].open["client"] <=> Connected(k) /\ (k \in fds \/ Readers(k) # {})
    BY <2>1, Zenon
  <2>4. /\ made \in {0} \cup Socks /\ dom_sock \in 0 .. made
        /\ fds \subseteq 1 .. made /\ srv.conn \in Socks \cup {NoSock}
    BY <1>1
  <2>5. server \in BOOLEAN /\ Range(backlog) \subseteq Socks
    BY <1>1, <1>3, Zenon
  <2>. QED
    BY <2>2, <2>3, <2>4, <2>5, Zenon DEF TypeOK
<1>6. MadeByCalls
  <2>1. IsFiniteSet(Asked)
    BY SocksRange, FS_Subset DEF Asked
  <2>2. Cardinality(Asked) \in Nat
    BY <2>1, FS_CardinalityType
  <2>. QED
    BY <1>1, <2>2 DEF MadeByCalls, Connected
<1>7. AnswersDiffer
  BY <1>1, <1>2 DEF AnswersDiffer, Unread
<1>8. NotSharedByThreads
  BY <1>1, <1>3 DEF NotSharedByThreads
<1>9. SockIsHeld
  BY <1>1 DEF SockIsHeld, NoSock
<1>. QED
  BY <1>4, <1>5, <1>6, <1>7, <1>8, <1>9 DEF ThreadsInv

-------------------------------------------------------------------------------
(* What a step can do to the answers: nothing but throw away some that     *)
(* nobody will read; hand the first one of a connection to a thread; give  *)
(* a thread what it has had before; add one that is new.                   *)
Kept(k) == Unread(k)' \in {Unread(k), <<>>}

NoneTaken ==
  /\ clock' = clock
  /\ \A t \in Threads : th'[t].ids = th[t].ids
  /\ \A k \in Socks : Kept(k)

Takes(t, k) ==
  /\ clock' = clock
  /\ Unread(k) # <<>>
  /\ th'[t].ids = Append(th[t].ids, Head(Unread(k)))
  /\ Unread(k)' \in {Tail(Unread(k)), <<>>}
  /\ \A u \in Threads \ {t} : th'[u].ids = th[u].ids
  /\ \A l \in Socks \ {k} : Unread(l)' = Unread(l)

TakesStale(t) ==
  /\ clock' = clock
  /\ \E stale \in {NoUuid} \cup Range(th[t].ids) : th'[t].ids = Append(th[t].ids, stale)
  /\ \A u \in Threads \ {t} : th'[u].ids = th[u].ids
  /\ \A k \in Socks : Kept(k)

Answers(k) ==
  /\ clock' = clock + 1
  /\ \A t \in Threads : th'[t].ids = th[t].ids
  /\ Unread(k)' \in {Unread(k), Append(Unread(k), clock + 1)}
  /\ \A l \in Socks \ {k} : Unread(l)' = Unread(l)

AnswerStep ==
  \/ NoneTaken
  \/ \E t \in Threads : TakesStale(t) \/ \E k \in Socks : Takes(t, k)
  \/ \E k \in Socks : Answers(k)

(* A thread that goes on in get_new_id. *)
LEMMA GotoStep ==
  ASSUME Typed, NEW t \in Threads, NEW next \in ThreadPcs, Goto(t, next)
  PROVE  /\ th' \in [Threads -> [pc : ThreadPcs, calls : Nat, fd : Nat, ids : Seq(Nat)]]
         /\ th'[t].pc = next
         /\ \A u \in Threads : /\ th'[u].calls = th[u].calls /\ th'[u].fd = th[u].fd
                               /\ th'[u].ids = th[u].ids
                               /\ u # t => th'[u] = th[u]
         /\ next # "reading" => \A u \in Threads : At(u, "reading")' =>
              At(u, "reading") /\ th'[u].fd = th[u].fd
<1>1. /\ th \in [Threads -> [pc : ThreadPcs, calls : Nat, fd : Nat, ids : Seq(Nat)]]
      /\ th' = [th EXCEPT ![t] = [th[t] EXCEPT !.pc = next]]
  BY DEF Typed, Goto
<1>2. [th[t] EXCEPT !.pc = next] \in [pc : ThreadPcs, calls : Nat, fd : Nat, ids : Seq(Nat)]
  BY <1>1
<1>3. /\ th' \in [Threads -> [pc : ThreadPcs, calls : Nat, fd : Nat, ids : Seq(Nat)]]
      /\ th'[t] = [th[t] EXCEPT !.pc = next]
      /\ \A u \in Threads : u # t => th'[u] = th[u]
  BY <1>1, <1>2
<1>. QED
  BY <1>1, <1>3 DEF At

(* Every step keeps the types and does one of those things to the answers. *)
LEMMA TypedNext == ThreadsInv /\ [Next]_vars => Typed' /\ AnswerStep
<1>. SUFFICES ASSUME ThreadsInv, [Next]_vars PROVE Typed' /\ AnswerStep
  OBVIOUS
<1>1. /\ Typed /\ TypeOK
      /\ conn \in [Socks -> Streams(Nat)] /\ backlog \in Seq(Socks) /\ clock \in Nat
      /\ th \in [Threads -> [pc : ThreadPcs, calls : Nat, fd : Nat, ids : Seq(Nat)]]
      /\ "client" \in Ends /\ "server" \in Ends
  BY DEF ThreadsInv, Typed, Ends
<1>2. ASSUME NEW t \in Threads, NEW next \in ThreadPcs \ {"reading"}, Goto(t, next),
             UNCHANGED <<conn, daemonVars>>
      PROVE  Typed' /\ AnswerStep
  <2>1. /\ th' \in [Threads -> [pc : ThreadPcs, calls : Nat, fd : Nat, ids : Seq(Nat)]]
        /\ \A u \in Threads : th'[u].ids = th[u].ids
        /\ \A u \in Threads : At(u, "reading")' => At(u, "reading") /\ th'[u].fd = th[u].fd
    BY <1>1, <1>2, GotoStep
  <2>2. NoneTaken
    BY <1>2, <2>1 DEF NoneTaken, Kept, Unread, daemonVars
  <2>3. Typed'
    BY <1>1, <1>2, <2>1 DEF Typed, daemonVars
  <2>. QED
    BY <2>2, <2>3 DEF AnswerStep
<1>3. ASSUME NEW t \in Threads, NEW next \in ThreadPcs \ {"reading"}, Goto(t, next),
             backlog' \in Seq(Socks), UNCHANGED <<srv, clock>>,
             NEW k \in Socks, NEW s \in Streams(Nat), conn' = [conn EXCEPT ![k] = s],
             s.in["client"] \in {Unread(k), <<>>}
      PROVE  Typed' /\ AnswerStep
  <2>1. /\ th' \in [Threads -> [pc : ThreadPcs, calls : Nat, fd : Nat, ids : Seq(Nat)]]
        /\ \A u \in Threads : th'[u].ids = th[u].ids
        /\ \A u \in Threads : At(u, "reading")' => At(u, "reading") /\ th'[u].fd = th[u].fd
    BY <1>1, <1>3, GotoStep
  <2>2. /\ conn' \in [Socks -> Streams(Nat)] /\ conn'[k] = s
        /\ \A l \in Socks \ {k} : conn'[l] = conn[l]
    BY <1>1, <1>3
  <2>3. NoneTaken
    <3>1. \A l \in Socks : Kept(l)
      BY <1>3, <2>2 DEF Kept, Unread
    <3>. QED
      BY <1>3, <2>1, <3>1 DEF NoneTaken
  <2>4. Typed'
    BY <1>1, <1>3, <2>1, <2>2 DEF Typed
  <2>. QED
    BY <2>3, <2>4 DEF AnswerStep
<1>4. ASSUME NEW t \in Threads, Call(t) PROVE Typed' /\ AnswerStep
  <2>1. /\ th' = [th EXCEPT ![t] = [th[t] EXCEPT !.pc = "test", !.calls = th[t].calls + 1]]
        /\ UNCHANGED <<conn, backlog, srv, clock>>
    BY <1>4 DEF Call, daemonVars
  <2>2. [th[t] EXCEPT !.pc = "test", !.calls = th[t].calls + 1]
          \in [pc : ThreadPcs, calls : Nat, fd : Nat, ids : Seq(Nat)]
    <3>1. th[t] \in [pc : ThreadPcs, calls : Nat, fd : Nat, ids : Seq(Nat)]
      BY <1>1
    <3>2. th[t].calls + 1 \in Nat /\ "test" \in ThreadPcs
      BY <3>1 DEF ThreadPcs
    <3>. QED
      BY <3>1, <3>2
  <2>3. /\ th' \in [Threads -> [pc : ThreadPcs, calls : Nat, fd : Nat, ids : Seq(Nat)]]
        /\ \A u \in Threads : th'[u].ids = th[u].ids
        /\ \A u \in Threads : At(u, "reading")' => At(u, "reading") /\ th'[u].fd = th[u].fd
    BY <1>1, <2>1, <2>2 DEF At
  <2>4. NoneTaken
    BY <2>1, <2>3 DEF NoneTaken, Kept, Unread
  <2>5. Typed'
    BY <1>1, <2>1, <2>3 DEF Typed
  <2>. QED
    BY <2>4, <2>5 DEF AnswerStep
<1>5. ASSUME NEW t \in Threads, TestSock(t) \/ Socket(t) \/ FillServer(t) \/ ResetSock(t)
      PROVE  Typed' /\ AnswerStep
  BY <1>2, <1>5 DEF TestSock, Socket, FillServer, ResetSock, Moved, ThreadPcs
<1>6. ASSUME NEW t \in Threads, Connect(t) PROVE Typed' /\ AnswerStep
  <2>1. CASE server /\ dom_sock \in fds /\ ~ Connected(dom_sock)
    <3>1. /\ conn' = [conn EXCEPT ![dom_sock] = NewStream] /\ Goto(t, "write")
          /\ backlog' = Append(backlog, dom_sock) /\ UNCHANGED <<srv, clock>>
      BY <1>6, <2>1 DEF Connect, ConnectOr
    <3>2. dom_sock \in Socks
      BY <1>1, <2>1, SocksRange DEF TypeOK, Socks
    <3>3. backlog' \in Seq(Socks)
      BY <1>1, <3>1, <3>2, AppendEntry
    <3>4. NewStream \in Streams(Nat) /\ NewStream.in["client"] = <<>>
      BY <1>1, NewStreams
    <3>. QED
      BY <1>3, <3>1, <3>2, <3>3, <3>4 DEF ThreadPcs
  <2>2. CASE ~ (server /\ dom_sock \in fds /\ ~ Connected(dom_sock))
    BY <1>2, <1>6, <2>2 DEF Connect, ConnectOr, ThreadPcs, daemonVars
  <2>. QED
    BY <2>1, <2>2
<1>7. ASSUME NEW s \in Streams(Nat)
      PROVE  /\ Closed(s, "client", FALSE) \in Streams(Nat)
             /\ Closed(s, "client", FALSE).in["client"] = <<>>
             /\ Closed(s, "server", FALSE) \in Streams(Nat)
             /\ Closed(s, "server", FALSE).in["client"] = s.in["client"]
  BY ClientCloses, ServerCloses
<1>8. ASSUME NEW t \in Threads, WriteGet(t) PROVE Typed' /\ AnswerStep
  <2>1. CASE Usable /\ conn' = [conn EXCEPT ![dom_sock] = Written(@, "client", GET)]
             /\ Goto(t, "read") /\ UNCHANGED daemonVars
    <3>1. dom_sock \in Socks
      BY <1>1, <2>1, SocksRange DEF TypeOK, Socks, Usable
    <3>2. conn[dom_sock] \in Streams(Nat) /\ GET \in Nat
      BY <1>1, <3>1 DEF GET
    <3>3. /\ Written(conn[dom_sock], "client", GET) \in Streams(Nat)
          /\ Written(conn[dom_sock], "client", GET).in["client"] = conn[dom_sock].in["client"]
      BY <3>2, ClientWritten
    <3>. QED
      BY <1>1, <1>3, <2>1, <3>1, <3>3 DEF ThreadPcs, daemonVars, Unread
  <2>2. CASE Goto(t, "fail") /\ UNCHANGED <<conn, daemonVars>>
    BY <1>2, <2>2 DEF ThreadPcs
  <2>3. CASE /\ th' = [u \in Threads |-> [th[u] EXCEPT !.pc = "dead"]]
             /\ conn' = [k \in Socks |-> Closed(conn[k], "client", FALSE)]
             /\ UNCHANGED daemonVars
    <3>1. /\ th' \in [Threads -> [pc : ThreadPcs, calls : Nat, fd : Nat, ids : Seq(Nat)]]
          /\ \A u \in Threads : th'[u].ids = th[u].ids /\ th'[u].pc = "dead"
      BY <1>1, <2>3 DEF ThreadPcs
    <3>2. conn' \in [Socks -> Streams(Nat)] /\ \A k \in Socks : Unread(k)' = <<>>
      BY <1>1, <1>7, <2>3 DEF Unread
    <3>3. NoneTaken
      BY <2>3, <3>1, <3>2 DEF NoneTaken, Kept, daemonVars
    <3>4. Typed'
      BY <1>1, <2>3, <3>1, <3>2 DEF Typed, daemonVars, At
    <3>. QED
      BY <3>3, <3>4 DEF AnswerStep
  <2>. QED
    BY <1>8, <2>1, <2>2, <2>3 DEF WriteGet
<1>9. ASSUME NEW t \in Threads, BeginRead(t) PROVE Typed' /\ AnswerStep
  <2>1. PICK next \in {"reading", "fail"} :
          /\ th' = [th EXCEPT ![t] = [th[t] EXCEPT !.pc = next, !.fd = dom_sock]]
          /\ next = "reading" => Usable
          /\ UNCHANGED <<conn, backlog, srv, clock>>
    BY <1>9 DEF BeginRead, daemonVars
  <2>2. dom_sock \in Nat /\ (Usable => dom_sock \in Socks)
    BY <1>1, SocksRange DEF TypeOK, Socks, Usable
  <2>3. [th[t] EXCEPT !.pc = next, !.fd = dom_sock]
          \in [pc : ThreadPcs, calls : Nat, fd : Nat, ids : Seq(Nat)]
    BY <1>1, <2>2 DEF ThreadPcs
  <2>4. /\ th' \in [Threads -> [pc : ThreadPcs, calls : Nat, fd : Nat, ids : Seq(Nat)]]
        /\ \A u \in Threads : th'[u].ids = th[u].ids
        /\ \A u \in Threads : u # t => th'[u] = th[u]
        /\ th'[t].pc = next /\ th'[t].fd = dom_sock
    BY <1>1, <2>1, <2>3
  <2>5. \A u \in Threads : At(u, "reading")' => th'[u].fd \in Socks
    BY <1>1, <2>1, <2>2, <2>4 DEF Typed, At
  <2>6. NoneTaken
    BY <2>1, <2>4 DEF NoneTaken, Kept, Unread
  <2>7. Typed'
    BY <1>1, <2>1, <2>4, <2>5 DEF Typed
  <2>. QED
    BY <2>6, <2>7 DEF AnswerStep
<1>10. ASSUME NEW t \in Threads, EndRead(t) PROVE Typed' /\ AnswerStep
  <2>0. At(t, "reading") /\ th[t].fd \in Socks
    BY <1>1, <1>10 DEF EndRead, Typed
  <2>1. PICK k \in Socks : k = th[t].fd
    BY <2>0
  <2>2. conn[k] \in Streams(Nat) /\ UNCHANGED <<backlog, srv, clock>>
    BY <1>1, <1>10 DEF EndRead, daemonVars
  <2>3. ASSUME NEW s \in Streams(Nat)
        PROVE  /\ Left(s, t) \in Streams(Nat)
               /\ Left(s, t).in["client"] \in {s.in["client"], <<>>}
    <3>1. /\ Closed(s, "client", FALSE) \in Streams(Nat)
          /\ Closed(s, "client", FALSE).in["client"] = <<>>
      BY <1>7
    <3>. QED
      BY <3>1 DEF Left
  <2>4. CASE IsReset(conn[k], "client") /\ Goto(t, "fail")
             /\ conn' = [conn EXCEPT ![k] = Left(ResetSeen(conn[k], "client"), t)]
    <3>1. ResetSeen(conn[k], "client") \in Streams(Nat)
          /\ ResetSeen(conn[k], "client").in["client"] = Unread(k)
      BY <1>1, <2>2, ResetSeenParts DEF Unread
    <3>. QED
      BY <1>1, <1>3, <2>1, <2>2, <2>3, <2>4, <3>1 DEF ThreadPcs
  <2>5. ASSUME NEW id \in Nat, NEW s \in Streams(Nat), conn' = [conn EXCEPT ![k] = Left(s, t)],
               th' = [th EXCEPT ![t] = [th[t] EXCEPT !.pc = "close", !.ids = Append(th[t].ids, id)]]
        PROVE  /\ Typed'
               /\ th'[t].ids = Append(th[t].ids, id)
               /\ \A u \in Threads \ {t} : th'[u].ids = th[u].ids
               /\ Unread(k)' \in {s.in["client"], <<>>}
               /\ \A l \in Socks \ {k} : Unread(l)' = Unread(l)
    <3>1. Append(th[t].ids, id) \in Seq(Nat)
      BY <1>1, AppendEntry
    <3>2. [th[t] EXCEPT !.pc = "close", !.ids = Append(th[t].ids, id)]
            \in [pc : ThreadPcs, calls : Nat, fd : Nat, ids : Seq(Nat)]
      BY <1>1, <3>1 DEF ThreadPcs
    <3>3. /\ th' \in [Threads -> [pc : ThreadPcs, calls : Nat, fd : Nat, ids : Seq(Nat)]]
          /\ th'[t].ids = Append(th[t].ids, id) /\ th'[t].pc = "close"
          /\ \A u \in Threads \ {t} : th'[u] = th[u]
      BY <1>1, <2>5, <3>2
    <3>4. /\ conn' \in [Socks -> Streams(Nat)] /\ conn'[k] = Left(s, t)
          /\ \A l \in Socks \ {k} : conn'[l] = conn[l]
      BY <1>1, <2>1, <2>3, <2>5
    <3>5. \A u \in Threads : At(u, "reading")' => th'[u].fd \in Socks
      BY <1>1, <3>3 DEF Typed, At
    <3>6. Typed'
      BY <1>1, <2>2, <3>3, <3>4, <3>5 DEF Typed
    <3>. QED
      BY <2>3, <3>3, <3>4, <3>6 DEF Unread
  <2>6. CASE /\ HasData(conn[k], "client")
             /\ th' = [th EXCEPT ![t] = [th[t] EXCEPT !.pc = "close",
                                           !.ids = Append(th[t].ids, Data(conn[k], "client"))]]
             /\ conn' = [conn EXCEPT ![k] = Left(Consumed(conn[k], "client"), t)]
    <3>1. /\ Consumed(conn[k], "client") \in Streams(Nat) /\ Data(conn[k], "client") \in Nat
          /\ Consumed(conn[k], "client").in["client"] = Tail(Unread(k))
      BY <1>1, <2>2, <2>6, ConsumedParts DEF Unread
    <3>2. Unread(k) # <<>> /\ Data(conn[k], "client") = Head(Unread(k))
      BY <2>6 DEF HasData, Data, Unread
    <3>3. Typed' /\ Takes(t, k)
      BY <2>2, <2>5, <2>6, <3>1, <3>2 DEF Takes
    <3>. QED
      BY <2>1, <3>3 DEF AnswerStep
  <2>7. ASSUME NEW stale \in {NoUuid} \cup Range(th[t].ids),
               th' = [th EXCEPT ![t] = [th[t] EXCEPT !.pc = "close",
                                          !.ids = Append(th[t].ids, stale)]],
               conn' = [conn EXCEPT ![k] = Left(conn[k], t)]
        PROVE  Typed' /\ AnswerStep
    <3>1. stale \in Nat
      BY <1>1, RangeOfSeq DEF NoUuid
    <3>2. /\ Typed'
          /\ th'[t].ids = Append(th[t].ids, stale)
          /\ \A u \in Threads \ {t} : th'[u].ids = th[u].ids
          /\ Unread(k)' \in {conn[k].in["client"], <<>>}
          /\ \A l \in Socks \ {k} : Unread(l)' = Unread(l)
      BY <2>2, <2>5, <2>7, <3>1
    <3>3. \A l \in Socks : Kept(l)
      BY <3>2 DEF Kept, Unread
    <3>4. TakesStale(t)
      BY <2>2, <3>2, <3>3 DEF TakesStale
    <3>. QED
      BY <3>2, <3>4 DEF AnswerStep
  <2>. QED
    BY <1>10, <2>1, <2>4, <2>6, <2>7 DEF EndRead
<1>11. ASSUME NEW t \in Threads, CloseSock(t) PROVE Typed' /\ AnswerStep
  <2>1. Goto(t, "reset") /\ UNCHANGED daemonVars
    BY <1>11 DEF CloseSock, Moved
  <2>2. CASE Usable /\ Readers(dom_sock) = {}
    <3>1. dom_sock \in Socks
      BY <1>1, <2>2, SocksRange DEF TypeOK, Socks, Usable
    <3>2. conn' = [conn EXCEPT ![dom_sock] = Closed(conn[dom_sock], "client", FALSE)]
      BY <1>11, <2>2 DEF CloseSock
    <3>. QED
      BY <1>1, <1>3, <1>7, <2>1, <3>1, <3>2 DEF ThreadPcs, daemonVars
  <2>3. CASE ~ (Usable /\ Readers(dom_sock) = {})
    BY <1>2, <1>11, <2>1, <2>3 DEF CloseSock, ThreadPcs
  <2>. QED
    BY <2>2, <2>3
<1>12. CASE Accept
  <2>1. /\ srv' = [pc |-> "read_cmd", conn |-> Head(backlog)] /\ backlog' = Tail(backlog)
        /\ backlog # <<>> /\ UNCHANGED <<th, conn, clock>>
    BY <1>12 DEF Accept, libVars
  <2>2. Head(backlog) \in Socks /\ backlog' \in Seq(Socks)
    BY <1>1, <2>1, TakeEntry
  <2>3. Typed'
    BY <1>1, <2>1, <2>2, SocksRange DEF Typed, At
  <2>. QED
    BY <2>1, <2>3 DEF AnswerStep, NoneTaken, Kept, Unread
<1>13. ASSUME srv.pc # "accept" PROVE srv.conn \in Socks /\ Served \in Streams(Nat)
  BY <1>1, <1>13 DEF Typed, Served
<1>14. ASSUME NEW s \in Streams(Nat), NEW k \in Socks, conn' = [conn EXCEPT ![k] = s],
              UNCHANGED <<th, backlog>>, clock' \in Nat,
              srv' \in [pc : {"accept", "read_cmd", "send_uuid", "close"},
                        conn : Socks \cup {NoSock}],
              srv'.pc # "accept" => srv'.conn # NoSock
       PROVE  /\ Typed' /\ Unread(k)' = s.in["client"]
              /\ \A l \in Socks \ {k} : Unread(l)' = Unread(l)
  <2>1. /\ conn' \in [Socks -> Streams(Nat)] /\ conn'[k] = s
        /\ \A l \in Socks \ {k} : conn'[l] = conn[l]
    BY <1>1, <1>14
  <2>2. Typed'
    BY <1>1, <1>14, <2>1 DEF Typed, At
  <2>. QED
    BY <2>1, <2>2 DEF Unread
<1>15. CASE ReadCommand
  <2>1. /\ srv.pc = "read_cmd" /\ UNCHANGED <<th, backlog, clock>>
        /\ srv' \in {[srv EXCEPT !.pc = "send_uuid"], [srv EXCEPT !.pc = "close"]}
        /\ conn' = [conn EXCEPT ![srv.conn] = [conn[srv.conn] EXCEPT !.in["server"] = <<>>]]
    BY <1>15 DEF ReadCommand, libVars
  <2>2. PICK k \in Socks : k = srv.conn
    BY <1>13, <2>1
  <2>3. /\ [conn[k] EXCEPT !.in["server"] = <<>>] \in Streams(Nat)
        /\ [conn[k] EXCEPT !.in["server"] = <<>>].in["client"] = Unread(k)
    <3>1. /\ conn[k] \in Streams(Nat) /\ conn[k].in \in [Ends -> Seq(Nat)] /\ <<>> \in Seq(Nat)
          /\ "client" # "server"
      BY <1>1 DEF Streams
    <3>2. [conn[k].in EXCEPT !["server"] = <<>>] \in [Ends -> Seq(Nat)]
      BY <3>1
    <3>. QED
      BY <1>1, <3>1, <3>2 DEF Streams, Unread
  <2>4. /\ srv' \in [pc : {"accept", "read_cmd", "send_uuid", "close"}, conn : Socks \cup {NoSock}]
        /\ srv'.conn # NoSock
    BY <1>1, <2>1 DEF Typed
  <2>5. Typed' /\ \A s \in Socks : Unread(s)' = Unread(s)
    BY <1>1, <1>14, <2>1, <2>2, <2>3, <2>4 DEF Unread
  <2>. QED
    BY <2>1, <2>5 DEF AnswerStep, NoneTaken, Kept
<1>16. CASE SendUuid
  <2>1. /\ srv.pc = "send_uuid" /\ UNCHANGED <<th, backlog>> /\ clock' = clock + 1
        /\ srv' = [srv EXCEPT !.pc = "close"]
        /\ conn' = IF Broken(Served, "server") THEN conn
                   ELSE [conn EXCEPT ![srv.conn] = Written(conn[srv.conn], "server", clock + 1)]
    BY <1>16 DEF SendUuid, Answer, libVars
  <2>2. PICK k \in Socks : k = srv.conn
    BY <1>13, <2>1
  <2>3. /\ srv' \in [pc : {"accept", "read_cmd", "send_uuid", "close"}, conn : Socks \cup {NoSock}]
        /\ srv'.conn # NoSock
    BY <1>1, <2>1 DEF Typed
  <2>4. CASE Broken(Served, "server")
    <3>1. Typed'
      BY <1>1, <2>1, <2>3, <2>4 DEF Typed, At
    <3>2. Answers(k)
      BY <2>1, <2>4 DEF Answers, Unread
    <3>. QED
      BY <2>2, <3>1, <3>2 DEF AnswerStep
  <2>5. CASE ~ Broken(Served, "server")
    <3>1. /\ Written(conn[k], "server", clock + 1) \in Streams(Nat)
          /\ Written(conn[k], "server", clock + 1).in["client"]
               = Append(Unread(k), clock + 1)
      <4>1. conn[k] \in Streams(Nat) /\ clock + 1 \in Nat
        BY <1>1
      <4>. QED
        BY <4>1, ServerWritten DEF Unread
    <3>2. /\ Typed' /\ Unread(k)' = Append(Unread(k), clock + 1)
          /\ \A l \in Socks \ {k} : Unread(l)' = Unread(l)
      <4>1. /\ conn' = [conn EXCEPT ![k] = Written(conn[k], "server", clock + 1)]
            /\ UNCHANGED <<th, backlog>> /\ clock' \in Nat /\ srv'.conn # NoSock
        BY <1>1, <2>1, <2>2, <2>3, <2>5
      <4>. QED
        BY <1>14, <2>3, <3>1, <4>1
    <3>3. Answers(k)
      BY <2>1, <3>2 DEF Answers
    <3>. QED
      BY <2>2, <3>2, <3>3 DEF AnswerStep
  <2>. QED
    BY <2>4, <2>5
<1>17. CASE CloseConnection
  <2>1. /\ srv.pc = "close" /\ UNCHANGED <<th, backlog, clock>>
        /\ srv' = [pc |-> "accept", conn |-> NoSock]
        /\ conn' = [conn EXCEPT ![srv.conn] = Closed(conn[srv.conn], "server", FALSE)]
    BY <1>17 DEF CloseConnection, libVars
  <2>2. PICK k \in Socks : k = srv.conn
    BY <1>13, <2>1
  <2>3. /\ Closed(conn[k], "server", FALSE) \in Streams(Nat)
        /\ Closed(conn[k], "server", FALSE).in["client"] = Unread(k)
    BY <1>1, <1>7 DEF Unread
  <2>4. /\ srv' \in [pc : {"accept", "read_cmd", "send_uuid", "close"}, conn : Socks \cup {NoSock}]
        /\ srv'.pc = "accept"
    BY <2>1
  <2>5. /\ Typed' /\ Unread(k)' = Unread(k)
        /\ \A l \in Socks \ {k} : Unread(l)' = Unread(l)
    BY <1>1, <1>14, <2>1, <2>2, <2>3, <2>4
  <2>. QED
    BY <2>1, <2>5 DEF AnswerStep, NoneTaken, Kept
<1>18. CASE Rest \/ UNCHANGED vars
  <2>1. UNCHANGED <<th, conn, backlog, srv, clock>>
    BY <1>18 DEF Rest, vars
  <2>. QED
    BY <1>1, <2>1 DEF Typed, At, AnswerStep, NoneTaken, Kept, Unread
<1>. QED
  BY <1>4, <1>5, <1>6, <1>8, <1>9, <1>10, <1>11, <1>12, <1>15, <1>16, <1>17, <1>18
  DEF Next, Daemon, get_new_id

(* The identifiers a thread has been given. *)
Had(t) == Range(th[t].ids)

(* AnswersDiffer, NotSharedByThreads and the range of what threads have    *)
(* had, entry by entry.                                                    *)
EntriesNew ==
  /\ \A k \in Socks : \A i \in DOMAIN Unread(k) :
       Unread(k)[i] \in Nat /\ Unread(k)[i] # 0 /\ Unread(k)[i] <= clock
  /\ \A k \in Socks : \A i \in DOMAIN Unread(k) : \A t \in Threads : Unread(k)[i] \notin Had(t)
EntriesDiffer ==
  \A k, l \in Socks : \A i \in DOMAIN Unread(k), j \in DOMAIN Unread(l) :
    Unread(k)[i] = Unread(l)[j] => k = l /\ i = j
HadBefore == \A t \in Threads : \A x \in Had(t) : x \in Nat /\ x <= clock
HadInRange == \A t \in Threads : Range(th[t].ids) \subseteq 0 .. clock
HadByOne == \A t, u \in Threads : \A x \in Had(t) : t # u /\ x \in Had(u) => x = 0

LEMMA EntryByEntry ==
  clock \in Nat =>
    /\ AnswersDiffer <=> EntriesNew /\ EntriesDiffer
    /\ HadInRange <=> HadBefore
    /\ NotSharedByThreads <=> HadByOne
<1>. SUFFICES ASSUME clock \in Nat
              PROVE  /\ AnswersDiffer <=> EntriesNew /\ EntriesDiffer
                     /\ HadInRange <=> HadBefore
                     /\ NotSharedByThreads <=> HadByOne
  OBVIOUS
<1>1. \A x : x \in 1 .. clock <=> x \in Nat /\ x # 0 /\ x <= clock
  OBVIOUS
<1>2. \A x : x \in 0 .. clock <=> x \in Nat /\ x <= clock
  OBVIOUS
<1>3. AnswersDiffer <=> EntriesNew /\ EntriesDiffer
  BY <1>1, Zenon DEF AnswersDiffer, EntriesNew, EntriesDiffer, Had
<1>4. HadInRange <=> HadBefore
  BY <1>2, Zenon DEF HadInRange, HadBefore, Had
<1>5. NotSharedByThreads <=> HadByOne
  <2>1. ASSUME NotSharedByThreads PROVE HadByOne
    BY <2>1 DEF NotSharedByThreads, HadByOne, Had, NoUuid
  <2>2. ASSUME HadByOne PROVE NotSharedByThreads
    BY <2>2 DEF NotSharedByThreads, HadByOne, Had, NoUuid
  <2>. QED
    BY <2>1, <2>2
<1>. QED
  BY <1>3, <1>4, <1>5

(* None of the things a step does to the answers makes two of them alike,  *)
(* or gives one to a second thread.                                        *)
LEMMA AnswersNext ==
  ASSUME ThreadsInv, Typed', AnswerStep
  PROVE  AnswersDiffer' /\ NotSharedByThreads' /\ HadInRange'
<1>. SUFFICES EntriesNew' /\ EntriesDiffer' /\ HadBefore' /\ HadByOne'
  <2>1. (clock \in Nat)'
    BY DEF Typed
  <2>. QED
    BY <2>1, EntryByEntry, PTL
<1>0. /\ clock \in Nat
      /\ \A t \in Threads : th[t].ids \in Seq(Nat)
      /\ \A k \in Socks : Unread(k) \in Seq(Nat)
  BY DEF ThreadsInv, Typed, Unread, Streams, Ends
<1>1. EntriesNew /\ EntriesDiffer /\ HadBefore /\ HadByOne
  BY <1>0, EntryByEntry DEF ThreadsInv, TypeOK, HadInRange
<1>2. DOMAIN <<>> = {}
  OBVIOUS
\* Whatever is left of the answers was there before, and none of it is new to a thread.
<1>3. ASSUME clock' = clock,
             \A k \in Socks : Kept(k),
             \A t \in Threads : \A x \in Had(t)' : x \in Had(t) \/ x = 0
      PROVE  EntriesNew' /\ EntriesDiffer' /\ HadBefore' /\ HadByOne'
  <2>1. \A k \in Socks : \A i \in DOMAIN Unread(k)' :
          i \in DOMAIN Unread(k) /\ Unread(k)'[i] = Unread(k)[i]
    BY <1>2, <1>3 DEF Kept
  <2>2. EntriesNew'
    <3>. SUFFICES ASSUME NEW k \in Socks, NEW i \in DOMAIN Unread(k)'
                  PROVE  LET e == Unread(k)'[i]
                         IN  e \in Nat /\ e # 0 /\ e <= clock /\ \A t \in Threads : e \notin Had(t)'
      BY <1>3 DEF EntriesNew
    <3>. QED
      BY <1>1, <1>3, <2>1 DEF EntriesNew
  <2>3. EntriesDiffer'
    BY <1>1, <2>1 DEF EntriesDiffer
  <2>4. HadBefore' /\ HadByOne'
    BY <1>0, <1>1, <1>3 DEF HadBefore, HadByOne
  <2>. QED
    BY <2>2, <2>3, <2>4
<1>4. CASE NoneTaken
  BY <1>3, <1>4 DEF NoneTaken, Had
<1>5. ASSUME NEW t \in Threads, TakesStale(t)
      PROVE  EntriesNew' /\ EntriesDiffer' /\ HadBefore' /\ HadByOne'
  <2>1. PICK stale \in {NoUuid} \cup Had(t) : th'[t].ids = Append(th[t].ids, stale)
    BY <1>5 DEF TakesStale, Had
  <2>2. stale \in Nat
    BY <1>1, <2>1 DEF NoUuid, HadBefore
  <2>3. Had(t)' = Had(t) \cup {stale}
    BY <1>0, <2>1, <2>2, AppendEntry DEF Had
  <2>4. \A u \in Threads \ {t} : Had(u)' = Had(u)
    BY <1>5 DEF TakesStale, Had
  <2>5. \A u \in Threads : \A x \in Had(u)' : x \in Had(u) \/ x = 0
    BY <2>1, <2>3, <2>4 DEF NoUuid
  <2>. QED
    BY <1>3, <1>5, <2>5 DEF TakesStale
<1>6. ASSUME NEW t \in Threads, NEW k \in Socks, Takes(t, k)
      PROVE  EntriesNew' /\ EntriesDiffer' /\ HadBefore' /\ HadByOne'
  <2>0. /\ Unread(k) # <<>> /\ clock' = clock
        /\ th'[t].ids = Append(th[t].ids, Head(Unread(k)))
        /\ Unread(k)' \in {Tail(Unread(k)), <<>>}
        /\ \A u \in Threads \ {t} : th'[u].ids = th[u].ids
        /\ \A l \in Socks \ {k} : Unread(l)' = Unread(l)
    BY <1>6 DEF Takes
  <2>1. PICK id \in Nat :
          /\ th'[t].ids = Append(th[t].ids, id)
          /\ id = Unread(k)[1] /\ 1 \in DOMAIN Unread(k)
          /\ \A i \in DOMAIN Tail(Unread(k)) :
             i + 1 \in DOMAIN Unread(k) /\ i \in Nat \ {0} /\ Tail(Unread(k))[i] = Unread(k)[i + 1]
    <3>1. PICK s \in Seq(Nat) : s = Unread(k) /\ s # <<>>
      BY <1>0, <2>0
    <3>2. /\ Head(s) = s[1] /\ Head(s) \in Nat /\ 1 \in DOMAIN s
          /\ \A i \in DOMAIN Tail(s) : i + 1 \in DOMAIN s /\ i \in Nat \ {0} /\ Tail(s)[i] = s[i + 1]
      BY <3>1, TakeEntry
    <3>. QED
      BY <2>0, <3>1, <3>2, Zenon
  <2>2. id # 0 /\ id <= clock /\ \A u \in Threads : id \notin Had(u)
    BY <1>1, <2>1 DEF EntriesNew
  <2>3. Had(t)' = Had(t) \cup {id}
    BY <1>0, <2>1, AppendEntry DEF Had
  <2>4. \A u \in Threads \ {t} : Had(u)' = Had(u)
    BY <2>0 DEF Had
  <2>5. HadByOne'
    BY <1>1, <2>2, <2>3, <2>4 DEF HadByOne
  <2>6. HadBefore'
    BY <1>1, <2>0, <2>2, <2>3, <2>4 DEF HadBefore
  <2>7. ASSUME NEW i \in DOMAIN Unread(k)'
        PROVE  i \in Nat \ {0} /\ i + 1 \in DOMAIN Unread(k) /\ Unread(k)'[i] = Unread(k)[i + 1]
    <3>1. CASE Unread(k)' = <<>>
      BY <1>2, <3>1
    <3>2. CASE Unread(k)' = Tail(Unread(k))
      BY <2>1, <3>2
    <3>. QED
      BY <2>0, <3>1, <3>2
  <2>8. ASSUME NEW l \in Socks, NEW i \in DOMAIN Unread(l)'
        PROVE  \E j \in DOMAIN Unread(l) : /\ Unread(l)'[i] = Unread(l)[j] /\ (l = k => j # 1)
                                           /\ j = IF l = k THEN i + 1 ELSE i
    <3>1. CASE l = k
      <4>1. i \in Nat \ {0} /\ i + 1 \in DOMAIN Unread(l) /\ Unread(l)'[i] = Unread(l)[i + 1]
        BY <2>7, <3>1
      <4>2. i + 1 # 1
        BY <4>1
      <4>. QED
        BY <3>1, <4>1, <4>2
    <3>2. CASE l # k
      BY <2>0, <3>2
    <3>. QED
      BY <3>1, <3>2
  <2>9. EntriesNew'
    <3>. SUFFICES ASSUME NEW l \in Socks, NEW i \in DOMAIN Unread(l)'
                  PROVE  LET e == Unread(l)'[i]
                         IN  e \in Nat /\ e # 0 /\ e <= clock /\ \A u \in Threads : e \notin Had(u)'
      BY <2>0 DEF EntriesNew
    <3>1. PICK j \in DOMAIN Unread(l) : Unread(l)'[i] = Unread(l)[j] /\ (l = k => j # 1)
      BY <2>8
    <3>2. Unread(l)[j] # id
      BY <1>1, <2>1, <3>1 DEF EntriesDiffer
    <3>. QED
      BY <1>1, <2>3, <2>4, <3>1, <3>2 DEF EntriesNew
  <2>10. EntriesDiffer'
    <3>. SUFFICES ASSUME NEW l \in Socks, NEW m \in Socks,
                         NEW i \in DOMAIN Unread(l)', NEW j \in DOMAIN Unread(m)',
                         Unread(l)'[i] = Unread(m)'[j]
                  PROVE  l = m /\ i = j
      BY DEF EntriesDiffer
    <3>1. PICK i1 \in DOMAIN Unread(l) :
            Unread(l)'[i] = Unread(l)[i1] /\ i1 = IF l = k THEN i + 1 ELSE i
      BY <2>8
    <3>2. PICK j1 \in DOMAIN Unread(m) :
            Unread(m)'[j] = Unread(m)[j1] /\ j1 = IF m = k THEN j + 1 ELSE j
      BY <2>8
    <3>3. l = m /\ i1 = j1
      <4>1. Unread(l)[i1] = Unread(m)[j1]
        BY <3>1, <3>2, Zenon
      <4>2. \A p, q \in Socks : \A x \in DOMAIN Unread(p), y \in DOMAIN Unread(q) :
              Unread(p)[x] = Unread(q)[y] => p = q /\ x = y
        BY <1>1 DEF EntriesDiffer
      <4>3. i1 \in DOMAIN Unread(l) /\ j1 \in DOMAIN Unread(m)
        OBVIOUS
      <4>. QED
        BY <4>1, <4>2, <4>3
    <3>4. CASE l = k
      <4>1. i \in Nat /\ j \in Nat /\ i + 1 = j + 1
        BY <2>7, <3>1, <3>2, <3>3, <3>4
      <4>. QED
        BY <3>3, <4>1
    <3>. QED
      BY <3>1, <3>2, <3>3, <3>4
  <2>. QED
    BY <2>5, <2>6, <2>9, <2>10
<1>7. ASSUME NEW k \in Socks, Answers(k)
      PROVE  EntriesNew' /\ EntriesDiffer' /\ HadBefore' /\ HadByOne'
  <2>1. /\ clock' = clock + 1 /\ \A t \in Threads : Had(t)' = Had(t)
        /\ Unread(k)' \in {Unread(k), Append(Unread(k), clock + 1)}
        /\ \A l \in Socks \ {k} : Unread(l)' = Unread(l)
    BY <1>7 DEF Answers, Had
  <2>2. PICK new \in Nat : new = clock + 1 /\ new # 0
    BY <1>0
  <2>3. ASSUME NEW l \in Socks, NEW i \in DOMAIN Unread(l)'
        PROVE  \/ i \in DOMAIN Unread(l) /\ Unread(l)'[i] = Unread(l)[i]
               \/ l = k /\ i = Len(Unread(k)) + 1 /\ Unread(l)'[i] = new
    <3>1. /\ DOMAIN Append(Unread(k), new) = DOMAIN Unread(k) \cup {Len(Unread(k)) + 1}
          /\ \A n \in DOMAIN Unread(k) : Append(Unread(k), new)[n] = Unread(k)[n]
          /\ Append(Unread(k), new)[Len(Unread(k)) + 1] = new
      BY <1>0, AppendEntry
    <3>2. CASE l = k /\ Unread(k)' = Append(Unread(k), new)
      BY <3>1, <3>2
    <3>3. CASE Unread(l)' = Unread(l)
      BY <3>3
    <3>. QED
      BY <2>1, <2>2, <3>2, <3>3
  <2>4. \A l \in Socks : \A i \in DOMAIN Unread(l) : Unread(l)[i] # new
    BY <1>0, <1>1, <2>2 DEF EntriesNew
  <2>5. \A t \in Threads : new \notin Had(t)
    BY <1>0, <1>1, <2>2 DEF HadBefore
  <2>6. EntriesNew'
    <3>. SUFFICES ASSUME NEW l \in Socks, NEW i \in DOMAIN Unread(l)'
                  PROVE  LET e == Unread(l)'[i]
                         IN  e \in Nat /\ e # 0 /\ e <= new /\ \A u \in Threads : e \notin Had(u)
      BY <2>1, <2>2 DEF EntriesNew
    <3>1. CASE Unread(l)'[i] = new
      BY <2>2, <2>5, <3>1
    <3>2. CASE i \in DOMAIN Unread(l) /\ Unread(l)'[i] = Unread(l)[i]
      BY <1>0, <1>1, <2>2, <3>2 DEF EntriesNew
    <3>. QED
      BY <2>3, <3>1, <3>2
  <2>7. EntriesDiffer'
    <3>. SUFFICES ASSUME NEW l \in Socks, NEW m \in Socks,
                         NEW i \in DOMAIN Unread(l)', NEW j \in DOMAIN Unread(m)',
                         Unread(l)'[i] = Unread(m)'[j]
                  PROVE  l = m /\ i = j
      BY DEF EntriesDiffer
    <3>. QED
      BY <1>1, <2>3, <2>4 DEF EntriesDiffer
  <2>8. HadBefore' /\ HadByOne'
    BY <1>0, <1>1, <2>1 DEF HadBefore, HadByOne
  <2>. QED
    BY <2>6, <2>7, <2>8
<1>. QED
  BY <1>4, <1>5, <1>6, <1>7 DEF AnswerStep

(* While dom_sock is set, the thread that set it, or one that found it     *)
(* set, has still to reset it.                                             *)
LEMMA HeldNext == ThreadsInv /\ [Next]_vars => SockIsHeld'
<1>. SUFFICES ASSUME ThreadsInv, [Next]_vars PROVE SockIsHeld'
  OBVIOUS
<1>. DEFINE Holds(t) == th[t].pc \notin {"idle", "test", "socket"}
<1>1. Typed /\ (dom_sock # NoSock => \E t \in Threads : Holds(t))
  BY DEF ThreadsInv, SockIsHeld
<1>2. ASSUME UNCHANGED dom_sock, \A t \in Threads : Holds(t) => Holds(t)' PROVE SockIsHeld'
  BY <1>1, <1>2 DEF SockIsHeld
<1>3. ASSUME NEW t \in Threads, NEW next \in ThreadPcs, Goto(t, next),
             next \notin {"idle", "test", "socket"}
      PROVE  Holds(t)' /\ \A u \in Threads : Holds(u) => Holds(u)'
  BY <1>1, <1>3, GotoStep
<1>4. ASSUME NEW t \in Threads, Call(t) \/ BeginRead(t) \/ EndRead(t) PROVE SockIsHeld'
  <2>1. UNCHANGED dom_sock /\ th[t].pc \in {"idle", "read", "reading"}
    BY <1>4 DEF Call, BeginRead, EndRead, At
  <2>2. \A u \in Threads : u # t => th'[u] = th[u]
    BY <1>1, <1>4 DEF Call, BeginRead, EndRead, Goto, Typed
  <2>3. Holds(t) => Holds(t)'
    BY <1>1, <1>4 DEF Call, BeginRead, EndRead, Goto, Typed, At
  <2>. QED
    BY <1>2, <2>1, <2>2, <2>3
<1>5. ASSUME NEW t \in Threads, TestSock(t) PROVE SockIsHeld'
  <2>1. UNCHANGED dom_sock /\ th[t].pc = "test" /\ ~ Holds(t)
    BY <1>5 DEF TestSock, Moved, At
  <2>2. \A u \in Threads : u # t => th'[u] = th[u]
    BY <1>1, <1>5 DEF TestSock, Moved, Goto, Typed
  <2>. QED
    BY <1>2, <2>1, <2>2
<1>6. ASSUME NEW t \in Threads, Socket(t) PROVE SockIsHeld'
  BY <1>3, <1>6 DEF Socket, Moved, SockIsHeld, ThreadPcs
<1>7. ASSUME NEW t \in Threads,
             FillServer(t) \/ Connect(t) \/ CloseSock(t)
      PROVE  SockIsHeld'
  <2>1. UNCHANGED dom_sock /\ \E next \in {"connect", "reset", "write", "fail"} : Goto(t, next)
    BY <1>7 DEF FillServer, Connect, ConnectOr, CloseSock, Moved
  <2>. QED
    BY <1>2, <1>3, <2>1 DEF ThreadPcs
<1>8. ASSUME NEW t \in Threads, WriteGet(t) PROVE SockIsHeld'
  <2>1. UNCHANGED dom_sock
    BY <1>8 DEF WriteGet
  <2>2. CASE Goto(t, "read") \/ Goto(t, "fail")
    BY <1>2, <1>3, <2>1, <2>2 DEF ThreadPcs
  <2>3. CASE th' = [u \in Threads |-> [th[u] EXCEPT !.pc = "dead"]]
    <3>1. \A u \in Threads : Holds(u)'
      BY <1>1, <2>3 DEF Typed
    <3>. QED
      BY <1>2, <2>1, <3>1
  <2>. QED
    BY <1>8, <2>2, <2>3 DEF WriteGet
<1>9. ASSUME NEW t \in Threads, ResetSock(t) PROVE SockIsHeld'
  BY <1>9 DEF ResetSock, SockIsHeld
<1>10. CASE Daemon \/ Rest \/ UNCHANGED vars
  BY <1>2, <1>10 DEF Daemon, Accept, ReadCommand, SendUuid, Answer, CloseConnection, Rest, vars,
    libVars
<1>. QED
  BY <1>4, <1>5, <1>6, <1>7, <1>8, <1>9, <1>10 DEF Next, get_new_id

-------------------------------------------------------------------------------
(* What a step can do to the calls: begin one, or go on in one. *)
CallsStep ==
  \A t \in Threads :
    \/ th[t].calls < MaxCalls /\ th'[t].calls = th[t].calls + 1
    \/ /\ th'[t].calls = th[t].calls
       /\ th'[t].pc \in {"test", "socket"} => th[t].pc \in {"test", "socket"}

(* Every step does; the descriptor a thread reads from is one it found in  *)
(* dom_sock.                                                               *)
LEMMA CallsNext ==
  ThreadsInv /\ [Next]_vars =>
    CallsStep /\ \A t \in Threads : th'[t].fd \in {th[t].fd, dom_sock}
<1>. DEFINE FdStep == \A t \in Threads : th'[t].fd \in {th[t].fd, dom_sock}
<1>. SUFFICES ASSUME ThreadsInv, [Next]_vars PROVE CallsStep /\ FdStep
  OBVIOUS
<1>1. /\ Typed
      /\ th \in [Threads -> [pc : ThreadPcs, calls : Nat, fd : Nat, ids : Seq(Nat)]]
  BY DEF ThreadsInv, Typed
<1>2. ASSUME NEW t \in Threads, NEW next \in ThreadPcs, Goto(t, next),
             next \notin {"test", "socket"} \/ th[t].pc = "test"
      PROVE  CallsStep /\ FdStep
  BY <1>1, <1>2, GotoStep DEF CallsStep
<1>3. ASSUME NEW t \in Threads, Call(t) PROVE CallsStep /\ FdStep
  <2>1. /\ th'[t].calls = th[t].calls + 1 /\ th[t].calls < MaxCalls /\ th'[t].fd = th[t].fd
        /\ \A u \in Threads \ {t} : th'[u] = th[u]
    BY <1>1, <1>3 DEF Call
  <2>. QED
    BY <2>1 DEF CallsStep
<1>4. ASSUME NEW t \in Threads, BeginRead(t) \/ EndRead(t) PROVE CallsStep /\ FdStep
  <2>1. /\ th'[t].calls = th[t].calls /\ th'[t].pc \notin {"test", "socket"}
        /\ th'[t].fd \in {th[t].fd, dom_sock}
        /\ \A u \in Threads \ {t} : th'[u] = th[u]
    BY <1>1, <1>4 DEF BeginRead, EndRead, Goto
  <2>. QED
    BY <2>1 DEF CallsStep
<1>5. ASSUME NEW t \in Threads, WriteGet(t) PROVE CallsStep /\ FdStep
  <2>1. CASE Goto(t, "read") \/ Goto(t, "fail")
    BY <1>2, <2>1 DEF ThreadPcs
  <2>2. CASE th' = [u \in Threads |-> [th[u] EXCEPT !.pc = "dead"]]
    BY <1>1, <2>2 DEF CallsStep
  <2>. QED
    BY <1>5, <2>1, <2>2 DEF WriteGet
<1>6. ASSUME NEW t \in Threads,
             TestSock(t) \/ Socket(t) \/ FillServer(t) \/ Connect(t) \/ CloseSock(t) \/ ResetSock(t)
      PROVE  CallsStep /\ FdStep
  <2>1. \E next \in ThreadPcs :
          Goto(t, next) /\ (next \notin {"test", "socket"} \/ th[t].pc = "test")
    BY <1>6 DEF TestSock, Socket, FillServer, Connect, ConnectOr, CloseSock, ResetSock, Moved, At,
      ThreadPcs
  <2>. QED
    BY <1>2, <2>1
<1>7. CASE Daemon \/ Rest \/ UNCHANGED vars
  <2>1. th' = th
    BY <1>7 DEF Daemon, Accept, ReadCommand, SendUuid, Answer, CloseConnection, Rest, vars, libVars
  <2>. QED
    BY <2>1 DEF CallsStep
<1>. QED
  BY <1>3, <1>4, <1>5, <1>6, <1>7 DEF Next, get_new_id

(* The calls that may have made a descriptor. *)
LEMMA AskedGrows ==
  ASSUME Typed, Typed', CallsStep
  PROVE  /\ Asked \subseteq Asked' /\ IsFiniteSet(Asked) /\ IsFiniteSet(Asked')
         /\ Cardinality(Asked) \in Nat /\ Cardinality(Asked') \in Nat
         /\ Cardinality(Asked) <= Cardinality(Asked')
         /\ Cardinality(Asked') <= Cardinality(Threads) * MaxCalls
<1>1. ASSUME NEW p \in Asked PROVE p \in Asked'
  <2>1. PICK u \in Threads, n \in 1 .. MaxCalls :
          /\ p = <<u, n>>
          /\ n < th[u].calls \/ (n = th[u].calls /\ th[u].pc \notin {"test", "socket"})
    BY DEF Asked
  <2>2. th[u].calls \in Nat /\ n \in Nat
    BY CallsAssumption DEF Typed
  <2>3. n < th'[u].calls \/ (n = th'[u].calls /\ th'[u].pc \notin {"test", "socket"})
    BY <2>1, <2>2 DEF CallsStep
  <2>. QED
    BY <2>1, <2>3 DEF Asked
<1>2. Asked \subseteq Threads \X (1 .. MaxCalls) /\ Asked' \subseteq Threads \X (1 .. MaxCalls)
  BY DEF Asked
<1>3. IsFiniteSet(Asked) /\ IsFiniteSet(Asked')
  BY <1>2, SocksRange, FS_Subset
<1>4. /\ Cardinality(Asked) <= Cardinality(Asked')
      /\ Cardinality(Asked') <= Cardinality(Threads) * MaxCalls
  BY <1>1, <1>2, <1>3, SocksRange, FS_Subset
<1>. QED
  BY <1>1, <1>3, <1>4, FS_CardinalityType

(* A call makes one descriptor, so that their number stays in Socks. *)
LEMMA CountNext ==
  ASSUME ThreadsInv, Typed', CallsStep, [Next]_vars
  PROVE  /\ made' \in Nat /\ made' <= Cardinality(Asked') /\ made' \in {0} \cup Socks
         /\ \A t \in Threads : th'[t].pc \in {"test", "socket"} => th'[t].calls # 0
         /\ UNCHANGED made \/ (made' = made + 1 /\ \E t \in Threads : Socket(t))
<1>1. Typed /\ TypeOK /\ MadeByCalls
  BY DEF ThreadsInv
<1>2. /\ made \in Nat /\ made <= Cardinality(Asked)
      /\ \A t \in Threads : th[t].calls \in Nat /\ th[t].calls <= MaxCalls /\ MaxCalls \in Nat
  BY <1>1, SocksRange, CallsAssumption DEF TypeOK, MadeByCalls, Typed
<1>3. UNCHANGED made \/ \E t \in Threads : Socket(t)
  BY DEF Next, get_new_id, Call, TestSock, FillServer, Connect, ConnectOr, WriteGet, BeginRead,
    EndRead, CloseSock, ResetSock, Daemon, Accept, ReadCommand, SendUuid, Answer, CloseConnection,
    Rest, vars, libVars
<1>4. ASSUME NEW t \in Threads, Socket(t)
      PROVE  made' = made + 1 /\ made' <= Cardinality(Asked')
  <2>1. /\ th[t].pc = "socket" /\ th'[t].pc = "fill" /\ th'[t].calls = th[t].calls
        /\ made' = made + 1
    BY <1>1, <1>4, GotoStep DEF Socket, Moved, At, ThreadPcs
  <2>2. th[t].calls \in 1 .. MaxCalls
    BY <1>1, <1>2, <2>1 DEF MadeByCalls
  <2>3. <<t, th[t].calls>> \in Asked' /\ <<t, th[t].calls>> \notin Asked
    BY <2>1, <2>2 DEF Asked
  <2>4. PICK S : S = Asked \cup {<<t, th[t].calls>>}
    OBVIOUS
  <2>5. Cardinality(S) = Cardinality(Asked) + 1
    BY <1>1, <2>3, <2>4, AskedGrows, FS_AddElement
  <2>6. S \subseteq Asked' /\ IsFiniteSet(Asked')
    BY <1>1, <2>3, <2>4, AskedGrows
  <2>7. Cardinality(S) <= Cardinality(Asked')
    BY <2>6, FS_Subset
  <2>8. Cardinality(Asked) \in Nat /\ Cardinality(Asked') \in Nat
    BY <1>1, AskedGrows
  <2>. QED
    BY <1>2, <2>1, <2>5, <2>7, <2>8
<1>5. made' \in Nat /\ made' <= Cardinality(Asked')
  <2>1. /\ Cardinality(Asked) \in Nat /\ Cardinality(Asked') \in Nat
        /\ Cardinality(Asked) <= Cardinality(Asked')
    BY <1>1, AskedGrows
  <2>2. CASE UNCHANGED made
    BY <1>2, <2>1, <2>2
  <2>3. CASE \E t \in Threads : Socket(t)
    BY <1>2, <1>4, <2>1, <2>3
  <2>. QED
    BY <1>3, <2>2, <2>3
<1>6. made' \in {0} \cup Socks
  <2>1. /\ Cardinality(Asked') \in Nat /\ Cardinality(Threads) * MaxCalls \in Nat
        /\ Cardinality(Asked') <= Cardinality(Threads) * MaxCalls
    BY <1>1, AskedGrows, SocksRange
  <2>. QED
    BY <1>5, <2>1 DEF Socks
<1>7. \A t \in Threads : th'[t].pc \in {"test", "socket"} => th'[t].calls # 0
  BY <1>1, <1>2 DEF CallsStep, MadeByCalls
<1>. QED
  BY <1>3, <1>4, <1>5, <1>6, <1>7

-------------------------------------------------------------------------------
(* A descriptor is in use: open, or waited on by a thread. *)
Held(k) == k \in fds \/ Readers(k) # {}
OpenIfHeld ==
  /\ \A k \in Socks : conn[k].open["client"] <=> Connected(k) /\ Held(k)
  /\ \A k \in Socks : Connected(k) => k <= made

(* A step that moves descriptors in or out of use, but no connected one. *)
LEMMA HeldKept ==
  ASSUME OpenIfHeld, conn' = conn, UNCHANGED made \/ made' = made + 1, made \in Nat,
         \A k \in Socks : Connected(k) => (Held(k)' <=> Held(k))
  PROVE  OpenIfHeld'
<1>1. \A k \in Socks : Connected(k)' <=> Connected(k)
  BY DEF Connected
<1>2. \A k \in Socks : conn'[k].open["client"] <=> Connected(k)' /\ Held(k)'
  BY <1>1, Zenon DEF OpenIfHeld
<1>3. \A k \in Socks : Connected(k)' => k <= made'
  <2>1. \A k \in Socks : k \in Nat
    BY SocksRange
  <2>. QED
    BY <1>1, <2>1 DEF OpenIfHeld
<1>. QED
  BY <1>2, <1>3 DEF OpenIfHeld

(* A step that changes one connection, and what holds that one only. *)
LEMMA HeldOne ==
  ASSUME OpenIfHeld, Typed, UNCHANGED made,
         NEW k \in Socks, NEW s \in Streams(Nat), conn' = [conn EXCEPT ![k] = s],
         s.open["client"] <=> s # NoStream /\ Held(k)',
         s # NoStream => k <= made,
         \A l \in Socks \ {k} : Held(l)' <=> Held(l)
  PROVE  OpenIfHeld'
<1>1. /\ conn'[k] = s
      /\ \A l \in Socks \ {k} : conn'[l] = conn[l]
  BY DEF Typed
<1>2. ASSUME NEW l \in Socks
      PROVE  /\ conn'[l].open["client"] <=> Connected(l)' /\ Held(l)'
             /\ Connected(l)' => l <= made'
  <2>1. CASE l = k
    BY <1>1, <2>1, Zenon DEF Connected
  <2>2. CASE l # k
    BY <1>1, <2>2, Zenon DEF Connected, OpenIfHeld
  <2>. QED
    BY <2>1, <2>2
<1>. QED
  BY <1>2 DEF OpenIfHeld

(* What reads and closes make of a connection that was never made, and of  *)
(* one that is open.                                                       *)
LEMMA NoStreamKept ==
  /\ ~ NoStream.open["client"]
  /\ ~ HasData(NoStream, "client") /\ ~ IsReset(NoStream, "client") /\ Broken(NoStream, "server")
  /\ Closed(NoStream, "client", FALSE) = NoStream /\ Closed(NoStream, "server", FALSE) = NoStream
  /\ [NoStream EXCEPT !.in["server"] = <<>>] = NoStream
<1>1. /\ ~ NoStream.open["client"] /\ ~ NoStream.open["server"]
      /\ NoStream.in["client"] = <<>> /\ NoStream.in["server"] = <<>>
      /\ ~ NoStream.err["client"] /\ ~ NoStream.err["server"]
      /\ "client" \in Ends /\ "server" \in Ends
  BY NewStreams DEF Ends
<1>2. ASSUME NEW e \in Ends PROVE Closed(NoStream, e, FALSE) = NoStream
  <2>1. Peer(e) \in Ends /\ Peer(e) # e
    BY DEF Ends, Peer
  <2>2. NoStream.in[e] = <<>> /\ NoStream.open[Peer(e)] = FALSE
    BY <2>1 DEF NoStream
  <2>3. [NoStream.open EXCEPT ![e] = FALSE] = NoStream.open
    BY DEF NoStream
  <2>4. [NoStream.in EXCEPT ![e] = <<>>] = NoStream.in
    BY DEF NoStream
  <2>5. [NoStream.err EXCEPT ![e] = FALSE, ![Peer(e)] = FALSE] = NoStream.err
    BY DEF NoStream
  <2>6. Closed(NoStream, e, FALSE) =
          [open |-> NoStream.open, in |-> NoStream.in, err |-> NoStream.err]
    BY <2>2, <2>3, <2>4, <2>5 DEF Closed
  <2>. QED
    BY <2>6 DEF NoStream
<1>3. [NoStream EXCEPT !.in["server"] = <<>>] = NoStream
  <2>1. [NoStream.in EXCEPT !["server"] = <<>>] = NoStream.in
    BY DEF NoStream
  <2>2. [NoStream EXCEPT !.in = NoStream.in] = NoStream
    BY DEF NoStream
  <2>. QED
    BY <2>1, <2>2
<1>. QED
  BY <1>1, <1>2, <1>3 DEF HasData, IsReset, Broken, Peer

(* The application's end of a connection is open as long as it is held. *)
LEMMA OpenNext == ThreadsInv /\ [Next]_vars => OpenIfHeld'
<1>. SUFFICES ASSUME ThreadsInv, [Next]_vars PROVE OpenIfHeld'
  OBVIOUS
<1>1. /\ Typed /\ TypeOK /\ OpenIfHeld
      /\ conn \in [Socks -> Streams(Nat)] /\ made \in Nat
      /\ th \in [Threads -> [pc : ThreadPcs, calls : Nat, fd : Nat, ids : Seq(Nat)]]
      /\ \A k \in fds : k \in Nat /\ k <= made
      /\ fds \subseteq Socks
  BY SocksRange DEF ThreadsInv, Typed, TypeOK, MadeByCalls, OpenIfHeld, Held, Socks
<1>2. ASSUME NEW s \in Streams(Nat), s.open["client"] PROVE s # NoStream
  BY <1>2, NoStreamKept
<1>3. ASSUME NEW t \in Threads, NEW next \in ThreadPcs \ {"reading"}, Goto(t, next),
             ~ At(t, "reading")
      PROVE  \A k \in Socks : Readers(k)' = Readers(k)
  <2>1. \A u \in Threads : /\ th'[u].fd = th[u].fd
                           /\ th'[u].pc = "reading" <=> th[u].pc = "reading"
    BY <1>1, <1>3, GotoStep DEF At
  <2>. QED
    BY <2>1 DEF Readers
<1>4. ASSUME NEW t \in Threads, Call(t) PROVE OpenIfHeld'
  <2>1. /\ \A u \in Threads : /\ th'[u].fd = th[u].fd
                              /\ th'[u].pc = "reading" <=> th[u].pc = "reading"
        /\ UNCHANGED <<made, fds, conn>>
    BY <1>1, <1>4 DEF Call, At
  <2>2. \A k \in Socks : Held(k)' <=> Held(k)
    BY <2>1 DEF Held, Readers
  <2>. QED
    BY <1>1, <2>1, <2>2, HeldKept
<1>5. ASSUME NEW t \in Threads, TestSock(t) \/ FillServer(t) \/ ResetSock(t) PROVE OpenIfHeld'
  <2>1. UNCHANGED <<made, fds, conn>> /\ \A k \in Socks : Readers(k)' = Readers(k)
    BY <1>3, <1>5 DEF TestSock, FillServer, ResetSock, Moved, At, ThreadPcs
  <2>. QED
    BY <1>1, <2>1, HeldKept DEF Held
<1>6. ASSUME NEW t \in Threads, Socket(t) PROVE OpenIfHeld'
  <2>1. /\ made' = made + 1 /\ fds' = fds \cup {made + 1} /\ conn' = conn
        /\ \A k \in Socks : Readers(k)' = Readers(k)
    BY <1>3, <1>6 DEF Socket, Moved, At, ThreadPcs
  <2>2. \A k \in Socks : Connected(k) => k # made + 1
    BY <1>1, SocksRange DEF OpenIfHeld
  <2>. QED
    BY <1>1, <2>1, <2>2, HeldKept DEF Held
<1>7. ASSUME NEW t \in Threads, Connect(t) PROVE OpenIfHeld'
  <2>1. CASE server /\ dom_sock \in fds /\ ~ Connected(dom_sock)
    <3>1. /\ conn' = [conn EXCEPT ![dom_sock] = NewStream] /\ UNCHANGED <<made, fds>>
          /\ \A k \in Socks : Readers(k)' = Readers(k)
      BY <1>3, <1>7, <2>1 DEF Connect, ConnectOr, At, ThreadPcs
    <3>2. NewStream \in Streams(Nat) /\ NewStream.open["client"] /\ NewStream # NoStream
      BY <1>2, NewStreams DEF Ends
    <3>. QED
      BY <1>1, <2>1, <3>1, <3>2, HeldOne DEF Held
  <2>2. CASE ~ (server /\ dom_sock \in fds /\ ~ Connected(dom_sock))
    <3>1. UNCHANGED <<made, fds, conn>> /\ \A k \in Socks : Readers(k)' = Readers(k)
      BY <1>3, <1>7, <2>2 DEF Connect, ConnectOr, At, ThreadPcs
    <3>. QED
      BY <1>1, <3>1, HeldKept DEF Held
  <2>. QED
    BY <2>1, <2>2
<1>8. ASSUME NEW t \in Threads, WriteGet(t) PROVE OpenIfHeld'
  <2>1. CASE Usable /\ conn' = [conn EXCEPT ![dom_sock] = Written(conn[dom_sock], "client", GET)]
             /\ Goto(t, "read") /\ UNCHANGED <<made, fds>>
    <3>1. \A k \in Socks : Readers(k)' = Readers(k)
      BY <1>3, <1>8, <2>1 DEF WriteGet, At, ThreadPcs
    <3>2. PICK k \in Socks : k = dom_sock /\ k \in fds /\ conn[k].open["client"]
      BY <1>1, <2>1 DEF Usable, OpenIfHeld, Held
    <3>3. PICK s \in Streams(Nat) : s = Written(conn[k], "client", GET) /\ s.open["client"]
      BY <1>1, <3>2, ClientWritten DEF GET
    <3>4. s # NoStream /\ Held(k)' /\ k <= made
      BY <1>1, <1>2, <2>1, <3>2, <3>3 DEF Held
    <3>. QED
      BY <1>1, <2>1, <3>1, <3>2, <3>3, <3>4, HeldOne DEF Held
  <2>2. CASE Goto(t, "fail") /\ UNCHANGED <<made, fds, conn>>
    <3>1. \A k \in Socks : Readers(k)' = Readers(k)
      BY <1>3, <1>8, <2>2 DEF WriteGet, At, ThreadPcs
    <3>. QED
      BY <1>1, <2>2, <3>1, HeldKept DEF Held
  <2>3. CASE /\ th' = [u \in Threads |-> [th[u] EXCEPT !.pc = "dead"]]
             /\ fds' = {} /\ made' = made
             /\ conn' = [k \in Socks |-> Closed(conn[k], "client", FALSE)]
    <3>1. \A k \in Socks : ~ Held(k)'
      BY <1>1, <2>3 DEF Held, Readers
    <3>2. ASSUME NEW k \in Socks
          PROVE  ~ conn'[k].open["client"] /\ (conn[k] = NoStream => conn'[k] = NoStream)
      <4>1. conn[k] \in Streams(Nat) /\ conn'[k] = Closed(conn[k], "client", FALSE)
        BY <1>1, <2>3
      <4>. QED
        BY <4>1, ClientCloses, NoStreamKept
    <3>. QED
      BY <1>1, <2>3, <3>1, <3>2 DEF OpenIfHeld, Connected
  <2>. QED
    BY <1>8, <2>1, <2>2, <2>3 DEF WriteGet
<1>9. ASSUME NEW t \in Threads, BeginRead(t) PROVE OpenIfHeld'
  <2>1. PICK next \in {"reading", "fail"} :
          /\ th' = [th EXCEPT ![t] = [th[t] EXCEPT !.pc = next, !.fd = dom_sock]]
          /\ next = "reading" => dom_sock \in fds
          /\ UNCHANGED <<made, fds, conn>> /\ th[t].pc = "read"
    BY <1>9 DEF BeginRead, Usable, At
  <2>2. /\ th'[t].pc = next /\ th'[t].fd = dom_sock
        /\ \A u \in Threads \ {t} : th'[u] = th[u]
    BY <1>1, <2>1
  <2>3. \A k \in Socks \ {dom_sock} : Readers(k)' = Readers(k)
    BY <2>1, <2>2 DEF Readers
  <2>4. dom_sock \in fds \/ \A k \in Socks : Readers(k)' = Readers(k)
    BY <2>1, <2>2 DEF Readers
  <2>5. \A k \in Socks : Held(k)' <=> Held(k)
    BY <2>1, <2>3, <2>4 DEF Held
  <2>. QED
    BY <1>1, <2>1, <2>5, HeldKept
<1>10. ASSUME NEW t \in Threads, EndRead(t) PROVE OpenIfHeld'
  <2>1. PICK k \in Socks : k = th[t].fd /\ th[t].pc = "reading"
    BY <1>1, <1>10 DEF EndRead, Typed, At
  <2>2. PICK s \in Streams(Nat) :
          /\ conn' = [conn EXCEPT ![k] = Left(s, t)]
          /\ s.open = conn[k].open
          /\ conn[k] = NoStream => s = NoStream
    <3>1. conn[k] \in Streams(Nat) /\ "client" \in Ends
      BY <1>1 DEF Ends
    <3>2. CASE /\ HasData(conn[k], "client")
               /\ conn' = [conn EXCEPT ![k] = Left(Consumed(conn[k], "client"), t)]
      BY <3>1, <3>2, ConsumedParts, NoStreamKept
    <3>3. CASE conn' = [conn EXCEPT ![k] = Left(conn[k], t)]
      BY <3>1, <3>3
    <3>4. CASE /\ IsReset(conn[k], "client")
               /\ conn' = [conn EXCEPT ![k] = Left(ResetSeen(conn[k], "client"), t)]
      BY <3>1, <3>4, ResetSeenParts, NoStreamKept
    <3>. QED
      BY <1>10, <2>1, <3>2, <3>3, <3>4 DEF EndRead
  <2>3. /\ th'[t].pc # "reading" /\ UNCHANGED <<made, fds>>
        /\ \A u \in Threads \ {t} : th'[u] = th[u]
    BY <1>1, <1>10 DEF EndRead, Goto
  <2>4. /\ \A l \in Socks \ {k} : Readers(l)' = Readers(l)
        /\ Readers(k)' = Readers(k) \ {t} /\ t \in Readers(k)
    BY <2>1, <2>3 DEF Readers
  <2>5. \A l \in Socks \ {k} : Held(l)' <=> Held(l)
    BY <2>3, <2>4 DEF Held
  <2>6. Held(k)' <=> k \in fds \/ Readers(k) # {t}
    BY <2>3, <2>4 DEF Held
  <2>7. /\ conn[k].open["client"] <=> conn[k] # NoStream
        /\ conn[k] # NoStream => k <= made
    BY <1>1, <2>4, Zenon DEF OpenIfHeld, Held, Connected
  <2>8. CASE k \in fds \/ Readers(k) # {t}
    <3>1. Left(s, t) = s
      BY <2>1, <2>8 DEF Left
    <3>2. s.open["client"] <=> s # NoStream
      BY <1>2, <2>2, <2>7, NoStreamKept
    <3>3. s # NoStream => k <= made
      BY <2>2, <2>7, <3>2
    <3>. QED
      BY <1>1, <2>2, <2>3, <2>5, <2>6, <2>8, <3>1, <3>2, <3>3, HeldOne
  <2>9. CASE ~ (k \in fds \/ Readers(k) # {t})
    <3>1. Left(s, t) = Closed(s, "client", FALSE)
      BY <2>1, <2>9 DEF Left
    <3>2. PICK c \in Streams(Nat) : c = Closed(s, "client", FALSE) /\ ~ c.open["client"]
      BY ClientCloses
    <3>3. c # NoStream => k <= made
      BY <2>2, <2>7, <3>2, NoStreamKept
    <3>. QED
      BY <1>1, <2>2, <2>3, <2>5, <2>6, <2>9, <3>1, <3>2, <3>3, HeldOne
  <2>. QED
    BY <2>8, <2>9
<1>11. ASSUME NEW t \in Threads, CloseSock(t) PROVE OpenIfHeld'
  <2>1. /\ fds' = fds \ {dom_sock} /\ made' = made
        /\ \A k \in Socks : Readers(k)' = Readers(k)
    BY <1>3, <1>11 DEF CloseSock, Moved, At, ThreadPcs
  <2>2. \A k \in Socks \ {dom_sock} : Held(k)' <=> Held(k)
    BY <2>1 DEF Held
  <2>3. CASE Usable /\ Readers(dom_sock) = {}
    <3>1. PICK k \in Socks : k = dom_sock /\ k <= made
      BY <1>1, <2>3 DEF Usable
    <3>2. PICK c \in Streams(Nat) : c = Closed(conn[k], "client", FALSE) /\ ~ c.open["client"]
      BY <1>1, <3>1, ClientCloses
    <3>3. conn' = [conn EXCEPT ![k] = c]
      BY <1>11, <2>3, <3>1, <3>2 DEF CloseSock
    <3>4. ~ Held(k)'
      BY <2>1, <2>3, <3>1 DEF Held
    <3>. QED
      BY <1>1, <2>1, <2>2, <3>1, <3>2, <3>3, <3>4, HeldOne
  <2>4. CASE ~ (Usable /\ Readers(dom_sock) = {})
    <3>1. conn' = conn
      BY <1>11, <2>4 DEF CloseSock
    <3>2. \A k \in Socks : Connected(k) => (Held(k)' <=> Held(k))
      BY <2>1, <2>2, <2>4 DEF Held, Usable
    <3>. QED
      BY <1>1, <2>1, <3>1, <3>2, HeldKept
  <2>. QED
    BY <2>3, <2>4
<1>12. ASSUME UNCHANGED <<th, made, fds>>, NEW k \in Socks, NEW s \in Streams(Nat),
              conn' = [conn EXCEPT ![k] = s], s.open["client"] = conn[k].open["client"],
              conn[k] = NoStream => s = NoStream
       PROVE  OpenIfHeld'
  <2>1. \A l \in Socks : Held(l)' <=> Held(l)
    BY <1>12 DEF Held, Readers
  <2>2. s.open["client"] <=> s # NoStream /\ Held(k)'
    BY <1>1, <1>2, <1>12, <2>1 DEF OpenIfHeld, Connected
  <2>3. s # NoStream => k <= made
    BY <1>1, <1>12 DEF OpenIfHeld, Connected
  <2>. QED
    BY <1>1, <1>12, <2>1, <2>2, <2>3, HeldOne
<1>13. CASE UNCHANGED <<th, made, fds, conn>>
  <2>1. \A l \in Socks : Held(l)' <=> Held(l)
    BY <1>13 DEF Held, Readers
  <2>. QED
    BY <1>1, <1>13, <2>1, HeldKept
<1>14. ASSUME srv.pc # "accept" PROVE srv.conn \in Socks /\ conn[srv.conn] \in Streams(Nat)
  BY <1>1, <1>14 DEF Typed
<1>15. CASE ReadCommand
  <2>1. /\ srv.pc # "accept" /\ UNCHANGED <<th, made, fds>>
        /\ conn' = [conn EXCEPT ![srv.conn] = [conn[srv.conn] EXCEPT !.in["server"] = <<>>]]
    BY <1>15 DEF ReadCommand, libVars
  <2>2. PICK k \in Socks : k = srv.conn
    BY <1>14, <2>1
  <2>3. PICK s \in Streams(Nat) :
          s = [conn[k] EXCEPT !.in["server"] = <<>>] /\ s.open = conn[k].open
    <3>1. conn[k] \in Streams(Nat) /\ conn[k].in \in [Ends -> Seq(Nat)] /\ <<>> \in Seq(Nat)
      BY <1>1 DEF Streams
    <3>2. [conn[k].in EXCEPT !["server"] = <<>>] \in [Ends -> Seq(Nat)]
      BY <3>1
    <3>3. [conn[k] EXCEPT !.in = [conn[k].in EXCEPT !["server"] = <<>>]] \in Streams(Nat)
      BY <3>1, <3>2 DEF Streams
    <3>4. [conn[k] EXCEPT !.in = [conn[k].in EXCEPT !["server"] = <<>>]].open = conn[k].open
      BY <3>1 DEF Streams
    <3>. QED
      BY <3>3, <3>4
  <2>4. conn[k] = NoStream => s = NoStream
    BY <2>3, NoStreamKept
  <2>. QED
    BY <1>12, <2>1, <2>2, <2>3, <2>4
<1>16. CASE SendUuid
  <2>1. /\ srv.pc # "accept" /\ UNCHANGED <<th, made, fds>>
        /\ conn' = IF Broken(conn[srv.conn], "server") THEN conn
                   ELSE [conn EXCEPT ![srv.conn] = Written(conn[srv.conn], "server", clock + 1)]
    BY <1>16 DEF SendUuid, Answer, libVars, Served
  <2>2. CASE Broken(conn[srv.conn], "server")
    BY <1>13, <2>1, <2>2
  <2>3. CASE ~ Broken(conn[srv.conn], "server")
    <3>1. PICK k \in Socks : k = srv.conn /\ conn[k] \in Streams(Nat) /\ clock + 1 \in Nat
      BY <1>1, <1>14, <2>1 DEF Typed
    <3>2. PICK s \in Streams(Nat) :
            s = Written(conn[k], "server", clock + 1) /\ s.open = conn[k].open
      BY <3>1, ServerWritten
    <3>. QED
      BY <1>12, <2>1, <2>3, <3>1, <3>2, NoStreamKept
  <2>. QED
    BY <2>2, <2>3
<1>17. CASE CloseConnection
  <2>1. /\ srv.pc # "accept" /\ UNCHANGED <<th, made, fds>>
        /\ conn' = [conn EXCEPT ![srv.conn] = Closed(conn[srv.conn], "server", FALSE)]
    BY <1>17 DEF CloseConnection, libVars
  <2>2. PICK k \in Socks : k = srv.conn /\ conn[k] \in Streams(Nat)
    BY <1>14, <2>1
  <2>3. PICK s \in Streams(Nat) :
          s = Closed(conn[k], "server", FALSE) /\ s.open["client"] = conn[k].open["client"]
    BY <2>2, ServerCloses
  <2>. QED
    BY <1>12, <2>1, <2>2, <2>3, NoStreamKept
<1>18. CASE Accept \/ Rest \/ UNCHANGED vars
  BY <1>13, <1>18 DEF Accept, Rest, vars, libVars
<1>. QED
  BY <1>4, <1>5, <1>6, <1>7, <1>8, <1>9, <1>10, <1>11, <1>15, <1>16, <1>17, <1>18
  DEF Next, Daemon, get_new_id

(* The variables that need no more than their own types. *)
LEMMA RangesNext ==
  ASSUME ThreadsInv, Typed', made' \in Nat, [Next]_vars,
         UNCHANGED made \/ (made' = made + 1 /\ \E t \in Threads : Socket(t)),
         CallsStep, \A t \in Threads : th'[t].fd \in {th[t].fd, dom_sock}
  PROVE  /\ dom_sock' \in 0 .. made' /\ fds' \subseteq 1 .. made' /\ server' \in BOOLEAN
         /\ Range(backlog') \subseteq Socks /\ srv'.conn \in Socks \cup {NoSock}
         /\ \A t \in Threads : /\ th'[t].pc \in ThreadPcs
                               /\ th'[t].calls \in 0 .. MaxCalls
                               /\ th'[t].fd \in 0 .. made'
<1>1. /\ made \in Nat /\ dom_sock \in Nat /\ dom_sock <= made /\ made <= made'
      /\ \A k \in fds : k \in 1 .. made
      /\ \A t \in Threads : /\ th[t].fd \in Nat /\ th[t].fd <= made
                            /\ th[t].calls \in Nat /\ th[t].calls <= MaxCalls
      /\ server \in BOOLEAN
  BY CallsAssumption, SocksRange DEF ThreadsInv, TypeOK
<1>2. server' \in BOOLEAN
  <2>1. server' = server \/ server' = TRUE
    BY DEF Next, get_new_id, Call, TestSock, Socket, FillServer, Connect, ConnectOr, WriteGet,
      BeginRead, EndRead, CloseSock, ResetSock, Daemon, Accept, ReadCommand, SendUuid, Answer,
      CloseConnection, Rest, vars, libVars
  <2>. QED
    BY <1>1, <2>1, Zenon
<1>3. dom_sock' \in {dom_sock, NoSock, made'} /\ fds' \subseteq fds \cup {made'}
  BY DEF Next, get_new_id, Call, TestSock, Socket, FillServer, Connect, ConnectOr, WriteGet,
    BeginRead, EndRead, CloseSock, ResetSock, Daemon, Accept, ReadCommand, SendUuid, Answer,
    CloseConnection, Rest, vars, libVars
<1>4. fds' \subseteq fds \/ made' = made + 1
  BY DEF Next, get_new_id, Call, TestSock, Socket, FillServer, Connect, ConnectOr, WriteGet,
    BeginRead, EndRead, CloseSock, ResetSock, Daemon, Accept, ReadCommand, SendUuid, Answer,
    CloseConnection, Rest, vars, libVars
<1>5. dom_sock' \in 0 .. made'
  BY <1>1, <1>3 DEF NoSock
<1>6. fds' \subseteq 1 .. made'
  BY <1>1, <1>3, <1>4
<1>7. Range(backlog') \subseteq Socks /\ srv'.conn \in Socks \cup {NoSock}
  BY RangeOfSeq DEF Typed
<1>8. ASSUME NEW t \in Threads
      PROVE  /\ th'[t].pc \in ThreadPcs
             /\ th'[t].calls \in 0 .. MaxCalls
             /\ th'[t].fd \in 0 .. made'
  <2>1. th'[t].pc \in ThreadPcs
    BY DEF Typed
  <2>2. th'[t].calls \in 0 .. MaxCalls
    BY <1>1, CallsAssumption DEF CallsStep
  <2>3. th'[t].fd \in 0 .. made'
    BY <1>1
  <2>. QED
    BY <2>1, <2>2, <2>3
<1>. QED
  BY <1>2, <1>5, <1>6, <1>7, <1>8

(* All of it together. *)
LEMMA StepInv == ThreadsInv /\ [Next]_vars => ThreadsInv'
<1>. SUFFICES ASSUME ThreadsInv, [Next]_vars PROVE ThreadsInv'
  OBVIOUS
<1>1. Typed' /\ AnswerStep /\ CallsStep /\ SockIsHeld' /\ OpenIfHeld'
  BY TypedNext, CallsNext, HeldNext, OpenNext
<1>2. AnswersDiffer' /\ NotSharedByThreads' /\ HadInRange'
  BY <1>1, AnswersNext
<1>3. /\ made' \in Nat /\ made' <= Cardinality(Asked') /\ made' \in {0} \cup Socks
      /\ \A t \in Threads : th'[t].pc \in {"test", "socket"} => th'[t].calls # 0
      /\ UNCHANGED made \/ (made' = made + 1 /\ \E t \in Threads : Socket(t))
  BY <1>1, CountNext
<1>4. MadeByCalls'
  BY <1>1, <1>3 DEF MadeByCalls, OpenIfHeld
<1>5. TypeOK'
  <2>1. /\ dom_sock' \in 0 .. made' /\ fds' \subseteq 1 .. made' /\ server' \in BOOLEAN
        /\ Range(backlog') \subseteq Socks /\ srv'.conn \in Socks \cup {NoSock}
        /\ \A t \in Threads : /\ th'[t].pc \in ThreadPcs
                              /\ th'[t].calls \in 0 .. MaxCalls
                              /\ th'[t].fd \in 0 .. made'
    BY <1>1, <1>3, CallsNext, RangesNext
  <2>. QED
    BY <1>1, <1>2, <1>3, <2>1, Zenon DEF TypeOK, OpenIfHeld, Held, HadInRange
<1>. QED
  BY <1>1, <1>2, <1>4, <1>5 DEF ThreadsInv

(* The inductive invariant holds in every reachable state. *)
THEOREM Invariance == Spec => []ThreadsInv
  BY InitInv, StepInv, PTL DEF Spec

(* Types; a call makes one socket at most, and the application's end of a  *)
(* connection is open exactly while its descriptor is, or a thread waits   *)
(* in read() on it: whatever the threads do to dom_sock meanwhile.         *)
THEOREM TypeCorrect == Spec => []TypeOK
  BY Invariance, PTL DEF ThreadsInv

(* Two threads of one application that race on dom_sock are never given    *)
(* the same identifier.                                                    *)
THEOREM NotShared == Spec => []NotSharedByThreads
  BY Invariance, PTL DEF ThreadsInv

(* When no thread is in get_new_id, dom_sock is -1 again.                  *)
THEOREM NoSocketLeft == Spec => []RaceLeavesNoSocket
<1>1. ThreadsInv => RaceLeavesNoSocket
  BY DEF ThreadsInv, SockIsHeld, RaceLeavesNoSocket
<1>. QED
  BY <1>1, Invariance, PTL
================================================================================
