------------------------- MODULE DaemonLifecycle_proofs -------------------------
(***************************************************************************)
(* Theorems about the life of the daemons, for either program, any number  *)
(* of processes and any number of signals, whether they come one by one or *)
(* overlap.  The inductive invariant is LifeInv.                           *)
(***************************************************************************)
EXTENDS DaemonLifecycle, TLAPS

(* Every place a process can be in. *)
Pcs == Gone \cup Threaded \cup StartingUp

(* What a step that takes one process to another place, and touches no     *)
(* other process, has to give for the types to hold after it.              *)
LEMMA TypeStep ==
  ASSUME TypeOK, NEW d \in Daemons, NEW next \in Pcs,
         pc' = [pc EXCEPT ![d] = next],
         pending' \in [Daemons -> SUBSET Signals],
         \A e \in Daemons : e # d => pending'[e] = pending[e],
         pending'[d] # {} => next \in {"create_thread"} \cup Threaded,
         dir' \in BOOLEAN, path' \in Daemons \cup {NoOne},
         pid_file' \in Daemons \cup {NoOne}, sent' \in 0 .. MaxSignals, failures' \in Nat,
         UNCHANGED fixed
  PROVE  TypeOK'
<1>1. pc' \in [Daemons -> Pcs] /\ pc'[d] = next /\ \A e \in Daemons : e # d => pc'[e] = pc[e]
  BY DEF TypeOK, Pcs
<1>2. \A e \in Daemons : pending'[e] # {} => Blocked(e)'
  <2>. SUFFICES ASSUME NEW e \in Daemons, pending'[e] # {} PROVE Blocked(e)'
    OBVIOUS
  <2>1. CASE e = d
    BY <1>1, <2>1 DEF Blocked
  <2>2. CASE e # d
    BY <1>1, <2>2 DEF TypeOK, Blocked
  <2>. QED
    BY <2>1, <2>2
<1>. QED
  BY <1>1, <1>2, Zenon DEF TypeOK, Pcs, fixed

(* A process that holds a signal back is where a thread takes it. *)
LEMMA HeldBack ==
  ASSUME TypeOK, NEW d \in Daemons
  PROVE  /\ pending \in [Daemons -> SUBSET Signals]
         /\ pending[d] # {} => pc[d] \in {"create_thread"} \cup Threaded
  BY DEF TypeOK, Blocked

(* The types hold at the start, before any process is up. *)
LEMMA TypeInit == Init => TypeOK
  BY SignalsAssumption DEF Init, TypeOK, Gone

(* Every step keeps the types, whoever overlaps. *)
LEMMA TypeNext == TypeOK /\ [Next]_vars => TypeOK'
<1>. SUFFICES ASSUME TypeOK, [Next]_vars PROVE TypeOK'
  OBVIOUS
<1>0. /\ dir \in BOOLEAN /\ path \in Daemons \cup {NoOne}
      /\ pid_file \in Daemons \cup {NoOne} /\ sent \in 0 .. MaxSignals /\ failures \in Nat
      /\ pending \in [Daemons -> SUBSET Signals]
  BY DEF TypeOK
<1>1. ASSUME NEW d \in Daemons,
             Start(d) \/ Daemonize(d) \/ RestoreHup(d) \/ BlockSignals(d) \/ CreateThread(d)
               \/ CreateTransport(d) \/ TransportFails(d) \/ Listen(d) \/ ListenFails(d)
               \/ AcceptFails(d)
      PROVE  TypeOK'
  <2>1. PICK here \in Pcs, next \in Pcs :
          /\ Step(d, here, next)
          /\ here \in {"create_thread"} \cup Threaded => next \in Threaded
    BY <1>1 DEF Start, Daemonize, RestoreHup, BlockSignals, CreateThread, CreateTransport,
      TransportFails, Listen, ListenFails, AcceptFails, Pcs, Gone, Threaded, StartingUp
  <2>2. /\ pc[d] = here /\ pc' = [pc EXCEPT ![d] = next]
        /\ UNCHANGED <<pending, dir, path, pid_file, sent, failures, fixed>>
    BY <2>1 DEF Step, Goto, files
  <2>. QED
    BY <1>0, <2>1, <2>2, HeldBack, TypeStep
<1>2. ASSUME NEW d \in Daemons, AlreadyRunning(d) PROVE TypeOK'
  <2>1. /\ pc[d] = "already_running" /\ pc' = [pc EXCEPT ![d] = "restore_hup"]
        /\ pid_file' = d /\ UNCHANGED <<pending, dir, path, sent, failures, fixed>>
    BY <1>2 DEF AlreadyRunning, Goto
  <2>2. pending[d] = {}
    BY <2>1, HeldBack DEF Threaded
  <2>. QED
    BY <1>0, <2>1, <2>2, TypeStep DEF Pcs, StartingUp
<1>3. ASSUME NEW d \in Daemons, CheckDomDir(d) \/ Bind(d) \/ BindFails(d) PROVE TypeOK'
  <2>1. PICK next \in Threaded : pc' = [pc EXCEPT ![d] = next]
    BY <1>3 DEF CheckDomDir, Bind, BindFails, Goto, Threaded
  <2>2. /\ dir' \in BOOLEAN /\ path' \in Daemons \cup {NoOne}
        /\ UNCHANGED <<pending, pid_file, sent, fixed>>
    BY <1>0, <1>3, Zenon DEF CheckDomDir, Bind, BindFails
  <2>3. failures' \in {failures, failures + 1, 0}
    BY <1>3, Zenon DEF CheckDomDir, Bind, BindFails
  <2>4. failures' \in Nat
    BY <1>0, <2>3
  <2>. QED
    BY <1>0, <2>1, <2>2, <2>4, TypeStep DEF Pcs
<1>4. ASSUME NEW d \in Daemons, SocketFails(d) \/ Unlink(d) PROVE TypeOK'
  <2>1. PICK next \in {"ended", "asleep"} :
          /\ pc' = [pc EXCEPT ![d] = next]
          /\ pending' = IF next = "ended" THEN [pending EXCEPT ![d] = {}] ELSE pending
          /\ path' \in {path, NoOne} /\ UNCHANGED <<dir, pid_file, sent, failures, fixed>>
    BY <1>4 DEF SocketFails, Unlink, LeaveListener, Goto
  <2>2. /\ pending' \in [Daemons -> SUBSET Signals]
        /\ \A e \in Daemons : e # d => pending'[e] = pending[e]
        /\ pending'[d] # {} => next = "asleep"
    BY <1>0, <2>1
  <2>. QED
    BY <1>0, <2>1, <2>2, TypeStep DEF Pcs, Gone, Threaded
<1>5. ASSUME NEW d \in Daemons, NEW end \in {"ended", "killed"}, Leaves(d, end),
             UNCHANGED <<files, fixed>>, sent' \in 0 .. MaxSignals, failures' \in Nat
      PROVE  TypeOK'
  <2>1. /\ pc' = [pc EXCEPT ![d] = end] /\ pending' = [pending EXCEPT ![d] = {}]
        /\ UNCHANGED <<dir, path, pid_file, fixed>>
    BY <1>5, Zenon DEF Leaves, files
  <2>. QED
    BY <1>0, <1>5, <2>1, TypeStep DEF Pcs, Gone
<1>6. ASSUME NEW d \in Daemons, Killed(d), UNCHANGED <<files, fixed>>,
             sent' \in 0 .. MaxSignals
      PROVE  TypeOK'
  <2>1. Leaves(d, "killed") /\ failures' \in {0, failures}
    BY <1>6, Zenon DEF Killed
  <2>2. failures' \in Nat
    BY <1>0, <2>1
  <2>. QED
    BY <1>6, <1>5, <2>1, <2>2
<1>7. ASSUME NEW d \in Daemons, GivesUp(d) PROVE TypeOK'
  BY <1>0, <1>7, <1>5 DEF GivesUp
<1>8. ASSUME NEW d \in Daemons, NEW s \in Signals, Signal(d, s) PROVE TypeOK'
  <2>1. sent' \in 0 .. MaxSignals /\ UNCHANGED <<files, fixed>>
    BY <1>0, <1>8, SignalsAssumption DEF Signal
  <2>2. CASE Blocked(d)
    <3>1. /\ pending' = [pending EXCEPT ![d] = @ \cup {s}]
          /\ UNCHANGED <<pc, failures, dir, path, pid_file, fixed>>
      BY <1>8, <2>2 DEF Signal, files
    <3>2. \A e \in Daemons : pending'[e] # {} => Blocked(e)
      BY <1>0, <2>2, <3>1 DEF TypeOK
    <3>. QED
      BY <1>0, <2>1, <3>1, <3>2 DEF TypeOK, Blocked, fixed
  <2>3. CASE ~ Blocked(d) /\ Ignored(d, s)
    BY <1>0, <1>8, <2>1, <2>3, Zenon DEF Signal, TypeOK, Blocked, files, fixed
  <2>4. CASE ~ Blocked(d) /\ ~ Ignored(d, s)
    BY <1>6, <1>8, <2>1, <2>4 DEF Signal
  <2>. QED
    BY <2>2, <2>3, <2>4
<1>9. ASSUME NEW d \in Daemons, SigHandler(d) PROVE TypeOK'
  <2>1. sent' \in 0 .. MaxSignals /\ UNCHANGED <<files, fixed>>
    BY <1>0, <1>9 DEF SigHandler
  <2>2. CASE Killed(d)
    BY <1>6, <2>1, <2>2
  <2>3. CASE pending' = [pending EXCEPT ![d] = @ \ {"HUP"}] /\ UNCHANGED <<pc, failures>>
    <3>1. pending' \in [Daemons -> SUBSET Signals]
      BY <1>0, <2>3
    <3>2. \A e \in Daemons : pending'[e] # {} => Blocked(e)'
      BY <1>0, <2>3 DEF TypeOK, Blocked
    <3>. QED
      BY <1>0, <2>1, <2>3, <3>1, <3>2, Zenon DEF TypeOK, files, fixed
  <2>. QED
    BY <1>9, <2>2, <2>3 DEF SigHandler
<1>10. CASE Rest \/ UNCHANGED vars
  BY <1>10, Zenon DEF Rest, vars, TypeOK, Blocked
<1>. QED
  BY <1>1, <1>2, <1>3, <1>4, <1>7, <1>8, <1>9, <1>10 DEF Next, Main, Fault

-------------------------------------------------------------------------------
(* Before anything is started there is no daemon and no file. *)
LEMMA LifeInit == Init => LifeInv
<1>. SUFFICES ASSUME Init PROVE LifeInv
  OBVIOUS
<1>1. \A d \in Daemons : pc[d] = "off"
  BY DEF Init
<1>. QED
  BY <1>1, TypeInit DEF Init, LifeInv, OneByOne, OneIsUp, OwnsPid, Gone, PidWritten, Threaded, OwnsPath

(* One process moves on, no other one being up. *)
LEMMA OneMoves ==
  ASSUME TypeOK, OneByOne, NEW d \in Daemons, NEW next, pc' = [pc EXCEPT ![d] = next],
         \A e \in Daemons : e # d => pc[e] \in Gone
  PROVE  /\ OneIsUp'
         /\ pc'[d] = next
         /\ \A e \in Daemons : e # d => pc'[e] = pc[e] /\ pc'[e] \in Gone
<1>1. pc \in [Daemons -> Pcs]
  BY DEF TypeOK, Pcs
<1>2. pc'[d] = next /\ \A e \in Daemons : e # d => pc'[e] = pc[e]
  BY <1>1
<1>. QED
  BY <1>2 DEF OneByOne, OneIsUp

(* OneByOne is kept as long as daemons come one by one. *)
LEMMA OneByOneNext == ASSUME ~ overlap, TypeOK, OneByOne, [Next]_vars PROVE OneByOne'
<1>1. TypeOK /\ TypeOK' /\ NoOne \notin Daemons
  BY TypeNext, NoOneAssumption
<1>2. failures \in Nat /\ pc \in [Daemons -> Pcs]
  BY <1>1 DEF TypeOK, Pcs
<1>3. ASSUME NEW d \in Daemons, pc[d] \notin Gone
      PROVE  \A e \in Daemons : e # d => pc[e] \in Gone
  BY <1>3 DEF OneByOne, OneIsUp
<1>4. ASSUME NEW d \in Daemons, \A e \in Daemons : e # d => pc[e] \in Gone,
             NEW here \in Pcs, NEW next \in Pcs, Step(d, here, next),
             next \in PidWritten => here \in PidWritten,
             next \in {"listen", "serve"} => here = "listen", here # "unlink"
      PROVE  OneByOne'
  <2>1. /\ pc[d] = here /\ pc' = [pc EXCEPT ![d] = next]
        /\ UNCHANGED <<path, pid_file, failures>>
    BY <1>4 DEF Step, Goto, files
  <2>2. /\ OneIsUp' /\ pc'[d] = next
        /\ \A e \in Daemons : e # d => pc'[e] = pc[e] /\ pc'[e] \in Gone
    BY <1>4, <2>1, OneMoves
  <2>3. OwnsPid'
    BY <1>4, <2>1, <2>2 DEF OwnsPid, OneByOne
  <2>4. OwnsPath'
    BY <1>4, <2>1, <2>2 DEF OneByOne, OwnsPath
  <2>5. LeftoverRemoved => LeftoverRemoved'
    <3>1. ASSUME NEW e \in Daemons, pc[e] = "unlink" PROVE pc'[e] = "unlink"
      BY <1>4, <2>1, <2>2, <3>1
    <3>. QED
      BY <2>1, <3>1 DEF LeftoverRemoved
  <2>. QED
    BY <1>1, <2>1, <2>2, <2>3, <2>4, <2>5, Zenon DEF OneByOne
<1>5. ASSUME NEW d \in Daemons, Start(d) PROVE OneByOne'
  <2>1. \A e \in Daemons : pc[e] \in Gone
    BY <1>5 DEF Start
  <2>. QED
    BY <1>4, <1>5, <2>1 DEF Start, Pcs, Gone, StartingUp, Threaded, PidWritten
<1>6. ASSUME NEW d \in Daemons,
             Daemonize(d) \/ RestoreHup(d) \/ BlockSignals(d) \/ CreateThread(d)
               \/ CreateTransport(d) \/ TransportFails(d) \/ Listen(d) \/ ListenFails(d)
               \/ AcceptFails(d)
      PROVE  OneByOne'
  <2>1. PICK here \in Pcs, next \in Pcs :
          /\ Step(d, here, next)
          /\ next \in PidWritten => here \in PidWritten
          /\ next \in {"listen", "serve"} => here = "listen"
          /\ here # "unlink" /\ here \notin Gone
    BY <1>6 DEF Daemonize, RestoreHup, BlockSignals, CreateThread, CreateTransport, TransportFails,
      Listen, ListenFails, AcceptFails, Pcs, Gone, StartingUp, Threaded, PidWritten
  <2>2. pc[d] \notin Gone
    BY <2>1 DEF Step, Goto
  <2>. QED
    BY <1>3, <1>4, <2>1, <2>2
<1>7. ASSUME NEW d \in Daemons, AlreadyRunning(d) PROVE OneByOne'
  <2>1. /\ pc[d] = "already_running" /\ pc' = [pc EXCEPT ![d] = "restore_hup"]
        /\ pid_file' = d /\ UNCHANGED <<path, failures>>
    BY <1>7 DEF AlreadyRunning, Goto
  <2>2. \A e \in Daemons : e # d => pc[e] \in Gone
    BY <1>3, <2>1 DEF Gone
  <2>3. /\ OneIsUp' /\ pc'[d] = "restore_hup"
        /\ \A e \in Daemons : e # d => pc'[e] = pc[e] /\ pc'[e] \in Gone
    BY <2>1, <2>2, OneMoves
  <2>4. OwnsPid'
    BY <2>1, <2>3 DEF OwnsPid, PidWritten, Gone, Threaded
  <2>5. OwnsPath'
    BY <2>3 DEF OwnsPath, Gone
  <2>6. LeftoverRemoved => LeftoverRemoved'
    <3>1. ASSUME NEW e \in Daemons, pc[e] = "unlink" PROVE pc'[e] = "unlink"
      BY <2>1, <2>3, <3>1
    <3>. QED
      BY <2>1, <3>1 DEF LeftoverRemoved
  <2>. QED
    BY <1>1, <2>1, <2>3, <2>4, <2>5, <2>6, Zenon DEF OneByOne
<1>8. ASSUME NEW d \in Daemons, CheckDomDir(d) PROVE OneByOne'
  <2>1. /\ pc[d] = "check_dom_dir" /\ pc' = [pc EXCEPT ![d] = "bind"]
        /\ UNCHANGED <<path, pid_file, failures>>
    BY <1>8 DEF CheckDomDir, Goto
  <2>2. \A e \in Daemons : e # d => pc[e] \in Gone
    BY <1>3, <2>1 DEF Gone
  <2>3. /\ OneIsUp' /\ pc'[d] = "bind"
        /\ \A e \in Daemons : e # d => pc'[e] = pc[e] /\ pc'[e] \in Gone
    BY <2>1, <2>2, OneMoves
  <2>4. OwnsPid'
    BY <2>1, <2>3 DEF OwnsPid, OneByOne, PidWritten, Gone, Threaded
  <2>5. OwnsPath'
    BY <2>3 DEF OwnsPath, Gone
  <2>6. LeftoverRemoved => LeftoverRemoved'
    <3>1. ASSUME NEW e \in Daemons, pc[e] = "unlink" PROVE pc'[e] = "unlink"
      BY <2>1, <2>3, <3>1
    <3>. QED
      BY <2>1, <3>1 DEF LeftoverRemoved
  <2>. QED
    BY <1>1, <2>1, <2>3, <2>4, <2>5, <2>6, Zenon DEF OneByOne
<1>9. ASSUME NEW d \in Daemons, Bind(d) PROVE OneByOne'
  <2>1. PICK next \in {"listen", "serve"} :
          /\ pc[d] = "bind" /\ pc' = [pc EXCEPT ![d] = next]
          /\ path' = d /\ failures' = 0 /\ UNCHANGED pid_file
    BY <1>9 DEF Bind, Goto
  <2>2. \A e \in Daemons : e # d => pc[e] \in Gone
    BY <1>3, <2>1 DEF Gone
  <2>3. /\ OneIsUp' /\ pc'[d] = next
        /\ \A e \in Daemons : e # d => pc'[e] = pc[e] /\ pc'[e] \in Gone
    BY <2>1, <2>2, OneMoves
  <2>4. OwnsPid'
    BY <2>1, <2>3 DEF OwnsPid, OneByOne, PidWritten, Gone, Threaded
  <2>5. OwnsPath'
    BY <2>1, <2>3 DEF OwnsPath, Gone
  <2>. QED
    BY <1>1, <2>1, <2>3, <2>4, <2>5, Zenon DEF OneByOne
<1>10. ASSUME NEW d \in Daemons, BindFails(d) PROVE OneByOne'
  <2>1. /\ pc[d] = "bind" /\ pc' = [pc EXCEPT ![d] = "unlink"]
        /\ failures' = (IF path # NoOne THEN failures + 1 ELSE failures)
        /\ UNCHANGED <<path, pid_file>>
    BY <1>10 DEF BindFails, Goto
  <2>2. \A e \in Daemons : e # d => pc[e] \in Gone
    BY <1>3, <2>1 DEF Gone
  <2>3. /\ OneIsUp' /\ pc'[d] = "unlink"
        /\ \A e \in Daemons : e # d => pc'[e] = pc[e] /\ pc'[e] \in Gone
    BY <2>1, <2>2, OneMoves
  <2>4. OwnsPid'
    BY <2>1, <2>3 DEF OwnsPid, OneByOne, PidWritten, Gone, Threaded
  <2>5. OwnsPath'
    BY <2>3 DEF OwnsPath, Gone
  <2>6. LeftoverRemoved'
    BY <2>3 DEF LeftoverRemoved
  <2>7. CASE path # NoOne
    <3>1. ~ LeftoverRemoved
      BY <2>1, <2>2, <2>7 DEF LeftoverRemoved, Gone
    <3>2. failures = 0
      BY <3>1 DEF OneByOne
    <3>3. failures' = 0 \/ failures' = 1
      BY <2>1, <3>2
    <3>. QED
      BY <1>1, <2>3, <2>4, <2>5, <2>6, <3>3, Zenon DEF OneByOne
  <2>8. CASE path = NoOne
    <3>1. failures' = failures
      BY <2>1, <2>8
    <3>. QED
      BY <1>1, <2>3, <2>4, <2>5, <2>6, <3>1, Zenon DEF OneByOne
  <2>. QED
    BY <2>7, <2>8
<1>11. ASSUME NEW d \in Daemons, Unlink(d) PROVE OneByOne'
  <2>1. PICK next \in {"ended", "asleep"} :
          /\ pc[d] = "unlink" /\ pc' = [pc EXCEPT ![d] = next]
          /\ path' = NoOne /\ UNCHANGED <<pid_file, failures>>
    BY <1>11 DEF Unlink, LeaveListener, Goto
  <2>2. \A e \in Daemons : e # d => pc[e] \in Gone
    BY <1>3, <2>1 DEF Gone
  <2>3. /\ OneIsUp' /\ pc'[d] = next
        /\ \A e \in Daemons : e # d => pc'[e] = pc[e] /\ pc'[e] \in Gone
    BY <2>1, <2>2, OneMoves
  <2>4. OwnsPid'
    BY <2>1, <2>3 DEF OwnsPid, OneByOne, PidWritten, Gone, Threaded
  <2>5. OwnsPath'
    BY <2>3 DEF OwnsPath, Gone
  <2>6. LeftoverRemoved'
    BY <2>1 DEF LeftoverRemoved
  <2>. QED
    BY <1>1, <2>1, <2>3, <2>4, <2>5, <2>6, Zenon DEF OneByOne
<1>12. ASSUME NEW d \in Daemons, pc[d] \notin Gone, NEW end \in {"ended", "killed"},
              Leaves(d, end), UNCHANGED files,
              failures' = 0 \/ (failures' = failures /\ pc[d] # "unlink")
       PROVE  OneByOne'
  <2>1. pc' = [pc EXCEPT ![d] = end] /\ UNCHANGED <<path, pid_file>>
    BY <1>12 DEF Leaves, files
  <2>2. \A e \in Daemons : e # d => pc[e] \in Gone
    BY <1>3, <1>12
  <2>3. /\ OneIsUp' /\ pc'[d] = end
        /\ \A e \in Daemons : e # d => pc'[e] = pc[e] /\ pc'[e] \in Gone
    BY <2>1, <2>2, OneMoves
  <2>4. OwnsPid'
    BY <2>3 DEF OwnsPid, PidWritten, Gone, StartingUp, Threaded
  <2>5. OwnsPath'
    BY <2>3 DEF OwnsPath, Gone
  <2>6. CASE failures' = 0
    BY <1>1, <2>3, <2>4, <2>5, <2>6, Zenon DEF OneByOne
  <2>7. CASE failures' = failures /\ pc[d] # "unlink"
    <3>1. LeftoverRemoved => path = NoOne
      BY <2>2, <2>7 DEF LeftoverRemoved, Gone
    <3>. QED
      BY <1>1, <2>1, <2>3, <2>4, <2>5, <2>7, <3>1, Zenon DEF OneByOne, LeftoverRemoved
  <2>. QED
    BY <1>12, <2>6, <2>7
<1>13. ASSUME UNCHANGED <<pc, path, pid_file, failures>> PROVE OneByOne'
  BY <1>1, <1>13, Zenon DEF OneByOne, OneIsUp, OwnsPid, OwnsPath, LeftoverRemoved
<1>14. ASSUME NEW d \in Daemons, NEW s \in Signals, Signal(d, s) PROVE OneByOne'
  BY <1>12, <1>13, <1>14 DEF Signal, Killed, files
<1>15. ASSUME NEW d \in Daemons, SigHandler(d) PROVE OneByOne'
  BY <1>12, <1>13, <1>15 DEF SigHandler, Killed, files, Threaded, Gone
<1>16. ASSUME NEW d \in Daemons, GivesUp(d) PROVE OneByOne'
  BY <1>12, <1>16 DEF GivesUp, StartingUp, Gone
<1>17. ASSUME NEW d \in Daemons, SocketFails(d) PROVE OneByOne'
  <2>1. PICK next \in {"ended", "asleep"} :
          /\ pc[d] = "bind" /\ pc' = [pc EXCEPT ![d] = next]
          /\ UNCHANGED <<path, pid_file, failures>>
    BY <1>17 DEF SocketFails, LeaveListener, Goto
  <2>2. \A e \in Daemons : e # d => pc[e] \in Gone
    BY <1>3, <2>1 DEF Gone
  <2>3. /\ OneIsUp' /\ pc'[d] = next
        /\ \A e \in Daemons : e # d => pc'[e] = pc[e] /\ pc'[e] \in Gone
    BY <2>1, <2>2, OneMoves
  <2>4. OwnsPid'
    BY <2>1, <2>3 DEF OwnsPid, OneByOne, PidWritten, Gone, Threaded
  <2>5. OwnsPath'
    BY <2>3 DEF OwnsPath, Gone
  <2>6. LeftoverRemoved => LeftoverRemoved'
    <3>1. LeftoverRemoved => path = NoOne
      BY <2>1, <2>2 DEF LeftoverRemoved, Gone
    <3>. QED
      BY <2>1, <3>1 DEF LeftoverRemoved
  <2>. QED
    BY <1>1, <2>1, <2>3, <2>4, <2>5, <2>6, Zenon DEF OneByOne
<1>18. CASE Rest \/ UNCHANGED vars
  BY <1>13, <1>18 DEF Rest, vars
<1>. QED
  BY <1>5, <1>6, <1>7, <1>8, <1>9, <1>10, <1>11, <1>14, <1>15, <1>16, <1>17, <1>18
    DEF Next, Main, Fault

(* Which program it is and whether its processes overlap never change. *)
LEMMA FixedStays == [Next]_vars => UNCHANGED fixed
<1>. SUFFICES ASSUME [Next]_vars PROVE UNCHANGED fixed
  OBVIOUS
<1>1. ASSUME NEW d \in Daemons, Start(d) \/ Main(d) PROVE UNCHANGED fixed
  BY <1>1, Zenon DEF Start, Main, Daemonize, AlreadyRunning, RestoreHup, BlockSignals,
    CreateThread, CreateTransport, CheckDomDir, Bind, BindFails, Listen, Unlink,
    LeaveListener, Step
<1>2. ASSUME NEW d \in Daemons, Fault(d) PROVE UNCHANGED fixed
  BY <1>2, Zenon DEF Fault, GivesUp, TransportFails, SocketFails, ListenFails, AcceptFails,
    LeaveListener, Step
<1>3. ASSUME NEW d \in Daemons, SigHandler(d) \/ \E t \in Signals : Signal(d, t)
      PROVE  UNCHANGED fixed
  BY <1>3, Zenon DEF SigHandler, Signal
<1>4. CASE Rest \/ UNCHANGED vars
  BY <1>4, Zenon DEF Rest, vars, fixed
<1>. QED
  BY <1>1, <1>2, <1>3, <1>4, Zenon DEF Next

(* LifeInv is inductive. *)
LEMMA LifeNext == LifeInv /\ [Next]_vars => LifeInv'
<1>. SUFFICES ASSUME LifeInv, [Next]_vars PROVE LifeInv'
  OBVIOUS
<1>1. TypeOK /\ TypeOK' /\ overlap' = overlap
  BY TypeNext, FixedStays DEF LifeInv, fixed
<1>2. CASE overlap
  BY <1>1, <1>2, Zenon DEF LifeInv
<1>3. CASE ~ overlap
  <2>1. OneByOne'
    BY <1>1, <1>3, OneByOneNext DEF LifeInv
  <2>. QED
    BY <1>1, <2>1, Zenon DEF LifeInv
<1>. QED
  BY <1>2, <1>3

-------------------------------------------------------------------------------
(* The types of the daemons' life, whoever overlaps; a signal is held back *)
(* only in a process that has, or is about to have, a thread to take it.   *)
THEOREM TypeCorrect == Spec => []TypeOK
  BY TypeInit, TypeNext, PTL DEF Spec

(* The inductive invariant holds in every reachable state. *)
THEOREM Invariance == Spec => []LifeInv
  BY LifeInit, LifeNext, PTL DEF Spec

(* Of daemons that come one by one, the one that listens owns the file in  *)
(* CL_DOM_DIR, after any number of daemons that were killed at any point   *)
(* or failed in any call of their start.                                   *)
THEOREM Reachable == Spec => []ServerIsReachable
<1>1. LifeInv => ServerIsReachable
  BY DEF LifeInv, OneByOne, OwnsPath, ServerIsReachable
<1>. QED
  BY <1>1, Invariance, PTL

(* LOCKFILE names the daemon that listens, if they come one by one. *)
THEOREM PidFileRight == Spec => []PidFileNamesServer
<1>1. LifeInv => PidFileNamesServer
  BY DEF LifeInv, OneByOne, OwnsPid, PidFileNamesServer, PidWritten, Threaded
<1>. QED
  BY <1>1, Invariance, PTL

(* Of daemons that come one by one, no second start in a row fails because *)
(* of a leftover socket file.                                              *)
THEOREM LeftoverCost == Spec => []LeftoverCostsOneStart
<1>1. LifeInv => LeftoverCostsOneStart
  BY DEF LifeInv, OneByOne, LeftoverCostsOneStart
<1>. QED
  BY <1>1, Invariance, PTL
================================================================================
