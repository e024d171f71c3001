----------------------------- MODULE DaemonLifecycle -----------------------------
(***************************************************************************)
(* The life of the processes of one of the two daemons, from the program's *)
(* start to its end: daemonize, already_running, the signal set-up and the *)
(* signal thread (identifier-service/src/clacksidd.c; clacksd/src/clacksd.c *)
(* has the same four functions), then the socket in the file system that   *)
(* all processes of the program compete for: listen_on_dom_socket of       *)
(* clacksidd, and start_transport of clacksd, which runs in a thread of    *)
(* its own.  What a daemon does with its socket once it has it is the      *)
(* business of modules IdService and TraceTransport.                       *)
(***************************************************************************)
EXTENDS Naturals, FiniteSets

CONSTANTS
  Daemons,              \* the processes, each of them started once at most
  Programs,             \* which of the two daemons it may be
  Overlaps,             \* whether a daemon may be started while another one is up
  MaxOverlapping,       \* bound: processes started, when they may overlap
  MaxSignals,           \* bound: signals sent
  NoOne                 \* no process

ASSUME ProgramsAssumption == Programs \subseteq {"clacksidd", "clacksd"}
ASSUME OverlapAssumption == Overlaps \subseteq BOOLEAN
ASSUME NoOneAssumption == NoOne \notin Daemons
ASSUME SignalsAssumption == MaxSignals \in Nat

VARIABLES
  program,              \* the daemon it is, the same for ever
  overlap,              \* daemons may be up together, or else come one by one
  pc,                   \* where the thread that is to listen is
  pending,              \* signals blocked and not yet taken by the signal thread
  dir,                  \* CL_DOM_DIR exists
  path,                 \* whose socket the file in CL_DOM_DIR is, or was
  pid_file,             \* whose process id LOCKFILE holds
  sent,                 \* signals sent so far
  failures              \* history: starts in a row, of those that got to bind(), that
                        \* failed there on a file at the path and ran to their end

vars == <<program, overlap, pc, pending, dir, path, pid_file, sent, failures>>

Signals == {"HUP", "TERM"}

(* clacksidd listens in its main thread, clacksd in another one. *)
ListenerIsMain == program = "clacksidd"

Init ==
  /\ program \in Programs
  /\ overlap \in Overlaps
  /\ pc = [d \in Daemons |-> "off"]
  /\ pending = [d \in Daemons |-> {}]
  /\ dir \in BOOLEAN
  /\ path = NoOne
  /\ pid_file = NoOne
  /\ sent = 0
  /\ failures = 0

(* "ended": by its own doing; "killed": by a signal. *)
Gone == {"off", "ended", "killed"}
Threaded == {"create_transport", "check_dom_dir", "bind", "listen", "serve", "unlink", "asleep"}
StartingUp == {"daemonize", "already_running", "restore_hup", "block", "create_thread"}

Goto(d, here, next) == pc[d] = here /\ pc' = [pc EXCEPT ![d] = next]

fixed == <<program, overlap>>
files == <<dir, path, pid_file>>
Step(d, here, next) == Goto(d, here, next) /\ UNCHANGED <<pending, files, sent, failures, fixed>>

(* The process is no more, and no signal can reach it. *)
Leaves(d, end) ==
  /\ pc' = [pc EXCEPT ![d] = end]
  /\ pending' = [pending EXCEPT ![d] = {}]

Killed(d) ==
  /\ Leaves(d, "killed")
  /\ failures' = IF pc[d] = "unlink" THEN 0 ELSE failures

-------------------------------------------------------------------------------
(* main(), up to the thread that takes the signals. *)
Start(d) ==
  /\ IF overlap THEN Cardinality({e \in Daemons : pc[e] # "off"}) < MaxOverlapping
                ELSE \A e \in Daemons : pc[e] \in Gone
  /\ Step(d, "off", "daemonize")

(* Two forks, of which the last child goes on; SIGHUP is ignored from here. *)
Daemonize(d) == Step(d, "daemonize", "already_running")

\* already_running with the process id that main() had before the forks.
AlreadyRunning_ParentPid(d) ==
  /\ Goto(d, "already_running", "restore_hup")
  /\ pid_file' = "parent"
  /\ UNCHANGED <<pending, dir, path, sent, failures, fixed>>

(* The file is not locked and the result is always 0: whoever else is      *)
(* running, the process goes on, its id now being the one in the file.     *)
AlreadyRunning(d) ==
  /\ Goto(d, "already_running", "restore_hup")
  /\ pid_file' = d
  /\ UNCHANGED <<pending, dir, path, sent, failures, fixed>>

(* err_quit() or exit(1): a call fails in one of the two functions, or in  *)
(* the signal set-up up to the creation of the signal thread.              *)
GivesUp(d) ==
  /\ pc[d] \in StartingUp
  /\ Leaves(d, "ended")
  /\ UNCHANGED <<files, sent, failures, fixed>>

RestoreHup(d) == Step(d, "restore_hup", "block")

BlockSignals(d) == Step(d, "block", "create_thread")

(* From here there is a thread that takes the signals. *)
CreateThread(d) ==
  Step(d, "create_thread", IF ListenerIsMain THEN "check_dom_dir" ELSE "create_transport")

(* clacksd goes on to create the thread that is to listen. *)
CreateTransport(d) == Step(d, "create_transport", "check_dom_dir")

(* It cannot be created: main says so and sleeps on without a listener. *)
TransportFails(d) == Step(d, "create_transport", "asleep")

-------------------------------------------------------------------------------
(* The listener. *)
(* A missing directory is made.  The -1 that says it could not be made is  *)
(* taken for success by the caller.                                        *)
CheckDomDir(d) ==
  /\ Goto(d, "check_dom_dir", "bind")
  /\ dir' \in {dir, TRUE}
  /\ UNCHANGED <<pending, path, pid_file, sent, failures, fixed>>

(* main exits or, in clacksd, sleeps on without its transport thread. *)
LeaveListener(d, here) ==
  /\ Goto(d, here, IF ListenerIsMain THEN "ended" ELSE "asleep")
  /\ pending' = IF ListenerIsMain THEN [pending EXCEPT ![d] = {}] ELSE pending
  /\ UNCHANGED <<dir, pid_file, sent, failures, fixed>>

(* socket() fails: the listener returns before there is anything to close  *)
(* or to unlink; a leftover file stays.                                    *)
SocketFails(d) == LeaveListener(d, "bind") /\ UNCHANGED path

Bind(d) ==
  /\ dir /\ path = NoOne
  /\ Goto(d, "bind", IF ListenerIsMain THEN "listen" ELSE "serve")
  /\ path' = d
  /\ failures' = 0
  /\ UNCHANGED <<pending, dir, pid_file, sent, fixed>>

\* A listener that does not look at what bind() returned.
BindFails_Ignored(d) == dir /\ path # NoOne /\ Step(d, "bind", "serve")

(* For want of the directory, because of a file at the path, be it one     *)
(* that was left behind, or for a reason outside the model.                *)
BindFails(d) ==
  /\ Goto(d, "bind", "unlink")
  /\ failures' = IF path # NoOne THEN failures + 1 ELSE failures
  /\ UNCHANGED <<pending, dir, path, pid_file, sent, fixed>>

(* The stream socket of clacksidd takes one call more. *)
Listen(d) == Step(d, "listen", "serve")

ListenFails(d) == Step(d, "listen", "unlink")

(* clacksidd leaves its loop when accept() fails; clacksd never does. *)
AcceptFails(d) ==
  /\ ListenerIsMain
  /\ Step(d, "serve", "unlink")

\* An error path that closes the socket and leaves the file.
Unlink_KeepFile(d) == LeaveListener(d, "unlink") /\ UNCHANGED path

\* An error path that tries again.
Unlink_Retry(d) ==
  /\ Goto(d, "unlink", "bind")
  /\ path' = NoOne
  /\ UNCHANGED <<pending, dir, pid_file, sent, failures, fixed>>

(* The error path, after close(): whatever is at the path goes. *)
Unlink(d) == LeaveListener(d, "unlink") /\ path' = NoOne

-------------------------------------------------------------------------------
Ignored(d, s) == s = "HUP" /\ pc[d] \in {"already_running", "restore_hup"}
Blocked(d) == pc[d] \in {"create_thread"} \cup Threaded

(* kill(2), from outside: held back, thrown away, or deadly. *)
Signal(d, s) ==
  /\ sent < MaxSignals
  /\ sent' = sent + 1
  /\ pc[d] \notin Gone
  /\ IF Blocked(d)
       THEN /\ pending' = [pending EXCEPT ![d] = @ \cup {s}]
            /\ UNCHANGED <<pc, failures>>
       ELSE IF Ignored(d, s) THEN UNCHANGED <<pc, pending, failures>>
       ELSE Killed(d)
  /\ UNCHANGED <<files, fixed>>

\* A signal thread that knows SIGHUP only.
SigHandler_NoTerm(d) ==
  /\ pc[d] \in Threaded
  /\ \E s \in pending[d] : pending' = [pending EXCEPT ![d] = @ \ {s}]
  /\ UNCHANGED <<pc, files, sent, failures, fixed>>

(* The signal thread.  reread() is empty.  exit() ends all threads where   *)
(* they are and leaves the socket's file.                                  *)
SigHandler(d) ==
  /\ pc[d] \in Threaded
  /\ \/ /\ "HUP" \in pending[d]
        /\ pending' = [pending EXCEPT ![d] = @ \ {"HUP"}]
        /\ UNCHANGED <<pc, failures>>
     \/ /\ "TERM" \in pending[d]
        /\ Killed(d)
  /\ UNCHANGED <<files, sent, fixed>>

Main(d) ==
  \/ Daemonize(d) \/ AlreadyRunning(d) \/ RestoreHup(d) \/ BlockSignals(d)
  \/ CreateThread(d) \/ CreateTransport(d) \/ CheckDomDir(d) \/ Bind(d) \/ BindFails(d)
  \/ Listen(d) \/ Unlink(d)

(* Calls that fail, which nothing makes them do.  (bind() may have to, so  *)
(* its failure is among the steps of Main.)                                *)
Fault(d) ==
  GivesUp(d) \/ TransportFails(d) \/ SocketFails(d) \/ ListenFails(d) \/ AcceptFails(d)

(* Nothing to do: no daemon is left to be started, or the one there is     *)
(* listens, or sleeps.                                                     *)
Rest ==
  /\ \A d \in Daemons : pc[d] \in Gone \cup {"serve", "asleep"} /\ pending[d] = {}
  /\ UNCHANGED vars

Next ==
  \/ \E d \in Daemons :
       \/ Start(d) \/ Main(d) \/ Fault(d) \/ SigHandler(d)
       \/ \E s \in Signals : Signal(d, s)
  \/ Rest

Spec == Init /\ [][Next]_vars

(* The threads of a process that can go on do so; nothing else has to happen. *)
Fairness == \A d \in Daemons : WF_vars(Main(d)) /\ WF_vars(SigHandler(d))

FairSpec == Spec /\ Fairness

-------------------------------------------------------------------------------
(* Types; signals are held back only where there is, or will be, a thread  *)
(* to take them.                                                           *)
TypeOK ==
  /\ program \in Programs
  /\ overlap \in Overlaps
  /\ pc \in [Daemons -> Gone \cup Threaded \cup StartingUp]
  /\ pending \in [Daemons -> SUBSET Signals]
  /\ \A d \in Daemons : pending[d] # {} => Blocked(d)
  /\ dir \in BOOLEAN
  /\ path \in Daemons \cup {NoOne}
  /\ pid_file \in Daemons \cup {NoOne}
  /\ sent \in 0 .. MaxSignals
  /\ failures \in Nat

(* A daemon that listens can be reached through its file, in whatever way  *)
(* those before it came to their ends, as long as they came one by one.    *)
ServerIsReachable == ~ overlap => \A d \in Daemons : pc[d] = "serve" => path = d

(* kill `cat LOCKFILE` reaches the daemon that listens, as long as daemons *)
(* come one by one.                                                        *)
PidFileNamesServer == ~ overlap => \A d \in Daemons : pc[d] = "serve" => pid_file = d

(* A socket file that a terminated daemon left behind costs one start, if  *)
(* daemons come one by one: the next one fails in bind() and removes it,   *)
(* the one after that listens.  Starts that do not get as far as bind()    *)
(* are not counted.                                                        *)
LeftoverCostsOneStart == ~ overlap => failures <= 1

(* Why the three hold when daemons come one by one: the process id in      *)
(* LOCKFILE is that of the process that is up as soon as it has written    *)
(* it; the file is that of the process that has bound its socket; and a    *)
(* start that found a leftover is about to remove it, or has done so, and  *)
(* no later one can find it again.                                         *)
OneIsUp == \A d, e \in Daemons : pc[d] \notin Gone /\ pc[e] \notin Gone => d = e
PidWritten == Threaded \cup {"restore_hup", "block", "create_thread"}
OwnsPid == \A d \in Daemons : pc[d] \in PidWritten => pid_file = d
OwnsPath == \A d \in Daemons : pc[d] \in {"listen", "serve"} => path = d
LeftoverRemoved == path = NoOne \/ \E d \in Daemons : pc[d] = "unlink"

OneByOne ==
  /\ OneIsUp
  /\ OwnsPid
  /\ OwnsPath
  /\ failures = 0 \/ (failures = 1 /\ LeftoverRemoved)

LifeInv == TypeOK /\ (~ overlap => OneByOne)

(* "Ensure we're the only daemon running" (clacksidd.c, clacksd.c): there  *)
(* are no two processes listening.                                         *)
OnlyOneServes == \A d, e \in Daemons : pc[d] = "serve" /\ pc[e] = "serve" => d = e

(* "got SIGTERM: exiting" (sig_handler): a SIGTERM that was held back ends *)
(* the daemon in the end, wherever it was.                                 *)
TermIsHonoured ==
  \A d \in Daemons : "TERM" \in pending[d] ~> pc[d] \in {"ended", "killed"}

(* A daemon that was started listens in the end or is gone: none hangs     *)
(* about half way, whatever call of main or of the listener fails, and     *)
(* with other daemons that take the path from it, or missing directories.  *)
(* A clacksd without its transport thread sleeps on.                       *)
StartsOrGoes ==
  \A d \in Daemons : pc[d] = "daemonize" ~>
    \/ pc[d] \in {"serve", "ended", "killed"}
    \/ program = "clacksd" /\ pc[d] = "asleep"
===============================================================================
