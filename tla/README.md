# Clacks in TLA+

A verification development kept beside the Clacks sources.  Clacks lets the
applications of one machine trace activities: an application asks a daemon for a
fresh identifier, may tag it with an identifier it already carries through its
own protocols (the *derived* identifier), and sends trace messages under it to a
second daemon, which appends them to a file.  Paths below are relative to `src/`.

## 1. The system

| part | code | state | operations |
|---|---|---|---|
| UUID pool | `identifier-service/src/id_generator.c` | `uuid_list`, `uuid_list_hd` | `update_uuid_pool`, `next_uuid`, `check_pool` |
| identifier daemon, requests | `identifier-service/src/id_dom_socket.c` | listening socket, the one connection served, locals of the handler | accept loop, GET, TAG |
| identifier daemon, process | `identifier-service/src/clacksidd.c` | pid file, signal mask, signal thread | daemonize, fill the pool, listen, SIGTERM |
| tag table | `identifier-service/src/id_tag_manager.c` | `all_tagged_ids` | `tag_id`; `get_id` is a stub |
| hash table | `identifier-service/src/uthash.h` | buckets, counts, expansion state | find, add, doubling of the buckets |
| library, identifier client | `lib/src/clacks-api/id_client.c` | static `dom_sock`, `server` | `get_new_id`, `cl_id_tag_id` |
| library, API | `lib/src/clacks-api/clacks.c` | none | new id, tag, trace, join |
| library, trace client | `lib/src/transport-client/cl_transport_domsock_client.c` | static `dom_sock`, `server` | `send_trace_message` |
| trace daemon, process | `clacksd/src/clacksd.c` | as `clacksidd.c`, plus the transport thread | as `clacksidd.c` |
| trace daemon, transport | `clacksd/src/transport-server/cl_transport_domsock.c` | datagram socket, `rd_buf` | receive, unpack, store |
| trace storage | `clacksd/src/storage/cl_file_module.c` | `out_file`, the log file | open on demand, append a line |
| discovery | `clacksd/src/transport-server/cl_discovery*.c` | UDP socket | wait for a message (the thread is commented out in `main`) |

How they interact:

- An application talks to the identifier daemon over a stream socket, one
  connection per call.  GET: command, UUID.  TAG: command, continue, identifier,
  continue, derived identifier; nothing acknowledges the last message.  The daemon
  serves one connection at a time, others wait in the backlog of `listen()`.
- The daemon's handler draws from the UUID pool and adds to the tag table.  Both
  live in its memory and go with it; the socket file stays when it is terminated.
- Traces are datagrams, sent by path, not acknowledged.
- SIGTERM reaches a daemon's signal thread at any moment and calls `exit(0)`
  while the main thread is anywhere in its work.

What is hard here, and what makes each part correct:

- *UUID pool.*  No test before a draw; the refill trusts the head.  Correct when
  no draw is out of bounds, no identifier is handed out twice over refills and
  restarts, none is overwritten.
- *Request handling and client together.*  A loss of either side between any two
  system calls, reads of 0 bytes that pass for success, buffers that are not
  cleared, a byte stream read in pieces of fixed size, errors after which the
  client goes on with descriptor -1.  Correct when the two sides stay in step, a
  call that reports success delivers a fresh identifier, a tag is stored as it
  was sent, no descriptor is leaked and every call returns.
- *Tag table.*  First tag of a name wins; one entry per name.
- *Hash table.*  Additions double the buckets and move every entry, until doubling is
  given up.  Correct when what was added is found and chains stay bounded.
- *Daemon processes.*  Only one daemon per socket, restart after a crash, no
  signal lost in the start-up windows.
- *Traces.*  What was accepted is stored once, in the order of its sender, as a
  whole line.
- *Threads of one application.*  The static sockets are shared without a lock.
  Correct when calls return and no two threads get one identifier.
- *Discovery.*  A bad message must not cost the thread its port.

The hazards, each at its line and with the properties that cover it, are listed
in `PROJECT.json`.

## 2. The modules

| module | models | composed of |
|---|---|---|
| `FreshIds` | abstract: an identifier source never repeats itself | |
| `UuidPool` | `id_generator.c` and the order in which `main` and `send_uuid` use it | implements `FreshIds` |
| `SequenceLemmas`, `StreamLemmas` | lemmas about the ends of sequences, and about each operator of `UnixStream` | |
| `UuidPool_proofs` | theorems about `UuidPool` | |
| `UnixStream` | the kernel's stream socket pair, as operators on a record | |
| `TagStore` | `id_tag_manager.c` as operators on a sequence of entries | |
| `TagMap` | abstract: a map in which the first tag of a name stands | |
| `IdService` | `id_dom_socket.c`, `clacksidd.c`, `id_client.c`, and the calls of `clacks.c` that use it | `UnixStream`, `TagStore`; `UuidPool` as an instance; refines `UuidPool` and `TagMap` |
| `IdServiceInv` | the inductive invariants of `IdService` | `IdService` |
| `MCIdService` | constants of `IdService` for TLC | `IdServiceInv` |
| `IdService_proofs` | theorems about `IdService`: the protocol, the identifiers and the tag table | `IdServiceInv`, `UuidPool_proofs` as an instance |
| `TraceLog` | abstract: accepted traces are stored once at most, in order | |
| `TraceTransport` | `cl_transport_domsock_client.c`, the trace and join calls of `clacks.c`, `cl_transport_domsock.c`, `cl_file_module.c`, start and SIGTERM of `clacksd.c` | implements `TraceLog` |
| `TraceTransport_proofs` | theorems about `TraceTransport` | |
| `DaemonLifecycle` | `clacksidd.c` and `clacksd.c` from `main` to `exit`, with `check_dom_dir` and the error paths of both listeners | |
| `DaemonLifecycle_proofs` | theorems about `DaemonLifecycle` | |
| `ClientThreads` | `get_new_id` and `connect_to_id_service` in several threads of an application | `UnixStream` |
| `ClientThreads_proofs` | theorems about `ClientThreads` | |
| `UtHash` | what `tag_id` uses of `uthash.h` | justifies the map of `TagStore` |
| `UtHash_proofs` | theorems about `UtHash`, on lemmas about induction, powers of two, folds, sums and remainders | |
| `Discovery` | `cl_discovery.c`, `cl_discovery_thread.c` | |

**UuidPool.**  Variables have the names of the C statics.  `update_uuid_pool`,
`next_uuid` and `check_pool` are operators on them; the actions `Start`,
`DrawUuid`, `CheckPool` and `Exit` are what the callers do.  `uuid_generate_time_safe`
belongs to libuuid: its k-th call in the history of the machine returns k, because
what makes time-based UUIDs differ is that the clock moves on; that is the one
thing assumed of it.  `phase` says where the caller is; `issued` and `lost` are
history variables.

**IdService.**  One action per system call of the daemon (`Accept`, `ReadCommand`,
`NextUuid`, `WriteUuid`, `CheckPool`, `WriteGo`, `ReadUuid`, `ReadDerrived`,
`TagId`, `CloseConnection`) and of the library (`Connect`, `WriteCommand`,
`ReadId`, `ReadGo`, `WriteClId`, `WriteDerrived`, `CloseSocket`).  `srv.pc` and
`cl[c].pc` are the positions in the C functions, the other fields of `srv` the
locals of the handler.  `cl[c].sock` is `dom_sock # -1`, `cl[c].ids` what
`get_new_id` returned 0 with.  The stream of the k-th call of client c is
`conn[<<c, k>>]`.

- Every read has three outcomes, data, 0 bytes or an error, and every write two;
  what the code does with each is written out.  In particular a read of 0 passes
  the code's tests (`< 0`), `get_new_id` then returns a buffer nothing was read
  into (`stale`), `handle_connection` dispatches on such a buffer, and
  `cl_id_tag_id` goes on after an error with a descriptor of -1.
- Uninitialised memory is a choice: the bytes behind a derived identifier are a
  member of `Residue`, an unread identifier is `NoId` or an earlier answer, an
  unread command any command.
- `Terminate` is SIGTERM: enabled in every state of a running daemon; connections
  are closed, with a reset where data was unread or the connection was never
  accepted, memory is lost, the socket file stays.  `BindFails` is what the next
  daemon does with that file.  `AcceptFails` is the error exit of the loop.
- A write to a daemon that has closed raises SIGPIPE.  The library does not
  ignore it, so the application dies unless it ignores it itself; both happen.
- One write is taken by one read.  On a byte stream that is so only while no two
  messages are under way, which is the property `LockStep`.
- `bind` and `listen` are one step: in between a client is refused just as before
  it.  `check_dom_dir`, and a `socket` or a `listen` that fails, are in `DaemonLifecycle`.
  Here they would add no outcome: a failing `socket` ends the process before `bind` and
  leaves the file as it is, which is `Terminate` at "bind"; a failing `listen` removes the
  file that `bind` made, which is `Bind` and then `AcceptFails`.

**TagStore.**  A string is a sequence of characters; `StoredKey` is what
`strncpy` into `derrived_id[128]` leaves there when read as a string, which runs on
into `cl_id` when the name fills the array.  The hash table is a map here, which `UtHash`
checks.

**TraceTransport.**  A trace is a datagram; the kernel numbers those it accepts, and
a number is all that travels.  `accepted[i]` says whether datagram i fits the 1024
bytes the daemon receives into; one that does not loses its end, and with it the
last required field (`flags`), so that it never unpacks.  `Trace` is the preparation
of a message in `clacks.c`, TRACE or JOIN, which differ in the text of the line only;
`Send` is `sendto()`: it waits while the receiver's queue is full, and fails, silently
for the caller, when nothing is bound to the path.  `srv.pc` is the position of the
transport thread, `sock_path` what the path names.  `BindFails` removes the path and
ends the thread while the process lives on ("ended").  `NoListener` ends there too, with
the path as it was: the thread cannot be created, or `socket` fails, which passes by the
`unlink`.  `OpenFile` and
`WriteLine` may go wrong, `WriteLine` also half: a short write is a line with `whole = FALSE`.
`Terminate` drops the kernel's queue, the datagram in hand and the open file.  The
file itself, `log`, stays.  A dying application takes nothing back, so clients do
not die here.

**DaemonLifecycle.**  One process of `Daemons` is one start of the program; `program`
says which of the two it is, `clacksidd`, which listens in `main`, or `clacksd`, whose
listener is a thread beside a `main` that sleeps for ever.  `pc[d]` is where the thread
that is to listen is.  The steps are those that a signal or another process can fall
between: the forks, the pid file (written without a lock, and never a reason to stop),
SIGHUP back to its default, all signals blocked, the signal thread, in `clacksd` the
transport thread, the directory, `bind`, in `clacksidd` `listen`, the error path with its
`unlink`.  Each of them may fail, and what the code then does differs: up to the signal
thread the process exits (`GivesUp`); without its transport thread `clacksd` sleeps on
(`TransportFails`); a failing `socket` leaves the listener past the error path, so that
whatever is at the path stays (`SocketFails`); a failing `bind`, `listen` or `accept` takes
the error path, which unlinks whatever is there (`BindFails`, `ListenFails`, `AcceptFails`).
A listener that is left ends `clacksidd` and puts `clacksd` to sleep.  `Signal` is
`kill(2)`: held back when blocked, thrown away when ignored, deadly otherwise.  `SigHandler` is the thread that takes what
was held back; its `exit` may fall between any two steps of the listener.  `path` is
whose socket the file is, or was.  `overlap`, chosen at the start, says whether a daemon
may be started beside another; `Overlaps` names the choices and `MaxOverlapping` bounds the
processes that are then started.

**ClientThreads.**  Each system call of `get_new_id` reads the static `dom_sock` anew, so
each is one action on whatever it holds by then.  Descriptors are numbered and not used
again, which leaves out the case of a number that comes back as another file.  A `close`
under a `read` takes effect when the reader has left.  The daemon is reduced to GET.

**UtHash.**  The operators have the names of the macros.  The n-th key is called n and its
hash is chosen when it is added, so that every hash function on the given values is
covered.  The doubly linked lists are sequences, `hh_prev` with them; the walk that moves a
chain is a fold that puts each item in front.  Counters are not cut to 32 bits, which a
table in memory does not reach.

**Discovery.**  One action per system call of `wait_for_transport`; `fds` are the
descriptors the loop has made, `bound` or not.  A message is shorter than, as long as, or
longer than the struct it should be.

## 3. What TLC checks

| run | instance | shows |
|---|---|---|
| `uuid_pool` | 3 slots, 13 UUIDs | bounds, no UUID twice, none overwritten, the inductive invariant of the proofs, `FreshIds` implemented |
| `id_service` | 2 clients, 2 calls each, one may die; daemon lost once | no identifier shared between applications, fresh answers as long as the daemon lives, `LockStep`, tags stored as sent, one entry per name, no leaked descriptor, `UuidPool` and `TagMap` implemented |
| `id_service_live` | 3 clients, one call each, daemon lost once, one client may die | calls return, also that of the one that waits in `connect`, the daemon gets back to `accept`, written tags get stored; the inductive invariant of the proofs |
| `trace_transport` | 2 clients, 3 traces each, queue of 2, 2 terminations, 1 disk fault | order, no duplicate, no gap nobody was told of, no socket without a receiver, `TraceLog` implemented, the inductive invariant of the proofs; sending returns, accepted traces get stored |
| `daemon_lifecycle` | either daemon, 4 starts one after the other, or 2 processes that may be up together, 3 signals | one by one: the daemon that listens is reachable and is the one of the pid file, a leftover socket costs one start; in either case: SIGTERM ends a process wherever it is, no process hangs half way, whatever fails; the inductive invariant of the proofs |
| `client_threads` | 2 threads, 2 calls each | no identifier is given to two threads; a race ends with its calls; the inductive invariant of the proofs |
| `ut_hash` | 9 keys on 4 hash values, threshold 2 | everything added, and nothing else, is found, counts agree, chains stay bounded; the inductive invariant of the proofs |
| `stale_answer` | 1 client, 2 calls, daemon lost once | **violated**: `ReturnedIdsFresh` |
| `derrived_tail` | 1 client, 1 call | **violated**: `DerrivedArrives` |
| `second_daemon` | either daemon, 3 processes at a time | **violated**: `OnlyOneServes` |
| `racing_hang` | 2 threads, 1 call each | **violated**: `CallsReturn` |
| `wrong_size` | messages of any size, 3 descriptors | **violated**: `DropsMessageOnly` |

Bounds, and why they are enough.  Three slots give a first, a middle and a last
slot; 13 UUIDs give four fills with restarts at every depth.  In `IdService` a pool
of two slots is drained and refilled by three GETs.  Two clients let every pair of
steps of two connections interleave, and, the daemon being sequential, a third one
adds only a place in the queue: `BACKLOG = 0` lets one connection wait and blocks
the next `connect`, which the third client of `id_service_live` needs; there one client
gets an identifier and two tag one, with names one of which fills `derrived_id`.  Two calls
per client let a call meet what an earlier one left behind (stack memory, a table
entry, a stale socket file).  One loss of the daemon gives up to two further starts: onto
the old file, and onto none.  `MaxUuid` is large enough that the clock is never
what stops a run.  The names `a` and `ab` differ by a byte the stack may hold, so
that one can be mistaken for the other; `ab` with such a byte behind it fills
`derrived_id`, so that a name without a terminator is stored too.

In `DaemonLifecycle` four starts are: one that leaves its socket file, one that fails on
it, one that serves, and one more to see that the count starts again; three signals end
three of them at any step.  Two processes at a time are enough for a listener to lose
its path to another, to find it taken, or free again.  In `ClientThreads` two calls per thread make every step of one
thread meet every step of the other, and a call that begins after a race.  The hashes of
`UtHash` part at the first doubling, at the third, at the fifth, or not at all; nine keys
drive a table to 32 buckets and past the giving up of doubling.

In `TraceTransport` a queue of two with three traces per client is filled while the
thread holds a third datagram; two terminations give a start onto a stale path, a
thread that ended, and one that serves again.

Symmetry of the clients is used in run `id_service` only.  Deadlock is checked in
every run but those of `ClientThreads`, where threads may really wait for ever;
`Rest` is the state in which all calls are made.

Fairness: weak fairness of the daemon's steps and of each client's steps inside a
library call.  Both are sequential threads that are never suspended by the code
itself, only by a system call that waits.  Starting the daemon, making a call and
dying are never forced.  A client that is *stopped* inside a call, neither going on
nor dying, does block the daemon and with it everybody: the daemon has no timeout.

In `TraceTransport` it is weak fairness of the transport thread and of `Send`.  The
disjuncts that model faults share an action with their success, and are bounded,
so fairness never forces one; `NoListener` stands outside the fair actions.

In `DaemonLifecycle` it is weak fairness of the listening thread and of the signal thread
of each process; nobody has to start a daemon or to send a signal, and no call has to fail
but a `bind` that cannot succeed.  In `ClientThreads` and
`Discovery` the threads and the daemon go on when they can.

The five violations are disagreements of the code with what it says of itself:

- `stale_answer`: SIGTERM between the daemon's read of GET and its write.  The
  client's `read` returns 0, and `get_new_id` returns 0 with a buffer nothing was
  read into (`id_client.c:52-64`), against `clacks.h:5-10`.  In the trace the client
  is given an identifier that is no UUID, or the one of its earlier call.
- `derrived_tail`: the name is sent without its terminator and read into an array
  that is not cleared (`id_client.c:114`, `id_dom_socket.c:39,64`).
- `second_daemon`: "Ensure we're the only daemon running" (`clacksidd.c:169`) holds
  nobody up, the lock being in a comment.  A daemon that fails in `bind` unlinks whatever is
  at the path, the socket of one that listens included, and a third listens beside that one.
  The same lines of `clacksd` come to the same, with that program alone.
- `racing_hang`: two threads find `dom_sock` at -1 and both make a socket
  (`id_client.c:16-18`); the one whose number is overwritten may be connected, nobody
  will ever write to it, and the daemon waits on it for ever, and everybody for the daemon.
- `wrong_size`: `wait_for_transport` returns without closing the socket that has the
  port (`cl_discovery.c:45`), so that no message is received after one that was dropped.
  `main` has the start of the thread in a comment (`clacksd.c:191-198`).

Further known behaviour that the models show and no property is about: a
name of 128 characters is stored without a terminator (`id_tag_manager.c:24`) and tagging
it again adds it again, which `OneEntryPerKey` leaves out; a line written in part counts
as stored (`cl_file_module.c:57`), which `NoUnexplainedGap` and `TraceGetsStored` excuse
as a fault of the disk; a SIGHUP that arrives between the restoring of its default and the
blocking of all signals ends the daemon (`clacksidd.c:181-187`); a racing thread may return
0 with a buffer nothing was read into; a discovery message that is too long is cut to the
right length and passes for a whole one.

## 4. What is proved

Every theorem is about all values of the constants, bounds included.  A bound (`MaxCalls`,
`MaxKills`, ...) is an arbitrary natural number in the proofs, so that what they say
does not depend on it; `NoId` being none of the clock's UUIDs, and strings being
sequences (`NoIdAssumption`, `StringsAssumption`), are conventions of the model.

Each proof module has one inductive invariant, which a run checks as well, with one
lemma for each part of it or for each action.  The theorems follow from it.

**UuidPool_proofs**, for every number of slots and every length of the clock:

- `DrawsInBounds`, `NeverReissued`, `AllAccounted`: the three safety properties of
  `UuidPool` that run `uuid_pool` checks, and `TypeCorrect`, a part of `PoolInv`;
- `Refinement`: `UuidPool` implements `FreshIds`.

Assumptions: `PoolAssumption` (a pool has a slot) and `ClockAssumption`.  The
invariant is `PoolInv`.  None of them is inductive
alone: that a draw is new needs that what lies ready was never drawn and is all
different (`ReadyFresh`); that a refill's UUIDs are new needs that everything seen
so far is at most `generated` (`DrawnFromClock`); that a refill overwrites nothing
needs that it only ever happens to a pool with nothing ready, which is where
`StartsAtZero` (the first fill) and `NeverDrawFromEmpty` (the others) come in.
Lemma `FillInv` is that argument for both fills, `StepInv` adds the other actions.

**IdService_proofs**, for any applications, requests, lengths of the backlog, numbers
of calls, terminations and crashes:

- `PoolUse`: every step of the daemon is a step of `UuidPool` or leaves the pool alone.
  With it `PoolInv`, proved of `UuidPool`, holds of the daemon's pool (`PoolHolds`);
- `NeverOutOfStep` (`LockStep`): at most one message is under way on a connection, and
  it is the one its reader waits for;
- `NoSocketLeaks` (`NoLeakedSocket`): the descriptors that are open are those of calls
  that are being made, served or waiting;
- `IdsDiffer` (`IdsNotShared`): fresh answers as long as the daemon lives, and never one
  identifier for two applications;
- `TagsAreWhatWasSent` (`TagIsWhatWasSent`): a tag is stored under the identifier its
  client sent, with a name that starts with what was sent, or, of a longer one, with the
  first `DERRIVED_LEN` bytes.

The invariant is `ServiceInv` of module `IdServiceInv`.  Its middle is `InStep`, a table:
with the client at q and the daemon at p, what may be under way in either direction.
`LockStep` is not inductive because it says nothing of where the two *are*: the
daemon's second continue message may only be written because the first was taken, and
that a client has taken it shows in its program counter.  An end that was shut is at
"gone", whatever its process does next, so that a reset, a crash and a termination are a
row of the table like any other, and a daemon that goes on without its client, or a
client that goes on with a descriptor of -1, stays in it.  `Connections` says which
calls the daemon can have in hand; `Tagging` what it knows of a tag at each step, which
is where an identifier that was never read is ruled out: a client that sends none has
shut its end, and the second continue message cannot be written.  `Identifiers` is
for `IdsNotShared`: a UUID that was drawn is in one place, the daemon's hand, a connection or
an application, until it is lost.  `Answered` is for the stale buffer: as long as the daemon lives,
no client that waits for an identifier finds its connection closed and empty.

A step of a handler or of the library changes one connection and one record, so most
of the proof is about those alone: `Fits` is the row of one connection, `ClientMove` and
`DaemonMove` are what a system call may do to it, `ClientSteps` and `DaemonSteps` show for
each call that it does no more, and `ClientMovesKeep` and `DaemonMovesKeep` that this keeps
`ServiceInv`.  The steps that make or end connections (`NewCall`, `Connect`, `Accept`,
`CloseConnection`, `Launch`, `Bind`, `Quit`) have lemmas of their own.

Of the **table of tags** the same module shows, for any names, any residue of the stack and any length of the array:

- `KeysStayApart` (`OneEntryPerKey`): a string that ends in its array has one entry;
- `TableIsTagMap` (`ImplementsTagMap`): the table implements `TagMap`;
- `TypeCorrect`: `TypeOK`, for which the table is needed too.

The invariant is `TableInv`; run `id_service_live` checks `IdInv`, it and
`ServiceInv` together, and `AllHolds` is the theorem of both.  A name that fills its array is added each time it is
tagged, and yet the table stays a map: what is found under such an entry is the name
with the entry's own identifier behind it (`WellKept`), so that two equal ones have equal tags.

**TraceTransport_proofs**, for any number of applications, terminations and
faults and any length of the queue (`QueueAssumption`):

- `TypeCorrect` and `StoredInOrder`: nothing is stored twice, or before a trace that
  was accepted earlier, over all daemons that ever write the file;
- `NoDeafSocket`: a path that takes datagrams has a thread that receives them;
- `NoGap` (`NoUnexplainedGap`): without a termination and a disk fault every trace that
  was accepted and fits is in the file, whole, or on its way;
- `Refinement`: `TraceTransport` implements `TraceLog`.

`LogInOrder` is not inductive: a write keeps it only if what the thread holds is
later than all of the file, and that only if the kernel's queue is later still and
in order.  `WayInOrder` says so; `OrderInv` is the conjunction.

**DaemonLifecycle_proofs**, for any number of starts, signals and either program:

- `TypeCorrect`, whether or not daemons overlap;
- `Reachable`, `PidFileRight` and `LeftoverCost`, that is `ServerIsReachable`,
  `PidFileNamesServer` and `LeftoverCostsOneStart`, which are about daemons that come one by
  one (`~ overlap`; run `second_daemon` is what happens when they do not).

The invariant is `LifeInv`: the types, and for daemons that come one by one `OneByOne`.  That
the pid file names the server needs that one process at most is up (`OneIsUp`) and has been named since it wrote the file; that a leftover costs one start
needs that a start that found one is about to remove it, or has.  A start that does not get
as far as `bind` leaves a leftover file to the next one and is not counted.

**ClientThreads_proofs**, for any finite number of threads, any number of calls each
(`ThreadsAssumption`, `CallsAssumption`) and any interleaving of their accesses to `dom_sock`:

- `TypeCorrect`: types, and that an application's end is open while its descriptor is, or
  a reader is in it;
- `NotShared` (`NotSharedByThreads`) and `NoSocketLeft` (`RaceLeavesNoSocket`).

The invariant is `ThreadsInv`: answers that nobody has read are all different and nobody
has had them (`AnswersDiffer`), which two threads that share a connection cannot break, as
one read takes an answer away; every descriptor was made by a call of its own
(`MadeByCalls`, a count over a finite set); while `dom_sock` is set, some thread is
on its way to clear it (`SockIsHeld`).

**UtHash_proofs**, for every hash function, initial number of buckets and threshold, and
any number of keys (`ThreshAssumption`, `Log2Assumption`, `HashesAssumption`,
`ItemsAssumption`):

- `FindsAll` (`FindsWhatWasAdded`): what was added, and nothing else, is found, over any
  number of doublings;
- `CountsAgree` (`Fsck`): counts, chains, the sum of all counts and the number of buckets agree;
- `BoundedChains` (`ChainsBounded`): until doubling is given up no chain is past what its
  bucket lets it be, and chains have less than twice the threshold on the average;
- `TypeCorrect`, and `Invariance` of the invariant, `HashInv`.

`ChainsBounded` is not inductive.  After a doubling a chain may be as long as the ideal
length, so that must stay within the threshold, which it does when the items are at most
the threshold times the new number of buckets.  A bucket whose chain outgrew the ideal may
have its threshold several times before it sets off a doubling; `GrowthIsPaidFor` says why
that does not let the items get too many: after a doubling the multipliers times the ideal length
are no more than the items, the items no more than the buckets times the ideal length, so
that the multipliers come to one for each bucket at most (`ExpandedGood`).
Limits that no bucket has reached then add up to less than twice the threshold for each
(`LimitedIsSpacious`), and the next doubling finds its items few enough.

The operators of the model are recursive: powers of two, sums, and the walk along a
chain that turns it round.  What they compute for every input is shown in two
steps.  `Induction` is the induction of the naturals as a fact about a set, which needs no
operator as a parameter: a set without a least element is empty (`WFMin`).  A
fold of the community modules is a function on the subsets of a finite set that solves
an equation; `FoldExists` and `FoldUnique` show that there is one and, as far as the set
goes, no other.  With them a sum is what its definition says in any order
(`SumTakeOut`) and the chain of a new bucket is the end of a walk (`MovedIsWalk`), over which
`MovedItems` and `MovedApart` go by induction: no item is lost, doubled or misplaced.
`ModTwice` is the arithmetic of the doubling, an item of bucket b goes to b or to b + n.

Only model-checked, and for good: liveness under fairness (`CallsReturn`, `DaemonComesBack`,
`TagGetsStored`, `SendReturns`, `TraceGetsStored`, `TermIsHonoured`, `StartsOrGoes`), which needs
ENABLED; and `Discovery`, the one property of which is violated.

## 5. The plan

The state machines of the plan are written, and each safety property of `UuidPool`,
`IdService`, `TraceTransport`, `DaemonLifecycle`, `ClientThreads` and `UtHash` that a run
checks has its theorem.  What is left are action properties of `IdService` that the
invariant would give: what a tag or an answer may never become once it is out.

## 6. Not modelled

Of `uthash.h`, what the repository does not use: deletion, sorting, selection, the Bloom
filter, and the hash functions themselves, any of which `UtHash` allows for.  The protobuf
packing is generated code.  `cl_redis_module.h` has no implementation, `discovery.c` of
the library is an empty stub, `parse_message` has no caller.  Calls with a NULL argument
do nothing; a `vasprintf` that fails (`clacks.c:38`) is a matter of the C runtime's memory.
Threads that race on the socket of the trace client, and threads that tag at the
same time, are left out.  The test programs are clients of the kind `IdService` has.  Formatting, logging
and the wording of messages are left out everywhere.
