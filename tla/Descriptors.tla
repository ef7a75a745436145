------------------------------- MODULE Descriptors -------------------------------
(***************************************************************************)
(* Who closes which descriptor: owned_fd and shared_fd, the functions that *)
(* open descriptors, the acceptors and the jobs that watch one, commands   *)
(* with their pipes and socket activation.  All of it runs in the loop's   *)
(* thread.  The kernel gives out the lowest free number, so a descriptor   *)
(* closed twice is soon somebody else's.                                   *)
(***************************************************************************)
EXTENDS Integers, FiniteSets, FiniteSetsExt

CONSTANTS
  Fds,      \* the numbers the kernel can give out, a finite set
  Vars,     \* the owned_fds of the program
  Blocks    \* the owned_fds on the heap that shared_fds point to

\* ret and the array elements are owned_fds of a running call.
Locals == {"ret", "stdin0", "stdin1", "stdout0", "stdout1"}
Member == "sock_fd"    \* of an acceptor
Objects == Vars \cup Blocks \cup Locals \cup {Member}

None == -1

\* The descriptors of socket activation have the first numbers.
ASSUME DescriptorsAssumption ==
  /\ Fds \subseteq Nat /\ IsFiniteSet(Fds) /\ IsFiniteSet(Vars)
  /\ \A i \in 0 .. Cardinality(Vars) - 1 : Min(Fds) + i \in Fds
  /\ Vars \cap Blocks = {}
  /\ (Vars \cup Blocks) \cap (Locals \cup {Member}) = {}

VARIABLES
  table,     \* flags: of each open descriptor; fd: the member fd of each owned_fd
  released,  \* the number that release() returned to the program (one at a time)
  inherited, \* open at start (socket activation) and not taken over
  listen,    \* LISTEN_FDS, 0 when the variables are not set for this process
  refs,      \* copies of a shared_fd: of the program and of readers and writers
  job,       \* the descriptor watched by a pending read or write, or None
  acceptor   \* its class and the descriptor it watches

descriptor_vars == <<table, released, inherited, listen, refs, job, acceptor>>

Closed == {"closed"}
Standard == {"cloexec", "nonblock"}
Free(t) == {d \in Fds : t.flags[d] = Closed}
IsOpen(d) == d \in Fds /\ table.flags[d] # Closed
NoAcceptor == [class |-> "none", watch |-> None]

DescriptorsInit ==
  /\ listen \in 0 .. Cardinality(Vars)
  /\ inherited = {d \in Fds : d < Min(Fds) + listen}
  /\ table = [flags |-> [d \in Fds |-> IF d \in inherited THEN {"activated"} ELSE Closed],
              fd |-> [o \in Objects |-> None]]
  /\ released = {}
  /\ refs = [b \in Blocks |-> 0]
  /\ job = [b \in Blocks |-> None]
  /\ acceptor = NoAcceptor

-----------------------------------------------------------------------------
(* The operations of owned_fd on a table, and a system call that opens one. *)

Open(t, o, flags) ==
  LET d == Min(Free(t))
  IN  [t EXCEPT !.flags[d] = flags, !.fd[o] = d]

destroy_fd(t, o) ==
  IF t.fd[o] = None THEN t
  ELSE [t EXCEPT !.flags[t.fd[o]] = Closed, !.fd[o] = None]

Release(t, o) == [t EXCEPT !.fd[o] = None]

CopyConstruct(t, o, other) == [t EXCEPT !.fd[o] = t.fd[other]]   \* mutant of MoveConstruct
MoveConstruct(t, o, other) == [Release(t, other) EXCEPT !.fd[o] = t.fd[other]]

MoveAssign(t, o, other) ==
  IF o = other THEN t ELSE MoveConstruct(destroy_fd(t, o), o, other)

\* Of several objects that go out of scope.
DestroyAll(t, objects) ==
  [flags |-> [d \in Fds |-> IF \E o \in objects : t.fd[o] = d THEN Closed ELSE t.flags[d]],
   fd |-> [o \in Objects |-> IF o \in objects THEN None ELSE t.fd[o]]]

-----------------------------------------------------------------------------
(* The functions that return result<owned_fd>: the tables they can leave,   *)
(* the descriptor in "ret".                                                  *)

Opened(t, flags) == {t} \cup {Open(t, "ret", flags) : d \in Free(t)}

open_socket(t) == Opened(t, Standard \cup {"socket"})
open_stream_socket(t) == open_socket(t)

\* connect, bind or listen on the socket: an error destroys the result.
SetUp(tables) == tables \cup {destroy_fd(t, "ret") : t \in tables}

open_connected_datagram_socket(t) == SetUp(open_socket(t))
open_bound_datagram_socket(t) == SetUp(open_socket(t))
open_connected_stream_socket(t) == SetUp(open_stream_socket(t))
open_listening_stream_socket(t) == SetUp(SetUp(open_stream_socket(t)))

\* Nothing is opened when the abstract path is too long.
open_local_abstract_stream_socket(t) ==
  {t} \cup open_connected_stream_socket(t) \cup open_listening_stream_socket(t)

open_file(t) == Opened(t, Standard)

FdFunctions(t) ==
  UNION {open_bound_datagram_socket(t), open_local_abstract_stream_socket(t), open_file(t)}

open_pipe(t) ==
  {t} \cup {Open(Open(t, "stdin0", Standard), "stdin1", Standard) :
             x \in IF Cardinality(Free(t)) >= 2 THEN {1} ELSE {}}

-----------------------------------------------------------------------------
(* The program with its owned_fds.                                          *)

Unshared == UNCHANGED <<refs, job, acceptor>>
NotRaw == UNCHANGED <<released, inherited, listen>>

\* v = move(res.get_value()), when the result is ok: it closes v's old descriptor.
OpenInto(v) ==
  /\ \E t \in FdFunctions(table) :
       table' = IF t.fd["ret"] = None THEN t ELSE MoveAssign(t, v, "ret")
  /\ Unshared /\ NotRaw

OpenPipe(v, w) ==
  /\ v # w
  /\ \E t \in open_pipe(table) :
       table' = IF t.fd["stdin0"] = None THEN t
                ELSE MoveAssign(MoveAssign(t, v, "stdin0"), w, "stdin1")
  /\ Unshared /\ NotRaw

Move(v, w) ==
  /\ table' = MoveAssign(table, v, w)
  /\ Unshared /\ NotRaw

Reset(v) ==
  /\ table' = destroy_fd(table, v)
  /\ Unshared /\ NotRaw

ReleaseVar(v) ==
  /\ table.fd[v] # None /\ released = {}
  /\ released' = released \cup {table.fd[v]}
  /\ table' = Release(table, v)
  /\ UNCHANGED <<inherited, listen>> /\ Unshared

\* v = owned_fd(d)
Adopt(v, d) ==
  /\ d \in released
  /\ released' = released \ {d}
  /\ table' = MoveAssign([table EXCEPT !.fd["ret"] = d], v, "ret")
  /\ UNCHANGED <<inherited, listen>> /\ Unshared

takeover_socket_activated_fds ==
  LET fd(i) == Min(Fds) + i
      Cloexec(flags) == flags \cup {"cloexec"}
  IN  \E f \in [0 .. listen - 1 -> Vars] :
        /\ IsInjective(f) /\ \A i \in DOMAIN f : table.fd[f[i]] = None
        /\ table' = [flags |-> [d \in Fds |-> IF \E i \in DOMAIN f : fd(i) = d
                                              THEN Cloexec(table.flags[d]) ELSE table.flags[d]],
                     fd |-> [o \in Objects |-> IF \E i \in DOMAIN f : f[i] = o
                                               THEN fd(CHOOSE i \in DOMAIN f : f[i] = o)
                                               ELSE table.fd[o]]]
        /\ inherited' = {}
        /\ listen' = 0
        /\ UNCHANGED released /\ Unshared

-----------------------------------------------------------------------------
(* shared_fd: the last copy destroys the block.                             *)

MaxRefs == 2

\* shared_fd(move(v))
Share(v, b) ==
  /\ refs[b] = 0 /\ job[b] = None
  /\ table' = MoveConstruct(table, b, v)
  /\ refs' = [refs EXCEPT ![b] = 1]
  /\ UNCHANGED <<job, acceptor>> /\ NotRaw

Copy(b) ==
  /\ refs[b] \in 1 .. MaxRefs - 1
  /\ refs' = [refs EXCEPT ![b] = @ + 1]
  /\ UNCHANGED <<table, job, acceptor>> /\ NotRaw

Unreferenced(b) == refs'[b] = 0 /\ job'[b] = None

DestroyUnreferenced(b) ==
  table' = IF Unreferenced(b) THEN destroy_fd(table, b) ELSE table

DropCopy(b) ==
  /\ refs[b] > 0
  /\ refs' = [refs EXCEPT ![b] = @ - 1]
  /\ UNCHANGED job
  /\ DestroyUnreferenced(b)
  /\ UNCHANGED acceptor /\ NotRaw

\* A read or a write: its context holds a copy and a watch of the number.
StartJob(b) ==
  /\ refs[b] > 0 /\ job[b] = None
  /\ table.fd[b] # None
  /\ job' = [job EXCEPT ![b] = table.fd[b]]
  /\ UNCHANGED <<table, refs, acceptor>> /\ NotRaw

\* The watch is reset before the context with its copy goes.
EndJob(b) ==
  /\ job[b] # None
  /\ job' = [job EXCEPT ![b] = None]
  /\ UNCHANGED refs
  /\ DestroyUnreferenced(b)
  /\ UNCHANGED acceptor /\ NotRaw

-----------------------------------------------------------------------------
(* The acceptors: class is that of connections, of datagrams or of          *)
(* datagrams with responses.                                                *)

Classes == {"connections", "datagrams", "responding"}

\* The members are initialised in their order: the descriptor, then its watch.
MakeAcceptor(class, v) ==
  /\ acceptor = NoAcceptor
  /\ table.fd[v] # None
  /\ table.flags[table.fd[v]] \cap {"activated", "socket"} # {}
  /\ table' = MoveConstruct(table, Member, v)
  /\ acceptor' = [class |-> class, watch |-> table'.fd[Member]]
  /\ UNCHANGED <<refs, job>> /\ NotRaw

\* and destroyed in the opposite order.
DropAcceptor ==
  /\ acceptor # NoAcceptor
  /\ acceptor' = NoAcceptor
  /\ table' = destroy_fd(table, Member)
  /\ UNCHANGED <<refs, job>> /\ NotRaw

\* copies: 1 for a handler that keeps the shared_fd, 2 for the reader and the
\* writer of make_fd_bytes_io; 0 for the handler that drops it.
NewShared(t, b, copies) ==
  /\ refs[b] = 0 /\ job[b] = None
  /\ table' = IF copies = 0 THEN destroy_fd(t, b) ELSE t
  /\ refs' = [refs EXCEPT ![b] = copies]
  /\ UNCHANGED job

AcceptorNotified ==
  /\ acceptor.class = "connections"
  /\ \/ UNCHANGED <<table, refs, job>>         \* accept4 fails: an error for the handler
     \/ \E b \in Blocks, copies \in 0 .. MaxRefs :
          Free(table) # {} /\ NewShared(Open(table, b, Standard), b, copies)
  /\ UNCHANGED acceptor /\ NotRaw

\* The writer of a response opens a socket of its own for each datagram, which
\* lives as long as the write.
WriteDatagram(b) ==
  /\ acceptor.class = "responding"
  /\ refs[b] = 0 /\ job[b] = None
  /\ \E t \in open_connected_datagram_socket(table) :
       /\ table' = IF t.fd["ret"] = None THEN t ELSE MoveConstruct(t, b, "ret")
       /\ job' = [job EXCEPT ![b] = t.fd["ret"]]
  /\ UNCHANGED <<refs, acceptor>> /\ NotRaw

make_signal_watcher(b) ==
  /\ \/ UNCHANGED <<table, refs, job>>         \* signalfd fails
     \/ Free(table) # {} /\ NewShared(Open(table, b, Standard), b, 1)
  /\ UNCHANGED acceptor /\ NotRaw

-----------------------------------------------------------------------------
(* start_piped_command                                                      *)

try_create_pipe(t, o1, o2) ==
  Open(Open(t, o1, {"cloexec"}), o2, {"cloexec"})

LeftBlocking(t, o) == t                                \* mutant of try_set_nonblocking
try_set_nonblocking(t, o) ==
  [t EXCEPT !.flags[t.fd[o]] = @ \cup {"nonblock"}]

SubprocessEnds == {"stdin0", "stdout1"}
PipeEnds == SubprocessEnds \cup {"stdin1", "stdout0"}

\* After each step that can fail: the arrays are destroyed then.
CommandSteps ==
  LET one  == try_create_pipe(table, "stdin0", "stdin1")
      both == try_create_pipe(one, "stdout0", "stdout1")
      pipes == {one} \cup (IF Cardinality(Free(table)) >= 4 THEN {both} ELSE {})
  IN  {table} \cup (IF Cardinality(Free(table)) >= 2 THEN pipes ELSE {})

CommandFails ==
  /\ \E t \in CommandSteps : table' = DestroyAll(t, PipeEnds)
  /\ Unshared /\ NotRaw

\* The reader's and the writer's ends go to shared_fds before the fork; the
\* parent resets the other ends after it.
CommandStarts(b, c) ==
  /\ b # c /\ \A x \in {b, c} : refs[x] = 0 /\ job[x] = None
  /\ \E t \in CommandSteps :
       /\ \A o \in PipeEnds : t.fd[o] # None
       /\ LET nonblocking == try_set_nonblocking(try_set_nonblocking(t, "stdin1"), "stdout0")
              moved == MoveConstruct(MoveConstruct(nonblocking, b, "stdout0"), c, "stdin1")
          IN  table' = DestroyAll(moved, SubprocessEnds)
  /\ refs' = [refs EXCEPT ![b] = 1, ![c] = 1]
  /\ UNCHANGED <<job, acceptor>> /\ NotRaw

-----------------------------------------------------------------------------
DescriptorsNext ==
  \/ \E v, w \in Vars : OpenPipe(v, w) \/ Move(v, w)
  \/ \E v \in Vars : OpenInto(v) \/ Reset(v) \/ ReleaseVar(v)
  \/ \E v \in Vars, d \in released : Adopt(v, d)
  \/ takeover_socket_activated_fds
  \/ \E v \in Vars, b \in Blocks : Share(v, b)
  \/ \E b \in Blocks :
       \/ Copy(b) \/ DropCopy(b) \/ StartJob(b) \/ EndJob(b)
       \/ WriteDatagram(b) \/ make_signal_watcher(b)
  \/ \E class \in Classes, v \in Vars : MakeAcceptor(class, v)
  \/ DropAcceptor
  \/ AcceptorNotified
  \/ CommandFails
  \/ \E b, c \in Blocks : CommandStarts(b, c)

DescriptorsSpec == DescriptorsInit /\ [][DescriptorsNext]_descriptor_vars

-----------------------------------------------------------------------------
(* Every open descriptor has one owner: an owned_fd, or the program that    *)
(* released it, or nobody took it over yet; an owned number is open; and    *)
(* what is watched is the owner's open descriptor, so that a watch never    *)
(* outlives the descriptor and sees another one with its number             *)
(* (owned-fd.h:9-31, fd-watcher.h).                                          *)
Owners(d) ==
  Cardinality({o \in Objects : table.fd[o] = d})
    + (IF d \in released THEN 1 ELSE 0) + (IF d \in inherited THEN 1 ELSE 0)

DescriptorsOwnedOnce ==
  /\ \A d \in Fds : Owners(d) = IF IsOpen(d) THEN 1 ELSE 0
  /\ \A b \in Blocks :
       /\ job[b] # None => job[b] = table.fd[b]
       /\ refs[b] = 0 /\ job[b] = None => table.fd[b] = None
  /\ acceptor.watch = table.fd[Member]

(* A command started at any moment inherits no descriptor but its pipes,    *)
(* apart from those of socket activation before they are taken over; and    *)
(* the loop never blocks in a read or a write of a watched descriptor that  *)
(* the library opened (piped-command.cpp:98-101, socket-activation.cpp:91). *)
DescriptorsPrepared ==
  /\ \A d \in Fds \ inherited : IsOpen(d) => "cloexec" \in table.flags[d]
  /\ \A d \in Fds :
       (\E b \in Blocks : table.fd[b] = d) \/ acceptor.watch = d
         => table.flags[d] \cap {"nonblock", "activated"} # {}
==================================================================================
