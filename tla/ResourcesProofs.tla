----------------------------- MODULE ResourcesProofs -----------------------------
(***************************************************************************)
(* Proofs about ManualEventLoop, Descriptors and ActivityOwners, for any   *)
(* numbers of tasks, descriptors, objects, handles and owners.             *)
(***************************************************************************)
EXTENDS Descriptors, ActivityOwners, ManualEventLoop, FiniteSetTheorems, TLAPS

-----------------------------------------------------------------------------
(* The least of some natural numbers is one of them.                        *)
LEMMA MinOfNaturals ==
  ASSUME NEW S \in SUBSET Nat, S # {}
  PROVE  Min(S) \in S /\ \A y \in S : Min(S) <= y
<1> DEFINE R == OpToRel(<, Nat)
<1>1. IsWellFoundedOn(R, Nat)
  BY NatLessThanWellFounded
<1>2. \A x, y \in S : ~(<<y, x>> \in R) => x <= y
  BY DEF OpToRel
<1> HIDE DEF R
<1>3. \E x \in S : \A y \in S : ~(<<y, x>> \in R)
  BY <1>1, WFMin
<1> QED
  BY <1>2, <1>3 DEF Min

-----------------------------------------------------------------------------
(* A table in the middle of a call: external are the open descriptors that  *)
(* no owned_fd has, raw those of them that are not close-on-exec yet, and   *)
(* the objects in blocking may have descriptors that block.                 *)
Flags == {"closed", "cloexec", "nonblock", "socket", "activated"}
Tables == [flags : [Fds -> SUBSET Flags], fd : [Objects -> Fds \cup {None}]]

OneOwner(t, external) ==
  /\ \A o, p \in Objects : t.fd[o] = t.fd[p] /\ t.fd[o] # None => o = p
  /\ \A o \in Objects : t.fd[o] \notin external
  /\ \A d \in Fds : t.flags[d] # Closed <=> d \in external \/ \E o \in Objects : t.fd[o] = d

Prepared(t, raw, blocking) ==
  \A d \in Fds : t.flags[d] # Closed =>
    /\ d \notin raw => "cloexec" \in t.flags[d]
    /\ (\A o \in blocking : t.fd[o] # d) => t.flags[d] \cap {"nonblock", "activated"} # {}

TableOK(t, external, raw, blocking) ==
  /\ external \subseteq Fds /\ raw \subseteq external /\ blocking \subseteq Objects
  /\ t \in Tables /\ OneOwner(t, external) /\ Prepared(t, raw, blocking)

LEMMA FreeCounted ==
  ASSUME NEW t
  PROVE  /\ IsFiniteSet(Free(t)) /\ Cardinality(Free(t)) \in Nat
         /\ Cardinality(Free(t)) > 0 => Free(t) # {}
<1>1. IsFiniteSet(Free(t))
  BY FS_Subset, DescriptorsAssumption DEF Free
<1> QED
  BY <1>1, FS_CardinalityType, FS_EmptySet

LEMMA OpenOK ==
  ASSUME NEW E, NEW I, NEW B, NEW t,
         TableOK(t, E, I, B), NEW o \in Objects, t.fd[o] = None, Free(t) # {},
         NEW f \in SUBSET Flags, "cloexec" \in f, "nonblock" \in f \/ o \in B
  PROVE  /\ TableOK(Open(t, o, f), E, I, B)
         /\ \E d \in Free(t) : /\ Open(t, o, f).fd = [t.fd EXCEPT ![o] = d]
                               /\ d \in Fds
         /\ Cardinality(Free(Open(t, o, f))) = Cardinality(Free(t)) - 1
<1> DEFINE d == Min(Free(t))    u == Open(t, o, f)
<1>1. d \in Fds /\ t.flags[d] = Closed /\ d \in Free(t)
  BY MinOfNaturals, DescriptorsAssumption DEF Free
<1>2. /\ u.flags = [t.flags EXCEPT ![d] = f]
      /\ u.fd = [t.fd EXCEPT ![o] = d]
      /\ u \in Tables
  BY <1>1 DEF Open, Tables, TableOK
<1> HIDE DEF d, u
<1>3. f # Closed /\ None \notin Fds
  BY DescriptorsAssumption DEF Closed, None
<1>4. OneOwner(u, E)
  BY <1>1, <1>2, <1>3 DEF OneOwner, TableOK, Tables
<1>5. Prepared(u, I, B)
  BY <1>1, <1>2, <1>3 DEF OneOwner, Prepared, TableOK, Tables
<1>6. Free(u) = Free(t) \ {d}
  BY <1>1, <1>2, <1>3 DEF Free, TableOK, Tables
<1>7. Cardinality(Free(u)) = Cardinality(Free(t)) - 1
  <2>1. IsFiniteSet(Free(t))
    BY FreeCounted
  <2>2. Cardinality(Free(t) \ {d}) = Cardinality(Free(t)) - 1
    BY <1>1, <2>1, FS_RemoveElement
  <2> QED
    BY <1>6, <2>2
<1> QED
  BY <1>1, <1>2, <1>4, <1>5, <1>7 DEF TableOK, u

LEMMA DestroyOK ==
  ASSUME NEW E, NEW I, NEW B, NEW t,
         TableOK(t, E, I, B), NEW o \in Objects
  PROVE  /\ TableOK(destroy_fd(t, o), E, I, B)
         /\ destroy_fd(t, o).fd = [t.fd EXCEPT ![o] = None]
<1> DEFINE d == t.fd[o]    u == destroy_fd(t, o)
<1>0. None \notin Fds
  BY DescriptorsAssumption DEF None
<1>1. CASE d = None
  BY <1>1 DEF destroy_fd, TableOK, Tables
<1>2. CASE d # None
  <2>1. d \in Fds
    BY <1>2 DEF TableOK, Tables
  <2>2. /\ u.flags = [t.flags EXCEPT ![d] = Closed]
        /\ u.fd = [t.fd EXCEPT ![o] = None]
        /\ u \in Tables
    BY <1>2, <2>1 DEF destroy_fd, Tables, TableOK, Closed, Flags
  <2> HIDE DEF u
  <2>3. OneOwner(u, E)
    BY <1>0, <1>2, <2>1, <2>2 DEF OneOwner, TableOK, Tables
  <2>4. Prepared(u, I, B)
    BY <1>0, <1>2, <2>1, <2>2 DEF OneOwner, Prepared, TableOK, Tables
  <2> QED
    BY <2>2, <2>3, <2>4 DEF TableOK, u
<1> QED
  BY <1>1, <1>2

LEMMA MoveConstructOK ==
  ASSUME NEW E, NEW I, NEW B, NEW t,
         TableOK(t, E, I, B), NEW o \in Objects, NEW other \in Objects \ B,
         o # other, t.fd[o] = None
  PROVE  /\ TableOK(MoveConstruct(t, o, other), E, I, B)
         /\ MoveConstruct(t, o, other).fd = [t.fd EXCEPT ![other] = None, ![o] = t.fd[other]]
<1> DEFINE u == MoveConstruct(t, o, other)
<1>1. /\ u.flags = t.flags
      /\ u.fd = [t.fd EXCEPT ![other] = None, ![o] = t.fd[other]]
      /\ u \in Tables
  BY DEF MoveConstruct, Release, TableOK, Tables
<1> HIDE DEF u
<1>2. None \notin Fds
  BY DescriptorsAssumption DEF None
<1>3. \A p \in Objects : u.fd[p] = IF p = o THEN t.fd[other] ELSE IF p = other THEN None ELSE t.fd[p]
  BY <1>1 DEF TableOK, Tables
<1>4. OneOwner(u, E)
  BY <1>1, <1>2, <1>3 DEF OneOwner, TableOK, Tables
<1>5. Prepared(u, I, B)
  BY <1>1, <1>2, <1>3 DEF OneOwner, Prepared, TableOK, Tables
<1> QED
  BY <1>1, <1>4, <1>5 DEF TableOK, u

LEMMA MoveAssignOK ==
  ASSUME NEW E, NEW I, NEW B, NEW t,
         TableOK(t, E, I, B), NEW o \in Objects, NEW other \in Objects \ B
  PROVE  /\ TableOK(MoveAssign(t, o, other), E, I, B)
         /\ \A p \in Objects : MoveAssign(t, o, other).fd[p] =
              IF p = o THEN t.fd[other] ELSE IF p = other THEN None ELSE t.fd[p]
<1>1. CASE o = other
  BY <1>1 DEF MoveAssign
<1>2. CASE o # other
  <2> DEFINE u == destroy_fd(t, o)
  <2>1. TableOK(u, E, I, B) /\ u.fd = [t.fd EXCEPT ![o] = None]
    BY DestroyOK
  <2>2. u.fd[o] = None /\ u.fd[other] = t.fd[other] /\ t.fd \in [Objects -> Fds \cup {None}]
    BY <1>2, <2>1 DEF TableOK, Tables
  <2> HIDE DEF u
  <2>3. /\ TableOK(MoveConstruct(u, o, other), E, I, B)
        /\ MoveConstruct(u, o, other).fd = [u.fd EXCEPT ![other] = None, ![o] = u.fd[other]]
    <3>1. \A v : TableOK(v, E, I, B) /\ v.fd[o] = None =>
                 /\ TableOK(MoveConstruct(v, o, other), E, I, B)
                 /\ MoveConstruct(v, o, other).fd = [v.fd EXCEPT ![other] = None, ![o] = v.fd[other]]
      BY <1>2, MoveConstructOK
    <3> QED
      BY <2>1, <2>2, <3>1
  <2>4. MoveAssign(t, o, other) = MoveConstruct(u, o, other)
    BY <1>2 DEF MoveAssign, u
  <2>5. \A p \in Objects : u.fd[p] = IF p = o THEN None ELSE t.fd[p]
    BY <2>1, <2>2
  <2>6. \A p \in Objects : MoveConstruct(u, o, other).fd[p] =
          IF p = o THEN t.fd[other] ELSE IF p = other THEN None ELSE u.fd[p]
    BY <1>2, <2>1, <2>2, <2>3 DEF TableOK, Tables
  <2> QED
    BY <1>2, <2>3, <2>4, <2>5, <2>6
<1> QED
  BY <1>1, <1>2

LEMMA DestroyAllOK ==
  ASSUME NEW E, NEW I, NEW B, NEW t,
         TableOK(t, E, I, B), NEW S \in SUBSET Objects
  PROVE  /\ TableOK(DestroyAll(t, S), E, I, B \ S)
         /\ DestroyAll(t, S).fd = [o \in Objects |-> IF o \in S THEN None ELSE t.fd[o]]
<1> DEFINE u == DestroyAll(t, S)
<1>1. /\ u.flags = [d \in Fds |-> IF \E o \in S : t.fd[o] = d THEN Closed ELSE t.flags[d]]
      /\ u.fd = [o \in Objects |-> IF o \in S THEN None ELSE t.fd[o]]
      /\ u \in Tables
  BY DEF DestroyAll, TableOK, Tables, Closed, Flags
<1> HIDE DEF u
<1>2. None \notin Fds
  BY DescriptorsAssumption DEF None
<1>3. OneOwner(u, E)
  BY <1>1, <1>2 DEF OneOwner, TableOK, Tables
<1>4. Prepared(u, I, B \ S)
  BY <1>1, <1>2 DEF OneOwner, Prepared, TableOK, Tables
<1> QED
  BY <1>1, <1>3, <1>4 DEF TableOK, u

LEMMA NonblockOK ==
  ASSUME NEW E, NEW I, NEW B, NEW t,
         TableOK(t, E, I, B), NEW o \in Objects, t.fd[o] # None
  PROVE  /\ TableOK(try_set_nonblocking(t, o), E, I, B \ {o})
         /\ try_set_nonblocking(t, o).fd = t.fd
<1> DEFINE d == t.fd[o]    u == try_set_nonblocking(t, o)
<1>1. d \in Fds /\ t.flags[d] # Closed
  BY DEF TableOK, Tables, OneOwner
<1>2. /\ u.flags = [t.flags EXCEPT ![d] = @ \cup {"nonblock"}]
      /\ u.fd = t.fd
      /\ u \in Tables
  BY <1>1 DEF try_set_nonblocking, TableOK, Tables, Flags
<1> HIDE DEF u
<1>3. u.flags[d] # Closed
  BY <1>1, <1>2 DEF Closed, TableOK, Tables
<1>4. OneOwner(u, E)
  BY <1>1, <1>2, <1>3 DEF OneOwner, TableOK, Tables
<1>5. Prepared(u, I, B \ {o})
  BY <1>1, <1>2, <1>3 DEF Prepared, TableOK, Tables
<1> QED
  BY <1>2, <1>4, <1>5 DEF TableOK, u

LEMMA ReleaseOK ==
  ASSUME NEW E, NEW I, NEW B, NEW t, TableOK(t, E, I, B),
         NEW o \in Objects \ B, t.fd[o] # None
  PROVE  /\ TableOK(Release(t, o), E \cup {t.fd[o]}, I, B)
         /\ Release(t, o).fd = [t.fd EXCEPT ![o] = None]
<1> DEFINE u == Release(t, o)
<1>1. u.flags = t.flags /\ u.fd = [t.fd EXCEPT ![o] = None] /\ u \in Tables
  BY DEF Release, TableOK, Tables
<1> HIDE DEF u
<1>2. None \notin Fds
  BY DescriptorsAssumption DEF None
<1>3. t.fd[o] \in Fds
  BY DEF TableOK, Tables
<1>4. OneOwner(u, E \cup {t.fd[o]})
  BY <1>1, <1>2, <1>3 DEF OneOwner, TableOK, Tables
<1>5. Prepared(u, I, B)
  BY <1>1, <1>2 DEF OneOwner, Prepared, TableOK, Tables
<1> QED
  BY <1>1, <1>3, <1>4, <1>5 DEF TableOK, u

LEMMA AdoptOK ==
  ASSUME NEW E, NEW I, NEW B, NEW t, TableOK(t, E, I, B),
         NEW o \in Objects, t.fd[o] = None, NEW d \in E \ I
  PROVE  /\ TableOK([t EXCEPT !.fd[o] = d], E \ {d}, I, B)
         /\ [t EXCEPT !.fd[o] = d].fd = [t.fd EXCEPT ![o] = d]
<1> DEFINE u == [t EXCEPT !.fd[o] = d]
<1>1. u.flags = t.flags /\ u.fd = [t.fd EXCEPT ![o] = d] /\ u \in Tables
  BY DEF TableOK, Tables
<1> HIDE DEF u
<1>2. None \notin Fds
  BY DescriptorsAssumption DEF None
<1>3. OneOwner(u, E \ {d})
  BY <1>1, <1>2 DEF OneOwner, TableOK, Tables
<1>4. Prepared(u, I, B)
  BY <1>1, <1>2 DEF OneOwner, Prepared, TableOK, Tables
<1> QED
  BY <1>1, <1>3, <1>4 DEF TableOK, u

(* The functions that open a descriptor leave it in "ret".                  *)
LEMMA FdFunctionsOK ==
  ASSUME NEW E, NEW I, NEW t,
         TableOK(t, E, I, {}), t.fd["ret"] = None,
         NEW u \in FdFunctions(t) \cup open_connected_datagram_socket(t)
  PROVE  /\ TableOK(u, E, I, {})
         /\ \A o \in Objects : o # "ret" => u.fd[o] = t.fd[o]
<1> DEFINE P(v) == TableOK(v, E, I, {}) /\ \A o \in Objects : o # "ret" => v.fd[o] = t.fd[o]
<1>1. "ret" \in Objects
  BY DEF Objects, Locals
<1>2. ASSUME NEW f \in SUBSET Flags, Standard \subseteq f, NEW v \in Opened(t, f) PROVE P(v)
  <2>1. CASE v = t
    BY <2>1
  <2>2. CASE Free(t) # {} /\ v = Open(t, "ret", f)
    <3>1. /\ TableOK(v, E, I, {})
          /\ \E d \in Free(t) : v.fd = [t.fd EXCEPT !["ret"] = d]
      <4>1. "cloexec" \in f /\ "nonblock" \in f
        BY <1>2 DEF Standard
      <4>2. TableOK(Open(t, "ret", f), E, I, {})
        BY <1>1, <1>2, <2>2, <4>1, OpenOK
      <4>3. \E d \in Free(t) : Open(t, "ret", f).fd = [t.fd EXCEPT !["ret"] = d]
        BY <1>1, <1>2, <2>2, <4>1, OpenOK
      <4> QED
        BY <2>2, <4>2, <4>3
    <3> QED
      BY <3>1 DEF TableOK, Tables
  <2> QED
    BY <1>2, <2>1, <2>2 DEF Opened
<1>3. \A v \in open_socket(t) \cup open_file(t) : P(v)
  <2>1. Standard \cup {"socket"} \in SUBSET Flags /\ Standard \in SUBSET Flags
    BY DEF Standard, Flags
  <2> QED
    BY <1>2, <2>1 DEF open_socket, open_file
<1>4. ASSUME NEW T, \A v \in T : P(v) PROVE \A v \in SetUp(T) : P(v)
  <2>1. ASSUME NEW v \in T PROVE P(destroy_fd(v, "ret"))
    <3>1. P(v)
      BY <1>4
    <3>2. \A x : TableOK(x, E, I, {}) =>
            TableOK(destroy_fd(x, "ret"), E, I, {}) /\ destroy_fd(x, "ret").fd = [x.fd EXCEPT !["ret"] = None]
      BY <1>1, DestroyOK
    <3> QED
      BY <3>1, <3>2 DEF TableOK, Tables
  <2> HIDE DEF P
  <2> QED
    BY <1>4, <2>1 DEF SetUp
<1> HIDE DEF P
<1>5. \A v \in SetUp(open_socket(t)) : P(v)
  BY <1>3, <1>4
<1>6. \A v \in SetUp(SetUp(open_socket(t))) : P(v)
  BY <1>4, <1>5
<1>7. P(t)
  BY DEF P
<1>8. P(u)
  BY <1>3, <1>5, <1>6, <1>7
  DEF FdFunctions, open_bound_datagram_socket, open_connected_datagram_socket,
      open_local_abstract_stream_socket, open_connected_stream_socket, open_listening_stream_socket,
      open_stream_socket
<1> QED
  BY <1>8 DEF P

-----------------------------------------------------------------------------
(* The inductive invariant: between calls the table has no descriptor in a  *)
(* local object, and none that blocks; the holders of blocks and the        *)
(* acceptor watch what they own.                                            *)
TableKept ==
  /\ listen \in 0 .. Cardinality(Vars)
  /\ inherited = {d \in Fds : d < Min(Fds) + listen}
  /\ released \cap inherited = {}
  /\ TableOK(table, released \cup inherited, inherited, {})
  /\ \A o \in Locals : table.fd[o] = None

BlocksKept ==
  /\ refs \in [Blocks -> Nat] /\ job \in [Blocks -> Fds \cup {None}]
  /\ \A b \in Blocks :
       /\ job[b] # None => job[b] = table.fd[b]
       /\ refs[b] = 0 /\ job[b] = None => table.fd[b] = None

AcceptorKept ==
  /\ acceptor \in [class : Classes \cup {"none"}, watch : Fds \cup {None}]
  /\ acceptor.watch = table.fd[Member]
  /\ acceptor.class = "none" => acceptor.watch = None

DescriptorsInv == TableKept /\ BlocksKept /\ AcceptorKept

LEMMA ObjectsDistinct ==
  /\ Vars \subseteq Objects /\ Blocks \subseteq Objects /\ Locals \subseteq Objects /\ Member \in Objects
  /\ \A v \in Vars : v \notin Blocks /\ v \notin Locals /\ v # Member
  /\ \A b \in Blocks : b \notin Locals /\ b # Member
  /\ Member \notin Locals
  /\ None \notin Fds
  BY DescriptorsAssumption DEF Objects, Locals, Member, None

LEMMA DescriptorsInitInv == DescriptorsInit => DescriptorsInv
<1> SUFFICES ASSUME DescriptorsInit PROVE DescriptorsInv
  OBVIOUS
<1> USE ObjectsDistinct
<1>1. table \in Tables
  BY DEF DescriptorsInit, Tables, Flags, Closed
<1>2. OneOwner(table, inherited) /\ Prepared(table, inherited, {})
  BY DEF DescriptorsInit, OneOwner, Prepared, Closed
<1>3. TableKept
  BY <1>1, <1>2 DEF DescriptorsInit, TableKept, TableOK, Locals, Objects
<1>4. BlocksKept
  BY DEF DescriptorsInit, BlocksKept
<1>5. AcceptorKept
  BY DEF DescriptorsInit, AcceptorKept, NoAcceptor
<1> QED
  BY <1>3, <1>4, <1>5 DEF DescriptorsInv

LEMMA TableStep ==
  ASSUME TableKept, NotRaw, TableOK(table', released \cup inherited, inherited, {}),
         \A o \in Locals : table'.fd[o] = None
  PROVE  TableKept'
  BY DEF TableKept, NotRaw, TableOK, OneOwner, Prepared, Tables, Closed

LEMMA SharersStep ==
  ASSUME BlocksKept, AcceptorKept, Unshared,
         \A o \in Blocks \cup {Member} : table'.fd[o] = table.fd[o]
  PROVE  BlocksKept' /\ AcceptorKept'
  BY DEF BlocksKept, AcceptorKept, Unshared

-----------------------------------------------------------------------------
(* The steps of the program with its owned_fds.                              *)

LEMMA OpenIntoInv ==
  ASSUME DescriptorsInv, NEW v \in Vars, OpenInto(v) PROVE DescriptorsInv'
<1> USE ObjectsDistinct DEF DescriptorsInv
<1> DEFINE E == released \cup inherited
<1>1. PICK t \in FdFunctions(table) :
        table' = IF t.fd["ret"] = None THEN t ELSE MoveAssign(t, v, "ret")
  BY DEF OpenInto
<1>2. "ret" \in Locals
  BY DEF Locals
<1>3. TableOK(table, E, inherited, {}) /\ table.fd["ret"] = None
  BY <1>2 DEF TableKept
<1>4. TableOK(t, E, inherited, {}) /\ \A o \in Objects : o # "ret" => t.fd[o] = table.fd[o]
  BY <1>3, FdFunctionsOK
<1>5. /\ TableOK(table', E, inherited, {})
      /\ \A o \in Objects : o # v /\ o # "ret" => table'.fd[o] = table.fd[o]
      /\ table'.fd["ret"] = None
  BY <1>1, <1>2, <1>4, MoveAssignOK
<1>6. TableKept'
  BY <1>2, <1>5, TableStep DEF OpenInto, TableKept
<1> QED
  BY <1>2, <1>5, <1>6, SharersStep DEF OpenInto

LEMMA OpenPipeInv ==
  ASSUME DescriptorsInv, NEW v \in Vars, NEW w \in Vars, OpenPipe(v, w) PROVE DescriptorsInv'
<1> USE ObjectsDistinct DEF DescriptorsInv
<1> DEFINE E == released \cup inherited
<1>1. PICK t \in open_pipe(table) :
        table' = IF t.fd["stdin0"] = None THEN t
                 ELSE MoveAssign(MoveAssign(t, v, "stdin0"), w, "stdin1")
  BY DEF OpenPipe
<1>2. "stdin0" \in Locals /\ "stdin1" \in Locals
  BY DEF Locals
<1>3. TableOK(table, E, inherited, {}) /\ table.fd["stdin0"] = None /\ table.fd["stdin1"] = None
  BY <1>2 DEF TableKept
<1>4. CASE t = table
  <2>1. TableKept'
    BY <1>1, <1>3, <1>4, TableStep DEF OpenPipe, TableKept
  <2> QED
    BY <1>1, <1>3, <1>4, <2>1, SharersStep DEF OpenPipe
<1>5. CASE t # table
  <2> DEFINE u == Open(table, "stdin0", Standard)
  <2>1. t = Open(u, "stdin1", Standard) /\ Cardinality(Free(table)) >= 2
    BY <1>5 DEF open_pipe
  <2>2. Free(table) # {}
    BY <2>1, FreeCounted
  <2>3. Standard \in SUBSET Flags /\ "cloexec" \in Standard /\ "nonblock" \in Standard
    BY DEF Standard, Flags
  <2>4. /\ TableOK(u, E, inherited, {})
        /\ \E d \in Free(table) : u.fd = [table.fd EXCEPT !["stdin0"] = d] /\ d \in Fds
        /\ Cardinality(Free(u)) = Cardinality(Free(table)) - 1
    BY <1>2, <1>3, <2>2, <2>3, OpenOK
  <2> HIDE DEF u
  <2>5. Free(u) # {} /\ u.fd["stdin1"] = None
    BY <1>2, <1>3, <2>1, <2>4, FreeCounted DEF TableOK, Tables
  <2>6. /\ TableOK(t, E, inherited, {})
        /\ \E d \in Free(u) : t.fd = [u.fd EXCEPT !["stdin1"] = d] /\ d \in Fds
    BY <1>2, <2>1, <2>3, <2>4, <2>5, OpenOK
  <2>7. /\ t.fd["stdin0"] # None
        /\ \A o \in Objects : o # "stdin0" /\ o # "stdin1" => t.fd[o] = table.fd[o]
    BY <1>2, <1>3, <2>4, <2>6 DEF TableOK, Tables
  <2> DEFINE x == MoveAssign(t, v, "stdin0")
  <2>8. /\ TableOK(x, E, inherited, {})
        /\ \A o \in Objects : x.fd[o] = IF o = v THEN t.fd["stdin0"] ELSE IF o = "stdin0" THEN None ELSE t.fd[o]
    <3>1. TableOK(t, E, inherited, {}) /\ v \in Objects /\ "stdin0" \in Objects \ {}
      BY <1>2, <2>6
    <3> QED
      BY <3>1, MoveAssignOK
  <2> HIDE DEF x
  <2>9. /\ TableOK(MoveAssign(x, w, "stdin1"), E, inherited, {})
        /\ \A o \in Objects : MoveAssign(x, w, "stdin1").fd[o] =
             IF o = w THEN x.fd["stdin1"] ELSE IF o = "stdin1" THEN None ELSE x.fd[o]
    BY <1>2, <2>8, MoveAssignOK
  <2>10. table' = MoveAssign(x, w, "stdin1")
    BY <1>1, <2>7 DEF x
  <2>11. /\ \A o \in Locals : table'.fd[o] = None
         /\ \A o \in Blocks \cup {Member} : table'.fd[o] = table.fd[o]
    BY <1>2, <2>7, <2>8, <2>9, <2>10 DEF TableKept
  <2>12. TableKept'
    BY <2>9, <2>10, <2>11, TableStep DEF OpenPipe
  <2> QED
    BY <2>11, <2>12, SharersStep DEF OpenPipe
<1> QED
  BY <1>4, <1>5

LEMMA MoveInv ==
  ASSUME DescriptorsInv, NEW v \in Vars, NEW w \in Vars, Move(v, w) PROVE DescriptorsInv'
<1> USE ObjectsDistinct DEF DescriptorsInv
<1>1. /\ TableOK(table', released \cup inherited, inherited, {})
      /\ \A o \in Objects : o # v /\ o # w => table'.fd[o] = table.fd[o]
  BY MoveAssignOK DEF Move, TableKept
<1>2. TableKept'
  BY <1>1, TableStep DEF Move, TableKept
<1> QED
  BY <1>1, <1>2, SharersStep DEF Move

LEMMA ResetInv ==
  ASSUME DescriptorsInv, NEW v \in Vars, Reset(v) PROVE DescriptorsInv'
<1> USE ObjectsDistinct DEF DescriptorsInv
<1>1. /\ TableOK(table', released \cup inherited, inherited, {})
      /\ table'.fd = [table.fd EXCEPT ![v] = None]
  BY DestroyOK DEF Reset, TableKept
<1>2. \A o \in Objects : o # v => table'.fd[o] = table.fd[o]
  BY <1>1 DEF TableKept, TableOK, Tables
<1>3. TableKept'
  BY <1>1, <1>2, TableStep DEF Reset, TableKept
<1> QED
  BY <1>2, <1>3, SharersStep DEF Reset

LEMMA ReleaseVarInv ==
  ASSUME DescriptorsInv, NEW v \in Vars, ReleaseVar(v) PROVE DescriptorsInv'
<1> USE ObjectsDistinct DEF DescriptorsInv
<1>1. /\ TableOK(table', (released \cup inherited) \cup {table.fd[v]}, inherited, {})
      /\ table'.fd = [table.fd EXCEPT ![v] = None]
  BY ReleaseOK DEF ReleaseVar, TableKept
<1>2. \A o \in Objects : o # v => table'.fd[o] = table.fd[o]
  BY <1>1 DEF TableKept, TableOK, Tables
<1>3. table.fd[v] \notin inherited
  BY DEF TableKept, TableOK, OneOwner
<1>4. released' \cup inherited' = (released \cup inherited) \cup {table.fd[v]} /\ inherited' = inherited
  BY DEF ReleaseVar
<1>5. TableOK(table', released' \cup inherited', inherited', {})
  BY <1>1, <1>4
<1>6. released' \cap inherited' = {}
  BY <1>3 DEF TableKept, ReleaseVar
<1>7. \A o \in Locals : table'.fd[o] = None
  BY <1>2 DEF TableKept
<1>8. TableKept'
  BY <1>5, <1>6, <1>7 DEF TableKept, ReleaseVar
<1> QED
  BY <1>2, <1>8, SharersStep DEF ReleaseVar

LEMMA AdoptInv ==
  ASSUME DescriptorsInv, NEW v \in Vars, NEW d \in released, Adopt(v, d) PROVE DescriptorsInv'
<1> USE ObjectsDistinct DEF DescriptorsInv
<1> DEFINE E == (released \cup inherited) \ {d}    u == [table EXCEPT !.fd["ret"] = d]
<1>1. "ret" \in Locals
  BY DEF Locals
<1>2. TableOK(table, released \cup inherited, inherited, {}) /\ d \in (released \cup inherited) \ inherited
  BY DEF TableKept
<1>3. TableOK(u, E, inherited, {}) /\ u.fd = [table.fd EXCEPT !["ret"] = d]
  BY <1>1, <1>2, AdoptOK DEF TableKept
<1>4. \A o \in Objects : o # "ret" => u.fd[o] = table.fd[o]
  BY <1>3 DEF TableKept, TableOK, Tables
<1> HIDE DEF u
<1>5. /\ TableOK(MoveAssign(u, v, "ret"), E, inherited, {})
      /\ \A o \in Objects : MoveAssign(u, v, "ret").fd[o] =
           IF o = v THEN u.fd["ret"] ELSE IF o = "ret" THEN None ELSE u.fd[o]
  <2>1. v \in Objects /\ "ret" \in Objects \ {}
    BY <1>1
  <2>2. TableOK(u, E, inherited, {})
    BY <1>3
  <2> HIDE DEF E
  <2> QED
    BY <2>1, <2>2, MoveAssignOK
<1>6. table' = MoveAssign(u, v, "ret")
  BY DEF Adopt, u
<1>7. /\ \A o \in Locals : table'.fd[o] = None
      /\ \A o \in Blocks \cup {Member} : table'.fd[o] = table.fd[o]
  BY <1>1, <1>4, <1>5, <1>6 DEF TableKept
<1>8. released' \cup inherited' = E /\ inherited' = inherited
  BY <1>2 DEF Adopt
<1>9. TableKept'
  BY <1>5, <1>6, <1>7, <1>8 DEF TableKept, Adopt
<1> QED
  BY <1>7, <1>9, SharersStep DEF Adopt

LEMMA TakeoverInv ==
  ASSUME DescriptorsInv, takeover_socket_activated_fds PROVE DescriptorsInv'
<1> USE ObjectsDistinct DEF DescriptorsInv
<1> DEFINE fd(i) == Min(Fds) + i
<1>1. PICK f \in [0 .. listen - 1 -> Vars] :
        /\ IsInjective(f) /\ \A i \in DOMAIN f : table.fd[f[i]] = None
        /\ table' = [flags |-> [d \in Fds |-> IF \E i \in DOMAIN f : fd(i) = d
                                              THEN table.flags[d] \cup {"cloexec"} ELSE table.flags[d]],
                     fd |-> [o \in Objects |-> IF \E i \in DOMAIN f : f[i] = o
                                               THEN fd(CHOOSE i \in DOMAIN f : f[i] = o)
                                               ELSE table.fd[o]]]
  BY DEF takeover_socket_activated_fds
<1>2. inherited' = {} /\ listen' = 0 /\ released' = released
  BY DEF takeover_socket_activated_fds
<1> DEFINE S == 0 .. listen - 1
<1>3. Cardinality(Vars) \in Nat /\ listen \in Nat /\ listen <= Cardinality(Vars)
  BY DescriptorsAssumption, FS_CardinalityType DEF TableKept
<1>4. \A i \in S : fd(i) \in Fds /\ fd(i) \in Nat
  <2>1. \A i \in 0 .. Cardinality(Vars) - 1 : fd(i) \in Fds
    BY DescriptorsAssumption
  <2>2. S \subseteq 0 .. Cardinality(Vars) - 1
    BY <1>3
  <2> HIDE DEF fd, S
  <2> QED
    BY <2>1, <2>2, DescriptorsAssumption
<1>5. S # {} => Min(Fds) \in Fds /\ \A d \in Fds : Min(Fds) <= d
  BY <1>4, MinOfNaturals, DescriptorsAssumption
<1>6. \A d \in Fds : d \in inherited <=> \E i \in S : fd(i) = d
  <2>1. ASSUME NEW i \in S PROVE fd(i) \in inherited
    <3>1. Min(Fds) \in Nat /\ i \in 0 .. listen - 1 /\ fd(i) \in Fds
      BY <1>4, <1>5, <2>1, DescriptorsAssumption
    <3>2. Min(Fds) + i < Min(Fds) + listen
      BY <1>3, <3>1
    <3> QED
      BY <3>1, <3>2 DEF TableKept
  <2>2. ASSUME NEW d \in inherited PROVE \E i \in S : fd(i) = d
    <3>1. d \in Nat /\ d \in Fds /\ d < Min(Fds) + listen
      BY DescriptorsAssumption DEF TableKept
    <3>2. Min(Fds) \in Nat /\ Min(Fds) <= d
      BY <3>1, MinOfNaturals, DescriptorsAssumption
    <3>3. d - Min(Fds) \in S /\ fd(d - Min(Fds)) = d
      BY <1>3, <3>1, <3>2
    <3> QED
      BY <3>3
  <2> QED
    BY <2>1, <2>2
<1>7. \A i, j \in S : fd(i) = fd(j) => i = j
  <2> SUFFICES ASSUME NEW i \in S, NEW j \in S, fd(i) = fd(j) PROVE i = j
    OBVIOUS
  <2>1. i \in Int /\ j \in Int
    BY <1>3
  <2>2. Min(Fds) \in Fds
    <3> HIDE DEF S
    <3> QED
      BY <1>5
  <2>3. Min(Fds) \in Nat
    BY <2>2, DescriptorsAssumption
  <2> QED
    BY <2>1, <2>3
<1>8. \A i, j \in S : f[i] = f[j] => i = j
  BY <1>1 DEF IsInjective
<1> HIDE DEF fd
<1>9. /\ \A i \in S : table'.fd[f[i]] = fd(i)
      /\ \A o \in Objects : (\A i \in S : f[i] # o) => table'.fd[o] = table.fd[o]
      /\ \A d \in Fds : table'.flags[d] = IF d \in inherited THEN table.flags[d] \cup {"cloexec"} ELSE table.flags[d]
      /\ table' \in Tables
  <2>1. \A i \in S : (CHOOSE j \in S : f[j] = f[i]) = i
    BY <1>8
  <2>2. \A i \in S : f[i] \in Vars /\ f[i] \in Objects
    BY <1>1
  <2>3. DOMAIN f = S
    BY <1>1
  <2>4. table'.fd = [o \in Objects |-> IF \E i \in S : f[i] = o
                                      THEN fd(CHOOSE i \in S : f[i] = o) ELSE table.fd[o]]
    BY <1>1, <2>3
  <2>5. \A o \in Objects : (\E i \in S : f[i] = o) => fd(CHOOSE i \in S : f[i] = o) \in Fds
    BY <1>4, <2>1
  <2>6. table'.flags \in [Fds -> SUBSET Flags]
    BY <1>1 DEF TableKept, TableOK, Tables, Flags
  <2>7. table'.fd \in [Objects -> Fds \cup {None}]
    BY <2>4, <2>5 DEF TableKept, TableOK, Tables
  <2>8. table' = [flags |-> table'.flags, fd |-> table'.fd]
    BY <1>1
  <2>9. table' \in Tables
    BY <2>6, <2>7, <2>8 DEF Tables
  <2>10. \A i \in S : table'.fd[f[i]] = fd(i)
    BY <2>1, <2>2, <2>4
  <2>11. \A d \in Fds : table'.flags[d] =
           IF d \in inherited THEN table.flags[d] \cup {"cloexec"} ELSE table.flags[d]
    BY <1>1, <1>6, <2>3
  <2> QED
    <3>1. \A o \in Objects : (\A i \in S : f[i] # o) => table'.fd[o] = table.fd[o]
      BY <2>4
    <3> QED
      BY <2>9, <2>10, <2>11, <3>1
<1>10. OneOwner(table', released')
  <2>1. ASSUME NEW d \in Fds
        PROVE  table'.flags[d] # Closed <=> d \in released' \/ \E o \in Objects : table'.fd[o] = d
    <3>1. CASE d \in inherited
      <4>1. PICK i \in S : fd(i) = d
        BY <1>6, <3>1
      <4>2. table'.fd[f[i]] = d /\ f[i] \in Objects
        BY <1>1, <1>9, <4>1
      <4>3. table'.flags[d] # Closed
        <5>1. "cloexec" \in table'.flags[d] /\ "cloexec" \notin Closed
          BY <1>9, <3>1 DEF Closed
        <5> QED
          BY <5>1
      <4> QED
        BY <4>2, <4>3
    <3>2. CASE d \notin inherited
      <4>1. \A o \in Objects : table.fd[o] = d <=> table'.fd[o] = d
        <5>1. ASSUME NEW o \in Objects, \A i \in S : f[i] # o PROVE table'.fd[o] = table.fd[o]
          BY <1>9, <5>1
        <5>2. ASSUME NEW i \in S PROVE table.fd[f[i]] # d /\ table'.fd[f[i]] # d
          BY <1>1, <1>6, <1>9, <3>2
        <5> QED
          BY <5>1, <5>2
      <4> QED
        BY <1>2, <1>9, <3>2, <4>1 DEF TableKept, TableOK, OneOwner
    <3> QED
      BY <3>1, <3>2
  <2>2. ASSUME NEW o \in Objects, NEW p \in Objects, table'.fd[o] = table'.fd[p], table'.fd[o] # None
        PROVE  o = p
    <3>1. ASSUME NEW i \in S, NEW q \in Objects, \A j \in S : f[j] # q
          PROVE  table'.fd[f[i]] # table'.fd[q]
      BY <1>6, <1>4, <1>9, <3>1 DEF TableKept, TableOK, OneOwner
    <3>2. CASE \E i \in S, j \in S : f[i] = o /\ f[j] = p
      BY <1>7, <1>9, <2>2, <3>2
    <3>3. CASE (\A i \in S : f[i] # o) /\ (\A i \in S : f[i] # p)
      BY <1>9, <2>2, <3>3 DEF TableKept, TableOK, OneOwner
    <3> QED
      BY <2>2, <3>1, <3>2, <3>3
  <2>3. ASSUME NEW o \in Objects PROVE table'.fd[o] \notin released'
    <3>1. CASE \A i \in S : f[i] # o
      BY <1>2, <1>9, <3>1 DEF TableKept, TableOK, OneOwner
    <3>2. ASSUME NEW i \in S, f[i] = o PROVE table'.fd[o] \notin released'
      BY <1>2, <1>4, <1>6, <1>9, <3>2 DEF TableKept
    <3> QED
      BY <3>1, <3>2
  <2> QED
    BY <2>1, <2>2, <2>3 DEF OneOwner
<1>11. Prepared(table', {}, {})
  <2> SUFFICES ASSUME NEW d \in Fds, table'.flags[d] # Closed
               PROVE  "cloexec" \in table'.flags[d] /\ table'.flags[d] \cap {"nonblock", "activated"} # {}
    BY DEF Prepared
  <2>1. table.flags[d] # Closed
    BY <1>9 DEF TableKept, TableOK, OneOwner
  <2>2. table.flags[d] \cap {"nonblock", "activated"} # {} /\ (d \notin inherited => "cloexec" \in table.flags[d])
    BY <2>1 DEF Prepared, TableKept, TableOK
  <2> QED
    BY <1>9, <2>2
<1>12. \A o \in Objects : o \notin Vars => table'.fd[o] = table.fd[o]
  BY <1>1, <1>9
<1>13. TableKept'
  <2>1. \A d \in Fds : ~(d < Min(Fds) + 0)
    <3> SUFFICES ASSUME NEW d \in Fds PROVE ~(d < Min(Fds) + 0)
      OBVIOUS
    <3>1. Min(Fds) \in Nat /\ d \in Nat /\ Min(Fds) <= d
      BY MinOfNaturals, DescriptorsAssumption
    <3> QED
      BY <3>1
  <2> QED
    BY <1>2, <1>3, <1>9, <1>10, <1>11, <1>12, <2>1 DEF TableKept, TableOK
<1> QED
  BY <1>12, <1>13, SharersStep DEF takeover_socket_activated_fds

-----------------------------------------------------------------------------
(* Shared descriptors, with the jobs that watch one.                         *)

LEMMA ShareInv ==
  ASSUME DescriptorsInv, NEW v \in Vars, NEW b \in Blocks, Share(v, b) PROVE DescriptorsInv'
<1> USE ObjectsDistinct DEF DescriptorsInv
<1>1. TableOK(table, released \cup inherited, inherited, {}) /\ table.fd[b] = None /\ v # b
  BY DEF TableKept, BlocksKept, Share
<1>2. /\ TableOK(table', released \cup inherited, inherited, {})
      /\ table'.fd = [table.fd EXCEPT ![v] = None, ![b] = table.fd[v]]
  <2>1. v \in Objects \ {} /\ b \in Objects
    OBVIOUS
  <2> QED
    BY <1>1, <2>1, MoveConstructOK DEF Share
<1>3. \A o \in Objects : o # v /\ o # b => table'.fd[o] = table.fd[o]
  BY <1>2 DEF TableKept, TableOK, Tables
<1>4. TableKept'
  <2>1. \A o \in Locals : table'.fd[o] = None
    BY <1>3 DEF TableKept
  <2> QED
    BY <1>2, <2>1, TableStep DEF Share
<1>5. BlocksKept'
  BY <1>3 DEF Share, BlocksKept
<1>6. AcceptorKept'
  BY <1>3 DEF Share, AcceptorKept
<1> QED
  BY <1>4, <1>5, <1>6

LEMMA CopyInv ==
  ASSUME DescriptorsInv, NEW b \in Blocks, Copy(b) PROVE DescriptorsInv'
<1> USE ObjectsDistinct DEF DescriptorsInv
<1>1. TableKept'
  BY TableStep DEF Copy, TableKept
<1>2. BlocksKept'
  BY DEF Copy, BlocksKept, MaxRefs
<1>3. AcceptorKept'
  BY DEF Copy, AcceptorKept
<1> QED
  BY <1>1, <1>2, <1>3

LEMMA DestroyUnreferencedTable ==
  ASSUME TableKept, NEW b \in Blocks, DestroyUnreferenced(b), NotRaw
  PROVE  /\ TableKept'
         /\ \A o \in Objects : table'.fd[o] = IF o = b /\ Unreferenced(b) THEN None ELSE table.fd[o]
<1> USE ObjectsDistinct
<1>1. CASE Unreferenced(b)
  <2>1. /\ TableOK(table', released \cup inherited, inherited, {})
        /\ table'.fd = [table.fd EXCEPT ![b] = None]
    BY <1>1, DestroyOK DEF DestroyUnreferenced, TableKept
  <2>2. \A o \in Objects : table'.fd[o] = IF o = b THEN None ELSE table.fd[o]
    BY <2>1 DEF TableKept, TableOK, Tables
  <2>3. \A o \in Locals : table'.fd[o] = None
    BY <2>2 DEF TableKept
  <2> QED
    BY <1>1, <2>1, <2>2, <2>3, TableStep
<1>2. CASE ~Unreferenced(b)
  BY <1>2, TableStep DEF DestroyUnreferenced, TableKept
<1> QED
  BY <1>1, <1>2

LEMMA DropCopyInv ==
  ASSUME DescriptorsInv, NEW b \in Blocks, DropCopy(b) PROVE DescriptorsInv'
<1> USE ObjectsDistinct DEF DescriptorsInv
<1>1. /\ TableKept'
      /\ \A o \in Objects : table'.fd[o] = IF o = b /\ Unreferenced(b) THEN None ELSE table.fd[o]
  BY DestroyUnreferencedTable DEF DropCopy
<1>2. BlocksKept'
  BY <1>1 DEF DropCopy, BlocksKept, Unreferenced
<1>3. AcceptorKept'
  BY <1>1 DEF DropCopy, AcceptorKept
<1> QED
  BY <1>1, <1>2, <1>3

LEMMA StartJobInv ==
  ASSUME DescriptorsInv, NEW b \in Blocks, StartJob(b) PROVE DescriptorsInv'
<1> USE ObjectsDistinct DEF DescriptorsInv
<1>1. TableKept'
  BY TableStep DEF StartJob, TableKept
<1>2. BlocksKept'
  BY DEF StartJob, BlocksKept, TableKept, TableOK, Tables
<1>3. AcceptorKept'
  BY DEF StartJob, AcceptorKept
<1> QED
  BY <1>1, <1>2, <1>3

LEMMA EndJobInv ==
  ASSUME DescriptorsInv, NEW b \in Blocks, EndJob(b) PROVE DescriptorsInv'
<1> USE ObjectsDistinct DEF DescriptorsInv
<1>1. /\ TableKept'
      /\ \A o \in Objects : table'.fd[o] = IF o = b /\ Unreferenced(b) THEN None ELSE table.fd[o]
  BY DestroyUnreferencedTable DEF EndJob
<1>2. BlocksKept'
  BY <1>1 DEF EndJob, BlocksKept, Unreferenced
<1>3. AcceptorKept'
  BY <1>1 DEF EndJob, AcceptorKept
<1> QED
  BY <1>1, <1>2, <1>3

LEMMA WriteDatagramInv ==
  ASSUME DescriptorsInv, NEW b \in Blocks, WriteDatagram(b) PROVE DescriptorsInv'
<1> USE ObjectsDistinct DEF DescriptorsInv
<1> DEFINE E == released \cup inherited
<1>1. PICK t \in open_connected_datagram_socket(table) :
        /\ table' = IF t.fd["ret"] = None THEN t ELSE MoveConstruct(t, b, "ret")
        /\ job' = [job EXCEPT ![b] = t.fd["ret"]]
  BY DEF WriteDatagram
<1>2. "ret" \in Locals /\ "ret" \in Objects \ {} /\ b \in Objects /\ b # "ret"
  BY DEF Locals
<1>3. TableOK(table, E, inherited, {}) /\ table.fd["ret"] = None /\ table.fd[b] = None
  BY <1>2 DEF TableKept, BlocksKept, WriteDatagram
<1>4. TableOK(t, E, inherited, {}) /\ \A o \in Objects : o # "ret" => t.fd[o] = table.fd[o]
  BY <1>3, FdFunctionsOK
<1>5. t.fd["ret"] \in Fds \cup {None}
  BY <1>2, <1>4 DEF TableOK, Tables
<1>6. /\ TableOK(table', E, inherited, {})
      /\ \A o \in Objects : table'.fd[o] = IF o = b THEN t.fd["ret"] ELSE table.fd[o]
  <2>1. CASE t.fd["ret"] = None
    BY <1>1, <1>3, <1>4, <2>1
  <2>2. CASE t.fd["ret"] # None
    <3>1. t.fd[b] = None
      BY <1>2, <1>3, <1>4
    <3> HIDE DEF E
    <3>2. /\ TableOK(MoveConstruct(t, b, "ret"), E, inherited, {})
          /\ MoveConstruct(t, b, "ret").fd = [t.fd EXCEPT !["ret"] = None, ![b] = t.fd["ret"]]
      BY <1>2, <1>4, <3>1, MoveConstructOK
    <3> QED
      BY <1>1, <1>2, <1>3, <1>4, <2>2, <3>2 DEF TableOK, Tables
  <2> QED
    BY <2>1, <2>2
<1>7. TableKept'
  <2>1. \A o \in Locals : table'.fd[o] = None
    BY <1>6 DEF TableKept
  <2> QED
    BY <1>6, <2>1, TableStep DEF WriteDatagram
<1>8. BlocksKept'
  BY <1>1, <1>5, <1>6 DEF WriteDatagram, BlocksKept
<1>9. AcceptorKept'
  BY <1>6 DEF WriteDatagram, AcceptorKept
<1> QED
  BY <1>7, <1>8, <1>9

(* A descriptor that is opened for a new shared_fd.                          *)
LEMMA NewSharedInv ==
  ASSUME DescriptorsInv, NEW b \in Blocks, NEW copies \in Nat, Free(table) # {},
         NewShared(Open(table, b, Standard), b, copies), UNCHANGED acceptor, NotRaw
  PROVE  DescriptorsInv'
<1> USE ObjectsDistinct DEF DescriptorsInv
<1> DEFINE E == released \cup inherited    t == Open(table, b, Standard)
<1>1. TableOK(table, E, inherited, {}) /\ table.fd[b] = None /\ b \in Objects
  BY DEF TableKept, BlocksKept, NewShared
<1>2. Standard \in SUBSET Flags /\ "cloexec" \in Standard /\ "nonblock" \in Standard
  BY DEF Standard, Flags
<1> HIDE DEF E
<1>3. /\ TableOK(t, E, inherited, {})
      /\ \E d \in Free(table) : t.fd = [table.fd EXCEPT ![b] = d]
  BY <1>1, <1>2, OpenOK
<1>4. \A o \in Objects : o # b => t.fd[o] = table.fd[o]
  BY <1>1, <1>3 DEF TableOK, Tables
<1> HIDE DEF t
<1>5. TableOK(destroy_fd(t, b), E, inherited, {}) /\ destroy_fd(t, b).fd = [t.fd EXCEPT ![b] = None]
  BY <1>1, <1>3, DestroyOK
<1>6. table' = IF copies = 0 THEN destroy_fd(t, b) ELSE t
  BY DEF NewShared, t
<1>7. /\ TableOK(table', E, inherited, {})
      /\ \A o \in Objects : o # b => table'.fd[o] = table.fd[o]
      /\ copies = 0 => table'.fd[b] = None
  BY <1>1, <1>3, <1>4, <1>5, <1>6 DEF TableOK, Tables
<1>8. TableKept'
  <2>1. \A o \in Locals : table'.fd[o] = None
    BY <1>7 DEF TableKept
  <2> QED
    BY <1>7, <2>1, TableStep DEF E
<1>9. BlocksKept'
  BY <1>7 DEF NewShared, BlocksKept
<1>10. AcceptorKept'
  BY <1>7 DEF AcceptorKept
<1> QED
  BY <1>8, <1>9, <1>10

LEMMA AcceptorNotifiedInv ==
  ASSUME DescriptorsInv, AcceptorNotified PROVE DescriptorsInv'
<1>1. CASE UNCHANGED <<table, refs, job>>
  <2>1. TableKept'
    BY <1>1, TableStep DEF AcceptorNotified, DescriptorsInv, TableKept
  <2> QED
    BY <1>1, <2>1 DEF AcceptorNotified, DescriptorsInv, BlocksKept, AcceptorKept
<1>2. ASSUME NEW b \in Blocks, NEW copies \in 0 .. MaxRefs,
             Free(table) # {}, NewShared(Open(table, b, Standard), b, copies)
      PROVE  DescriptorsInv'
  <2>1. copies \in Nat
    BY DEF MaxRefs
  <2> QED
    BY <1>2, <2>1, NewSharedInv DEF AcceptorNotified
<1> QED
  BY <1>1, <1>2 DEF AcceptorNotified

LEMMA SignalWatcherInv ==
  ASSUME DescriptorsInv, NEW b \in Blocks, make_signal_watcher(b) PROVE DescriptorsInv'
<1>1. CASE UNCHANGED <<table, refs, job>>
  <2>1. TableKept'
    BY <1>1, TableStep DEF make_signal_watcher, DescriptorsInv, TableKept
  <2> QED
    BY <1>1, <2>1 DEF make_signal_watcher, DescriptorsInv, BlocksKept, AcceptorKept
<1>2. CASE Free(table) # {} /\ NewShared(Open(table, b, Standard), b, 1)
  BY <1>2, NewSharedInv DEF make_signal_watcher
<1> QED
  BY <1>1, <1>2 DEF make_signal_watcher

-----------------------------------------------------------------------------
(* Acceptors.                                                                *)

LEMMA MakeAcceptorInv ==
  ASSUME DescriptorsInv, NEW class \in Classes, NEW v \in Vars, MakeAcceptor(class, v)
  PROVE  DescriptorsInv'
<1> USE ObjectsDistinct DEF DescriptorsInv
<1>1. TableOK(table, released \cup inherited, inherited, {}) /\ table.fd[Member] = None
  BY DEF TableKept, AcceptorKept, MakeAcceptor, NoAcceptor
<1>2. /\ TableOK(table', released \cup inherited, inherited, {})
      /\ table'.fd = [table.fd EXCEPT ![v] = None, ![Member] = table.fd[v]]
  <2>1. v \in Objects \ {} /\ Member \in Objects /\ v # Member
    OBVIOUS
  <2> QED
    BY <1>1, <2>1, MoveConstructOK DEF MakeAcceptor
<1>3. \A o \in Objects : o # v /\ o # Member => table'.fd[o] = table.fd[o]
  BY <1>2 DEF TableKept, TableOK, Tables
<1>4. TableKept'
  <2>1. \A o \in Locals : table'.fd[o] = None
    BY <1>3 DEF TableKept
  <2> QED
    BY <1>2, <2>1, TableStep DEF MakeAcceptor
<1>5. BlocksKept'
  BY <1>3 DEF MakeAcceptor, BlocksKept
<1>6. AcceptorKept'
  <2>1. table'.fd[Member] \in Fds \cup {None}
    BY <1>2 DEF TableOK, Tables
  <2>2. class # "none"
    BY DEF Classes
  <2> QED
    BY <2>1, <2>2 DEF MakeAcceptor, AcceptorKept
<1> QED
  BY <1>4, <1>5, <1>6

LEMMA DropAcceptorInv ==
  ASSUME DescriptorsInv, DropAcceptor PROVE DescriptorsInv'
<1> USE ObjectsDistinct DEF DescriptorsInv
<1>1. /\ TableOK(table', released \cup inherited, inherited, {})
      /\ table'.fd = [table.fd EXCEPT ![Member] = None]
  BY DestroyOK DEF DropAcceptor, TableKept
<1>2. \A o \in Objects : table'.fd[o] = IF o = Member THEN None ELSE table.fd[o]
  BY <1>1 DEF TableKept, TableOK, Tables
<1>3. TableKept'
  <2>1. \A o \in Locals : table'.fd[o] = None
    BY <1>2 DEF TableKept
  <2> QED
    BY <1>1, <2>1, TableStep DEF DropAcceptor
<1>4. BlocksKept'
  BY <1>2 DEF DropAcceptor, BlocksKept
<1>5. AcceptorKept'
  BY <1>2 DEF DropAcceptor, AcceptorKept, NoAcceptor
<1> QED
  BY <1>3, <1>4, <1>5

-----------------------------------------------------------------------------
(* Commands: until the pipes' ends are moved or destroyed they may block.    *)

LEMMA PipeOK ==
  ASSUME NEW E, NEW I, NEW t, TableOK(t, E, I, PipeEnds),
         NEW o1 \in PipeEnds, NEW o2 \in PipeEnds, o1 # o2,
         t.fd[o1] = None, t.fd[o2] = None, Cardinality(Free(t)) >= 2
  PROVE  /\ TableOK(try_create_pipe(t, o1, o2), E, I, PipeEnds)
         /\ Cardinality(Free(try_create_pipe(t, o1, o2))) = Cardinality(Free(t)) - 2
         /\ \A o \in Objects \ {o1, o2} : try_create_pipe(t, o1, o2).fd[o] = t.fd[o]
<1> DEFINE f == {"cloexec"}    u == Open(t, o1, f)    w == Open(u, o2, f)
<1>1. o1 \in Objects /\ o2 \in Objects /\ f \in SUBSET Flags /\ "cloexec" \in f
  BY DEF PipeEnds, SubprocessEnds, Objects, Locals, Flags
<1>2. Free(t) # {} /\ Cardinality(Free(t)) \in Nat
  BY FreeCounted
<1> HIDE DEF f
<1>0. \A x, o : TableOK(x, E, I, PipeEnds) /\ o \in Objects /\ o \in PipeEnds /\ x.fd[o] = None /\ Free(x) # {} =>
        /\ TableOK(Open(x, o, f), E, I, PipeEnds)
        /\ \E d \in Free(x) : Open(x, o, f).fd = [x.fd EXCEPT ![o] = d] /\ d \in Fds
        /\ Cardinality(Free(Open(x, o, f))) = Cardinality(Free(x)) - 1
  BY <1>1, OpenOK
<1>3. /\ TableOK(u, E, I, PipeEnds)
      /\ \E d \in Free(t) : u.fd = [t.fd EXCEPT ![o1] = d] /\ d \in Fds
      /\ Cardinality(Free(u)) = Cardinality(Free(t)) - 1
  BY <1>0, <1>1, <1>2
<1> HIDE DEF u
<1>4. Free(u) # {} /\ u.fd[o2] = None
  BY <1>1, <1>2, <1>3, FreeCounted DEF TableOK, Tables
<1>5. /\ TableOK(w, E, I, PipeEnds)
      /\ \E d \in Free(u) : w.fd = [u.fd EXCEPT ![o2] = d] /\ d \in Fds
      /\ Cardinality(Free(w)) = Cardinality(Free(u)) - 1
  <2>1. TableOK(u, E, I, PipeEnds) /\ o2 \in Objects /\ o2 \in PipeEnds /\ u.fd[o2] = None /\ Free(u) # {}
    BY <1>1, <1>3, <1>4
  <2> QED
    BY <1>0, <2>1
<1>6. w = try_create_pipe(t, o1, o2)
  BY DEF try_create_pipe, u, f
<1> HIDE DEF w
<1>7. \A o \in Objects \ {o1, o2} : w.fd[o] = t.fd[o]
  BY <1>3, <1>5 DEF TableOK, Tables
<1>8. Cardinality(Free(w)) = Cardinality(Free(t)) - 2
  BY <1>2, <1>3, <1>5
<1> QED
  BY <1>5, <1>6, <1>7, <1>8

LEMMA CommandStepsOK ==
  ASSUME TableKept, NEW t \in CommandSteps
  PROVE  /\ TableOK(t, released \cup inherited, inherited, PipeEnds)
         /\ \A o \in Objects \ PipeEnds : t.fd[o] = table.fd[o]
<1> DEFINE E == released \cup inherited
           one  == try_create_pipe(table, "stdin0", "stdin1")
           both == try_create_pipe(one, "stdout0", "stdout1")
<1>1. /\ PipeEnds \subseteq Objects /\ PipeEnds \subseteq Locals
      /\ PipeEnds = {"stdin0", "stdin1", "stdout0", "stdout1"}
  BY DEF PipeEnds, SubprocessEnds, Objects, Locals
<1>2. TableOK(table, E, inherited, PipeEnds) /\ \A o \in PipeEnds : table.fd[o] = None
  BY <1>1 DEF TableKept, TableOK, Prepared
<1> HIDE DEF E
<1>3. ASSUME Cardinality(Free(table)) >= 2
      PROVE  /\ TableOK(one, E, inherited, PipeEnds)
             /\ Cardinality(Free(one)) = Cardinality(Free(table)) - 2
             /\ \A o \in Objects \ {"stdin0", "stdin1"} : one.fd[o] = table.fd[o]
  <2>1. /\ TableOK(table, E, inherited, PipeEnds)
        /\ "stdin0" \in PipeEnds /\ "stdin1" \in PipeEnds
        /\ table.fd["stdin0"] = None /\ table.fd["stdin1"] = None
    BY <1>1, <1>2
  <2> QED
    BY <1>3, <2>1, PipeOK
<1> HIDE DEF one
<1>4. ASSUME Cardinality(Free(table)) >= 4
      PROVE  /\ TableOK(both, E, inherited, PipeEnds)
             /\ \A o \in Objects \ {"stdout0", "stdout1"} : both.fd[o] = one.fd[o]
  <2>1. Cardinality(Free(table)) \in Nat
    BY FreeCounted
  <2>2. Cardinality(Free(one)) >= 2 /\ TableOK(one, E, inherited, PipeEnds)
    BY <1>3, <1>4, <2>1
  <2>3. one.fd["stdout0"] = None /\ one.fd["stdout1"] = None
    BY <1>1, <1>2, <1>3, <1>4, <2>1
  <2> QED
    <3>1. "stdout0" \in PipeEnds /\ "stdout1" \in PipeEnds
      BY <1>1
    <3> QED
      BY <2>2, <2>3, <3>1, PipeOK
<1> HIDE DEF both
<1>5. Cardinality(Free(table)) \in Nat
  BY FreeCounted
<1>6. \/ t = table
      \/ t = one /\ Cardinality(Free(table)) >= 2
      \/ t = both /\ Cardinality(Free(table)) >= 4
  BY <1>5 DEF CommandSteps, one, both
<1> QED
  BY <1>1, <1>2, <1>3, <1>4, <1>5, <1>6 DEF E

LEMMA CommandFailsInv ==
  ASSUME DescriptorsInv, CommandFails PROVE DescriptorsInv'
<1> USE ObjectsDistinct DEF DescriptorsInv
<1> DEFINE E == released \cup inherited
<1>1. PICK t \in CommandSteps : table' = DestroyAll(t, PipeEnds)
  BY DEF CommandFails
<1>2. PipeEnds \subseteq Locals
  BY DEF PipeEnds, SubprocessEnds, Locals
<1>3. TableOK(t, E, inherited, PipeEnds) /\ \A o \in Objects \ PipeEnds : t.fd[o] = table.fd[o]
  BY CommandStepsOK
<1> HIDE DEF E
<1>4. /\ TableOK(table', E, inherited, PipeEnds \ PipeEnds)
      /\ table'.fd = [o \in Objects |-> IF o \in PipeEnds THEN None ELSE t.fd[o]]
  BY <1>1, <1>2, <1>3, DestroyAllOK
<1>5. PipeEnds \ PipeEnds = {}
  OBVIOUS
<1>6. \A o \in Objects : table'.fd[o] = table.fd[o]
  BY <1>2, <1>3, <1>4 DEF TableKept
<1>7. TableKept'
  <2>1. \A o \in Locals : table'.fd[o] = None
    BY <1>6 DEF TableKept
  <2> QED
    BY <1>4, <1>5, <2>1, TableStep DEF CommandFails, E
<1> QED
  BY <1>6, <1>7, SharersStep DEF CommandFails

LEMMA CommandStartsInv ==
  ASSUME DescriptorsInv, NEW b \in Blocks, NEW c \in Blocks, CommandStarts(b, c)
  PROVE  DescriptorsInv'
<1> USE ObjectsDistinct DEF DescriptorsInv
<1> DEFINE E == released \cup inherited
<1>1. PICK t \in CommandSteps :
        /\ \A o \in PipeEnds : t.fd[o] # None
        /\ table' = DestroyAll(MoveConstruct(MoveConstruct(
                       try_set_nonblocking(try_set_nonblocking(t, "stdin1"), "stdout0"),
                       b, "stdout0"), c, "stdin1"), SubprocessEnds)
  BY DEF CommandStarts
<1> DEFINE t1 == try_set_nonblocking(t, "stdin1")
           t2 == try_set_nonblocking(t1, "stdout0")
           t3 == MoveConstruct(t2, b, "stdout0")
           t4 == MoveConstruct(t3, c, "stdin1")
           B1 == PipeEnds \ {"stdin1"}
           B2 == B1 \ {"stdout0"}
<1>2. /\ PipeEnds \subseteq Locals /\ PipeEnds = {"stdin0", "stdin1", "stdout0", "stdout1"}
      /\ SubprocessEnds \subseteq PipeEnds /\ B2 \ SubprocessEnds = {}
      /\ "stdin1" \in Objects \ B2 /\ "stdout0" \in Objects \ B2
      /\ "stdin1" \in PipeEnds \ SubprocessEnds /\ "stdout0" \in PipeEnds \ SubprocessEnds
  BY DEF PipeEnds, SubprocessEnds, Locals
<1>3. TableOK(t, E, inherited, PipeEnds) /\ \A o \in Objects \ PipeEnds : t.fd[o] = table.fd[o]
  BY CommandStepsOK
<1>4. b # c /\ b \in Objects \ Locals /\ c \in Objects \ Locals /\ t.fd[b] = None /\ t.fd[c] = None
  BY <1>2, <1>3 DEF CommandStarts, BlocksKept
<1> HIDE DEF E, B2
<1>5. TableOK(t1, E, inherited, B1) /\ t1.fd = t.fd
  BY <1>1, <1>2, <1>3, NonblockOK
<1> HIDE DEF B1, t1
<1>6. TableOK(t2, E, inherited, B2) /\ t2.fd = t.fd
  BY <1>1, <1>2, <1>5, NonblockOK DEF B2
<1> HIDE DEF t2
<1>7. /\ TableOK(t3, E, inherited, B2)
      /\ t3.fd = [t2.fd EXCEPT !["stdout0"] = None, ![b] = t2.fd["stdout0"]]
  BY <1>2, <1>4, <1>6, MoveConstructOK
<1> HIDE DEF t3
<1>8. \A o \in Objects : t3.fd[o] = IF o = b THEN t.fd["stdout0"] ELSE IF o = "stdout0" THEN None ELSE t.fd[o]
  BY <1>2, <1>4, <1>6, <1>7 DEF TableOK, Tables
<1>9. /\ TableOK(t4, E, inherited, B2)
      /\ t4.fd = [t3.fd EXCEPT !["stdin1"] = None, ![c] = t3.fd["stdin1"]]
  <2>1. t3.fd[c] = None
    BY <1>2, <1>4, <1>8
  <2>2. "stdin1" \in Objects \ B2 /\ c \in Objects /\ c # "stdin1" /\ TableOK(t3, E, inherited, B2)
    BY <1>2, <1>4, <1>7
  <2> QED
    BY <2>1, <2>2, MoveConstructOK
<1> HIDE DEF t4
<1>10. \A o \in Objects : t4.fd[o] = IF o = c THEN t3.fd["stdin1"] ELSE IF o = "stdin1" THEN None ELSE t3.fd[o]
  BY <1>2, <1>4, <1>7, <1>9 DEF TableOK, Tables
<1>11. /\ TableOK(table', E, inherited, {})
       /\ table'.fd = [o \in Objects |-> IF o \in SubprocessEnds THEN None ELSE t4.fd[o]]
  <2>1. table' = DestroyAll(t4, SubprocessEnds)
    BY <1>1 DEF t4, t3, t2, t1
  <2>2. SubprocessEnds \subseteq Objects
    BY <1>2
  <2> QED
    <3>1. TableOK(t4, E, inherited, B2) /\ SubprocessEnds \in SUBSET Objects
      BY <1>9, <2>2
    <3>2. /\ TableOK(DestroyAll(t4, SubprocessEnds), E, inherited, B2 \ SubprocessEnds)
          /\ DestroyAll(t4, SubprocessEnds).fd = [o \in Objects |-> IF o \in SubprocessEnds THEN None ELSE t4.fd[o]]
      BY <3>1, DestroyAllOK
    <3> QED
      BY <1>2, <2>1, <3>2
<1>12. \A o \in Objects : o \notin {b, c} => table'.fd[o] = table.fd[o]
  <2>1. \A o \in PipeEnds : table.fd[o] = None
    BY <1>2 DEF TableKept
  <2>2. ASSUME NEW o \in Objects \ PipeEnds, o \notin {b, c} PROVE table'.fd[o] = table.fd[o]
    BY <1>2, <1>3, <1>8, <1>10, <1>11, <2>2
  <2>3. ASSUME NEW o \in PipeEnds PROVE table'.fd[o] = None
    <3>1. o \in Objects /\ o # b /\ o # c
      BY <1>2, <1>4
    <3>2. CASE o \in SubprocessEnds
      BY <1>11, <3>1, <3>2
    <3>3. CASE o \notin SubprocessEnds
      <4>1. o = "stdin1" \/ o = "stdout0"
        BY <3>3 DEF PipeEnds
      <4> QED
        BY <1>8, <1>10, <1>11, <3>1, <3>3, <4>1
    <3> QED
      BY <3>2, <3>3
  <2> QED
    BY <2>1, <2>2, <2>3
<1>13. TableKept'
  <2>1. \A o \in Locals : table'.fd[o] = None
    BY <1>4, <1>12 DEF TableKept
  <2> QED
    BY <1>11, <2>1, TableStep DEF CommandStarts, E
<1>14. BlocksKept'
  BY <1>12 DEF CommandStarts, BlocksKept
<1>15. AcceptorKept'
  BY <1>12 DEF CommandStarts, AcceptorKept
<1> QED
  BY <1>13, <1>14, <1>15

-----------------------------------------------------------------------------
LEMMA DescriptorsNextInv == DescriptorsInv /\ [DescriptorsNext]_descriptor_vars => DescriptorsInv'
<1> SUFFICES ASSUME DescriptorsInv, [DescriptorsNext]_descriptor_vars PROVE DescriptorsInv'
  OBVIOUS
<1>1. CASE UNCHANGED descriptor_vars
  BY <1>1 DEF descriptor_vars, DescriptorsInv, TableKept, BlocksKept, AcceptorKept, TableOK, Tables,
     OneOwner, Prepared, Closed
<1>2. CASE DescriptorsNext
  BY <1>2, OpenIntoInv, OpenPipeInv, MoveInv, ResetInv, ReleaseVarInv, AdoptInv, TakeoverInv, ShareInv,
     CopyInv, DropCopyInv, StartJobInv, EndJobInv, WriteDatagramInv, SignalWatcherInv, MakeAcceptorInv,
     DropAcceptorInv, AcceptorNotifiedInv, CommandFailsInv, CommandStartsInv
  DEF DescriptorsNext
<1> QED
  BY <1>1, <1>2

LEMMA DescriptorsInvariant == DescriptorsSpec => []DescriptorsInv
  BY DescriptorsInitInv, DescriptorsNextInv, PTL DEF DescriptorsSpec

LEMMA OwnersCounted == DescriptorsInv => DescriptorsOwnedOnce
<1> SUFFICES ASSUME DescriptorsInv PROVE DescriptorsOwnedOnce
  OBVIOUS
<1> USE ObjectsDistinct
<1>1. ASSUME NEW d \in Fds PROVE Owners(d) = IF IsOpen(d) THEN 1 ELSE 0
  <2> DEFINE S == {o \in Objects : table.fd[o] = d}
  <2>1. /\ IsOpen(d) <=> d \in released \/ d \in inherited \/ S # {}
        /\ d \in released => d \notin inherited
        /\ d \in released \/ d \in inherited => S = {}
    BY DEF DescriptorsInv, TableKept, TableOK, OneOwner, IsOpen
  <2>2. Cardinality(S) = IF S = {} THEN 0 ELSE 1
    <3>1. CASE S = {}
      BY <3>1, FS_EmptySet
    <3>2. CASE S # {}
      <4>1. PICK o \in S : TRUE
        BY <3>2
      <4>2. S = {o}
        BY <4>1 DEF DescriptorsInv, TableKept, TableOK, OneOwner
      <4> QED
        BY <3>2, <4>2, FS_Singleton
    <3> QED
      BY <3>1, <3>2
  <2> HIDE DEF S
  <2> QED
    BY <2>1, <2>2 DEF Owners, S
<1> QED
  BY <1>1 DEF DescriptorsOwnedOnce, DescriptorsInv, BlocksKept, AcceptorKept

(* A descriptor is closed once, by its one owner, whatever is moved,        *)
(* shared, released or destroyed and whichever step of opening it fails; a  *)
(* watch sees the descriptor of its owner only.                              *)
THEOREM OwnedOnce == DescriptorsSpec => []DescriptorsOwnedOnce
  BY DescriptorsInvariant, OwnersCounted, PTL

LEMMA InvPrepared == DescriptorsInv => DescriptorsPrepared
<1> SUFFICES ASSUME DescriptorsInv PROVE DescriptorsPrepared
  OBVIOUS
<1> USE ObjectsDistinct
<1>1. \A d \in Fds : IsOpen(d) => /\ d \notin inherited => "cloexec" \in table.flags[d]
                                 /\ table.flags[d] \cap {"nonblock", "activated"} # {}
  BY DEF DescriptorsInv, TableKept, TableOK, Prepared, IsOpen
<1>2. \A d \in Fds : (\E b \in Blocks : table.fd[b] = d) \/ acceptor.watch = d => IsOpen(d)
  BY DEF DescriptorsInv, TableKept, AcceptorKept, TableOK, OneOwner, IsOpen
<1> QED
  BY <1>1, <1>2 DEF DescriptorsPrepared

(* What the library opens is close-on-exec, and the loop never blocks in a   *)
(* read or a write of it.                                                    *)
THEOREM PreparedAlways == DescriptorsSpec => []DescriptorsPrepared
  BY DescriptorsInvariant, InvPrepared, PTL

-----------------------------------------------------------------------------
(* Owners of activities: the inductive invariant is the property with the   *)
(* types, and a generator in the middle of a tick is alive.                  *)
NoTickTasks == \A h \in Handles : task[h].func # "tick"
TaskTypes ==
  /\ task \in [Handles -> [time : Nat, func : {"none", "task", "tick"}]]
  /\ \A h \in Handles : task[h] # NoTask => task[h].func # "none"
  /\ owned \in [AllOwners -> Handles \cup {NoHandle}]
OneOwnerEach ==
  /\ \A h \in Handles : is_enabled(h) =>
       \E o \in AllOwners : owned[o] = h /\ (task[h].func = "tick" <=> o = TickOwner)
  /\ \A o, p \in AllOwners : owned[o] = owned[p] /\ owned[o] # NoHandle => o = p
TickSet ==
  LET tick == owned[TickOwner]
  IN  tick # NoHandle /\ is_enabled(tick) /\ task[tick].time = generator.last_tick_time + Interval
Generators == [alive : BOOLEAN, ticking : BOOLEAN, last_tick_time : Nat, start : Nat, ticks : Nat]
GeneratorKept ==
  /\ now \in Nat /\ in_group \in BOOLEAN
  /\ generator \in Generators
  /\ generator.last_tick_time = generator.start + Interval * generator.ticks
  /\ generator.last_tick_time <= now
  /\ generator.ticking => generator.alive
TickDue == generator.alive /\ ~generator.ticking
TickKept == (TickDue => TickSet) /\ (~TickDue => NoTickTasks)

ActivitiesInv == TaskTypes /\ OneOwnerEach /\ GeneratorKept /\ TickKept

LEMMA ActivitiesInitInv == ActivitiesInit => ActivitiesInv
<1> SUFFICES ASSUME ActivitiesInit PROVE ActivitiesInv
  OBVIOUS
<1> USE ActivityOwnersAssumption DEF ActivitiesInit
<1>1. TaskTypes /\ OneOwnerEach
  BY DEF TaskTypes, OneOwnerEach, NoTask, NoHandle, is_enabled
<1>2. GeneratorKept
  <2>1. 0 = 0 + Interval * 0
    OBVIOUS
  <2>2. /\ now = 0 /\ in_group = FALSE
        /\ generator = [alive |-> FALSE, ticking |-> FALSE, last_tick_time |-> 0, start |-> 0, ticks |-> 0]
    OBVIOUS
  <2>3. generator \in Generators
    BY <2>2 DEF Generators
  <2>4. /\ generator.last_tick_time = 0 /\ generator.start = 0 /\ generator.ticks = 0
        /\ generator.ticking => generator.alive
    BY <2>2
  <2>5. generator.last_tick_time = generator.start + Interval * generator.ticks
    BY <2>1, <2>4, Zenon
  <2>6. generator.last_tick_time <= now
    BY <2>2, <2>4
  <2>7. now \in Nat
    BY <2>2
  <2>8. in_group \in BOOLEAN
    BY <2>2, Zenon
  <2> QED
    BY <2>3, <2>4, <2>5, <2>6, <2>7, <2>8, Zenon DEF GeneratorKept
<1>3. TickKept
  <2>1. ~TickDue
    BY DEF TickDue
  <2> QED
    BY <2>1 DEF TickKept, NoTickTasks, NoTask
<1> QED
  BY <1>1, <1>2, <1>3 DEF ActivitiesInv

(* Tasks that are ended with the one handle that names them, or started     *)
(* with a new one, by owner o.                                               *)
LEMMA AssignOK ==
  ASSUME TaskTypes, OneOwnerEach, NEW o \in AllOwners, NEW time \in Nat, NEW func \in {"task", "tick"},
         func = "tick" <=> o = TickOwner, AssignTask(o, time, func)
  PROVE  /\ TaskTypes' /\ OneOwnerEach'
         /\ owned'[o] \in Handles /\ task'[owned'[o]] = [time |-> time, func |-> func]
         /\ \A p \in AllOwners \ {o} :
              owned'[p] = owned[p] /\ (owned[p] \in Handles => task'[owned[p]] = task[owned[p]])
<1> USE ActivityOwnersAssumption
<1>1. PICK h \in Unused :
        /\ task' = [Disabled(task, DisabledOf(o)) EXCEPT ![h] = [time |-> time, func |-> func]]
        /\ owned' = [owned EXCEPT ![o] = h]
  BY DEF AssignTask
<1>2. h \in Handles /\ h # NoHandle /\ \A p \in AllOwners : owned[p] # h
  BY DEF Unused
<1>3. \A g \in Handles : task'[g] = IF g = h THEN [time |-> time, func |-> func]
                                     ELSE IF g = owned[o] THEN NoTask ELSE task[g]
  BY <1>1, <1>2 DEF Disabled, DisabledOf, is_enabled, TaskTypes
<1>4. \A p \in AllOwners : owned'[p] = IF p = o THEN h ELSE owned[p]
  BY <1>1 DEF TaskTypes
<1>5. TaskTypes'
  <2>1. task' \in [Handles -> [time : Nat, func : {"none", "task", "tick"}]]
    BY <1>1, <1>2 DEF TaskTypes, Disabled, NoTask
  <2>2. owned' \in [AllOwners -> Handles \cup {NoHandle}]
    BY <1>1, <1>2 DEF TaskTypes
  <2> QED
    BY <1>3, <2>1, <2>2 DEF TaskTypes
<1>6. OneOwnerEach'
  <2>1. ASSUME NEW g \in Handles, task'[g] # NoTask
        PROVE  \E p \in AllOwners : owned'[p] = g /\ (task'[g].func = "tick" <=> p = TickOwner)
    <3>1. CASE g = h
      BY <1>3, <1>4, <3>1
    <3>2. CASE g # h
      BY <1>3, <1>4, <2>1, <3>2 DEF OneOwnerEach, is_enabled
    <3> QED
      BY <3>1, <3>2
  <2> QED
    BY <1>2, <1>4, <2>1 DEF OneOwnerEach, is_enabled
<1>7. ASSUME NEW p \in AllOwners \ {o}, owned[p] \in Handles PROVE task'[owned[p]] = task[owned[p]]
  <2>1. owned[p] # h /\ owned[p] # owned[o]
    BY <1>2, <1>7 DEF OneOwnerEach
  <2> QED
    BY <1>3, <1>7, <2>1
<1>8. owned'[o] = h /\ task'[h] = [time |-> time, func |-> func]
  BY <1>2, <1>3, <1>4
<1> QED
  BY <1>2, <1>4, <1>5, <1>6, <1>7, <1>8

(* reset() and the move of p's activity to o.                                *)
LEMMA MoveOK ==
  ASSUME TaskTypes, OneOwnerEach, NEW o \in OwnerVars, NEW p \in OwnerVars, move_assign(o, p)
  PROVE  /\ TaskTypes' /\ OneOwnerEach'
         /\ owned'[TickOwner] = owned[TickOwner]
         /\ owned[TickOwner] \in Handles => task'[owned[TickOwner]] = task[owned[TickOwner]]
         /\ \A h \in Handles : task'[h].func = "tick" => task[h].func = "tick"
<1> USE ActivityOwnersAssumption
<1> DEFINE moved == IF o = p THEN NoHandle ELSE owned[p]
<1>1. \A g \in Handles : task'[g] = IF g = owned[o] THEN NoTask ELSE task[g]
  BY DEF move_assign, Disabled, DisabledOf, is_enabled, TaskTypes
<1>2. \A q \in AllOwners : owned'[q] = IF q = o THEN moved ELSE IF q = p THEN NoHandle ELSE owned[q]
  BY DEF move_assign, TaskTypes, AllOwners
<1>3. o \in AllOwners /\ p \in AllOwners /\ o # TickOwner /\ p # TickOwner /\ TickOwner \in AllOwners
  BY DEF AllOwners
<1>4. TaskTypes'
  <2>1. task' \in [Handles -> [time : Nat, func : {"none", "task", "tick"}]]
    BY DEF move_assign, TaskTypes, Disabled, NoTask
  <2>2. owned' \in [AllOwners -> Handles \cup {NoHandle}]
    BY <1>3 DEF move_assign, TaskTypes
  <2> QED
    BY <1>1, <2>1, <2>2 DEF TaskTypes
<1>5. OneOwnerEach'
  <2>1. ASSUME NEW g \in Handles, task'[g] # NoTask
        PROVE  \E q \in AllOwners : owned'[q] = g /\ (task'[g].func = "tick" <=> q = TickOwner)
    <3>1. g # owned[o] /\ task'[g] = task[g] /\ g # NoHandle
      BY <1>1, <2>1
    <3>2. PICK q \in AllOwners : owned[q] = g /\ (task[g].func = "tick" <=> q = TickOwner)
      BY <2>1, <3>1 DEF OneOwnerEach, is_enabled
    <3>3. CASE q = p
      BY <1>2, <1>3, <3>1, <3>2, <3>3
    <3>4. CASE q # p
      BY <1>2, <1>3, <3>1, <3>2, <3>4
    <3> QED
      BY <3>3, <3>4
  <2>2. \A q, r \in AllOwners : owned'[q] = owned'[r] /\ owned'[q] # NoHandle => q = r
    BY <1>2, <1>3 DEF OneOwnerEach
  <2> QED
    BY <2>1, <2>2 DEF OneOwnerEach, is_enabled
<1>6. owned[TickOwner] \in Handles => owned[TickOwner] # owned[o]
  BY <1>3 DEF OneOwnerEach
<1>7. NoTask.func # "tick"
  BY DEF NoTask
<1> QED
  BY <1>1, <1>2, <1>3, <1>4, <1>5, <1>6, <1>7

-----------------------------------------------------------------------------
LEMMA InvokeInv ==
  ASSUME ActivitiesInv, NEW o \in OwnerVars, NEW delay \in 0 .. 1, invoke_with_etime_delay(o, delay)
  PROVE  ActivitiesInv'
<1> USE ActivityOwnersAssumption DEF ActivitiesInv
<1>1. o \in AllOwners /\ o # TickOwner /\ TickOwner \in AllOwners /\ now + delay \in Nat
  BY DEF AllOwners, GeneratorKept
<1>2. AssignTask(o, now + delay, "task") /\ UNCHANGED <<now, generator, in_group>>
  BY DEF invoke_with_etime_delay, Rest
<1>3. /\ TaskTypes' /\ OneOwnerEach'
      /\ owned'[o] \in Handles /\ task'[owned'[o]] = [time |-> now + delay, func |-> "task"]
      /\ owned'[TickOwner] = owned[TickOwner]
      /\ owned[TickOwner] \in Handles => task'[owned[TickOwner]] = task[owned[TickOwner]]
  BY <1>1, <1>2, AssignOK
<1>4. GeneratorKept'
  BY <1>2 DEF GeneratorKept
<1>0. TickDue' <=> TickDue
  BY <1>2 DEF TickDue
<1>5. ASSUME TickDue PROVE TickKept'
  <2>1. TickSet /\ owned[TickOwner] \in Handles
    BY <1>1, <1>5 DEF TickKept, TickSet, TaskTypes
  <2>2. TickSet'
    BY <1>2, <1>3, <2>1 DEF TickSet, is_enabled
  <2> QED
    BY <1>0, <1>5, <2>2 DEF TickKept
<1>6. ASSUME ~TickDue PROVE TickKept'
  <2>1. ASSUME NEW h \in Handles, task'[h].func = "tick" PROVE FALSE
    <3>1. owned'[TickOwner] = h
      BY <1>3, <2>1 DEF OneOwnerEach, is_enabled, NoTask
    <3>2. task[h].func = "tick"
      BY <1>3, <2>1, <3>1
    <3> QED
      BY <1>6, <3>2 DEF TickKept, NoTickTasks
  <2> QED
    BY <1>0, <1>6, <2>1 DEF TickKept, NoTickTasks
<1> QED
  BY <1>3, <1>4, <1>5, <1>6

LEMMA MoveOwnerInv ==
  ASSUME ActivitiesInv, NEW o \in OwnerVars, NEW p \in OwnerVars, MoveOwner(o, p) PROVE ActivitiesInv'
<1> USE ActivityOwnersAssumption DEF ActivitiesInv
<1>1. move_assign(o, p) /\ UNCHANGED <<now, generator, in_group>>
  BY DEF MoveOwner, Rest
<1>2. /\ TaskTypes' /\ OneOwnerEach'
      /\ owned'[TickOwner] = owned[TickOwner]
      /\ owned[TickOwner] \in Handles => task'[owned[TickOwner]] = task[owned[TickOwner]]
      /\ \A h \in Handles : task'[h].func = "tick" => task[h].func = "tick"
  BY <1>1, MoveOK
<1>3. GeneratorKept'
  BY <1>1 DEF GeneratorKept
<1>4. TickKept'
  <2>1. TickDue' <=> TickDue
    BY <1>1 DEF TickDue
  <2>2. TickOwner \in AllOwners
    BY DEF AllOwners
  <2>3. TickSet => TickSet'
    BY <1>1, <1>2, <2>2 DEF TickSet, is_enabled, TaskTypes
  <2>4. NoTickTasks => NoTickTasks'
    BY <1>2 DEF NoTickTasks
  <2> QED
    BY <2>1, <2>3, <2>4 DEF TickKept
<1> QED
  BY <1>2, <1>3, <1>4

(* A move of o to itself resets it.                                          *)
LEMMA ResetIsMove ==
  ASSUME NEW o \in AllOwners, TaskTypes, reset(o) PROVE move_assign(o, o)
  BY DEF reset, move_assign, TaskTypes

LEMMA ResetOwnerInv ==
  ASSUME ActivitiesInv, NEW o \in OwnerVars, ResetOwner(o) PROVE ActivitiesInv'
<1>1. o \in AllOwners
  BY DEF AllOwners
<1>2. MoveOwner(o, o)
  BY <1>1, ResetIsMove DEF ResetOwner, MoveOwner, ActivitiesInv
<1> QED
  BY <1>2, MoveOwnerInv

LEMMA TickSetLemma ==
  ASSUME owned'[TickOwner] \in Handles, NEW time,
         task'[owned'[TickOwner]] = [time |-> time, func |-> "tick"],
         time = generator'.last_tick_time + Interval
  PROVE  TickSet'
<1>1. [time |-> time, func |-> "tick"] # NoTask
  <2>1. [time |-> time, func |-> "tick"].func # NoTask.func
    BY DEF NoTask
  <2> QED
    BY <2>1
<1>2. [time |-> time, func |-> "tick"].time = time
  OBVIOUS
<1> QED
  BY <1>1, <1>2, ActivityOwnersAssumption DEF TickSet, is_enabled

LEMMA MakeGeneratorInv ==
  ASSUME ActivitiesInv, make_periodic_tick_generator PROVE ActivitiesInv'
<1> USE ActivityOwnersAssumption DEF ActivitiesInv
<1>1. /\ generator' = [alive |-> TRUE, ticking |-> FALSE, last_tick_time |-> now, start |-> now, ticks |-> 0]
      /\ AssignTask(TickOwner, generator'.last_tick_time + Interval, "tick")
      /\ UNCHANGED <<now, in_group>>
  BY DEF make_periodic_tick_generator, schedule_next_tick
<1>2. now \in Nat /\ now + Interval \in Nat /\ TickOwner \in AllOwners /\ generator'.last_tick_time = now
  BY <1>1 DEF GeneratorKept, AllOwners
<1>3. /\ TaskTypes' /\ OneOwnerEach' /\ owned'[TickOwner] \in Handles
      /\ task'[owned'[TickOwner]] = [time |-> now + Interval, func |-> "tick"]
  BY <1>1, <1>2, AssignOK
<1>4. GeneratorKept'
  <2>1. now = now + Interval * 0
    BY <1>2
  <2>2. generator'.last_tick_time = generator'.start + Interval * generator'.ticks
    <3>1. generator'.last_tick_time = now /\ generator'.start = now /\ generator'.ticks = 0
      BY <1>1
    <3> QED
      BY <2>1, <3>1, Zenon
  <2>3. generator' \in Generators /\ ~generator'.ticking
    BY <1>1, <1>2 DEF Generators
  <2>4. now' = now /\ now \in Nat /\ in_group' \in BOOLEAN /\ generator'.last_tick_time <= now'
    BY <1>1, <1>2 DEF GeneratorKept
  <2> QED
    BY <2>2, <2>3, <2>4 DEF GeneratorKept
<1>5. TickKept'
  <2>1. TickDue'
    BY <1>1 DEF TickDue
  <2>2. TickSet'
    BY <1>3, TickSetLemma, <1>2
  <2> QED
    BY <2>1, <2>2 DEF TickKept
<1> QED
  BY <1>3, <1>4, <1>5

LEMMA GeneratorDestroyedInv ==
  ASSUME ActivitiesInv, GeneratorDestroyed, in_group' \in BOOLEAN PROVE ActivitiesInv'
<1> USE ActivityOwnersAssumption DEF ActivitiesInv
<1>1. /\ generator' = [generator EXCEPT !.alive = FALSE] /\ generator.alive /\ ~generator.ticking
      /\ reset(TickOwner) /\ now' = now
  BY DEF GeneratorDestroyed
<1>2. TickOwner \in AllOwners
  BY DEF AllOwners
<1>3. \A g \in Handles : task'[g] = IF g = owned[TickOwner] THEN NoTask ELSE task[g]
  BY <1>1, <1>2 DEF reset, Disabled, DisabledOf, is_enabled, TaskTypes
<1>4. \A q \in AllOwners : owned'[q] = IF q = TickOwner THEN NoHandle ELSE owned[q]
  BY <1>1, <1>2 DEF reset, TaskTypes
<1>5. TaskTypes'
  <2>1. task' \in [Handles -> [time : Nat, func : {"none", "task", "tick"}]]
    BY <1>1 DEF reset, TaskTypes, Disabled, NoTask
  <2>2. owned' \in [AllOwners -> Handles \cup {NoHandle}]
    BY <1>1, <1>2 DEF reset, TaskTypes
  <2> QED
    BY <1>3, <2>1, <2>2 DEF TaskTypes
<1>6. OneOwnerEach'
  BY <1>2, <1>3, <1>4 DEF OneOwnerEach, is_enabled
<1>7. NoTickTasks'
  BY <1>2, <1>3 DEF NoTickTasks, OneOwnerEach, is_enabled, NoTask
<1>8. /\ generator' \in Generators /\ ~generator'.alive /\ generator'.ticking = generator.ticking
      /\ generator'.start = generator.start /\ generator'.ticks = generator.ticks
      /\ generator'.last_tick_time = generator.last_tick_time
  BY <1>1 DEF GeneratorKept, Generators
<1>9. GeneratorKept'
  BY <1>1, <1>8 DEF GeneratorKept
<1> QED
  BY <1>5, <1>6, <1>7, <1>8, <1>9 DEF TickKept, TickDue

(* A task leaves the loop: its handle may stay with its owner.               *)
LEMMA RunsOK ==
  ASSUME TaskTypes, OneOwnerEach, NEW h \in Handles, Runs(h), UNCHANGED owned
  PROVE  /\ TaskTypes' /\ OneOwnerEach'
         /\ \A g \in Handles : task'[g] = IF g = h THEN NoTask ELSE task[g]
<1>1. \A g \in Handles : task'[g] = IF g = h THEN NoTask ELSE task[g]
  BY DEF Runs, TaskTypes
<1>2. TaskTypes'
  BY <1>1 DEF Runs, TaskTypes, NoTask
<1>3. OneOwnerEach'
  BY <1>1 DEF OneOwnerEach, is_enabled
<1> QED
  BY <1>1, <1>2, <1>3

LEMMA RunTaskInv ==
  ASSUME ActivitiesInv, NEW h \in Handles, TaskRuns(h) PROVE ActivitiesInv'
<1> USE ActivityOwnersAssumption DEF ActivitiesInv
<1>1. /\ TaskTypes' /\ OneOwnerEach'
      /\ \A g \in Handles : task'[g] = IF g = h THEN NoTask ELSE task[g]
  BY RunsOK DEF TaskRuns
<1>2. GeneratorKept'
  BY DEF TaskRuns, GeneratorKept
<1>0. (TickDue' <=> TickDue) /\ owned' = owned /\ generator' = generator
  BY DEF TickDue, TaskRuns
<1>3. ASSUME TickDue PROVE TickKept'
  <2>1. TickSet /\ owned[TickOwner] \in Handles /\ is_enabled(owned[TickOwner])
    BY <1>3 DEF TickKept, TickSet, TaskTypes, AllOwners
  <2>2. owned[TickOwner] # h
    <3>1. TickOwner \in AllOwners /\ owned[TickOwner] # NoHandle
      BY <2>1 DEF AllOwners, TickSet
    <3>2. task[owned[TickOwner]].func = "tick"
      BY <2>1, <3>1 DEF OneOwnerEach
    <3> QED
      BY <3>2 DEF TaskRuns
  <2>3. TickSet'
    BY <1>0, <1>1, <2>1, <2>2 DEF TickSet, is_enabled
  <2> QED
    BY <1>0, <1>3, <2>3 DEF TickKept
<1>4. ASSUME ~TickDue PROVE TickKept'
  <2>1. NoTickTasks /\ NoTask.func # "tick"
    BY <1>4 DEF TickKept, NoTask
  <2>2. NoTickTasks'
    BY <1>1, <2>1 DEF NoTickTasks
  <2> QED
    BY <1>0, <1>4, <2>2 DEF TickKept
<1> QED
  BY <1>1, <1>2, <1>3, <1>4

LEMMA TickInv ==
  ASSUME ActivitiesInv, NEW h \in Handles, Tick(h) PROVE ActivitiesInv'
<1> USE ActivityOwnersAssumption DEF ActivitiesInv
<1>1. /\ TaskTypes' /\ OneOwnerEach'
      /\ \A g \in Handles : task'[g] = IF g = h THEN NoTask ELSE task[g]
  BY RunsOK DEF Tick
<1>2. is_enabled(h) /\ task[h].time <= now /\ task[h].func = "tick" /\ ~generator.ticking
  BY DEF Tick, Runs, DueHandles
<1>3. owned[TickOwner] = h /\ \A g \in Handles : task[g].func = "tick" => g = h
  <2>1. \A g \in Handles : task[g].func = "tick" => owned[TickOwner] = g
    BY DEF OneOwnerEach, is_enabled, NoTask
  <2> QED
    BY <1>2, <2>1
<1>4. generator.alive /\ task[h].time = generator.last_tick_time + Interval
  <2>1. TickDue
    BY <1>2 DEF TickKept, NoTickTasks
  <2> QED
    BY <1>3, <2>1 DEF TickKept, TickSet, TickDue
<1>5. /\ generator' \in Generators /\ generator'.alive /\ generator'.ticking
      /\ generator'.start = generator.start /\ generator'.ticks = generator.ticks + 1
      /\ generator'.last_tick_time = generator.last_tick_time + Interval
  <2>1. generator \in Generators /\ generator.last_tick_time + Interval \in Nat /\ generator.ticks + 1 \in Nat
    BY DEF GeneratorKept, Generators
  <2>2. generator' = [generator EXCEPT !.last_tick_time = generator.last_tick_time + Interval,
                                       !.ticking = TRUE, !.ticks = generator.ticks + 1]
    BY DEF Tick
  <2> HIDE DEF ActivitiesInv
  <2>3. generator' \in Generators
    BY <2>1, <2>2 DEF Generators
  <2>4. generator'.alive = generator.alive /\ generator'.ticking = TRUE
    BY <2>1, <2>2 DEF Generators
  <2>5. /\ generator'.start = generator.start /\ generator'.ticks = generator.ticks + 1
        /\ generator'.last_tick_time = generator.last_tick_time + Interval
    BY <2>1, <2>2 DEF Generators
  <2> QED
    BY <1>4, <2>3, <2>4, <2>5
<1>6. generator'.last_tick_time = generator'.start + Interval * generator'.ticks
  <2>1. /\ generator.last_tick_time = generator.start + Interval * generator.ticks
        /\ generator.start \in Nat /\ generator.ticks \in Nat
    BY DEF GeneratorKept, Generators
  <2>2. \A n \in Nat : Interval * (n + 1) = Interval * n + Interval
    OBVIOUS
  <2>3. \A n \in Nat : Interval * n \in Nat
    OBVIOUS
  <2> QED
    BY <1>5, <2>1, <2>2, <2>3
<1>7. GeneratorKept'
  BY <1>2, <1>4, <1>5, <1>6 DEF GeneratorKept, Tick
<1>8. NoTickTasks'
  BY <1>1, <1>3 DEF NoTickTasks, NoTask
<1> QED
  BY <1>1, <1>5, <1>7, <1>8 DEF TickKept, TickDue

LEMMA TickReturnsInv ==
  ASSUME ActivitiesInv, TickReturns PROVE ActivitiesInv'
<1> USE ActivityOwnersAssumption DEF ActivitiesInv
<1>1. /\ generator' = [generator EXCEPT !.ticking = FALSE] /\ generator.ticking
      /\ AssignTask(TickOwner, generator'.last_tick_time + Interval, "tick")
      /\ UNCHANGED <<now, in_group>>
  BY DEF TickReturns, schedule_next_tick
<1>2. /\ generator' \in Generators /\ generator'.alive /\ ~generator'.ticking
      /\ generator'.start = generator.start /\ generator'.ticks = generator.ticks
      /\ generator'.last_tick_time = generator.last_tick_time /\ generator.last_tick_time + Interval \in Nat
  <2>1. generator \in Generators /\ generator.last_tick_time + Interval \in Nat /\ generator.alive
    BY <1>1 DEF GeneratorKept, Generators
  <2>2. generator' \in Generators
    BY <1>1, <2>1 DEF Generators
  <2>3. generator'.alive = generator.alive /\ generator'.ticking = FALSE
    BY <1>1, <2>1 DEF Generators
  <2>4. /\ generator'.start = generator.start /\ generator'.ticks = generator.ticks
        /\ generator'.last_tick_time = generator.last_tick_time
    BY <1>1, <2>1 DEF Generators
  <2> QED
    BY <2>1, <2>2, <2>3, <2>4
<1>3. TickOwner \in AllOwners
  BY DEF AllOwners
<1>4. /\ TaskTypes' /\ OneOwnerEach' /\ owned'[TickOwner] \in Handles
      /\ task'[owned'[TickOwner]] = [time |-> generator.last_tick_time + Interval, func |-> "tick"]
  BY <1>1, <1>2, <1>3, AssignOK
<1>5. GeneratorKept'
  BY <1>1, <1>2 DEF GeneratorKept
<1>6. TickKept'
  <2>1. TickSet'
    BY <1>4, TickSetLemma, <1>2
  <2> QED
    BY <1>2, <2>1 DEF TickKept, TickDue
<1> QED
  BY <1>4, <1>5, <1>6

LEMMA ActivitiesNextInv == ActivitiesInv /\ [ActivitiesNext]_activity_vars => ActivitiesInv'
<1> SUFFICES ASSUME ActivitiesInv, [ActivitiesNext]_activity_vars PROVE ActivitiesInv'
  OBVIOUS
<1>1. ASSUME UNCHANGED <<task, owned, generator>>, now' \in Nat, now' >= now, in_group' \in BOOLEAN
      PROVE  ActivitiesInv'
  <2>1. TaskTypes' /\ OneOwnerEach' /\ TickKept'
    BY <1>1 DEF ActivitiesInv, TaskTypes, OneOwnerEach, TickKept, TickDue, TickSet, NoTickTasks, is_enabled
  <2>2. GeneratorKept'
    BY <1>1 DEF ActivitiesInv, GeneratorKept, Generators
  <2> QED
    BY <2>1, <2>2 DEF ActivitiesInv
<1>2. now \in Nat /\ in_group \in BOOLEAN
  BY DEF ActivitiesInv, GeneratorKept
<1>3. CASE add_objects
  BY <1>1, <1>2, <1>3 DEF add_objects
<1>4. CASE TimePasses
  BY <1>1, <1>2, <1>4, ActivityOwnersAssumption DEF TimePasses
<1>5. CASE UNCHANGED activity_vars
  BY <1>1, <1>2, <1>5 DEF activity_vars
<1>6. CASE DropGenerator \/ DestroyGroup
  BY <1>2, <1>6, GeneratorDestroyedInv DEF DropGenerator, DestroyGroup
<1> QED
  BY <1>3, <1>4, <1>5, <1>6, InvokeInv, ResetOwnerInv, MoveOwnerInv, MakeGeneratorInv, RunTaskInv,
     TickInv, TickReturnsInv
  DEF ActivitiesNext

(* Every activity ends with its owner and no other, and a generator's ticks  *)
(* keep their interval however late the loop is, for any owners and moves.   *)
THEOREM OwnersEnd == ActivitiesSpec => []OwnersEndActivities
<1>1. ActivitiesSpec => []ActivitiesInv
  BY ActivitiesInitInv, ActivitiesNextInv, PTL DEF ActivitiesSpec
<1>2. ActivitiesInv => OwnersEndActivities
  <2> SUFFICES ASSUME ActivitiesInv PROVE OwnersEndActivities
    OBVIOUS
  <2>1. TickKept /\ OneOwnerEach /\ GeneratorKept
    BY DEF ActivitiesInv
  <2> QED
    BY <2>1 DEF TickKept, TickDue, TickSet, NoTickTasks, OneOwnerEach, GeneratorKept, OwnersEndActivities
<1> QED
  BY <1>1, <1>2, PTL

-----------------------------------------------------------------------------
(* manual_event_loop, for all bounds: TypeOK, with the identity of handles, *)
(* is inductive, and every behaviour is one that the contract allows.       *)

LEMMA InitTypeOK == Init => TypeOK
<1> SUFFICES ASSUME Init PROVE TypeOK
  OBVIOUS
<1>1. next_task_id \in 0 .. MaxTasks
  BY BoundsAreNaturals, SMT DEF Init
<1> QED
  BY <1>1 DEF Init, TypeOK, HandlesNameOneTask

(* Each call and each step of process_time_passage keeps the type           *)
(* invariant: invoke_at adds a key with a fresh id, the others only remove  *)
(* keys or leave the map alone.                                             *)
LEMMA NextTypeOK == TypeOK /\ [Next]_vars => TypeOK'
<1> SUFFICES ASSUME TypeOK, [Next]_vars PROVE TypeOK'
  OBVIOUS
<1> USE BoundsAreNaturals
<1>1. ASSUME NEW t \in Times, InvokeAt(t) PROVE TypeOK'
  <2> DEFINE k == [time |-> t, id |-> next_task_id]
  <2>1. k \in [time : Times, id : 0 .. MaxTasks]
    BY DEF TypeOK
  <2>2. next_task_id' \in 0 .. MaxTasks
    BY <1>1, SMT DEF TypeOK, InvokeAt, NextId
  <2>3. pending_tasks' = pending_tasks \cup {k}
    BY <1>1 DEF InvokeAt
  <2>4. \A j \in pending_tasks' : j.id < next_task_id'
    BY <1>1, <2>3, SMT DEF TypeOK, HandlesNameOneTask, InvokeAt, NextId
  <2>5. \A j, o \in pending_tasks' : j.id = o.id => j = o
    <3>1. \A j \in pending_tasks : j.id # k.id
      BY SMT DEF TypeOK, HandlesNameOneTask
    <3> QED
      BY <2>3, <3>1 DEF TypeOK, HandlesNameOneTask
  <2> QED
    BY <1>1, <2>1, <2>2, <2>3, <2>4, <2>5 DEF TypeOK, HandlesNameOneTask, InvokeAt
<1>2. ASSUME NEW k \in pending_tasks, Disable(k) PROVE TypeOK'
  BY <1>2 DEF TypeOK, HandlesNameOneTask, Disable
<1>3. CASE DisableMissing
  BY <1>3 DEF TypeOK, HandlesNameOneTask, DisableMissing
<1>4. CASE Quit
  BY <1>4 DEF TypeOK, HandlesNameOneTask, Quit
<1>5. ASSUME NEW delta \in Times, ProcessTimePassage(delta) PROVE TypeOK'
  BY <1>5 DEF TypeOK, HandlesNameOneTask, ProcessTimePassage
<1>6. CASE RunTask
  BY <1>6 DEF TypeOK, HandlesNameOneTask, RunTask
<1>7. CASE TaskReturns
  BY <1>7 DEF TypeOK, HandlesNameOneTask, TaskReturns
<1>8. CASE NothingDue
  BY <1>8 DEF TypeOK, HandlesNameOneTask, NothingDue
<1>9. CASE UNCHANGED vars
  BY <1>9 DEF TypeOK, HandlesNameOneTask, vars
<1> QED
  BY <1>1, <1>2, <1>3, <1>4, <1>5, <1>6, <1>7, <1>8, <1>9 DEF Next

(* The keys of the map of tasks stay well-formed and name one task each, so *)
(* that disable() on an old handle never removes a newer task.              *)
THEOREM TypeCorrect == Spec => []TypeOK
  BY InitTypeOK, NextTypeOK, PTL DEF Spec

-----------------------------------------------------------------------------
LEMMA InitImplements == Init => Contract!Init
  BY DEF Init, Contract!Init

(* Each step of the loop is one step of the contract or none.  The quit     *)
(* flag and the end of process_time_passage are invisible there; the order  *)
(* by time that the map gives to tasks of different times is more than the  *)
(* contract asks.                                                           *)
LEMMA StepImplements ==
  TypeOK /\ [Next]_vars => [Contract!Next]_(Contract!vars)
<1> SUFFICES ASSUME TypeOK, [Next]_vars
             PROVE  Contract!Next \/ UNCHANGED Contract!vars
  OBVIOUS
<1> USE BoundsAreNaturals DEF Contract!Next, Contract!vars
<1>1. ASSUME NEW t \in Times, InvokeAt(t) PROVE Contract!Enqueue
  BY <1>1 DEF InvokeAt, NextId, Contract!Enqueue
<1>2. ASSUME NEW k \in pending_tasks, Disable(k) PROVE Contract!Disable
  BY <1>2 DEF Disable, Contract!Disable
<1>3. ASSUME DisableMissing PROVE Contract!Finish
  BY <1>3 DEF DisableMissing, Contract!Finish
<1>4. ASSUME Quit PROVE UNCHANGED Contract!vars
  BY <1>4 DEF Quit
<1>5. ASSUME NEW delta \in Times, ProcessTimePassage(delta) PROVE Contract!Advance
  BY <1>5, SMT DEF ProcessTimePassage, Contract!Advance, Times, TypeOK
<1>6. ASSUME RunTask PROVE Contract!Start
  <2>1. PICK k \in pending_tasks :
          IsHead(k) /\ Due(k) /\ pending_tasks' = pending_tasks \ {k}
    BY <1>6 DEF RunTask
  <2>2. \A o \in pending_tasks : o.time = k.time => k.id <= o.id
    BY <2>1, SMT DEF IsHead, Before, TypeOK, Times
  <2> QED
    BY <1>6, <2>1, <2>2 DEF RunTask, Due, Contract!Start
<1>7. ASSUME TaskReturns PROVE Contract!Finish
  BY <1>7 DEF TaskReturns, Contract!Finish
<1>8. ASSUME NothingDue PROVE UNCHANGED Contract!vars
  BY <1>8 DEF NothingDue
<1>9. ASSUME UNCHANGED vars PROVE UNCHANGED Contract!vars
  BY <1>9 DEF vars
<1> QED
  BY <1>1, <1>2, <1>3, <1>4, <1>5, <1>6, <1>7, <1>8, <1>9 DEF Next

(* manual_event_loop keeps the contract of event_loop, for every sequence   *)
(* of calls of any length and any time points.                              *)
THEOREM Implementation == Spec => ImplementsContract
<1>1. Spec => []TypeOK
  BY TypeCorrect
<1> QED
  BY <1>1, InitImplements, StepImplements, PTL
  DEF Spec, ImplementsContract, Contract!Spec
==================================================================================
