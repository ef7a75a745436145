--------------------------- MODULE SocketConnections ---------------------------
(***************************************************************************)
(* The requester of socket connections: a non-blocking connect, and, when  *)
(* it does not succeed at once, a watch with a timeout                     *)
(* (watch_fd_with_timeout) after which SO_ERROR tells how it went.         *)
(***************************************************************************)
EXTENDS RequestHandling

\* [sockets, ready, accepted]: what the kernel has made of each request's
\* socket, the contexts whose watches are to be notified since the last ppoll,
\* and as history the requests answered with a socket.
conns == own

ConnectionsInit ==
  /\ InitShared
  /\ conns = [sockets |-> [n \in 1 .. MaxRequests |-> "none"], ready |-> {}, accepted |-> {}]

Watched(r) == conns.sockets[r.id] \in {"connecting", "established", "refused", "failed at once"}

\* No socket and a connection at once are answered in a task, with "none" for
\* the former; a connect that fails, for whatever reason, is waited for.
ConnectionsHandleRequest(timeout) ==
  /\ PassOn(Request(timeout))
  /\ \E s \in {"none", "connected", "connecting", "failed at once"} :
       conns' = [conns EXCEPT !.sockets[Len(deadlines) + 1] = s]

KernelConnects(r) ==
  /\ conns.sockets[r.id] = "connecting"
  /\ \E s \in {"established", "refused"} : conns' = [conns EXCEPT !.sockets[r.id] = s]
  /\ UNCHANGED shared_vars

\* A socket that was never connecting polls as writable, too.
Polled ==
  LET writable == {r \in base : Watched(r) /\ conns.sockets[r.id] # "connecting"}
  IN  /\ mode = Idle
      /\ conns.ready = {} /\ writable # {}
      /\ conns' = [conns EXCEPT !.ready = writable]
      /\ UNCHANGED shared_vars

\* handle_result resets the watch and the timeout task, then calls the handler.
Ended(r, res) ==
  /\ Answer(r, res)
  /\ conns' = [conns EXCEPT !.ready = @ \ {r},
                            !.accepted = IF res = "ok" THEN @ \cup {r.id} ELSE @]

LaterTask(r) ==
  ~Watched(r) /\ Ended(r, IF conns.sockets[r.id] = "connected" THEN "ok" ELSE "error")

\* A failure at once has left no SO_ERROR.
WatchNotified(r) ==
  r \in conns.ready /\ Ended(r, IF conns.sockets[r.id] = "refused" THEN "error" ELSE "ok")

ConnectTimesOut(r) == Watched(r) /\ conns.ready = {} /\ Ended(r, "timed out")

ConnectionsResponseReturns == ResponseReturned /\ UNCHANGED <<queues, base, conns>>

ConnectionsLoopStep ==
  \/ ConnectionsResponseReturns \/ Polled
  \/ \E r \in base : LaterTask(r) \/ WatchNotified(r) \/ ConnectTimesOut(r)
ConnectionsSomeAnswer == \E r \in base : KernelConnects(r)

ConnectionsNext ==
  \/ \E timeout \in Timeouts : ConnectionsHandleRequest(timeout)
  \/ ConnectionsSomeAnswer \/ ConnectionsLoopStep
  \/ Advance /\ conns.ready = {} /\ UNCHANGED conns

-----------------------------------------------------------------------------
(* A client is given a socket only when it is connected - or when connect() *)
(* failed at once, with an error that SO_ERROR does not repeat: such a      *)
(* socket is handed out as well (socket-connections-fd-requester.cpp:62-66).*)
ConnectionsLimitKept ==
  \A id \in conns.accepted :
    conns.sockets[id] \in {"connected", "established", "failed at once"}

(* A refused connection is not taken for an established one, and its        *)
(* context stays until it is answered.                                      *)
ConnectionsNoneForgotten == conns.ready \subseteq base \/ mode = InResponse
==============================================================================
