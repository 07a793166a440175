----------------------------- MODULE AcceptLoop -----------------------------
(***************************************************************************)
(* The listener of server mode (run_server in main.rs): the accept loop    *)
(* takes a connection permit before it accepts, hands it to the task of    *)
(* the connection, and the task returns it however it ends.                *)
(*                                                                         *)
(* Time is left out: a timer is an action that may fire whenever it runs,  *)
(* and that fairness makes fire in the end.  What follows the handshake    *)
(* is hyper's: it reads the first bytes to tell HTTP/1 from HTTP/2, and    *)
(* only then, and only for HTTP/1, does header_read_timeout run.  No timer *)
(* of main.rs runs while the response is written.                          *)
(***************************************************************************)
EXTENDS Integers, Sequences, FiniteSets

CONSTANTS Conns,          \* the connections of a behaviour, each made once
          Http2,          \* those whose peer speaks HTTP/2
          MaxConnections  \* limits.max_concurrent_connections

ASSUME ConnsAssumption == IsFiniteSet(Conns) /\ Http2 \subseteq Conns
ASSUME MaxConnectionsAssumption == MaxConnections \in Nat \ {0}

VARIABLES loop,     \* where the accept loop waits
          permits,  \* free permits of connection_permits
          backlog,  \* external: connections the kernel holds for accept
          conn      \* where each connection is

avars == <<loop, permits, backlog, conn>>

\* A task that waits in one of these states owns a permit.
Owning == {"handshake", "opened", "headers", "handling", "responding", "streams"}

\* Those in which no timer runs: the first bytes, the reading of the response
\* and the end of an HTTP/2 connection are up to the peer.
UpToPeer == {"opened", "responding", "streams"}

AcceptInit ==
    /\ loop = "acquiring"
    /\ permits = MaxConnections
    /\ backlog = <<>>
    /\ conn = [c \in Conns |-> "new"]

Move(c, from, to) ==
    /\ conn[c] \in from
    /\ conn' = [conn EXCEPT ![c] = to]

\* External: a peer connects; the kernel queues the connection.
Connect(c) ==
    /\ Move(c, {"new"}, "backlog")
    /\ backlog' = Append(backlog, c)
    /\ UNCHANGED <<loop, permits>>

\* Mutated: the loop goes on when no permit is free.
AcquireUnchecked ==
    /\ loop = "acquiring"
    /\ permits' = permits - 1
    /\ loop' = "accepting"
    /\ UNCHANGED <<backlog, conn>>

\* acquire_owned, which only fails on a closed semaphore: nobody closes it.
Acquire ==
    /\ loop = "acquiring"
    /\ permits > 0
    /\ permits' = permits - 1
    /\ loop' = "accepting"
    /\ UNCHANGED <<backlog, conn>>

\* accept returns a connection; its task takes the permit along.
Accept ==
    /\ loop = "accepting"
    /\ backlog # <<>>
    /\ Move(Head(backlog), {"backlog"}, "handshake")
    /\ backlog' = Tail(backlog)
    /\ loop' = "acquiring"
    /\ UNCHANGED permits

\* Mutated: the permit is kept over the back-off and acquired again after it.
AcceptErrorKeeps ==
    /\ loop = "accepting"
    /\ loop' = "backoff"
    /\ UNCHANGED <<permits, backlog, conn>>

\* accept fails: the permit goes back before the loop sleeps.
AcceptError ==
    /\ loop = "accepting"
    /\ permits' = permits + 1
    /\ loop' = "backoff"
    /\ UNCHANGED <<backlog, conn>>

BackoffEnds ==
    /\ loop = "backoff"
    /\ loop' = "acquiring"
    /\ UNCHANGED <<permits, backlog, conn>>

-----------------------------------------------------------------------------
\* The end of a task: whatever the reason, its permit is dropped with it.
Close(c, from) ==
    /\ Move(c, from, "closed")
    /\ permits' = permits + 1
    /\ UNCHANGED <<loop, backlog>>

HandshakeSucceeds(c) ==
    /\ Move(c, {"handshake"}, "opened")
    /\ UNCHANGED <<loop, permits, backlog>>

\* Ok(Err(_)): no acceptable client certificate, or a broken stream.
HandshakeFails(c) == Close(c, {"handshake"})

\* Err(_): tls_handshake_timeout.
HandshakeTimesOut(c) == Close(c, {"handshake"})

\* External: the peer's first bytes tell the version.
FirstBytes(c) ==
    /\ Move(c, {"opened"}, IF c \in Http2 THEN "streams" ELSE "headers")
    /\ UNCHANGED <<loop, permits, backlog>>

\* An HTTP/1 request is complete and goes to the router.
RequestArrives(c) ==
    /\ Move(c, {"headers"}, "handling")
    /\ UNCHANGED <<loop, permits, backlog>>

\* The service has the router's answer, and hyper begins to write it.
Answered(c) ==
    /\ Move(c, {"handling"}, "responding")
    /\ UNCHANGED <<loop, permits, backlog>>

\* Mutated: a connection is kept for a next request.
ResponseSentKeepsAlive(c) ==
    /\ Move(c, {"responding"}, "headers")
    /\ UNCHANGED <<loop, permits, backlog>>

\* keep_alive(false): one response ends an HTTP/1 connection.
ResponseSent(c) == Close(c, {"responding"})

\* http1_header_read_timeout.
HeadersTimeOut(c) == Close(c, {"headers"})

\* The peer closes or the stream breaks, after the handshake.
PeerCloses(c) == Close(c, {"headers", "handling"} \cup UpToPeer)

Listener == Acquire \/ Accept \/ AcceptError \/ BackoffEnds
Task(c) ==
    \/ HandshakeSucceeds(c) \/ HandshakeFails(c) \/ HandshakeTimesOut(c)
    \/ FirstBytes(c) \/ RequestArrives(c) \/ Answered(c) \/ ResponseSent(c)
    \/ HeadersTimeOut(c) \/ PeerCloses(c)

\* The listener waits for connections that no one makes any more.
Idle ==
    /\ \A c \in Conns : conn[c] = "closed"
    /\ loop = "accepting"
    /\ UNCHANGED avars

AcceptNext ==
    \/ Listener
    \/ \E c \in Conns : Connect(c) \/ Task(c)
    \/ Idle

AcceptSpec == AcceptInit /\ [][AcceptNext]_avars

(* The runtime runs the loop and fires its timers; the router answers      *)
(* every request (BothSidesEnd of ConnectorPair); accept does not fail for *)
(* ever.  Nothing is assumed of the peers.                                 *)
Fairness ==
    /\ WF_avars(Acquire) /\ SF_avars(Accept) /\ WF_avars(BackoffEnds)
    /\ \A c \in Conns :
        /\ WF_avars(HandshakeTimesOut(c))
        /\ WF_avars(HeadersTimeOut(c))
        /\ WF_avars(Answered(c))
FairAcceptSpec == AcceptSpec /\ Fairness

-----------------------------------------------------------------------------
TypeOK ==
    /\ loop \in {"acquiring", "accepting", "backoff"}
    /\ permits \in 0..MaxConnections
    /\ backlog \in Seq(Conns)
    /\ conn \in [Conns -> Owning \cup {"new", "backlog", "closed"}]

Owners == {c \in Conns : conn[c] \in Owning}

(* Every connection permit (main.rs:242) is free, with the loop that waits *)
(* in accept, or with exactly one live connection: an accept error, a      *)
(* failed or late handshake and every way a connection ends give it back,  *)
(* and so there are never more than MaxConnections live connections.       *)
ConnectionPermits ==
    permits + Cardinality(Owners) + (IF loop = "accepting" THEN 1 ELSE 0) = MaxConnections

(* Every connection that reaches the kernel is accepted in the end,        *)
(* however many others hold permits before it, unless a time comes from    *)
(* which all permits stay with connections that are up to their peers.     *)
(* The handshake timeout, the header timeout, the answer of the router and *)
(* keep_alive(false) (main.rs:303) leave nothing else to wait for; silence *)
(* after the handshake, a response nobody reads and HTTP/2 connections     *)
(* have no timer, and the property says that they are the only exceptions. *)
EveryConnectionIsServed ==
    \/ <>[](Cardinality({d \in Conns : conn[d] \in UpToPeer}) = MaxConnections)
    \/ \A c \in Conns : conn[c] = "backlog" ~> conn[c] # "backlog"
=============================================================================
