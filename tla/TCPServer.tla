----------------------------- MODULE TCPServer -----------------------------
(***************************************************************************)
(* The TCP server of the sonar link (internal/tcp): the goroutine of       *)
(* acceptLoop, one goroutine of handleConnection per connection, and the   *)
(* caller of Stop, which share the map conns and the counters under s.mu.  *)
(* A critical section of s.mu is one step.  What a handler does with the   *)
(* bytes is Assembler's; here Feed returns, or blocks for good on a mutex  *)
(* that it holds itself, as Assembler shows it does after bytes that       *)
(* report too many errors in a row.                                        *)
(*                                                                         *)
(* A definition whose comment begins with `Defect' is not part of Next: it *)
(* is a mistake the definition after it might have had, and is there to    *)
(* show that a property notices it.                                        *)
(***************************************************************************)
EXTENDS Integers, FiniteSets, Functions

CONSTANTS
  NConn,      \* bound of the model: connections peers open in a behaviour
  Addr,       \* the remote addresses (ip:port) they come from
  MaxConns,   \* maxConns
  AddrReuse   \* a peer may come back from the address of a connection it
              \* lost before the server is done with that connection

ASSUME TCPServerAssumption ==
  /\ NConn \in Nat \ {0} /\ Addr # {}
  /\ MaxConns \in Nat
  /\ AddrReuse \in BOOLEAN

(* Connections, numbered in the order they reach the listener. *)
Conn == 1..NConn

VARIABLES
  running,    \* s.running
  listening,  \* the listener is open
  acceptor,   \* where acceptLoop stands
  accepted,   \* the connection acceptLoop has in hand
  conns,      \* s.conns: remote address -> connection
  at,         \* where each connection's handler stands
  addrOf,     \* the remote address of each connection
  open,       \* connections whose socket the server has not closed
  peerUp,     \* connections whose peer is still there
  opened,     \* s.stats.ConnectionsOpened
  closed,     \* s.stats.ConnectionsClosed
  stopper     \* where Stop stands

vars == <<running, listening, acceptor, accepted, conns, at, addrOf, open,
          peerUp, opened, closed, stopper>>

Init ==
  /\ running = FALSE
  /\ listening = FALSE
  /\ acceptor = "off"
  /\ accepted = 1
  /\ conns = <<>>
  /\ at = [c \in Conn |-> "unused"]
  /\ \E a \in Addr : addrOf = [c \in Conn |-> a]
  /\ open = {}
  /\ peerUp = {}
  /\ opened = 0
  /\ closed = 0
  /\ stopper = "idle"

(* Handlers counted by s.wg: wg.Add came before, wg.Done is to come. *)
InWaitGroup == {"loop", "read", "feed", "blocked", "closing"}

(* A failed Listen leaves running as it was. *)
Start ==
  /\ acceptor = "off"
  /\ ~running /\ stopper = "idle"
  /\ running' = TRUE
  /\ listening' = TRUE
  /\ acceptor' = "test"
  /\ UNCHANGED <<accepted, conns, at, addrOf, open, peerUp, opened, closed,
                 stopper>>

-----------------------------------------------------------------------------
(* The peers. *)

(* The kernel completes a handshake and queues the connection.  It refuses *)
(* an address that an open connection still has.                           *)
PeerConnects(c, a) ==
  /\ listening
  /\ at[c] = "unused"
  /\ \A d \in 1..c-1 :
       /\ at[d] # "unused"
       /\ addrOf[d] = a => IF AddrReuse THEN d \notin peerUp \/ d \notin open
                                        ELSE at[d] = "gone"
  /\ at' = [at EXCEPT ![c] = "queued"]
  /\ addrOf' = [addrOf EXCEPT ![c] = a]
  /\ open' = open \cup {c}
  /\ peerUp' = peerUp \cup {c}
  /\ UNCHANGED <<running, listening, acceptor, accepted, conns, opened,
                 closed, stopper>>

PeerLeaves(c) ==
  /\ c \in peerUp
  /\ peerUp' = peerUp \ {c}
  /\ UNCHANGED <<running, listening, acceptor, accepted, conns, at, addrOf,
                 open, opened, closed, stopper>>

-----------------------------------------------------------------------------
(* acceptLoop *)

TestRunning ==
  /\ acceptor = "test"
  /\ acceptor' = IF running THEN "accept" ELSE "exited"
  /\ UNCHANGED <<running, listening, accepted, conns, at, addrOf, open,
                 peerUp, opened, closed, stopper>>

(* Accept returns a connection, or an error once the listener is closed. *)
Accept ==
  /\ acceptor = "accept"
  /\ \/ \E c \in Conn :
          /\ at[c] = "queued" /\ listening
          /\ accepted' = c
          /\ at' = [at EXCEPT ![c] = "admit"]
          /\ acceptor' = "admit"
     \/ /\ ~listening
        /\ acceptor' = "test"
        /\ UNCHANGED <<accepted, at>>
  /\ UNCHANGED <<running, listening, conns, addrOf, open, peerUp, opened,
                 closed, stopper>>

Refuse ==
  /\ acceptor = "admit"
  /\ Cardinality(DOMAIN conns) >= MaxConns
  /\ open' = open \ {accepted}
  /\ at' = [at EXCEPT ![accepted] = "gone"]
  /\ acceptor' = "test"
  /\ UNCHANGED <<running, listening, accepted, conns, addrOf, peerUp, opened,
                 closed, stopper>>

(* Defect: the connection is counted and served, but not entered in conns. *)
RegisterUntracked ==
  /\ acceptor = "admit"
  /\ Cardinality(DOMAIN conns) < MaxConns
  /\ opened' = opened + 1
  /\ acceptor' = "spawn"
  /\ UNCHANGED <<running, listening, accepted, conns, at, addrOf, open,
                 peerUp, closed, stopper>>

(* Defect: off by one in the connection limit. *)
RegisterOneMore ==
  /\ acceptor = "admit"
  /\ Cardinality(DOMAIN conns) <= MaxConns
  /\ conns' = [a \in DOMAIN conns \cup {addrOf[accepted]} |->
                 IF a = addrOf[accepted] THEN accepted ELSE conns[a]]
  /\ opened' = opened + 1
  /\ acceptor' = "spawn"
  /\ UNCHANGED <<running, listening, accepted, at, addrOf, open, peerUp,
                 closed, stopper>>

Register ==
  /\ acceptor = "admit"
  /\ Cardinality(DOMAIN conns) < MaxConns
  /\ conns' = [a \in DOMAIN conns \cup {addrOf[accepted]} |->
                 IF a = addrOf[accepted] THEN accepted ELSE conns[a]]
  /\ opened' = opened + 1
  /\ acceptor' = "spawn"
  /\ UNCHANGED <<running, listening, accepted, at, addrOf, open, peerUp,
                 closed, stopper>>

(* wg.Add(1) and go handleConnection. *)
Spawn ==
  /\ acceptor = "spawn"
  /\ at' = [at EXCEPT ![accepted] = "loop"]
  /\ acceptor' = "test"
  /\ UNCHANGED <<running, listening, accepted, conns, addrOf, open, peerUp,
                 opened, closed, stopper>>

AcceptLoop == TestRunning \/ Accept \/ Refuse \/ Register \/ Spawn

-----------------------------------------------------------------------------
(* handleConnection *)

Move(c, from, to) == at[c] = from /\ at' = [at EXCEPT ![c] = to]

(* Defect: the loop does not test running again. *)
LoopForever(c) ==
  /\ Move(c, "loop", "read")
  /\ UNCHANGED <<running, listening, acceptor, accepted, conns, addrOf, open,
                 peerUp, opened, closed, stopper>>

Loop(c) ==
  /\ Move(c, "loop", IF running THEN "read" ELSE "closing")
  /\ UNCHANGED <<running, listening, acceptor, accepted, conns, addrOf, open,
                 peerUp, opened, closed, stopper>>

(* Read returns bytes: it is up to the peer whether it ever does. *)
ReadData(c) ==
  /\ c \in open /\ c \in peerUp
  /\ Move(c, "read", "feed")
  /\ UNCHANGED <<running, listening, acceptor, accepted, conns, addrOf, open,
                 peerUp, opened, closed, stopper>>

(* Read fails on a lost peer, or on a socket that Stop has closed. *)
ReadError(c) ==
  /\ c \notin open \/ c \notin peerUp
  /\ Move(c, "read", "closing")
  /\ UNCHANGED <<running, listening, acceptor, accepted, conns, addrOf, open,
                 peerUp, opened, closed, stopper>>

FeedReturns(c) ==
  /\ Move(c, "feed", "loop")
  /\ UNCHANGED <<running, listening, acceptor, accepted, conns, addrOf, open,
                 peerUp, opened, closed, stopper>>

(* The bytes report more than maxConsecutiveErrors errors in a row, and    *)
(* handleAssemblerError locks the mutex that Feed holds: no action leaves  *)
(* "blocked".  (One chunk can hold enough broken headers for it.)          *)
FeedBlocks(c) ==
  /\ Move(c, "feed", "blocked")
  /\ UNCHANGED <<running, listening, acceptor, accepted, conns, addrOf, open,
                 peerUp, opened, closed, stopper>>

(* Defect: the deferred function signals s.wg and leaves the socket. *)
DoneUnclosed(c) ==
  /\ Move(c, "closing", "done")
  /\ UNCHANGED <<running, listening, acceptor, accepted, conns, addrOf, open,
                 peerUp, opened, closed, stopper>>

(* The deferred function, up to wg.Done(). *)
CloseAndDone(c) ==
  /\ Move(c, "closing", "done")
  /\ open' = open \ {c}
  /\ UNCHANGED <<running, listening, acceptor, accepted, conns, addrOf,
                 peerUp, opened, closed, stopper>>

(* Defect: the connection is counted without looking it up, though Stop    *)
(* has removed and counted it.                                             *)
CountAnyway(c) ==
  /\ Move(c, "done", "gone")
  /\ conns' = Restrict(conns, DOMAIN conns \ {addrOf[c]})
  /\ closed' = closed + 1
  /\ UNCHANGED <<running, listening, acceptor, accepted, addrOf, open, peerUp,
                 opened, stopper>>

(* The rest of it: whatever conns holds under this address goes. *)
Unregister(c) ==
  /\ Move(c, "done", "gone")
  /\ IF addrOf[c] \in DOMAIN conns
       THEN /\ conns' = Restrict(conns, DOMAIN conns \ {addrOf[c]})
            /\ closed' = closed + 1
       ELSE UNCHANGED <<conns, closed>>
  /\ UNCHANGED <<running, listening, acceptor, accepted, addrOf, open, peerUp,
                 opened, stopper>>

(* What the handler does by itself, without waiting for bytes. *)
Handler(c) ==
  Loop(c) \/ ReadError(c) \/ FeedReturns(c) \/ CloseAndDone(c) \/ Unregister(c)

-----------------------------------------------------------------------------
(* Stop *)

StopBegins ==
  /\ stopper = "idle"
  /\ running
  /\ running' = FALSE
  /\ stopper' = "close"
  /\ UNCHANGED <<listening, acceptor, accepted, conns, at, addrOf, open,
                 peerUp, opened, closed>>

(* Closing the listener also drops the connections queued on it. *)
CloseListener ==
  /\ stopper = "close"
  /\ listening' = FALSE
  /\ at' = [c \in Conn |-> IF at[c] = "queued" THEN "gone" ELSE at[c]]
  /\ open' = open \ {c \in Conn : at[c] = "queued"}
  /\ stopper' = "sweep"
  /\ UNCHANGED <<running, acceptor, accepted, conns, addrOf, peerUp, opened,
                 closed>>

Sweep ==
  /\ stopper = "sweep"
  /\ open' = open \ Range(conns)
  /\ conns' = <<>>
  /\ closed' = closed + Cardinality(DOMAIN conns)
  /\ stopper' = "wait"
  /\ UNCHANGED <<running, listening, acceptor, accepted, at, addrOf, peerUp,
                 opened>>

(* wg.Wait() returns, and Stop with it. *)
StopReturns ==
  /\ stopper = "wait"
  /\ acceptor = "exited"
  /\ \A c \in Conn : at[c] \notin InWaitGroup
  /\ stopper' = "stopped"
  /\ UNCHANGED <<running, listening, acceptor, accepted, conns, at, addrOf,
                 open, peerUp, opened, closed>>

Stop == CloseListener \/ Sweep \/ StopReturns

-----------------------------------------------------------------------------

Next ==
  \/ Start \/ AcceptLoop \/ StopBegins \/ Stop
  \/ \E c \in Conn : \/ \E a \in Addr : PeerConnects(c, a)
                      \/ PeerLeaves(c) \/ ReadData(c) \/ FeedBlocks(c)
                      \/ Handler(c)

Spec == Init /\ [][Next]_vars

(* Goroutines that can run do: a Feed returns that does not block itself.  *)
(* No peer has to connect, send or leave, and nobody has to call Stop.     *)
FairSpec ==
  /\ Spec
  /\ WF_vars(AcceptLoop)
  /\ WF_vars(Stop)
  /\ \A c \in Conn : WF_vars(Handler(c))

-----------------------------------------------------------------------------

TypeOK ==
  /\ running \in BOOLEAN /\ listening \in BOOLEAN
  /\ acceptor \in {"off", "test", "accept", "admit", "spawn", "exited"}
  /\ accepted \in Conn
  /\ DOMAIN conns \subseteq Addr /\ \A a \in DOMAIN conns : conns[a] \in Conn
  /\ at \in [Conn -> InWaitGroup
                       \cup {"unused", "queued", "admit", "done", "gone"}]
  /\ addrOf \in [Conn -> Addr]
  /\ open \subseteq Conn /\ peerUp \subseteq Conn
  /\ opened \in 0..NConn /\ closed \in 0..NConn
  /\ stopper \in {"idle", "close", "sweep", "wait", "stopped"}

(* Connections that were registered and whose handler is not past the end  *)
(* of its loop.                                                            *)
Serving == {c \in Conn : \/ at[c] \in InWaitGroup
                         \/ acceptor = "spawn" /\ accepted = c}

(* The metrics log's "conns", opened minus closed, is the number of        *)
(* connections in the map, through every interleaving of the accept loop,  *)
(* the deferred functions and the sweep of Stop.                           *)
ConnsReconcile == opened - closed = Cardinality(DOMAIN conns)

(* Until Stop sweeps the map, a connection being served is in it under its *)
(* address, so the sweep closes its socket and the limit counts it.        *)
ServedIsTracked ==
  stopper \notin {"wait", "stopped"} =>
    \A c \in Serving : addrOf[c] \in DOMAIN conns /\ conns[addrOf[c]] = c

(* The server never serves more peers at once than max_conns; only the one *)
(* peer accepted during Stop may come on top of those being shut down.     *)
ServingBounded ==
  Cardinality(Serving) <= MaxConns + (IF running THEN 0 ELSE 1)

(* When Stop has returned nothing of the server is left running: no socket *)
(* open, no handler that can still deliver a ping.                         *)
QuietAfterStop ==
  stopper = "stopped" =>
    /\ ~listening /\ acceptor = "exited"
    /\ Serving = {}
    /\ open = {}

(* "sonar TCP server stopped": a call of Stop returns, whatever the peers  *)
(* leave undone; or the Feed of a connection it awaits has blocked itself. *)
(* Nothing else holds Stop up: no peer that is silent, no connection       *)
(* accepted while Stop is under way, no handler that tests running late.   *)
StopEndsOrFeedBlocks ==
  stopper # "idle" ~>
    \/ stopper = "stopped"
    \/ stopper = "wait" /\ \E c \in Conn : at[c] = "blocked"
=============================================================================
