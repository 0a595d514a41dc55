-------------------------- MODULE TCPServerProofs --------------------------
(***************************************************************************)
(* Proofs about TCPServer, for any number of connections, addresses and    *)
(* any limit: the type invariant and that nothing is left running after    *)
(* Stop (QuietAfterStop), and, when no peer comes back from the address of *)
(* a connection the server is not done with, that the counters agree with  *)
(* the map (ConnsReconcile), that the map has every connection served      *)
(* (ServedIsTracked), that the limit holds (ServingBounded), and that Stop *)
(* waits for no peer (StopAwaitsNoPeer), though perhaps for a Feed that    *)
(* has blocked itself.                                                     *)
(***************************************************************************)
EXTENDS TCPServer, FiniteSetTheorems, TLAPS

Where == InWaitGroup \cup {"unused", "queued", "admit", "done", "gone"}

(* The types, with counters that are numbers and no bound on them. *)
Shape ==
  /\ running \in BOOLEAN /\ listening \in BOOLEAN
  /\ acceptor \in {"off", "test", "accept", "admit", "spawn", "exited"}
  /\ accepted \in Conn
  /\ DOMAIN conns \subseteq Addr /\ \A a \in DOMAIN conns : conns[a] \in Conn
  /\ IsFiniteSet(DOMAIN conns)
  /\ at \in [Conn -> Where]
  /\ addrOf \in [Conn -> Addr]
  /\ open \subseteq Conn /\ peerUp \subseteq Conn
  /\ opened \in Int /\ closed \in Nat
  /\ stopper \in {"idle", "close", "sweep", "wait", "stopped"}

(* The connection acceptLoop has in hand is the only one it has not passed *)
(* to a handler or turned away.                                            *)
InHand ==
  /\ acceptor \in {"admit", "spawn"} => at[accepted] = "admit"
  /\ \A c \in Conn :
       at[c] = "admit" => acceptor \in {"admit", "spawn"} /\ c = accepted

(* A socket is open from the handshake to the deferred Close, no longer;   *)
(* a closed listener has no queue.                                         *)
Sockets ==
  /\ \A c \in open : at[c] \in InWaitGroup \cup {"queued", "admit"}
  /\ ~listening => \A c \in Conn : at[c] # "queued"

(* How far Stop has come. *)
Stopping ==
  /\ stopper # "idle" => ~running
  /\ stopper \in {"sweep", "wait", "stopped"} => ~listening
  /\ stopper = "stopped" =>
       acceptor = "exited" /\ \A c \in Conn : at[c] \notin InWaitGroup

(* Connections that acceptLoop is done with. *)
Past == {c \in Conn : \/ at[c] \notin {"unused", "queued", "admit"}
                      \/ acceptor = "spawn" /\ c = accepted}

(* No connection is counted as opened before it is accepted, and no more   *)
(* are counted as closed than were opened.                                 *)
Counted ==
  /\ opened <= Cardinality(Past)
  /\ Cardinality(DOMAIN conns) <= opened - closed

IInv == Shape /\ InHand /\ Sockets /\ Stopping /\ Counted

-----------------------------------------------------------------------------
(* What holds when no address comes back too early. *)

Live(c) == at[c] \notin {"unused", "gone"}

(* Connections come one after the other; two that the server is not done   *)
(* with have different addresses.                                          *)
Distinct ==
  /\ \A c, d \in Conn : c < d /\ at[c] = "unused" => at[d] = "unused"
  /\ \A c, d \in Conn :
       Live(c) /\ Live(d) /\ addrOf[c] = addrOf[d] => c = d

(* What the map holds was registered, and is there under its address. *)
Registered ==
  \A a \in DOMAIN conns :
    /\ addrOf[conns[a]] = a
    /\ \/ at[conns[a]] \in InWaitGroup \cup {"done"}
       \/ acceptor = "spawn" /\ conns[a] = accepted

(* The limit, also for those that Stop shuts down; acceptLoop may have one *)
(* more connection in hand then, and gets no further one.                  *)
Bounded ==
  /\ Cardinality(DOMAIN conns) <= MaxConns
  /\ stopper \in {"wait", "stopped"} =>
       /\ Cardinality(Serving) <= MaxConns + 1
       /\ acceptor = "admit" => Cardinality(Serving) <= MaxConns

Tracked == Distinct /\ Registered /\ ServedIsTracked

-----------------------------------------------------------------------------
(* The steps, by what they do to the handlers *)

(* What the loop of handleConnection does: reading, feeding, testing. *)
Moves(c) ==
  Loop(c) \/ ReadData(c) \/ ReadError(c) \/ FeedReturns(c) \/ FeedBlocks(c)

(* Inside its loop a handler changes only where it stands itself. *)
LEMMA MovesInLoop ==
  ASSUME NEW c \in Conn, Shape, Moves(c)
  PROVE  /\ at[c] \in InWaitGroup
         /\ \E w \in InWaitGroup : at' = [at EXCEPT ![c] = w]
         /\ UNCHANGED <<running, listening, acceptor, accepted, conns, addrOf,
                        open, peerUp, opened, closed, stopper>>
<1>1. CASE Loop(c)
  BY <1>1 DEF Loop, Move, InWaitGroup
<1>2. CASE ReadData(c)
  BY <1>2 DEF ReadData, Move, InWaitGroup
<1>3. CASE ReadError(c)
  BY <1>3 DEF ReadError, Move, InWaitGroup
<1>4. CASE FeedReturns(c)
  BY <1>4 DEF FeedReturns, Move, InWaitGroup
<1>5. CASE FeedBlocks(c)
  BY <1>5 DEF FeedBlocks, Move, InWaitGroup
<1> QED
  BY <1>1, <1>2, <1>3, <1>4, <1>5 DEF Moves

(* Steps that move no handler and leave the map and the counters alone. *)
Aside == \/ Start \/ TestRunning \/ StopBegins \/ StopReturns
         \/ UNCHANGED vars
         \/ \E c \in Conn : PeerLeaves(c)

LEMMA AsideKeeps ==
  ASSUME Aside
  PROVE  UNCHANGED <<accepted, conns, at, addrOf, open, opened, closed>>
BY DEF Aside, Start, TestRunning, StopBegins, StopReturns, PeerLeaves, vars

(* Every step is one of these. *)
LEMMA StepKinds ==
  ASSUME [Next]_vars
  PROVE  \/ Aside
         \/ Accept \/ Refuse \/ Register \/ Spawn
         \/ CloseListener \/ Sweep
         \/ \E c \in Conn : \/ Moves(c) \/ CloseAndDone(c) \/ Unregister(c)
                            \/ \E a \in Addr : PeerConnects(c, a)
BY DEF Next, AcceptLoop, Stop, Handler, Aside, Moves

(* The same counting, wherever a set of connections is counted. *)
LEMMA ConnsFinite ==
  /\ IsFiniteSet(Conn) /\ Cardinality(Conn) = NConn
  /\ \A S \in SUBSET Conn :
       /\ IsFiniteSet(S) /\ Cardinality(S) \in Nat
       /\ Cardinality(S) <= NConn
<1>1. NConn \in Nat /\ NConn >= 1
  BY TCPServerAssumption
<1>2. IsFiniteSet(Conn) /\ Cardinality(Conn) = NConn
  BY <1>1, FS_Interval DEF Conn
<1> QED
  BY <1>1, <1>2, FS_Subset, FS_CardinalityType

LEMMA MoreCount ==
  ASSUME NEW S, NEW T \in SUBSET Conn, S \subseteq T
  PROVE  /\ Cardinality(S) \in Nat /\ Cardinality(T) \in Nat
         /\ Cardinality(S) <= Cardinality(T)
<1>1. IsFiniteSet(T) /\ S \in SUBSET T /\ S \in SUBSET Conn
  BY ConnsFinite
<1>2. Cardinality(S) <= Cardinality(T)
  BY <1>1, FS_Subset
<1> QED
  BY <1>1, <1>2, ConnsFinite

-----------------------------------------------------------------------------
(* The types *)

LEMMA ShapeInit == Init => Shape
<1> SUFFICES ASSUME Init PROVE Shape
  OBVIOUS
<1>1. DOMAIN conns = {}
  BY DEF Init
<1>2. IsFiniteSet(DOMAIN conns)
  BY <1>1, FS_EmptySet
<1>3. accepted \in Conn
  BY TCPServerAssumption DEF Init, Conn
<1>4. at \in [Conn -> Where] /\ addrOf \in [Conn -> Addr]
  BY DEF Init, Where
<1>5. /\ running \in BOOLEAN /\ listening \in BOOLEAN
  BY DEF Init
<1>6. /\ acceptor = "off" /\ stopper = "idle" /\ opened = 0 /\ closed = 0
      /\ open = {} /\ peerUp = {}
  BY DEF Init
<1> QED
  BY <1>1, <1>2, <1>3, <1>4, <1>5, <1>6 DEF Shape

(* The handlers, the addresses and the sockets keep their types. *)
LEMMA HandlersShape ==
  ASSUME Shape, [Next]_vars
  PROVE  /\ (accepted \in Conn)' /\ (at \in [Conn -> Where])'
         /\ (addrOf \in [Conn -> Addr])' /\ (open \subseteq Conn)'
<1>0. /\ accepted \in Conn /\ at \in [Conn -> Where]
      /\ addrOf \in [Conn -> Addr] /\ open \subseteq Conn
      /\ InWaitGroup \subseteq Where
      /\ {"queued", "admit", "done", "gone"} \subseteq Where
  BY DEF Shape, Where
<1>1. CASE Aside
  BY <1>0, <1>1, AsideKeeps
<1>2. CASE Accept \/ Refuse \/ Register
  BY <1>0, <1>2 DEF Accept, Refuse, Register
<1>3. CASE Spawn
  BY <1>0, <1>3 DEF Spawn, InWaitGroup
<1>4. CASE CloseListener \/ Sweep
  BY <1>0, <1>4 DEF CloseListener, Sweep
<1>5. CASE \E c \in Conn : Moves(c)
  BY <1>0, <1>5, MovesInLoop
<1>6. CASE \E c \in Conn : CloseAndDone(c) \/ Unregister(c)
  BY <1>0, <1>6 DEF CloseAndDone, Unregister, Move
<1>7. CASE \E c \in Conn, a \in Addr : PeerConnects(c, a)
  BY <1>0, <1>7 DEF PeerConnects
<1> QED
  BY <1>1, <1>2, <1>3, <1>4, <1>5, <1>6, <1>7, StepKinds

(* Only Register, Unregister and Sweep touch the map and the counters. *)
LEMMA MapSteps ==
  ASSUME Shape, [Next]_vars
  PROVE  \/ UNCHANGED <<conns, opened, closed>>
         \/ Register \/ Sweep
         \/ \E c \in Conn : Unregister(c) /\ addrOf[c] \in DOMAIN conns
<1>1. CASE Aside
  BY <1>1, AsideKeeps
<1>2. CASE Accept \/ Refuse \/ Spawn \/ CloseListener
  BY <1>2 DEF Accept, Refuse, Spawn, CloseListener
<1>3. CASE \E c \in Conn : Moves(c)
  BY <1>3, MovesInLoop
<1>4. CASE \E c \in Conn : CloseAndDone(c) \/ Unregister(c)
  BY <1>4 DEF CloseAndDone, Unregister
<1>5. CASE \E c \in Conn, a \in Addr : PeerConnects(c, a)
  BY <1>5 DEF PeerConnects
<1> QED
  BY <1>1, <1>2, <1>3, <1>4, <1>5, StepKinds

(* So does the map: it stays finite, with connections under addresses. *)
LEMMA MapShape ==
  ASSUME Shape, [Next]_vars
  PROVE  /\ (DOMAIN conns \subseteq Addr)'
         /\ (\A a \in DOMAIN conns : conns[a] \in Conn)'
         /\ IsFiniteSet(DOMAIN conns)'
<1>0. /\ accepted \in Conn /\ addrOf \in [Conn -> Addr]
      /\ DOMAIN conns \subseteq Addr /\ \A a \in DOMAIN conns : conns[a] \in Conn
      /\ IsFiniteSet(DOMAIN conns)
  BY DEF Shape
<1>1. CASE UNCHANGED conns
  BY <1>0, <1>1
<1>2. CASE Register
  <2>1. DOMAIN conns' = DOMAIN conns \cup {addrOf[accepted]}
    BY <1>2 DEF Register
  <2>2. IsFiniteSet(DOMAIN conns \cup {addrOf[accepted]})
    BY <1>0, FS_AddElement
  <2>3. \A a \in DOMAIN conns' : conns'[a] \in Conn
    BY <1>0, <1>2, <2>1 DEF Register
  <2> QED
    BY <1>0, <2>1, <2>2, <2>3
<1>3. ASSUME NEW c \in Conn, Unregister(c), addrOf[c] \in DOMAIN conns
      PROVE  /\ (DOMAIN conns \subseteq Addr)'
             /\ (\A a \in DOMAIN conns : conns[a] \in Conn)'
             /\ IsFiniteSet(DOMAIN conns)'
  <2>1. conns' = [a \in DOMAIN conns \ {addrOf[c]} |-> conns[a]]
    BY <1>3 DEF Unregister, Restrict
  <2>2. IsFiniteSet(DOMAIN conns \ {addrOf[c]})
    BY <1>0, FS_RemoveElement
  <2> QED
    BY <1>0, <2>1, <2>2
<1>4. CASE Sweep
  <2>1. DOMAIN conns' = {}
    BY <1>4 DEF Sweep
  <2> QED
    BY <2>1, FS_EmptySet
<1> QED
  BY <1>1, <1>2, <1>3, <1>4, MapSteps

LEMMA ControlShape ==
  ASSUME Shape, [Next]_vars
  PROVE  /\ (peerUp \subseteq Conn)'
         /\ (acceptor \in {"off", "test", "accept", "admit", "spawn", "exited"})'
         /\ (stopper \in {"idle", "close", "sweep", "wait", "stopped"})'
<1>0. /\ peerUp \subseteq Conn
      /\ acceptor \in {"off", "test", "accept", "admit", "spawn", "exited"}
      /\ stopper \in {"idle", "close", "sweep", "wait", "stopped"}
  BY DEF Shape
<1>1. CASE Aside
  BY <1>0, <1>1
     DEF Aside, Start, TestRunning, StopBegins, StopReturns, PeerLeaves, vars
<1>2. CASE Accept \/ Refuse \/ Register \/ Spawn
  BY <1>0, <1>2 DEF Accept, Refuse, Register, Spawn
<1>3. CASE CloseListener \/ Sweep
  BY <1>0, <1>3 DEF CloseListener, Sweep
<1>4. CASE \E c \in Conn : Moves(c)
  BY <1>0, <1>4, MovesInLoop
<1>5. CASE \E c \in Conn : CloseAndDone(c) \/ Unregister(c)
  BY <1>0, <1>5 DEF CloseAndDone, Unregister
<1>6. CASE \E c \in Conn, a \in Addr : PeerConnects(c, a)
  BY <1>0, <1>6 DEF PeerConnects
<1> QED
  BY <1>1, <1>2, <1>3, <1>4, <1>5, <1>6, StepKinds

LEMMA FlagsShape ==
  ASSUME Shape, [Next]_vars
  PROVE  (running \in BOOLEAN)' /\ (listening \in BOOLEAN)'
<1>0. running \in BOOLEAN /\ listening \in BOOLEAN
  BY DEF Shape
<1>1. CASE Aside
  BY <1>0, <1>1
     DEF Aside, Start, TestRunning, StopBegins, StopReturns, PeerLeaves, vars
<1>2. CASE Accept \/ Refuse \/ Register \/ Spawn
  BY <1>0, <1>2 DEF Accept, Refuse, Register, Spawn
<1>3. CASE CloseListener \/ Sweep
  BY <1>0, <1>3 DEF CloseListener, Sweep
<1>4. CASE \E c \in Conn : Moves(c)
  BY <1>0, <1>4, MovesInLoop
<1>5. CASE \E c \in Conn : CloseAndDone(c) \/ Unregister(c)
  BY <1>0, <1>5 DEF CloseAndDone, Unregister
<1>6. CASE \E c \in Conn, a \in Addr : PeerConnects(c, a)
  BY <1>0, <1>6 DEF PeerConnects
<1> QED
  BY <1>1, <1>2, <1>3, <1>4, <1>5, <1>6, StepKinds

LEMMA CountersShape ==
  ASSUME Shape, [Next]_vars
  PROVE  (opened \in Int)' /\ (closed \in Nat)'
<1>0. /\ opened \in Int /\ closed \in Nat
      /\ Cardinality(DOMAIN conns) \in Nat
  BY FS_CardinalityType DEF Shape
<1>1. CASE Aside
  BY <1>0, <1>1, AsideKeeps
<1>2. CASE Accept \/ Refuse \/ Register \/ Spawn
  BY <1>0, <1>2 DEF Accept, Refuse, Register, Spawn
<1>3. CASE CloseListener \/ Sweep
  BY <1>0, <1>3 DEF CloseListener, Sweep
<1>4. CASE \E c \in Conn : Moves(c)
  BY <1>0, <1>4, MovesInLoop
<1>5. CASE \E c \in Conn : CloseAndDone(c) \/ Unregister(c)
  BY <1>0, <1>5 DEF CloseAndDone, Unregister
<1>6. CASE \E c \in Conn, a \in Addr : PeerConnects(c, a)
  BY <1>0, <1>6 DEF PeerConnects
<1> QED
  BY <1>1, <1>2, <1>3, <1>4, <1>5, <1>6, StepKinds

LEMMA ShapeStep ==
  ASSUME Shape, [Next]_vars
  PROVE  Shape'
BY HandlersShape, MapShape, ControlShape, FlagsShape, CountersShape DEF Shape

-----------------------------------------------------------------------------
(* acceptLoop has at most one connection in hand *)

LEMMA InHandStep ==
  ASSUME Shape, InHand, [Next]_vars
  PROVE  InHand'
<1>0. /\ accepted \in Conn /\ at \in [Conn -> Where]
      /\ acceptor \in {"admit", "spawn"} => at[accepted] = "admit"
      /\ \A c \in Conn :
           at[c] = "admit" => acceptor \in {"admit", "spawn"} /\ c = accepted
  BY DEF Shape, InHand
<1>1. CASE Aside
  <2>1. UNCHANGED <<at, accepted>>
    BY <1>1, AsideKeeps
  <2>2. \/ UNCHANGED acceptor
        \/ /\ acceptor \in {"off", "test"}
           /\ acceptor' \notin {"admit", "spawn"}
    BY <1>1 DEF Aside, Start, TestRunning, StopBegins, StopReturns,
                PeerLeaves, vars
  <2> QED
    BY <1>0, <2>1, <2>2 DEF InHand
<1>2. CASE Accept \/ Refuse \/ Register
  BY <1>0, <1>2 DEF Accept, Refuse, Register, InHand
<1>3. CASE Spawn
  BY <1>0, <1>3 DEF Spawn, InHand
<1>4. CASE CloseListener \/ Sweep
  BY <1>0, <1>4 DEF CloseListener, Sweep, InHand
<1>5. CASE \E c \in Conn : Moves(c)
  BY <1>0, <1>5, MovesInLoop DEF InHand, InWaitGroup
<1>6. CASE \E c \in Conn : CloseAndDone(c) \/ Unregister(c)
  BY <1>0, <1>6 DEF CloseAndDone, Unregister, Move, InHand
<1>7. CASE \E c \in Conn, a \in Addr : PeerConnects(c, a)
  BY <1>0, <1>7 DEF PeerConnects, InHand
<1> QED
  BY <1>1, <1>2, <1>3, <1>4, <1>5, <1>6, <1>7, StepKinds

(* No socket outlives its handler, and no queue its listener. *)
LEMMA SocketsStep ==
  ASSUME Shape, InHand, Sockets, [Next]_vars
  PROVE  Sockets'
<1>0. /\ accepted \in Conn /\ at \in [Conn -> Where] /\ open \subseteq Conn
      /\ acceptor \in {"admit", "spawn"} => at[accepted] = "admit"
  BY DEF Shape, InHand
<1>1. CASE Aside
  <2>1. UNCHANGED <<at, open>>
    BY <1>1, AsideKeeps
  <2>2. listening' = listening \/ listening' = TRUE
    BY <1>1 DEF Aside, Start, TestRunning, StopBegins, StopReturns,
                PeerLeaves, vars
  <2> QED
    BY <2>1, <2>2 DEF Sockets
<1>2. CASE Accept
  BY <1>0, <1>2 DEF Accept, Sockets
<1>3. CASE Refuse
  BY <1>0, <1>3 DEF Refuse, Sockets
<1>4. CASE Register
  BY <1>0, <1>4 DEF Register, Sockets
<1>5. CASE Spawn
  BY <1>0, <1>5 DEF Spawn, Sockets, InWaitGroup
<1>6. CASE CloseListener
  BY <1>0, <1>6 DEF CloseListener, Sockets
<1>7. CASE Sweep
  BY <1>0, <1>7 DEF Sweep, Sockets
<1>8. CASE \E c \in Conn : Moves(c)
  BY <1>0, <1>8, MovesInLoop DEF Sockets, InWaitGroup
<1>9. CASE \E c \in Conn : CloseAndDone(c)
  BY <1>0, <1>9 DEF CloseAndDone, Move, Sockets
<1>10. CASE \E c \in Conn : Unregister(c)
  BY <1>0, <1>10 DEF Unregister, Move, Sockets, InWaitGroup
<1>11. CASE \E c \in Conn, a \in Addr : PeerConnects(c, a)
  BY <1>0, <1>11 DEF PeerConnects, Sockets
<1> QED
  BY <1>1, <1>2, <1>3, <1>4, <1>5, <1>6, <1>7, <1>8, <1>9, <1>10, <1>11,
     StepKinds

(* What Stop has taken down does not come back. *)
LEMMA StoppingStep ==
  ASSUME Shape, Stopping, [Next]_vars
  PROVE  Stopping'
<1>0. accepted \in Conn /\ at \in [Conn -> Where]
  BY DEF Shape
<1>1. CASE Aside
  BY <1>1, AsideKeeps DEF Aside, Start, TestRunning, StopBegins, StopReturns,
                          PeerLeaves, vars, Stopping
<1>2. CASE Accept \/ Refuse \/ Register \/ Spawn
  BY <1>0, <1>2 DEF Accept, Refuse, Register, Spawn, Stopping
<1>3. CASE CloseListener \/ Sweep
  BY <1>0, <1>3 DEF CloseListener, Sweep, Stopping
<1>4. CASE \E c \in Conn : Moves(c)
  BY <1>0, <1>4, MovesInLoop DEF Stopping
<1>5. CASE \E c \in Conn : CloseAndDone(c) \/ Unregister(c)
  BY <1>0, <1>5 DEF CloseAndDone, Unregister, Move, Stopping, InWaitGroup
<1>6. CASE \E c \in Conn, a \in Addr : PeerConnects(c, a)
  BY <1>0, <1>6 DEF PeerConnects, Stopping, InWaitGroup
<1> QED
  BY <1>1, <1>2, <1>3, <1>4, <1>5, <1>6, StepKinds

-----------------------------------------------------------------------------
(* The counters *)

(* A connection that acceptLoop is done with does not come back to it. *)
LEMMA PastGrows ==
  ASSUME Shape, InHand, [Next]_vars
  PROVE  Past \subseteq Past'
<1>0. /\ accepted \in Conn /\ at \in [Conn -> Where]
      /\ acceptor \in {"admit", "spawn"} => at[accepted] = "admit"
  BY DEF Shape, InHand
<1>1. CASE Aside
  <2>1. UNCHANGED <<at, accepted>>
    BY <1>1, AsideKeeps
  <2>2. acceptor = "spawn" => acceptor' = "spawn"
    BY <1>1 DEF Aside, Start, TestRunning, StopBegins, StopReturns,
                PeerLeaves, vars
  <2> QED
    BY <2>1, <2>2 DEF Past
<1>2. CASE Accept \/ Refuse \/ Register
  BY <1>0, <1>2 DEF Accept, Refuse, Register, Past
<1>3. CASE Spawn
  BY <1>0, <1>3 DEF Spawn, Past
<1>4. CASE CloseListener \/ Sweep
  BY <1>0, <1>4 DEF CloseListener, Sweep, Past
<1>5. CASE \E c \in Conn : Moves(c)
  BY <1>0, <1>5, MovesInLoop DEF Past, InWaitGroup
<1>6. CASE \E c \in Conn : CloseAndDone(c) \/ Unregister(c)
  BY <1>0, <1>6 DEF CloseAndDone, Unregister, Move, Past
<1>7. CASE \E c \in Conn, a \in Addr : PeerConnects(c, a)
  BY <1>0, <1>7 DEF PeerConnects, Past
<1> QED
  BY <1>1, <1>2, <1>3, <1>4, <1>5, <1>6, <1>7, StepKinds

(* How the size of the map changes with each of them. *)
LEMMA RegisterSize ==
  ASSUME Shape, Register
  PROVE  /\ Cardinality(DOMAIN conns) \in Nat
         /\ Cardinality(DOMAIN conns') =
              IF addrOf[accepted] \in DOMAIN conns
                THEN Cardinality(DOMAIN conns)
                ELSE Cardinality(DOMAIN conns) + 1
<1> DEFINE D == DOMAIN conns
<1>1. IsFiniteSet(D) /\ DOMAIN conns' = D \cup {addrOf[accepted]}
  BY DEF Shape, Register
<1> HIDE DEF D
<1>2. Cardinality(D \cup {addrOf[accepted]}) =
        IF addrOf[accepted] \in D THEN Cardinality(D) ELSE Cardinality(D) + 1
  BY <1>1, FS_AddElement
<1>3. Cardinality(D) \in Nat
  BY <1>1, FS_CardinalityType
<1> QED
  BY <1>1, <1>2, <1>3 DEF D

LEMMA UnregisterSize ==
  ASSUME Shape, NEW c \in Conn, Unregister(c), addrOf[c] \in DOMAIN conns
  PROVE  /\ Cardinality(DOMAIN conns) \in Nat
         /\ Cardinality(DOMAIN conns') = Cardinality(DOMAIN conns) - 1
         /\ closed' = closed + 1 /\ opened' = opened
<1> DEFINE D == DOMAIN conns
<1>1. IsFiniteSet(D) /\ DOMAIN conns' = D \ {addrOf[c]} /\ addrOf[c] \in D
  BY DEF Shape, Unregister, Restrict
<1> HIDE DEF D
<1>2. Cardinality(D \ {addrOf[c]}) = Cardinality(D) - 1
  BY <1>1, FS_RemoveElement
<1>3. Cardinality(D) \in Nat
  BY <1>1, FS_CardinalityType
<1>4. closed' = closed + 1 /\ opened' = opened
  BY DEF Unregister
<1> QED
  BY <1>1, <1>2, <1>3, <1>4 DEF D

LEMMA SweepSize ==
  ASSUME Shape, Sweep
  PROVE  /\ Cardinality(DOMAIN conns) \in Nat
         /\ Cardinality(DOMAIN conns') = 0
         /\ closed' = closed + Cardinality(DOMAIN conns) /\ opened' = opened
<1>1. DOMAIN conns' = {}
  BY DEF Sweep
<1>2. Cardinality(DOMAIN conns') = 0
  BY <1>1, FS_EmptySet
<1>3. Cardinality(DOMAIN conns) \in Nat
  BY FS_CardinalityType DEF Shape
<1> QED
  BY <1>2, <1>3 DEF Sweep

LEMMA CountedStep ==
  ASSUME Shape, InHand, Counted, [Next]_vars
  PROVE  Counted'
<1> DEFINE n == Cardinality(DOMAIN conns)  p == Cardinality(Past)
<1>1. Past' \in SUBSET Conn
  BY HandlersShape DEF Past
<1>2. p \in Nat /\ p' \in Nat /\ p <= p'
  BY <1>1, PastGrows, MoreCount
<1>3. opened \in Int /\ closed \in Nat /\ opened <= p /\ n <= opened - closed
  BY DEF Shape, Counted
<1>4. CASE UNCHANGED <<conns, opened, closed>>
  <2>1. n' = n /\ n \in Nat
    BY <1>4, FS_CardinalityType DEF Shape
  <2> HIDE DEF n, p
  <2>2. opened' <= p' /\ n' <= opened' - closed'
    BY <1>2, <1>3, <1>4, <2>1
  <2> QED
    BY <2>2 DEF n, p, Counted
<1>5. CASE Register
  <2>1. n \in Nat /\ n' \in Nat /\ n' <= n + 1
    BY <1>5, RegisterSize
  <2>2. p' >= p + 1
    <3>1. accepted \notin Past /\ Past' \subseteq Conn /\ accepted \in Past'
      BY <1>1, <1>5 DEF Register, Past, InHand, Shape
    <3>2. IsFiniteSet(Past) /\ Past \cup {accepted} \subseteq Past'
      BY <3>1, PastGrows, ConnsFinite DEF Past
    <3>3. Cardinality(Past \cup {accepted}) = p + 1
      BY <3>1, <3>2, FS_AddElement
    <3>4. Cardinality(Past \cup {accepted}) <= p'
      BY <1>1, <3>2, MoreCount
    <3> QED
      BY <1>2, <3>3, <3>4
  <2>3. opened' = opened + 1 /\ closed' = closed
    BY <1>5 DEF Register
  <2> HIDE DEF n, p
  <2>4. opened' <= p' /\ n' <= opened' - closed'
    BY <1>2, <1>3, <2>1, <2>2, <2>3
  <2> QED
    BY <2>4 DEF n, p, Counted
<1>6. CASE Sweep
  <2>1. n \in Nat /\ n' = 0 /\ closed' = closed + n /\ opened' = opened
    BY <1>6, SweepSize
  <2> HIDE DEF n, p
  <2>2. opened' <= p' /\ n' <= opened' - closed'
    BY <1>2, <1>3, <2>1
  <2> QED
    BY <2>2 DEF n, p, Counted
<1>7. ASSUME NEW c \in Conn, Unregister(c), addrOf[c] \in DOMAIN conns
      PROVE  Counted'
  <2>1. n \in Nat /\ n' = n - 1 /\ closed' = closed + 1 /\ opened' = opened
    BY <1>7, UnregisterSize
  <2> HIDE DEF n, p
  <2>2. opened' <= p' /\ n' <= opened' - closed'
    BY <1>2, <1>3, <2>1
  <2> QED
    BY <2>2 DEF n, p, Counted
<1> QED
  BY <1>4, <1>5, <1>6, <1>7, MapSteps

-----------------------------------------------------------------------------
(* What holds whether or not addresses come back *)

(* In every reachable state of the accept loop, the handlers and Stop the  *)
(* inductive invariant holds.                                              *)
THEOREM Invariance == Spec => []IInv
<1>1. Init => IInv
  <2> SUFFICES ASSUME Init PROVE IInv
    OBVIOUS
  <2>1. Past = {} /\ DOMAIN conns = {} /\ opened = 0 /\ closed = 0
    BY DEF Init, Past
  <2>2. Counted
    BY <2>1, FS_EmptySet DEF Counted
  <2>3. InHand /\ Sockets /\ Stopping
    BY DEF Init, InHand, Sockets, Stopping
  <2> QED
    BY <2>2, <2>3, ShapeInit DEF IInv
<1>2. IInv /\ [Next]_vars => IInv'
  BY ShapeStep, InHandStep, SocketsStep, StoppingStep, CountedStep DEF IInv
<1> QED
  BY <1>1, <1>2, PTL DEF Spec

(* The type invariant of the server's state: in particular the counters    *)
(* never exceed the number of connections, and none is closed that was not *)
(* opened.                                                                 *)
THEOREM TypeCorrect == Spec => []TypeOK
<1>1. ASSUME IInv PROVE TypeOK
  <2>1. opened \in 0 .. NConn /\ closed \in 0 .. NConn
    <3>1. Cardinality(Past) \in Nat /\ Cardinality(Past) <= NConn
      BY ConnsFinite DEF Past
    <3>2. Cardinality(DOMAIN conns) \in Nat
      BY <1>1, FS_CardinalityType DEF IInv, Shape
    <3>3. /\ opened \in Int /\ closed \in Nat
          /\ opened <= Cardinality(Past)
          /\ Cardinality(DOMAIN conns) <= opened - closed
      BY <1>1 DEF IInv, Shape, Counted
    <3>4. NConn \in Nat
      BY TCPServerAssumption
    <3> QED
      BY <3>1, <3>2, <3>3, <3>4
  <2>2. running \in BOOLEAN /\ listening \in BOOLEAN
    BY <1>1 DEF IInv, Shape
  <2> QED
    BY <1>1, <2>1, <2>2 DEF IInv, Shape, TypeOK, Where
<1> QED
  BY <1>1, Invariance, PTL

(* Once Stop has returned, acceptLoop and every handler of a connection    *)
(* have ended and every socket is closed, also when addresses are reused.  *)
THEOREM NothingRunsAfterStop == Spec => []QuietAfterStop
<1>1. ASSUME IInv PROVE QuietAfterStop
  <2> SUFFICES ASSUME stopper = "stopped"
               PROVE  /\ ~listening /\ acceptor = "exited"
                      /\ Serving = {} /\ open = {}
    BY DEF QuietAfterStop
  <2>1. /\ ~listening /\ acceptor = "exited"
        /\ \A c \in Conn : at[c] \notin InWaitGroup
    BY <1>1 DEF IInv, Stopping
  <2>2. \A c \in Conn : at[c] # "queued" /\ at[c] # "admit"
    BY <1>1, <2>1 DEF IInv, Sockets, InHand
  <2>3. open = {}
    BY <1>1, <2>1, <2>2 DEF IInv, Sockets, Shape
  <2> QED
    BY <2>1, <2>3 DEF Serving
<1> QED
  BY <1>1, Invariance, PTL

(* The metrics log's "conns", opened minus closed, never falls below the   *)
(* number of connections in the map, also when addresses are reused.       *)
THEOREM NeverUndercounts ==
  Spec => [](Cardinality(DOMAIN conns) <= opened - closed)
<1>1. IInv => Cardinality(DOMAIN conns) <= opened - closed
  BY DEF IInv, Counted
<1> QED
  BY <1>1, Invariance, PTL

-----------------------------------------------------------------------------
(* Addresses that do not come back too early *)

(* Live connections stay at different addresses. *)
LEMMA DistinctStep ==
  ASSUME ~AddrReuse, Shape, InHand, Distinct, [Next]_vars
  PROVE  Distinct'
<1>0. /\ accepted \in Conn /\ at \in [Conn -> Where]
      /\ addrOf \in [Conn -> Addr] /\ Conn \subseteq Int
      /\ acceptor \in {"admit", "spawn"} => at[accepted] = "admit"
  BY TCPServerAssumption DEF Shape, InHand, Conn
<1>1. ASSUME UNCHANGED addrOf,
             \A c \in Conn : /\ Live(c)' => Live(c)
                             /\ at[c] = "unused" <=> at'[c] = "unused"
      PROVE  Distinct'
  BY <1>1 DEF Distinct
<1>2. CASE Aside
  BY <1>1, <1>2, AsideKeeps DEF Live
<1>3. CASE Accept \/ Refuse \/ Register
  BY <1>0, <1>1, <1>3 DEF Accept, Refuse, Register, Live
<1>4. CASE Spawn
  BY <1>0, <1>1, <1>4 DEF Spawn, Live
<1>5. CASE CloseListener \/ Sweep
  BY <1>0, <1>1, <1>5 DEF CloseListener, Sweep, Live
<1>6. CASE \E c \in Conn : Moves(c)
  BY <1>0, <1>1, <1>6, MovesInLoop DEF Live, InWaitGroup
<1>7. CASE \E c \in Conn : CloseAndDone(c) \/ Unregister(c)
  BY <1>0, <1>1, <1>7 DEF CloseAndDone, Unregister, Move, Live
<1>8. ASSUME NEW c \in Conn, NEW a \in Addr, PeerConnects(c, a)
      PROVE  Distinct'
  <2>1. /\ at[c] = "unused" /\ at' = [at EXCEPT ![c] = "queued"]
        /\ addrOf' = [addrOf EXCEPT ![c] = a]
        /\ \A d \in 1 .. c-1 : /\ at[d] # "unused"
                               /\ addrOf[d] = a => at[d] = "gone"
    BY <1>8 DEF PeerConnects
  <2>2. \A d \in Conn : /\ d < c => d \in 1 .. c-1
                        /\ d > c => at[d] = "unused"
    BY <1>0, <2>1 DEF Distinct, Conn
  <2>3. \A d \in Conn : /\ d # c /\ Live(d) => addrOf[d] # a
                        /\ at[d] = "unused" => d >= c
    BY <1>0, <2>1, <2>2 DEF Live
  <2>4. \A d, e \in Conn : d < e /\ at'[d] = "unused" => at'[e] = "unused"
    BY <1>0, <2>1, <2>2, <2>3
  <2>5. \A d \in Conn : /\ d # c => addrOf'[d] = addrOf[d]
                        /\ d # c /\ Live(d)' => Live(d)
                        /\ addrOf'[c] = a
    BY <1>0, <2>1 DEF Live
  <2>6. \A d, e \in Conn :
          Live(d)' /\ Live(e)' /\ addrOf'[d] = addrOf'[e] => d = e
    BY <2>3, <2>5 DEF Distinct
  <2> QED
    BY <2>4, <2>6 DEF Distinct
<1> QED
  BY <1>2, <1>3, <1>4, <1>5, <1>6, <1>7, <1>8, StepKinds

(* What the map holds stays registered under its own address. *)
LEMMA RegisteredStep ==
  ASSUME Shape, InHand, Registered, [Next]_vars
  PROVE  Registered'
<1>0. /\ accepted \in Conn /\ at \in [Conn -> Where]
      /\ addrOf \in [Conn -> Addr]
      /\ \A a \in DOMAIN conns : conns[a] \in Conn
      /\ acceptor \in {"admit", "spawn"} => at[accepted] = "admit"
  BY DEF Shape, InHand
<1>1. CASE Aside
  <2>1. UNCHANGED <<at, accepted, conns, addrOf>>
    BY <1>1, AsideKeeps
  <2>2. acceptor = "spawn" => acceptor' = "spawn"
    BY <1>1 DEF Aside, Start, TestRunning, StopBegins, StopReturns,
                PeerLeaves, vars
  <2> QED
    BY <2>1, <2>2 DEF Registered
<1>2. CASE Accept \/ Refuse
  BY <1>0, <1>2 DEF Accept, Refuse, Registered, InWaitGroup
<1>3. CASE Register
  BY <1>0, <1>3 DEF Register, Registered, InWaitGroup
<1>4. CASE Spawn
  BY <1>0, <1>4 DEF Spawn, Registered, InWaitGroup
<1>5. CASE CloseListener
  BY <1>0, <1>5 DEF CloseListener, Registered, InWaitGroup
<1>6. CASE Sweep
  BY <1>6 DEF Sweep, Registered
<1>7. CASE \E c \in Conn : Moves(c)
  BY <1>0, <1>7, MovesInLoop DEF Registered
<1>8. CASE \E c \in Conn : CloseAndDone(c)
  BY <1>0, <1>8 DEF CloseAndDone, Move, Registered
<1>9. CASE \E c \in Conn : Unregister(c)
  BY <1>0, <1>9 DEF Unregister, Move, Registered, Restrict
<1>10. CASE \E c \in Conn, a \in Addr : PeerConnects(c, a)
  BY <1>0, <1>10 DEF PeerConnects, Registered, InWaitGroup
<1> QED
  BY <1>1, <1>2, <1>3, <1>4, <1>5, <1>6, <1>7, <1>8, <1>9, <1>10, StepKinds

(* A connection begins to be served when it is registered, and only then. *)
LEMMA ServingShrinks ==
  ASSUME Shape, InHand, [Next]_vars, ~Register
  PROVE  Serving' \subseteq Serving
<1>0. /\ accepted \in Conn /\ at \in [Conn -> Where]
      /\ acceptor \in {"admit", "spawn"} => at[accepted] = "admit"
  BY DEF Shape, InHand
<1>1. CASE Aside
  <2>1. UNCHANGED <<at, accepted>>
    BY <1>1, AsideKeeps
  <2>2. acceptor' = "spawn" => acceptor = "spawn"
    BY <1>1 DEF Aside, Start, TestRunning, StopBegins, StopReturns,
                PeerLeaves, vars
  <2> QED
    BY <2>1, <2>2 DEF Serving
<1>2. CASE Accept \/ Refuse
  BY <1>0, <1>2 DEF Accept, Refuse, Serving, InWaitGroup
<1>3. CASE Spawn
  BY <1>0, <1>3 DEF Spawn, Serving
<1>4. CASE CloseListener \/ Sweep
  BY <1>0, <1>4 DEF CloseListener, Sweep, Serving, InWaitGroup
<1>5. CASE \E c \in Conn : Moves(c)
  BY <1>0, <1>5, MovesInLoop DEF Serving
<1>6. CASE \E c \in Conn : CloseAndDone(c) \/ Unregister(c)
  BY <1>0, <1>6 DEF CloseAndDone, Unregister, Move, Serving, InWaitGroup
<1>7. CASE \E c \in Conn, a \in Addr : PeerConnects(c, a)
  BY <1>0, <1>7 DEF PeerConnects, Serving, InWaitGroup
<1> QED
  BY <1>1, <1>2, <1>3, <1>4, <1>5, <1>6, <1>7, StepKinds

LEMMA RegisterServes ==
  ASSUME Shape, Register
  PROVE  Serving' \subseteq Serving \cup {accepted}
BY DEF Shape, Register, Serving

(* Only a connection that nobody serves yet gets its address. *)
LEMMA ServedKeepsAddress ==
  ASSUME Shape, InHand, [Next]_vars, NEW c \in Serving
  PROVE  addrOf'[c] = addrOf[c]
<1>0. /\ accepted \in Conn /\ at \in [Conn -> Where]
      /\ addrOf \in [Conn -> Addr] /\ c \in Conn
      /\ at[c] \in InWaitGroup \/ at[c] = "admit"
  BY DEF Shape, InHand, Serving
<1>1. CASE \E d \in Conn, a \in Addr : PeerConnects(d, a)
  BY <1>0, <1>1 DEF PeerConnects, InWaitGroup
<1>2. CASE Aside
  BY <1>2, AsideKeeps
<1>3. CASE Accept \/ Refuse \/ Register \/ Spawn \/ CloseListener \/ Sweep
  BY <1>3 DEF Accept, Refuse, Register, Spawn, CloseListener, Sweep
<1>4. CASE \E d \in Conn : Moves(d)
  BY <1>4, MovesInLoop
<1>5. CASE \E d \in Conn : CloseAndDone(d) \/ Unregister(d)
  BY <1>5 DEF CloseAndDone, Unregister
<1> QED
  BY <1>1, <1>2, <1>3, <1>4, <1>5, StepKinds

(* Stop does not take back its sweep. *)
LEMMA SweptStays ==
  ASSUME Shape, [Next]_vars, stopper \in {"wait", "stopped"}
  PROVE  stopper' \in {"wait", "stopped"}
<1>1. CASE Aside
  BY <1>1 DEF Aside, Start, TestRunning, StopBegins, StopReturns, PeerLeaves,
              vars
<1>2. CASE Accept \/ Refuse \/ Register \/ Spawn \/ CloseListener \/ Sweep
  BY <1>2 DEF Accept, Refuse, Register, Spawn, CloseListener, Sweep
<1>3. CASE \E d \in Conn : Moves(d)
  BY <1>3, MovesInLoop
<1>4. CASE \E d \in Conn : CloseAndDone(d) \/ Unregister(d)
  BY <1>4 DEF CloseAndDone, Unregister
<1>5. CASE \E d \in Conn, a \in Addr : PeerConnects(d, a)
  BY <1>5 DEF PeerConnects
<1> QED
  BY <1>1, <1>2, <1>3, <1>4, <1>5, StepKinds

(* The map keeps the entry of a connection being served: no other that is  *)
(* registered or unregistered meanwhile has the same address.              *)
LEMMA TrackedStep ==
  ASSUME Shape, InHand, Distinct, ServedIsTracked, [Next]_vars
  PROVE  ServedIsTracked'
<1> SUFFICES ASSUME stopper' \notin {"wait", "stopped"}, NEW c \in Serving'
             PROVE  /\ addrOf'[c] \in DOMAIN conns'
                    /\ conns'[addrOf'[c]] = c
  BY DEF ServedIsTracked
<1>0. /\ accepted \in Conn /\ at \in [Conn -> Where]
      /\ acceptor \in {"admit", "spawn"} => at[accepted] = "admit"
  BY DEF Shape, InHand
<1>1. stopper \notin {"wait", "stopped"}
  BY SweptStays
<1>2. ASSUME c \in Serving
      PROVE  /\ addrOf[c] \in DOMAIN conns /\ conns[addrOf[c]] = c
             /\ addrOf'[c] = addrOf[c] /\ c \in Conn /\ Live(c)
  BY <1>0, <1>1, <1>2, ServedKeepsAddress
     DEF ServedIsTracked, Serving, Live, InWaitGroup
<1>3. CASE UNCHANGED <<conns, opened, closed>>
  <2>1. ~Register
    BY <1>3 DEF Register, Shape
  <2> QED
    BY <1>2, <1>3, <2>1, ServingShrinks
<1>4. CASE Register
  <2>1. c \in Serving \/ c = accepted
    BY <1>4, RegisterServes
  <2>2. addrOf' = addrOf /\ Live(accepted)
    BY <1>0, <1>4 DEF Register, Live
  <2>3. CASE c = accepted
    BY <1>4, <2>2, <2>3 DEF Register
  <2>4. CASE c # accepted
    <3>1. addrOf[c] # addrOf[accepted]
      BY <1>0, <1>2, <2>1, <2>2, <2>4 DEF Distinct
    <3> QED
      BY <1>2, <1>4, <2>1, <2>4, <3>1 DEF Register
  <2> QED
    BY <2>3, <2>4
<1>5. CASE Sweep
  BY <1>5 DEF Sweep
<1>6. ASSUME NEW d \in Conn, Unregister(d), addrOf[d] \in DOMAIN conns
      PROVE  addrOf'[c] \in DOMAIN conns' /\ conns'[addrOf'[c]] = c
  <2>1. ~Register
    BY <1>6 DEF Register, Unregister, Shape
  <2>2. c \in Serving
    BY <2>1, ServingShrinks
  <2>3. at[d] = "done" /\ d # c
    BY <1>0, <1>6, <2>2 DEF Unregister, Move, Serving, InWaitGroup
  <2>4. addrOf[c] # addrOf[d]
    BY <1>2, <2>2, <2>3 DEF Distinct, Live
  <2>5. conns' = [a \in DOMAIN conns \ {addrOf[d]} |-> conns[a]]
    BY <1>6 DEF Unregister, Restrict
  <2> QED
    BY <1>2, <2>2, <2>4, <2>5
<1> QED
  BY <1>3, <1>4, <1>5, <1>6, MapSteps

(* A connection is registered at an address that the map does not have. *)
LEMMA FreshAddress ==
  ASSUME Shape, InHand, Distinct, Registered, Register
  PROVE  addrOf[accepted] \notin DOMAIN conns
<1> SUFFICES ASSUME addrOf[accepted] \in DOMAIN conns PROVE FALSE
  OBVIOUS
<1> DEFINE e == conns[addrOf[accepted]]
<1>1. /\ accepted \in Conn /\ e \in Conn /\ acceptor = "admit"
      /\ at[accepted] = "admit"
  BY DEF Shape, InHand, Register
<1>2. addrOf[e] = addrOf[accepted] /\ at[e] \in InWaitGroup \cup {"done"}
  BY <1>1 DEF Registered
<1>3. Live(e) /\ Live(accepted)
  BY <1>1, <1>2 DEF Live, InWaitGroup
<1> QED
  BY <1>1, <1>2, <1>3 DEF Distinct, InWaitGroup

LEMMA ReconcileStep ==
  ASSUME Shape, InHand, Distinct, Registered, ConnsReconcile, [Next]_vars
  PROVE  ConnsReconcile'
<1> DEFINE n == Cardinality(DOMAIN conns)
<1>1. opened \in Int /\ closed \in Nat /\ opened - closed = n
  BY DEF Shape, ConnsReconcile
<1>2. CASE UNCHANGED <<conns, opened, closed>>
  BY <1>1, <1>2 DEF ConnsReconcile
<1>3. CASE Register
  <2>1. n \in Nat /\ n' = n + 1
    BY <1>3, RegisterSize, FreshAddress
  <2>2. opened' = opened + 1 /\ closed' = closed
    BY <1>3 DEF Register
  <2> HIDE DEF n
  <2>3. opened' - closed' = n'
    BY <1>1, <2>1, <2>2
  <2> QED
    BY <2>3 DEF n, ConnsReconcile
<1>4. CASE Sweep
  <2>1. n \in Nat /\ n' = 0 /\ closed' = closed + n /\ opened' = opened
    BY <1>4, SweepSize
  <2> HIDE DEF n
  <2>2. opened' - closed' = n'
    BY <1>1, <2>1
  <2> QED
    BY <2>2 DEF n, ConnsReconcile
<1>5. ASSUME NEW c \in Conn, Unregister(c), addrOf[c] \in DOMAIN conns
      PROVE  ConnsReconcile'
  <2>1. n \in Nat /\ n' = n - 1 /\ closed' = closed + 1 /\ opened' = opened
    BY <1>5, UnregisterSize
  <2> HIDE DEF n
  <2>2. opened' - closed' = n'
    BY <1>1, <2>1
  <2> QED
    BY <2>2 DEF n, ConnsReconcile
<1> QED
  BY <1>2, <1>3, <1>4, <1>5, MapSteps

-----------------------------------------------------------------------------
(* The limit *)

(* Until the sweep, different connections being served are different       *)
(* entries of the map.                                                     *)
LEMMA ServingFits ==
  ASSUME Shape, ServedIsTracked, stopper \notin {"wait", "stopped"}
  PROVE  /\ Cardinality(Serving) \in Nat /\ Cardinality(DOMAIN conns) \in Nat
         /\ Cardinality(Serving) <= Cardinality(DOMAIN conns)
<1> DEFINE f == [c \in Serving |-> addrOf[c]]
<1>1. \A c \in Serving : f[c] \in DOMAIN conns /\ conns[f[c]] = c
  BY DEF ServedIsTracked
<1>2. f \in Injection(Serving, DOMAIN conns)
  BY <1>1 DEF Injection, IsInjective
<1>3. IsFiniteSet(DOMAIN conns)
  BY DEF Shape
<1>4. Cardinality(Serving) <= Cardinality(DOMAIN conns)
  BY <1>2, <1>3, FS_Injection
<1>5. Serving \in SUBSET Conn
  BY DEF Serving
<1> QED
  BY <1>3, <1>4, <1>5, ConnsFinite, FS_CardinalityType

(* The map never outgrows the limit. *)
LEMMA MapBounded ==
  ASSUME Shape, Cardinality(DOMAIN conns) <= MaxConns, [Next]_vars
  PROVE  (Cardinality(DOMAIN conns) <= MaxConns)'
<1> DEFINE n == Cardinality(DOMAIN conns)
<1>1. MaxConns \in Nat /\ n <= MaxConns
  BY TCPServerAssumption
<1>2. CASE UNCHANGED <<conns, opened, closed>>
  BY <1>1, <1>2
<1>3. CASE Register
  <2>1. n < MaxConns /\ n \in Nat /\ (n' = n \/ n' = n + 1)
    BY <1>3, RegisterSize DEF Register
  <2> HIDE DEF n
  <2>2. n' <= MaxConns
    BY <1>1, <2>1
  <2> QED
    BY <2>2 DEF n
<1>4. CASE Sweep
  <2>1. n' = 0
    BY <1>4, SweepSize
  <2> QED
    BY <1>1, <2>1
<1>5. ASSUME NEW c \in Conn, Unregister(c), addrOf[c] \in DOMAIN conns
      PROVE  n' <= MaxConns
  <2>1. n \in Nat /\ n' = n - 1
    BY <1>5, UnregisterSize
  <2> HIDE DEF n
  <2> QED
    BY <1>1, <2>1
<1> QED
  BY <1>2, <1>3, <1>4, <1>5, MapSteps

(* With the listener closed acceptLoop gets no further connection. *)
LEMMA NoFurther ==
  ASSUME Shape, [Next]_vars, ~listening, acceptor' = "admit"
  PROVE  acceptor = "admit" /\ ~Register
<1>1. CASE Aside
  BY <1>1 DEF Aside, Start, TestRunning, StopBegins, StopReturns, PeerLeaves,
              vars, Register
<1>2. CASE Accept \/ Refuse \/ Register \/ Spawn
  BY <1>2 DEF Accept, Refuse, Register, Spawn
<1>3. CASE CloseListener \/ Sweep
  BY <1>3 DEF CloseListener, Sweep, Register
<1>4. CASE \E c \in Conn : Moves(c)
  BY <1>4, MovesInLoop DEF Register
<1>5. CASE \E c \in Conn : CloseAndDone(c) \/ Unregister(c)
  BY <1>5 DEF CloseAndDone, Unregister, Register
<1>6. CASE \E c \in Conn, a \in Addr : PeerConnects(c, a)
  BY <1>6 DEF PeerConnects, Register
<1> QED
  BY <1>1, <1>2, <1>3, <1>4, <1>5, <1>6, StepKinds

LEMMA BoundedStep ==
  ASSUME Shape, InHand, Stopping, ServedIsTracked, Bounded, [Next]_vars
  PROVE  Bounded'
<1> DEFINE k == Cardinality(Serving)
<1>1. (Cardinality(DOMAIN conns) <= MaxConns)'
  BY MapBounded DEF Bounded
<1>2. Serving \in SUBSET Conn /\ Serving' \in SUBSET Conn
  BY DEF Serving
<1>3. k \in Nat /\ k' \in Nat /\ MaxConns \in Nat
  BY <1>2, ConnsFinite, TCPServerAssumption
<1>4. ~Register => k' <= k
  BY <1>2, ServingShrinks, MoreCount
<1>5. Register => k' <= k + 1
  <2> SUFFICES ASSUME Register PROVE k' <= k + 1
    OBVIOUS
  <2>1. Serving' \subseteq Serving \cup {accepted} /\ accepted \in Conn
    BY RegisterServes DEF Shape
  <2>2. IsFiniteSet(Serving)
    BY <1>2, ConnsFinite
  <2>3. Cardinality(Serving \cup {accepted}) \in {k, k + 1}
    BY <2>2, FS_AddElement
  <2>4. k' <= Cardinality(Serving \cup {accepted})
    BY <1>2, <2>1, MoreCount
  <2> HIDE DEF k
  <2> QED
    BY <1>3, <2>3, <2>4
<1>6. CASE stopper \in {"wait", "stopped"}
  <2>1. /\ k <= MaxConns + 1
        /\ acceptor = "admit" => k <= MaxConns
        /\ ~listening
    BY <1>6 DEF Bounded, Stopping
  <2>2. Register => acceptor = "admit"
    BY DEF Register
  <2>3. acceptor' = "admit" => acceptor = "admit" /\ ~Register
    BY <2>1, NoFurther
  <2> HIDE DEF k
  <2>4. k' <= MaxConns + 1
    BY <1>3, <1>4, <1>5, <2>1, <2>2
  <2>5. acceptor' = "admit" => k' <= MaxConns
    BY <1>3, <1>4, <2>1, <2>3
  <2> QED
    BY <1>1, <2>4, <2>5 DEF k, Bounded
<1>7. CASE stopper \notin {"wait", "stopped"}
  <2> SUFFICES ASSUME stopper' \in {"wait", "stopped"}
               PROVE  k' <= MaxConns
    BY <1>1, <1>3 DEF Bounded
  <2>1. ~Register
    BY <1>7 DEF Register
  <2>2. /\ Cardinality(DOMAIN conns) \in Nat
        /\ k <= Cardinality(DOMAIN conns)
        /\ Cardinality(DOMAIN conns) <= MaxConns
    BY <1>7, ServingFits DEF Bounded
  <2> HIDE DEF k
  <2> QED
    BY <1>3, <1>4, <2>1, <2>2
<1> QED
  BY <1>6, <1>7

-----------------------------------------------------------------------------
(* The theorems for addresses that do not come back too early *)

(* Without early reuse of an address, the map and the handlers correspond. *)
THEOREM Tracking ==
  ASSUME ~AddrReuse
  PROVE  Spec => [](IInv /\ Tracked)
<1>1. Init => Tracked
  BY DEF Init, Tracked, Distinct, Registered, ServedIsTracked, Live, Serving,
         InWaitGroup
<1>2. IInv /\ Tracked /\ [Next]_vars => Tracked'
  BY DistinctStep, RegisteredStep, TrackedStep DEF IInv, Tracked
<1> QED
  BY <1>1, <1>2, Invariance, PTL DEF Spec

(* Until Stop sweeps the map, every connection being served is in it under *)
(* its address: the sweep closes it, and the limit counts it.              *)
THEOREM ServedInMap ==
  ASSUME ~AddrReuse
  PROVE  Spec => []ServedIsTracked
<1>1. IInv /\ Tracked => ServedIsTracked
  BY DEF Tracked
<1> QED
  BY <1>1, Tracking, PTL

(* Opened minus closed is the number of connections in the map, whatever   *)
(* the order in which handlers end and Stop sweeps.                        *)
THEOREM CountersAgree ==
  ASSUME ~AddrReuse
  PROVE  Spec => []ConnsReconcile
<1>1. Init => ConnsReconcile
  <2> SUFFICES ASSUME Init PROVE ConnsReconcile
    OBVIOUS
  <2>1. DOMAIN conns = {} /\ opened = 0 /\ closed = 0
    BY DEF Init
  <2> QED
    BY <2>1, FS_EmptySet DEF ConnsReconcile
<1>2. IInv /\ Tracked /\ ConnsReconcile /\ [Next]_vars => ConnsReconcile'
  BY ReconcileStep DEF IInv, Tracked
<1> QED
  BY <1>1, <1>2, Tracking, PTL DEF Spec

(* No more than max_conns connections are served at once, and at most one  *)
(* more while Stop is shutting them down.                                  *)
THEOREM LimitHolds ==
  ASSUME ~AddrReuse
  PROVE  Spec => []ServingBounded
<1>1. Init => Bounded
  <2> SUFFICES ASSUME Init PROVE Bounded
    OBVIOUS
  <2>1. DOMAIN conns = {} /\ stopper = "idle" /\ MaxConns \in Nat
    BY TCPServerAssumption DEF Init
  <2> QED
    BY <2>1, FS_EmptySet DEF Bounded
<1>2. IInv /\ Tracked /\ Bounded /\ [Next]_vars => Bounded'
  BY BoundedStep DEF IInv, Tracked
<1>3. ASSUME IInv, Tracked, Bounded PROVE ServingBounded
  <2>1. Cardinality(Serving) \in Nat /\ MaxConns \in Nat
    BY ConnsFinite, TCPServerAssumption DEF Serving
  <2>2. CASE stopper \in {"wait", "stopped"}
    <3>1. ~running
      BY <1>3, <2>2 DEF IInv, Stopping
    <3> QED
      BY <1>3, <2>2, <3>1 DEF Bounded, ServingBounded
  <2>3. CASE stopper \notin {"wait", "stopped"}
    <3>1. /\ Cardinality(DOMAIN conns) \in Nat
          /\ Cardinality(Serving) <= Cardinality(DOMAIN conns)
          /\ Cardinality(DOMAIN conns) <= MaxConns
      BY <1>3, <2>3, ServingFits DEF IInv, Tracked, Bounded
    <3> QED
      BY <2>1, <3>1 DEF ServingBounded
  <2> QED
    BY <2>2, <2>3
<1> QED
  BY <1>1, <1>2, <1>3, Tracking, PTL DEF Spec

-----------------------------------------------------------------------------
(* What Stop waits for *)

(* No handler that Stop waits for is in a Read that only its peer can end. *)
NoReadWaits ==
  stopper \in {"wait", "stopped"} =>
    \A c \in Conn : at[c] = "read" => c \notin open

(* The steps of a handler from the accept to its end; one that is blocked  *)
(* in Feed takes no more.                                                  *)
StepsLeft(w) ==
  CASE w = "queued" -> 6 [] w = "admit" -> 5 [] w = "feed" -> 4
    [] w \in {"loop", "read"} -> 3 [] w = "closing" -> 2 [] w = "done" -> 1
    [] OTHER -> 0

(* While Stop waits, every step of a connection brings it nearer its end,  *)
(* or is one into a Feed that blocks itself.                               *)
WindsDown ==
  stopper = "wait" =>
    \A c \in Conn : at'[c] = at[c] \/ StepsLeft(at'[c]) < StepsLeft(at[c])

LEMMA NoReadWaitsStep ==
  ASSUME Shape, InHand, Sockets, Stopping, ServedIsTracked, NoReadWaits,
         [Next]_vars
  PROVE  NoReadWaits'
<1>0. at \in [Conn -> Where] /\ accepted \in Conn
  BY DEF Shape
<1>1. CASE UNCHANGED <<at, open>>
           /\ (stopper' \in {"wait", "stopped"}
                 => stopper \in {"wait", "stopped"})
  BY <1>1 DEF NoReadWaits
<1>2. CASE Aside
  <2>1. /\ UNCHANGED <<at, open>>
        /\ (stopper' \in {"wait", "stopped"}
              => stopper \in {"wait", "stopped"})
    BY <1>2 DEF Aside, Start, TestRunning, StopBegins, StopReturns,
                PeerLeaves, vars
  <2> QED
    BY <1>1, <2>1
<1>3. CASE Accept \/ Refuse \/ Register \/ Spawn
  <2>1. /\ open' \subseteq open /\ UNCHANGED stopper
        /\ \A c \in Conn : at'[c] = "read" => at[c] = "read"
    BY <1>0, <1>3 DEF Accept, Refuse, Register, Spawn
  <2> QED
    BY <2>1 DEF NoReadWaits
<1>4. CASE CloseListener
  BY <1>4 DEF CloseListener, NoReadWaits
<1>5. CASE Sweep
  <2>1. UNCHANGED at /\ open' = open \ Range(conns) /\ stopper = "sweep"
    BY <1>5 DEF Sweep
  <2>2. ASSUME NEW c \in Conn, at[c] = "read" PROVE c \in Range(conns)
    <3>1. c \in Serving
      BY <2>2 DEF Serving, InWaitGroup
    <3>2. addrOf[c] \in DOMAIN conns /\ conns[addrOf[c]] = c
      BY <2>1, <3>1 DEF ServedIsTracked
    <3> QED
      BY <3>2 DEF Range
  <2> QED
    BY <2>1, <2>2 DEF NoReadWaits
<1>6. ASSUME NEW c \in Conn, Moves(c) PROVE NoReadWaits'
  <2>1. UNCHANGED <<open, stopper>>
    BY <1>6, MovesInLoop
  <2>2. ASSUME stopper # "idle", NEW d \in Conn, at'[d] = "read"
        PROVE  at[d] = "read"
    BY <1>0, <1>6, <2>2
    DEF Moves, Loop, ReadData, ReadError, FeedReturns, FeedBlocks, Move,
        Stopping
  <2> QED
    BY <2>1, <2>2 DEF NoReadWaits
<1>7. ASSUME NEW c \in Conn, CloseAndDone(c) \/ Unregister(c)
      PROVE  NoReadWaits'
  <2>1. /\ open' \subseteq open /\ UNCHANGED stopper
        /\ \A d \in Conn : at'[d] = "read" => at[d] = "read"
    BY <1>0, <1>7 DEF CloseAndDone, Unregister, Move
  <2> QED
    BY <2>1 DEF NoReadWaits
<1>8. ASSUME NEW c \in Conn, NEW a \in Addr, PeerConnects(c, a)
      PROVE  NoReadWaits'
  <2>1. stopper \notin {"wait", "stopped"} /\ UNCHANGED stopper
    BY <1>8 DEF PeerConnects, Stopping
  <2> QED
    BY <2>1 DEF NoReadWaits
<1> QED
  BY <1>2, <1>3, <1>4, <1>5, <1>6, <1>7, <1>8, StepKinds

LEMMA WindsDownStep ==
  ASSUME Shape, InHand, Stopping, NoReadWaits, stopper = "wait", Next
  PROVE  WindsDown
<1>0. at \in [Conn -> Where] /\ accepted \in Conn /\ ~running /\ ~listening
  BY DEF Shape, Stopping
<1>1. CASE UNCHANGED at
  BY <1>1 DEF WindsDown
<1>2. ASSUME NEW c \in Conn, NEW w, at' = [at EXCEPT ![c] = w],
             StepsLeft(w) < StepsLeft(at[c])
      PROVE  WindsDown
  BY <1>0, <1>2 DEF WindsDown
<1>3. CASE Aside \/ Register \/ Sweep
  BY <1>1, <1>3, AsideKeeps DEF Register, Sweep
<1>4. CASE Accept
  BY <1>0, <1>1, <1>4 DEF Accept
<1>5. CASE Refuse \/ Spawn
  <2>1. at[accepted] = "admit"
    BY <1>5 DEF InHand, Refuse, Spawn
  <2>2. PICK w \in {"gone", "loop"} : at' = [at EXCEPT ![accepted] = w]
    BY <1>5 DEF Refuse, Spawn
  <2>3. StepsLeft(w) < StepsLeft(at[accepted])
    BY <2>1, <2>2 DEF StepsLeft
  <2> QED
    BY <1>0, <1>2, <2>2, <2>3
<1>6. CASE CloseListener
  BY <1>6 DEF CloseListener
<1>7. ASSUME NEW c \in Conn, Moves(c) \/ CloseAndDone(c) \/ Unregister(c)
      PROVE  WindsDown
  <2>1. ~ReadData(c)
    BY DEF ReadData, Move, NoReadWaits
  <2>2. PICK w : /\ at' = [at EXCEPT ![c] = w]
                 /\ \/ at[c] \in {"loop", "read"} /\ w = "closing"
                    \/ at[c] = "feed" /\ w \in {"loop", "blocked"}
                    \/ at[c] = "closing" /\ w = "done"
                    \/ at[c] = "done" /\ w = "gone"
    BY <1>0, <1>7, <2>1 DEF Moves, Loop, ReadError, FeedReturns, FeedBlocks,
                            CloseAndDone, Unregister, Move
  <2>3. StepsLeft(w) < StepsLeft(at[c])
    BY <2>2 DEF StepsLeft
  <2> QED
    BY <1>2, <2>2, <2>3
<1>8. \A c \in Conn, a \in Addr : ~PeerConnects(c, a)
  BY <1>0 DEF PeerConnects
<1> QED
  BY <1>3, <1>4, <1>5, <1>6, <1>7, <1>8, StepKinds

(* Stop waits for no peer: by the time it waits for the handlers, none of  *)
(* them is in a Read on an open socket, also the one that was accepted     *)
(* after the map was swept, and each step of theirs is one nearer to their *)
(* end, or the last one, into a Feed that blocks itself.  (With addresses  *)
(* that come back too early, which the sweep may miss, it may wait for a   *)
(* peer.)                                                                  *)
THEOREM StopAwaitsNoPeer ==
  ASSUME ~AddrReuse
  PROVE  Spec => []NoReadWaits /\ [][WindsDown]_vars
<1>1. Init => NoReadWaits
  BY DEF Init, NoReadWaits
<1>2. IInv /\ Tracked /\ NoReadWaits /\ [Next]_vars => NoReadWaits'
  BY NoReadWaitsStep DEF IInv, Tracked
<1>3. IInv /\ NoReadWaits /\ [Next]_vars => [WindsDown]_vars
  <2> SUFFICES ASSUME IInv, NoReadWaits, Next PROVE WindsDown
    OBVIOUS
  <2>1. CASE stopper = "wait"
    BY <2>1, WindsDownStep DEF IInv
  <2>2. CASE stopper # "wait"
    BY <2>2 DEF WindsDown
  <2> QED
    BY <2>1, <2>2
<1> QED
  BY <1>1, <1>2, <1>3, Tracking, PTL DEF Spec
=============================================================================
