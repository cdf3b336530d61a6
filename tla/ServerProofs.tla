---------------------------- MODULE ServerProofs ----------------------------
(***************************************************************************)
(* Theorems about Server for every number of descriptors and clients and   *)
(* any number of stop() calls.                                             *)
(***************************************************************************)
EXTENDS Server, TLAPS

USE ServerAssumption

\* A socket is pending or open, not both.
PendingApart == \A fd \in pending : sockets[fd] # "open"

\* Before the first stop() no entry of _sockets is stale.
NoneStale == stops = 0 => \A fd \in Fd : sockets[fd] # "closed"

\* A serving client whose stream is open has a descriptor of its own, and
\* every stream descriptor is that of a serving client.
StreamOwned == \A c \in Client : client[c] = "serving" /\ clientFd[c] # None =>
                                    file[clientFd[c]] = "stream"
StreamApart == \A c, d \in Client :
                  /\ client[c] = "serving" /\ client[d] = "serving"
                  /\ clientFd[c] = clientFd[d] /\ clientFd[c] # None
                  => c = d
StreamUsed  == \A fd \in Fd : file[fd] = "stream" =>
                  \E c \in Client : client[c] = "serving" /\ clientFd[c] = fd

Streams == StreamOwned /\ StreamApart /\ StreamUsed

\* The socket an accept loop goes on with is one of the server's.
AcceptLoop == thread.open => thread.fd \in Fd /\ sockets[thread.fd] = "open"

\* While the server is shut down it has neither a socket nor a connection.
Quiet == quiet => OpenSockets = {} /\ connections = {}

Files == AcceptsItsSockets /\ PendingApart /\ NoneStale

Inv == TypeOK /\ Files /\ HandlersKept /\ Streams /\ AcceptLoop /\ Quiet

-----------------------------------------------------------------------------
(* TCPServer. *)

\* listen(): the descriptors are free, so that no entry of _sockets is open
\* there; a stale one is replaced.
LEMMA ListenInv ==
    ASSUME Inv, NEW fds \in SUBSET Fd, Listen(fds)
    PROVE  Inv'
<1> USE DEF Inv
<1>1. TypeOK'
  BY DEF TypeOK, Listen, BindSockets, AddSockets, clientVars, closerVars
<1>2. Files'
  BY DEF TypeOK, Files, AcceptsItsSockets, PendingApart, NoneStale, Listen,
         BindSockets, AddSockets, IsNext, Free
<1>3. HandlersKept'
  BY DEF HandlersKept, Listen, BindSockets, AddSockets
<1>4. Streams'
  BY DEF TypeOK, Streams, StreamOwned, StreamApart, StreamUsed, Listen,
         BindSockets, IsNext, Free, clientVars
<1>5. AcceptLoop'
  BY DEF AcceptLoop, Listen, AddSockets
<1>6. Quiet'
  BY DEF Quiet, Listen, BindSockets, AddSockets
<1> QED
  BY <1>1, <1>2, <1>3, <1>4, <1>5, <1>6

\* bind(), before and after start().
LEMMA BindInv ==
    ASSUME Inv, NEW fds \in SUBSET Fd, Bind(fds)
    PROVE  Inv'
<1> USE DEF Inv
<1>1. TypeOK'
  <2>1. CASE started
    BY <2>1 DEF TypeOK, Idle, Closing, Bind, BindSockets, AddSockets, IsNext,
           Free, UserCode, serverVars, clientVars, closerVars
  <2>2. CASE ~started
    BY <2>2 DEF TypeOK, Idle, Closing, Bind, BindSockets, AddSockets, IsNext,
           Free, UserCode, serverVars, clientVars, closerVars
  <2> QED
    BY <2>1, <2>2
<1>2. Files'
  BY DEF TypeOK, Files, AcceptsItsSockets, PendingApart, NoneStale, Bind,
         BindSockets, AddSockets, IsNext, Free
<1>3. HandlersKept'
  BY DEF HandlersKept, Bind, BindSockets, AddSockets
<1>4. Streams'
  BY DEF TypeOK, Streams, StreamOwned, StreamApart, StreamUsed, Bind,
         BindSockets, IsNext, Free, clientVars
<1>5. AcceptLoop'
  BY DEF AcceptLoop, Bind, AddSockets
<1>6. Quiet'
  <2>1. CASE started
    <3>1. ~quiet'
      BY <2>1 DEF Bind, BindSockets, AddSockets
    <3> QED
      BY <3>1 DEF Quiet
  <2>2. CASE ~started
    BY <2>2 DEF Bind, clientVars, Quiet, OpenSockets, connections
  <2> QED
    BY <2>1, <2>2
<1> QED
  BY <1>1, <1>2, <1>3, <1>4, <1>5, <1>6

\* start() adds the pending sockets.
LEMMA StartInv ==
    ASSUME Inv, Start
    PROVE  Inv'
<1> USE DEF Inv
<1>1. TypeOK'
  BY DEF TypeOK, Start, AddSockets, clientVars, closerVars
<1>2. Files'
  BY DEF Files, AcceptsItsSockets, PendingApart, NoneStale, Start, AddSockets
<1>3. HandlersKept'
  BY DEF Files, AcceptsItsSockets, HandlersKept, Start, AddSockets
<1>4. Streams'
  BY DEF Streams, StreamOwned, StreamApart, StreamUsed, Start, clientVars
<1>5. AcceptLoop'
  BY DEF AcceptLoop, Start, AddSockets
<1>6. Quiet'
  BY DEF Quiet, OpenSockets, connections, Start, AddSockets, clientVars
<1> QED
  BY <1>1, <1>2, <1>3, <1>4, <1>5, <1>6

\* stop(): what it frees are its own sockets.  That the handlers of others stay
\* needs NoneStale, which holds for the first call only.
LEMMA StopInv ==
    ASSUME Inv, Stop
    PROVE  Inv'
<1> USE DEF Inv
<1>1. TypeOK'
  <2>1. \A c \in UNION {Backlog(fd) : fd \in OpenSockets} : c \in Client /\ client[c] = "queued"
    BY DEF Backlog
  <2>2. client' \in [Client -> {"away", "queued", "serving", "ended", "failed", "gone"}]
        /\ clientFd' \in [Client -> Fd \cup {None}]
    BY DEF TypeOK, Stop
  <2>3. \A c \in Client : client'[c] \in {"ended", "failed"} => client[c] = client'[c]
    BY DEF TypeOK, Stop
  <2>4. thread' \in [at : {"idle", "accept", "callback", "closing"}, fd : Fd \cup {None}, open : BOOLEAN]
        /\ (thread' = Closing <=> closer = "running")
    BY DEF TypeOK, Stop, UserCode, Idle, Closing
  <2> QED
    BY <2>2, <2>3, <2>4 DEF TypeOK, Stop, StopHandlers, closerVars
<1>2. Files'
  BY DEF TypeOK, Files, AcceptsItsSockets, PendingApart, NoneStale,
         OpenSockets, Stop, StopHandlers, Known
<1>3. HandlersKept'
  BY DEF TypeOK, Files, NoneStale, HandlersKept, OpenSockets, Stop,
         StopHandlers, Known
<1>4. Streams'
  BY DEF TypeOK, Files, AcceptsItsSockets, Streams, StreamOwned, StreamApart,
         StreamUsed, OpenSockets, Stop, Backlog
<1>5. AcceptLoop'
  BY DEF AcceptLoop, Stop
<1>6. Quiet'
  BY DEF Quiet, OpenSockets, connections, Stop
<1> QED
  BY <1>1, <1>2, <1>3, <1>4, <1>5, <1>6

-----------------------------------------------------------------------------
(* The rest of the program, and clients. *)

\* A file of the rest of the program comes and goes.
LEMMA OtherOpensInv ==
    ASSUME Inv, NEW fd \in Fd, OtherOpens(fd)
    PROVE  Inv'
<1> USE DEF Inv
<1>1. TypeOK'
  BY DEF TypeOK, OtherOpens, serverVars, clientVars, closerVars
<1>2. Files'
  BY DEF Files, AcceptsItsSockets, PendingApart, NoneStale, OtherOpens, IsNext,
         Free, serverVars
<1>3. HandlersKept'
  BY DEF TypeOK, HandlersKept, OtherOpens, serverVars
<1>4. Streams'
  BY DEF Streams, StreamOwned, StreamApart, StreamUsed, OtherOpens, IsNext,
         Free, clientVars
<1>5. AcceptLoop'
  BY DEF AcceptLoop, OtherOpens, serverVars
<1>6. Quiet'
  BY DEF Quiet, OpenSockets, connections, OtherOpens, serverVars, clientVars
<1> QED
  BY <1>1, <1>2, <1>3, <1>4, <1>5, <1>6

LEMMA OtherClosesInv ==
    ASSUME Inv, NEW fd \in Fd, OtherCloses(fd)
    PROVE  Inv'
<1> USE DEF Inv
<1>1. TypeOK'
  BY DEF TypeOK, OtherCloses, serverVars, clientVars, closerVars
<1>2. Files'
  BY DEF Files, AcceptsItsSockets, PendingApart, NoneStale, OtherCloses,
         serverVars
<1>3. HandlersKept'
  BY DEF TypeOK, HandlersKept, OtherCloses, serverVars
<1>4. Streams'
  BY DEF Streams, StreamOwned, StreamApart, StreamUsed, OtherCloses, clientVars
<1>5. AcceptLoop'
  BY DEF AcceptLoop, OtherCloses, serverVars
<1>6. Quiet'
  BY DEF Quiet, OpenSockets, connections, OtherCloses, serverVars, clientVars
<1> QED
  BY <1>1, <1>2, <1>3, <1>4, <1>5, <1>6

\* A client arrives in a backlog.
LEMMA ConnectInv ==
    ASSUME Inv, NEW c \in Client, NEW fd \in Fd, Connect(c, fd)
    PROVE  Inv'
<1> USE DEF Inv
<1>1. TypeOK'
  BY DEF TypeOK, Connect, serverVars, closerVars
<1>2. Files'
  BY DEF Files, AcceptsItsSockets, PendingApart, NoneStale, Connect, serverVars
<1>3. HandlersKept'
  BY DEF HandlersKept, Connect, serverVars
<1>4. Streams'
  BY DEF Streams, StreamOwned, StreamApart, StreamUsed, Connect
<1>5. AcceptLoop'
  BY DEF AcceptLoop, Connect, serverVars
<1>6. Quiet'
  BY DEF Quiet, OpenSockets, connections, Connect, serverVars
<1> QED
  BY <1>1, <1>2, <1>3, <1>4, <1>5, <1>6

-----------------------------------------------------------------------------
(* add_accept_handler. *)

\* The loop calls accept_handler.
LEMMA DispatchInv ==
    ASSUME Inv, NEW fd \in Fd, Dispatch(fd)
    PROVE  Inv'
<1> USE DEF Inv
<1>1. TypeOK'
  BY DEF TypeOK, Idle, Closing, Dispatch, serverVars, clientVars, closerVars
<1>2. Files'
  BY DEF Files, AcceptsItsSockets, PendingApart, NoneStale, Dispatch,
         serverVars
<1>3. HandlersKept'
  BY DEF HandlersKept, Dispatch, serverVars
<1>4. Streams'
  BY DEF Streams, StreamOwned, StreamApart, StreamUsed, Dispatch, clientVars
<1>5. AcceptLoop'
  BY DEF AcceptLoop, Dispatch, serverVars
<1>6. Quiet'
  BY DEF Quiet, OpenSockets, connections, Dispatch, serverVars, clientVars
<1> QED
  BY <1>1, <1>2, <1>3, <1>4, <1>5, <1>6

\* accept() succeeds: the stream gets a free descriptor.
LEMMA AcceptOneInv ==
    ASSUME Inv, NEW fd \in Fd, NEW c \in Client, NEW new \in Fd, AcceptOne(fd, c, new)
    PROVE  Inv'
<1> USE DEF Inv
<1>1. TypeOK'
  BY DEF TypeOK, Closing, AcceptOne, serverVars, closerVars
<1>2. Files'
  BY DEF Files, AcceptsItsSockets, PendingApart, NoneStale, AcceptOne, IsNext,
         Free, serverVars
<1>3. HandlersKept'
  BY DEF TypeOK, HandlersKept, AcceptOne, serverVars
<1>4. Streams'
  BY DEF TypeOK, Streams, StreamOwned, StreamApart, StreamUsed, AcceptOne,
         IsNext, Free, Backlog
<1>5. AcceptLoop'
  BY DEF AcceptLoop, AcceptOne, serverVars
<1>6. Quiet'
  BY DEF AcceptLoop, Quiet, OpenSockets, AcceptOne, serverVars
<1> QED
  BY <1>1, <1>2, <1>3, <1>4, <1>5, <1>6

LEMMA CallbackReturnsInv ==
    ASSUME Inv, CallbackReturns
    PROVE  Inv'
<1> USE DEF Inv
<1>1. TypeOK'
  BY DEF TypeOK, Closing, CallbackReturns, serverVars, clientVars, closerVars
<1>2. Files'
  BY DEF Files, AcceptsItsSockets, PendingApart, NoneStale, CallbackReturns,
         serverVars
<1>3. HandlersKept'
  BY DEF HandlersKept, CallbackReturns, serverVars
<1>4. Streams'
  BY DEF Streams, StreamOwned, StreamApart, StreamUsed, CallbackReturns,
         clientVars
<1>5. AcceptLoop'
  BY DEF AcceptLoop, CallbackReturns, serverVars
<1>6. Quiet'
  BY DEF Quiet, OpenSockets, connections, CallbackReturns, serverVars,
         clientVars
<1> QED
  BY <1>1, <1>2, <1>3, <1>4, <1>5, <1>6

LEMMA CallbackRaisesInv ==
    ASSUME Inv, CallbackRaises
    PROVE  Inv'
<1> USE DEF Inv
<1>1. TypeOK'
  BY DEF TypeOK, Idle, Closing, CallbackRaises, serverVars, clientVars,
         closerVars
<1>2. Files'
  BY DEF Files, AcceptsItsSockets, PendingApart, NoneStale, CallbackRaises,
         serverVars
<1>3. HandlersKept'
  BY DEF HandlersKept, CallbackRaises, serverVars
<1>4. Streams'
  BY DEF Streams, StreamOwned, StreamApart, StreamUsed, CallbackRaises,
         clientVars
<1>5. AcceptLoop'
  BY DEF AcceptLoop, Idle, CallbackRaises
<1>6. Quiet'
  BY DEF Quiet, OpenSockets, connections, CallbackRaises, serverVars, clientVars
<1> QED
  BY <1>1, <1>2, <1>3, <1>4, <1>5, <1>6

\* accept() finds nothing, fails, or finds its socket closed.
LEMMA AcceptWouldBlockInv ==
    ASSUME Inv, NEW fd \in Fd, AcceptWouldBlock(fd)
    PROVE  Inv'
<1> USE DEF Inv
<1>1. TypeOK'
  BY DEF TypeOK, Idle, Closing, AcceptWouldBlock, serverVars, clientVars,
         closerVars
<1>2. Files'
  BY DEF Files, AcceptsItsSockets, PendingApart, NoneStale, AcceptWouldBlock,
         serverVars
<1>3. HandlersKept'
  BY DEF HandlersKept, AcceptWouldBlock, serverVars
<1>4. Streams'
  BY DEF Streams, StreamOwned, StreamApart, StreamUsed, AcceptWouldBlock,
         clientVars
<1>5. AcceptLoop'
  BY DEF AcceptLoop, Idle, AcceptWouldBlock
<1>6. Quiet'
  BY DEF Quiet, OpenSockets, connections, AcceptWouldBlock, serverVars,
         clientVars
<1> QED
  BY <1>1, <1>2, <1>3, <1>4, <1>5, <1>6

LEMMA AcceptFailsInv ==
    ASSUME Inv, NEW fd \in Fd, AcceptFails(fd)
    PROVE  Inv'
<1> USE DEF Inv
<1>1. TypeOK'
  BY DEF TypeOK, Idle, Closing, AcceptFails, serverVars, clientVars, closerVars
<1>2. Files'
  BY DEF Files, AcceptsItsSockets, PendingApart, NoneStale, AcceptFails,
         serverVars
<1>3. HandlersKept'
  BY DEF HandlersKept, AcceptFails, serverVars
<1>4. Streams'
  BY DEF TypeOK, Streams, StreamOwned, StreamApart, StreamUsed, AcceptFails,
         Backlog, clientVars
<1>5. AcceptLoop'
  BY DEF AcceptLoop, Idle, AcceptFails
<1>6. Quiet'
  BY DEF TypeOK, Quiet, OpenSockets, connections, AcceptFails, serverVars,
         clientVars
<1> QED
  BY <1>1, <1>2, <1>3, <1>4, <1>5, <1>6

LEMMA AcceptClosedInv ==
    ASSUME Inv, AcceptClosed
    PROVE  Inv'
<1> USE DEF Inv
<1>1. TypeOK'
  BY DEF TypeOK, Idle, Closing, AcceptClosed, serverVars, clientVars,
         closerVars
<1>2. Files'
  BY DEF Files, AcceptsItsSockets, PendingApart, NoneStale, AcceptClosed,
         serverVars
<1>3. HandlersKept'
  BY DEF HandlersKept, AcceptClosed, serverVars
<1>4. Streams'
  BY DEF Streams, StreamOwned, StreamApart, StreamUsed, AcceptClosed,
         clientVars
<1>5. AcceptLoop'
  BY DEF AcceptLoop, Idle, AcceptClosed
<1>6. Quiet'
  BY DEF Quiet, OpenSockets, connections, AcceptClosed, serverVars, clientVars
<1> QED
  BY <1>1, <1>2, <1>3, <1>4, <1>5, <1>6

-----------------------------------------------------------------------------
(* Serving tasks, and close_all_connections. *)

\* A serving task ends: its descriptor is a stream and no other client's.
LEMMA ServeEndsInv ==
    ASSUME Inv, NEW c \in Client, ServeEnds(c)
    PROVE  Inv'
<1> USE DEF Inv
<1>1. TypeOK'
  BY DEF TypeOK, ServeEnds, CloseStream, serverVars, closerVars
<1>2. Files'
  <2>1. \A f \in Fd : f = clientFd[c] => sockets[f] # "open" /\ f \notin pending
    BY DEF Fd, TypeOK, Files, AcceptsItsSockets, Streams, StreamOwned,
           ServeEnds
  <2> QED
    BY <2>1 DEF TypeOK, Files, AcceptsItsSockets, PendingApart, NoneStale,
           ServeEnds, CloseStream, serverVars
<1>3. HandlersKept'
  BY DEF HandlersKept, ServeEnds, CloseStream, serverVars
<1>4. Streams'
  BY DEF TypeOK, Streams, StreamOwned, StreamApart, StreamUsed, ServeEnds,
         CloseStream
<1>5. AcceptLoop'
  BY DEF AcceptLoop, ServeEnds, serverVars
<1>6. Quiet'
  BY DEF Quiet, connections, ServeEnds, serverVars
<1> QED
  BY <1>1, <1>2, <1>3, <1>4, <1>5, <1>6

\* close_all_connections() from its call to its return.
LEMMA CloseAllInv ==
    ASSUME Inv, CloseAll
    PROVE  Inv'
<1> USE DEF Inv
<1>1. TypeOK'
  BY DEF TypeOK, Closing, CloseAll, serverVars, clientVars
<1>2. Files'
  BY DEF Files, AcceptsItsSockets, PendingApart, NoneStale, CloseAll,
         serverVars
<1>3. HandlersKept'
  BY DEF HandlersKept, CloseAll, serverVars
<1>4. Streams'
  BY DEF Streams, StreamOwned, StreamApart, StreamUsed, CloseAll, clientVars
<1>5. AcceptLoop'
  BY DEF AcceptLoop, Closing, CloseAll, serverVars
<1>6. Quiet'
  BY DEF Quiet, OpenSockets, connections, CloseAll, serverVars, clientVars
<1> QED
  BY <1>1, <1>2, <1>3, <1>4, <1>5, <1>6

LEMMA CloseListInv ==
    ASSUME Inv, CloseList
    PROVE  Inv'
<1> USE DEF Inv
<1>1. TypeOK'
  BY DEF TypeOK, CloseList, connections, serverVars, clientVars
<1>2. Files'
  BY DEF Files, AcceptsItsSockets, PendingApart, NoneStale, CloseList,
         serverVars
<1>3. HandlersKept'
  BY DEF HandlersKept, CloseList, serverVars
<1>4. Streams'
  BY DEF Streams, StreamOwned, StreamApart, StreamUsed, CloseList, clientVars
<1>5. AcceptLoop'
  BY DEF AcceptLoop, CloseList, serverVars
<1>6. Quiet'
  BY DEF Quiet, CloseList, serverVars
<1> QED
  BY <1>1, <1>2, <1>3, <1>4, <1>5, <1>6

LEMMA CloseReturnsInv ==
    ASSUME Inv, CloseReturns
    PROVE  Inv'
<1> USE DEF Inv
<1>1. TypeOK'
  BY DEF TypeOK, Idle, Closing, CloseReturns, clientVars
<1>2. Files'
  BY DEF Files, AcceptsItsSockets, PendingApart, NoneStale, CloseReturns
<1>3. HandlersKept'
  BY DEF HandlersKept, CloseReturns
<1>4. Streams'
  BY DEF Streams, StreamOwned, StreamApart, StreamUsed, CloseReturns,
         clientVars
<1>5. AcceptLoop'
  BY DEF AcceptLoop, Closing, CloseReturns
<1>6. Quiet'
  BY DEF Quiet, OpenSockets, connections, CloseReturns, clientVars
<1> QED
  BY <1>1, <1>2, <1>3, <1>4, <1>5, <1>6

\* conn.close() closes a stream, which is a descriptor of nobody else.
LEMMA CloseConnInv ==
    ASSUME Inv, NEW c \in Client, CloseConn(c)
    PROVE  Inv'
<1> USE DEF Inv
<1>1. TypeOK'
  BY DEF TypeOK, Idle, Closing, CloseConn, CloseConnStream, CloseStream,
         serverVars
<1>2. Files'
  <2>1. \A f \in Fd : f = clientFd[c] => sockets[f] # "open" /\ f \notin pending
    BY DEF Fd, TypeOK, Files, AcceptsItsSockets, Streams, StreamOwned,
           CloseConn
  <2> QED
    BY <2>1 DEF TypeOK, Files, AcceptsItsSockets, PendingApart, NoneStale,
           CloseConn, CloseConnStream, CloseStream, serverVars
<1>3. HandlersKept'
  BY DEF HandlersKept, CloseConn, CloseConnStream, CloseStream, serverVars
<1>4. Streams'
  BY DEF TypeOK, Streams, StreamOwned, StreamApart, StreamUsed, CloseConn,
         CloseConnStream, CloseStream
<1>5. AcceptLoop'
  BY DEF AcceptLoop, Closing, CloseConn, serverVars
<1>6. Quiet'
  BY DEF Quiet, connections, CloseConn, serverVars
<1> QED
  BY <1>1, <1>2, <1>3, <1>4, <1>5, <1>6

\* The serving task it awaits is done, or failed.
LEMMA FinishInv ==
    ASSUME Inv, NEW c \in Client, CloseDone(c), Finish(c)
    PROVE  Inv'
<1> USE DEF Inv
<1>1. TypeOK'
  BY DEF TypeOK, Closing, CloseDone, Finish, serverVars
<1>2. Files'
  BY DEF Files, AcceptsItsSockets, PendingApart, NoneStale, Finish, serverVars
<1>3. HandlersKept'
  BY DEF HandlersKept, Finish, serverVars
<1>4. Streams'
  BY DEF Streams, StreamOwned, StreamApart, StreamUsed, Finish
<1>5. AcceptLoop'
  BY DEF TypeOK, AcceptLoop, Closing, CloseDone, Finish, serverVars
<1>6. Quiet'
  BY DEF Quiet, OpenSockets, connections, Finish, serverVars
<1> QED
  BY <1>1, <1>2, <1>3, <1>4, <1>5, <1>6

LEMMA RaiseInv ==
    ASSUME Inv, NEW c \in Client, CloseDone(c), Raise(c)
    PROVE  Inv'
<1> USE DEF Inv
<1>1. TypeOK'
  BY DEF TypeOK, Idle, Closing, Raise, serverVars
<1>2. Files'
  BY DEF Files, AcceptsItsSockets, PendingApart, NoneStale, Raise, serverVars
<1>3. HandlersKept'
  BY DEF HandlersKept, Raise, serverVars
<1>4. Streams'
  BY DEF Streams, StreamOwned, StreamApart, StreamUsed, Raise
<1>5. AcceptLoop'
  BY DEF TypeOK, AcceptLoop, Closing, CloseDone, Raise, serverVars
<1>6. Quiet'
  BY DEF Quiet, OpenSockets, connections, Raise, serverVars
<1> QED
  BY <1>1, <1>2, <1>3, <1>4, <1>5, <1>6

-----------------------------------------------------------------------------
LEMMA InitInv == Init => Inv
<1> SUFFICES ASSUME Init PROVE Inv
  OBVIOUS
<1>1. TypeOK
  <2>1. /\ thread \in [at : {"idle", "accept", "callback", "closing"}, fd : Fd \cup {None},
                     open : BOOLEAN]
        /\ thread # Closing
    BY DEF Init, Idle, Closing
  <2>2. /\ closer \in Client \cup {None, "running"} /\ closer # "running"
        /\ todo \subseteq Client /\ todo = {}
        /\ stops \in 0 .. MaxStops
    BY DEF Init
  <2>3. \A c \in Client : client[c] \notin {"ended", "failed"}
    BY DEF Init
  <2> QED
    BY <2>1, <2>2, <2>3 DEF TypeOK, Init
<1>2. Files /\ HandlersKept
  BY DEF Init, Files, AcceptsItsSockets, PendingApart, NoneStale, HandlersKept
<1>3. Streams
  BY DEF Init, Streams, StreamOwned, StreamApart, StreamUsed
<1>4. AcceptLoop /\ Quiet
  BY DEF Init, Idle, AcceptLoop, Quiet
<1> QED
  BY <1>1, <1>2, <1>3, <1>4 DEF Inv

LEMMA NextInv == Inv /\ [Next]_vars => Inv'
<1> SUFFICES ASSUME Inv, [Next]_vars PROVE Inv'
  OBVIOUS
<1>1. ASSUME NEW fds \in SUBSET Fd, Listen(fds) \/ Bind(fds) PROVE Inv'
  BY <1>1, ListenInv, BindInv
<1>2. CASE Start \/ Stop
  BY <1>2, StartInv, StopInv
<1>3. ASSUME NEW fd \in Fd, OtherOpens(fd) \/ OtherCloses(fd) \/ Dispatch(fd) PROVE Inv'
  BY <1>3, OtherOpensInv, OtherClosesInv, DispatchInv
<1>4. ASSUME NEW c \in Client, NEW fd \in Fd, Connect(c, fd) PROVE Inv'
  BY <1>4, ConnectInv
<1>5. ASSUME NEW c \in Client, ServeEnds(c) PROVE Inv'
  BY <1>5, ServeEndsInv
<1>6. CASE AcceptStep
  <2>1. ASSUME NEW fd \in Fd, NEW c \in Client, NEW new \in Fd, AcceptOne(fd, c, new)
        PROVE  Inv'
    BY <2>1, AcceptOneInv
  <2>2. ASSUME NEW fd \in Fd, AcceptWouldBlock(fd) \/ AcceptFails(fd) PROVE Inv'
    BY <2>2, AcceptWouldBlockInv, AcceptFailsInv
  <2> QED
    BY <1>6, <2>1, <2>2, CallbackReturnsInv, CallbackRaisesInv, AcceptClosedInv
       DEF AcceptStep
<1>7. CASE CloseAll \/ CloserStep
  <2>1. ASSUME NEW c \in Client, CloseConn(c) PROVE Inv'
    BY <2>1, CloseConnInv
  <2>2. ASSUME NEW c \in Client, CloseDone(c) PROVE Inv'
    <3>1. CASE Finish(c)
      BY <2>2, <3>1, FinishInv
    <3>2. CASE Raise(c)
      BY <2>2, <3>2, RaiseInv
    <3> QED
      BY <2>2, <3>1, <3>2 DEF CloseDone
  <2> QED
    BY <1>7, <2>1, <2>2, CloseAllInv, CloseListInv, CloseReturnsInv DEF CloserStep
<1>8. CASE UNCHANGED vars
  <2>1. TypeOK'
    BY <1>8 DEF Inv, TypeOK, vars
  <2>2. Files' /\ HandlersKept'
    BY <1>8 DEF Inv, Files, AcceptsItsSockets, PendingApart, NoneStale, HandlersKept, vars
  <2>3. Streams'
    BY <1>8 DEF Inv, Streams, StreamOwned, StreamApart, StreamUsed, vars
  <2>4. AcceptLoop' /\ Quiet'
    BY <1>8 DEF Inv, AcceptLoop, Quiet, OpenSockets, connections, vars
  <2> QED
    BY <2>1, <2>2, <2>3, <2>4 DEF Inv
<1> QED
  BY <1>1, <1>2, <1>3, <1>4, <1>5, <1>6, <1>7, <1>8 DEF Next

\* The invariant holds in every reachable state.
THEOREM Invariance == Spec => []Inv
  BY InitInv, NextInv, PTL DEF Spec

\* The variables keep their types, and those of one actor agree: a task is in
\* close_all_connections() exactly while the loop or a serving task it awaits
\* knows of it, and no outcome of a serving task is left that nobody will see.
THEOREM TypeCorrect == Spec => []TypeOK
<1>1. Inv => TypeOK
  BY DEF Inv
<1> QED
  BY <1>1, Invariance, PTL

\* accept_handler is called for the open sockets of the server and for nothing
\* else, however descriptors are closed and given out again.
THEOREM AcceptsCorrect == Spec => []AcceptsItsSockets
<1>1. Inv => AcceptsItsSockets
  BY DEF Inv, Files
<1> QED
  BY <1>1, Invariance, PTL

\* A first stop() takes no handler from a stream or a file of other code.
THEOREM HandlersCorrect == Spec => []HandlersKept
<1>1. Inv => HandlersKept
  BY DEF Inv
<1> QED
  BY <1>1, Invariance, PTL

\* When close_all_connections() has returned after stop(), no connection and no
\* stream's descriptor is left open.
THEOREM ShutdownCorrect == Spec => []ShutdownIsClean
<1>1. Inv => ShutdownIsClean
  BY DEF Inv, Quiet, Streams, StreamUsed, connections, ShutdownIsClean
<1> QED
  BY <1>1, Invariance, PTL
=============================================================================
