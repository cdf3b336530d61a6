------------------------------- MODULE Server -------------------------------
(***************************************************************************)
(* A server and its shutdown: tornado.tcpserver.TCPServer,                 *)
(* tornado.netutil.add_accept_handler, HTTPServer.close_all_connections    *)
(* (src/tornado/httpserver.py) and HTTP1ServerConnection                   *)
(* (src/tornado/http1connection.py), over file descriptors that the kernel *)
(* gives out again once they are closed.                                   *)
(*                                                                         *)
(* Everything but the arrival of clients happens on the loop's thread.     *)
(* `thread` says what it executes: nothing (any callback may be next), an  *)
(* accept loop between two accept() calls, the connection callback of that *)
(* loop, or the body of close_all_connections() between two awaits.        *)
(***************************************************************************)
EXTENDS Integers, FiniteSets

CONSTANTS
    MaxFd,      \* the highest descriptor the process may have open
    Client,     \* clients that connect, each of them once
    MaxSockets, \* bound on the addresses bind_sockets() binds in one call
    MaxStops,   \* bound on calls of stop()
    None

ASSUME ServerAssumption ==
    /\ MaxFd \in Nat /\ MaxSockets \in Nat /\ MaxStops \in Nat
    /\ None \notin 1 .. MaxFd
    /\ None \notin {"accept", "other", "open", "closed", "running"}
    /\ Client \cap {None, "running"} = {}

VARIABLES
    file,     \* file[fd]: what the kernel has open there
    handler,  \* handler[fd]: what the loop calls when fd is ready
    sockets,  \* _sockets: no entry, or one whose socket is open or closed
    pending,  \* _pending_sockets
    started,  \* _started
    client,   \* where each client's connection is
    clientFd, \* the listening socket or the stream it is at
    thread,   \* what the loop executes
    closer,   \* the task in close_all_connections()
    todo,     \* ... the connections its for loop has yet to close
    stops,    \* ghost: calls of stop()
    quiet     \* ghost: shut down, and not listening since

vars == <<file, handler, sockets, pending, started, client, clientFd, thread,
          closer, todo, stops, quiet>>

serverVars == <<sockets, pending, started, stops, quiet>>
clientVars == <<client, clientFd>>
closerVars == <<closer, todo>>

Fd == 1 .. MaxFd

Free == {fd \in Fd : file[fd] = "free"}

\* The kernel gives out the lowest descriptors that are free.
IsNext(fds) ==
    fds \subseteq Free /\ \A fd \in fds, other \in Free \ fds : fd < other

\* _connections: handle_stream() adds a connection, on_close() discards it.
connections == {c \in Client : client[c] = "serving"}

Idle == [at |-> "idle", fd |-> None, open |-> FALSE]
Closing == [Idle EXCEPT !.at = "closing"]

\* Application code runs as a callback of the loop, or called by the accept loop.
UserCode == thread.at \in {"idle", "callback"}

Init ==
    /\ file = [fd \in Fd |-> "free"]
    /\ handler = [fd \in Fd |-> None]
    /\ sockets = [fd \in Fd |-> None]
    /\ pending = {}
    /\ started = FALSE
    /\ client = [c \in Client |-> "away"]
    /\ clientFd = [c \in Client |-> None]
    /\ thread = Idle
    /\ closer = None
    /\ todo = {}
    /\ stops = 0
    /\ quiet = FALSE

-----------------------------------------------------------------------------
(* The kernel and the loop. *)

\* bind_sockets(): a socket for each address of a supported family.  When one
\* cannot be bound the exception drops the others, and nothing is left open.
\* set_close_exec(), which it calls for each, is defined nowhere: as shipped
\* every call ends so, and only add_sockets() of sockets made elsewhere works.
BindSockets(fds) ==
    /\ fds # {} /\ IsNext(fds) /\ Cardinality(fds) <= MaxSockets
    /\ file' = [fd \in Fd |-> IF fd \in fds THEN "listen" ELSE file[fd]]

\* add_sockets(): add_accept_handler() registers each with the loop.
AddSockets(fds) ==
    /\ handler' = [fd \in Fd |-> IF fd \in fds THEN "accept" ELSE handler[fd]]
    /\ sockets' = [fd \in Fd |-> IF fd \in fds THEN "open" ELSE sockets[fd]]
    /\ quiet' = (quiet /\ fds = {})

\* Something else of the process opens a file and watches it, or closes it:
\* one at a time.
OtherOpens(fd) ==
    /\ UserCode /\ IsNext({fd}) /\ \A f \in Fd : file[f] # "other"
    /\ file' = [file EXCEPT ![fd] = "other"]
    /\ handler' = [handler EXCEPT ![fd] = "other"]
    /\ UNCHANGED <<serverVars, clientVars, closerVars, thread>>

OtherCloses(fd) ==
    /\ UserCode /\ file[fd] = "other"
    /\ file' = [file EXCEPT ![fd] = "free"]
    /\ handler' = [handler EXCEPT ![fd] = None]
    /\ UNCHANGED <<serverVars, clientVars, closerVars, thread>>

\* A client's connection enters the backlog of a listening socket.
Connect(c, fd) ==
    /\ client[c] = "away" /\ file[fd] = "listen"
    /\ client' = [client EXCEPT ![c] = "queued"]
    /\ clientFd' = [clientFd EXCEPT ![c] = fd]
    /\ UNCHANGED <<file, handler, serverVars, thread, closerVars>>

Backlog(fd) == {c \in Client : client[c] = "queued" /\ clientFd[c] = fd}

\* A listening socket is ready when its backlog is not empty; other files are
\* ready at any time.
Ready(fd) == file[fd] # "free" /\ (file[fd] = "listen" => Backlog(fd) # {})

\* The loop calls accept_handler(fd, events).
Dispatch(fd) ==
    /\ thread = Idle
    /\ handler[fd] = "accept" /\ Ready(fd)
    /\ thread' = [at |-> "accept", fd |-> fd, open |-> sockets[fd] = "open"]
    /\ UNCHANGED <<file, handler, serverVars, clientVars, closerVars>>

\* The stream's socket is closed: its descriptor may be given out again.
CloseStream(c) ==
    LET fd == clientFd[c] IN
    /\ clientFd' = [clientFd EXCEPT ![c] = None]
    /\ file' = [f \in Fd |-> IF f = fd THEN "free" ELSE file[f]]
    /\ handler' = [f \in Fd |-> IF f = fd THEN None ELSE handler[f]]

-----------------------------------------------------------------------------
(* Seeded mistakes, used by no behaviour of Spec. *)

\* The stopped sockets are closed, and the loop goes on watching them.
StopKeepsHandler == handler

\* remove_handler() for every handler the loop has, not for one's own.
StopDropsAll == [fd \in Fd |-> None]

\* A failed accept() ends the accept loop for good: the handler is removed.
AcceptFailsForGood(fd) ==
    /\ thread.at = "accept" /\ thread.fd = fd /\ thread.open
    /\ Backlog(fd) # {}
    /\ \/ Free = {} /\ UNCHANGED clientVars
       \/ \E c \in Backlog(fd) : /\ client' = [client EXCEPT ![c] = "gone"]
                                 /\ clientFd' = [clientFd EXCEPT ![c] = None]
    /\ thread' = Idle
    /\ handler' = [handler EXCEPT ![fd] = None]
    /\ UNCHANGED <<file, serverVars, closerVars>>

\* The list of connections is used up, and nobody looks for new ones.
CloseReturnsOnce ==
    /\ thread = Closing /\ todo = {}
    /\ closer' = None
    /\ thread' = Idle
    /\ quiet' = (\A fd \in Fd : sockets[fd] # "open")
    /\ UNCHANGED <<file, handler, sockets, pending, started, stops, clientVars, todo>>

\* close() waits for the serving task without closing its stream.
CloseStreamNot(c) == UNCHANGED <<clientFd, file, handler>>

\* The exception leaves the list of connections behind for the next call.
RaiseKeepsList(c) ==
    /\ client[c] = "failed"
    /\ client' = [client EXCEPT ![c] = "gone"]
    /\ closer' = None
    /\ todo' = todo \ {c}
    /\ thread' = Idle
    /\ UNCHANGED <<file, handler, serverVars, clientFd>>

-----------------------------------------------------------------------------
(* TCPServer *)

\* listen(), and add_sockets(bind_sockets(...)).
Listen(fds) ==
    /\ UserCode
    /\ BindSockets(fds)
    /\ AddSockets(fds)
    /\ UNCHANGED <<pending, started, stops, clientVars, closerVars, thread>>

\* bind(): the sockets wait for start(), or are added if it was called.
Bind(fds) ==
    /\ UserCode
    /\ BindSockets(fds)
    /\ IF started
       THEN AddSockets(fds) /\ UNCHANGED pending
       ELSE pending' = pending \cup fds /\ UNCHANGED <<handler, sockets, quiet>>
    /\ UNCHANGED <<started, stops, clientVars, closerVars, thread>>

\* start(): `assert not self._started`; afterwards the call fails, for neither
\* threading nor cpu_count nor ioloop is imported, with all of this done.
Start ==
    /\ UserCode /\ ~started
    /\ started' = TRUE
    /\ AddSockets(pending)
    /\ pending' = {}
    /\ UNCHANGED <<file, stops, clientVars, closerVars, thread>>

\* The keys of _sockets.  stop() takes none of them out.
Known == {fd \in Fd : sockets[fd] # None}
OpenSockets == {fd \in Fd : sockets[fd] = "open"}

\* remove_handler() goes by number, whoever owns the descriptor by now.
StopHandlers == [fd \in Fd |-> IF fd \in Known THEN None ELSE handler[fd]]

\* stop(): each socket of _sockets is closed; close() of a closed one does
\* nothing.  The kernel resets what was in their backlogs.
Stop ==
    /\ UserCode /\ stops < MaxStops
    /\ handler' = StopHandlers
    /\ file' = [fd \in Fd |-> IF fd \in OpenSockets THEN "free" ELSE file[fd]]
    /\ sockets' = [fd \in Fd |-> IF fd \in Known THEN "closed" ELSE None]
    /\ LET lost == UNION {Backlog(fd) : fd \in OpenSockets} IN
       /\ client' = [c \in Client |-> IF c \in lost THEN "gone" ELSE client[c]]
       /\ clientFd' = [c \in Client |-> IF c \in lost THEN None ELSE clientFd[c]]
    /\ thread' = [thread EXCEPT !.open = FALSE]
    /\ stops' = stops + 1
    /\ UNCHANGED <<pending, started, closerVars, quiet>>

-----------------------------------------------------------------------------
(* add_accept_handler: one turn of `while True` for each accept(). *)

\* A connection: the callback makes a stream of it and serves it as a task.
AcceptOne(fd, c, new) ==
    /\ thread.at = "accept" /\ thread.fd = fd /\ thread.open
    /\ c \in Backlog(fd) /\ IsNext({new})
    /\ client' = [client EXCEPT ![c] = "serving"]
    /\ clientFd' = [clientFd EXCEPT ![c] = new]
    /\ file' = [file EXCEPT ![new] = "stream"]
    /\ handler' = [handler EXCEPT ![new] = "other"]
    /\ thread' = [thread EXCEPT !.at = "callback"]
    /\ UNCHANGED <<serverVars, closerVars>>

CallbackReturns ==
    /\ thread.at = "callback"
    /\ thread' = [thread EXCEPT !.at = "accept"]
    /\ UNCHANGED <<file, handler, serverVars, clientVars, closerVars>>

\* The callback raises, with the connection handed over: accept_handler() ends
\* there, and the loop calls it again while the backlog is not empty.
CallbackRaises ==
    /\ thread.at = "callback"
    /\ thread' = Idle
    /\ UNCHANGED <<file, handler, serverVars, clientVars, closerVars>>

\* BlockingIOError: the backlog is empty.
AcceptWouldBlock(fd) ==
    /\ thread.at = "accept" /\ thread.fd = fd /\ thread.open
    /\ Backlog(fd) = {}
    /\ thread' = Idle
    /\ UNCHANGED <<file, handler, serverVars, clientVars, closerVars>>

\* EMFILE, with the client still in the backlog, or ECONNABORTED without it:
\* the handler returns and the loop will call it again.  A callback that raises
\* and drops the connection has the same effect as ECONNABORTED.
AcceptFails(fd) ==
    /\ thread.at = "accept" /\ thread.fd = fd /\ thread.open
    /\ Backlog(fd) # {}
    /\ \/ Free = {} /\ UNCHANGED clientVars
       \/ \E c \in Backlog(fd) : /\ client' = [client EXCEPT ![c] = "gone"]
                                 /\ clientFd' = [clientFd EXCEPT ![c] = None]
    /\ thread' = Idle
    /\ UNCHANGED <<file, handler, serverVars, closerVars>>

\* The callback has stopped the server: accept() raises EBADF.
AcceptClosed ==
    /\ thread.at = "accept" /\ ~thread.open
    /\ thread' = Idle
    /\ UNCHANGED <<file, handler, serverVars, clientVars, closerVars>>

\* A serving task ends, or fails; on_close() has run and the stream is closed.
\* How it ended matters only if close_all_connections() has it in its list.
ServeEnds(c) ==
    /\ thread = Idle /\ client[c] = "serving"
    /\ \E end \in IF c \in todo \cup {closer} THEN {"ended", "failed"} ELSE {"gone"} :
          client' = [client EXCEPT ![c] = end]
    /\ CloseStream(c)
    /\ UNCHANGED <<serverVars, thread, closerVars>>

-----------------------------------------------------------------------------
(* HTTPServer.close_all_connections: one call at a time. *)

CloseAll ==
    /\ thread = Idle /\ closer = None
    /\ closer' = "running"
    /\ thread' = Closing
    /\ UNCHANGED <<file, handler, serverVars, clientVars, todo>>

\* `while self._connections` and list(self._connections).
CloseList ==
    /\ thread = Closing /\ todo = {} /\ connections # {}
    /\ todo' = connections
    /\ UNCHANGED <<file, handler, serverVars, clientVars, thread, closer>>

CloseReturns ==
    /\ thread = Closing /\ todo = {} /\ connections = {}
    /\ closer' = None
    /\ thread' = Idle
    /\ quiet' = (OpenSockets = {})
    /\ UNCHANGED <<file, handler, sockets, pending, started, stops, clientVars, todo>>

\* `stream.close()` in HTTP1ServerConnection.close().
CloseConnStream(c) == CloseStream(c)

\* `await conn.close()`: close the stream, and wait for the serving task.
CloseConn(c) ==
    /\ thread = Closing /\ c \in todo /\ client[c] = "serving"
    /\ CloseConnStream(c)
    /\ closer' = c
    /\ todo' = todo \ {c}
    /\ thread' = Idle
    /\ UNCHANGED <<serverVars, client>>

\* A serving task that is done is no wait: go on with the list.
Finish(c) ==
    /\ client[c] = "ended"
    /\ client' = [client EXCEPT ![c] = "gone"]
    /\ closer' = "running"
    /\ todo' = todo \ {c}
    /\ thread' = Closing
    /\ UNCHANGED <<file, handler, serverVars, clientFd>>

\* One that failed raises, and ends close_all_connections() there.
Raise(c) ==
    /\ client[c] = "failed"
    /\ client' = [d \in Client |-> IF client[d] \in {"ended", "failed"} THEN "gone" ELSE client[d]]
    /\ closer' = None
    /\ todo' = {}
    /\ thread' = Idle
    /\ UNCHANGED <<file, handler, serverVars, clientFd>>

\* A connection of the list has ended since, or the awaited task is done.
CloseDone(c) ==
    /\ \/ thread = Closing /\ c \in todo
       \/ thread = Idle /\ closer = c
    /\ Finish(c) \/ Raise(c)

CloserStep ==
    \/ CloseList \/ CloseReturns
    \/ \E c \in Client : CloseConn(c) \/ CloseDone(c)

AcceptStep ==
    \/ CallbackReturns \/ CallbackRaises \/ AcceptClosed
    \/ \E fd \in Fd : \/ AcceptWouldBlock(fd) \/ AcceptFails(fd)
                      \/ \E c \in Client, new \in Fd : AcceptOne(fd, c, new)

Next ==
    \/ \E fds \in SUBSET Fd : Listen(fds) \/ Bind(fds)
    \/ Start \/ Stop \/ CloseAll \/ CloserStep \/ AcceptStep
    \/ \E fd \in Fd : OtherOpens(fd) \/ OtherCloses(fd) \/ Dispatch(fd)
    \/ \E c \in Client : ServeEnds(c) \/ \E fd \in Fd : Connect(c, fd)

Spec == Init /\ [][Next]_vars

(***************************************************************************)
(* Code on the loop's thread goes on until it returns.  A ready descriptor *)
(* is dispatched, and a serving task whose stream close_all_connections()  *)
(* has closed gets to its end, and wakes it, whatever else runs in         *)
(* between.  Nothing is assumed of the tasks of open streams, of clients   *)
(* or of the application.                                                  *)
(***************************************************************************)
FairSpec ==
    /\ Spec
    /\ WF_vars(thread # Idle /\ (AcceptStep \/ CloserStep))
    /\ \A fd \in Fd : SF_vars(Dispatch(fd))
    /\ \A c \in Client : SF_vars(closer = c /\ clientFd[c] = None /\ (ServeEnds(c) \/ CloseDone(c)))

-----------------------------------------------------------------------------
\* Types, and the variables of one actor agree about where it is.
TypeOK ==
    /\ file \in [Fd -> {"free", "listen", "stream", "other"}]
    /\ handler \in [Fd -> {None, "accept", "other"}]
    /\ sockets \in [Fd -> {None, "open", "closed"}]
    /\ pending \subseteq Fd
    /\ started \in BOOLEAN
    /\ client \in [Client -> {"away", "queued", "serving", "ended", "failed", "gone"}]
    /\ clientFd \in [Client -> Fd \cup {None}]
    /\ thread \in [at : {"idle", "accept", "callback", "closing"}, fd : Fd \cup {None},
                   open : BOOLEAN]
    /\ closer \in Client \cup {None, "running"}
    /\ todo \subseteq Client
    /\ todo # {} => closer # None
    /\ thread = Closing <=> closer = "running"
    /\ \A c \in Client : client[c] \in {"ended", "failed"} => c \in todo \cup {closer}
    /\ stops \in 0 .. MaxStops
    /\ quiet \in BOOLEAN

\* The loop watches exactly the server's open sockets with accept_handler: it
\* never calls it for a socket that stop() has closed, nor for a file that got
\* its number since, and no listening socket but a pending one is left unwatched.
AcceptsItsSockets ==
    \A fd \in Fd :
        /\ handler[fd] = "accept" <=> sockets[fd] = "open"
        /\ file[fd] = "listen" <=> sockets[fd] = "open" \/ fd \in pending

\* Until stop() is called a second time, no stream and no file of the rest of
\* the program has lost its handler to the server.
HandlersKept ==
    stops <= 1 => \A fd \in Fd : file[fd] \in {"stream", "other"} => handler[fd] = "other"

\* "stop() first, then await close_all_connections()" is a clean shutdown: once
\* it has returned no connection is open, whatever arrived or was accepted
\* meanwhile, and wherever stop() fell in between.
ShutdownIsClean ==
    quiet => connections = {} /\ "stream" \notin {file[fd] : fd \in Fd}

\* close_all_connections() returns or raises.
CloseAllEnds ==
    closer # None ~> closer = None

\* A client in the backlog is accepted, or its socket is closed, or the process
\* has no descriptor to spare: neither EMFILE nor ECONNABORTED of another
\* connection ends the accepting.
ClientIsAccepted ==
    \A c \in Client : client[c] = "queued" ~>
        (client[c] # "queued" \/ Free = {} \/ clientFd[c] \in pending)
=============================================================================
