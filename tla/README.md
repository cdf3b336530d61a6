# Verification of tornado's coordination code

This directory holds TLA+ models of the parts of tornado (`src/tornado/`) that
coordinate tasks, callbacks, timers, threads and processes, or keep state that
must stay consistent over long sequences of calls, the TLC configurations that check them, and proofs checked by TLAPS.

The repository at this commit is tornado with a large part of its function
bodies removed or rewritten. Many methods (`IOLoop`, the read and write paths of
`IOStream`, most of `web.py`, `websocket.py`, `httputil.py`) are stubs whose
body is `pass`; `concurrent.py` line 29 and `platform/twisted.py` line 64 are not
even syntactically valid. The models translate the code that is there, as it is
there. What that code calls but the repository does not define is modelled from
how it is used and marked external in `PROJECT.json`.

## 1. Inventory

| Part | State | Operations | Interacts through | What is hard |
|---|---|---|---|---|
| `locks.Semaphore`, `BoundedSemaphore`, `Lock` | `_value`, deque `_waiters` | `acquire`, `release`, timeouts, context managers | Futures awaited by tasks, timers on the loop | a release against a timeout, a cancellation or a new acquire; fairness; a failure halfway through `acquire` |
| `locks.Event` | `_value`, set `_waiters` | `set`, `clear`, `wait` | Futures, timers; `Queue.join` | `set` then `clear` before anyone runs; timers that outlive their wait |
| `locks.Condition` | deque `_waiters` | `wait`, `notify`, `notify_all` | Futures, timers | waiters that left by timeout or cancellation |
| `queues.Queue` (`LifoQueue`, `PriorityQueue`) | `_queue`, `_getters`, `_putters`, `_unfinished_tasks`, `_finished` | `put`, `get`, `task_done`, `join` | an `Event`, Futures, timers | order across blocked puts; items whose put timed out; when `join` may return |
| `gen.with_timeout`, `concurrent.chain_future` | the wrapped and the returned Future, a timer | the call, `copy`, `on_complete`, `on_timeout` | the loop's callback queue, worker threads | completion and deadline in one loop iteration; completion on another thread |
| `iostream._StreamBuffer` | deque of pieces, `_first_pos`, `_size` | `append`, `peek`, `advance` | the stream's write path | positions at piece boundaries, empty pieces |
| `process.fork_processes` | the children, `num_restarts` | fork loop, wait loop | child processes | crashes while the parent forks or waits; the restart limit; children it did not fork |
| `testing.AsyncTestCase` | `__stopped`, `__running`, `__failure`, `__stop_args` | `stop`, `wait`, `timeout_func` | the loop, run inside `wait` | several stops, conditions that restart the loop or raise, old timeouts |
| `gen.multi`, `convert_yielded` | the children, `gather_future`, the returned Future | the call, `callback` | Futures, the loop | order of completion, shared and nested children, failure and cancellation |
| `TCPServer`, `netutil.add_accept_handler`, `HTTP1ServerConnection`, `HTTPServer.close_all_connections` | `_sockets`, `_pending_sockets`, the loop's handlers, `_connections` | `listen`, `bind`, `start`, `stop`, the accept loop, `close`, `close_all_connections` | descriptors shared with the whole process, serving tasks, callbacks that call back into the server | shutdown while connections arrive, end or fail; descriptors that are reused; no descriptors left |
| `AsyncHTTPClient` cache, `HTTPClient`, `Configurable` | a cache per class and loop, the configured class and arguments | construct, `close`, `configure` | class-level state | a closed client handed out again |
| `httputil.HTTPHeaders` | `_dict`, `_as_list` | add, set, delete, parse, `str` | none | two representations that must agree |
| `process.Subprocess`, `iostream.PipeIOStream` | the pipes' descriptors | the constructor, collection of streams | descriptors, the child | which end is closed by whom, when Popen fails |
| `locale` registry | `_translations`, `_supported_locales`, `_default_locale` | loads, `get`, `Locale.get` | module-level state | loads that stop halfway |
| `gen.WaitIterator`, `gen.coroutine`, `Runner` | | | | need methods the repository does not define: see section 7 |
| `IOLoop`, `IOStream`, web, websocket, auth, templates, HTTP clients | | | | stubs: see section 7 |

What makes each modelled part correct is stated by its properties (section 4);
what could go wrong where is the list of hazards in `PROJECT.json`.

## 2. Plan

1. Semaphores and locks, with an abstract specification and proofs: **done**.
2. Event, Condition, Queue; Queue composed with Event: **done**.
3. `with_timeout` and `chain_future`, with a worker thread: **done**.
4. `_StreamBuffer` with proofs; `fork_processes`; `AsyncTestCase` with
   proofs: **done**.
5. The servers: listening, accepting, `stop` and `close_all_connections` in one
   module: **done**.
6. `multi`; the client cache on `Configurable`; `HTTPHeaders`; the pipes of
   `Subprocess`; the locale registry, in one run: **done**. `WaitIterator` and
   `OptionParser` were planned here too, and cannot be constructed (section 7).
7. Proofs of the safety properties of Queue, WithTimeout, ForkProcesses, Server,
   the client cache, the pipes and the locale registry: **done**.
8. An abstract specification of what a queue promises, implemented by Queue, with a run
   and a proof; proofs about `HTTPHeaders` and `multi`, whose results are loops over sequences
   and recursion over a tree; mutual exclusion: **done**. Every safety property of a passing
   run is now a theorem or part of one; liveness stays with TLC.

## 3. Modules

All of the asyncio code runs on one thread, so a method, or the code between two
awaits, is one atomic action, and the concurrency is the interleaving of tasks,
timers and cancellations. Timers are not given times: one that is scheduled may
fire at any later step. An identity (a member of `Call`, `Getter`, `Joiner`)
stands for one call, with its Future, timer and task; it is used again when
nothing refers to it, so a run of any length is covered by few identities.

| Module | Models |
|---|---|
| `Semaphore` | `Semaphore`, `BoundedSemaphore`, `Lock`. Constants choose the class and the initial value. `AcquireNow`, `AcquireWait`, `AcquireTimeout` are the three ways through `acquire`; `HandOver` is the loop of `release`; `OnTimeout` is the nested callback; `Resume`, `Cancel`, `CancelGranted` are what asyncio does to the awaiting task. |
| `TicketSemaphore` | What a semaphore promises: a counter and a line of callers, served from the front. |
| `MCSemaphore` | Symmetry set for TLC. |
| `SemaphoreProofs` | Proofs about `Semaphore`. |
| `Event` | `Event`, written to be instantiated by `Queue`. |
| `Condition` | `Condition`. `notify` slices a deque, which raises `TypeError`, so `Notify` changes nothing but the ghost counter of waiters it was to wake. |
| `Queue` | `Queue`, with `self._finished` an instance of `Event`. Item *i* is the item of the *i*-th `put`. `_notify_getters`, `_notify_putters`, `full`, `_put_timeout` and `_get_timeout` are external. |
| `BoundedFifo` | What a queue promises: a buffer of bounded length, items that wait to enter and clients that wait to be served, both in the order they came, and a count of unfinished items that opens `join`. No Futures, deques or timers. |
| `QueueProofs` | Proofs about `Queue` and the `Event` in it, and that it implements `BoundedFifo`. |
| `WithTimeout`, `WithTimeoutProofs` | `with_timeout`, `chain_future`, `future_add_done_callback`. The call is split where another thread may step in; `ready` is the loop's queue of callbacks, in order. |
| `StreamBuffer`, `StreamBufferProofs` | `_StreamBuffer`; the loops of `peek` and `advance` are one step per iteration. |
| `ForkProcesses`, `ForkProcessesProofs` | `fork_processes`; children run concurrently and end at any time. `os.wait` returns any child of the process, so the children it had before the call (`others`) are there too: `WaitOther` treats them as workers, as the code does. |
| `AsyncTestCase`, `AsyncTestCaseProofs` | `stop` and `wait`. When the loop has been stopped, the condition is true (`LoopEnds`), false (`LoopAgain`) or raises (`ConditionRaises`). |
| `Server`, `ServerProofs` | `TCPServer`, `bind_sockets`, `add_accept_handler`, `HTTP1ServerConnection.close` and `close_all_connections`, over a table of descriptors and the loop's table of handlers. `thread` is what the loop executes: the turns of an accept loop are steps (`AcceptOne`, `AcceptWouldBlock`, `AcceptFails`, `AcceptClosed`), and so is the application code in its callback, which may call any method of the server and returns or raises. `CloseList`, `CloseConn`, `CloseDone` and `CloseReturns` are the pieces of `close_all_connections` between its awaits. `_connections` is the set of clients being served: what adds to it and discards from it is external. |
| `Multi` | `multi`, `convert_yielded`, `future_set_result_unless_cancelled`, `future_set_exc_info`; `ready` is the loop's queue, and `asyncio.gather` (`GatherStep`, `Waking`, `AlreadyDone`) is external. `Calls` lists the nested calls, inner ones first; `Parallel` is the result that the docstring promises. |
| `ClientCache` | `AsyncHTTPClient.__new__`, `close`, `configure`, `HTTPClient`, `Configurable`. |
| `HTTPHeaders` | `HTTPHeaders` as operators on a record of the two dictionaries. A value is the sequence of the parts its commas separate, so joining is concatenation, and `strip` takes the blanks before the first part and behind the last. The loops of the constructor and of `parse` are folds, one `AddPair` or `ParseNext` per turn. |
| `Subprocess` | The constructor's pipes, step by step, with `PipeIOStream` and its collection. |
| `Locale` | The registry: loads in any order of files, with the encoding detected for the first file used for all. |
| `MCLibrary` | The last five share no state, so one run checks them all: a behaviour is one of the part that `part` names. |
| `LibraryProofs` | Proofs about the same five modules, and the lemmas on folds and joins of sequences they need. |

The names `IOLoop` in `locks.py` and `queues.py` resolve to nothing (both modules
import `ioloop`). The constant `IOLoopBound` says whether they do. The passing
runs set it to TRUE, which is how the code was meant; one run sets it to FALSE
and shows what happens as shipped.

Definitions headed "Seeded mistakes" are not part of any specification: each is a
plausible wrong version of a definition, and shows that a property would notice.

## 4. Runs

| Run | Instance | Checks |
|---|---|---|
| `semaphore` | `Semaphore(2)`, 4 callers, timeouts, cancellation before and after the grant, 1 unmatched release | types; no caller waits while a permit is free; permits are conserved; the deque holds the pending Futures exactly; first come, first served; it implements `TicketSemaphore` |
| `lock` | `Lock`, 3 callers, one release by a stranger, fair loop | the counter stays within 1; nobody starves |
| `queue` | `Queue(2)`, 4 puts, 2 concurrent gets, 2 joins, fair consumers | types and capacity; FIFO across blocked and timed-out puts, and every accepted item delivered or queued, none whose put timed out (`Fifo`); it implements `BoundedFifo`; nobody waits in vain; `join` is open exactly when all is processed; `join` returns; a `join` returns at a moment when nothing is undone and times out at a moment when something is (`JoinHonest`) |
| `with_timeout` | 2 calls on one asyncio or concurrent Future, every way to end, callers that cancel | outcomes are faithful; `on_timeout` only ever meets a done Future if its caller cancelled it; a caller of an asyncio Future is answered |
| `stream_buffer` | 6 bytes, at most 4 pieces at a time, empty ones included, every size of peek and advance | types; `peek` returns the next bytes and as many as possible; the size and the deque agree with the stream |
| `fork_processes` | 3 workers, 3 restarts, 7 processes at most, up to 2 children that are not workers | types; while the parent waits, and when it finds no child left, every place is filled or has ended normally, and the only processes too many are one for each abnormal end of another child; the restart limit is exact; every end of a worker is noticed |
| `test_case` | 3 waits, 3 stops | types; the flags are true of the loop and `assert self.__stopped` holds; one `stop` makes one `wait` return, also after a condition that raised; a timed `wait` ends |
| `server` | 3 descriptors, 2 clients, 2 stops, 1 other file at a time; every method callable also from the accept callback | types; the loop watches exactly the server's open sockets (`AcceptsItsSockets`); nobody else's handler is lost before a second `stop` (`HandlersKept`); after `stop` and a `close_all_connections` that returned nothing is open (`ShutdownIsClean`); `close_all_connections` ends; a client in the backlog is accepted in spite of `EMFILE` and `ECONNABORTED` |
| `library` | `multi` nested twice over 3 Futures, one of them shared and repeated; 3 clients, 2 loops, 2 classes; headers of 2 names in 3 spellings with 4 values; 3 pipes, 7 descriptors; 3 locale codes, directories of 2 files, 3 loads | `multi` answers, and rightly; cached clients are open, of their loop, and take themselves out; `_dict` and `_as_list` agree and survive `str` and `parse`; the parent holds exactly its ends of the pipes; what `Locale.get` supports is loaded |
| `semaphore_timeout_nameerror` | as shipped, `IOLoopBound = FALSE` | **violated**: a permit goes to a Future whose caller got a `NameError` |
| `condition_notify` | 2 callers, 1 notify | **violated**: `notify` wakes nobody |
| `with_timeout_concurrent` | one concurrent Future | **violated**: the caller of a Future that completes on its thread is never answered |

**Bounds.** Four callers of a `Semaphore(2)` are two holders and two waiters, the
least for which overtaking, a dead Future at the head of the deque and a release
at the same time can all happen; identities are reused, so sequences of calls
are not bounded. A `Queue(2)` with four items fills, blocks two puts and drains. Two joins let one
be cancelled or time out while the other waits. Two children that are no workers can end between any two
crashes of workers. Two
`with_timeout` calls share one Future's callback list. Four pieces of a stream buffer give
a peek over an inner piece, an empty one and a partial one. Seven processes are
one more than three workers and three restarts may need, so an excess restart
would be seen. Three waits and three stops let a timeout of the first wait
meet the third. With three descriptors a server can listen, serve and meet a
foreign file, or run out of them; one client is accepted while
`close_all_connections` waits for the other; two stops are what reuses a stale
entry. Seven descriptors are one more than three pipes need, so that with another
file open `os.pipe` fails. Four header values are two names with two values each,
or one name with four.

**Fairness.** `lock`: the loop runs a task whose Future is done, and a holder
releases. `queue`: consumers go on getting and processing, and the loop resumes
tasks; nothing is assumed of producers or joiners, except that there are finitely many `put` calls
(`MaxItems`): against producers that never pause `join` need not return. `with_timeout`: the loop runs its queue, the worker
runs its callbacks, the deadline comes; nothing is assumed of the wrapped
Future. `fork_processes`: the parent runs; nothing is assumed of workers or other children.
`test_case`: a stopped loop returns from `start`, a timeout fires while the loop
runs. `library`: the loop runs its queue; nothing is assumed of the children of
`multi`. Each is weak fairness of steps that asyncio or the operating
system takes as long as they are possible. `server` adds strong fairness for
what the loop does in its turn while other callbacks come in between: a ready
descriptor is dispatched (the selector reports it in every iteration), and the
serving task whose stream `close_all_connections` has closed comes to its end and
wakes it. Nothing is assumed of clients, of open connections or of application
code; that clients are finitely many means that arrivals do not outrun the
shutdown for ever.

Deadlock checking is off where the system may really stop: all semaphore callers
may be waiting for a permit that is lost to a cancelled task, all children
may have ended, a test may make no further calls, a `multi` may be answered. The
`server` run checks for deadlock.

## 5. Proofs

All proofs are for every value of the constants that the modules' assumptions
allow; they use no assumption beyond those.

**Semaphore** (`SemaphoreProofs`): `TypeCorrect`, `DequeIsExact`, `WakeupNotLost`,
`ValueIsBounded`, `PermitsConserved`, `MutualExclusion`, `NoOvertaking`, `ImplementsTicket`. None of
the invariants is inductive alone. That no wakeup is lost rests on the deque
holding every pending Future (else `release` would not find it) and without
repetition (else a timeout would leave a second entry); that in turn needs the
tie between a call's Future, task and timer states. Conservation of permits adds
that the set of permit owners is finite. `MutualExclusion` follows from it: at most `N` callers hold a
Semaphore and one a Lock, unless a caller that held nothing has released. The refinement maps the abstract line
to the pending members of the deque; each grant is a step of the abstract
specification because the first pending Future of the deque is the head
of that line.

**StreamBuffer** (`StreamBufferProofs`): `TypeCorrect`, `PeekCorrect`, `SizeIsExact`. The
inductive invariant says that the pieces are adjacent intervals that end where
the stream ends, that the position is inside the first piece or at its start,
that the size runs ahead of the position by what `advance` has still to skip, and
that `peek` has copied up to the start of the next piece. The clause that
carries the argument is that with nothing copied only the first piece can be
entered with a nonzero position: `peek` tests `pos == 0`, not whether it is at
the first buffer.

**AsyncTestCase** (`AsyncTestCaseProofs`): `TypeCorrect`, `FlagsAreRight`,
`StopsAreNotReused`. The strengthening is that, unless something has failed, the arguments kept by
`stop` are newer than what the `wait` calls so far have used up. A `wait` whose condition raises uses up
nothing, so the clause survives it, and the next `wait` may return with them.

**Queue** (`QueueProofs`): `TypeCorrect`, `FifoCorrect`, `WaitsCorrect`, `JoinCorrect`, the
action property `JoinHonestly` and the refinement `ImplementsFifo`, for every `maxsize`, zero (no
limit) included, and for `IOLoop` resolved or not. `Fifo` speaks of one sequence, delivered items, then the queue, then the deque of
blocked `put` calls, and is not inductive in that form: a step moves an item from one part to the
next. The invariant keeps each part increasing and every member of a part below every
member of the next, and that `put` calls are numbered without gaps, so that a new one goes
to the end. `NobodyWaitsInVain` rests on the two deques never having anyone to serve:
a deque of `put` calls that is not empty means a full queue, one of `get` calls an empty one. Timed-out
entries stay in the deques, so what the loops that skip them leave (`After`) needs lemmas
of its own: the rest is in order, behind the entry found, and whoever was skipped is not
pending.
`JoinExact` counts the consumers that have an item, which is why `Getter` is
assumed finite; its last conjunct is carried through the instance of `Event`, and with the first it gives
`JoinHonestly`: a pending Future is in the Event's set, the set is empty while the Event is set, and
the Event is set exactly when nothing is undone.

`ImplementsFifo` maps the abstract lines to the pending entries of the two deques: `offered` is
the set of items whose `put` is pending, `hungry` the `get` calls that are, `ahead` their
order in the deque. The entries that timed out or were cancelled are in the deques and not in
the lines, so `_notify_getters` and `_notify_putters`, which throw them away on their way to the first live one,
are invisible up to that one. Each of `put`, `get`, `task_done` and the timeouts is then one step of
`BoundedFifo` or none. The step that needs the invariant most is a `put` that hands its item over: it is
the abstract `Serve`, with nothing in the buffer, only because a `get` that waits means an empty
queue; and a `get` that admits a blocked `put` takes the lowest number because that deque is in order.

**WithTimeout** (`WithTimeoutProofs`): `ResultCorrect`, `TimeoutsCorrect`, for any number of
calls on one Future of either kind. That `on_timeout` never meets an answered Future is an
order in the loop's queue. The invariant (`TimeoutGuarded`) says of an `on_timeout` that is
queued, or would be if the deadline came now: `on_complete` of the same call comes before it, or
nothing has answered the call and no `copy` for it comes before. It needs that the callbacks of a
Future are moved to the queue together, when it is done, and that `copy` is never
added without `on_complete` by the time the call has returned.

**ForkProcesses** (`ForkProcessesProofs`): `TypeCorrect`, `SupervisionCorrect`,
`RestartsCorrect`, for every number of workers and restarts. The invariant counts the processes that hold a
place and those that were reaped after a crash, at each place of the parent; the abnormal ends of
other children add to the former and take from the latter. One lemma gives the change
of such a count when one process changes its state; the exact limit follows because
every process forked holds a place or has been counted as a crash.

**Server** (`ServerProofs`): `TypeCorrect`, `AcceptsCorrect`, `HandlersCorrect`, `ShutdownCorrect`, for
any number of descriptors, clients and calls of `stop`. Descriptors are reused, so the
strengthening says whose each one is: a socket is pending or open, not both; before the first
`stop` no entry of `_sockets` is stale; a stream's descriptor belongs to exactly one
client that is served. The accept loop, which may be interrupted by `stop` in
its own callback, goes on only with a socket that is still the server's. The assumptions on the constants keep the
clients and `None` apart from the words that share a variable with them.

**The library modules** (`LibraryProofs`): `CacheCorrect`, `HeadersCorrect`, `PipesCorrect`, `LocaleCorrect`,
`MultiCorrect` and `MultiNested`, about the five specifications `CacheSpec`, `HeadersSpec`, `PipesSpec`, `LocaleSpec` and
`MultiSpec` of which `MCLibrary` is the choice. The cache needs that clients
are numbered in the order they are made, so that a new one is in no cache. The pipes
need that no descriptor is at once of two streams, or of a stream and a child's end, and
that every stream's descriptor is open as a pipe, until `Popen` fails. The locales
need the order of the lines of `Locale.get`: TLA+ leaves the choice open in a `CASE` whose guards
overlap, and the proof was possible once `Match`, `Get` and, in `Multi`, `GatherStep` were
written as the chain of `if` that the code is.

The other two are about loops and recursion, for every length and depth. The induction theorems of the
library take an operator and cannot be instantiated by the installed provers, so the induction is
stated for a set (`SetInduction`: a set that holds 0 and the successor of each of its numbers holds
all), which follows from the well-foundedness of `<`. From it come, once each: a fold over a sequence is a loop over its
indices (`FoldExists`, `FoldIsLoop`), `FlattenSeq` is defined and joins one piece after the other
(`FlattenSteps`, `FlattenAppend`), and where an element of a piece is in the join (`FlattenPositions`).

`HeadersCorrect`: the invariant is that `_dict` has for every name the join of the name's list in `_as_list`, that
both have the same names, each once in the order of insertion, and that no value is empty. That a copy is
equal and that `str` parses back is not a step but a loop over all values of the object: `Rebuild` shows
that adding the values of the names one after the other, from an empty object, passes through the
object's own prefix after each name, and ends in the object; what is parsed back has the same names in the
same order, with each value stripped.
The assumptions are that normalising a name twice is
normalising it once, and that stripping yields a value.

`MultiCorrect` is the safety half of `MultiAnswers`, for every finite nesting of calls and every sharing of
Futures: a caller whose Future is done was cancelled by itself, has the parallel structure of results, or
the exception of a leaf that failed. The recursive function `Parallel` is shown to exist by induction over the
calls, inner ones first. The invariant then needs no induction: every Future or `gather` that has a result has
its own parallel structure, a `gather` has one only if all of its children have results, a failure is the one of a leaf, and
a call's Future is pending, cancelled or equal to its `gather`. Its heart is what may be in the loop's queue (`Queued`):
a callback for a child only if the child is done, and one for a call only if its `gather` is. That all leaves have
ended when the outer call has a result is an induction the other way, from the outer call
inwards (`AllAreOk`); for it, `MultiAssumption` says that the calls and leaves are those under the outer call.
`MultiNested` says the same of every inner call by itself, which other code may share: the results of its own
children in their places or the exception of a leaf that failed, whatever became of the outer call.

For these proofs the filters of `Multi` are folds (`Within`), since `SelectSeq` cannot be expanded by the prover,
and `HTTPHeaders` deletes a name with `RemoveFirst` from an order in which it is once.

**Only model-checked.** The liveness properties (`NoStarvation`, `JoinReturns`, `TimeoutBounds`,
`CrashIsNoticed`, `TimedWaitEnds`, `CloseAllEnds`, `ClientIsAccepted`, and that `MultiAnswers` answers at all): fairness
and ENABLED are beyond the prover. And, of course, the three properties that the
code violates.

## 6. Where code and documentation disagree

Shown by the three violated runs: `acquire(timeout)` leaves a live Future behind a
`NameError`; `Condition.notify` raises `TypeError`; a concurrent Future completed while
`with_timeout` waits never answers the caller.

Met while modelling, and not given a run:

- `Queue.get` and `put` with waiting have the same `NameError` as `acquire`.
- `test/queues_test.py:145-158` and `252-264` expect that a `get` or `put` that has to wait removes
  waiters that timed out. Nothing in `queues.py` does, and the model's deques keep them until a live
  waiter behind them is served or none is left.
- `LifoQueue` and `PriorityQueue` override nothing and are first in, first out.
- A cancelled Future wrapped by `with_timeout` leaves its caller waiting, because
  `copy` raises (`concurrent.py:98`) and `on_complete` has removed the timeout.
  `TimeoutBounds` excepts this case.
- `with_timeout` logs an error "after timeout" for Futures that completed in time,
  since `copy` runs before `on_complete` (`gen.py:447-450`).
- `concurrent.py` does not compile as it stands: the body of `DummyExecutor`
  (`concurrent.py:28-29`) ends after an `if` with nothing under it. No module here
  depends on that class; everything else is read as if its body were empty, since
  `locks`, `queues`, `gen` and `iostream` all import from this file.
- `fork_processes` begins with `ioloop.IOLoop.initialized()` (`process.py:65`), which no class
  of the repository defines: as shipped every call raises `AttributeError` before it forks. The
  model's `Init` lets the test raise or not; what follows is what the function does once the method is there.
- `os.wait()` (`process.py:85`) returns any child of the process and the code does not compare the
  pid with those it forked: the abnormal end of another child, started before the call, uses up a
  restart and forks a worker more than `num_processes`.
- A restarted child of `fork_processes` returns `None`, not "the same id"
  (`process.py:48-50`), because `start_child` assigns a local variable; and the
  parent ends in an exception, never in `sys.exit(0)` (`process.py:50-52`).
- `AsyncTestCase.wait` never removes its timeout and never clears its failure, so
  an earlier wait can fail a later one; `test/testing_test.py` says that "a second
  call to wait() clears the first timeout".
- A `condition()` that raises leaves `wait` with `__stopped` still set (`testing.py:226`): the next
  `wait` returns at once, with the arguments of that `stop`.
- `bind_sockets` calls `set_close_exec` (`netutil.py:64`), which is defined nowhere: as shipped `listen` and
  `bind` always raise `NameError`, and only `add_sockets` with sockets made elsewhere works. The
  model takes the helper as external.
- A connection callback that raises (`netutil.py:149`) leaves `accept_handler` before the rest of the
  backlog; the loop calls it again (`CallbackRaises`).
- `TCPServer.stop` called by a connection callback makes the running accept loop
  raise `EBADF` (`AcceptClosed`): it goes on to `sock.accept()` (`netutil.py:142`).
  `test/tcpserver_test.py:74-76` says that it "should not raise EBADF".
- `stop` never takes entries out of `_sockets` and removes handlers by number, so a
  second call, as in `test_stop_twice` (`test/tcpserver_test.py:69-70`), takes the
  handler of whatever has reused the descriptor. `HandlersKept` is stated up to the
  first call for this reason.
- `TCPServer.start` always ends in an exception, because `threading`, `cpu_count` and
  `ioloop` are not imported; by then `_started` is set and the sockets are added,
  and a retry fails its assertion. `stop` does not close sockets that `bind` has
  left pending.
- One serving task that raises ends `close_all_connections` with the rest of the
  connections open (`httpserver.py:190`).
- `multi` returns at the first failure, by time, and logs nothing of the others; its
  docstring says that "All others will be logged" and that it is equivalent to
  yielding the children in order (`gen.py:304-313`). A cancelled child leaves the
  caller waiting.
- `convert_yielded` calls `is_future` (`gen.py:568`), which is defined nowhere and is read as what its name says. A
  value that is no Future, awaitable, list or dictionary becomes `None` (`Future().set_result` returns
  nothing, `gen.py:573`), and `gather` raises `TypeError` out of `multi`: the model has no such children.
- `HTTPHeaders.parse` raises on continuation lines, which `test_multi_line`
  (`test/httputil_test.py:264`) expects to be joined; `copy.copy` fails, since
  `__copy__` is the module `copy` (`httputil.py:180`).
- `HTTPClient.close` closes its loop and leaves the client in it open, and cached.
- When `Popen` fails, `Subprocess` closes descriptors that its streams own, and the
  streams close them again when they are collected: `PipesAreExact` excepts that
  case. When the second `os.pipe` fails, the child's end of the first pipe leaks.
  `Subprocess.initialize` sets `_initialized` before it fails for want of
  `_handle_sigchld`, and later calls return silently.
- `locale.get()` returns `None` when no code matches and the default locale is not loaded, as before
  any load (`locale.py:59`); the docstring says "By default we return ``en_US``" (`locale.py:49-50`) and
  `test/locale_test.py:88` uses the result. `LookupsAgree` is stated for a default that is loaded.
- Before the first load `Locale.get("en_US")` is a `KeyError`: the locale is supported
  and not loaded. No gettext translation ever loads: `GettextLocale` has no
  `translations` when `Locale.__init__` asks for the names of months, and the handler
  only logs the `AttributeError`.

## 7. Not modelled

The repository has about 13,000 lines in `src/tornado/` beside its tests, of which some 2,800
are statements in the body of a function; the rest are docstrings, stubs and declarations,
and of the functions with a body most set attributes or format text. The models
cover what keeps state over several calls or is called concurrently, and can be
run at all. What is left out, and why:

- Stubs have no behaviour to model: `IOLoop` and `PeriodicCallback`, the I/O of
  `IOStream`, `RequestHandler` and the rest of `web.py`, the WebSocket protocol,
  `auth`, the template compiler, HTTP parsing, the request queues of the HTTP
  clients, the autoreload checks, resolvers.
- Code that cannot get as far as its behaviour: `WaitIterator` (its constructor
  needs `_done_callback`), `OptionParser` (its constructor recurses through
  `_normalize_name` without end), `coroutine` and `Runner` (which call methods that are
  not defined where they decide what to do), the exit callbacks of `Subprocess`,
  template loaders (`_create_template`).
- TLS, sockets, logging, formatting and escaping are I/O or text. Data classes, the
  router's walk over its rules, `ArgReplacer` and the other one-call utilities have no
  state for a model checker to explore. `demos/` and `maint/` are examples and tools.

Within the modelled parts: wall-clock times (a timer fires at any later step);
log messages; `__repr__`; `advance` past the end of a buffer; a caller that changes a
`bytearray` after `append` has kept a view of it (`iostream.py:88`), or the list that
`get_list` returned; a `wait()` inside a callback that another `wait()` runs; WebSocket connections, which
`close_all_connections` does not close (`httpserver.py:183`); line breaks inside header values; ports and TLS options of
servers; the values that Futures carry, where only identity and outcome matter.
