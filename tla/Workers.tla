------------------------------- MODULE Workers -------------------------------
(***************************************************************************)
(* The server's frame (server.go): workers that tick, panic and are        *)
(* started again (workers/ticker.go, panic_recovery.go), the SOC worker    *)
(* behind its bounded channel (soc_worker.go), the inbound loop, which     *)
(* sends on it like the poller, and the goroutine that shuts all of it     *)
(* down after a signal while main may return.                              *)
(***************************************************************************)
EXTENDS Integers

CONSTANTS
    Tickers,        \* the workers of startWorkers
    QueueSize,      \* socWorkerBufferSize
    MaxPanics       \* bound

ASSUME WorkersAssumption == QueueSize \in Nat /\ MaxPanics \in Nat

VARIABLES
    worker,         \* waiting for its ticker, in a tick, panicked, returned
    inbound,        \* whether the inbound loop handles a SENSOR message
    waitGroup,      \* of main: the workers it waits for
    queued,         \* snapshots in the channel
    consumer,       \* SOCWorker.Start: ready, processing or returned
    closed,         \* the channel
    shutdown,       \* the next step of the shutdown goroutine
    requests,       \* HTTP requests under way: none or some
    exited,         \* main has returned
    panics          \* bound
workersVars ==
    <<worker, inbound, waitGroup, queued, consumer, closed, shutdown, requests, exited, panics>>

WorkersInit ==
    /\ worker = [w \in Tickers |-> "waiting"]
    /\ inbound = FALSE
    /\ waitGroup = Tickers
    /\ queued = 0 /\ consumer = "ready" /\ closed = FALSE
    /\ shutdown = "serving"
    /\ requests = FALSE /\ exited = FALSE
    /\ panics = 0

Connected == shutdown \in {"serving", "drain", "disconnect"}
Cancelled == shutdown \in {"disconnect", "wait", "close", "done"}
Running == ~exited
Channel == <<queued, consumer, closed>>

Tick(w) ==
    /\ Running /\ worker[w] = "waiting"
    /\ worker' = [worker EXCEPT ![w] = "ticking"]
    /\ UNCHANGED <<inbound, waitGroup, Channel, shutdown, requests, exited, panics>>

\* A poll, or the handler of a message, sends its snapshot; a full channel
\* drops it.
SendSnapshot ==
    /\ Running /\ ~closed
    /\ inbound \/ \E w \in Tickers : worker[w] = "ticking"
    /\ queued' = IF queued < QueueSize THEN queued + 1 ELSE queued
    /\ UNCHANGED <<worker, inbound, waitGroup, consumer, closed, shutdown, requests, exited, panics>>

MessageArrives ==
    /\ Running /\ Connected /\ ~inbound /\ inbound' = TRUE
    /\ UNCHANGED <<worker, waitGroup, Channel, shutdown, requests, exited, panics>>

MessageHandled ==
    /\ Running /\ inbound /\ inbound' = FALSE
    /\ UNCHANGED <<worker, waitGroup, Channel, shutdown, requests, exited, panics>>

TickEnds(w) ==
    /\ Running /\ worker[w] = "ticking"
    /\ worker' = [worker EXCEPT ![w] = "waiting"]
    /\ UNCHANGED <<inbound, waitGroup, Channel, shutdown, requests, exited, panics>>

TickPanics(w) ==
    /\ Running /\ worker[w] = "ticking"
    /\ panics < MaxPanics /\ panics' = panics + 1
    /\ worker' = [worker EXCEPT ![w] = "panicked"]
    /\ UNCHANGED <<inbound, waitGroup, Channel, shutdown, requests, exited>>

\* RunWithRecovery: again, after workerRestartDelay.
RestartWorker(w) ==
    /\ Running /\ worker[w] = "panicked"
    /\ worker' = [worker EXCEPT ![w] = "waiting"]
    /\ UNCHANGED <<inbound, waitGroup, Channel, shutdown, requests, exited, panics>>

\* Mutant: the panic that ends a run is counted as the end of the worker.
WorkerReturnsOrPanics(w) ==
    /\ Running
    /\ worker[w] = "panicked" \/ (Cancelled /\ worker[w] = "waiting")
    /\ worker' = [worker EXCEPT ![w] = IF @ = "panicked" THEN @ ELSE "returned"]
    /\ waitGroup' = waitGroup \ {w}
    /\ UNCHANGED <<inbound, Channel, shutdown, requests, exited, panics>>

\* A cancelled context ends a worker between its ticks or before its restart;
\* its done channel takes it off the wait group.
WorkerReturns(w) ==
    /\ Running /\ Cancelled /\ worker[w] \in {"waiting", "panicked"}
    /\ worker' = [worker EXCEPT ![w] = "returned"]
    /\ waitGroup' = waitGroup \ {w}
    /\ UNCHANGED <<inbound, Channel, shutdown, requests, exited, panics>>

\* The SOC worker takes a snapshot, or sees the context cancelled: with both
\* at hand either, so that snapshots may stay in the channel.
TakeSnapshot ==
    /\ Running /\ consumer = "ready" /\ queued > 0
    /\ queued' = queued - 1 /\ consumer' = "processing"
    /\ UNCHANGED <<worker, inbound, waitGroup, closed, shutdown, requests, exited, panics>>

SnapshotStored ==
    /\ Running /\ consumer = "processing" /\ consumer' = "ready"
    /\ UNCHANGED <<worker, inbound, waitGroup, queued, closed, shutdown, requests, exited, panics>>

ConsumerReturns ==
    /\ Running /\ consumer = "ready"
    /\ Cancelled \/ (closed /\ queued = 0)
    /\ consumer' = "returned"
    /\ UNCHANGED <<worker, inbound, waitGroup, queued, closed, shutdown, requests, exited, panics>>

RequestBegins ==
    /\ Running /\ shutdown = "serving" /\ ~requests /\ requests' = TRUE
    /\ UNCHANGED <<worker, inbound, waitGroup, Channel, shutdown, exited, panics>>

RequestEnds ==
    /\ Running /\ requests /\ requests' = FALSE
    /\ UNCHANGED <<worker, inbound, waitGroup, Channel, shutdown, exited, panics>>

ShutdownGoes(from, to) ==
    /\ Running /\ shutdown = from /\ shutdown' = to
    /\ UNCHANGED <<worker, inbound, waitGroup, queued, consumer, requests, exited, panics>>

Signal == ShutdownGoes("serving", "drain") /\ UNCHANGED closed

\* server.Shutdown returns, with requests under way if ten seconds are over;
\* the context of workers and inbound loop is cancelled.
CancelWorkers == ShutdownGoes("drain", "disconnect") /\ UNCHANGED closed

\* The library waits for the handler that runs.
Disconnect ==
    /\ ~inbound
    /\ ShutdownGoes("disconnect", "wait") /\ UNCHANGED closed

AwaitWorkers ==
    /\ waitGroup = {}
    /\ ShutdownGoes("wait", "close") /\ UNCHANGED closed

\* SOCWorker.Shutdown: the channel is closed; it does not wait.
CloseQueue == ShutdownGoes("close", "done") /\ closed' = TRUE

\* ListenAndServe returns as soon as the shutdown begins, and main with it.
MainReturns ==
    /\ Running /\ shutdown # "serving"
    /\ exited' = TRUE
    /\ UNCHANGED <<worker, inbound, waitGroup, Channel, shutdown, requests, panics>>

WorkersNext ==
    \/ \E w \in Tickers :
        \/ Tick(w) \/ TickEnds(w)
        \/ TickPanics(w) \/ RestartWorker(w) \/ WorkerReturns(w)
    \/ SendSnapshot \/ MessageArrives \/ MessageHandled
    \/ TakeSnapshot \/ SnapshotStored \/ ConsumerReturns
    \/ RequestBegins \/ RequestEnds
    \/ Signal \/ CancelWorkers \/ Disconnect \/ AwaitWorkers \/ CloseQueue \/ MainReturns

WorkersSpec == WorkersInit /\ [][WorkersNext]_workersVars

----------------------------------------------------------------------------
\* Nobody is in a tick or handles a message, nor can begin to, when the
\* channel is closed: a send on it would panic (soc_worker.go:77, 94), and a
\* worker that panicked and was started again has been waited for like the
\* others.
NobodySendsOnClosed ==
    closed => ~inbound /\ \A w \in Tickers : worker[w] = "returned"

\* The requests are drained and the workers waited for before the process is
\* gone (server.go:79-108).
ExitIsGraceful == exited => shutdown = "done"
=============================================================================
