---------------------------- MODULE Edges_proofs -----------------------------
(***************************************************************************)
(* Proofs about the machines around charging that keep their state in      *)
(* memory: the circuit breaker, the workers and their queue, the cached    *)
(* answers of the carbon service, and the delivery of notices.             *)
(***************************************************************************)
EXTENDS Breaker, Workers, CarbonCache, Delivery, Presence, TLAPS

----------------------------------------------------------------------------
(***************************************************************************)
(* The probe of a half-open circuit is the only request under way, for any *)
(* number of callers and any thresholds and timeouts that BreakerAssumption *)
(* allows.  The argument is one of ages: a request lives no longer than    *)
(* HttpTimeout, and a circuit that opened ResetTimeout ago has outlived    *)
(* all of those that were sent before.                                     *)
(***************************************************************************)

BreakerTypeOK ==
    /\ circuit \in {"closed", "open", "half-open"}
    /\ failures \in Nat
    /\ sinceFailure \in 0 .. ResetTimeout
    /\ request \in [Callers -> NotSent .. HttpTimeout]
    /\ failed \in Nat

\* Requests under way were sent before the circuit opened.
OpenIsYounger ==
    circuit = "open" => \A c \in InFlight : sinceFailure <= request[c]

\* The probe was sent when the clock was re-armed.
ProbeKeepsTime ==
    circuit = "half-open" => \E c \in Callers : InFlight = {c} /\ request[c] = sinceFailure

BreakerInv == BreakerTypeOK /\ OpenIsYounger /\ ProbeKeepsTime

----------------------------------------------------------------------------
LEMMA BreakerInitInv == BreakerInit => BreakerInv
BY BreakerAssumption
DEF BreakerInit, BreakerInv, BreakerTypeOK, OpenIsYounger, ProbeKeepsTime, NotSent

\* A circuit that is not closed and whose reset window has passed has no
\* request under way: it would be older than it may become.
LEMMA ElapsedIsQuiet ==
    ASSUME BreakerInv, circuit # "closed", Elapsed
    PROVE  circuit = "open" /\ InFlight = {}
<1>1. \A c \in InFlight : request[c] \in 0 .. HttpTimeout
  BY BreakerAssumption DEF BreakerInv, BreakerTypeOK, InFlight, NotSent
<1>2. circuit # "half-open"
  BY <1>1, BreakerAssumption DEF BreakerInv, ProbeKeepsTime, Elapsed
<1>3. circuit = "open"
  BY <1>2 DEF BreakerInv, BreakerTypeOK
<1>4. \A c \in InFlight : FALSE
  BY <1>1, <1>3, BreakerAssumption DEF BreakerInv, OpenIsYounger, Elapsed
<1> QED  BY <1>3, <1>4

\* The circuit is half-open when its probe is answered, so nobody else is left.
LEMMA AnswerEndsProbe ==
    ASSUME BreakerInv, circuit = "half-open", NEW c \in InFlight
    PROVE  InFlight = {c}
BY DEF BreakerInv, ProbeKeepsTime

LEMMA BreakerStep == BreakerInv /\ [BreakerNext]_breakerVars => BreakerInv'
<1> SUFFICES ASSUME BreakerInv, [BreakerNext]_breakerVars  PROVE BreakerInv'
  OBVIOUS
<1> USE BreakerAssumption
<1>1. CASE BreakerTick
  <2>1. BreakerTypeOK'
    BY <1>1 DEF BreakerTick, BreakerInv, BreakerTypeOK, InFlight, NotSent, Elapsed
  <2>2. InFlight' = InFlight
    BY <1>1 DEF BreakerTick, BreakerInv, BreakerTypeOK, InFlight, NotSent
  <2>3. \A c \in InFlight : request'[c] = request[c] + 1
    BY <1>1 DEF BreakerTick, InFlight
  <2>4. sinceFailure' = sinceFailure \/ sinceFailure' = sinceFailure + 1
    BY <1>1 DEF BreakerTick
  <2>5. OpenIsYounger'
    BY <1>1, <2>2, <2>3, <2>4
    DEF BreakerTick, BreakerInv, BreakerTypeOK, OpenIsYounger, InFlight, NotSent
  <2>6. ProbeKeepsTime'
    <3> SUFFICES ASSUME circuit' = "half-open"
        PROVE \E c \in Callers : InFlight' = {c} /\ request'[c] = sinceFailure'
      BY DEF ProbeKeepsTime
    <3>1. circuit = "half-open"
      BY <1>1 DEF BreakerTick
    <3>2. PICK c \in Callers : InFlight = {c} /\ request[c] = sinceFailure
      BY <3>1 DEF BreakerInv, ProbeKeepsTime
    <3>3. ~Elapsed
      BY <3>1, ElapsedIsQuiet
    <3>4. sinceFailure' = sinceFailure + 1
      BY <1>1, <3>3 DEF BreakerTick
    <3> QED  BY <2>2, <2>3, <3>2, <3>4
  <2> QED  BY <2>1, <2>5, <2>6 DEF BreakerInv
<1>2. ASSUME NEW c \in Callers, Call(c)  PROVE BreakerInv'
  <2>1. InFlight' = InFlight \cup {c} /\ request'[c] = 0
    BY <1>2 DEF Call, Admit, InFlight, NotSent, BreakerInv, BreakerTypeOK
  <2>2. CASE circuit = "closed" /\ UNCHANGED <<circuit, sinceFailure>>
    BY <1>2, <2>2
    DEF Call, Admit, BreakerInv, BreakerTypeOK, OpenIsYounger, ProbeKeepsTime, NotSent
  <2>3. CASE circuit # "closed" /\ Elapsed /\ circuit' = "half-open" /\ sinceFailure' = 0
    <3>1. InFlight' = {c}
      BY <2>1, <2>3, ElapsedIsQuiet
    <3>2. BreakerTypeOK'
      BY <1>2, <2>3 DEF Call, Admit, BreakerInv, BreakerTypeOK, NotSent
    <3> QED  BY <2>1, <2>3, <3>1, <3>2 DEF BreakerInv, OpenIsYounger, ProbeKeepsTime
  <2> QED  BY <1>2, <2>2, <2>3 DEF Call
<1>3. ASSUME NEW c \in Callers, Success(c)  PROVE BreakerInv'
  BY <1>3
  DEF Success, BreakerInv, BreakerTypeOK, OpenIsYounger, ProbeKeepsTime, NotSent
<1>4. ASSUME NEW c \in Callers, Failure(c)  PROVE BreakerInv'
  <2>1. BreakerTypeOK'
    BY <1>4 DEF Failure, BreakerInv, BreakerTypeOK, NotSent, InFlight
  <2>2. /\ InFlight' \subseteq InFlight
        /\ \A d \in InFlight' : request'[d] = request[d] /\ request[d] \in 0 .. HttpTimeout
    BY <1>4 DEF Failure, BreakerInv, BreakerTypeOK, NotSent, InFlight
  <2>3. circuit' # "half-open"
    BY <1>4 DEF Failure
  <2>4. OpenIsYounger'
    BY <1>4, <2>2 DEF Failure, BreakerInv, OpenIsYounger
  <2> QED  BY <2>1, <2>3, <2>4 DEF BreakerInv, ProbeKeepsTime
<1>5. CASE UNCHANGED breakerVars
  BY <1>5
  DEF breakerVars, BreakerInv, BreakerTypeOK, OpenIsYounger, ProbeKeepsTime, InFlight
<1> QED  BY <1>1, <1>2, <1>3, <1>4, <1>5 DEF BreakerNext

\* The ages are kept as the invariant says, in every behaviour of the breaker.
THEOREM BreakerInvariant == BreakerSpec => []BreakerInv
BY BreakerInitInv, BreakerStep, PTL DEF BreakerSpec

\* Nothing but the probe decides whether a half-open circuit closes.
THEOREM ProbeIsTheOnlyRequest == BreakerSpec => []ProbeIsAlone
<1>1. BreakerInv => ProbeIsAlone
  BY DEF BreakerInv, ProbeKeepsTime, ProbeIsAlone
<1> QED  BY <1>1, BreakerInvariant, PTL

----------------------------------------------------------------------------
(***************************************************************************)
(* The channel of the SOC worker is closed when nobody can send on it any  *)
(* more, for any set of workers, any number of panics and any length of    *)
(* the queue.  The invariant says at which step of the shutdown which      *)
(* senders are gone, and that the wait group counts a worker until it has  *)
(* returned, through its panics and its restarts.                          *)
(***************************************************************************)

WorkersTypeOK ==
    /\ worker \in [Tickers -> {"waiting", "ticking", "panicked", "returned"}]
    /\ inbound \in BOOLEAN
    /\ closed \in BOOLEAN

WaitedFor == waitGroup = {w \in Tickers : worker[w] # "returned"}

\* From the wait on the loop is gone, from the close on the workers, too.
SendersLeave ==
    /\ shutdown \in {"wait", "close", "done"} => ~inbound
    /\ shutdown \in {"close", "done"} => waitGroup = {}
    /\ closed => shutdown = "done"

WorkersInv == WorkersTypeOK /\ WaitedFor /\ SendersLeave

----------------------------------------------------------------------------
LEMMA WorkersInitInv == WorkersInit => WorkersInv
BY DEF WorkersInit, WorkersInv, WorkersTypeOK, WaitedFor, SendersLeave

\* A worker that moves but does not return leaves the wait group as it is;
\* it is counted, so that the channel is not about to be closed.
LEMMA WorkerMoves ==
    ASSUME WorkersInv, NEW w \in Tickers, worker[w] # "returned",
           NEW to \in {"waiting", "ticking", "panicked"},
           worker' = [worker EXCEPT ![w] = to],
           UNCHANGED <<inbound, waitGroup, closed, shutdown>>
    PROVE  WorkersInv'
<1>1. WorkersTypeOK'
  BY DEF WorkersInv, WorkersTypeOK
<1>2. {v \in Tickers : worker'[v] # "returned"} = {v \in Tickers : worker[v] # "returned"}
  BY DEF WorkersInv, WorkersTypeOK
<1>3. WaitedFor'
  BY <1>2 DEF WorkersInv, WaitedFor
<1>4. SendersLeave'
  BY DEF WorkersInv, SendersLeave
<1> QED  BY <1>1, <1>3, <1>4 DEF WorkersInv

\* Steps that touch neither senders nor shutdown.
LEMMA SendersStay ==
    ASSUME WorkersInv, UNCHANGED <<worker, inbound, waitGroup, closed, shutdown>>
    PROVE  WorkersInv'
BY DEF WorkersInv, WorkersTypeOK, WaitedFor, SendersLeave

\* Steps of the inbound loop.
LEMMA SendersSettle ==
    ASSUME WorkersInv, UNCHANGED <<worker, waitGroup, closed, shutdown>>,
           inbound' \in BOOLEAN,
           shutdown \in {"wait", "close", "done"} => inbound' = FALSE
    PROVE  WorkersInv'
BY DEF WorkersInv, WorkersTypeOK, WaitedFor, SendersLeave

LEMMA WorkersStep == WorkersInv /\ [WorkersNext]_workersVars => WorkersInv'
<1> SUFFICES ASSUME WorkersInv, [WorkersNext]_workersVars  PROVE WorkersInv'
  OBVIOUS
<1>1. ASSUME NEW w \in Tickers, Tick(w) \/ TickEnds(w) \/ TickPanics(w) \/ RestartWorker(w)
      PROVE WorkersInv'
  BY <1>1, WorkerMoves DEF Tick, TickEnds, TickPanics, RestartWorker, Channel
<1>2. ASSUME NEW w \in Tickers, WorkerReturns(w)  PROVE WorkersInv'
  <2>1. WorkersTypeOK'
    BY <1>2 DEF WorkerReturns, Channel, WorkersInv, WorkersTypeOK
  <2>2. {v \in Tickers : worker'[v] # "returned"} = {v \in Tickers : worker[v] # "returned"} \ {w}
    BY <1>2 DEF WorkerReturns, WorkersInv, WorkersTypeOK
  <2>3. WaitedFor'
    BY <1>2, <2>2 DEF WorkerReturns, WorkersInv, WaitedFor
  <2>4. SendersLeave'
    BY <1>2 DEF WorkerReturns, Channel, WorkersInv, SendersLeave
  <2> QED  BY <2>1, <2>3, <2>4 DEF WorkersInv
<1>3. CASE SendSnapshot \/ TakeSnapshot \/ SnapshotStored \/ ConsumerReturns
  BY <1>3, SendersStay DEF SendSnapshot, TakeSnapshot, SnapshotStored, ConsumerReturns
<1>4. CASE RequestBegins \/ RequestEnds \/ MainReturns
  BY <1>4, SendersStay DEF RequestBegins, RequestEnds, MainReturns, Channel
<1>5. CASE MessageArrives \/ MessageHandled
  <2>1. UNCHANGED <<worker, waitGroup, closed, shutdown>> /\ inbound' \in BOOLEAN
    BY <1>5 DEF MessageArrives, MessageHandled, Channel
  <2>2. shutdown \in {"wait", "close", "done"} => inbound' = FALSE
    BY <1>5 DEF MessageArrives, MessageHandled, Connected
  <2> QED  BY <2>1, <2>2, SendersSettle
<1>6. CASE Signal \/ CancelWorkers \/ Disconnect
  <2>1. UNCHANGED <<worker, inbound, waitGroup, closed>>
    BY <1>6 DEF Signal, CancelWorkers, Disconnect, ShutdownGoes
  <2>2. /\ shutdown \notin {"close", "done"} /\ shutdown' \notin {"close", "done"}
        /\ shutdown' = "wait" => ~inbound
    BY <1>6 DEF Signal, CancelWorkers, Disconnect, ShutdownGoes
  <2>3. WorkersTypeOK' /\ WaitedFor'
    BY <2>1 DEF WorkersInv, WorkersTypeOK, WaitedFor
  <2>4. SendersLeave'
    BY <2>1, <2>2 DEF WorkersInv, SendersLeave
  <2> QED  BY <2>3, <2>4 DEF WorkersInv
<1>7. CASE AwaitWorkers \/ CloseQueue
  <2>1. UNCHANGED <<worker, inbound, waitGroup>> /\ closed' \in BOOLEAN
    BY <1>7 DEF AwaitWorkers, CloseQueue, ShutdownGoes, WorkersInv, WorkersTypeOK
  <2>2. /\ shutdown \in {"wait", "close"}
        /\ waitGroup = {}
        /\ closed' => shutdown' = "done"
    BY <1>7 DEF AwaitWorkers, CloseQueue, ShutdownGoes, WorkersInv, SendersLeave
  <2>3. WorkersTypeOK' /\ WaitedFor'
    BY <2>1 DEF WorkersInv, WorkersTypeOK, WaitedFor
  <2>4. SendersLeave'
    BY <2>1, <2>2 DEF WorkersInv, SendersLeave
  <2> QED  BY <2>3, <2>4 DEF WorkersInv
<1>8. CASE UNCHANGED workersVars
  BY <1>8, SendersStay DEF workersVars
<1> QED  BY <1>1, <1>2, <1>3, <1>4, <1>5, <1>6, <1>7, <1>8 DEF WorkersNext

\* A send on the closed channel would panic; nobody is left who could send.
THEOREM ClosedQueueIsSafe == WorkersSpec => []NobodySendsOnClosed
<1>1. WorkersInv => NobodySendsOnClosed
  BY DEF WorkersInv, WaitedFor, SendersLeave, NobodySendsOnClosed
<1> QED  BY <1>1, WorkersInitInv, WorkersStep, PTL DEF WorkersSpec

----------------------------------------------------------------------------
(***************************************************************************)
(* A cached answer of the carbon service is at most one half-hour behind,  *)
(* for any number of readers, any length of a half-hour and any timeout    *)
(* shorter than it.  The invariant dates every answer that is on its way:  *)
(* it left while its half-hour lasted, and it is no older than the timeout *)
(* of its request; so the boundary it is stamped with, if it is not the    *)
(* next one, is the one after.                                             *)
(***************************************************************************)

Asked    == [pc : {"asked"}, answer : Answers, age : Nat]
Answered == [pc : {"answered"}, answer : Answers, age : Nat, of : Nat]
Entries  == [of : Nat, expiresAt : Nat]

CarbonTypeOK ==
    /\ instant \in Nat
    /\ cache \in [Answers -> Entries]
    /\ fetch \in [Readers -> {NotFetching} \cup Asked \cup Answered]

\* An answer left before its half-hour ended, and arrives in time.
InTime(f) ==
    f \in Answered => /\ f.age <= CarbonTimeout
                      /\ instant < (f.of + 1) * HalfHour + f.age

FetchesAreInTime ==
    \A r \in Readers : /\ fetch[r] \in Asked => fetch[r].age <= CarbonTimeout
                       /\ InTime(fetch[r])

\* An entry ends with the half-hour after the one it is about.
EntriesEnd ==
    \A a \in Answers : cache[a].expiresAt <= (cache[a].of + 2) * HalfHour

CarbonInv == CarbonTypeOK /\ FetchesAreInTime /\ EntriesEnd

----------------------------------------------------------------------------
LEMMA Kinds ==
    /\ \A f \in Asked : f.pc = "asked" /\ f \notin Answered /\ f # NotFetching
    /\ \A f \in Answered : f.pc = "answered" /\ f \notin Asked /\ f # NotFetching
    /\ NotFetching.pc = "none" /\ NotFetching \notin Asked /\ NotFetching \notin Answered
BY DEF Asked, Answered, NotFetching

LEMMA Distributes ==
    ASSUME NEW a \in Int, NEW b \in Int, NEW h \in Int
    PROVE  (a + b) * h = a * h + b * h
OBVIOUS

LEMMA ProductIsNat == ASSUME NEW a \in Nat, NEW h \in Nat PROVE a * h \in Nat
OBVIOUS

LEMMA ProductGrows ==
    ASSUME NEW a \in Nat, NEW b \in Nat, NEW h \in Nat, a <= b
    PROVE  a * h <= b * h
<1> DEFINE d == b - a
<1>1. d \in Nat /\ b = a + d
  OBVIOUS
<1>2. (a + d) * h = a * h + d * h
  BY <1>1, Distributes
<1>3. d * h \in Nat /\ a * h \in Nat /\ b * h \in Nat
  BY <1>1, ProductIsNat
<1> HIDE DEF d
<1> QED  BY <1>1, <1>2, <1>3

\* An instant is in its half-hour.
LEMMA HalfHourBounds ==
    ASSUME NEW t \in Nat
    PROVE  /\ HalfHourOf(t) \in Nat
           /\ HalfHourOf(t) * HalfHour <= t
           /\ t < (HalfHourOf(t) + 1) * HalfHour
BY CarbonAssumption DEF HalfHourOf

\* An instant before the k-th boundary is in a half-hour before the k-th.
LEMMA BeforeBoundary ==
    ASSUME NEW t \in Nat, NEW k \in Nat, t < k * HalfHour
    PROVE  HalfHourOf(t) < k
<1>1. SUFFICES ASSUME k <= HalfHourOf(t) PROVE FALSE
  BY HalfHourBounds
<1>2. k * HalfHour <= HalfHourOf(t) * HalfHour
  BY <1>1, HalfHourBounds, ProductGrows, CarbonAssumption
<1>3. k * HalfHour \in Nat /\ HalfHourOf(t) * HalfHour \in Nat
  BY HalfHourBounds, ProductIsNat, CarbonAssumption
<1> QED  BY <1>2, <1>3, HalfHourBounds

----------------------------------------------------------------------------
LEMMA CarbonInitInv == CarbonInit => CarbonInv
<1> SUFFICES ASSUME CarbonInit PROVE CarbonInv
  OBVIOUS
<1>1. CarbonTypeOK
  BY DEF CarbonInit, CarbonTypeOK, Entries
<1>2. FetchesAreInTime
  BY Kinds DEF CarbonInit, FetchesAreInTime, InTime
<1>3. EntriesEnd
  BY CarbonAssumption DEF CarbonInit, EntriesEnd
<1> QED  BY <1>1, <1>2, <1>3 DEF CarbonInv

\* A fetch ages with the clock, so that it stays in time.
LEMMA TickStep == CarbonInv /\ CarbonTick => CarbonInv'
<1> SUFFICES ASSUME CarbonInv, CarbonTick PROVE CarbonInv'
  OBVIOUS
<1>1. ASSUME NEW r \in Readers, fetch[r] = NotFetching
      PROVE fetch'[r] = NotFetching
  BY <1>1, Kinds DEF CarbonTick
<1>2. ASSUME NEW r \in Readers, fetch[r] \in Asked
      PROVE fetch'[r] \in Asked /\ fetch'[r].age = fetch[r].age + 1
            /\ fetch[r].age < CarbonTimeout
  BY <1>2 DEF CarbonTick, Asked
<1>3. ASSUME NEW r \in Readers, fetch[r] \in Answered
      PROVE fetch'[r] \in Answered /\ fetch'[r].age = fetch[r].age + 1
            /\ fetch'[r].of = fetch[r].of /\ fetch[r].age < CarbonTimeout
  BY <1>3 DEF CarbonTick, Answered
<1>4. CarbonTypeOK'
  BY <1>1, <1>2, <1>3 DEF CarbonTick, CarbonInv, CarbonTypeOK
<1>5. FetchesAreInTime'
  <2> SUFFICES ASSUME NEW r \in Readers
               PROVE  /\ fetch'[r] \in Asked => fetch'[r].age <= CarbonTimeout
                      /\ InTime(fetch[r])'
    BY DEF FetchesAreInTime
  <2>1. CASE fetch[r] = NotFetching
    BY <1>1, <2>1, Kinds DEF InTime
  <2>2. CASE fetch[r] \in Asked
    <3>1. fetch[r].age \in Nat
      BY <2>2 DEF Asked
    <3> QED  BY <1>2, <2>2, <3>1, Kinds, CarbonAssumption DEF InTime
  <2>3. CASE fetch[r] \in Answered
    <3>1. fetch[r].age \in Nat /\ fetch[r].of \in Nat
      BY <2>3 DEF Answered
    <3>2. instant < (fetch[r].of + 1) * HalfHour + fetch[r].age
      BY <2>3 DEF CarbonInv, FetchesAreInTime, InTime
    <3>3. (fetch[r].of + 1) * HalfHour \in Nat
      BY <3>1, ProductIsNat, CarbonAssumption
    <3>4. instant' = instant + 1 /\ instant \in Nat
      BY DEF CarbonTick, CarbonInv, CarbonTypeOK
    <3>5. instant' < (fetch'[r].of + 1) * HalfHour + fetch'[r].age
      BY <1>3, <2>3, <3>1, <3>2, <3>3, <3>4
    <3> QED  BY <1>3, <2>3, <3>1, <3>5, Kinds, CarbonAssumption DEF InTime
  <2> QED  BY <2>1, <2>2, <2>3 DEF CarbonInv, CarbonTypeOK
<1>6. EntriesEnd'
  BY DEF CarbonTick, CarbonInv, EntriesEnd
<1> QED  BY <1>4, <1>5, <1>6 DEF CarbonInv

\* A step of one reader that leaves the clock and the entries alone.
LEMMA ReaderMoves ==
    ASSUME CarbonInv, UNCHANGED <<instant, cache>>, NEW r \in Readers,
           NEW f \in {NotFetching} \cup Asked \cup Answered,
           f \in Asked => f.age <= CarbonTimeout, InTime(f),
           fetch' = [fetch EXCEPT ![r] = f]
    PROVE  CarbonInv'
<1>1. CarbonTypeOK'
  BY DEF CarbonInv, CarbonTypeOK
<1>2. \A s \in Readers : fetch'[s] = f \/ fetch'[s] = fetch[s]
  BY DEF CarbonInv, CarbonTypeOK
<1>3. FetchesAreInTime'
  BY <1>2 DEF CarbonInv, FetchesAreInTime, InTime
<1> QED  BY <1>1, <1>3 DEF CarbonInv, EntriesEnd

LEMMA AnswerStep ==
    ASSUME CarbonInv, NEW r \in Readers, FetchAnswered(r)
    PROVE  CarbonInv'
<1>1. fetch[r] \in Asked
  BY Kinds DEF FetchAnswered, CarbonInv, CarbonTypeOK
<1>2. fetch[r].age \in Nat /\ fetch[r].answer \in Answers /\ fetch[r].age <= CarbonTimeout
  BY <1>1 DEF Asked, CarbonInv, FetchesAreInTime
<1> DEFINE f == [pc |-> "answered", answer |-> fetch[r].answer,
                 age |-> fetch[r].age, of |-> HalfHourOf(instant)]
<1>3. instant \in Nat
  BY DEF CarbonInv, CarbonTypeOK
<1>4. /\ f \in Answered /\ f.age = fetch[r].age /\ f.of = HalfHourOf(instant)
  BY <1>2, <1>3, HalfHourBounds DEF Answered
<1>5. fetch' = [fetch EXCEPT ![r] = f] /\ UNCHANGED <<instant, cache>>
  BY DEF FetchAnswered
<1> HIDE DEF f
<1>6. InTime(f)
  <2>1. (HalfHourOf(instant) + 1) * HalfHour \in Nat
    BY <1>3, HalfHourBounds, ProductIsNat, CarbonAssumption
  <2> QED  BY <1>2, <1>3, <1>4, <2>1, HalfHourBounds DEF InTime
<1> QED  BY <1>4, <1>5, <1>6, Kinds, ReaderMoves

\* The answer is in time, so that the next boundary is at most the second
\* after the beginning of its half-hour.
LEMMA StoreStep ==
    ASSUME CarbonInv, NEW r \in Readers, StoreAnswer(r)
    PROVE  CarbonInv'
<1> DEFINE f == fetch[r]
<1>1. f \in Answered
  BY Kinds DEF StoreAnswer, CarbonInv, CarbonTypeOK
<1>2. /\ f.age \in Nat /\ f.of \in Nat /\ f.answer \in Answers
      /\ f.age <= CarbonTimeout /\ instant < (f.of + 1) * HalfHour + f.age
      /\ instant \in Nat
  BY <1>1 DEF Answered, CarbonInv, CarbonTypeOK, FetchesAreInTime, InTime
<1> DEFINE next == NextHalfHour(instant)
           cached == [of |-> f.of, expiresAt |-> next]
<1>3. next \in Nat /\ next <= (f.of + 2) * HalfHour
  <2> HIDE DEF f
  <2>1. (f.of + 2) * HalfHour = (f.of + 1) * HalfHour + HalfHour
    BY <1>2, Distributes, CarbonAssumption
  <2>2. (f.of + 1) * HalfHour \in Nat /\ (f.of + 2) * HalfHour \in Nat
    BY <1>2, ProductIsNat, CarbonAssumption
  <2>3. instant < (f.of + 2) * HalfHour
    BY <1>2, <2>1, <2>2, CarbonAssumption
  <2>4. HalfHourOf(instant) < f.of + 2
    BY <1>2, <2>3, BeforeBoundary
  <2>5. HalfHourOf(instant) + 1 \in Nat /\ HalfHourOf(instant) + 1 <= f.of + 2
    BY <1>2, <2>4, HalfHourBounds
  <2> QED
    BY <1>2, <2>5, ProductGrows, ProductIsNat, CarbonAssumption DEF NextHalfHour
<1>4. cached \in Entries /\ cached.of = f.of /\ cached.expiresAt = next
  BY <1>2, <1>3 DEF Entries
<1>5. /\ cache' = [cache EXCEPT ![f.answer] = cached] /\ UNCHANGED instant
      /\ fetch' = [fetch EXCEPT ![r] = NotFetching]
  BY DEF StoreAnswer
<1> HIDE DEF f, next, cached
<1>6. CarbonTypeOK'
  BY <1>2, <1>4, <1>5 DEF CarbonInv, CarbonTypeOK
<1>7. \A s \in Readers : fetch'[s] = NotFetching \/ fetch'[s] = fetch[s]
  BY <1>5 DEF CarbonInv, CarbonTypeOK
<1>8. FetchesAreInTime'
  BY <1>5, <1>7, Kinds DEF CarbonInv, FetchesAreInTime, InTime
<1>9. \A a \in Answers : cache'[a] = cached \/ cache'[a] = cache[a]
  BY <1>5 DEF CarbonInv, CarbonTypeOK
<1>10. EntriesEnd'
  BY <1>3, <1>4, <1>9 DEF CarbonInv, EntriesEnd
<1> QED  BY <1>6, <1>8, <1>10 DEF CarbonInv

LEMMA CarbonStep == CarbonInv /\ [CarbonNext]_carbonVars => CarbonInv'
<1> SUFFICES ASSUME CarbonInv, [CarbonNext]_carbonVars PROVE CarbonInv'
  OBVIOUS
<1>1. ASSUME NEW r \in Readers, GetCurrent(r) \/ GetForecast(r) PROVE CarbonInv'
  <2>1. PICK a \in Answers : Fetch(r, a)
    BY <1>1 DEF GetCurrent, GetForecast, Answers
  <2> DEFINE f == [pc |-> "asked", answer |-> a, age |-> 0]
  <2>2. f \in Asked /\ f.age <= CarbonTimeout
    BY CarbonAssumption DEF Asked
  <2>3. fetch' = [fetch EXCEPT ![r] = f] /\ UNCHANGED <<instant, cache>>
    BY <2>1 DEF Fetch
  <2> HIDE DEF f
  <2>4. InTime(f)
    BY <2>2, Kinds DEF InTime
  <2> QED  BY <2>2, <2>3, <2>4, ReaderMoves
<1>2. ASSUME NEW r \in Readers, FetchFailed(r) PROVE CarbonInv'
  <2>1. InTime(NotFetching) /\ NotFetching \notin Asked
    BY Kinds DEF InTime
  <2>2. fetch' = [fetch EXCEPT ![r] = NotFetching] /\ UNCHANGED <<instant, cache>>
    BY <1>2 DEF FetchFailed
  <2> QED  BY <2>1, <2>2, ReaderMoves
<1>3. CASE UNCHANGED carbonVars
  BY <1>3 DEF carbonVars, CarbonInv, CarbonTypeOK, FetchesAreInTime, InTime, EntriesEnd
<1>4. ASSUME NEW r \in Readers, FetchAnswered(r) \/ StoreAnswer(r) PROVE CarbonInv'
  BY <1>4, AnswerStep, StoreStep
<1>5. CASE CarbonTick
  BY <1>5, TickStep
<1> QED  BY <1>1, <1>2, <1>3, <1>4, <1>5 DEF CarbonNext

LEMMA InvServesRecent == CarbonInv => ServedIsRecent
<1> SUFFICES ASSUME CarbonInv, NEW a \in Answers, Fresh(a)
             PROVE  cache[a].of >= HalfHourOf(instant) - 1
  BY DEF ServedIsRecent
<1>1. /\ cache[a].of \in Nat /\ cache[a].expiresAt \in Nat /\ instant \in Nat
      /\ instant < cache[a].expiresAt /\ cache[a].expiresAt <= (cache[a].of + 2) * HalfHour
  BY DEF CarbonInv, CarbonTypeOK, Entries, EntriesEnd, Fresh
<1>2. /\ cache[a].of + 2 \in Nat /\ HalfHour \in Nat
      /\ (cache[a].of + 2) * HalfHour \in Nat
  <2>1. cache[a].of + 2 \in Nat /\ HalfHour \in Nat
    BY <1>1, CarbonAssumption
  <2> QED  BY <2>1, ProductIsNat
<1>3. instant < (cache[a].of + 2) * HalfHour /\ cache[a].of + 2 \in Nat
  BY <1>1, <1>2
<1>4. HalfHourOf(instant) < cache[a].of + 2
  BY <1>1, <1>3, BeforeBoundary
<1> QED  BY <1>1, <1>4, HalfHourBounds

\* An answer that is served from the cache is about this half-hour or the one
\* before, for any number of readers, any half-hour and any shorter timeout
\* (carbonintensity.go:85-109).
THEOREM CachedAnswersAreRecent == CarbonSpec => []ServedIsRecent
BY CarbonInitInv, CarbonStep, InvServesRecent, PTL DEF CarbonSpec

----------------------------------------------------------------------------
(***************************************************************************)
(* A notice that was sent without an error has reached its subscriptions,  *)
(* for any number of endpoints, notices, attempts and any size of the      *)
(* pool.  The invariant follows every goroutine: one that is over and has  *)
(* counted no failure has delivered, or its browser is gone.               *)
(***************************************************************************)

Pcs == {"none", "attempt", "wait", "over", "redirected"}
SendingOf == [pc : Pcs, attempts : Nat]
NoticeOf == [st : {"none", "sending", "sent", "failed"}, to : SUBSET Endpoints,
             failures : Nat, cancelled : BOOLEAN]

DeliveryTypeOK ==
    /\ notice \in [Notices -> NoticeOf]
    /\ sending \in [Notices -> [Endpoints -> SendingOf]]
    /\ subscribed \subseteq Endpoints /\ goneAway \subseteq Endpoints
    /\ received \in [Endpoints -> SUBSET Notices]

Reached(n, e) == n \in received[e] \/ e \in goneAway \/ sending[n][e].pc = "redirected"

\* Who is over without a failure of its notice has reached its browser.
OverIsReached ==
    \A n \in Notices, e \in Endpoints :
        sending[n][e].pc = "over" /\ notice[n].failures = 0 => Reached(n, e)

DeliveryInv == DeliveryTypeOK /\ OverIsReached /\ SentIsReceived

----------------------------------------------------------------------------
LEMMA DeliveryInitInv == DeliveryInit => DeliveryInv
BY DEF DeliveryInit, DeliveryInv, DeliveryTypeOK, NotSending, OverIsReached, SentIsReceived,
       Pcs, SendingOf, NoticeOf

----------------------------------------------------------------------------
\* A goroutine's step replaces its own record and no other.
LEMMA SendingMoves ==
    ASSUME sending \in [Notices -> [Endpoints -> SendingOf]],
           NEW n \in Notices, NEW e \in Endpoints,
           NEW s \in SendingOf, sending' = [sending EXCEPT ![n][e] = s]
    PROVE  /\ sending' \in [Notices -> [Endpoints -> SendingOf]]
           /\ sending'[n][e] = s
           /\ \A m \in Notices, f \in Endpoints :
                  m # n \/ f # e => sending'[m][f] = sending[m][f]
OBVIOUS

LEMMA GoesMoves ==
    ASSUME sending \in [Notices -> [Endpoints -> SendingOf]],
           NEW n \in Notices, NEW e \in Endpoints, NEW pc \in Pcs, Goes(n, e, pc)
    PROVE  /\ sending' \in [Notices -> [Endpoints -> SendingOf]]
           /\ sending'[n][e].pc = pc
           /\ \A m \in Notices, f \in Endpoints :
                  m # n \/ f # e => sending'[m][f] = sending[m][f]
<1> DEFINE s == [sending[n][e] EXCEPT !.pc = pc]
<1>1. s \in SendingOf /\ s.pc = pc
  BY DEF SendingOf
<1>2. sending' = [sending EXCEPT ![n][e] = s]
  BY DEF Goes
<1> HIDE DEF s
<1> QED  BY <1>1, <1>2, SendingMoves

LEMMA NoticeMoves ==
    ASSUME notice \in [Notices -> NoticeOf], NEW n \in Notices,
           NEW r \in NoticeOf, notice' = [notice EXCEPT ![n] = r]
    PROVE  /\ notice' \in [Notices -> NoticeOf]
           /\ notice'[n] = r
           /\ \A m \in Notices : m # n => notice'[m] = notice[m]
OBVIOUS

LEMMA NoticeFails ==
    ASSUME notice \in [Notices -> NoticeOf], NEW n \in Notices,
           notice' = [notice EXCEPT ![n].failures = @ + 1]
    PROVE  /\ notice' \in [Notices -> NoticeOf]
           /\ notice'[n].failures # 0
           /\ notice'[n].st = notice[n].st /\ notice'[n].to = notice[n].to
           /\ \A m \in Notices : m # n => notice'[m] = notice[m]
<1> DEFINE r == [notice[n] EXCEPT !.failures = @ + 1]
<1>1. /\ r \in NoticeOf /\ r.failures # 0
      /\ r.st = notice[n].st /\ r.to = notice[n].to
  BY DEF NoticeOf
<1>2. notice' = [notice EXCEPT ![n] = r]
  OBVIOUS
<1> HIDE DEF r
<1> QED  BY <1>1, <1>2, NoticeMoves

\* What the sender of a notice does to it: the steps between SendNotification
\* and its verdict.
LEMMA NoticeChanges ==
    ASSUME DeliveryTypeOK, NEW n \in Notices,
           SendNotification(n) \/ CancelNotice(n) \/ Sent(n)
    PROVE  /\ notice' \in [Notices -> NoticeOf]
           /\ notice'[n].failures = notice[n].failures
           /\ Sent(n) => notice'[n].to = notice[n].to
           /\ notice'[n].st = "sent" => Sent(n)
           /\ Sent(n) /\ notice'[n].st = "sent" => notice[n].failures = 0
           /\ \A m \in Notices : m # n => notice'[m] = notice[m]
<1> DEFINE verdict == IF notice[n].failures > 0 THEN "failed" ELSE "sent"
           r == [notice[n] EXCEPT !.st = "sending", !.to = subscribed]
           c == [notice[n] EXCEPT !.cancelled = TRUE]
           v == [notice[n] EXCEPT !.st = verdict]
<1> USE DEF DeliveryTypeOK
<1>1. CASE SendNotification(n)
  <2>1. r \in NoticeOf /\ r.failures = notice[n].failures /\ r.st = "sending"
    BY DEF NoticeOf
  <2>2. notice' = [notice EXCEPT ![n] = r] /\ ~Sent(n)
    BY <1>1 DEF SendNotification, Sent
  <2> HIDE DEF r
  <2> QED  BY <2>1, <2>2, NoticeMoves
<1>2. CASE CancelNotice(n)
  <2>1. /\ c \in NoticeOf /\ c.failures = notice[n].failures /\ c.to = notice[n].to
        /\ c.st = notice[n].st
    BY DEF NoticeOf
  <2>2. notice' = [notice EXCEPT ![n] = c] /\ notice[n].st = "sending"
    BY <1>2 DEF CancelNotice
  <2> HIDE DEF c
  <2>3. notice'[n] = c
    BY <2>1, <2>2, NoticeMoves
  <2>4. ~Sent(n)
    BY <2>1, <2>2, <2>3 DEF Sent, NoticeOf
  <2> QED  BY <2>1, <2>2, <2>4, NoticeMoves
<1>3. CASE Sent(n)
  <2>1. /\ v \in NoticeOf /\ v.failures = notice[n].failures /\ v.to = notice[n].to
        /\ v.st = verdict
    BY DEF NoticeOf
  <2>2. notice' = [notice EXCEPT ![n] = v]
    BY <1>3 DEF Sent
  <2>3. notice[n].failures \in Nat
    BY DEF NoticeOf
  <2>4. verdict = "sent" => notice[n].failures = 0
    BY <2>3
  <2> HIDE DEF v, verdict
  <2> QED  BY <1>3, <2>1, <2>2, <2>4, NoticeMoves
<1> QED  BY <1>1, <1>2, <1>3

----------------------------------------------------------------------------
\* What was reached stays reached: messages are not taken back, browsers that
\* left do not return under their endpoint, and a redirected attempt is over.
LEMMA ReachedStays ==
    ASSUME DeliveryTypeOK, [DeliveryNext]_deliveryVars,
           NEW n \in Notices, NEW e \in Endpoints, Reached(n, e)
    PROVE  Reached(n, e)'
<1>1. CASE \E f \in Endpoints : Subscribe(f) \/ BrowserLeaves(f) \/ Unsubscribe(f)
  BY <1>1 DEF Subscribe, BrowserLeaves, Unsubscribe, Reached
<1>2. CASE \E m \in Notices : SendNotification(m) \/ CancelNotice(m) \/ Sent(m)
  BY <1>2 DEF SendNotification, CancelNotice, Sent, Reached
<1>3. ASSUME NEW m \in Notices, NEW f \in Endpoints,
             \/ Spawn(m, f) \/ Delivered(m, f) \/ Redirected(m, f) \/ Prune(m, f)
             \/ Rejected(m, f) \/ Transient(m, f) \/ Backoff(m, f)
      PROVE Reached(n, e)'
  <2>1. goneAway' = goneAway /\ (n \in received[e] => n \in received'[e])
    BY <1>3 DEF Spawn, Delivered, Redirected, Prune, Rejected, Transient, Backoff, DeliveryTypeOK
  <2>2. CASE sending[n][e].pc = "redirected"
    <3>1. sending[m][f].pc # "redirected"
      BY <1>3 DEF Spawn, Delivered, Redirected, Prune, Rejected, Transient, Backoff, Doing
    <3>2. \E r : sending' = [sending EXCEPT ![m][f] = r]
      BY <1>3 DEF Spawn, Delivered, Redirected, Prune, Rejected, Transient, Backoff,
                  Over, OverWithError, Goes
    <3>3. sending'[n][e] = sending[n][e]
      BY <2>2, <3>1, <3>2 DEF DeliveryTypeOK
    <3> QED  BY <2>2, <3>3 DEF Reached
  <2> QED  BY <2>1, <2>2 DEF Reached
<1>4. CASE UNCHANGED deliveryVars
  BY <1>4 DEF deliveryVars, Reached
<1> QED  BY <1>1, <1>2, <1>3, <1>4 DEF DeliveryNext

LEMMA TypeStep == DeliveryTypeOK /\ [DeliveryNext]_deliveryVars => DeliveryTypeOK'
<1> SUFFICES ASSUME DeliveryTypeOK, [DeliveryNext]_deliveryVars PROVE DeliveryTypeOK'
  OBVIOUS
<1> USE DEF DeliveryTypeOK
<1>1. ASSUME NEW e \in Endpoints, Subscribe(e) \/ BrowserLeaves(e) \/ Unsubscribe(e)
      PROVE DeliveryTypeOK'
  BY <1>1 DEF Subscribe, BrowserLeaves, Unsubscribe
<1>2. ASSUME NEW n \in Notices, SendNotification(n) \/ CancelNotice(n) \/ Sent(n)
      PROVE DeliveryTypeOK'
  BY <1>2, NoticeChanges DEF SendNotification, CancelNotice, Sent
<1>3. ASSUME NEW n \in Notices, NEW e \in Endpoints, Spawn(n, e) \/ Redirected(n, e)
      PROVE DeliveryTypeOK'
  BY <1>3, GoesMoves DEF Spawn, Redirected, Pcs
<1>4. ASSUME NEW n \in Notices, NEW e \in Endpoints,
             Delivered(n, e) \/ Prune(n, e) \/ Rejected(n, e)
      PROVE DeliveryTypeOK'
  <2>1. Goes(n, e, "over") /\ "over" \in Pcs
    BY <1>4 DEF Delivered, Prune, Rejected, Over, OverWithError, Pcs
  <2>2. notice' \in [Notices -> NoticeOf]
    BY <1>4, NoticeFails DEF Delivered, Prune, Rejected, Over, OverWithError
  <2> QED  BY <1>4, <2>1, <2>2, GoesMoves DEF Delivered, Prune, Rejected
<1>5. ASSUME NEW n \in Notices, NEW e \in Endpoints, Transient(n, e) PROVE DeliveryTypeOK'
  <2>1. /\ received' \in [Endpoints -> SUBSET Notices]
        /\ UNCHANGED <<subscribed, goneAway>>
    BY <1>5 DEF Transient
  <2>2. CASE OverWithError(n, e)
    BY <2>1, <2>2, GoesMoves, NoticeFails DEF OverWithError, Pcs
  <2>3. CASE ~OverWithError(n, e)
    <3>1. [pc |-> "wait", attempts |-> sending[n][e].attempts + 1] \in SendingOf
      BY DEF SendingOf, Pcs
    <3> QED  BY <1>5, <2>1, <2>3, <3>1, SendingMoves DEF Transient
  <2> QED  BY <2>2, <2>3
<1>6. ASSUME NEW n \in Notices, NEW e \in Endpoints, Backoff(n, e) PROVE DeliveryTypeOK'
  <2>1. \E pc \in Pcs : Goes(n, e, pc)
    BY <1>6 DEF Backoff, OverWithError, Pcs
  <2>2. notice' \in [Notices -> NoticeOf]
    BY <1>6, NoticeFails DEF Backoff, OverWithError
  <2> QED  BY <1>6, <2>1, <2>2, GoesMoves DEF Backoff
<1>7. CASE UNCHANGED deliveryVars
  BY <1>7 DEF deliveryVars
<1> QED  BY <1>1, <1>2, <1>3, <1>4, <1>5, <1>6, <1>7 DEF DeliveryNext

LEMMA OverStep ==
    DeliveryTypeOK /\ OverIsReached /\ [DeliveryNext]_deliveryVars => OverIsReached'
<1> SUFFICES ASSUME DeliveryTypeOK, OverIsReached, [DeliveryNext]_deliveryVars,
                    NEW n \in Notices, NEW e \in Endpoints,
                    sending'[n][e].pc = "over", notice'[n].failures = 0
             PROVE  Reached(n, e)'
  BY DEF OverIsReached
<1>1. CASE sending[n][e].pc = "over" /\ notice[n].failures = 0
  BY <1>1, ReachedStays DEF OverIsReached
<1>2. ASSUME NEW f \in Endpoints, Subscribe(f) \/ BrowserLeaves(f) \/ Unsubscribe(f)
      PROVE Reached(n, e)'
  BY <1>1, <1>2 DEF Subscribe, BrowserLeaves, Unsubscribe
<1>3. ASSUME NEW m \in Notices, SendNotification(m) \/ CancelNotice(m) \/ Sent(m)
      PROVE Reached(n, e)'
  <2>1. UNCHANGED sending /\ notice'[n].failures = notice[n].failures
    BY <1>3, NoticeChanges DEF SendNotification, CancelNotice, Sent
  <2> QED  BY <1>1, <2>1
<1>4. ASSUME NEW m \in Notices, NEW f \in Endpoints, Spawn(m, f) \/ Redirected(m, f)
      PROVE Reached(n, e)'
  <2>1. sending'[n][e].pc # "over" \/ sending'[n][e] = sending[n][e]
    BY <1>4, GoesMoves DEF Spawn, Redirected, Pcs, DeliveryTypeOK
  <2> QED  BY <1>1, <1>4, <2>1 DEF Spawn, Redirected
<1>5. ASSUME NEW m \in Notices, NEW f \in Endpoints, Delivered(m, f) \/ Prune(m, f)
      PROVE Reached(n, e)'
  <2>1. (m = n /\ f = e) \/ sending'[n][e] = sending[n][e]
    BY <1>5, GoesMoves DEF Delivered, Prune, Over, Pcs, DeliveryTypeOK
  <2>2. CASE m = n /\ f = e
    BY <1>5, <2>2 DEF Delivered, Prune, DeliveryTypeOK, Reached
  <2> QED  BY <1>1, <1>5, <2>1, <2>2 DEF Delivered, Prune, Over
<1>6. ASSUME NEW m \in Notices, NEW f \in Endpoints,
             Rejected(m, f) \/ Transient(m, f) \/ Backoff(m, f)
      PROVE Reached(n, e)'
  <2>1. CASE OverWithError(m, f)
    <3>1. notice'[n].failures # 0 \/ (m # n /\ notice'[n] = notice[n])
      BY <2>1, NoticeFails DEF OverWithError, DeliveryTypeOK
    <3>2. m # n => sending'[n][e] = sending[n][e]
      BY <2>1, GoesMoves DEF OverWithError, Pcs, DeliveryTypeOK
    <3> QED  BY <1>1, <3>1, <3>2
  <2>2. CASE ~OverWithError(m, f) /\ Transient(m, f)
    <3> DEFINE w == [pc |-> "wait", attempts |-> sending[m][f].attempts + 1]
    <3>1. w \in SendingOf /\ w.pc = "wait"
      BY DEF SendingOf, Pcs, DeliveryTypeOK
    <3>2. sending' = [sending EXCEPT ![m][f] = w] /\ UNCHANGED notice
      BY <2>2 DEF Transient
    <3> HIDE DEF w
    <3>3. sending'[n][e].pc # "over" \/ sending'[n][e] = sending[n][e]
      BY <3>1, <3>2, SendingMoves DEF DeliveryTypeOK
    <3> QED  BY <1>1, <3>2, <3>3
  <2>3. CASE ~OverWithError(m, f) /\ Backoff(m, f)
    <3>1. sending'[n][e].pc # "over" \/ sending'[n][e] = sending[n][e]
      BY <2>3, GoesMoves DEF Backoff, Pcs, DeliveryTypeOK
    <3> QED  BY <1>1, <2>3, <3>1 DEF Backoff
  <2> QED  BY <1>6, <2>1, <2>2, <2>3 DEF Rejected
<1>7. CASE UNCHANGED deliveryVars
  BY <1>1, <1>7 DEF deliveryVars
<1> QED  BY <1>2, <1>3, <1>4, <1>5, <1>6, <1>7 DEF DeliveryNext

\* The list of a notice that was sent was complete before it was.
LEMMA SentBy ==
    ASSUME DeliveryTypeOK, [DeliveryNext]_deliveryVars, NEW n \in Notices,
           notice'[n].st = "sent"
    PROVE  notice'[n].to = notice[n].to /\ (notice[n].st = "sent" \/ Sent(n))
<1>1. ASSUME NEW m \in Notices, SendNotification(m) \/ CancelNotice(m) \/ Sent(m)
      PROVE notice'[n].to = notice[n].to /\ (notice[n].st = "sent" \/ Sent(n))
  BY <1>1, NoticeChanges
<1>2. ASSUME NEW m \in Notices, NEW e \in Endpoints,
             \/ Spawn(m, e) \/ Delivered(m, e) \/ Redirected(m, e) \/ Prune(m, e)
             \/ Rejected(m, e) \/ Transient(m, e) \/ Backoff(m, e)
      PROVE notice'[n].to = notice[n].to /\ notice[n].st = "sent"
  <2>1. UNCHANGED notice \/ notice' = [notice EXCEPT ![m].failures = @ + 1]
    BY <1>2 DEF Spawn, Delivered, Redirected, Prune, Rejected, Transient, Backoff,
                Over, OverWithError
  <2> QED  BY <2>1, NoticeFails DEF DeliveryTypeOK
<1>3. ASSUME NEW e \in Endpoints, Subscribe(e) \/ BrowserLeaves(e) \/ Unsubscribe(e)
      PROVE UNCHANGED notice
  BY <1>3 DEF Subscribe, BrowserLeaves, Unsubscribe
<1>4. CASE UNCHANGED deliveryVars
  BY <1>4 DEF deliveryVars
<1> QED  BY <1>1, <1>2, <1>3, <1>4 DEF DeliveryNext

LEMMA SentStep ==
    DeliveryInv /\ [DeliveryNext]_deliveryVars => SentIsReceived'
<1> SUFFICES ASSUME DeliveryInv, [DeliveryNext]_deliveryVars,
                    NEW n \in Notices, notice'[n].st = "sent", NEW e \in notice'[n].to
             PROVE  Reached(n, e)'
  BY DEF SentIsReceived, Reached, Doing
<1>1. e \in Endpoints /\ e \in notice[n].to /\ (notice[n].st = "sent" \/ Sent(n))
  BY SentBy DEF DeliveryInv, DeliveryTypeOK, NoticeOf
<1>2. CASE notice[n].st = "sent"
  BY <1>1, <1>2, ReachedStays DEF DeliveryInv, SentIsReceived, Reached, Doing
<1>3. CASE Sent(n)
  <2>1. notice[n].failures = 0
    BY <1>3, NoticeChanges DEF DeliveryInv
  <2>2. Reached(n, e)
    BY <1>1, <1>3, <2>1 DEF Sent, Doing, DeliveryInv, OverIsReached, Reached
  <2> QED  BY <1>1, <2>2, ReachedStays DEF DeliveryInv
<1> QED  BY <1>1, <1>2, <1>3

\* A notice that was sent without an error has reached every subscription of
\* its list whose browser is still there and that was not redirected, for any numbers of endpoints,
\* notices and attempts and any pool (push_service.go:97-117).
THEOREM SentNoticesArrive == DeliverySpec => []SentIsReceived
<1>1. DeliveryInv /\ [DeliveryNext]_deliveryVars => DeliveryInv'
  BY TypeStep, OverStep, SentStep DEF DeliveryInv
<1>2. DeliveryInv => SentIsReceived
  BY DEF DeliveryInv
<1> QED  BY DeliveryInitInv, <1>1, <1>2, PTL DEF DeliverySpec
----------------------------------------------------------------------------
(***************************************************************************)
(* Two notices of a plug are a cooldown apart, for any debounce, cooldown  *)
(* and number of timers.  As long as no callback has deleted the entry of  *)
(* another timer, the timer that runs is the one in the map; it is younger *)
(* than a callback that is still under way, and so does not fire before    *)
(* that one is over.  Whoever is about to send a notice is then alone, and *)
(* the time it has read is the time that stands.                           *)
(***************************************************************************)

TimerPcs == {"free", "running", "fired", "mark", "cancel", "notice", "notify"}
Messages == [what : {"Online", "Offline"}, retained : BOOLEAN]

PresenceTypeOK ==
    /\ retained \in {"Online", "Offline"}
    /\ inbox \in Seq(Messages)
    /\ entry \in Timers \cup {NoTimer}
    /\ timer \in [Timers -> [pc : TimerPcs, age : 0 .. Debounce, retained : BOOLEAN]]
    /\ plugRow \in [online : BOOLEAN, initialized : BOOLEAN, notified : 0 .. Cooldown]
    /\ orphaned \in BOOLEAN

\* A callback is over within a debounce window.
CallbacksAreShort == \A t \in Timers : Callback(t) => timer[t].age < Debounce

RunningIsEntered == \A t \in Timers : timer[t].pc = "running" => entry = t
RunningIsYounger ==
    \A t, u \in Timers : Callback(t) /\ timer[u].pc = "running" => timer[u].age <= timer[t].age
OneCallback == \A t, u \in Timers : Callback(t) /\ Callback(u) => t = u
NotifierKnows == \A t \in Timers : timer[t].pc = "notify" => plugRow.notified = Cooldown

PresenceInv ==
    /\ PresenceTypeOK /\ CallbacksAreShort
    /\ ~orphaned => RunningIsEntered /\ RunningIsYounger /\ OneCallback /\ NotifierKnows

----------------------------------------------------------------------------
LEMMA PresenceInitInv == PresenceInit => PresenceInv
<1> SUFFICES ASSUME PresenceInit  PROVE PresenceInv
  OBVIOUS
<1>1. \A t \in Timers : timer[t] = Free
  BY DEF PresenceInit
<1>2. PresenceTypeOK
  <2>1. Free \in [pc : TimerPcs, age : 0 .. Debounce, retained : BOOLEAN]
    BY PresenceAssumption DEF Free, TimerPcs
  <2>2. plugRow \in [online : BOOLEAN, initialized : BOOLEAN, notified : 0 .. Cooldown]
    BY PresenceAssumption DEF PresenceInit
  <2>3. timer \in [Timers -> [pc : TimerPcs, age : 0 .. Debounce, retained : BOOLEAN]]
    BY <2>1 DEF PresenceInit
  <2>4. inbox \in Seq(Messages)
    BY DEF PresenceInit
  <2> QED  BY <2>2, <2>3, <2>4 DEF PresenceInit, PresenceTypeOK
<1>3. \A t \in Timers : ~Callback(t) /\ timer[t].pc = "free"
  BY <1>1 DEF Callback, Free
<1> QED  BY <1>2, <1>3
         DEF PresenceInv, CallbacksAreShort, RunningIsEntered, RunningIsYounger, OneCallback,
             NotifierKnows

\* Messages are messages.
LEMMA SaidIsMessage ==
    ASSUME PresenceTypeOK, NEW what \in {"Online", "Offline"}, Says(what)
    PROVE  retained' \in {"Online", "Offline"} /\ inbox' \in Seq(Messages)
<1> DEFINE m == [what |-> what, retained |-> FALSE]
<1>1. m \in Messages
  BY DEF Messages
<1> HIDE DEF m
<1>2. inbox' = Append(inbox, m)
  BY DEF Says, m
<1> QED  BY <1>1, <1>2 DEF Says, PresenceTypeOK

LEMMA HeadIsMessage ==
    ASSUME PresenceTypeOK, NEW what, Arrives(what)
    PROVE  Head(inbox) \in Messages /\ Tail(inbox) \in Seq(Messages)
BY DEF PresenceTypeOK, Arrives

LEMMA ReplayIsMessage ==
    ASSUME PresenceTypeOK
    PROVE  <<[what |-> retained, retained |-> TRUE]>> \in Seq(Messages)
<1> DEFINE m == [what |-> retained, retained |-> TRUE]
<1>1. m \in Messages
  BY DEF Messages, PresenceTypeOK
<1> HIDE DEF m
<1>2. <<m>> \in Seq(Messages)
  BY <1>1
<1> QED  BY <1>2 DEF m

Timer == [pc : TimerPcs, age : 0 .. Debounce, retained : BOOLEAN]

Rows == [online : BOOLEAN, initialized : BOOLEAN, notified : 0 .. Cooldown]

LEMMA RowChanges ==
    ASSUME NEW row \in Rows, NEW b \in BOOLEAN, NEW n \in 0 .. Cooldown
    PROVE  [row EXCEPT !.online = b] \in Rows /\ [row EXCEPT !.notified = n] \in Rows
BY DEF Rows

LEMMA FreeIsTimer == Free \in Timer
BY PresenceAssumption DEF Free, Timer, TimerPcs

LEMMA PresenceTypeStep ==
    PresenceTypeOK /\ CallbacksAreShort /\ [PresenceNext]_presenceVars => PresenceTypeOK'
<1> SUFFICES ASSUME PresenceTypeOK, CallbacksAreShort, [PresenceNext]_presenceVars
             PROVE  PresenceTypeOK'
  OBVIOUS
<1> USE DEF device, bounds
<1>0. timer \in [Timers -> Timer]
  BY DEF PresenceTypeOK, Timer
<1>1. ASSUME NEW t \in Timers, NEW pc \in TimerPcs, timer' = [timer EXCEPT ![t].pc = pc]
      PROVE  timer' \in [Timers -> Timer]
  BY <1>0, <1>1 DEF Timer
<1>2. ASSUME NEW t \in Timers, timer' = [timer EXCEPT ![t] = Free]
      PROVE  timer' \in [Timers -> Timer]
  BY <1>0, <1>2, FreeIsTimer
<1>3. CASE PlugConnects \/ PlugLost \/ SessionBegins
  BY <1>3, SaidIsMessage DEF PlugConnects, PlugLost, SessionBegins, PresenceTypeOK
<1>4. CASE PresenceTick
  <2>1. ASSUME NEW t \in Timers  PROVE timer'[t] \in Timer
    <3>1. CASE timer[t].pc = "free"
      BY <1>4, <3>1, FreeIsTimer DEF PresenceTick
    <3>2. CASE timer[t].pc # "free"
      <4>1. timer'[t] = [timer[t] EXCEPT !.age = @ + 1]
        BY <1>4, <3>2 DEF PresenceTick
      <4>2. timer[t] \in Timer /\ timer[t].age < Debounce /\ timer[t].age \in 0 .. Debounce
        BY <1>0, <1>4, <3>2 DEF PresenceTick, Callback, CallbacksAreShort, Timer
      <4>3. timer[t].age + 1 \in 0 .. Debounce
        BY <4>2, PresenceAssumption
      <4> QED  BY <4>1, <4>2, <4>3 DEF Timer
    <3> QED  BY <3>1, <3>2
  <2>2. timer' = [t \in Timers |-> timer'[t]]
    BY <1>4 DEF PresenceTick
  <2>3. timer' \in [Timers -> Timer]
    BY <2>1, <2>2
  <2>4. plugRow' \in Rows
    <3> DEFINE n == IF plugRow.notified < Cooldown THEN plugRow.notified + 1
                    ELSE plugRow.notified
    <3>1. plugRow \in Rows /\ plugRow.notified \in 0 .. Cooldown
      BY DEF PresenceTypeOK, Rows
    <3>2. n \in 0 .. Cooldown
      BY <3>1, PresenceAssumption
    <3>3. plugRow' = [plugRow EXCEPT !.notified = n]
      BY <1>4 DEF PresenceTick
    <3> HIDE DEF n
    <3> QED  BY <3>1, <3>2, <3>3, RowChanges
  <2> QED  BY <1>4, <2>3, <2>4 DEF PresenceTick, PresenceTypeOK, Timer, Rows
<1>5. CASE HandleOnline
  <2>1. timer' \in [Timers -> Timer]
    <3>1. CASE entry # NoTimer
      BY <1>0, <1>2, <1>5, <3>1 DEF HandleOnline, PresenceTypeOK
    <3>2. CASE entry = NoTimer
      BY <1>0, <1>5, <3>2 DEF HandleOnline
    <3> QED  BY <3>1, <3>2
  <2> QED  BY <1>5, <2>1, HeadIsMessage DEF HandleOnline, PresenceTypeOK, Timer
<1>6. CASE MarkOnline \/ Configure \/ HandleOfflineAgain
  BY <1>6, HeadIsMessage DEF MarkOnline, Configure, HandleOfflineAgain, PresenceTypeOK
<1>7. CASE PresenceRestart \/ Resubscribe
  <2>1. timer' \in [Timers -> Timer]
    BY <1>0, <1>7, FreeIsTimer DEF PresenceRestart, Resubscribe
  <2> QED  BY <1>7, <2>1, ReplayIsMessage DEF PresenceRestart, Resubscribe, PresenceTypeOK, Timer
<1>8. ASSUME NEW t \in Timers, HandleOffline(t)  PROVE PresenceTypeOK'
  <2> DEFINE new == [pc |-> "running", age |-> 0, retained |-> Head(inbox).retained]
  <2>1. new \in Timer
    BY <1>8, HeadIsMessage, PresenceAssumption DEF HandleOffline, Timer, TimerPcs, Messages
  <2>2. timer' = [timer EXCEPT ![t] = new]
    BY <1>8 DEF HandleOffline
  <2> HIDE DEF new
  <2>3. timer' \in [Timers -> Timer]
    BY <1>0, <2>1, <2>2
  <2> QED  BY <1>8, <2>3, HeadIsMessage DEF HandleOffline, PresenceTypeOK, Timer
<1>9. ASSUME NEW t \in Timers, Fire(t)  PROVE PresenceTypeOK'
  <2>1. timer' \in [Timers -> Timer]
    BY <1>0, <1>9, PresenceAssumption DEF Fire, Timer, TimerPcs
  <2> QED  BY <1>9, <2>1 DEF Fire, PresenceTypeOK, Timer
<1>10. ASSUME NEW t \in Timers, Confirm(t)  PROVE PresenceTypeOK'
  <2>1. timer' \in [Timers -> Timer]
    BY <1>1, <1>2, <1>10
    DEF Confirm, ConfirmDelete, ConfirmMark, ConfirmCancel, ConfirmNotice, Notify, Steps, Ends,
        TimerPcs
  <2>2. plugRow' \in [online : BOOLEAN, initialized : BOOLEAN, notified : 0 .. Cooldown]
    <3>1. plugRow \in Rows /\ 0 \in 0 .. Cooldown
      BY PresenceAssumption DEF PresenceTypeOK, Rows
    <3>2. \/ plugRow' = plugRow
          \/ plugRow' = [plugRow EXCEPT !.online = FALSE]
          \/ plugRow' = [plugRow EXCEPT !.notified = 0]
      BY <1>10
      DEF Confirm, ConfirmDelete, ConfirmMark, ConfirmCancel, ConfirmNotice, Notify
    <3>3. plugRow' \in Rows
      BY <3>1, <3>2, RowChanges
    <3> QED  BY <3>3 DEF Rows
  <2> QED  BY <1>10, <2>1, <2>2
           DEF Confirm, ConfirmDelete, ConfirmMark, ConfirmCancel, ConfirmNotice, Notify,
               PresenceTypeOK, Timer
<1>11. CASE UNCHANGED presenceVars
  BY <1>11 DEF presenceVars, PresenceTypeOK
<1> QED  BY <1>3, <1>4, <1>5, <1>6, <1>7, <1>8, <1>9, <1>10, <1>11 DEF PresenceNext

\* A step of a callback moves that callback on or ends it.
LEMMA ConfirmMoves ==
    ASSUME PresenceTypeOK, NEW t \in Timers, Confirm(t)
    PROVE  /\ Callback(t) /\ timer[t].pc # "running"
           /\ timer'[t].pc \notin {"running", "fired"}
           /\ timer'[t].pc # "free" => timer'[t].age = timer[t].age
           /\ \A u \in Timers : u # t => timer'[u] = timer[u]
<1>1. timer \in [Timers -> Timer]
  BY DEF PresenceTypeOK, Timer
<1>2. timer[t].pc \in {"fired", "mark", "cancel", "notice", "notify"}
  BY DEF Confirm, ConfirmDelete, ConfirmMark, ConfirmCancel, ConfirmNotice, Notify, Callbacks
<1>3. \/ timer' = [timer EXCEPT ![t] = Free]
      \/ \E pc \in {"mark", "cancel", "notice", "notify"} : timer' = [timer EXCEPT ![t].pc = pc]
  BY DEF Confirm, ConfirmDelete, ConfirmMark, ConfirmCancel, ConfirmNotice, Notify, Steps, Ends
<1>4. CASE timer' = [timer EXCEPT ![t] = Free]
  BY <1>1, <1>2, <1>4 DEF Callback, Free
<1>5. ASSUME NEW pc \in {"mark", "cancel", "notice", "notify"},
             timer' = [timer EXCEPT ![t].pc = pc]
      PROVE  /\ timer'[t].pc = pc /\ timer'[t].age = timer[t].age
             /\ \A u \in Timers : u # t => timer'[u] = timer[u]
  BY <1>1, <1>5 DEF Timer
<1>6. CASE \E pc \in {"mark", "cancel", "notice", "notify"} :
              timer' = [timer EXCEPT ![t].pc = pc]
  BY <1>2, <1>5, <1>6 DEF Callback
<1> QED  BY <1>3, <1>4, <1>6

\* The order of timers and callbacks, while every entry is deleted by its own.
PresenceOrder == RunningIsEntered /\ RunningIsYounger /\ OneCallback

\* Timers stopped or forgotten are no harm, and neither are callbacks that go on.
LEMMA OrderIsKept ==
    ASSUME PresenceOrder,
           \A u \in Timers : timer'[u].pc = "running" =>
              timer[u].pc = "running" /\ timer'[u].age = timer[u].age /\ entry' = entry,
           \A u \in Timers : Callback(u)' => Callback(u) /\ timer'[u].age = timer[u].age
    PROVE  PresenceOrder'
BY DEF PresenceOrder, RunningIsEntered, RunningIsYounger, OneCallback, Callback

LEMMA PresenceStep ==
    ASSUME PresenceInv, [PresenceNext]_presenceVars
    PROVE  CallbacksAreShort' /\ (~orphaned' => PresenceOrder' /\ NotifierKnows')
<1> USE DEF device, bounds
<1>0. PresenceTypeOK /\ CallbacksAreShort /\ timer \in [Timers -> Timer]
      /\ (~orphaned => PresenceOrder /\ NotifierKnows)
  BY DEF PresenceInv, PresenceTypeOK, Timer, PresenceOrder
<1>1. CASE UNCHANGED <<entry, timer, orphaned>> /\ plugRow'.notified = plugRow.notified
  <2>1. CallbacksAreShort'
    BY <1>0, <1>1 DEF CallbacksAreShort, Callback
  <2>2. PresenceOrder => PresenceOrder'
    BY <1>1 DEF PresenceOrder, RunningIsEntered, RunningIsYounger, OneCallback, Callback
  <2>3. NotifierKnows => NotifierKnows'
    BY <1>1 DEF NotifierKnows
  <2> QED  BY <1>0, <1>1, <2>1, <2>2, <2>3
<1>2. CASE PlugConnects \/ PlugLost \/ SessionBegins \/ Resubscribe \/ HandleOfflineAgain
  BY <1>1, <1>2 DEF PlugConnects, PlugLost, SessionBegins, Resubscribe, HandleOfflineAgain
<1>3. CASE MarkOnline \/ Configure
  <2>1. plugRow'.notified = plugRow.notified
    <3>1. plugRow \in Rows
      BY <1>0 DEF PresenceTypeOK, Rows
    <3> QED  BY <1>3, <3>1 DEF MarkOnline, Configure, Rows
  <2> QED  BY <1>1, <1>3, <2>1 DEF MarkOnline, Configure
<1>4. CASE UNCHANGED presenceVars
  BY <1>1, <1>4 DEF presenceVars
<1>5. CASE PresenceTick
  <2>1. \A t \in Timers :
          /\ timer'[t].pc = timer[t].pc
          /\ timer[t].pc # "free" => timer'[t].age = timer[t].age + 1
          /\ timer[t].age \in 0 .. Debounce
    <3> TAKE t \in Timers
    <3>1. timer'[t] = IF timer[t].pc = "free" THEN Free ELSE [timer[t] EXCEPT !.age = @ + 1]
      BY <1>5 DEF PresenceTick
    <3> QED  BY <1>0, <3>1 DEF Timer, Free
  <2>2. entry' = entry /\ orphaned' = orphaned
    BY <1>5 DEF PresenceTick
  <2>3. \A t \in Timers : Callback(t) => timer[t].age + 1 < Debounce
    BY <1>5 DEF PresenceTick
  <2>4. CallbacksAreShort'
    BY <2>1, <2>3 DEF CallbacksAreShort, Callback
  <2>5. RunningIsEntered /\ OneCallback => RunningIsEntered' /\ OneCallback'
    BY <2>1, <2>2 DEF RunningIsEntered, OneCallback, Callback
  <2>6. RunningIsYounger => RunningIsYounger'
    <3> SUFFICES ASSUME RunningIsYounger, NEW t \in Timers, NEW u \in Timers,
                        Callback(t)', timer'[u].pc = "running"
                 PROVE  timer'[u].age <= timer'[t].age
      BY DEF RunningIsYounger
    <3>1. Callback(t) /\ timer[u].pc = "running"
      BY <2>1 DEF Callback
    <3>2. timer[t].pc # "free" /\ timer[u].pc # "free"
      BY <3>1 DEF Callback
    <3> QED  BY <2>1, <3>1, <3>2, PresenceAssumption DEF RunningIsYounger
  <2>7. NotifierKnows => NotifierKnows'
    <3>1. plugRow.notified = Cooldown => plugRow'.notified = Cooldown
      <4>1. plugRow \in Rows
        BY <1>0 DEF PresenceTypeOK, Rows
      <4>2. ~(Cooldown < Cooldown)
        BY PresenceAssumption
      <4>3. plugRow' = [plugRow EXCEPT !.notified = IF @ < Cooldown THEN @ + 1 ELSE @]
        BY <1>5 DEF PresenceTick
      <4> QED  BY <4>1, <4>2, <4>3 DEF Rows
    <3> QED  BY <2>1, <3>1 DEF NotifierKnows
  <2> QED  BY <1>0, <2>2, <2>4, <2>5, <2>6, <2>7 DEF PresenceOrder
<1>6. CASE HandleOnline
  <2>1. \A t \in Timers : timer'[t] = timer[t] \/ timer'[t] = Free
    BY <1>0, <1>6 DEF HandleOnline, PresenceTypeOK
  <2>2. \A t \in Timers : Callback(t)' => Callback(t) /\ timer'[t] = timer[t]
    BY <2>1 DEF Callback, Free
  <2>3. CallbacksAreShort'
    BY <1>0, <2>2 DEF CallbacksAreShort
  <2>4. ASSUME PresenceOrder, NEW t \in Timers  PROVE timer'[t].pc # "running"
    <3>1. SUFFICES ASSUME timer'[t].pc = "running" PROVE FALSE
      OBVIOUS
    <3>2. timer'[t] = timer[t] /\ timer[t].pc = "running"
      BY <2>1, <3>1 DEF Free
    <3>3. entry = t /\ entry # NoTimer
      BY <2>4, <3>2, PresenceAssumption DEF PresenceOrder, RunningIsEntered, NoTimer
    <3>4. timer' = [timer EXCEPT ![t] = Free]
      BY <1>6, <3>2, <3>3 DEF HandleOnline
    <3> QED  BY <1>0, <3>1, <3>4 DEF Free
  <2>5. PresenceOrder => PresenceOrder'
    BY <2>2, <2>4, OrderIsKept
  <2>6. plugRow' = plugRow /\ orphaned' = orphaned
    BY <1>6 DEF HandleOnline
  <2>7. NotifierKnows => NotifierKnows'
    BY <2>1, <2>6 DEF NotifierKnows, Free
  <2> QED  BY <1>0, <2>3, <2>5, <2>6, <2>7
<1>7. CASE PresenceRestart
  <2>1. \A t \in Timers : timer'[t] = Free
    BY <1>7 DEF PresenceRestart
  <2>2. \A t \in Timers : timer'[t].pc = "free"
    BY <2>1 DEF Free
  <2> QED  BY <2>2 DEF CallbacksAreShort, PresenceOrder, RunningIsEntered, RunningIsYounger,
                       OneCallback, NotifierKnows, Callback
<1>8. ASSUME NEW t \in Timers, HandleOffline(t)
      PROVE  CallbacksAreShort' /\ (~orphaned' => PresenceOrder' /\ NotifierKnows')
  <2>1. /\ timer'[t].pc = "running" /\ timer'[t].age = 0
        /\ \A u \in Timers : u # t => timer'[u] = timer[u]
        /\ entry = NoTimer /\ entry' = t /\ timer[t].pc = "free"
        /\ plugRow' = plugRow /\ orphaned' = orphaned
    BY <1>0, <1>8 DEF HandleOffline
  <2>2. \A u \in Timers : Callback(u)' => u # t /\ Callback(u) /\ timer'[u] = timer[u]
    BY <2>1 DEF Callback
  <2>3. CallbacksAreShort'
    BY <1>0, <2>2 DEF CallbacksAreShort
  <2>4. ASSUME PresenceOrder  PROVE PresenceOrder'
    <3>1. \A u \in Timers : timer'[u].pc = "running" => u = t
      BY <2>1, <2>4, PresenceAssumption DEF PresenceOrder, RunningIsEntered, NoTimer
    <3>2. RunningIsEntered' /\ OneCallback'
      BY <2>1, <2>2, <2>4, <3>1 DEF PresenceOrder, RunningIsEntered, OneCallback
    <3>3. \A u \in Timers : timer[u].age \in 0 .. Debounce
      BY <1>0 DEF Timer
    <3>4. \A u \in Timers : 0 <= timer[u].age
      BY <3>3
    <3>5. RunningIsYounger'
      BY <2>1, <2>2, <3>1, <3>4 DEF RunningIsYounger
    <3> QED  BY <3>2, <3>5 DEF PresenceOrder
  <2>5. NotifierKnows => NotifierKnows'
    BY <2>1 DEF NotifierKnows
  <2> QED  BY <1>0, <2>1, <2>3, <2>4, <2>5
<1>9. ASSUME NEW t \in Timers, Fire(t)
      PROVE  CallbacksAreShort' /\ (~orphaned' => PresenceOrder' /\ NotifierKnows')
  <2>1. /\ timer[t].pc = "running" /\ timer[t].age = Debounce
        /\ timer'[t].pc = "fired" /\ timer'[t].age = 0
        /\ \A u \in Timers : u # t => timer'[u] = timer[u]
        /\ entry' = entry /\ plugRow' = plugRow /\ orphaned' = orphaned
    BY <1>0, <1>9 DEF Fire, Callbacks, Timer
  <2>2. CallbacksAreShort'
    BY <1>0, <2>1, PresenceAssumption DEF CallbacksAreShort, Callback
  <2>3. ASSUME PresenceOrder  PROVE PresenceOrder'
    <3>1. \A u \in Timers : ~Callback(u)
      <4> SUFFICES ASSUME NEW u \in Timers, Callback(u)  PROVE FALSE
        OBVIOUS
      <4>1. timer[t].age <= timer[u].age /\ timer[u].age < Debounce
        BY <1>0, <2>1, <2>3 DEF PresenceOrder, RunningIsYounger, CallbacksAreShort
      <4>2. timer[u].age \in Int /\ Debounce \in Int
        BY <1>0, PresenceAssumption DEF Timer
      <4> QED  BY <2>1, <4>1, <4>2
    <3>2. \A u \in Timers : Callback(u)' => u = t
      BY <2>1, <3>1 DEF Callback
    <3>3. \A u \in Timers : timer'[u].pc # "running"
      BY <2>1, <2>3 DEF PresenceOrder, RunningIsEntered
    <3> QED  BY <3>2, <3>3 DEF PresenceOrder, RunningIsEntered, RunningIsYounger, OneCallback
  <2>4. NotifierKnows => NotifierKnows'
    BY <2>1 DEF NotifierKnows
  <2> QED  BY <1>0, <2>1, <2>2, <2>3, <2>4
<1>10. ASSUME NEW t \in Timers, Confirm(t)
       PROVE  CallbacksAreShort' /\ (~orphaned' => PresenceOrder' /\ NotifierKnows')
  <2>1. /\ Callback(t) /\ timer[t].pc # "running" /\ timer'[t].pc # "running"
        /\ timer'[t].pc # "free" => timer'[t].age = timer[t].age
        /\ \A u \in Timers : u # t => timer'[u] = timer[u]
    BY <1>0, <1>10, ConfirmMoves
  <2>2. \A u \in Timers : Callback(u)' => Callback(u) /\ timer'[u].age = timer[u].age
    BY <2>1 DEF Callback
  <2>3. CallbacksAreShort'
    BY <1>0, <2>2 DEF CallbacksAreShort
  <2>4. \A u \in Timers : timer'[u].pc = "running" => u # t /\ timer'[u] = timer[u]
    BY <2>1
  <2>5. orphaned => orphaned'
    BY <1>10 DEF Confirm, ConfirmDelete, ConfirmMark, ConfirmCancel, ConfirmNotice, Notify
  <2>6. entry' = entry \/ (orphaned' = (orphaned \/ entry \notin {t, NoTimer}))
    BY <1>10 DEF Confirm, ConfirmDelete, ConfirmMark, ConfirmCancel, ConfirmNotice, Notify
  <2>7. ASSUME PresenceOrder, ~orphaned'  PROVE PresenceOrder'
    <3>1. ASSUME NEW u \in Timers, timer'[u].pc = "running"
          PROVE  timer[u].pc = "running" /\ timer'[u].age = timer[u].age /\ entry' = entry
      <4>1. u # t /\ timer'[u] = timer[u]
        BY <2>4, <3>1
      <4>2. entry = u /\ u # NoTimer
        BY <2>7, <3>1, <4>1, PresenceAssumption DEF PresenceOrder, RunningIsEntered, NoTimer
      <4> QED  BY <2>6, <2>7, <3>1, <4>1, <4>2
    <3> QED  BY <2>2, <2>7, <3>1, OrderIsKept
  <2>8. ASSUME PresenceOrder, NotifierKnows, ~orphaned'  PROVE NotifierKnows'
    <3> SUFFICES ASSUME NEW u \in Timers, timer'[u].pc = "notify"
                 PROVE  plugRow'.notified = Cooldown
      BY DEF NotifierKnows
    <3>1. Callback(u)
      BY <2>2 DEF Callback
    <3>2. u = t
      BY <2>1, <2>8, <3>1 DEF PresenceOrder, OneCallback
    <3>3. plugRow \in Rows /\ plugRow.notified \in 0 .. Cooldown
      BY <1>0 DEF PresenceTypeOK, Rows
    <3>4. ConfirmNotice(t)
      BY <1>0, <1>10, <3>2
      DEF Confirm, ConfirmDelete, ConfirmMark, ConfirmCancel, Notify, Steps, Ends, Free, Timer
    <3>5. ~(plugRow.notified < Cooldown)
      BY <1>0, <3>2, <3>4 DEF ConfirmNotice, Ends, Free
    <3>6. plugRow' = plugRow
      BY <3>4 DEF ConfirmNotice
    <3> QED  BY <3>3, <3>5, <3>6, PresenceAssumption
  <2> QED  BY <1>0, <2>3, <2>5, <2>7, <2>8
<1> QED  BY <1>2, <1>3, <1>4, <1>5, <1>6, <1>7, <1>8, <1>9, <1>10 DEF PresenceNext

\* Two notices of one plug are at least a cooldown apart, unless a callback has
\* deleted the entry of another timer (lwt.go:22).
THEOREM NoticesSpaced == PresenceSpec => NoticesAreSpaced
<1>1. PresenceInv /\ [PresenceNext]_presenceVars => PresenceInv'
  <2>1. PresenceInv => PresenceTypeOK /\ CallbacksAreShort
    BY DEF PresenceInv
  <2> QED  BY <2>1, PresenceStep, PresenceTypeStep DEF PresenceInv, PresenceOrder
<1>2. ASSUME PresenceInv, [PresenceNext]_presenceVars, plugRow'.notified < plugRow.notified
      PROVE  plugRow.notified = Cooldown \/ orphaned
  <2>1. plugRow \in Rows /\ plugRow.notified \in 0 .. Cooldown
    BY <1>2 DEF PresenceInv, PresenceTypeOK, Rows
  <2>2. plugRow' # plugRow
    BY <1>2, <2>1
  <2>3. CASE \E t \in Timers : Notify(t)
    BY <1>2, <2>3 DEF PresenceInv, NotifierKnows, Notify, Callbacks
  <2>4. CASE ~ \E t \in Timers : Notify(t)
    <3>1. plugRow'.notified = plugRow.notified \/ plugRow'.notified = plugRow.notified + 1
      BY <1>2, <2>1, <2>4
      DEF PresenceNext, presenceVars, PlugConnects, PlugLost, SessionBegins, PresenceTick,
          HandleOnline, MarkOnline, Configure, HandleOfflineAgain, PresenceRestart, Resubscribe,
          HandleOffline, Fire, Confirm, ConfirmDelete, ConfirmMark, ConfirmCancel, ConfirmNotice,
          Rows
    <3> QED  BY <1>2, <2>1, <3>1
  <2> QED  BY <2>3, <2>4
<1> QED  BY PresenceInitInv, <1>1, <1>2, PTL DEF PresenceSpec, NoticesAreSpaced

=============================================================================
