-------------------------------- MODULE Breaker --------------------------------
(***************************************************************************)
(* circuitbreaker.go and its one user, TasmotaClient.doGet: the gate, the  *)
(* requests it has admitted and their late answers.  Time is kept as ages: *)
(* of the failure that is remembered, and of every request under way.      *)
(***************************************************************************)
EXTENDS Integers, FiniteSets

CONSTANTS
    Callers,            \* goroutines that use the client
    FailureThreshold,   \* defaultFailureThreshold
    ResetTimeout,       \* defaultResetTimeout
    HttpTimeout,        \* TasmotaHttpTimeout
    MaxFailures         \* bound: requests that fail

ASSUME BreakerAssumption ==
    /\ FailureThreshold \in Nat \ {0}
    /\ ResetTimeout \in Nat
    /\ HttpTimeout \in Nat
    /\ HttpTimeout < ResetTimeout
    /\ MaxFailures \in Nat

VARIABLES
    circuit,        \* CircuitBreaker.state
    failures,
    sinceFailure,   \* age of lastFailureTime, not counted beyond ResetTimeout
    request,        \* the age of each caller's request, NotSent without one
    failed          \* bound
breakerVars == <<circuit, failures, sinceFailure, request, failed>>

NotSent == -1
InFlight == {c \in Callers : request[c] # NotSent}

BreakerInit ==
    /\ circuit = "closed"
    /\ failures = 0
    /\ sinceFailure = ResetTimeout  \* IsZero: not asked before the first failure
    /\ request = [c \in Callers |-> NotSent]
    /\ failed = 0

\* timeoutElapsedLocked.
Elapsed == sinceFailure = ResetTimeout

\* A request is given up after HttpTimeout.
BreakerTick ==
    /\ \A c \in InFlight : request[c] < HttpTimeout
    /\ sinceFailure' = IF Elapsed THEN sinceFailure ELSE sinceFailure + 1
    /\ request' = [c \in Callers |-> IF c \in InFlight THEN request[c] + 1 ELSE NotSent]
    /\ UNCHANGED <<circuit, failures, failed>>

Admit(c) == request' = [request EXCEPT ![c] = 0]

\* Mutant: the probe does not re-arm the clock.
CallWithoutRearm(c) ==
    /\ request[c] = NotSent
    /\ circuit # "closed" => Elapsed
    /\ Admit(c)
    /\ circuit' = IF circuit = "open" THEN "half-open" ELSE circuit
    /\ UNCHANGED <<failures, failed, sinceFailure>>

\* ShouldBlock, where it lets the request through; a blocked call returns an
\* error and changes nothing.
Call(c) ==
    /\ request[c] = NotSent
    /\ Admit(c)
    /\ \/ circuit = "closed" /\ UNCHANGED <<circuit, sinceFailure>>
       \/ /\ circuit \in {"open", "half-open"} /\ Elapsed
          /\ circuit' = "half-open"
          /\ sinceFailure' = 0
    /\ UNCHANGED <<failures, failed>>

\* Mutant: the counter is reset, the circuit left as it is.
SuccessKeepsState(c) ==
    /\ c \in InFlight
    /\ request' = [request EXCEPT ![c] = NotSent]
    /\ failures' = 0
    /\ UNCHANGED <<circuit, sinceFailure, failed>>

\* Success, whenever the request was sent.
Success(c) ==
    /\ c \in InFlight
    /\ request' = [request EXCEPT ![c] = NotSent]
    /\ circuit' = "closed"
    /\ failures' = 0
    /\ UNCHANGED <<sinceFailure, failed>>

\* Failure: no answer in time, a status of 400 or more, a caller that hangs up.
Failure(c) ==
    /\ c \in InFlight
    /\ failed < MaxFailures /\ failed' = failed + 1
    /\ request' = [request EXCEPT ![c] = NotSent]
    /\ \/ /\ circuit = "half-open"
          /\ circuit' = "open" /\ sinceFailure' = 0
          /\ UNCHANGED failures
       \/ /\ circuit # "half-open"
          /\ failures' = failures + 1
          /\ IF failures' >= FailureThreshold
             THEN circuit' = "open" /\ sinceFailure' = 0
             ELSE UNCHANGED <<circuit, sinceFailure>>

BreakerNext ==
    BreakerTick \/ \E c \in Callers : Call(c) \/ Success(c) \/ Failure(c)

BreakerSpec == BreakerInit /\ [][BreakerNext]_breakerVars

----------------------------------------------------------------------------
\* While the circuit is half-open its probe is the only request under way: no
\* other caller was let through, and the answers of requests sent before it
\* opened have all come or timed out, so that nothing but the probe decides
\* (circuitbreaker.go:60-62).
ProbeIsAlone == circuit = "half-open" => \E c \in Callers : InFlight = {c}

\* When requests fail no longer, the circuit does not stay open: callers that
\* keep asking are let through again.
CircuitRecovers == []<>(circuit = "closed")
=============================================================================
