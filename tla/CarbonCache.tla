----------------------------- MODULE CarbonCache -----------------------------
(***************************************************************************)
(* carbonintensity.go: the two cached answers of the grid's carbon service *)
(* and the goroutines that fetch them.  Nothing keeps two of them from     *)
(* fetching at once, and an entry is stamped when it is stored, not when   *)
(* it was asked for.  An answer is the half-hour it is about; a forecast   *)
(* begins with it.                                                         *)
(***************************************************************************)
EXTENDS Integers

CONSTANTS
    Readers,        \* goroutines that use the client
    HalfHour,       \* in instants
    CarbonTimeout,  \* CarbonIntensityHttpTimeout
    LastInstant     \* bound: the clock

ASSUME CarbonAssumption ==
    /\ HalfHour \in Nat \ {0} /\ CarbonTimeout \in Nat /\ LastInstant \in Nat
    /\ CarbonTimeout < HalfHour

VARIABLES
    instant,
    cache,          \* cached and forecastCached
    fetch           \* what each reader has under way
carbonVars == <<instant, cache, fetch>>

Answers == {"current", "forecast"}
HalfHourOf(t) == t \div HalfHour
NotFetching == [pc |-> "none"]

CarbonInit ==
    /\ instant = 0
    /\ cache = [a \in Answers |-> [of |-> 0, expiresAt |-> 0]]  \* nil
    /\ fetch = [r \in Readers |-> NotFetching]

Fresh(a) == instant < cache[a].expiresAt

CarbonTick ==
    /\ instant < LastInstant
    /\ \A r \in Readers : fetch[r].pc # "none" => fetch[r].age < CarbonTimeout
    /\ instant' = instant + 1
    /\ fetch' = [r \in Readers |->
                    IF fetch[r].pc = "none" THEN NotFetching
                    ELSE [fetch[r] EXCEPT !.age = @ + 1]]
    /\ UNCHANGED cache

\* With a fresh entry there is nothing to do.
Fetch(r, a) ==
    /\ fetch[r].pc = "none" /\ ~Fresh(a)
    /\ fetch' = [fetch EXCEPT ![r] = [pc |-> "asked", answer |-> a, age |-> 0]]
    /\ UNCHANGED <<instant, cache>>

GetCurrent(r)  == Fetch(r, "current")
GetForecast(r) == Fetch(r, "forecast")

\* The service answers with the half-hour it is in.
FetchAnswered(r) ==
    /\ fetch[r].pc = "asked"
    /\ fetch' = [fetch EXCEPT ![r] = [pc |-> "answered", answer |-> @.answer,
                                      age |-> @.age, of |-> HalfHourOf(instant)]]
    /\ UNCHANGED <<instant, cache>>

\* An error, a status, an empty or unreadable body: the entry stays as it was.
FetchFailed(r) ==
    /\ fetch[r].pc # "none"
    /\ fetch' = [fetch EXCEPT ![r] = NotFetching]
    /\ UNCHANGED <<instant, cache>>

\* Mutant: an entry is good for half an hour.
NextHalfHourRolling(t) == t + HalfHour

\* nextHalfHourUTC.
NextHalfHour(t) == (HalfHourOf(t) + 1) * HalfHour

\* Whoever stores last wins, with whatever it was told.
StoreAnswer(r) ==
    /\ fetch[r].pc = "answered"
    /\ cache' = [cache EXCEPT ![fetch[r].answer] =
                    [of |-> fetch[r].of, expiresAt |-> NextHalfHour(instant)]]
    /\ fetch' = [fetch EXCEPT ![r] = NotFetching]
    /\ UNCHANGED instant

CarbonNext ==
    \/ CarbonTick
    \/ \E r \in Readers :
        GetCurrent(r) \/ GetForecast(r) \/ FetchAnswered(r) \/ FetchFailed(r) \/ StoreAnswer(r)

CarbonSpec == CarbonInit /\ [][CarbonNext]_carbonVars

----------------------------------------------------------------------------
\* An answer that is served is about this half-hour or the one before, however
\* slow the fetch was and whichever fetch stored last (carbonintensity.go:83):
\* a fetch that crosses the boundary stamps the old answer with the new
\* half-hour, but no answer survives two boundaries.
ServedIsRecent ==
    \A a \in Answers : Fresh(a) => cache[a].of >= HalfHourOf(instant) - 1
=============================================================================
