# Verification of ev-charge-controller

TLA+ models, model-checking runs and machine-checked proofs for the Go API of
the charge controller (`src/api`). The API decides when the relay of a smart
plug is on; its database says which charge session that energy belongs to, what
the vehicle got and what it cost. Requests, ticker workers, timers, the inbound
MQTT loop and push goroutines act on the same rows and plugs; most of them read,
wait, and then write. What can go wrong between those steps is the subject here,
together with the arithmetic of clocks and energies that the steps rest on.

## 1. Inventory

| Component | State | Operations | Talks to | What makes it correct |
|---|---|---|---|---|
| Session lifecycle (`session_lifecycle_service.go`, `charge_session_service.go`, `session_lock.go`) | `sessionLock`, `charge_sessions` | start, two-stage start, stop, cancel, retarget, delete, manual toggle, activate / time out pending | store, relay control; called by handlers, workers, MQTT goroutines | one session per plug, an ended session stays ended, power never on without a session, every start is resolved, books that add up |
| Session monitoring (`session_monitoring_service.go`, `auto_stop_checker`, `energy_poller`) | listings of the table | hold, condition, stop, resume, save readings | store, relay control | decisions taken on a listing are still right when written; a charge ends at its target, a hold in time |
| Session store (`repository/charge_session.go`) | `charge_sessions`, `power_readings` | inserts, guarded and unguarded updates, delete | SQLite, one connection | a guard protects what a check outside the statement cannot |
| Relay control (`mqtt/dispatcher.go`, `publisher.go`, `controller.go`) | power cache, confirmers, commands under way | publish, publish and wait, dispatch | broker, plug | a confirmation belongs to its command; only external edges are external |
| LWT manager, plug initialiser (`mqtt/lwt.go`, `plug_initializer.go`) | debounce timers, `plugs` | Online, Offline, confirm offline, reconcile, configure | lifecycle, relay control, notifier | silence is noticed, a flap is not, notices are spaced |
| Schedules (`schedule_service.go`, `schedule_activator`, `schedule_handler.go`) | last activation, start failures | activation, two-stage plans, announcements, shortfall notice | lifecycle, forecast | a deadline is tried in time, across midnight; what is announced is what happens |
| Charge estimate (`chargeestimate`) | none | estimate, projection | schedules, lifecycle | over-stated, and its inverse agrees |
| Energy, SOC (`energy_calculator.go`, `soc_generator.go`) | none | blended energy, percents | lifecycle, monitoring | within what the meter gave |
| SOC worker, workers' frame, server (`soc_worker.go`, `workers/`, `server.go`) | queue of 20, wait group, contexts | tick, panic, restart, shut down | all workers | no send on a closed channel, a graceful exit |
| Cost and tariffs (`cost_calculator.go`, `tariff_service.go`) | readings, windows | freeze a bill, replace windows | store | all energy drawn is billed, at its rate |
| Circuit breaker, Tasmota client (`tasmota/`) | state, failures | gate, success, failure | HTTP (not constructed by the server at this commit) | the probe is alone, the circuit recovers |
| Carbon intensity client (`carbonintensity.go`) | two cached answers | fetch, slice | external service | no stale answer is served as fresh |
| Notifications and push (`charge_notifier.go`, `push_service.go`) | subscriptions | fan out, retry, prune | push services | what is reported sent has arrived |
| Vehicles, lifetime statistics | `vehicles` | percents, increments | lifecycle | a session counts once |
| Provisioning of plugs (`mqtt_provisioning_service.go`, `dynsec.go`, `plug_handler.go`) | `plugs`, broker clients, device | create, configure, delete, toggle a maintenance plug | broker, device | no credentials without a plug; the shown power is the real one |
| Authentication (`auth_service.go`, refresh tokens) | users, tokens | register, sign in, refresh, sign out | tables, cookies | one token per sign-in |
| Charts and history, seed data, commands, web interface, mock plug, broker files | - | - | - | outside the control of charging |

`PROJECT.json` lists what is hard to test in each of them, at its line, with
the properties that cover it.

## 2. Modules

    Charging                          Figures and time
    --------                          ----------------
    ChargeDomain                      Energy -- Ledger -- MCLedger
     |- SessionStore                               '- Ledger_proofs
     '- PlugRelay                     ScheduleTimes    ChargeEstimate
         '- ChargeSession              |- Schedules -- MCSchedules
             |- PlugClaim (refined)    |    '- Schedules_proofs
             |- MCChargeSession        '- SchedulePlans (with ChargeEstimate) -- MCFigures
             '- ChargeSession_proofs        '- Figures_proofs (with Bill)
                 '- ChargeClaims_proofs
                     '- ChargeRelay_proofs

    Around charging
    ---------------
    Breaker  Workers  CarbonCache  Delivery  Presence -- Edges_proofs
    Tokens  Provisioning                              -- Access_proofs
    Maintenance  Bill (proofs: Figures_proofs)
    MCEdges: all of these, with MCFigures

### Charging

* **ChargeDomain**: the identities: sessions, plugs, vehicles, goroutines.
* **SessionStore**: the table, one operator per SQL statement. An UPDATE with
  `AND status = ...` changes nothing when its guard fails; one that matches the
  id alone changes any row that still exists. An id never used is "unborn".
* **PlugRelay**: the relay of each plug, the commands on their way, and the
  dispatcher: power cache, one confirmer per plug, the signal each waiting
  goroutine received, the edges handed to manual-toggle goroutines and the
  Online messages still to be handled. `link` is the API's own connection to the
  broker: while it is down a publish fails, which its callers at most log, and
  reports are lost.
* **ChargeSession**: every goroutine with a program counter. One action is one
  statement, one publish or one report; a write done under a briefly held lock
  is one action enabled when the lock is free. `startSession` alone keeps the
  lock from its check to the end of the power round-trip, and the poller from
  the cancellation of a pending row to its power-off, so the lock is a variable.
  Goroutines: `Clients` (HTTP requests), `Background` (schedule activator, manual
  toggles, offline timers, the poller's cancellations of disconnected sessions),
  `Checker`, `Poller` (on pending sessions), `Inbound`.
* **PlugClaim**: what the services promise: a session claims one free plug,
  once, and never renews the claim. `ChargeSession!Claims` maps the table to it.

| In the code | In the model |
|---|---|
| `startSession`: lock, check | `StartCheck` (the validation before it reads nothing that is kept) |
| insert, `RegisterPowerConfirm`, publish | `StartCreate`: one step, the lock is held and nobody else can tell them apart |
| a start whose power-on is not confirmed | `StartTimeout` cancels the row, `StartCut` sends the best-effort OFF, `StartOffDone` ends its wait; a crash may come between any two |
| `CancelPendingIfTimedOut` | `PollTimeout` cancels a row, `PollCut` sends OFF, with the lock kept in between. Where the code goes on to a further row under the same lock, the model lets others in |
| the `select` of `SetPowerAndWait` | confirmed, timed out, or `WaitOn` (opposite state reported, registers again) |
| `dispatchSTAT_POWER` | part of `ApplyCommand` / `PressButton`: the plug's change and its report are one step, which needs the inbound loop to be idle. The relay may change later than in reality but never in another order; a change whose report is lost is `LoseCommand` |
| auto-stop checker | `CheckerList` takes the listing of one check; then its rows in any order, each decided on as it was listed |
| percent, energy, taper, idle streak, 60 s, debounce | nondeterministic choices of the step that asks; their values are the matter of Ledger, Schedules and Presence |
| cancelled request context | `HangUp`: every further statement and publish of the handler fails, deferred unlocks and removals run |
| loss of the broker | `Disconnect`; `Connect` subscribes again and gets the retained Online messages |
| restart of the process | `Crash`: all but the table and the plugs is lost; the subscription replays the retained Online messages |

### Figures of a session

* **Energy**: `energy_calculator.go` and the end percents, on whole units: a
  unit at the wall gives `Efficiency` units at the battery, and a percent is the
  energy it stands for, because every path converts by the same factor.
* **Ledger**: the columns that hold energies and percents, the vehicle's percent
  and lifetime sums, the dispatcher's energy cache and the SOC worker's queue.
  Each statement of a stop, a cancel, a delete, a sensor message, a poll and a
  check is a step; each goroutine carries the row or reading it took earlier: a
  stop that has read a pending row cancels it whatever it has become
  (`CancelPending`), and a cancellation reads the vehicle (`CancelCompare`) before
  it writes the percent and the target back (`CancelAdvance`). A
  start takes its percents from the caller, and the vehicle begins with totals of
  earlier sessions (`Prior`). `tangled` and `kept` are history variables: the
  first records that two goroutines were at one session's books at once, or that
  the process died in between; the second holds the sessions whose recorded ends
  the vehicle's charge has to be no less than, until a user edits it or two ends
  settle at the same time.
* **Bill**: the readings the poller stores, the restart of a meter, the tariff
  read in two statements, and the split of the energy over its windows.

### Time

* **ScheduleTimes**: windows and deadlines given as HH:MM (`resolveWindow`,
  `resolveDeadline`, `alignToHalfHour`), the candidates on the half-hour grid as
  a set, `findOptimalStart`, `findBalancedStart`, averages over a forecast as sums
  of functions.
* **Schedules**: the activator's tick over a snapshot of rows, with its 60 s
  throttle, the back-off after a failed start, the deadline guard, the search in
  the forecast and a start that may wait for the plug; the checker's resumption
  of holding sessions; users, who change schedules, start, stop and ride; a
  restart. A clock moves in polls. `history` records when plugs were tried,
  started and interfered with, for the properties.
* **ChargeEstimate**, **SchedulePlans**: the estimate and its inverse (the
  bisection, as a recursive function of the interval that is left), and all that
  the endpoints announce from them: start times, stages of two-stage
  charges, the warning that a target cannot be reached, the resume time, the
  percent of a shortfall notice.

### Around charging

Each of these modules keeps one plug, one account or one channel; **MCEdges**
puts them side by side: a behaviour picks one of them (`which`) and the others
stand still, so that their states add up instead of multiplying.

* **Breaker**: gate, answers and failures by age, with requests admitted before
  the circuit opened still under way.
* **Tokens**: the rows of `refresh_tokens`, the cookie of the browser, requests
  that read, revoke and issue in separate statements. A sign-in is named by its
  first token.
* **Presence**: Online and Offline messages, live and retained, the map of
  timers, timers that have fired but not run, the cooldown column, the first
  configuration, a restart, a lost subscription. The session is one bit here;
  what cancelling and reconciling do step by step is in ChargeSession.
* **Provisioning**: row, broker client and device password, changed one after
  the other by requests that fail or lose their caller between any two. A process
  without MQTT (`dynsec` is nil) leaves the broker alone: it configures devices
  with passwords the broker does not learn, and deletes plugs whose client stays.
* **Maintenance**: the power switch of a maintenance plug: command, relay,
  stat/POWER and tele/STATE reports, and the column both the handler and the
  inbound loop write.
* **Delivery**: the goroutines of a notice over its subscriptions. An answer
  below 400 that is no 2xx counts as delivered in the code (push_service.go:191):
  `Redirected` ends without an error and without a delivery, and `SentIsReceived`
  makes no claim about it.
* **CarbonCache**, **Workers**: see the inventory.

## 3. Runs

| Run | Instance | Shows |
|---|---|---|
| `drops` | 2 sessions, 1 lost connection | `OneSessionPerPlug`, `PendingIsOwned`, `ClaimInv`, `RestingRelayIsTracked`; refinement `ClaimsRespected` |
| `staged` | 2 sessions, two-stage, 100 % or less | `TypeOK`; `BornOnFreePlug`: even when stale writes revive sessions, none is inserted on an occupied plug |
| `toggles` | 1 two-stage session, 1 press, hang-ups | `HoldsOnce` |
| `recovers` | fair, 1 session, no client, 1 crash, 2 lost connections of the plug, 1 of the API | `RestingRelayIsTracked` across a restart and through commands that fail, `UntrackedRelayIsCut` |
| `returns` | fair, 1 two-stage session, 1 crash, hang-ups | `PendingIsResolved`, `OperationsReturn` |
| `schedules` | 2 plugs, a day of six minutes, 1 action of a user or restart | `DeadlineIsTried`, `HoldIsResumedInTime`, `UnforcedStartsAreSpaced`, `FailuresArePaced` |
| `ledger` | fair, 1 session, 1 user, 1 crash or cancelled session | `BlendedIsMetered`, `LifetimeIsExact`, `ChargeIsKept`, `TargetEndsCharge` |
| `edges` | fair, the machines of MCEdges | one or two properties of each, below |
| `resurrected` | 100 % target | violates `EndedIsFinal` |
| `resumed` | two-stage | violates `RestingRelayIsTracked` |
| `reconfigured` | Provisioning | violates `ConfiguredDeviceConnects` |
| `exits` | Workers | violates `ExitIsGraceful` |

`edges` checks: `ProbeIsAlone`, `CircuitRecovers` (Breaker); `OneTokenPerLogin`
(Tokens); `SilenceIsNoticed`, `NoticesAreSpaced` (Presence);
`CredentialsHaveAPlug` (Provisioning); `ShownPowerSettles` (Maintenance);
`ServedIsRecent` (CarbonCache); `BillCoversEnergy` (Bill); `SentIsReceived`
(Delivery); `NobodySendsOnClosed` (Workers); `StagesFitTheWindow`,
`DailyPlanAgreesWithWarning`, `EstimateIsConservative`,
`ProjectionIsTheBestReachable`, `BalancedIsPareto`,
`AnnouncedStartMeetsDeadline`, `AnnouncedStartNeverComesSooner` (SchedulePlans).

Every property of a passing run has a mutant in `PROJECT.json`: a definition
(marked "Mutant" in its comment) that a plausible slip in the code would
produce, under which TLC finds that property violated.

### Bounds

* ChargeSession: one plug, one vehicle, at most one client, one background
  goroutine, the checker, the poller and the inbound loop; two sessions where
  sessions meet, one where only the relay and one session do. Two commands may
  be under way to a plug; a third takes the place of the second, so the relay
  still ends as last commanded. Presses, lost connections and crashes are
  bounded to one each, which already gives the orders of that event and
  everything else; `recovers` loses the plug twice, before and after the API's
  own connection. It has no client, as its liveness check would not end in time
  with one: what begins a session or ends it there is the background goroutine
  and the checker. With a client, lost connections are the matter of `drops`,
  and all of it together of the theorem `RestingRelaysAreTracked`. With no id
  left a start is turned away.
* Schedules: a day of 24 units, a minute of 4, a half-hour of 8, polls and waits
  of 2: throttle, back-off and waits overlap each other and both ends of a
  window as they do in a day of 1440 minutes. The clock runs from 19 to 35, over
  midnight and through the next morning. Two plugs are needed for a tick to wait
  behind another start. How late a tick can be (`Slack`) counts two rounds of
  waits for every other plug, since two ticks in a row can each wait for all of
  them; with two plugs one round is one wait. The second stage of 8 and its
  least length of 6 leave just the room that `RoomToResume` asks for. The
  requests include a window past midnight, one that is empty, and a daily start
  whose ready-by time is on the next day. A clock that has reached its bound is
  no deadlock (`CHECK_DEADLOCK FALSE`, also in the other runs with a clock or a
  bounded number of faults, where the system simply has nothing left to do).
* Ledger: a battery of two units, a meter that counts to two, so that the meter
  can jump past the target, stop short of it or be at zero when the session
  begins; one session, a user and all the other writers.
* MCEdges: the smallest numbers at which each race exists: three callers (an old
  request, a probe, one turned away), three tokens (a sign-in, its rotation, a
  rotation of that), three timers (fired, running, new), two of every kind of
  request, a queue of two. SchedulePlans has eight vehicles (a full data sheet,
  sheets with gaps, rated power only, none), seven plans, four forecasts and
  every minute of a day of 240 minutes and the next.

### Disagreements between the code and its documents

`PROJECT.json` quotes both sides of those with a run under "findings":

* `resurrected`: the checker lists an active session; the user stops it; the
  checker, with the lock but on the listed row, writes `conditioning`. The
  session is in progress again, its plug is off, its statistics are counted.
* `resumed`: the checker powers a holding session's plug on; meanwhile the
  session is deleted or stopped. The guarded write finds nothing; the relay is
  on with no session and nobody looks again. (`DeleteSession`, by its comment
  for "a completed or cancelled session", also deletes a holding one.)
* `reconfigured`: configuring a plug again generates a new password; the broker
  refuses to create the client again and keeps the old one, and the refusal is
  not seen; the device gets the new one.
* `exits`: `ListenAndServe` returns when the shutdown begins, `main` returns
  with it, and requests, workers and the SOC queue are not waited for.

The following definitions are stated beside the others and are violated as well;
no run is spent on them. Each can be seen by giving the named configuration
this property alone, with the constants shown:

| Definition | Configuration | Says, and what happens |
|---|---|---|
| `OneSessionPerVehicle` | `resumed`, `Stages = {FALSE}`, two sessions, two plugs | docs/ARCHITECTURE.md:48-49 and 88-89, docs/TESTING.md:147: one active session per vehicle. Only the plug is checked when a session starts |
| `LockNeverStallsReports` | `resumed`, `Stages = {FALSE}` | dispatcher.go:247-249: blocking would stall the inbound loop. A start holds the lock while it waits for a report; a SENSOR message makes the loop wait for the lock; the report waits behind it until the start gives up (`OperationsReturn` shows that it does) |
| `EdgesArePresses` | the same with `Background = {b1}` | charge_session_service.go:473: app-initiated changes never reach the manual handler. Four places switch off without a confirmer, and a timed-out wait removes its own; the late report is taken for a button |
| `RestingHoldIsDark` | `resumed`, `Background = {b1}`, `MaxPresses = 1` | charge_session_service.go:506-507: a holding session's relay is off. A press right after the hold's confirmed power-off is handled while the session is still active, and ignored; then the session is marked holding |
| `RestingRelayIsTracked` | `recovers`, `Clients = {c1}` and `HangUps = TRUE`, or `MaxPresses = 1` | a client that goes away between the write that ends a session and the power-off, whose context is the request's (session_lifecycle_service.go:327); a press inside a confirmation window is consumed as the confirmation. The passing runs of this property therefore have neither, and no two-stage sessions |
| `RetainedIsSkipped` | `edges` | docs/ARCHITECTURE.md:185: retained LWT messages are skipped. They are debounced like live ones and do end a session; `SilenceIsNoticed` needs them |
| `CleanestSlotIsTaken` | `schedules`, `Requests <- MCCarbonRequests`, `Forecasts <- MCRising` | schedule_service.go:499-503: "Optimal start is the current bucket - start now". The searches skip candidates before now (1042-1044, 1086-1089), so the bucket under way is never among them and a rising forecast is followed to its worse end |
| `BlendedNeverFalls` | `ledger` | session_lifecycle_service.go:441-442: blended energy is monotonic. The checker computes a value from its listing and an older reading and writes it after the SOC worker has written a newer one; the stored value falls until the next reading |

Smaller observations made while modelling, for a reader of the code: a failed
re-provisioning publish deletes the row of a plug that existed; a plug deleted by
a process without MQTT leaves its client in the broker, although `DeletePlug`
"removes a plug ... and its dynsec client/role"
(mqtt_provisioning_service.go:170, 180); a push service that redirects is taken
to have accepted the notice; a cancellation writes back the vehicle's target it
has read before, over one the user has just set; `confirmOffline`
deletes the map entry of its plug without asking whose it is (lwt.go:169), so a
timer it did not own can no longer be stopped and may cancel a session after an
Online, or send a notice within the cooldown (`orphaned` in Presence);
`BuildConsoleCommands` sets `PowerRetain 1` where `ensureCommands` sets 0; a
caller that hangs up counts as a failure of the breaker; an idle stop with no
metered energy records 100 %; a stop that waits for its power-off overwrites a percent
the user entered meanwhile.

## 4. Fairness

* ChargeSession: a goroutine under way is scheduled, and gets the mutex in the
  end when it waits for it (`sync.Mutex` hands itself to a waiter it has starved
  for 1 ms, hence strong fairness); the poller's timeout check is repeated (a
  ticker, restarted after a panic); the inbound loop gets to every plug's
  messages; a plug that is away comes back, and so does the API's connection,
  which is tried again every 5 s (`connectRetryDelay`). Weak fairness is enough for
  the poller's power-off, which nothing disables. Nothing is assumed of users,
  crashes, outages, what the checker finds, or that a report comes before the
  deadline.
* Ledger: sensor messages keep coming and are handled, the checker's ticks
  repeat, a stop that has begun goes on. `TargetEndsCharge` concerns plugs that
  report, as the code can only act on reports.
* MCEdges: callers go on asking and every request is answered or times out
  (the client has a timeout); timers fire and their callbacks run, the inbound
  loop goes on; a device reports telemetry at its interval and obeys. Failures
  are bounded in number: that is the premise "when requests fail no longer".

Time itself is not fair in Schedules: its properties are about what has happened
by an instant, and so are safety properties. There a tick is never delayed
beyond what the starts before it in the same tick cost, each of them at most
`Wait`: the time it waits for the session lock, the confirmation timeout of 10 s
and, when that fails, the best-effort timeout of 5 s.

## 5. Proofs

TLAPS checks these for every value of the constants that their assumptions
admit: sets of sessions, plugs, goroutines and tokens, data sheets, forecasts,
lengths of days, pools and timeouts, and every bound on the environment.

### Charging

| Theorem | Says | Argument |
|---|---|---|
| `TypeCorrect` | `Spec => []TypeOK`, in every mode | one lemma per statement and publish, one per group of actions, `TypeStep` over all disjuncts of `Next` |
| `ClaimsInvariant`, `PlugsAreExclusive`, `ImplementsClaims` | under `Plain` (no session two-stage, none aiming at 100 %), with crashes, lost connections of plug and API, presses and hang-ups | the insert comes after the check, so `OneSessionPerPlug` is not inductive: `ClaimInv` adds that a start holds the lock from its check to its end and the poller up to its power-off (`LockHeld`), that the plug it checked is still free at the insert (`StillFree`) and that the unguarded writes which could revive a session are never reached. Each step of `Next` is a `Claim`, a `GiveUp` or a stutter of `PlugClaim` |
| `EndedStayEnded` | `EndedIsFinal` under `Plain`; without it the run `resurrected` violates it | from `ClaimInv`: the one write that could bring an ended row back is never reached |
| `BirthsAreOnFreePlugs` | `BornOnFreePlug`, in every mode | `BirthInv`: `LockHeld` and `StillFree` survive even writes on stale listings, because every write that puts a session in progress needs the lock, and a start keeps it |
| `SessionsHoldOnce` | `HoldsOnce`, in every mode | `HoldInv`: a row the checker has yet to decide on had its hold point when listed, each row is taken from a listing once; only a resume takes the point away, and it applies to holding rows only, which nobody but the checker makes |
| `PendingRowsAreOwned` | `PendingIsOwned` in every mode, while no client hangs up (`NoHangUp`) and nothing crashes (`NoCrash`) | `PendingInv`: with `LockHeld`, no step makes a row pending but the insert of a start, and no step takes a start from its wait but those that also resolve its row |
| `RestingRelaysAreTracked` | `RestingRelayIsTracked` under `Plain`, `NoHangUp` and `NoPress`, with lost connections of plug and API, failed and lost commands and crashes at any step | `RelayInv`: a plug that is on, or has a last command that will turn it on, is accounted for: by a row in progress, a goroutine about to switch it off, a message the loop has yet to handle, its being away, or the API's being away |

### Figures and time

| Theorem | Says | Argument |
|---|---|---|
| `LedgerTypesHold`, `BlendedHolds` | `LedgerTypeOK`, `BlendedIsMetered` | `LedgerInv`: whatever a goroutine or the queue carries was read from a row with the start and the baseline that row still has, unless it has gone; what is computed from it is then between the start and the meter's gain |
| `LifetimeHolds` | `LifetimeIsExact` | `SumsInv`: between two statements of an end or a deletion the sums differ from the rows by the session in hand; without `tangled` nobody else has begun on that one |
| `ChargeHolds` | `ChargeIsKept` | `KeptInv`: while one end settles, `kept` is its session, or, for a cancellation, what the charge has already reached and its session |
| `SchedulesTypesHold`, `UnforcedSpacingHolds`, `PacingHolds` | `SchedulesTypeOK`, `UnforcedStartsAreSpaced`, `FailuresArePaced` | `SchedInv`: `lastActivation` is no earlier than any start on record and no later than the tick's; what a tick decides from its snapshot still holds while it waits, since nobody else moves these times. A restart forgets them all, and the properties except it |
| `DeadlinesAreTried` | `DeadlineIsTried` | `DueInv`: a schedule that waits past its latest start is ahead of a tick that comes in time, or behind one that came before that start or in the back-off (`OnTime`). A tick has used up no more than a wait for each plug it is done with, and a plug it has not tried is not among them (`TickTime`, `Recorded`), so the next one comes in time. The window's end that the property names is the one the code finds (`WindowFound`, `EndIsAhead`) |
| `HoldsAreResumed` | `HoldIsResumedInTime`, under `RoomToResume` | `ResumeInv`: the deadline, resolved anew on every poll, stays the same until it has passed (`HoldsOK`, `DeadlineStays`); for a hold that is due and not yet tried, the waits left in the checker's round and a whole further round end before `Gap` is over (`HoldAhead`, `CheckTime`) |
| `EstimatesHold` | `EstimateIsConservative` | the phases of an estimate, each rounded and with a tenth on top, as integer inequalities |
| `AnnouncedStartsHold`, `StagesHold`, `DailyPlansHold` | `AnnouncedStartMeetsDeadline`, `StagesFitTheWindow`, `DailyPlanAgreesWithWarning` | a search returns a member of its set of candidates, all of which leave room; dates of windows are multiples of a day next to `now` |
| `AnnouncedStartsAreStable` | `AnnouncedStartNeverComesSooner` | a window stays the first whose end is to come until that end (`WindowStays`); half-hours that pass weigh nothing in starts that are still tried (`SlicesWeigh`), so the search loses candidates and keeps the scores (`LaterSearchIsLater`) |
| `BillsCoverEnergy` | `BillCoversEnergy` | `BillInv`: for the polls at any rate, what the readings bill and what was drawn up to the last reading differ by at most a short interval for each change of the rate and a long one for each restart of the meter (`NearNext`, a reading more); without a new reading little is drawn, as it is stored once the last is stale (`Quiet`). The windows' polls are compared with the calculator's minutes through remainders (`WithinFromStart`) |
| `BalanceHolds` | `BalancedIsPareto` | a start that were better in one and no worse in the other would have scored better |
| `ProjectionsHold` | `ProjectionIsTheBestReachable` | the bisection keeps a percent that fits below one that does not; the estimate grows with the percent |

### Around charging

| Theorem | Says | Argument |
|---|---|---|
| `ProbeIsTheOnlyRequest` | `ProbeIsAlone` | requests die before `ResetTimeout`: while the circuit is open, requests under way are older than the failure that opened it |
| `ClosedQueueIsSafe` | `NobodySendsOnClosed` | the wait group holds every worker that has not returned; the channel is closed after the wait and after the disconnect |
| `SentNoticesArrive` | `SentIsReceived` | a goroutine that is over while its notice has no failure has delivered or met a subscription whose browser is gone (`OverIsReached`), and a notice is sent when all of its goroutines are over without one |
| `CachedAnswersAreRecent` | `ServedIsRecent` | answers are dated: a fetch of age `a` asked about a half-hour that was under way `a` instants ago, with `a` below the timeout, below a half-hour; so an entry expires at most two half-hours after the one it is about |
| `NoticesSpaced` | `NoticesAreSpaced` | `PresenceInv`: while the map is not `orphaned`, its entry is the only timer that can still run, and a callback under way read a cooldown that nobody else can have renewed since |
| `RotationKeepsOneToken` | `OneTokenPerLogin` | whatever mentions a sign-in was issued after it; a valid token of a sign-in and a request about to issue one exclude each other except for the sign-ins in `shared` |
| `NoClientWithoutPlug` | `CredentialsHaveAPlug` | while one request at a time is under way, each of its steps knows whether the row is still there, and a deletion by a process with MQTT has removed the client before it removes the row |

Without `Plain` the claim theorems, `EndedStayEnded` and
`RestingRelaysAreTracked` are false: those are `resurrected` and `resumed`. The
strengthened invariants stand at the head of their part of a proof module, one
conjunct per idea, and each step lemma has a case per action.

### Sums, searches and the bisection

The prover has no induction over an arbitrary predicate. What these theorems
need of it is had in two other ways. A statement about every finite set is
proved of a least counterexample: inclusion is well-founded on finite sets
(`FiniteMinimal`), and a least set without the property is emptied of one
element. A statement about every number is proved of the set of the numbers for
which it holds (`Counting`). That a recursive function exists at all, a fold
(`FoldExists`) or the bisection (`SearchExists`), is proved the same way, and
from that what its equation says (`SumIterates`, `SumAnyOrder`, `SumSkipsZeros`),
and how a sum splits and grows (`TotalSplits`, `TotalAdds`, `TotalFits`).

### Assumptions

`DomainAssumption` (goroutines are distinct, null values are not members),
`ModeAssumption`, `InFlightAssumption`; `EnergyAssumption`, `LedgerAssumption`
(users enter percents of the battery, the vehicle's record starts in the range
of its columns); `TimesAssumption` (minutes and half-hours divide the day),
`SchedulesAssumption` (finitely many plugs), `PlansAssumption` (times of day are within a day, a
carbon-aware schedule has both ends of its window, which its handler requires;
a forecast is a finite function);
`BillAssumption` (windows are times of day, which `validateTariff` requires;
what a poll finds drawn is never negative); `BreakerAssumption` and `CarbonAssumption`
(the HTTP timeouts are shorter than the reset timeout, 10 s and 30 s, and than a
half-hour); `PresenceAssumption`, `DeliveryAssumption`, `TokensAssumption`,
`ProvisioningAssumption`, `WorkersAssumption`. TLC evaluates all of them in the
runs. `Plain`, `NoHangUp`, `NoCrash` and `NoPress` are hypotheses of theorems:
each excludes a behaviour that the runs of section 3 show to break the property.
`RoomToResume` is the hypothesis of `HoldsAreResumed`: two rounds of waits for
the other plugs take no longer than the shortest second stage. How long one wait
can be depends on the lock: a start that fails takes 10 + 5 s, and as much again
when one other start has the lock before it. With such waits of 30 s, polls of 5 s
and `MinTwoStageStageDurationMin` of 15 min it says 30 + 60 (N - 1) <= 900 seconds,
up to 15 plugs; where no start has to wait for the lock, 15 + 30 (N - 1) <= 900, up
to 30. In the run it is 6 <= 6.

### Model-checked only

The liveness properties, as fairness and ENABLED are beyond the prover:
`UntrackedRelayIsCut`, `PendingIsResolved`, `OperationsReturn`,
`TargetEndsCharge`, `CircuitRecovers`, `SilenceIsNoticed`, `ShownPowerSettles`.
Every invariant and every action property of a passing run is stated by a theorem.

## 6. Not modelled, or modelled with less detail

* ChargeSession: user ownership checks; the legacy start without a plug id
  (global check, fallback to the first plug); maintenance plugs, which none of
  its actions touches; database errors other than those of a cancelled context;
  the PUBACK wait of a publish; a subscription that fails when the connection is
  back (client.go:72), which leaves the API connected and deaf. A start does not
  check that the vehicle is assigned to the plug, and neither does the model.
* Schedules: calendars with a change of clocks (the code adds 24 hours); polls
  that fall exactly on a half-hour. A hold that begins less than `Gap` before its
  ready-by time can roll over to the next day, and a daily minute can be missed
  behind starts that wait: neither is claimed to hold. `DeadlineIsTried` is
  about carbon-aware schedules, which have a deadline guard; the daily path has
  no back-off and none is claimed.
* Figures: exact numbers where the code has floats. `TargetReachable` measures
  the whole window even when now is inside it, like the code. An estimate from a
  data sheet that lacks the middle phase may be too short:
  `EstimateIsConservative` does not speak of those.
* Ledger: a meter that restarts at zero during a session is in Bill only; here
  the reported gain would be negative, which `CalcBlendedKwh` takes for none.
  What makes lifetime sums inexact is excluded by `tangled` and named
  there: two ends of one session, an end that overlaps its deletion (the floor
  at 0 then loses a part), a crash between the write and the increment. A session
  cancelled as pending records no end, so `ChargeIsKept` makes no claim about what
  it may have charged before it was cancelled. Off-peak
  energy from readings that are not clipped to the session, totals stored out of
  order by two savers and readings that differ only in energy are left to Bill's
  single poller. SOC snapshots are only stored and not kept.
* SchedulePlans: `StagesFitTheWindow` is about two-stage carbon-aware schedules,
  the only ones whose stages the handler shows (schedule_handler.go:35).
* Presence: `SetOnline(false)` of a callback that overtakes a later
  `SetOnline(true)` is there; failures of its database writes are not. An Online
  that arrives before `SetInitializer` and `SetPowerController` have been called
  at start-up skips configuration and reconciliation.
* Workers: SOC snapshots that are dropped at shutdown (the context is cancelled
  before the channel is closed, and nothing drains it) are not counted.
  `Disconnect` is taken to wait for the handler under way, as the library says.
* Delivery: notices go to every subscription of the table; texts are left out.
* Provisioning: `CredentialsHaveAPlug` excepts requests that overlap, commands the
  broker does not acknowledge and plugs deleted without MQTT, and
  `ConfiguredDeviceConnects` speaks of processes with MQTT. Renaming and the plug
  cache, an index of slugs that is rebuilt
  from the table; `UpdatePlug` writes back what it read, a plain lost update of
  presentation. Publishing `Power ON` to a maintenance plug right after
  `Restart 1` is sent, not waited for.
* Authentication: password hashing and the signed access token.
* Charts and history, statistics pages, seed data and commands, the web
  interface, the mock plug, the broker's files: they read, present or test what
  the rest keeps, and nothing reads them back into the control of charging.

## 7. What is left

1. A composition of Presence with ChargeSession: the debounce timers against the
   cancellation under the lock, step by step.
2. Ledger with two sessions of one vehicle, once `OneSessionPerVehicle` holds.
