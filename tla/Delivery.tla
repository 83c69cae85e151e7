------------------------------- MODULE Delivery -------------------------------
(***************************************************************************)
(* push_service.go, below the notices of charge_notifier.go: one goroutine *)
(* per subscription behind a bounded pool, attempts, the push service's    *)
(* answers, rows pruned, and a context that may be cancelled at any time,  *)
(* while browsers subscribe and unsubscribe.  A row is its endpoint.       *)
(***************************************************************************)
EXTENDS Integers, FiniteSets

CONSTANTS
    Endpoints,
    Notices,        \* notices sent, each once
    PoolSize,       \* pushFanOutConcurrency
    MaxAttempts     \* pushSendMaxAttempts

ASSUME DeliveryAssumption ==
    /\ IsFiniteSet(Endpoints)
    /\ PoolSize \in Nat \ {0} /\ MaxAttempts \in Nat \ {0}

VARIABLES
    subscribed,     \* push_subscriptions
    goneAway,       \* endpoints the push service knows no longer
    notice,         \* each notice: its state, its list, failures, its context
    sending,        \* its goroutines: attempts made, and what they wait for
    received        \* the notices every browser got
deliveryVars == <<subscribed, goneAway, notice, sending, received>>

NotSending == [pc |-> "none", attempts |-> 0]

DeliveryInit ==
    /\ subscribed = {} /\ goneAway = {}
    /\ notice = [n \in Notices |->
                    [st |-> "none", to |-> {}, failures |-> 0, cancelled |-> FALSE]]
    /\ sending = [n \in Notices |-> [e \in Endpoints |-> NotSending]]
    /\ received = [e \in Endpoints |-> {}]

Subscribe(e) ==
    /\ e \notin subscribed \cup goneAway
    /\ subscribed' = subscribed \cup {e}
    /\ UNCHANGED <<goneAway, notice, sending, received>>

\* In the browser; the API is told afterwards, or never.
BrowserLeaves(e) ==
    /\ e \notin goneAway
    /\ goneAway' = goneAway \cup {e}
    /\ UNCHANGED <<subscribed, notice, sending, received>>

Unsubscribe(e) ==
    /\ e \in subscribed
    /\ subscribed' = subscribed \ {e}
    /\ UNCHANGED <<goneAway, notice, sending, received>>

\* GetAll; without a subscription there is nothing to send.
SendNotification(n) ==
    /\ notice[n].st = "none"
    /\ notice' = [notice EXCEPT ![n].st = "sending", ![n].to = subscribed]
    /\ UNCHANGED <<subscribed, goneAway, sending, received>>

Doing(n, e, pc) == sending[n][e].pc = pc
Goes(n, e, pc) == sending' = [sending EXCEPT ![n][e].pc = pc]

\* sem <- struct{}{}.
Spawn(n, e) ==
    /\ notice[n].st = "sending" /\ e \in notice[n].to /\ Doing(n, e, "none")
    /\ Cardinality({f \in notice[n].to : sending[n][f].pc \in {"attempt", "wait"}}) < PoolSize
    /\ Goes(n, e, "attempt")
    /\ UNCHANGED <<subscribed, goneAway, notice, received>>

Over(n, e) ==
    /\ Goes(n, e, "over")
    /\ UNCHANGED notice
OverWithError(n, e) ==
    /\ Goes(n, e, "over")
    /\ notice' = [notice EXCEPT ![n].failures = @ + 1]

\* 2xx.
Delivered(n, e) ==
    /\ Doing(n, e, "attempt") /\ e \notin goneAway /\ ~notice[n].cancelled
    /\ received' = [received EXCEPT ![e] = @ \cup {n}]
    /\ Over(n, e)
    /\ UNCHANGED <<subscribed, goneAway>>

\* The client follows redirects, with a GET for most, and whatever is below
\* 400 in the end is taken as delivered; the push service took no message.
Redirected(n, e) ==
    /\ Doing(n, e, "attempt") /\ ~notice[n].cancelled
    /\ Goes(n, e, "redirected")
    /\ UNCHANGED <<subscribed, goneAway, notice, received>>

\* 404 or 410: the row is removed, which fails if the context was cancelled
\* meanwhile; no error either way.
Prune(n, e) ==
    /\ Doing(n, e, "attempt") /\ e \in goneAway
    /\ subscribed' = IF notice[n].cancelled THEN subscribed ELSE subscribed \ {e}
    /\ Over(n, e)
    /\ UNCHANGED <<goneAway, received>>

\* 4xx, or a cancelled context.
Rejected(n, e) ==
    /\ Doing(n, e, "attempt")
    /\ OverWithError(n, e)
    /\ UNCHANGED <<subscribed, goneAway, received>>

\* Mutant: the last attempt ends the loop without an error.
TransientlyForgotten(n, e) ==
    /\ Doing(n, e, "attempt") /\ ~notice[n].cancelled
    /\ received' \in {received, [received EXCEPT ![e] = @ \cup {n}]}
    /\ sending' = [sending EXCEPT ![n][e] =
                      [pc |-> IF @.attempts + 1 < MaxAttempts THEN "wait" ELSE "over",
                       attempts |-> @.attempts + 1]]
    /\ UNCHANGED <<subscribed, goneAway, notice>>

\* A transport error, 429 or 5xx, whether or not the push service took the
\* message: another attempt, up to MaxAttempts.
Transient(n, e) ==
    /\ Doing(n, e, "attempt") /\ ~notice[n].cancelled
    /\ received' \in {received, [received EXCEPT ![e] = @ \cup {n}]}
    /\ LET made == sending[n][e].attempts + 1
       IN  IF made < MaxAttempts
           THEN /\ sending' = [sending EXCEPT ![n][e] = [pc |-> "wait", attempts |-> made]]
                /\ UNCHANGED notice
           ELSE OverWithError(n, e)
    /\ UNCHANGED <<subscribed, goneAway>>

Backoff(n, e) ==
    /\ Doing(n, e, "wait")
    /\ IF notice[n].cancelled THEN OverWithError(n, e)
       ELSE Goes(n, e, "attempt") /\ UNCHANGED notice
    /\ UNCHANGED <<subscribed, goneAway, received>>

\* chargeNotificationTimeout, or the server's context.
CancelNotice(n) ==
    /\ notice[n].st = "sending" /\ ~notice[n].cancelled
    /\ notice' = [notice EXCEPT ![n].cancelled = TRUE]
    /\ UNCHANGED <<subscribed, goneAway, sending, received>>

\* wg.Wait, and the verdict.
Sent(n) ==
    /\ notice[n].st = "sending"
    /\ \A e \in notice[n].to : Doing(n, e, "over") \/ Doing(n, e, "redirected")
    /\ notice' = [notice EXCEPT ![n].st = IF notice[n].failures > 0 THEN "failed" ELSE "sent"]
    /\ UNCHANGED <<subscribed, goneAway, sending, received>>

DeliveryNext ==
    \/ \E e \in Endpoints : Subscribe(e) \/ BrowserLeaves(e) \/ Unsubscribe(e)
    \/ \E n \in Notices :
        \/ SendNotification(n) \/ CancelNotice(n) \/ Sent(n)
        \/ \E e \in Endpoints :
            \/ Spawn(n, e) \/ Delivered(n, e) \/ Redirected(n, e) \/ Prune(n, e)
            \/ Rejected(n, e) \/ Transient(n, e) \/ Backoff(n, e)

DeliverySpec == DeliveryInit /\ [][DeliveryNext]_deliveryVars

----------------------------------------------------------------------------
\* A notice that was sent without an error has reached every subscription of
\* its list whose browser is still there and that the push service did not
\* redirect, whatever was retried, cancelled or pruned; and one subscription's
\* trouble is never another's: a failure is counted for each goroutine that has
\* one, however they interleave (push_service.go:97-117).
SentIsReceived ==
    \A n \in Notices : notice[n].st = "sent" =>
        \A e \in notice[n].to :
            n \in received[e] \/ e \in goneAway \/ Doing(n, e, "redirected")
=============================================================================
