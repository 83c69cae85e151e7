------------------------------ MODULE PlugClaim ------------------------------
(***************************************************************************)
(* What the session services promise their callers, whatever goroutines,   *)
(* messages and crashes are behind it: a session claims one plug, once; as *)
(* long as it is in progress no other session claims that plug; when its   *)
(* claim is given up it is never renewed.                                  *)
(***************************************************************************)
CONSTANTS Sessions, Plugs, NoPlug

VARIABLES claim,    \* claim[s]: the plug session s holds, if any
          spent     \* the sessions that have given up their claim

claimVars == <<claim, spent>>

Claimed == {s \in Sessions : claim[s] # NoPlug}

ClaimInit == claim = [s \in Sessions |-> NoPlug] /\ spent = {}

Claim(s, p) ==
    /\ s \notin Claimed \cup spent
    /\ \A t \in Claimed : claim[t] # p
    /\ claim' = [claim EXCEPT ![s] = p]
    /\ UNCHANGED spent

GiveUp(s) ==
    /\ s \in Claimed
    /\ claim' = [claim EXCEPT ![s] = NoPlug]
    /\ spent' = spent \cup {s}

ClaimNext == \E s \in Sessions : GiveUp(s) \/ \E p \in Plugs : Claim(s, p)

ClaimSpec == ClaimInit /\ [][ClaimNext]_claimVars

=============================================================================
