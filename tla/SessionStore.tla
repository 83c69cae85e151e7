---------------------------- MODULE SessionStore ----------------------------
(***************************************************************************)
(* The charge_sessions table as repository/charge_session.go writes it.    *)
(* SQLite is opened with one connection, so every statement is atomic: an  *)
(* operator below is one UPDATE, INSERT or DELETE.  Some statements carry  *)
(* a status guard in their WHERE clause, others match on the id alone; the *)
(* difference is what the properties of ChargeSession.tla are about.       *)
(*                                                                         *)
(* Only the columns that decide control are kept: the status, the plug and *)
(* the vehicle, whether the target is 100 % ("full", which ends through    *)
(* conditioning) and whether hold_percent is set ("hold", a two-stage      *)
(* session still charging towards its hold point).                         *)
(***************************************************************************)
EXTENDS ChargeDomain

VARIABLE rows           \* rows[s]: the row of session s

(* models.ActiveSessionStatuses: the statuses that count as in progress. *)
InProgress == {"pending", "active", "conditioning", "holding"}

Ended == {"completed", "cancelled"}

(* "unborn" is an id not yet handed out, "deleted" one whose row is gone. *)
Statuses == {"unborn", "deleted"} \cup InProgress \cup Ended

Row == [status: Statuses, plug: Plugs \cup {NoPlug},
        vehicle: Vehicles \cup {NoVehicle}, full: BOOLEAN, hold: BOOLEAN]

NoRow == [status |-> "unborn", plug |-> NoPlug, vehicle |-> NoVehicle,
          full |-> FALSE, hold |-> FALSE]

StoreTypeOK == rows \in [Sessions -> Row]

StoreInit == rows = [s \in Sessions |-> NoRow]

----------------------------------------------------------------------------
(* Reads. *)

Status(s) == rows[s].status
Unborn == {s \in Sessions : Status(s) = "unborn"}
Exists(s) == Status(s) \in InProgress \cup Ended
ListActive == {s \in Sessions : Status(s) \in InProgress}

(* Mutant: GetPendingByPlug in its place. *)
PendingOn(p) == {s \in Sessions : rows[s].plug = p /\ Status(s) = "pending"}

InProgressOn(p) == {s \in ListActive : rows[s].plug = p}

----------------------------------------------------------------------------
(* Statements that match on the id alone.  An UPDATE of a row that was     *)
(* deleted meanwhile changes nothing and reports no error.                 *)

SetStatus(s, status) ==
    rows' = IF Exists(s) THEN [rows EXCEPT ![s].status = status] ELSE rows

Create(s, p, v, full, hold) ==
    rows' = [rows EXCEPT ![s] = [status |-> "pending", plug |-> p, vehicle |-> v,
                                 full |-> full, hold |-> hold]]

UpdateStatus(s, status) == SetStatus(s, status)
UpdateEndWithStats(s) == SetStatus(s, "completed")
UpdateCancelData(s) == SetStatus(s, "cancelled")

(* Mutant: a soft delete, with a status the schema does not know. *)
SoftDelete(s) == SetStatus(s, "archived")

Delete(s) == SetStatus(s, "deleted")

----------------------------------------------------------------------------
(* Statements guarded by "AND status = ?"; no row matches otherwise.       *)

ActivatePending(s) ==
    rows' = IF Status(s) = "pending" THEN [rows EXCEPT ![s].status = "active"] ELSE rows

CancelPending(s) ==
    rows' = IF Status(s) = "pending" THEN [rows EXCEPT ![s].status = "cancelled"] ELSE rows

ResumeHolding(s) ==
    rows' = IF Status(s) = "holding"
            THEN [rows EXCEPT ![s].status = "active", ![s].hold = FALSE]
            ELSE rows

UpdateTarget(s, full) ==
    rows' = IF Status(s) = "active" THEN [rows EXCEPT ![s].full = full] ELSE rows

=============================================================================
