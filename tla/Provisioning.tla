----------------------------- MODULE Provisioning -----------------------------
(***************************************************************************)
(* mqtt_provisioning_service.go and dynsec.go: a plug's row, its client in *)
(* the broker's dynamic security plugin and the password its device has    *)
(* been given, for requests that overlap, fail half-way or lose their      *)
(* caller.  One plug: its namespace is random and never used again.  The   *)
(* relay of a maintenance plug is switched in Maintenance.                 *)
(***************************************************************************)
EXTENDS Integers

CONSTANTS
    Admins,         \* requests about the plug under way
    MaxPasswords    \* bound: configurations

ASSUME ProvisioningAssumption == MaxPasswords \in Nat

VARIABLES
    listed,         \* whether the plug has its row
    client,         \* the password of its client in the broker
    onDevice,       \* the password on the device
    admin,          \* what each request is about to do
    dynsec,         \* whether this process has a client of the broker
    passwords,      \* bound, and the last password generated
    overlapped,     \* history: two requests were under way at once
    publishFailed,  \* history: a command to the broker failed
    deletedOffline  \* history: a process without the broker deleted the row
histories == <<overlapped, publishFailed, deletedOffline>>
provisioningVars == <<listed, client, onDevice, admin, dynsec, passwords, histories>>

NoPassword == 0
NoAdmin == [pc |-> "none"]

ProvisioningInit ==
    /\ listed = FALSE
    /\ client = NoPassword /\ onDevice = NoPassword
    /\ admin = [q \in Admins |-> NoAdmin]
    /\ dynsec \in BOOLEAN
    /\ passwords = 0
    /\ overlapped = FALSE /\ publishFailed = FALSE /\ deletedOffline = FALSE

Asks(q, pc) == admin[q].pc = pc
Proceed(q, o) == admin' = [admin EXCEPT ![q] = o]
Finish(q) == Proceed(q, NoAdmin)
NoteOverlap(q) ==
    overlapped' = (overlapped \/ \E r \in Admins \ {q} : ~Asks(r, "none"))

\* startMQTTClient: without MQTT_BROKER_URL, or when the client cannot be made,
\* the process runs without MQTT (server.go:262).  The requests of the process
\* before it are gone.
StartApi ==
    /\ dynsec' \in BOOLEAN
    /\ admin' = [q \in Admins |-> NoAdmin]
    /\ UNCHANGED <<listed, client, onDevice, passwords, histories>>

CreatePlug ==
    /\ ~listed /\ passwords = 0
    /\ listed' = TRUE
    /\ UNCHANGED <<client, onDevice, admin, dynsec, passwords, histories>>

\* ConfigureTasmotaDevice: the row is read, a new password generated.
ConfigureTasmotaDevice(q, push) ==
    /\ Asks(q, "none") /\ listed
    /\ passwords < MaxPasswords /\ passwords' = passwords + 1
    /\ Proceed(q, [pc |-> "provision", pw |-> passwords', push |-> push])
    /\ NoteOverlap(q)
    /\ UNCHANGED <<listed, client, onDevice, dynsec, publishFailed, deletedOffline>>

\* createClient on a client that exists is an error nobody sees: the password
\* stays as it was (dynsec.go:69).
Created(pw) == IF client = NoPassword THEN pw ELSE client

\* The commands are pushed to the device, or handed to the user, whether or
\* not the broker was told of the password.
Provision(q) ==
    /\ Asks(q, "provision")
    /\ client' = IF dynsec THEN Created(admin[q].pw) ELSE client
    /\ IF admin[q].push THEN Proceed(q, [admin[q] EXCEPT !.pc = "push"]) ELSE Finish(q)
    /\ UNCHANGED <<listed, onDevice, dynsec, passwords, histories>>

\* The acknowledgement may be all that was lost.  The row is deleted.
ProvisionFails(q) ==
    /\ Asks(q, "provision") /\ dynsec
    /\ client' \in {client, Created(admin[q].pw)}
    /\ listed' = FALSE
    /\ publishFailed' = TRUE
    /\ Finish(q)
    /\ UNCHANGED <<onDevice, dynsec, passwords, overlapped, deletedOffline>>

\* tasmotaCmd, from MQTTHost to FullTopic.
Push(q) ==
    /\ Asks(q, "push")
    /\ onDevice' = admin[q].pw
    /\ Proceed(q, [admin[q] EXCEPT !.pc = "restart"])
    /\ UNCHANGED <<listed, client, dynsec, passwords, histories>>

\* The rest, up to Restart.
PushRestart(q) ==
    /\ Asks(q, "restart")
    /\ Finish(q)
    /\ UNCHANGED <<listed, client, onDevice, dynsec, passwords, histories>>

\* A device that does not answer takes its plug with it.
PushFails(q) ==
    /\ Asks(q, "push") \/ Asks(q, "restart")
    /\ IF listed THEN Proceed(q, [pc |-> "remove"]) ELSE Finish(q)
    /\ UNCHANGED <<listed, client, onDevice, dynsec, passwords, histories>>

\* DeletePlug: the row is read, the client removed, then the row.
DeletePlug(q) ==
    /\ Asks(q, "none") /\ listed
    /\ Proceed(q, [pc |-> "remove"])
    /\ NoteOverlap(q)
    /\ UNCHANGED <<listed, client, onDevice, dynsec, passwords, publishFailed, deletedOffline>>

\* Mutant: the row goes first.
RemoveRowFirst(q) ==
    /\ Asks(q, "remove")
    /\ listed' = FALSE
    /\ Proceed(q, [pc |-> "drop"])
    /\ UNCHANGED <<client, onDevice, dynsec, passwords, histories>>

\* Without MQTT the client stays (mqtt_provisioning_service.go:180).
RemovePlug(q) ==
    /\ Asks(q, "remove")
    /\ client' = IF dynsec THEN NoPassword ELSE client
    /\ Proceed(q, [pc |-> "drop"])
    /\ UNCHANGED <<listed, onDevice, dynsec, passwords, histories>>

RemoveFails(q) ==
    /\ Asks(q, "remove") /\ dynsec
    /\ client' \in {client, NoPassword}
    /\ publishFailed' = TRUE
    /\ Finish(q)
    /\ UNCHANGED <<listed, onDevice, dynsec, passwords, overlapped, deletedOffline>>

DeleteRow(q) ==
    /\ Asks(q, "drop")
    /\ listed' = FALSE
    /\ deletedOffline' = (deletedOffline \/ ~dynsec)
    /\ Finish(q)
    /\ UNCHANGED <<client, onDevice, dynsec, passwords, overlapped, publishFailed>>

\* The caller hangs up: every further statement and publish of the request
\* fails, those that would clean up included.
HangUpAdmin(q) ==
    /\ ~Asks(q, "none")
    /\ Finish(q)
    /\ UNCHANGED <<listed, client, onDevice, dynsec, passwords, histories>>

ProvisioningNext ==
    \/ CreatePlug \/ StartApi
    \/ \E q \in Admins :
        \/ Provision(q) \/ ProvisionFails(q) \/ Push(q) \/ PushRestart(q) \/ PushFails(q)
        \/ DeletePlug(q) \/ RemovePlug(q) \/ RemoveFails(q) \/ DeleteRow(q) \/ HangUpAdmin(q)
        \/ \E push \in BOOLEAN : ConfigureTasmotaDevice(q, push)

ProvisioningSpec == ProvisioningInit /\ [][ProvisioningNext]_provisioningVars

----------------------------------------------------------------------------
\* No client is left in the broker when its plug is gone, whichever requests
\* fail half-way, lose their caller or end with their process: what comes of two
\* at once, of a broker that does not acknowledge, or of a process that runs
\* without MQTT when the plug is deleted, is the exception.
CredentialsHaveAPlug ==
    client # NoPassword => listed \/ overlapped \/ publishFailed \/ deletedOffline

\* Provisioning is "safe to call even if the client/role already exists"
\* (dynsec.go:69): the device of a configuration that went through has the
\* password the broker expects, when MQTT is configured.
ConfiguredDeviceConnects ==
    [][\A q \in Admins :
          PushRestart(q) /\ dynsec /\ client # NoPassword /\ ~overlapped
              => onDevice = client]_provisioningVars
=============================================================================
