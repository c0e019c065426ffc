------------------------------ MODULE Notifier ------------------------------
(***************************************************************************)
(* Desktop notifications for pending requests: the events that the notifier *)
(* listens to, the processes that show a notification, the claims by which  *)
(* a companion application silences them, and the user setting that turns   *)
(* them off.                                                                *)
(***************************************************************************)
EXTENDS Integers, Sequences, FiniteSets

CONSTANTS
  Requests,     \* pending requests
  Companions,   \* websocket connections of companion applications
  EventCap,     \* capacity of the notifier's channel
  MaxNotes,     \* bound: notifications sent
  MaxUpdates    \* bound: changes of the setting

ASSUME NotifierAssumption ==
  /\ EventCap \in Nat \ {0} /\ MaxNotes \in Nat /\ MaxUpdates \in Nat
  /\ IsFiniteSet(Companions)

VARIABLES
  backend,      \* whether a notification program was found
  enabled,      \* Notifier.enabled
  stored,       \* NotificationsEnabled of the user, "unset" if there is none
  updates,      \* counter
  unsaved,      \* history: an update that could not be saved
  claims,       \* the claim counter
  claimant,     \* each websocket connection
  stuck,        \* history: a connection was released before its claim was counted
  requests,     \* each pending request
  inbox,        \* the notifier's channel
  recent,       \* lastNotified within the cooldown
  notes,        \* the notification processes, in order
  active        \* activeNotif: request to process, 0 for none

settingVars == <<backend, enabled, stored, updates, unsaved>>
claimVars == <<claims, claimant, stuck>>
noteVars == <<requests, inbox, recent, notes, active>>
notifierVars == <<settingVars, claimVars, noteVars>>
------------------------------------------------------------------------------
(* The setting.                                                            *)

\* resolve, with a default of TRUE.
Resolved == IF stored = "unset" THEN TRUE ELSE stored = "on"

\* Mutant: only a change of what the user stored counts as one.
NotifChangedByUser(v) == stored # "unset" /\ stored # v

NotifChanged(v) == Resolved # (v = "on")

\* SetEnabled.
Switched(v) == IF v = "on" /\ ~backend THEN enabled ELSE v = "on"

\* Update: the value is in place before save, the callback is called after it.
UpdateSetting(v, saved) ==
  /\ updates < MaxUpdates /\ updates' = updates + 1
  /\ stored' = v
  /\ enabled' = IF saved /\ NotifChanged(v) THEN Switched(v) ELSE enabled
  /\ unsaved' = IF saved THEN unsaved ELSE TRUE
  /\ UNCHANGED <<backend, claimVars, noteVars>>
------------------------------------------------------------------------------
(* Claims.                                                                 *)

\* claim_notifications: a connection claims once; it is marked, then counted.
MarkClaim(c) ==
  /\ claimant[c] = "open"
  /\ claimant' = [claimant EXCEPT ![c] = "marked"]
  /\ UNCHANGED <<settingVars, claims, stuck, noteVars>>

CountClaim(c) ==
  /\ claimant[c] \in {"marked", "markedClosed"}
  /\ claims' = claims + 1
  /\ claimant' = [claimant EXCEPT ![c] = IF @ = "marked" THEN "claimed" ELSE "closed"]
  /\ UNCHANGED <<settingVars, stuck, noteVars>>

\* ReleaseNotifications when the connection ends; the goroutine that reads its
\* commands is not waited for.
Disconnect(c) ==
  /\ claimant[c] \in {"open", "marked", "claimed"}
  /\ claims' = IF claimant[c] = "open" \/ claims = 0 THEN claims ELSE claims - 1
  /\ claimant' = [claimant EXCEPT ![c] = IF @ = "marked" THEN "markedClosed" ELSE "closed"]
  /\ stuck' = (stuck \/ claimant[c] = "marked")
  /\ UNCHANGED <<settingVars, noteVars>>
------------------------------------------------------------------------------
(* Events and processes.                                                   *)

\* Publish does not wait for the notifier.
Queue(e) == inbox' = IF Len(inbox) < EventCap THEN Append(inbox, e) ELSE inbox

NewPending(p) ==
  /\ requests[p] = "none"
  /\ requests' = [requests EXCEPT ![p] = "pending"]
  /\ Queue([type |-> "created", req |-> p])
  /\ UNCHANGED <<settingVars, claimVars, recent, notes, active>>

\* A first waiting connection for a request that had none.
WaiterBack(p) ==
  /\ requests[p] = "pending"
  /\ Queue([type |-> "waiters", req |-> p])
  /\ UNCHANGED <<settingVars, claimVars, requests, recent, notes, active>>

\* A decision from the dashboard, or by the API or the websocket, whose event
\* carries a gin.H.
ResolvePending(p, by) ==
  /\ requests[p] = "pending"
  /\ requests' = [requests EXCEPT ![p] = "resolved"]
  /\ Queue([type |-> IF by = "dashboard" THEN "resolved" ELSE "resolvedH", req |-> p])
  /\ UNCHANGED <<settingVars, claimVars, recent, notes, active>>

Silenced == ~enabled \/ claims > 0
SendNotification(p) == notes' = Append(notes, [req |-> p, st |-> "starting"])

\* onPendingCreated.
OnPendingCreated(p) ==
  /\ ~Silenced /\ Len(notes) < MaxNotes
  /\ recent' = recent \cup {p}
  /\ SendNotification(p)
  /\ UNCHANGED active

\* onWaitersChanged: not within the cooldown, and only for a request that is there.
OnWaitersChanged(p) ==
  /\ ~Silenced /\ p \notin recent /\ Len(notes) < MaxNotes
  /\ recent' = recent \cup {p}
  /\ IF requests[p] = "pending" THEN SendNotification(p) ELSE UNCHANGED notes
  /\ UNCHANGED active

\* onPendingResolved: the data must be a map[string]any, which gin.H is not.
OnPendingResolved(p) ==
  /\ active' = [active EXCEPT ![p] = 0]
  /\ notes' = IF active[p] = 0 THEN notes ELSE [notes EXCEPT ![active[p]].st = "killed"]
  /\ UNCHANGED recent

HandleEvent ==
  /\ inbox # <<>> /\ inbox' = Tail(inbox)
  /\ LET e == Head(inbox)
     IN  \/ e.type = "created" /\ OnPendingCreated(e.req)
         \/ e.type = "waiters" /\ OnWaitersChanged(e.req)
         \/ e.type = "resolved" /\ OnPendingResolved(e.req)
         \/ /\ \/ e.type = "resolvedH"
               \/ e.type = "created" /\ (Silenced \/ Len(notes) >= MaxNotes)
               \/ e.type = "waiters" /\ (Silenced \/ e.req \in recent \/ Len(notes) >= MaxNotes)
            /\ UNCHANGED <<recent, notes, active>>
  /\ UNCHANGED <<settingVars, claimVars, requests>>

\* trackNotification: an older process for the request is told to end.
TrackNotification(i) ==
  /\ notes[i].st = "starting"
  /\ LET p == notes[i].req
         old == active[p]
     IN  /\ active' = [active EXCEPT ![p] = i]
         /\ notes' = [j \in DOMAIN notes |-> IF j = i THEN [notes[j] EXCEPT !.st = "shown"]
                                             ELSE IF j = old THEN [notes[j] EXCEPT !.st = "killed"] ELSE notes[j]]
  /\ UNCHANGED <<settingVars, claimVars, requests, inbox, recent>>

\* The process ends, by itself or as it was told; then untrackNotification takes
\* the entry of the request out, whichever process it names.
UntrackNotification(i) ==
  /\ notes[i].st \in {"shown", "killed"}
  /\ notes' = [notes EXCEPT ![i].st = "gone"]
  /\ active' = [active EXCEPT ![notes[i].req] = 0]
  /\ UNCHANGED <<settingVars, claimVars, requests, inbox, recent>>

\* notifyCooldown passes; cleanupTracking forgets it.
CooldownPasses(p) ==
  /\ p \in recent /\ recent' = recent \ {p}
  /\ UNCHANGED <<settingVars, claimVars, requests, inbox, notes, active>>
------------------------------------------------------------------------------
\* NewNotifier and Start: without a backend notifications are off, and stay off.
NotifierInit ==
  /\ backend \in BOOLEAN /\ stored \in {"unset", "on", "off"}
  /\ enabled = (backend /\ Resolved)
  /\ updates = 0 /\ unsaved = FALSE
  /\ claims = 0 /\ claimant = [c \in Companions |-> "open"] /\ stuck = FALSE
  /\ requests = [p \in Requests |-> "none"] /\ inbox = <<>> /\ recent = {}
  /\ notes = <<>> /\ active = [p \in Requests |-> 0]

NotifierNext ==
  \/ \E v \in {"on", "off"}, saved \in BOOLEAN : UpdateSetting(v, saved)
  \/ \E c \in Companions : MarkClaim(c) \/ CountClaim(c) \/ Disconnect(c)
  \/ \E p \in Requests :
       \/ NewPending(p) \/ WaiterBack(p) \/ CooldownPasses(p)
       \/ \E by \in {"dashboard", "api"} : ResolvePending(p, by)
  \/ HandleEvent
  \/ \E i \in DOMAIN notes : TrackNotification(i) \/ UntrackNotification(i)

NotifierSpec == NotifierInit /\ [][NotifierNext]_notifierVars
------------------------------------------------------------------------------
(* Notifications are silenced by what the user and the companions asked for *)
(* and by nothing else: the counter has one claim for each connection that  *)
(* holds one, unless a connection ended while its claim was being made      *)
(* (websocket.go does not wait for its reader, so the claim stays for ever, *)
(* or another's is taken), and the notifier follows the setting as long as  *)
(* every update was saved (settings.go calls back only after a save, and    *)
(* not for a value that is in place already).                               *)
SilencedAsAsked ==
  /\ ~stuck => claims = Cardinality({c \in Companions : claimant[c] = "claimed"})
  /\ ~unsaved => enabled = (backend /\ Resolved)
=============================================================================
