----------------------------- MODULE SilentMode -----------------------------
(***************************************************************************)
(* Silent mode: AllowAllManager, the requests that switch it on and off,   *)
(* the timer that ends it, the announcements to the dashboard, and the     *)
(* part of Bypass.Contains that obeys it.                                  *)
(*                                                                         *)
(* An action is a section of code under the manager's lock.  A timer that  *)
(* has fired runs its callback in a goroutine of its own, which Stop can   *)
(* no longer prevent; an event is published after the lock was released.   *)
(***************************************************************************)
EXTENDS Integers

CONSTANTS
  Conns,      \* connections that call Contains
  MaxActs     \* bound: calls of Enable

ASSUME MaxActsAssumption == MaxActs \in Nat

VARIABLES
  active, mode, timer,   \* AllowAllManager; timer is an activation, or None
  act,        \* number of the last activation
  asked,      \* what it asked for: [mode, timed]
  timers,     \* the runtime's timers, one for each activation
  posts,      \* events that are not yet published
  shown,      \* the last status that was published
  overlap,    \* did the last event come while another was not yet published
  pc,         \* where each connection is
  obeyed      \* the modes in force since the connection saw IsActive

mgrVars == <<active, mode, timer, act, asked, timers>>
busVars == <<posts, shown, overlap>>
vars == <<mgrVars, busVars, pc, obeyed>>

None == 0
Acts == 1 .. MaxActs
Modes == {"allow", "deny"}
Off == [active |-> FALSE, mode |-> "none"]
On(m) == [active |-> TRUE, mode |-> m]
Status == IF active THEN On(mode) ELSE Off
Statuses == {Off} \cup {On(m) : m \in Modes}
Post == [from : {"enable", "disable", "timer"}, act : 0 .. MaxActs, status : Statuses]

\* An event is on its way to the bus.
Announce(from, n, status) ==
  /\ posts' = posts \cup {[from |-> from, act |-> n, status |-> status]}
  /\ overlap' = (posts # {})
  /\ UNCHANGED shown

\* timer.Stop() on the manager's timer: it has no effect once it fired.
Stopped == [n \in Acts |-> IF n = timer /\ timers[n] = "armed" THEN "stopped" ELSE timers[n]]

\* Mutant: the mode is only set when silent mode is switched on.
EnableKeepsMode(m, timed) ==
  /\ act < MaxActs
  /\ act' = act + 1
  /\ active' = TRUE
  /\ mode' = IF active THEN mode ELSE m
  /\ asked' = [mode |-> m, timed |-> timed]
  /\ timers' = [Stopped EXCEPT ![act'] = IF timed THEN "armed" ELSE @]
  /\ timer' = IF timed THEN act' ELSE None
  /\ obeyed' = [c \in Conns |-> IF pc[c] = "silent" THEN obeyed[c] \cup {m} ELSE obeyed[c]]
  /\ Announce("enable", act', On(m))
  /\ UNCHANGED pc

\* Mutant: the timer is stopped after the new one was set.
EnableStopsLast(m, timed) ==
  /\ act < MaxActs
  /\ act' = act + 1
  /\ active' = TRUE
  /\ mode' = m
  /\ asked' = [mode |-> m, timed |-> timed]
  /\ timers' = [timers EXCEPT ![act'] = IF timed THEN "stopped" ELSE @]
  /\ timer' = None
  /\ obeyed' = [c \in Conns |-> IF pc[c] = "silent" THEN obeyed[c] \cup {m} ELSE obeyed[c]]
  /\ Announce("enable", act', On(m))
  /\ UNCHANGED pc

Enable(m, timed) ==
  /\ act < MaxActs
  /\ act' = act + 1
  /\ active' = TRUE
  /\ mode' = m
  /\ asked' = [mode |-> m, timed |-> timed]
  /\ timers' = [Stopped EXCEPT ![act'] = IF timed THEN "armed" ELSE @]
  /\ timer' = IF timed THEN act' ELSE None
  /\ obeyed' = [c \in Conns |-> IF pc[c] = "silent" THEN obeyed[c] \cup {m} ELSE obeyed[c]]
  /\ Announce("enable", act', On(m))
  /\ UNCHANGED pc

\* Disable; it returns at once if silent mode is off.
Disable ==
  /\ active
  /\ active' = FALSE
  /\ timers' = Stopped
  /\ timer' = None
  /\ Announce("disable", act, Off)
  /\ UNCHANGED <<mode, act, asked, pc, obeyed>>

\* The duration is over: the runtime starts the callback's goroutine.
Fire(n) ==
  /\ timers[n] = "armed"
  /\ timers' = [timers EXCEPT ![n] = "fired"]
  /\ UNCHANGED <<active, mode, timer, act, asked, busVars, pc, obeyed>>

\* Mutant: the callback announces nothing.
CallbackQuiet(n) ==
  /\ timers[n] = "fired"
  /\ timers' = [timers EXCEPT ![n] = "done"]
  /\ active' = FALSE
  /\ timer' = None
  /\ UNCHANGED <<mode, act, asked, busVars, pc, obeyed>>

\* Mutant: the callback leaves active alone.
CallbackIdle(n) ==
  /\ timers[n] = "fired"
  /\ timers' = [timers EXCEPT ![n] = "done"]
  /\ timer' = None
  /\ Announce("timer", n, Off)
  /\ UNCHANGED <<active, mode, act, asked, pc, obeyed>>

Callback(n) ==
  /\ timers[n] = "fired"
  /\ timers' = [timers EXCEPT ![n] = "done"]
  /\ active' = FALSE
  /\ timer' = None
  /\ Announce("timer", n, Off)
  /\ UNCHANGED <<mode, act, asked, pc, obeyed>>

Publish(p) ==
  /\ p \in posts
  /\ posts' = posts \ {p}
  /\ shown' = p.status
  /\ UNCHANGED <<mgrVars, overlap, pc, obeyed>>

\* Contains: IsActive; without silent mode the rules decide.
IsActive(c) ==
  /\ pc[c] = "new"
  /\ pc' = [pc EXCEPT ![c] = IF active THEN "silent" ELSE "rules"]
  /\ obeyed' = [obeyed EXCEPT ![c] = IF active THEN {asked.mode} ELSE {}]
  /\ UNCHANGED <<mgrVars, busVars>>

\* Contains: Mode, read after the lock was released in between.
Mode(c) ==
  /\ pc[c] = "silent"
  /\ pc' = [pc EXCEPT ![c] = IF mode = "deny" THEN "deny" ELSE "allow"]
  /\ UNCHANGED <<mgrVars, busVars, obeyed>>

Init ==
  /\ active = FALSE
  /\ mode = "none"
  /\ timer = None
  /\ act = 0
  /\ asked = [mode |-> "none", timed |-> FALSE]
  /\ timers = [n \in Acts |-> "unset"]
  /\ posts = {}
  /\ shown = Off
  /\ overlap = FALSE
  /\ pc = [c \in Conns |-> "new"]
  /\ obeyed = [c \in Conns |-> {}]

Next ==
  \/ \E m \in Modes, timed \in BOOLEAN : Enable(m, timed)
  \/ Disable
  \/ \E n \in Acts : Fire(n) \/ Callback(n)
  \/ \E p \in posts : Publish(p)
  \/ \E c \in Conns : IsActive(c) \/ Mode(c)

Spec == Init /\ [][Next]_vars

(* Timers fire and their callbacks run; that anybody calls Enable or       *)
(* Disable is not assumed.                                                 *)
Fairness == \A n \in Acts : WF_vars(Fire(n)) /\ WF_vars(Callback(n))

FairSpec == Spec /\ Fairness
------------------------------------------------------------------------------
(* The type invariant: the manager's timer is one that it created, and     *)
(* every event carries a status the manager can have.                      *)
TypeOK ==
  /\ active \in BOOLEAN
  /\ mode \in Modes \cup {"none"}
  /\ timer \in 0 .. MaxActs
  /\ act \in 0 .. MaxActs
  /\ asked \in [mode : Modes \cup {"none"}, timed : BOOLEAN]
  /\ timers \in [Acts -> {"unset", "armed", "fired", "stopped", "done"}]
  /\ posts \subseteq Post
  /\ shown \in Statuses
  /\ overlap \in BOOLEAN
  /\ pc \in [Conns -> {"new", "silent", "rules"} \cup Modes]
  /\ obeyed \in [Conns -> SUBSET (Modes \cup {"none"})]

(* An activation with a duration cannot outlive it: while it is in force   *)
(* its own timer is armed or its callback is about to run, whatever was    *)
(* switched on and off before and whichever callbacks came late.           *)
TimedEnds == active /\ asked.timed => timers[act] \in {"armed", "fired"}

(* Although IsActive and Mode take the lock separately, Contains allows or *)
(* blocks a connection silently only in a mode that was asked for and in   *)
(* force at some moment between the two.                                   *)
SilentLawful == \A c \in Conns : pc[c] \in Modes => pc[c] \in obeyed[c]

(* Once all events are published the dashboard shows the real status,      *)
(* unless two of them were under way at the same time (Publish runs after  *)
(* the unlock, so the later one may be overtaken).                         *)
BannerAgrees == posts = {} /\ ~overlap => shown = Status

(* A timed activation comes to its end without anybody's help.             *)
SilenceEnds == \A n \in Acts : active /\ asked.timed /\ act = n ~> ~active \/ act # n

(* "Calling Enable while already active resets the timer and/or mode"      *)
(* (Enable): what ends an activation, other than Disable and Enable, is    *)
(* its own timer and no earlier one.                                       *)
OwnTimerOnly ==
  [][\A n \in Acts : active /\ timers[n] = "fired" /\ timers'[n] = "done" => n = act]_vars
==============================================================================
