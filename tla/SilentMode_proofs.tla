-------------------------- MODULE SilentMode_proofs --------------------------
(***************************************************************************)
(* Proofs about SilentMode, for any number of connections and activations. *)
(***************************************************************************)
EXTENDS SilentMode, TLAPS

\* Stopping a timer leaves every timer in one of its states.
LEMMA StoppedType ==
  ASSUME TypeOK
  PROVE  Stopped \in [Acts -> {"unset", "armed", "fired", "stopped", "done"}]
BY DEF TypeOK, Stopped

\* An announcement puts a well-formed event on its way.
LEMMA AnnounceType ==
  ASSUME TypeOK, NEW from \in {"enable", "disable", "timer"}, NEW n \in 0 .. MaxActs,
         NEW status \in Statuses, Announce(from, n, status)
  PROVE  posts' \subseteq Post /\ shown' \in Statuses /\ overlap' \in BOOLEAN
<1>1. [from |-> from, act |-> n, status |-> status] \in Post
  BY DEF Post
<1>2. QED
  BY <1>1 DEF Announce, TypeOK

(* Every variable keeps its type.                                          *)
THEOREM TypeCorrect == Spec => []TypeOK
<1>1. Init => TypeOK
  <2>1. Init => act \in 0 .. MaxActs /\ timer \in 0 .. MaxActs
    BY MaxActsAssumption DEF Init, None
  <2>2. Init => shown \in Statuses /\ posts \subseteq Post
    BY DEF Init, Statuses
  <2>3. Init => /\ asked \in [mode : Modes \cup {"none"}, timed : BOOLEAN]
                /\ timers \in [Acts -> {"unset", "armed", "fired", "stopped", "done"}]
                /\ pc \in [Conns -> {"new", "silent", "rules"} \cup Modes]
                /\ obeyed \in [Conns -> SUBSET (Modes \cup {"none"})]
    BY DEF Init
  <2>4. QED
    BY <2>1, <2>2, <2>3 DEF Init, TypeOK
<1>2. TypeOK /\ [Next]_vars => TypeOK'
  <2> SUFFICES ASSUME TypeOK, [Next]_vars PROVE TypeOK'
    OBVIOUS
  <2> USE DEF mgrVars, busVars
  <2>1. ASSUME NEW m \in Modes, NEW timed \in BOOLEAN, Enable(m, timed) PROVE TypeOK'
    <3>1. act' \in Acts /\ act' \in 0 .. MaxActs /\ None \in 0 .. MaxActs
      BY <2>1, MaxActsAssumption DEF Enable, TypeOK, Acts, None
    <3>2. posts' \subseteq Post /\ shown' \in Statuses /\ overlap' \in BOOLEAN
      <4>1. PICK n : n = act'
        OBVIOUS
      <4>2. Announce("enable", n, On(m)) /\ On(m) \in Statuses
        BY <2>1, <4>1 DEF Enable, Statuses
      <4>3. QED
        BY <3>1, <4>1, <4>2, AnnounceType
    <3>3. timers' \in [Acts -> {"unset", "armed", "fired", "stopped", "done"}]
      BY <2>1, <3>1, StoppedType DEF Enable
    <3>4. obeyed' \in [Conns -> SUBSET (Modes \cup {"none"})]
      BY <2>1 DEF Enable, TypeOK
    <3>5. QED
      BY <2>1, <3>1, <3>2, <3>3, <3>4 DEF Enable, TypeOK
  <2>2. CASE Disable
    <3>1. None \in 0 .. MaxActs
      BY MaxActsAssumption DEF None
    <3>2. posts' \subseteq Post /\ shown' \in Statuses /\ overlap' \in BOOLEAN
      BY <2>2, AnnounceType DEF Disable, TypeOK, Statuses
    <3>3. QED
      BY <2>2, <3>1, <3>2, StoppedType DEF Disable, TypeOK
  <2>3. ASSUME NEW n \in Acts, Fire(n) PROVE TypeOK'
    BY <2>3 DEF Fire, TypeOK
  <2>4. ASSUME NEW n \in Acts, Callback(n) PROVE TypeOK'
    <3>1. None \in 0 .. MaxActs /\ n \in 0 .. MaxActs
      BY MaxActsAssumption DEF None, Acts
    <3>2. posts' \subseteq Post /\ shown' \in Statuses /\ overlap' \in BOOLEAN
      BY <2>4, <3>1, AnnounceType DEF Callback, Statuses
    <3>3. QED
      BY <2>4, <3>1, <3>2 DEF Callback, TypeOK
  <2>5. ASSUME NEW p \in posts, Publish(p) PROVE TypeOK'
    BY <2>5 DEF Publish, TypeOK, Post
  <2>6. ASSUME NEW c \in Conns, IsActive(c) PROVE TypeOK'
    BY <2>6 DEF IsActive, TypeOK
  <2>7. ASSUME NEW c \in Conns, Mode(c) PROVE TypeOK'
    BY <2>7 DEF Mode, TypeOK, Modes
  <2>8. CASE UNCHANGED vars
    BY <2>8 DEF vars, TypeOK
  <2>9. QED
    BY <2>1, <2>2, <2>3, <2>4, <2>5, <2>6, <2>7, <2>8 DEF Next
<1>3. QED
  BY <1>1, <1>2, PTL DEF Spec

------------------------------------------------------------------------------
(* The inductive invariant: the mode in force is the one last asked for;   *)
(* a connection between IsActive and Mode has already been granted the     *)
(* mode it is about to read; without overlap the one event under way       *)
(* carries the current status.                                             *)
InForce == active => act \in Acts /\ asked.mode = mode /\ mode \in Modes

Obeying == \A c \in Conns : pc[c] = "silent" => mode \in Modes /\ mode \in obeyed[c]

LastEvent ==
  ~overlap => \/ posts = {} /\ shown = Status
              \/ \E p : posts = {p} /\ p.status = Status

Inv == InForce /\ TimedEnds /\ Obeying /\ SilentLawful /\ LastEvent

\* An announcement of the new status keeps LastEvent.
LEMMA AnnounceLast ==
  ASSUME NEW from, NEW n, NEW status, Announce(from, n, status), Status' = status
  PROVE  LastEvent'
<1>1. CASE posts = {}
  <2>1. posts' = {[from |-> from, act |-> n, status |-> status]}
    BY <1>1 DEF Announce
  <2>2. [from |-> from, act |-> n, status |-> status].status = Status'
    OBVIOUS
  <2>3. QED
    BY <2>1, <2>2 DEF LastEvent
<1>2. CASE posts # {}
  BY <1>2 DEF Announce, LastEvent
<1>3. QED
  BY <1>1, <1>2

(* The invariant holds of every behaviour: Enable, Disable, the timer's    *)
(* callback and the two reads of Contains all preserve it.                 *)
THEOREM Invariant == Spec => []Inv
<1>1. Init => Inv
  BY DEF Init, Inv, InForce, TimedEnds, Obeying, SilentLawful, LastEvent, Status, Modes
<1>2. TypeOK /\ Inv /\ [Next]_vars => Inv'
  <2> SUFFICES ASSUME TypeOK, Inv, [Next]_vars PROVE Inv'
    OBVIOUS
  <2> USE DEF mgrVars, busVars
  <2>1. ASSUME NEW m \in Modes, NEW timed \in BOOLEAN, Enable(m, timed) PROVE Inv'
    <3>1. act' \in Acts
      BY <2>1, MaxActsAssumption DEF Enable, TypeOK, Acts
    <3>2. InForce'
      BY <2>1, <3>1 DEF Enable, InForce
    <3>3. TimedEnds'
      BY <2>1, <3>1, StoppedType DEF Enable, TimedEnds
    <3>4. Obeying' /\ SilentLawful'
      BY <2>1 DEF Enable, Inv, Obeying, SilentLawful, TypeOK, Modes
    <3>5. LastEvent'
      <4>1. PICK n : n = act'
        OBVIOUS
      <4>2. Announce("enable", n, On(m)) /\ Status' = On(m)
        BY <2>1, <4>1 DEF Enable, Status
      <4>3. PICK status : status = On(m)
        OBVIOUS
      <4>4. QED
        BY <4>2, <4>3, AnnounceLast
    <3>6. QED
      BY <3>2, <3>3, <3>4, <3>5 DEF Inv
  <2>2. CASE Disable
    <3>1. InForce' /\ TimedEnds'
      BY <2>2 DEF Disable, InForce, TimedEnds
    <3>2. Obeying' /\ SilentLawful'
      BY <2>2 DEF Disable, Inv, Obeying, SilentLawful
    <3>3. PICK n : n = act
      OBVIOUS
    <3>4. Announce("disable", n, Off) /\ Status' = Off
      BY <2>2, <3>3 DEF Disable, Status
    <3>5. QED
      BY <3>1, <3>2, <3>4, AnnounceLast DEF Inv
  <2>3. ASSUME NEW n \in Acts, Fire(n) PROVE Inv'
    <3>1. InForce' /\ Obeying' /\ SilentLawful'
      BY <2>3 DEF Fire, Inv, InForce, Obeying, SilentLawful
    <3>2. TimedEnds'
      BY <2>3 DEF Fire, Inv, InForce, TimedEnds, TypeOK
    <3>3. LastEvent'
      BY <2>3 DEF Fire, Inv, LastEvent, Status
    <3>4. QED
      BY <3>1, <3>2, <3>3 DEF Inv
  <2>4. ASSUME NEW n \in Acts, Callback(n) PROVE Inv'
    <3>1. InForce' /\ TimedEnds'
      BY <2>4 DEF Callback, InForce, TimedEnds
    <3>2. Obeying' /\ SilentLawful'
      BY <2>4 DEF Callback, Inv, Obeying, SilentLawful
    <3>3. Announce("timer", n, Off) /\ Status' = Off
      BY <2>4 DEF Callback, Status
    <3>4. QED
      BY <3>1, <3>2, <3>3, AnnounceLast DEF Inv
  <2>5. ASSUME NEW p \in posts, Publish(p) PROVE Inv'
    <3>1. InForce' /\ TimedEnds' /\ Obeying' /\ SilentLawful'
      BY <2>5 DEF Publish, Inv, InForce, TimedEnds, Obeying, SilentLawful
    <3>2. LastEvent'
      BY <2>5 DEF Publish, Inv, LastEvent, Status
    <3>3. QED
      BY <3>1, <3>2 DEF Inv
  <2>6. ASSUME NEW c \in Conns, IsActive(c) PROVE Inv'
    <3>1. InForce' /\ TimedEnds'
      BY <2>6 DEF IsActive, Inv, InForce, TimedEnds
    <3>2. LastEvent'
      BY <2>6 DEF IsActive, Inv, LastEvent, Status
    <3>3. Obeying' /\ SilentLawful'
      BY <2>6 DEF IsActive, Inv, InForce, Obeying, SilentLawful, TypeOK, Modes
    <3>4. QED
      BY <3>1, <3>2, <3>3 DEF Inv
  <2>7. ASSUME NEW c \in Conns, Mode(c) PROVE Inv'
    <3>1. InForce' /\ TimedEnds'
      BY <2>7 DEF Mode, Inv, InForce, TimedEnds
    <3>2. LastEvent'
      BY <2>7 DEF Mode, Inv, LastEvent, Status
    <3>3. Obeying' /\ SilentLawful'
      BY <2>7 DEF Mode, Inv, Obeying, SilentLawful, TypeOK, Modes
    <3>4. QED
      BY <3>1, <3>2, <3>3 DEF Inv
  <2>8. CASE UNCHANGED vars
    BY <2>8 DEF vars, Inv, InForce, TimedEnds, Obeying, SilentLawful, LastEvent, Status
  <2>9. QED
    BY <2>1, <2>2, <2>3, <2>4, <2>5, <2>6, <2>7, <2>8 DEF Next
<1>3. QED
  BY <1>1, <1>2, TypeCorrect, PTL DEF Spec

(* An activation with a duration always has its own timer running, so no   *)
(* sequence of Enable, Disable and late callbacks leaves silent mode on    *)
(* for ever.                                                               *)
THEOREM TimedActivationEnds == Spec => []TimedEnds
BY Invariant, PTL DEF Inv

(* Contains applies only a mode that was asked for and in force while it   *)
(* ran, although it reads IsActive and Mode under separate locks.          *)
THEOREM SilentVerdictLawful == Spec => []SilentLawful
BY Invariant, PTL DEF Inv

(* The dashboard's banner agrees with the manager when no event is under   *)
(* way and the last ones did not overlap.                                  *)
THEOREM BannerCorrect == Spec => []BannerAgrees
<1>1. LastEvent => BannerAgrees
  BY DEF LastEvent, BannerAgrees
<1>2. QED
  BY <1>1, Invariant, PTL DEF Inv
==============================================================================
