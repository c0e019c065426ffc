--------------------------- MODULE Engine_proofs ---------------------------
(***************************************************************************)
(* Proofs about the proxy engine: that reloads leave every service         *)
(* registered and served, and that a SOCKS5 tunnel keeps what is sent into *)
(* it (its proof is the second part of this module).                       *)
(*                                                                         *)
(* ReloadServes speaks of the states in which nobody loads.  What makes it *)
(* true is what loader.register and run have done to the registry at every *)
(* point in between: before the services are closed it is full (or, at     *)
(* start-up, empty), then what is still to be closed is all that is left,  *)
(* then the first k services of the configuration are there and no other,  *)
(* and at last each of them gets its accept loop.  LoaderOK says this of   *)
(* the one goroutine that loads.  An instance that holds an address is     *)
(* registered, except for the one that is being made: so the next address  *)
(* is free unless the configuration names a service twice, in which case   *)
(* the process does not start.                                             *)
(*                                                                         *)
(* All this is claimed as long as nothing excuses a reload (Orderly): once *)
(* two reloads have met, or one has failed half way, the registry is in    *)
(* none of these states any more.                                          *)
(***************************************************************************)
EXTENDS Engine, Socks, TLAPS, FiniteSetTheorems

Causes == {"unwatched", "overlap", "parse", "unreadable"}
Instances == [svc : ServiceNames, cert : Nat, open : BOOLEAN, loops : Nat]
TaskRecords ==
  [pc : {"idle", "parse", "unregister", "close", "delete", "init", "register", "wire", "note"},
   by : {"none", "start", "signal", "timer", "api"}, k : Nat, todo : SUBSET ServiceNames,
   made : Nat, inject : BOOLEAN]

\* So far nothing excuses a reload, and the process is there.
Orderly == up # "stopped" /\ trouble.why \subseteq {"unwatched"}

EngineTypes ==
  /\ up \in {"starting", "running"}
  /\ services \in [ServiceNames -> Nat] /\ inst \in Seq(Instances) /\ task \in [Tasks -> TaskRecords]
  /\ file \in [{"cert", "key"} -> [gen : Nat, whole : BOOLEAN]]

\* An entry of the registry is an instance of that service.
Booked == \A s \in ServiceNames : services[s] # 0 => services[s] \in DOMAIN inst /\ inst[services[s]].svc = s

\* What holds an address is registered, except for the instances but.
Held(but) == \A i \in DOMAIN inst : inst[i].open => services[inst[i].svc] = i \/ i \in but

\* Service s is registered, holds its address and has m accept loops.
Serves(s, m) == services[s] # 0 /\ inst[services[s]].open /\ inst[services[s]].loops = m

\* The first m services of the configuration, and that no two of them are the same.
First(m) == {ServiceOrder[i] : i \in 1 .. m}
Distinct(m) == \A i, j \in 1 .. m : ServiceOrder[i] = ServiceOrder[j] => i = j

Empty == Held({}) /\ \A s \in ServiceNames : services[s] = 0
Full == Held({}) /\ \A s \in ServiceNames : Serves(s, 1)

\* The first m services have been made anew, and the rest is gone.
BuiltUp(m, but) ==
  /\ Held(but) /\ Distinct(m)
  /\ \A s \in ServiceNames : IF s \in First(m) THEN Serves(s, 0) ELSE services[s] = 0

\* What the stage of a loader says of the registry, one part for each.
Closing(r) ==
  /\ r.k = 1 /\ Held({})
  /\ \A s \in ServiceNames : services[s] # 0 => s \in r.todo

Deleting(r) ==
  /\ r.k = 1 /\ Held({})
  /\ r.made \in DOMAIN inst /\ services[inst[r.made].svc] = r.made /\ ~inst[r.made].open
  /\ \A s \in ServiceNames : services[s] # 0 => s \in r.todo \/ s = inst[r.made].svc

Making(r) ==
  /\ r.k \in 1 .. Len(ServiceOrder) /\ r.todo = {} /\ r.made \in DOMAIN inst
  /\ inst[r.made].svc = ServiceOrder[r.k] /\ inst[r.made].open /\ inst[r.made].loops = 0
  /\ BuiltUp(r.k - 1, {r.made}) /\ ServiceOrder[r.k] \notin First(r.k - 1)

Refilling(r) == r.k \in 1 .. Len(ServiceOrder) + 1 /\ BuiltUp(r.k - 1, {})

LoaderOK(r) ==
  /\ r.pc \in {"parse", "unregister"} => IF r.by = "start" THEN Empty ELSE Full
  /\ r.pc = "close" => IF r.todo # {} THEN Closing(r) ELSE Refilling(r)
  /\ r.pc = "delete" => Deleting(r)
  /\ r.pc \in {"init", "register"} => Making(r)
  /\ r.pc \in {"note", "wire"} => Full /\ Distinct(Len(ServiceOrder))
  /\ r.pc = "wire" => r.by = "start"
  /\ r.pc = "note" => r.by # "start"

LoadersSound ==
  /\ \A t \in Tasks : ~Idle(t) =>
       /\ \A u \in Tasks : ~Idle(u) => u = t
       /\ task[t].by = "start" <=> up = "starting"
       /\ LoaderOK(task[t])
  /\ up = "running" => Distinct(Len(ServiceOrder)) /\ ((\A t \in Tasks : Idle(t)) => Full)

TroubleTyped == trouble \in [why : SUBSET Causes, reloads : Nat]

EngineSound == EngineTypes /\ Booked /\ LoadersSound

EngineInv == TroubleTyped /\ (Orderly => EngineSound)

\* What an abort and an excuse leave is not orderly: an orderly step starts
\* from an orderly state.
LEMMA OrderlyBefore ==
  ASSUME TroubleTyped, Orderly', up = "stopped" => up' = "stopped",
         \/ trouble' = trouble \/ (\E w : Excuse(w))
         \/ \E w \in SUBSET Causes : trouble' = [reloads |-> trouble.reloads + 1, why |-> trouble.why \cup w]
  PROVE  Orderly
<1>1. trouble.why \subseteq trouble'.why
  BY DEF TroubleTyped, Excuse
<1>2. QED
  BY <1>1 DEF Orderly

\* An excuse is a history variable's only change.
LEMMA ExcuseEffect ==
  ASSUME TroubleTyped, NEW w \in Causes, Excuse(w)
  PROVE  TroubleTyped' /\ w \in trouble'.why
BY DEF TroubleTyped, Excuse

\* One loader changes its record.
LEMMA GoEffect ==
  ASSUME EngineTypes, NEW t \in Tasks, NEW r \in TaskRecords, task' = [task EXCEPT ![t] = r]
  PROVE  task' \in [Tasks -> TaskRecords] /\ task'[t] = r /\ \A u \in Tasks \ {t} : task'[u] = task[u]
BY DEF EngineTypes

\* The only loader goes on.
LEMMA LoaderGoesOn ==
  ASSUME EngineTypes, LoadersSound, NEW t \in Tasks, ~Idle(t), NEW r \in TaskRecords,
         task' = [task EXCEPT ![t] = r], r.pc # "idle", r.by = task[t].by, up' = up, LoaderOK(r)'
  PROVE  LoadersSound'
<1>1. task'[t] = r /\ \A u \in Tasks \ {t} : task'[u] = task[u]
  BY GoEffect
<1>2. (\A u \in Tasks \ {t} : Idle(u)) /\ (task[t].by = "start" <=> up = "starting")
      /\ (up = "running" => Distinct(Len(ServiceOrder)))
  BY DEF LoadersSound
<1>3. \A u \in Tasks : Idle(u)' <=> u # t
  BY <1>1, <1>2 DEF Idle
<1>4. ASSUME NEW v \in Tasks, ~Idle(v)'
      PROVE  /\ \A u \in Tasks : ~Idle(u)' => u = v
             /\ (task'[v].by = "start" <=> up' = "starting") /\ LoaderOK(task[v])'
  <2>1. v = t
    BY <1>3, <1>4
  <2>2. \A u \in Tasks : ~Idle(u)' => u = v
    BY <1>3, <2>1
  <2>3. LoaderOK(task[t])'
    BY <1>1 DEF LoaderOK, Closing, Deleting, Making, Refilling
  <2>4. QED
    BY <1>1, <1>2, <2>1, <2>2, <2>3
<1>5. up' = "running" => Distinct(Len(ServiceOrder))'
  BY <1>2 DEF Distinct
<1>6. ~(\A u \in Tasks : Idle(u)')
  BY <1>3
<1>7. QED
  BY <1>4, <1>5, <1>6 DEF LoadersSound

\* The only loader ends; the process runs, with every service in its place.
LEMMA LoaderEnds ==
  ASSUME EngineTypes, LoadersSound, NEW t \in Tasks, ~Idle(t),
         task' = [task EXCEPT ![t] = IdleTask], up' = "running", Distinct(Len(ServiceOrder)), Full'
  PROVE  LoadersSound'
<1>1. \A u \in Tasks \ {t} : Idle(u)
  BY DEF LoadersSound
<1>2. \A u \in Tasks : Idle(u)'
  BY <1>1 DEF EngineTypes, Idle, IdleTask
<1>3. Distinct(Len(ServiceOrder))'
  BY DEF Distinct
<1>4. QED
  BY <1>2, <1>3 DEF LoadersSound

\* Nothing that the loaders know of changes.
LEMMA LoadersUntouched ==
  ASSUME EngineTypes, Booked, LoadersSound, UNCHANGED <<up, services, inst, task>>,
         file' \in [{"cert", "key"} -> [gen : Nat, whole : BOOLEAN]]
  PROVE  EngineTypes' /\ Booked' /\ LoadersSound'
<1>1. EngineTypes' /\ Booked'
  BY DEF EngineTypes, Booked
<1>2. Full' = Full /\ Empty' = Empty /\ \A m : Distinct(m)' = Distinct(m)
  BY DEF Full, Empty, Distinct, Held, Serves
<1>3. ASSUME NEW t \in Tasks, LoaderOK(task[t]) PROVE LoaderOK(task[t])'
  BY <1>3 DEF LoaderOK, Closing, Deleting, Making, Refilling, Full, Empty, Distinct, Held, Serves, BuiltUp
<1>4. \A t \in Tasks : Idle(t)' = Idle(t)
  BY DEF Idle
<1>5. LoadersSound'
  BY <1>2, <1>3, <1>4 DEF LoadersSound
<1>6. QED
  BY <1>1, <1>5

\* A registry that is not touched serves as before.
LEMMA RegistryUntouched ==
  ASSUME UNCHANGED <<services, inst>>
  PROVE  /\ Full' = Full /\ Empty' = Empty /\ Booked' = Booked
         /\ \A b : Held(b)' = Held(b)
         /\ \A m, b : BuiltUp(m, b)' = BuiltUp(m, b)
<1>1. \A b : Held(b)' = Held(b)
  BY DEF Held
<1>2. \A s, m : Serves(s, m)' = Serves(s, m)
  BY DEF Serves
<1>3. Full' = Full /\ Empty' = Empty /\ Booked' = Booked
  BY <1>1, <1>2 DEF Full, Empty, Booked
<1>4. \A m, b : BuiltUp(m, b)' = BuiltUp(m, b)
  BY <1>1, <1>2 DEF BuiltUp, Distinct, First
<1>5. QED
  BY <1>1, <1>3, <1>4

\* What is known of a loader that is at work.
LEMMA LoaderOf ==
  ASSUME EngineSound, NEW t \in Tasks, task[t].pc # "idle"
  PROVE  /\ EngineTypes /\ Booked /\ LoadersSound /\ ~Idle(t) /\ task[t] \in TaskRecords /\ LoaderOK(task[t])
         /\ task[t].by = "start" <=> up = "starting"
         /\ up = "running" => Distinct(Len(ServiceOrder))
<1>1. EngineTypes /\ Booked /\ LoadersSound /\ ~Idle(t) /\ task[t] \in TaskRecords
  BY DEF EngineSound, EngineTypes, Idle
<1>2. QED
  BY <1>1 DEF LoadersSound

\* The configuration is read, and the first registries are emptied.
LEMMA ParseKeeps ==
  ASSUME EngineSound, NEW t \in Tasks, ParseConfig(t)
  PROVE  EngineSound'
<1> DEFINE inject == Exists("cert") /\ Exists("key")
           new == [task[t] EXCEPT !.pc = "unregister", !.k = 1, !.inject = inject]
<1>1. task[t].pc = "parse" /\ task' = [task EXCEPT ![t] = new] /\ UNCHANGED <<up, services, inst, file>>
  BY DEF ParseConfig, Pc, Go, registryVars, certVars
<1>2. /\ EngineTypes /\ Booked /\ LoadersSound /\ ~Idle(t) /\ task[t] \in TaskRecords /\ LoaderOK(task[t])
  BY <1>1, LoaderOf
<1>3. inject \in BOOLEAN
  OBVIOUS
<1> HIDE DEF inject
<1>4. new \in TaskRecords /\ new.pc = "unregister" /\ new.by = task[t].by
  BY <1>2, <1>3 DEF TaskRecords
<1> HIDE DEF new
<1>5. PICK r \in TaskRecords : r = new
  BY <1>4
<1>6. LoaderOK(r)'
  <2>1. IF r.by = "start" THEN Empty' ELSE Full'
    BY <1>1, <1>2, <1>4, <1>5, RegistryUntouched DEF LoaderOK
  <2>2. QED
    BY <1>4, <1>5, <2>1 DEF LoaderOK
<1>7. LoadersSound'
  BY <1>1, <1>2, <1>4, <1>5, <1>6, LoaderGoesOn
<1>8. EngineTypes' /\ Booked'
  BY <1>1, <1>2, <1>5, GoEffect DEF EngineTypes, Booked
<1>9. QED
  BY <1>7, <1>8 DEF EngineSound

\* The last registry is emptied: what is registered is to be closed.
LEMMA UnregisterKeeps ==
  ASSUME EngineSound, NEW t \in Tasks, UnregisterPlugin(t)
  PROVE  EngineSound'
<1> DEFINE listed == {s \in ServiceNames : services[s] # 0}
<1>1. task[t].pc = "unregister" /\ UNCHANGED <<up, services, inst, file>>
  BY DEF UnregisterPlugin, Pc, certVars
<1>2. /\ EngineTypes /\ Booked /\ LoadersSound /\ ~Idle(t) /\ task[t] \in TaskRecords /\ LoaderOK(task[t])
  BY <1>1, LoaderOf
<1>3. PICK r \in TaskRecords :
        /\ task' = [task EXCEPT ![t] = r] /\ r.by = task[t].by
        /\ r.pc = "unregister" \/ (r.pc = "close" /\ r.k = 1 /\ r.todo = listed)
  <2>1. task[t].k + 1 \in Nat /\ listed \in SUBSET ServiceNames
    BY <1>2 DEF TaskRecords
  <2> HIDE DEF listed
  <2>2. CASE task[t].k < Len(PluginOrder)
    <3> DEFINE new == [task[t] EXCEPT !.k = task[t].k + 1]
    <3>1. task' = [task EXCEPT ![t] = new]
      BY <2>2 DEF UnregisterPlugin, Go
    <3>2. new \in TaskRecords /\ new.by = task[t].by /\ new.pc = task[t].pc
      BY <1>2, <2>1 DEF TaskRecords
    <3>3. QED
      BY <1>1, <3>1, <3>2
  <2>3. CASE ~(task[t].k < Len(PluginOrder))
    <3> DEFINE new == [task[t] EXCEPT !.pc = "close", !.k = 1, !.todo = listed]
    <3>1. task' = [task EXCEPT ![t] = new]
      BY <2>3 DEF UnregisterPlugin, Go, listed
    <3>2. new \in TaskRecords /\ new.by = task[t].by /\ new.pc = "close" /\ new.k = 1 /\ new.todo = listed
      BY <1>2, <2>1 DEF TaskRecords
    <3>3. QED
      BY <3>1, <3>2
  <2>4. QED
    BY <2>2, <2>3
<1>4. LoaderOK(r)'
  <2>1. IF r.by = "start" THEN Empty ELSE Full
    BY <1>1, <1>2, <1>3 DEF LoaderOK
  <2>2. CASE r.pc = "unregister"
    <3>1. IF r.by = "start" THEN Empty' ELSE Full'
      BY <1>1, <2>1, RegistryUntouched
    <3>2. QED
      BY <2>2, <3>1 DEF LoaderOK
  <2>3. CASE r.pc = "close"
    <3>1. Held({})' /\ r.k = 1 /\ r.todo = listed
      BY <1>1, <1>3, <2>1, <2>3, RegistryUntouched DEF Empty, Full
    <3>2. CASE r.todo # {}
      <4>1. Closing(r)'
        BY <1>1, <3>1 DEF Closing
      <4>2. QED
        BY <2>3, <3>2, <4>1 DEF LoaderOK
    <3>3. CASE r.todo = {}
      <4>1. \A s \in ServiceNames : services'[s] = 0
        BY <1>1, <3>1, <3>3
      <4>2. First(0) = {} /\ Distinct(0)
        BY DEF First, Distinct
      <4>3. BuiltUp(0, {})'
        BY <3>1, <4>1, <4>2 DEF BuiltUp, First, Distinct
      <4>4. r.k - 1 = 0 /\ r.k \in 1 .. Len(ServiceOrder) + 1
        BY <3>1, EngineAssumption
      <4>5. Refilling(r)'
        BY <4>3, <4>4 DEF Refilling
      <4>6. QED
        BY <2>3, <3>3, <4>5 DEF LoaderOK
    <3>4. QED
      BY <3>2, <3>3
  <2>4. QED
    BY <1>3, <2>2, <2>3
<1>5. LoadersSound'
  <2>1. r.pc # "idle"
    BY <1>3
  <2>2. QED
    BY <1>1, <1>2, <1>3, <1>4, <2>1, LoaderGoesOn
<1>6. EngineTypes' /\ Booked'
  BY <1>1, <1>2, <1>3, GoEffect DEF EngineTypes, Booked
<1>7. QED
  BY <1>5, <1>6 DEF EngineSound

\* One instance is replaced.
LEMMA InstEffect ==
  ASSUME inst \in Seq(Instances), NEW i \in DOMAIN inst, NEW e \in Instances, inst' = [inst EXCEPT ![i] = e]
  PROVE  /\ inst' \in Seq(Instances) /\ DOMAIN inst' = DOMAIN inst /\ inst'[i] = e
         /\ \A j \in DOMAIN inst : j # i => inst'[j] = inst[j]
OBVIOUS

\* A service is closed and its entry still there, or there was none.
LEMMA CloseKeeps ==
  ASSUME EngineSound, NEW t \in Tasks, NEW s \in ServiceNames, CloseService(t, s)
  PROVE  EngineSound'
<1>1. task[t].pc = "close" /\ s \in task[t].todo /\ UNCHANGED <<up, services, file>>
  BY DEF CloseService, Pc, certVars
<1>2. /\ EngineTypes /\ Booked /\ LoadersSound /\ ~Idle(t) /\ task[t] \in TaskRecords /\ LoaderOK(task[t])
  BY <1>1, LoaderOf
<1>3. task[t].k = 1 /\ Held({}) /\ \A o \in ServiceNames : services[o] # 0 => o \in task[t].todo
  BY <1>1, <1>2 DEF LoaderOK, Closing
<1>4. CASE services[s] = 0
  <2> DEFINE new == [task[t] EXCEPT !.todo = task[t].todo \ {s}]
  <2>1. task' = [task EXCEPT ![t] = new] /\ UNCHANGED inst
    BY <1>4 DEF CloseService, Go
  <2>2. /\ new \in TaskRecords /\ new.pc = "close" /\ new.by = task[t].by /\ new.k = 1
        /\ new.todo = task[t].todo \ {s}
    BY <1>1, <1>2, <1>3 DEF TaskRecords
  <2> HIDE DEF new
  <2>3. PICK r \in TaskRecords : r = new
    BY <2>2
  <2>4. Held({})' /\ \A o \in ServiceNames : services'[o] # 0 => o \in r.todo
    BY <1>1, <1>3, <1>4, <2>1, <2>2, <2>3 DEF Held
  <2>5. CASE r.todo # {}
    <3>1. LoaderOK(r)'
      BY <2>2, <2>3, <2>4, <2>5 DEF LoaderOK, Closing
    <3>2. QED
      BY <1>1, <1>2, <2>1, <2>2, <2>3, <3>1, LoaderGoesOn, GoEffect DEF EngineSound, EngineTypes, Booked
  <2>6. CASE r.todo = {}
    <3>1. BuiltUp(0, {})'
      BY <2>4, <2>6 DEF BuiltUp, First, Distinct
    <3>2. r.k - 1 = 0 /\ r.k \in 1 .. Len(ServiceOrder) + 1
      BY <2>2, <2>3, EngineAssumption
    <3>3. LoaderOK(r)'
      BY <2>2, <2>3, <2>6, <3>1, <3>2 DEF LoaderOK, Refilling
    <3>4. QED
      BY <1>1, <1>2, <2>1, <2>2, <2>3, <3>3, LoaderGoesOn, GoEffect DEF EngineSound, EngineTypes, Booked
  <2>7. QED
    BY <2>5, <2>6
<1>5. CASE services[s] # 0
  <2> DEFINE new == [task[t] EXCEPT !.pc = "delete", !.todo = task[t].todo \ {s}, !.made = services[s]]
  <2>1. /\ inst' = [inst EXCEPT ![services[s]].open = FALSE, ![services[s]].loops = 0]
        /\ task' = [task EXCEPT ![t] = new]
    BY <1>5 DEF CloseService, Go
  <2>2. PICK j \in DOMAIN inst : j = services[s] /\ inst[j].svc = s /\ inst[j] \in Instances /\ j \in Nat
    <3>1. services[s] \in DOMAIN inst /\ inst[services[s]].svc = s /\ services[s] \in Nat
      BY <1>2, <1>5 DEF Booked, EngineTypes
    <3>2. inst[services[s]] \in Instances
      BY <1>2, <3>1 DEF EngineTypes
    <3>3. QED
      BY <3>1, <3>2
  <2>3. /\ new \in TaskRecords /\ new.pc = "delete" /\ new.by = task[t].by /\ new.k = 1
        /\ new.todo = task[t].todo \ {s} /\ new.made = j
    <3>1. services[s] \in Nat /\ services[s] = j
      BY <2>2
    <3>2. QED
      BY <1>2, <1>3, <3>1 DEF TaskRecords
  <2> HIDE DEF new
  <2>4. PICK r \in TaskRecords : r = new
    BY <2>3
  <2>5. PICK e \in Instances : /\ inst' = [inst EXCEPT ![j] = e] /\ e.svc = s
                               /\ e.open = FALSE /\ e.loops = 0
    <3> DEFINE e == [inst[j] EXCEPT !.open = FALSE, !.loops = 0]
    <3>1. e \in Instances /\ e.svc = s /\ e.loops = 0
      BY <2>2 DEF Instances
    <3>2. e.open = FALSE
      BY <2>2 DEF Instances
    <3>3. inst' = [inst EXCEPT ![j] = e]
      BY <1>2, <2>1, <2>2 DEF EngineTypes, Instances
    <3>4. QED
      BY <3>1, <3>2, <3>3
  <2>6. /\ inst' \in Seq(Instances) /\ DOMAIN inst' = DOMAIN inst /\ inst'[j] = e
        /\ \A i \in DOMAIN inst : i # j => inst'[i] = inst[i]
    BY <1>2, <2>5, InstEffect DEF EngineTypes
  <2>7. Held({})'
    BY <1>1, <1>3, <2>5, <2>6 DEF Held
  <2>8. Booked'
    BY <1>1, <1>2, <2>2, <2>5, <2>6 DEF Booked
  <2>9. LoaderOK(r)'
    <3>1. Deleting(r)'
      BY <1>1, <1>3, <2>2, <2>3, <2>4, <2>5, <2>6, <2>7 DEF Deleting
    <3>2. QED
      BY <2>3, <2>4, <3>1 DEF LoaderOK
  <2>10. LoadersSound'
    BY <1>1, <1>2, <2>1, <2>3, <2>4, <2>9, LoaderGoesOn
  <2>11. EngineTypes'
    BY <1>1, <1>2, <2>1, <2>4, <2>6, GoEffect DEF EngineTypes
  <2>12. QED
    BY <2>8, <2>10, <2>11 DEF EngineSound
<1>6. QED
  BY <1>4, <1>5

\* The entry goes.
LEMMA DeleteKeeps ==
  ASSUME EngineSound, NEW t \in Tasks, DeleteService(t)
  PROVE  EngineSound'
<1> DEFINE new == [task[t] EXCEPT !.pc = "close"]
<1>1. /\ task[t].pc = "delete" /\ UNCHANGED <<up, inst, file>> /\ task' = [task EXCEPT ![t] = new]
      /\ services' = [services EXCEPT ![inst[task[t].made].svc] = 0]
  BY DEF DeleteService, Pc, certVars, Go
<1>2. /\ EngineTypes /\ Booked /\ LoadersSound /\ ~Idle(t) /\ task[t] \in TaskRecords /\ LoaderOK(task[t])
  BY <1>1, LoaderOf
<1>3. Deleting(task[t])
  BY <1>1, <1>2 DEF LoaderOK
<1>4. PICK j \in DOMAIN inst : j = task[t].made /\ inst[j] \in Instances
  BY <1>2, <1>3 DEF Deleting, EngineTypes
<1>5. PICK s \in ServiceNames : s = inst[j].svc
  BY <1>4 DEF Instances
<1>6. /\ task[t].k = 1 /\ Held({}) /\ services[s] = j /\ ~inst[j].open
      /\ \A o \in ServiceNames : services[o] # 0 => o \in task[t].todo \/ o = s
  BY <1>3, <1>4, <1>5 DEF Deleting
<1>7. /\ new \in TaskRecords /\ new.pc = "close" /\ new.by = task[t].by /\ new.k = 1 /\ new.todo = task[t].todo
  BY <1>2, <1>6 DEF TaskRecords
<1> HIDE DEF new
<1>8. PICK r \in TaskRecords : r = new
  BY <1>7
<1>9. /\ services' \in [ServiceNames -> Nat] /\ services'[s] = 0
      /\ \A o \in ServiceNames : o # s => services'[o] = services[o]
  BY <1>1, <1>2, <1>4, <1>5 DEF EngineTypes
<1>10. Held({})'
  <2> SUFFICES ASSUME NEW i \in DOMAIN inst, inst[i].open PROVE services'[inst[i].svc] = i
    BY <1>1 DEF Held
  <2>1. inst[i] \in Instances
    BY <1>2 DEF EngineTypes
  <2>2. services[inst[i].svc] = i /\ i # j
    BY <1>6 DEF Held
  <2>3. inst[i].svc \in ServiceNames
    BY <2>1 DEF Instances
  <2>4. QED
    BY <1>6, <1>9, <2>2, <2>3
<1>11. \A o \in ServiceNames : services'[o] # 0 => o \in r.todo
  BY <1>6, <1>7, <1>8, <1>9
<1>12. Booked'
  BY <1>1, <1>2, <1>9 DEF Booked
<1>13. LoaderOK(r)'
  <2>1. CASE r.todo # {}
    BY <1>7, <1>8, <1>10, <1>11, <2>1 DEF LoaderOK, Closing
  <2>2. CASE r.todo = {}
    <3>1. BuiltUp(0, {})'
      BY <1>10, <1>11, <2>2 DEF BuiltUp, First, Distinct
    <3>2. r.k - 1 = 0 /\ r.k \in 1 .. Len(ServiceOrder) + 1
      BY <1>7, <1>8, EngineAssumption
    <3>3. QED
      BY <1>7, <1>8, <2>2, <3>1, <3>2 DEF LoaderOK, Refilling
  <2>3. QED
    BY <2>1, <2>2
<1>14. LoadersSound'
  BY <1>1, <1>2, <1>7, <1>8, <1>13, LoaderGoesOn
<1>15. EngineTypes'
  BY <1>1, <1>2, <1>8, <1>9, GoEffect DEF EngineTypes
<1>16. QED
  BY <1>12, <1>14, <1>15 DEF EngineSound

\* The services in their order.
LEMMA OrderFacts ==
  /\ Len(ServiceOrder) \in Nat /\ First(0) = {} /\ First(Len(ServiceOrder)) = ServiceNames
  /\ \A k \in 1 .. Len(ServiceOrder) :
       /\ ServiceOrder[k] \in ServiceNames /\ k - 1 \in Nat
       /\ First(k) = First(k - 1) \cup {ServiceOrder[k]}
       /\ Distinct(Len(ServiceOrder)) => ServiceOrder[k] \notin First(k - 1)
       /\ Distinct(k - 1) /\ ServiceOrder[k] \notin First(k - 1) => Distinct(k)
<1>1. Len(ServiceOrder) \in Nat
  BY EngineAssumption
<1>2. First(0) = {} /\ First(Len(ServiceOrder)) = ServiceNames
  BY DEF First, ServiceNames
<1>3. ASSUME NEW k \in 1 .. Len(ServiceOrder)
      PROVE  /\ ServiceOrder[k] \in ServiceNames /\ k - 1 \in Nat
             /\ First(k) = First(k - 1) \cup {ServiceOrder[k]}
             /\ Distinct(Len(ServiceOrder)) => ServiceOrder[k] \notin First(k - 1)
             /\ Distinct(k - 1) /\ ServiceOrder[k] \notin First(k - 1) => Distinct(k)
  <2>1. \A i \in 1 .. k : i \in 1 .. k - 1 \/ i = k
    BY <1>1
  <2>2. \A i \in 1 .. k - 1 : i \in 1 .. k /\ i \in 1 .. Len(ServiceOrder) /\ i # k
    BY <1>1
  <2>3. ServiceOrder[k] \in ServiceNames /\ k - 1 \in Nat /\ k \in 1 .. k
    BY DEF ServiceNames
  <2>4. First(k) = First(k - 1) \cup {ServiceOrder[k]}
    BY <2>1, <2>2, <2>3 DEF First
  <2>5. Distinct(Len(ServiceOrder)) => ServiceOrder[k] \notin First(k - 1)
    BY <2>2 DEF First, Distinct
  <2>6. Distinct(k - 1) /\ ServiceOrder[k] \notin First(k - 1) => Distinct(k)
    BY <2>1 DEF First, Distinct
  <2>7. QED
    BY <2>3, <2>4, <2>5, <2>6
<1>4. QED
  BY <1>1, <1>2, <1>3

\* The next service's address is free exactly if it has not been made.
LEMMA PortFreeFacts ==
  ASSUME EngineTypes, Booked, NEW k \in 1 .. Len(ServiceOrder), BuiltUp(k - 1, {})
  PROVE  PortFree(ServiceOrder[k]) <=> ServiceOrder[k] \notin First(k - 1)
<1> DEFINE s == ServiceOrder[k]
<1>1. s \in ServiceNames
  BY OrderFacts
<1> HIDE DEF s
<1>2. ASSUME s \in First(k - 1) PROVE ~PortFree(s)
  <2>1. Serves(s, 0)
    BY <1>1, <1>2 DEF BuiltUp
  <2>2. services[s] \in DOMAIN inst /\ inst[services[s]].svc = s /\ inst[services[s]].open
    BY <1>1, <2>1 DEF Serves, Booked
  <2>3. QED
    BY <2>2 DEF PortFree
<1>3. ASSUME s \notin First(k - 1) PROVE PortFree(s)
  <2>1. services[s] = 0
    BY <1>1, <1>3 DEF BuiltUp
  <2>2. ASSUME NEW i \in DOMAIN inst, inst[i].svc = s PROVE ~inst[i].open
    <3>1. i # 0
      BY DEF EngineTypes
    <3>2. QED
      BY <2>1, <2>2, <3>1 DEF BuiltUp, Held
  <2>3. QED
    BY <2>2 DEF PortFree
<1>4. QED
  BY <1>2, <1>3 DEF s

\* A listener is bound.  It finds its address free, or the process does not start.
LEMMA BindKeeps ==
  ASSUME EngineSound, NEW t \in Tasks, BindListener(t), Orderly'
  PROVE  EngineSound'
<1>1. task[t].pc = "close" /\ task[t].todo = {} /\ task[t].k <= Len(ServiceOrder) /\ UNCHANGED <<services, file>>
  BY DEF BindListener, Building, Pc, certVars
<1>2. /\ EngineTypes /\ Booked /\ LoadersSound /\ ~Idle(t) /\ task[t] \in TaskRecords /\ LoaderOK(task[t])
      /\ task[t].by = "start" <=> up = "starting"
      /\ up = "running" => Distinct(Len(ServiceOrder))
  BY <1>1, LoaderOf
<1>3. PICK k \in 1 .. Len(ServiceOrder) : k = task[t].k /\ BuiltUp(k - 1, {})
  <2>1. Refilling(task[t])
    BY <1>1, <1>2 DEF LoaderOK
  <2>2. task[t].k \in 1 .. Len(ServiceOrder)
    BY <1>1, <2>1, OrderFacts DEF Refilling
  <2>3. QED
    BY <2>1, <2>2 DEF Refilling
<1>4. PortFree(ServiceOrder[k]) <=> ServiceOrder[k] \notin First(k - 1)
  BY <1>2, <1>3, PortFreeFacts
<1>5. CASE ~PortFree(ServiceOrder[k])
  <2>1. Abort(t)
    BY <1>3, <1>5 DEF BindListener
  <2>2. up = "starting"
    BY <1>2, <1>3, <1>4, <1>5, OrderFacts DEF EngineTypes
  <2>3. up' = "stopped"
    BY <1>2, <2>1, <2>2 DEF Abort
  <2>4. QED
    BY <2>3 DEF Orderly
<1>6. CASE PortFree(ServiceOrder[k])
  <2> DEFINE e == [svc |-> ServiceOrder[k], cert |-> 0, open |-> TRUE, loops |-> 0]
             new == [task[t] EXCEPT !.pc = "init", !.made = Len(inst) + 1]
  <2>1. inst' = Append(inst, e) /\ task' = [task EXCEPT ![t] = new] /\ UNCHANGED up
    BY <1>3, <1>6 DEF BindListener, Go
  <2>2. e \in Instances /\ e.svc = ServiceOrder[k] /\ e.open /\ e.loops = 0
    BY OrderFacts DEF Instances
  <2> HIDE DEF e
  <2>3. PICK m \in Nat : m = Len(inst) + 1
    BY <1>2 DEF EngineTypes
  <2>4. new \in TaskRecords /\ new.pc = "init" /\ new.by = task[t].by /\ new.k = k /\ new.todo = {} /\ new.made = m
    BY <1>1, <1>2, <1>3, <2>3 DEF TaskRecords
  <2> HIDE DEF new
  <2>5. PICK r \in TaskRecords : r = new
    BY <2>4
  <2>6. /\ inst' \in Seq(Instances) /\ DOMAIN inst' = DOMAIN inst \cup {m} /\ m \notin DOMAIN inst
        /\ inst'[m] = e /\ \A i \in DOMAIN inst : inst'[i] = inst[i]
    <3>1. inst \in Seq(Instances)
      BY <1>2 DEF EngineTypes
    <3>2. QED
      BY <2>1, <2>2, <2>3, <3>1
  <2>7. Booked'
    BY <1>1, <1>2, <2>6 DEF Booked
  <2>8. \A s \in ServiceNames : services[s] # 0 => services[s] \in DOMAIN inst
    BY <1>2 DEF Booked
  <2>9. Held({m})'
    BY <1>1, <1>3, <2>6 DEF Held, BuiltUp
  <2>10. BuiltUp(k - 1, {m})'
    <3>1. \A s \in ServiceNames : IF s \in First(k - 1) THEN Serves(s, 0)' ELSE services'[s] = 0
      BY <1>1, <1>3, <2>6, <2>8 DEF BuiltUp, Serves
    <3>2. QED
      BY <1>3, <2>9, <3>1 DEF BuiltUp, First, Distinct
  <2>11. Making(r)'
    BY <1>4, <1>6, <2>2, <2>4, <2>5, <2>6, <2>10 DEF Making, First
  <2>12. LoaderOK(r)'
    BY <2>4, <2>5, <2>11 DEF LoaderOK
  <2>13. LoadersSound'
    BY <1>2, <2>1, <2>4, <2>5, <2>12, LoaderGoesOn
  <2>14. EngineTypes'
    BY <1>1, <1>2, <2>1, <2>5, <2>6, GoEffect DEF EngineTypes
  <2>15. QED
    BY <2>7, <2>13, <2>14 DEF EngineSound
<1>7. QED
  BY <1>5, <1>6

\* The handler reads the certificate; a reload that finds it torn is excused.
LEMMA InitKeeps ==
  ASSUME TroubleTyped, EngineSound, NEW t \in Tasks, InitHandler(t), Orderly'
  PROVE  EngineSound'
<1> DEFINE injected == task[t].inject /\ inst[task[t].made].svc \in Proxies
           gen == IF injected THEN file["cert"].gen ELSE 0
           new == [task[t] EXCEPT !.pc = "register"]
<1>1. task[t].pc = "init" /\ UNCHANGED <<services, file>>
  BY DEF InitHandler, Pc, certVars
<1>2. /\ EngineTypes /\ Booked /\ LoadersSound /\ ~Idle(t) /\ task[t] \in TaskRecords /\ LoaderOK(task[t])
  BY <1>1, LoaderOf
<1>3. /\ inst' = [inst EXCEPT ![task[t].made].cert = gen]
      /\ task' = [task EXCEPT ![t] = new] /\ UNCHANGED up
  <2>1. CASE injected /\ ~Readable
    <3>1. Excuse("unreadable")
      BY <2>1 DEF InitHandler
    <3>2. "unreadable" \in trouble'.why
      BY <3>1, ExcuseEffect DEF Causes
    <3>3. QED
      BY <3>2 DEF Orderly
  <2>2. CASE ~(injected /\ ~Readable)
    BY <2>2 DEF InitHandler, Go
  <2>3. QED
    BY <2>1, <2>2
<1>4. Making(task[t])
  BY <1>1, <1>2 DEF LoaderOK
<1>5. PICK m \in DOMAIN inst : m = task[t].made /\ inst[m] \in Instances
  BY <1>2, <1>4 DEF Making, EngineTypes
<1>6. gen \in Nat
  BY <1>2 DEF EngineTypes
<1> HIDE DEF gen, injected
<1>7. PICK e \in Instances : /\ inst' = [inst EXCEPT ![m] = e] /\ e.svc = inst[m].svc
                             /\ e.open = inst[m].open /\ e.loops = inst[m].loops
  <2> DEFINE e == [inst[m] EXCEPT !.cert = gen]
  <2>1. e \in Instances /\ e.svc = inst[m].svc /\ e.loops = inst[m].loops
    BY <1>5, <1>6 DEF Instances
  <2>2. e.open = inst[m].open
    BY <1>5 DEF Instances
  <2>3. inst' = [inst EXCEPT ![m] = e]
    BY <1>2, <1>3, <1>5 DEF EngineTypes, Instances
  <2>4. QED
    BY <2>1, <2>2, <2>3
<1>8. /\ inst' \in Seq(Instances) /\ DOMAIN inst' = DOMAIN inst /\ inst'[m] = e
      /\ \A i \in DOMAIN inst : i # m => inst'[i] = inst[i]
  BY <1>2, <1>7, InstEffect DEF EngineTypes
<1>9. \A i \in DOMAIN inst : /\ inst'[i].svc = inst[i].svc /\ inst'[i].loops = inst[i].loops
                             /\ inst'[i].open = inst[i].open
  BY <1>7, <1>8
<1>10. Booked'
  BY <1>1, <1>2, <1>8, <1>9 DEF Booked
<1>11. new \in TaskRecords /\ new.pc = "register" /\ new.by = task[t].by /\ new.k = task[t].k
       /\ new.todo = task[t].todo /\ new.made = m
  BY <1>2, <1>5 DEF TaskRecords
<1> HIDE DEF new
<1>12. PICK r \in TaskRecords : r = new
  BY <1>11
<1>13. \A b : Held(b) => Held(b)'
  BY <1>1, <1>8, <1>9 DEF Held
<1>14. \A s \in ServiceNames : Serves(s, 0) => Serves(s, 0)'
  BY <1>1, <1>2, <1>9 DEF Serves, Booked
<1>15. BuiltUp(r.k - 1, {m})'
  <2>1. BuiltUp(r.k - 1, {m})
    BY <1>4, <1>5, <1>11, <1>12 DEF Making
  <2>2. \A s \in ServiceNames : IF s \in First(r.k - 1) THEN Serves(s, 0)' ELSE services'[s] = 0
    BY <1>1, <1>14, <2>1 DEF BuiltUp
  <2>3. Distinct(r.k - 1)' /\ Held({m})'
    BY <1>13, <2>1 DEF BuiltUp, Distinct
  <2>4. QED
    BY <2>2, <2>3 DEF BuiltUp, First
<1>16. Making(r)'
  BY <1>4, <1>5, <1>8, <1>9, <1>11, <1>12, <1>15 DEF Making, First
<1>17. LoaderOK(r)'
  BY <1>11, <1>12, <1>16 DEF LoaderOK
<1>18. LoadersSound'
  BY <1>2, <1>3, <1>11, <1>12, <1>17, LoaderGoesOn
<1>19. EngineTypes'
  BY <1>1, <1>2, <1>3, <1>8, <1>12, GoEffect DEF EngineTypes
<1>20. QED
  BY <1>10, <1>18, <1>19 DEF EngineSound

\* The service is registered; its name is free, since nobody else loads.
LEMMA RegisterKeeps ==
  ASSUME EngineSound, NEW t \in Tasks, RegisterService(t)
  PROVE  EngineSound'
<1>1. task[t].pc = "register" /\ UNCHANGED <<inst, file>>
  BY DEF RegisterService, Pc, certVars
<1>2. /\ EngineTypes /\ Booked /\ LoadersSound /\ ~Idle(t) /\ task[t] \in TaskRecords /\ LoaderOK(task[t])
  BY <1>1, LoaderOf
<1>3. Making(task[t])
  BY <1>1, <1>2 DEF LoaderOK
<1>4. PICK k \in 1 .. Len(ServiceOrder) : k = task[t].k
  BY <1>3 DEF Making
<1>5. PICK m \in DOMAIN inst : m = task[t].made /\ m \in Nat /\ m # 0
  BY <1>2, <1>3 DEF Making, EngineTypes
<1>6. PICK s \in ServiceNames : s = ServiceOrder[k] /\ s = inst[m].svc /\ s \notin First(k - 1)
  BY <1>3, <1>4, <1>5, OrderFacts DEF Making
<1>7. task[t].todo = {} /\ inst[m].open /\ inst[m].loops = 0 /\ BuiltUp(k - 1, {m})
  BY <1>3, <1>4, <1>5 DEF Making
<1>8. services[s] = 0
  BY <1>6, <1>7 DEF BuiltUp
<1> DEFINE new == [task[t] EXCEPT !.pc = "close", !.k = task[t].k + 1]
<1>9. services' = [services EXCEPT ![s] = m] /\ task' = [task EXCEPT ![t] = new] /\ UNCHANGED up
  BY <1>5, <1>6, <1>8 DEF RegisterService, Go
<1>10. new \in TaskRecords /\ new.pc = "close" /\ new.by = task[t].by /\ new.k = k + 1 /\ new.todo = {}
  <2>1. task[t].k + 1 \in Nat /\ task[t].k + 1 = k + 1
    BY <1>4, OrderFacts
  <2>2. QED
    BY <1>2, <1>7, <2>1 DEF TaskRecords
<1> HIDE DEF new
<1>11. PICK r \in TaskRecords : r = new
  BY <1>10
<1>12. /\ services' \in [ServiceNames -> Nat] /\ services'[s] = m
       /\ \A o \in ServiceNames : o # s => services'[o] = services[o]
  BY <1>2, <1>5, <1>9 DEF EngineTypes
<1>13. Booked'
  BY <1>1, <1>2, <1>5, <1>6, <1>12 DEF Booked
<1>14. Held({})'
  <2> SUFFICES ASSUME NEW i \in DOMAIN inst, inst[i].open PROVE services'[inst[i].svc] = i
    BY <1>1 DEF Held
  <2>1. CASE i = m
    BY <1>6, <1>12, <2>1
  <2>2. CASE i # m
    <3>1. services[inst[i].svc] = i
      BY <1>7, <2>2 DEF BuiltUp, Held
    <3>2. inst[i] \in Instances /\ i # 0
      BY <1>2 DEF EngineTypes
    <3>3. QED
      BY <1>8, <1>12, <3>1, <3>2 DEF Instances
  <2>3. QED
    BY <2>1, <2>2
<1>15. BuiltUp(k, {})'
  <2>1. Distinct(k)
    <3>1. Distinct(k - 1) /\ ServiceOrder[k] \notin First(k - 1)
      BY <1>6, <1>7 DEF BuiltUp
    <3>2. Distinct(k - 1) /\ ServiceOrder[k] \notin First(k - 1) => Distinct(k)
      BY OrderFacts, Zenon
    <3>3. QED
      BY <3>1, <3>2
  <2>2. First(k) = First(k - 1) \cup {s}
    BY <1>6, OrderFacts
  <2>3. \A o \in ServiceNames : IF o \in First(k) THEN Serves(o, 0)' ELSE services'[o] = 0
    <3> SUFFICES ASSUME NEW o \in ServiceNames
                 PROVE  IF o \in First(k) THEN Serves(o, 0)' ELSE services'[o] = 0
      OBVIOUS
    <3>1. CASE o = s
      BY <1>1, <1>5, <1>7, <1>12, <2>2, <3>1 DEF Serves
    <3>2. CASE o # s
      BY <1>1, <1>7, <1>12, <2>2, <3>2 DEF BuiltUp, Serves
    <3>3. QED
      BY <3>1, <3>2
  <2>4. QED
    BY <1>14, <2>1, <2>3 DEF BuiltUp, First, Distinct
<1>16. r.k \in 1 .. Len(ServiceOrder) + 1 /\ r.k - 1 = k
  BY <1>10, <1>11, OrderFacts
<1>17. LoaderOK(r)'
  BY <1>10, <1>11, <1>15, <1>16 DEF LoaderOK, Refilling
<1>18. LoadersSound'
  BY <1>2, <1>9, <1>10, <1>11, <1>17, LoaderGoesOn
<1>19. EngineTypes'
  BY <1>1, <1>2, <1>9, <1>11, <1>12, GoEffect DEF EngineTypes
<1>20. QED
  BY <1>13, <1>18, <1>19 DEF EngineSound

\* Everything is registered, and each instance gets its accept loop.
LEMMA ServeKeeps ==
  ASSUME EngineSound, NEW t \in Tasks, ServeAll(t)
  PROVE  EngineSound'
<1> DEFINE served(i) == services[inst[i].svc] = i /\ inst[i].open
           next == IF task[t].by = "start" THEN "wire" ELSE "note"
           new == [task[t] EXCEPT !.pc = next, !.k = 1]
<1>1. /\ task[t].pc = "close" /\ task[t].todo = {} /\ task[t].k > Len(ServiceOrder)
      /\ UNCHANGED <<up, services, file>> /\ task' = [task EXCEPT ![t] = new]
      /\ inst' = [i \in DOMAIN inst |-> IF served(i) THEN [inst[i] EXCEPT !.loops = inst[i].loops + 1] ELSE inst[i]]
  BY DEF ServeAll, Pc, certVars, Go
<1>2. /\ EngineTypes /\ Booked /\ LoadersSound /\ ~Idle(t) /\ task[t] \in TaskRecords /\ LoaderOK(task[t])
  BY <1>1, LoaderOf
<1>3. BuiltUp(Len(ServiceOrder), {})
  <2>1. Refilling(task[t])
    BY <1>1, <1>2 DEF LoaderOK
  <2>2. task[t].k - 1 = Len(ServiceOrder)
    BY <1>1, <2>1, OrderFacts DEF Refilling
  <2>3. QED
    BY <2>1, <2>2 DEF Refilling
<1>4. Held({}) /\ Distinct(Len(ServiceOrder)) /\ \A s \in ServiceNames : Serves(s, 0)
  BY <1>3, OrderFacts DEF BuiltUp
<1>5. \A i \in DOMAIN inst :
        /\ inst'[i] \in Instances /\ inst'[i].svc = inst[i].svc
        /\ inst'[i].loops = IF served(i) THEN inst[i].loops + 1 ELSE inst[i].loops
  <2> SUFFICES ASSUME NEW i \in DOMAIN inst
               PROVE  /\ inst'[i] \in Instances /\ inst'[i].svc = inst[i].svc
                      /\ inst'[i].loops = IF served(i) THEN inst[i].loops + 1 ELSE inst[i].loops
    OBVIOUS
  <2>1. inst[i] \in Instances
    BY <1>2 DEF EngineTypes
  <2>2. inst'[i] = IF served(i) THEN [inst[i] EXCEPT !.loops = inst[i].loops + 1] ELSE inst[i]
    BY <1>1
  <2> HIDE DEF served
  <2>3. QED
    BY <2>1, <2>2 DEF Instances
<1>6. \A i \in DOMAIN inst : inst'[i].open = inst[i].open
  <2> SUFFICES ASSUME NEW i \in DOMAIN inst PROVE inst'[i].open = inst[i].open
    OBVIOUS
  <2>1. inst[i] \in Instances
    BY <1>2 DEF EngineTypes
  <2>2. inst'[i] = IF served(i) THEN [inst[i] EXCEPT !.loops = inst[i].loops + 1] ELSE inst[i]
    BY <1>1
  <2> HIDE DEF served
  <2>3. QED
    BY <2>1, <2>2 DEF Instances
<1>7. DOMAIN inst' = DOMAIN inst /\ inst' \in Seq(Instances)
  <2>1. DOMAIN inst' = DOMAIN inst /\ DOMAIN inst = 1 .. Len(inst) /\ Len(inst) \in Nat
    BY <1>1, <1>2 DEF EngineTypes
  <2>2. inst' \in [1 .. Len(inst) -> Instances]
    BY <1>1, <1>5, <2>1
  <2>3. QED
    BY <2>1, <2>2
<1>8. Booked'
  BY <1>1, <1>2, <1>5, <1>7 DEF Booked
<1>9. Full'
  <2>1. Held({})'
    BY <1>1, <1>4, <1>5, <1>6, <1>7 DEF Held
  <2>2. ASSUME NEW s \in ServiceNames PROVE Serves(s, 1)'
    <3>1. services[s] # 0 /\ inst[services[s]].open /\ inst[services[s]].loops = 0
      BY <1>4 DEF Serves
    <3>2. PICK j \in DOMAIN inst : j = services[s] /\ inst[j].svc = s
      BY <1>2, <3>1 DEF Booked
    <3>3. served(j)
      BY <3>1, <3>2
    <3>4. inst'[j].loops = 1 /\ inst'[j].open
      BY <1>5, <1>6, <3>1, <3>2, <3>3
    <3>5. QED
      BY <1>1, <3>1, <3>2, <3>4 DEF Serves
  <2>3. QED
    BY <2>1, <2>2 DEF Full
<1>10. new \in TaskRecords /\ new.pc = next /\ new.by = task[t].by
  BY <1>2 DEF TaskRecords
<1>11. next = (IF task[t].by = "start" THEN "wire" ELSE "note")
  OBVIOUS
<1> HIDE DEF new, next
<1>12. PICK r \in TaskRecords : r = new
  BY <1>10
<1>13. Distinct(Len(ServiceOrder))'
  BY <1>4 DEF Distinct
<1>14. LoaderOK(r)'
  BY <1>9, <1>10, <1>11, <1>12, <1>13 DEF LoaderOK
<1>15. LoadersSound'
  BY <1>1, <1>2, <1>10, <1>11, <1>12, <1>14, LoaderGoesOn
<1>16. EngineTypes'
  BY <1>1, <1>2, <1>7, <1>12, GoEffect DEF EngineTypes
<1>17. QED
  BY <1>8, <1>15, <1>16 DEF EngineSound

\* An idle goroutine.
LEMMA IdleRecord == IdleTask \in TaskRecords /\ IdleTask.pc = "idle" /\ IdleTask.by = "none"
BY DEF IdleTask, TaskRecords

\* The plugins go in, and the last one ends the start.
LEMMA WireKeeps ==
  ASSUME EngineSound, NEW t \in Tasks, RegisterPlugin(t)
  PROVE  EngineSound'
<1>1. task[t].pc = "wire" /\ UNCHANGED <<services, inst, file>>
  BY DEF RegisterPlugin, Pc, certVars
<1>2. /\ EngineTypes /\ Booked /\ LoadersSound /\ ~Idle(t) /\ task[t] \in TaskRecords /\ LoaderOK(task[t])
  BY <1>1, LoaderOf
<1>3. Full /\ Distinct(Len(ServiceOrder)) /\ task[t].by = "start"
  BY <1>1, <1>2 DEF LoaderOK
<1>4. Full' /\ Booked' /\ Distinct(Len(ServiceOrder))'
  BY <1>1, <1>2, <1>3, RegistryUntouched DEF Distinct
<1>5. CASE task[t].k < Len(PluginOrder)
  <2> DEFINE new == [task[t] EXCEPT !.k = task[t].k + 1]
  <2>1. task' = [task EXCEPT ![t] = new] /\ UNCHANGED up
    BY <1>5 DEF RegisterPlugin, Go
  <2>2. new \in TaskRecords /\ new.pc = "wire" /\ new.by = task[t].by
    BY <1>1, <1>2 DEF TaskRecords
  <2> HIDE DEF new
  <2>3. PICK r \in TaskRecords : r = new
    BY <2>2
  <2>4. LoaderOK(r)'
    BY <1>3, <1>4, <2>2, <2>3 DEF LoaderOK
  <2>5. LoadersSound'
    BY <1>2, <2>1, <2>2, <2>3, <2>4, LoaderGoesOn
  <2>6. EngineTypes'
    BY <1>1, <1>2, <2>1, <2>3, GoEffect DEF EngineTypes
  <2>7. QED
    BY <1>4, <2>5, <2>6 DEF EngineSound
<1>6. CASE ~(task[t].k < Len(PluginOrder))
  <2>1. task' = [task EXCEPT ![t] = IdleTask] /\ up' = "running"
    BY <1>6 DEF RegisterPlugin, Go
  <2>2. LoadersSound'
    BY <1>2, <1>3, <1>4, <2>1, LoaderEnds
  <2>3. EngineTypes'
    BY <1>1, <1>2, <2>1, GoEffect, IdleRecord DEF EngineTypes
  <2>4. QED
    BY <1>4, <2>2, <2>3 DEF EngineSound
<1>7. QED
  BY <1>5, <1>6

\* A reload ends.
LEMMA NoteKeeps ==
  ASSUME EngineSound, NEW t \in Tasks, NoteMtime(t)
  PROVE  EngineSound'
<1>1. task[t].pc = "note" /\ UNCHANGED <<up, services, inst, file>> /\ task' = [task EXCEPT ![t] = IdleTask]
  BY DEF NoteMtime, Pc, registryVars, certVars, Go
<1>2. /\ EngineTypes /\ Booked /\ LoadersSound /\ ~Idle(t) /\ task[t] \in TaskRecords /\ LoaderOK(task[t])
      /\ task[t].by = "start" <=> up = "starting"
  BY <1>1, LoaderOf
<1>3. Full /\ Distinct(Len(ServiceOrder)) /\ task[t].by # "start"
  BY <1>1, <1>2 DEF LoaderOK
<1>4. Full' /\ Booked'
  BY <1>1, <1>2, <1>3, RegistryUntouched
<1>5. up' = "running"
  BY <1>1, <1>2, <1>3 DEF EngineTypes
<1>6. LoadersSound'
  BY <1>1, <1>2, <1>3, <1>4, <1>5, LoaderEnds
<1>7. EngineTypes'
  BY <1>1, <1>2, GoEffect, IdleRecord DEF EngineTypes
<1>8. QED
  BY <1>4, <1>6, <1>7 DEF EngineSound

\* A configuration that cannot be read excuses its reload.
LEMMA ParseFailExcused ==
  ASSUME TroubleTyped, NEW t \in Tasks, ParseFails(t)
  PROVE  ~Orderly'
<1>1. "parse" \in trouble'.why
  BY ExcuseEffect DEF ParseFails, Causes
<1>2. QED
  BY <1>1 DEF Orderly

\* A reload begins; if another is under way, they excuse each other.
LEMMA ReloadKeeps ==
  ASSUME TroubleTyped, EngineSound, NEW t \in Tasks, NEW by \in {"signal", "timer", "api"},
         StartReload(t, by), UNCHANGED <<up, services, inst, file>>, Orderly'
  PROVE  EngineSound'
<1> DEFINE new == [IdleTask EXCEPT !.pc = "parse", !.by = by]
<1>1. /\ up = "running" /\ Idle(t) /\ task' = [task EXCEPT ![t] = new]
      /\ trouble' = [reloads |-> trouble.reloads + 1,
                     why |-> trouble.why \cup (IF \A u \in Tasks : Idle(u) THEN {} ELSE {"overlap"})]
  BY DEF StartReload, Go
<1>2. \A u \in Tasks : Idle(u)
  <2> SUFFICES ASSUME ~(\A u \in Tasks : Idle(u)) PROVE FALSE
    OBVIOUS
  <2>1. "overlap" \in trouble'.why
    BY <1>1
  <2>2. QED
    BY <2>1 DEF Orderly
<1>3. EngineTypes /\ Booked /\ LoadersSound
  BY DEF EngineSound
<1>4. Full /\ Distinct(Len(ServiceOrder))
  BY <1>1, <1>2, <1>3 DEF LoadersSound
<1>5. new \in TaskRecords /\ new.pc = "parse" /\ new.by = by
  BY DEF IdleTask, TaskRecords
<1> HIDE DEF new
<1>6. PICK r \in TaskRecords : r = new
  BY <1>5
<1>7. task' \in [Tasks -> TaskRecords] /\ task'[t] = r /\ \A u \in Tasks \ {t} : task'[u] = task[u]
  BY <1>1, <1>3, <1>6, GoEffect
<1>8. Full' /\ Booked' /\ Distinct(Len(ServiceOrder))'
  BY <1>3, <1>4, RegistryUntouched DEF Distinct
<1>9. LoaderOK(task[t])'
  <2>1. task'[t].pc = "parse" /\ task'[t].by # "start"
    BY <1>5, <1>6, <1>7
  <2>2. QED
    BY <1>8, <2>1 DEF LoaderOK
<1>10. \A u \in Tasks : Idle(u)' <=> u # t
  BY <1>2, <1>5, <1>6, <1>7 DEF Idle
<1>11. task'[t].by # "start" /\ up' = "running"
  BY <1>1, <1>5, <1>6, <1>7
<1>12. LoadersSound'
  BY <1>8, <1>9, <1>10, <1>11 DEF LoadersSound
<1>13. EngineTypes'
  BY <1>3, <1>7 DEF EngineTypes
<1>14. QED
  BY <1>8, <1>12, <1>13 DEF EngineSound

\* What starts a reload changes nothing else that the loaders know of.
LEMMA ReloadOf ==
  ASSUME NEW t \in Tasks, TakeSignal(t) \/ DebounceFires(t) \/ CertReload(t)
  PROVE  /\ \E by \in {"signal", "timer", "api"} : StartReload(t, by)
         /\ UNCHANGED <<up, services, inst, file>>
BY DEF TakeSignal, DebounceFires, CertReload, registryVars, certVars

\* What the loaders do not see: writers of the certificate, signals and clients.
LEMMA OthersKeep ==
  ASSUME EngineSound,
         \/ WriterStep \/ Sighup \/ UNCHANGED engineVars
         \/ \E v \in Visitors : VisitorAsks(v) \/ \E i \in DOMAIN inst : AcceptVisit(v, i)
  PROVE  EngineSound'
<1>1. EngineTypes /\ Booked /\ LoadersSound
  BY DEF EngineSound
<1>2. UNCHANGED <<up, services, inst, task>>
  BY DEF WriterStep, OpenFile, EncodeFile, Sighup, VisitorAsks, AcceptVisit, engineVars, registryVars, certVars
<1>3. file' \in [{"cert", "key"} -> [gen : Nat, whole : BOOLEAN]]
  <2>1. CASE OpenFile
    <3> DEFINE e == [gen |-> file[Current].gen + 1, whole |-> FALSE]
    <3>1. file' = [file EXCEPT ![Current] = e]
      BY <2>1 DEF OpenFile
    <3>2. Current \in {"cert", "key"}
      BY DEF Current
    <3>3. e \in [gen : Nat, whole : BOOLEAN]
      BY <1>1, <3>2 DEF EngineTypes
    <3> HIDE DEF e
    <3>4. QED
      BY <1>1, <3>1, <3>3 DEF EngineTypes
  <2>2. ASSUME NEW f \in {"cert", "key"}, EncodeFile(f)
        PROVE  file' \in [{"cert", "key"} -> [gen : Nat, whole : BOOLEAN]]
    <3> DEFINE e == [file[f] EXCEPT !.whole = TRUE]
    <3>1. file' = [file EXCEPT ![f] = e]
      BY <2>2 DEF EncodeFile
    <3>2. e \in [gen : Nat, whole : BOOLEAN]
      BY <1>1 DEF EngineTypes
    <3> HIDE DEF e
    <3>3. QED
      BY <1>1, <3>1, <3>2 DEF EngineTypes
  <2>3. CASE Sighup \/ UNCHANGED engineVars
                 \/ \E v \in Visitors : VisitorAsks(v) \/ \E i \in DOMAIN inst : AcceptVisit(v, i)
    BY <1>1, <2>3 DEF EngineTypes, Sighup, VisitorAsks, AcceptVisit, engineVars, certVars
  <2>4. QED
    BY <2>1, <2>2, <2>3 DEF WriterStep
<1>4. QED
  BY <1>1, <1>2, <1>3, LoadersUntouched DEF EngineSound

\* What a step does to the history: nothing, an excuse, or one more reload.
LEMMA TroubleOf ==
  ASSUME [EngineNext]_engineVars, TroubleTyped
  PROVE  /\ up = "stopped" => up' = "stopped"
         /\ \/ trouble' = trouble \/ (\E w \in Causes : Excuse(w))
            \/ \E w \in SUBSET Causes : trouble' = [reloads |-> trouble.reloads + 1, why |-> trouble.why \cup w]
<1> DEFINE Goal == /\ up = "stopped" => up' = "stopped"
                   /\ \/ trouble' = trouble \/ (\E w \in Causes : Excuse(w))
                      \/ \E w \in SUBSET Causes :
                           trouble' = [reloads |-> trouble.reloads + 1, why |-> trouble.why \cup w]
<1>1. ASSUME NEW t \in Tasks, LoadStep(t) PROVE Goal
  <2>1. up # "stopped"
    BY <1>1 DEF LoadStep, ParseConfig, ParseFails, UnregisterPlugin, DeleteService, BindListener, Building,
                InitHandler, RegisterService, ServeAll, RegisterPlugin, NoteMtime, CloseService, Pc
  <2>2. trouble' = trouble \/ (\E w \in Causes : Excuse(w))
    BY <1>1 DEF LoadStep, ParseConfig, ParseFails, UnregisterPlugin, DeleteService, BindListener, InitHandler,
                RegisterService, ServeAll, RegisterPlugin, NoteMtime, CloseService, Causes
  <2>3. QED
    BY <2>1, <2>2
<1>2. ASSUME NEW t \in Tasks, TakeSignal(t) \/ DebounceFires(t) \/ CertReload(t) PROVE Goal
  <2>1. PICK by : StartReload(t, by)
    BY <1>2, ReloadOf
  <2>2. up # "stopped"
    BY <2>1 DEF StartReload
  <2> DEFINE w == IF \A u \in Tasks : Idle(u) THEN {} ELSE {"overlap"}
  <2>3. trouble' = [reloads |-> trouble.reloads + 1, why |-> trouble.why \cup w] /\ w \in SUBSET Causes
    BY <2>1 DEF StartReload, Causes
  <2> HIDE DEF w
  <2>4. QED
    BY <2>2, <2>3
<1>3. CASE WriterStep
  <2>1. up # "stopped"
    BY <1>3 DEF WriterStep, OpenFile, EncodeFile
  <2>2. \E f : WatchEvent(f)
    BY <1>3 DEF WriterStep, OpenFile, EncodeFile
  <2>3. trouble' = trouble \/ Excuse("unwatched")
    BY <2>2 DEF WatchEvent
  <2>4. QED
    BY <2>1, <2>3 DEF Causes
<1>4. CASE Sighup \/ StopEngine \/ UNCHANGED engineVars
                \/ \E v \in Visitors : VisitorAsks(v) \/ \E i \in DOMAIN inst : AcceptVisit(v, i)
  BY <1>4 DEF Sighup, StopEngine, VisitorAsks, AcceptVisit, engineVars
<1>5. QED
  BY <1>1, <1>2, <1>3, <1>4 DEF EngineNext

\* Every step of the process keeps the invariant.
LEMMA EngineStep ==
  ASSUME EngineInv, [EngineNext]_engineVars
  PROVE  EngineInv'
<1>1. TroubleTyped
  BY DEF EngineInv
<1>2. TroubleTyped'
  <2>1. CASE trouble' = trouble
    BY <1>1, <2>1 DEF TroubleTyped
  <2>2. CASE \E w \in Causes : Excuse(w)
    BY <1>1, <2>2, ExcuseEffect
  <2>3. CASE \E w \in SUBSET Causes : trouble' = [reloads |-> trouble.reloads + 1, why |-> trouble.why \cup w]
    BY <1>1, <2>3 DEF TroubleTyped
  <2>4. QED
    BY <1>1, <2>1, <2>2, <2>3, TroubleOf
<1>3. ASSUME Orderly' PROVE EngineSound'
  <2>1. Orderly
    <3>1. up = "stopped" => up' = "stopped"
      BY <1>1, TroubleOf
    <3>2. \/ trouble' = trouble \/ (\E w : Excuse(w))
          \/ \E w \in SUBSET Causes : trouble' = [reloads |-> trouble.reloads + 1, why |-> trouble.why \cup w]
      BY <1>1, TroubleOf
    <3>3. QED
      BY <1>1, <1>3, <3>1, <3>2, OrderlyBefore
  <2>2. EngineSound
    BY <2>1 DEF EngineInv
  <2>3. ASSUME NEW t \in Tasks, LoadStep(t) PROVE EngineSound'
    <3>1. CASE ParseConfig(t)
      BY <2>2, <3>1, ParseKeeps
    <3>2. CASE ParseFails(t)
      BY <1>1, <1>3, <3>2, ParseFailExcused
    <3>3. CASE UnregisterPlugin(t)
      BY <2>2, <3>3, UnregisterKeeps
    <3>4. CASE DeleteService(t)
      BY <2>2, <3>4, DeleteKeeps
    <3>5. CASE BindListener(t)
      BY <1>3, <2>2, <3>5, BindKeeps
    <3>6. CASE InitHandler(t)
      BY <1>1, <1>3, <2>2, <3>6, InitKeeps
    <3>7. CASE RegisterService(t)
      BY <2>2, <3>7, RegisterKeeps
    <3>8. CASE ServeAll(t)
      BY <2>2, <3>8, ServeKeeps
    <3>9. CASE RegisterPlugin(t)
      BY <2>2, <3>9, WireKeeps
    <3>10. CASE NoteMtime(t)
      BY <2>2, <3>10, NoteKeeps
    <3>11. CASE \E s \in ServiceNames : CloseService(t, s)
      BY <2>2, <3>11, CloseKeeps
    <3>12. QED
      BY <2>3, <3>1, <3>2, <3>3, <3>4, <3>5, <3>6, <3>7, <3>8, <3>9, <3>10, <3>11 DEF LoadStep
  <2>4. ASSUME NEW t \in Tasks, TakeSignal(t) \/ DebounceFires(t) \/ CertReload(t) PROVE EngineSound'
    BY <1>1, <1>3, <2>2, <2>4, ReloadOf, ReloadKeeps
  <2>5. CASE StopEngine
    BY <1>3, <2>5 DEF StopEngine, Orderly
  <2>6. CASE \/ WriterStep \/ Sighup \/ UNCHANGED engineVars
             \/ \E v \in Visitors : VisitorAsks(v) \/ \E i \in DOMAIN inst : AcceptVisit(v, i)
    BY <2>2, <2>6, OthersKeep
  <2>7. QED
    BY <2>3, <2>4, <2>5, <2>6 DEF EngineNext
<1>4. QED
  BY <1>2, <1>3 DEF EngineInv

\* At the start nothing is registered, and one goroutine loads.
LEMMA EngineStarts ==
  ASSUME EngineInit
  PROVE  EngineInv
<1>1. TroubleTyped
  BY DEF EngineInit, TroubleTyped
<1>2. PICK first \in TaskRecords : first = [IdleTask EXCEPT !.pc = "parse", !.by = "start"]
  BY DEF IdleTask, TaskRecords
<1>3. first.pc = "parse" /\ first.by = "start"
  BY <1>2 DEF IdleTask
<1>4. PICK u : u = CHOOSE v \in Tasks : TRUE
  OBVIOUS
<1>5. task = [t \in Tasks |-> IF t = u THEN first ELSE IdleTask]
  BY <1>2, <1>4 DEF EngineInit
<1>6. EngineTypes
  <2>1. task \in [Tasks -> TaskRecords]
    BY <1>5, IdleRecord
  <2>2. services \in [ServiceNames -> Nat] /\ inst \in Seq(Instances) /\ up = "starting"
    BY DEF EngineInit
  <2>3. file \in [{"cert", "key"} -> [gen : Nat, whole : BOOLEAN]]
    BY DEF EngineInit
  <2>4. QED
    BY <2>1, <2>2, <2>3 DEF EngineTypes
<1>7. Empty /\ Booked /\ up = "starting"
  BY DEF EngineInit, Empty, Booked, Held
<1>8. \A t \in Tasks : ~Idle(t) => t = u /\ task[t] = first
  BY <1>5, IdleRecord DEF Idle
<1>9. LoaderOK(first)
  BY <1>3, <1>7 DEF LoaderOK
<1>10. LoadersSound
  BY <1>3, <1>7, <1>8, <1>9 DEF LoadersSound
<1>11. QED
  BY <1>1, <1>6, <1>7, <1>10 DEF EngineInv, EngineSound

(* The state of the registry is known at every point of a load, as long as *)
(* nothing excuses a reload.                                               *)
THEOREM EngineSafe == EngineSpec => []EngineInv
<1>1. EngineInit => EngineInv
  BY EngineStarts
<1>2. EngineInv /\ [EngineNext]_engineVars => EngineInv'
  BY EngineStep
<1>3. QED
  BY <1>1, <1>2, PTL DEF EngineSpec

(* After any number of reloads that did not run into each other and found  *)
(* what they read readable, every service is registered, holds its address *)
(* alone and has one accept loop: for any list of services, any number of  *)
(* goroutines and reloads.                                                 *)
THEOREM ReloadsServe == EngineSpec => []ReloadServes
<1>1. EngineInv => ReloadServes
  <2> SUFFICES ASSUME EngineInv, Settled, trouble.why \subseteq {"unwatched"}, NEW s \in ServiceNames
               PROVE  /\ services[s] # 0
                      /\ inst[services[s]].open /\ inst[services[s]].loops = 1
                      /\ \A i \in DOMAIN inst : inst[i].svc = s /\ inst[i].open => i = services[s]
    BY DEF ReloadServes
  <2>1. EngineSound
    BY DEF EngineInv, Orderly, Settled
  <2>2. Full
    BY <2>1 DEF EngineSound, LoadersSound, Settled
  <2>3. Serves(s, 1)
    BY <2>2 DEF Full
  <2>4. QED
    BY <2>2, <2>3 DEF Full, Serves, Held
<1>2. QED
  BY <1>1, EngineSafe, PTL

------------------------------------------------------------------------------
(***************************************************************************)
(* The tunnel of a SOCKS5 connection keeps what is sent into it, for every *)
(* set of configurations, lengths and sizes and any number of pieces.      *)
(*                                                                         *)
(* The monitor, and the reads that take more than one message, could lose  *)
(* pieces; they do not because of what is on the wire when they run.       *)
(* HandshakeOK says that the two ends take turns until the request is      *)
(* read, so that nothing lies behind it; EarlyOK that no reply has been    *)
(* sent until the monitor has ended, so that a client that waits has sent  *)
(* nothing; SecureOK that over TLS the replies a client still waits for    *)
(* lie in front of the data.                                               *)
(***************************************************************************)

Kinds == {"methods", "method", "auth", "authResult", "request", "reply", "data"}
Methods == {"noauth", "userpass", "tls", "tlsauth"}
Commands == {"connect", "udp", "udptun", "bind", "mbind", "udpbind", "other"}
Words == {"none", "plain", "ok", "fail", "refused"} \cup Methods \cup Commands
Message == [t : Kinds, what : Words, n : Nat, len : Nat]

ServerPcs == {"methods", "auth", "request", "check", "join", "handle", "tunnel", "halfClosed",
              "serveBind", "serveMux", "relay", "done"}
ClientPcs == {"start", "method", "authReply", "request", "reply", "peer", "open", "closed"}

SocksTypeOK ==
  /\ conf \in Metadata
  /\ srv \in [pc : ServerPcs, method : Words, cmd : Words, verdict : {"none", "allowed", "blocked"},
              monitor : {"off", "reading", "stopping"}]
  /\ cli \in [pc : ClientPcs, gone : BOOLEAN, sent : Nat, eaten : [up : Nat, down : Nat]]
  /\ wire \in [up : Seq(Message), down : Seq(Message)]
  /\ got \in [up : Seq(Nat), down : Seq(Nat)]
  /\ target \in Nat

\* An association: only addresses of the client are noted, and written to.
AssocOK ==
  LET way == {"none", "running", "ended"}
  IN  assoc \in [raddr : OwnSources \cup {"none"}, uplink : way, downlink : way, sentTo : SUBSET OwnSources]

Shaking == srv.pc \in {"methods", "auth", "request"}
Early == Shaking \/ srv.pc \in {"check", "join", "handle"}

\* The ends take turns until the request is read: one message is under way, and
\* only a client that does not wait writes behind its request.
HandshakeOK ==
  Shaking =>
    /\ ~conf.eager \/ cli.pc \notin {"reply", "closed"} => Len(wire.up) + Len(wire.down) <= 1
    /\ cli.pc \in {"start", "request"} => wire.up = <<>> /\ wire.down = <<>>
    /\ cli.pc = "reply" => wire.down = <<>>
    /\ \A i \in DOMAIN wire.up :
         /\ wire.up[i].t = "request" => cli.pc \in {"reply", "closed"}
         /\ wire.up[i].t \in {"methods", "auth"} => cli.pc # "reply"

\* Before the handler replies to the request nobody has been told that it may
\* send, and the monitor runs only then.
EarlyOK ==
  /\ Early => /\ cli.pc \notin {"peer", "open"}
              /\ \A i \in DOMAIN wire.down : wire.down[i].t # "reply"
  /\ Early \/ srv.pc = "serveBind" => target = 0
  /\ srv.pc = "methods" => cli.eaten.down = 0
  /\ srv.monitor # "off" => srv.pc \in {"check", "join"} /\ (~conf.eager => wire.up = <<>>)
  /\ srv.pc \in {"check", "join"} => srv.cmd = "connect"

\* What the client has done so far.
ClientOK ==
  /\ ~Shaking /\ srv.pc # "done" => cli.pc \in {"reply", "peer", "open", "closed"}
  /\ cli.pc \in {"start", "method", "authReply", "request"} => target = 0
  /\ cli.pc = "peer" => srv.cmd = "bind"
  /\ cli.pc \notin {"open", "closed"} => got.down = <<>>
  /\ ~conf.eager /\ cli.pc \notin {"open", "closed"} => cli.sent = 0

\* The first n messages are the protocol's.
Ahead(w, n) == n <= Len(w) /\ \A i \in 1 .. n : w[i].t # "data"

\* Over TLS, the replies that the client waits for lie in front of the data.
SecureOK ==
  Secure =>
    /\ cli.eaten.down = 0
    /\ srv.pc = "serveBind" /\ cli.pc = "reply" => Ahead(wire.down, 1)
    /\ Tunnelling \/ target > 0 =>
         /\ cli.pc = "reply" => Ahead(wire.down, IF srv.cmd = "bind" THEN 2 ELSE 1)
         /\ cli.pc = "peer" => Ahead(wire.down, 1)

StreamsOK ==
  /\ ~conf.eager => cli.eaten.up = 0 /\ Intact(got.up, wire.up, 1, cli.sent)
  /\ Intact(got.down, wire.down, cli.eaten.down + 1, target)

SocksInv == SocksTypeOK /\ AssocOK /\ HandshakeOK /\ EarlyOK /\ ClientOK /\ SecureOK /\ StreamsOK
------------------------------------------------------------------------------
(* Streams.                                                                *)

\* The protocol's messages are no data.
LEMMA MsgTypes ==
  /\ \A t \in Kinds, what \in Words :
       [Msg(t) EXCEPT !.what = what] \in Message /\ [Msg(t) EXCEPT !.what = what].t = t
  /\ \A t \in Kinds, l \in Nat :
       [Msg(t) EXCEPT !.len = l] \in Message /\ [Msg(t) EXCEPT !.len = l].t = t
  /\ \A t \in Kinds, what \in Words, l \in Nat :
       [Msg(t) EXCEPT !.what = what, !.len = l] \in Message /\ [Msg(t) EXCEPT !.what = what, !.len = l].t = t
  /\ \A n, size \in Nat :
       Piece(n, size) \in Message /\ Piece(n, size).t = "data" /\ Piece(n, size).n = n
<1>1. \A t \in Kinds, what \in Words :
       [Msg(t) EXCEPT !.what = what] \in Message /\ [Msg(t) EXCEPT !.what = what].t = t
  BY DEF Msg, Message
<1>2. "none" \in Words /\ "data" \in Kinds
  BY DEF Words, Kinds
<1>3. \A t \in Kinds, l \in Nat :
       [Msg(t) EXCEPT !.len = l] \in Message /\ [Msg(t) EXCEPT !.len = l].t = t
  BY <1>2 DEF Msg, Message
<1>4. \A t \in Kinds, what \in Words, l \in Nat :
       [Msg(t) EXCEPT !.what = what, !.len = l] \in Message /\ [Msg(t) EXCEPT !.what = what, !.len = l].t = t
  BY DEF Msg, Message
<1>5. \A n, size \in Nat :
       Piece(n, size) \in Message /\ Piece(n, size).t = "data" /\ Piece(n, size).n = n
  BY <1>2 DEF Piece, Message
<1> QED
  BY <1>1, <1>3, <1>4, <1>5

LEMMA AppendFacts ==
  ASSUME NEW S, NEW w \in Seq(S), NEW m \in S
  PROVE  /\ Append(w, m) \in Seq(S) /\ Len(Append(w, m)) = Len(w) + 1
         /\ \A i \in 1 .. Len(w) : Append(w, m)[i] = w[i]
         /\ Append(w, m)[Len(w) + 1] = m
  OBVIOUS

LEMMA TailFacts ==
  ASSUME NEW S, NEW w \in Seq(S), w # <<>>
  PROVE  /\ Tail(w) \in Seq(S) /\ Len(Tail(w)) = Len(w) - 1 /\ Len(w) \in Nat \ {0}
         /\ \A i \in 1 .. Len(w) - 1 : Tail(w)[i] = w[i + 1]
         /\ Head(w) = w[1] /\ Head(w) \in S
  OBVIOUS

LEMMA OnlyOne ==
  ASSUME NEW S, NEW v \in Seq(S), NEW w \in Seq(S), w # <<>>, Len(v) + Len(w) <= 1
  PROVE  v = <<>> /\ Tail(w) = <<>> /\ Len(w) = 1 /\ w[1] = Head(w)
<1>1. Len(v) \in Nat /\ Len(w) \in Nat /\ Len(w) # 0
  OBVIOUS
<1>2. Len(v) = 0 /\ Len(w) = 1
  BY <1>1
<1>3. Tail(w) \in Seq(S) /\ Len(Tail(w)) = 0
  BY <1>2
<1>4. Head(w) = w[1]
  OBVIOUS
<1>5. \A u \in Seq(S) : Len(u) = 0 => u = <<>>
  OBVIOUS
<1> QED
  BY <1>2, <1>3, <1>4, <1>5

LEMMA BehindFacts ==
  ASSUME NEW S, NEW w \in Seq(S), NEW k \in 0 .. Len(w) - 1
  PROVE  /\ SubSeq(w, 2 + k, Len(w)) \in Seq(S) /\ Len(SubSeq(w, 2 + k, Len(w))) = Len(w) - k - 1
         /\ \A i \in 1 .. Len(w) - k - 1 : SubSeq(w, 2 + k, Len(w))[i] = w[i + k + 1]
<1>1. Len(w) \in Nat /\ 2 + k \in 1 .. Len(w) + 1 /\ Len(w) \in 0 .. Len(w)
  OBVIOUS
<1>2. \A i \in 2 + k .. Len(w) : w[i] \in S
  BY <1>1
<1>3. SubSeq(w, 2 + k, Len(w)) = [i \in 1 .. Len(w) - k - 1 |-> w[i + k + 1]]
  BY <1>1
<1>4. \A i \in 1 .. Len(w) - k - 1 : w[i + k + 1] \in S
  BY <1>1
<1> QED
  BY <1>1, <1>3, <1>4

\* A message of the protocol is written before any data.
LEMMA IntactMessage ==
  ASSUME NEW received \in Seq(Nat), NEW w \in Seq(Message), NEW m \in Message, m.t # "data",
         NEW from \in Nat, from > 0, Intact(received, w, from, 0)
  PROVE  /\ Intact(received, Append(w, m), from, 0)
         /\ Ahead(Append(w, m), Len(w) + 1) /\ received = <<>> /\ from = 1
<1>1. PICK c \in 0 .. Len(w) : Flows(received, w, c, from, 0)
  BY DEF Intact
<1>2. Len(received) \in Nat /\ Len(w) \in Nat /\ c \in Nat
  OBVIOUS
<1>3. from + Len(received) + Len(w) - c = 1
  BY <1>1 DEF Flows
<1>4. c = Len(w) /\ Len(received) = 0 /\ from = 1
  BY <1>2, <1>3
<1>5. \A i \in 1 .. c + 1 : Append(w, m)[i].t # "data"
  BY <1>1, <1>2, <1>4, AppendFacts DEF Flows
<1>6. Flows(received, Append(w, m), c + 1, from, 0)
  BY <1>1, <1>2, <1>4, <1>5, AppendFacts DEF Flows
<1>7. Intact(received, Append(w, m), from, 0)
  BY <1>2, <1>4, <1>6, AppendFacts DEF Intact
<1>8. Ahead(Append(w, m), Len(w) + 1)
  BY <1>2, <1>4, <1>5, AppendFacts DEF Ahead
<1> QED
  BY <1>4, <1>7, <1>8

\* A piece is written.
LEMMA IntactPiece ==
  ASSUME NEW received \in Seq(Nat), NEW w \in Seq(Message), NEW from \in Nat, NEW to \in Nat,
         NEW size \in Nat, Intact(received, w, from, to)
  PROVE  Intact(received, Append(w, Piece(to + 1, size)), from, to + 1)
<1>1. PICK c \in 0 .. Len(w) : Flows(received, w, c, from, to)
  BY DEF Intact
<1> DEFINE m == Piece(to + 1, size)
<1>2. m \in Message /\ m.t = "data" /\ m.n = to + 1
  <2>1. to + 1 \in Nat
    OBVIOUS
  <2> QED
    BY <2>1, MsgTypes
<1> HIDE DEF m
<1>3. Len(received) \in Nat /\ Len(w) \in Nat /\ c \in Nat
  OBVIOUS
<1>4. \A i \in 1 .. c : Append(w, m)[i].t # "data"
  BY <1>1, <1>2, <1>3, AppendFacts DEF Flows
<1>5. \A i \in c + 1 .. Len(w) + 1 :
        Append(w, m)[i].t = "data" /\ Append(w, m)[i].n = from + Len(received) + i - c - 1
  <2> TAKE i \in c + 1 .. Len(w) + 1
  <2>1. CASE i = Len(w) + 1
    BY <1>1, <1>2, <1>3, <2>1, AppendFacts DEF Flows
  <2>2. CASE i \in 1 .. Len(w)
    <3>1. Append(w, m)[i] = w[i]
      BY <1>2, <2>2, AppendFacts
    <3>2. i \in c + 1 .. Len(w)
      BY <1>3, <2>2
    <3> QED
      BY <1>1, <3>1, <3>2 DEF Flows
  <2> QED
    BY <1>3, <2>1, <2>2
<1>6. Len(Append(w, m)) = Len(w) + 1
  BY <1>2, AppendFacts
<1>7. Flows(received, Append(w, m), c, from, to + 1)
  <2>1. from + Len(received) + Len(w) - c = to + 1 /\ \A i \in DOMAIN received : received[i] = from + i - 1
    BY <1>1 DEF Flows
  <2>2. from + Len(received) + Len(Append(w, m)) - c = to + 1 + 1
    BY <1>3, <1>6, <2>1
  <2>3. c \in 0 .. Len(Append(w, m))
    BY <1>3, <1>6
  <2> QED
    BY <1>4, <1>5, <1>6, <2>1, <2>2, <2>3 DEF Flows
<1> QED
  BY <1>3, <1>6, <1>7 DEF Intact, m

\* A message of the protocol is read.
LEMMA IntactRead ==
  ASSUME NEW received \in Seq(Nat), NEW w \in Seq(Message), NEW from \in Nat, NEW to \in Nat,
         w # <<>>, Head(w).t # "data", Intact(received, w, from, to)
  PROVE  Intact(received, Tail(w), from, to)
<1>1. PICK c \in 0 .. Len(w) : Flows(received, w, c, from, to)
  BY DEF Intact
<1>2. Len(received) \in Nat /\ Len(w) \in Nat \ {0} /\ c \in Nat
  BY TailFacts
<1>3. c # 0
  BY <1>1, <1>2, TailFacts DEF Flows
<1>4. \A i \in 1 .. c - 1 : Tail(w)[i].t # "data"
  BY <1>1, <1>2, TailFacts DEF Flows
<1>5. \A i \in c .. Len(w) - 1 :
        Tail(w)[i].t = "data" /\ Tail(w)[i].n = from + Len(received) + i - (c - 1) - 1
  <2> TAKE i \in c .. Len(w) - 1
  <2>1. i \in 1 .. Len(w) - 1 /\ i + 1 \in c + 1 .. Len(w)
    BY <1>2, <1>3
  <2>2. Tail(w)[i] = w[i + 1]
    BY <2>1, TailFacts
  <2>3. w[i + 1].t = "data" /\ w[i + 1].n = from + Len(received) + (i + 1) - c - 1
    BY <1>1, <2>1 DEF Flows
  <2> QED
    BY <1>2, <2>2, <2>3
<1>6. Len(Tail(w)) = Len(w) - 1
  BY TailFacts
<1>7. Flows(received, Tail(w), c - 1, from, to)
  BY <1>1, <1>2, <1>3, <1>4, <1>5, <1>6 DEF Flows
<1> QED
  BY <1>2, <1>3, <1>6, <1>7 DEF Intact

\* A piece is read.
LEMMA IntactReceived ==
  ASSUME NEW received \in Seq(Nat), NEW w \in Seq(Message), NEW from \in Nat, NEW to \in Nat,
         w # <<>>, Head(w).t = "data", Intact(received, w, from, to)
  PROVE  Intact(Append(received, Head(w).n), Tail(w), from, to)
<1>1. PICK c \in 0 .. Len(w) : Flows(received, w, c, from, to)
  BY DEF Intact
<1>1a. Head(w) \in Message
  BY TailFacts
<1>2. Len(received) \in Nat /\ Len(w) \in Nat \ {0} /\ c \in Nat /\ Head(w).n \in Nat
  BY <1>1a DEF Message
<1>3. c = 0
  BY <1>1, <1>2, TailFacts DEF Flows
<1> DEFINE r == Append(received, Head(w).n)
<1>4. Len(r) = Len(received) + 1 /\ DOMAIN r = 1 .. Len(received) + 1
      /\ \A i \in 1 .. Len(received) : r[i] = received[i]
  BY <1>2, AppendFacts
<1>4a. r[Len(received) + 1] = Head(w).n
  BY <1>2, AppendFacts
<1> HIDE DEF r
<1>5. Head(w).n = from + Len(received)
  BY <1>1, <1>2, <1>3, TailFacts DEF Flows
<1>6. \A i \in DOMAIN r : r[i] = from + i - 1
  <2> TAKE i \in DOMAIN r
  <2>1. CASE i = Len(received) + 1
    BY <1>2, <1>4a, <1>5, <2>1
  <2>2. CASE i \in 1 .. Len(received)
    <3>1. i \in DOMAIN received
      BY <2>2
    <3> QED
      BY <1>1, <1>4, <2>2, <3>1 DEF Flows
  <2> QED
    BY <1>2, <1>4, <2>1, <2>2
<1>7. \A i \in 1 .. Len(w) - 1 : Tail(w)[i].t = "data" /\ Tail(w)[i].n = from + Len(r) + i - 0 - 1
  <2> TAKE i \in 1 .. Len(w) - 1
  <2>1. Tail(w)[i] = w[i + 1] /\ i + 1 \in c + 1 .. Len(w)
    BY <1>2, <1>3, TailFacts
  <2>2. w[i + 1].t = "data" /\ w[i + 1].n = from + Len(received) + (i + 1) - c - 1
    BY <1>1, <2>1 DEF Flows
  <2> QED
    BY <1>2, <1>3, <1>4, <2>1, <2>2
<1>8. Len(Tail(w)) = Len(w) - 1
  BY TailFacts
<1>9. Flows(r, Tail(w), 0, from, to)
  BY <1>1, <1>2, <1>3, <1>4, <1>6, <1>7, <1>8 DEF Flows
<1> QED
  BY <1>2, <1>8, <1>9 DEF Intact, r

\* A read takes k messages more than the one it wants.
LEMMA IntactTaken ==
  ASSUME NEW w \in Seq(Message), NEW eaten \in Nat, NEW to \in Nat, NEW k \in 0 .. Len(w) - 1,
         Intact(<<>>, w, eaten + 1, to)
  PROVE  /\ Intact(<<>>, SubSeq(w, 2 + k, Len(w)), eaten + PiecesIn(w, k + 1) + 1, to)
         /\ PiecesIn(w, k + 1) \in Nat
         /\ Ahead(w, 1) /\ k = 0 => PiecesIn(w, k + 1) = 0
<1> DEFINE rest == SubSeq(w, 2 + k, Len(w))
<1>1. PICK c \in 0 .. Len(w) : Flows(<<>>, w, c, eaten + 1, to)
  BY DEF Intact
<1>2. Len(w) \in Nat /\ c \in Nat /\ k \in Nat /\ k + 1 <= Len(w) /\ Len(<<>>) = 0
  OBVIOUS
<1>3. /\ rest \in Seq(Message) /\ Len(rest) = Len(w) - k - 1
      /\ \A i \in 1 .. Len(w) - k - 1 : rest[i] = w[i + k + 1]
  BY BehindFacts
<1>4. \A i \in 1 .. c : w[i].t # "data"
  BY <1>1 DEF Flows
<1>5. \A i \in c + 1 .. Len(w) : w[i].t = "data" /\ w[i].n = eaten + 1 + i - c - 1
  BY <1>1, <1>2 DEF Flows
<1>6. eaten + 1 + Len(w) - c = to + 1
  BY <1>1, <1>2 DEF Flows
<1> HIDE DEF rest
<1>7. CASE k + 1 <= c
  <2>1. {i \in 1 .. k + 1 : w[i].t = "data"} = {}
    BY <1>2, <1>4, <1>7
  <2>2. PiecesIn(w, k + 1) = 0
    BY <2>1, FS_EmptySet DEF PiecesIn
  <2>3. \A i \in 1 .. c - k - 1 : rest[i].t # "data"
    <3> TAKE i \in 1 .. c - k - 1
    <3>1. i \in 1 .. Len(w) - k - 1 /\ i + k + 1 \in 1 .. c
      BY <1>2, <1>7
    <3> QED
      BY <1>3, <1>4, <3>1
  <2>4. \A i \in c - k - 1 + 1 .. Len(rest) :
          rest[i].t = "data" /\ rest[i].n = eaten + 1 + Len(<<>>) + i - (c - k - 1) - 1
    <3> TAKE i \in c - k - 1 + 1 .. Len(rest)
    <3>1. i \in 1 .. Len(w) - k - 1 /\ i + k + 1 \in c + 1 .. Len(w)
      BY <1>2, <1>3, <1>7
    <3> QED
      BY <1>2, <1>3, <1>5, <3>1
  <2>5. Flows(<<>>, rest, c - k - 1, eaten + 1, to)
    BY <1>2, <1>3, <1>6, <1>7, <2>3, <2>4 DEF Flows
  <2> QED
    BY <1>2, <1>3, <1>7, <2>2, <2>5 DEF Intact, rest
<1>8. CASE k + 1 > c
  <2>1. {i \in 1 .. k + 1 : w[i].t = "data"} = c + 1 .. k + 1
    BY <1>2, <1>4, <1>5, <1>8
  <2>2. PiecesIn(w, k + 1) = k + 1 - c
    <3>1. c + 1 \in Int /\ k + 1 \in Int /\ c + 1 <= k + 1
      BY <1>2, <1>8
    <3>2. Cardinality(c + 1 .. k + 1) = (k + 1) - (c + 1) + 1
      BY <3>1, FS_Interval
    <3>3. (k + 1) - (c + 1) + 1 = k + 1 - c
      BY <1>2
    <3> QED
      BY <2>1, <3>2, <3>3 DEF PiecesIn
  <2>3. \A i \in 0 + 1 .. Len(rest) :
          rest[i].t = "data" /\ rest[i].n = eaten + (k + 1 - c) + 1 + Len(<<>>) + i - 0 - 1
    <3> TAKE i \in 0 + 1 .. Len(rest)
    <3>1. i \in 1 .. Len(w) - k - 1 /\ i + k + 1 \in c + 1 .. Len(w)
      BY <1>2, <1>3, <1>8
    <3> QED
      BY <1>2, <1>3, <1>5, <3>1
  <2>4. Flows(<<>>, rest, 0, eaten + (k + 1 - c) + 1, to)
    <3>1. eaten + (k + 1 - c) + 1 + Len(<<>>) + Len(rest) - 0 = to + 1
      <4>1. \A e, n, r, a, b, j \in Int : e + 1 + n - a = b + 1 /\ r = n - j - 1
              => e + (j + 1 - a) + 1 + 0 + r - 0 = b + 1
        OBVIOUS
      <4>2. Len(rest) \in Int /\ Len(rest) = Len(w) - k - 1 /\ eaten \in Int /\ to \in Int /\ Len(w) \in Int
            /\ c \in Int /\ k \in Int
        BY <1>2, <1>3
      <4>3. eaten + (k + 1 - c) + 1 + 0 + Len(rest) - 0 = to + 1
        BY <1>6, <4>1, <4>2
      <4> QED
        BY <1>2, <4>3
    <3>2. 0 \in 0 .. Len(rest)
      BY <1>2, <1>3
    <3> QED
      BY <2>3, <3>1, <3>2 DEF Flows
  <2>5. Ahead(w, 1) /\ k = 0 => FALSE
    BY <1>2, <1>5, <1>8 DEF Ahead
  <2>6. PiecesIn(w, k + 1) \in Nat
    BY <1>2, <1>8, <2>2
  <2>7. 0 \in 0 .. Len(rest)
    BY <1>2, <1>3
  <2>8. Intact(<<>>, rest, eaten + PiecesIn(w, k + 1) + 1, to)
    BY <2>2, <2>4, <2>7 DEF Intact
  <2> QED
    BY <2>5, <2>6, <2>8 DEF rest
<1> QED
  BY <1>2, <1>7, <1>8

LEMMA AheadAppend ==
  ASSUME NEW w \in Seq(Message), NEW m \in Message, NEW n \in Nat, Ahead(w, n)
  PROVE  Ahead(Append(w, m), n)
  BY AppendFacts DEF Ahead
------------------------------------------------------------------------------
(* Steps that several actions have in common.                              *)

\* Nothing of the streams or of the two ends changes.
LEMMA StillKeeps ==
  ASSUME SocksInv, UNCHANGED <<conf, srv, cli, wire, got, target>>, AssocOK'
  PROVE  SocksInv'
<1> USE DEF SocksInv
<1>1. SocksTypeOK'
  BY DEF SocksTypeOK
<1>2. HandshakeOK' /\ EarlyOK' /\ ClientOK'
  BY DEF HandshakeOK, EarlyOK, ClientOK, Shaking, Early
<1>3. SecureOK'
  BY DEF SecureOK, Secure, Tunnelling, OverTCP, Ahead
<1>4. StreamsOK'
  BY DEF StreamsOK, Intact, Flows
<1> QED
  BY <1>1, <1>2, <1>3, <1>4

\* The handler goes on towards its end, and writes nothing.
LEMMA EndingKeeps ==
  ASSUME SocksInv, NEW p \in {"halfClosed", "done"}, srv' = [srv EXCEPT !.pc = p],
         srv.pc \notin {"check", "join"}, p = "done" \/ srv.pc = "tunnel",
         UNCHANGED <<conf, cli, wire, got, target>>, AssocOK'
  PROVE  SocksInv'
<1> USE DEF SocksInv
<1>1. srv'.pc = p /\ srv'.method = srv.method /\ srv'.cmd = srv.cmd /\ srv'.monitor = srv.monitor
  BY DEF SocksTypeOK
<1>2. SocksTypeOK'
  BY DEF SocksTypeOK, ServerPcs
<1>3. HandshakeOK' /\ EarlyOK'
  BY <1>1 DEF HandshakeOK, EarlyOK, Shaking, Early
<1>4. ClientOK'
  BY <1>1 DEF ClientOK, Shaking
<1>5. SecureOK'
  BY <1>1 DEF SecureOK, Secure, Tunnelling, OverTCP, Ahead
<1>6. StreamsOK'
  BY DEF StreamsOK, Intact, Flows
<1> QED
  BY <1>2, <1>3, <1>4, <1>5, <1>6

\* The handler replies to the request, and goes on.
LEMMA ReplyKeeps ==
  ASSUME SocksInv, NEW p \in ServerPcs, NEW rep \in {"ok", "refused"},
         srv' = [srv EXCEPT !.pc = p], wire' = Reply(rep),
         srv.pc \in {"join", "handle", "serveBind"}, srv.monitor = "off",
         p \in {"done", "tunnel", "relay", "serveBind", "serveMux"},
         p \in {"tunnel", "relay"} => srv.pc = "serveBind" \/ srv.cmd # "bind",
         UNCHANGED <<conf, cli, got, target>>, AssocOK'
  PROVE  SocksInv'
<1> USE DEF SocksInv
<1> DEFINE m == [Msg("reply") EXCEPT !.what = rep]
<1>1. srv'.pc = p /\ srv'.method = srv.method /\ srv'.cmd = srv.cmd /\ srv'.monitor = "off"
  BY DEF SocksTypeOK
<1>2. m \in Message /\ m.t = "reply"
  BY MsgTypes DEF Kinds, Words
<1>3. wire'.up = wire.up /\ wire'.down = Append(wire.down, m)
  BY DEF SocksTypeOK, Reply
<1> HIDE DEF m
<1>4. wire.up \in Seq(Message) /\ wire.down \in Seq(Message) /\ Append(wire.down, m) \in Seq(Message)
  BY <1>2, AppendFacts DEF SocksTypeOK
<1>5. SocksTypeOK'
  <2>1. wire' \in [up : Seq(Message), down : Seq(Message)]
    BY <1>2, AppendFacts DEF SocksTypeOK, Reply, m
  <2> QED
    BY <2>1 DEF SocksTypeOK, ServerPcs
<1>6. HandshakeOK'
  BY <1>1 DEF HandshakeOK, Shaking
<1>7. target = 0
  BY DEF EarlyOK, Early
<1>8. EarlyOK'
  BY <1>1, <1>7 DEF EarlyOK, Early, Shaking
<1>9. ClientOK'
  BY <1>1 DEF ClientOK, Shaking
<1>10. /\ Intact(got.down, Append(wire.down, m), cli.eaten.down + 1, 0)
       /\ Ahead(Append(wire.down, m), Len(wire.down) + 1) /\ Len(wire.down) \in Nat
  <2>1. Intact(got.down, wire.down, cli.eaten.down + 1, 0)
    BY <1>7 DEF StreamsOK
  <2>2. got.down \in Seq(Nat) /\ cli.eaten.down + 1 \in Nat /\ cli.eaten.down + 1 > 0
    BY DEF SocksTypeOK
  <2>3. Len(wire.down) \in Nat /\ m.t # "data"
    BY <1>2, <1>4
  <2> HIDE DEF SocksInv
  <2> QED
    BY <1>2, <1>4, <2>1, <2>2, <2>3, IntactMessage
<1>11. StreamsOK'
  BY <1>3, <1>7, <1>10 DEF StreamsOK
<1>12. SecureOK'
  <2> SUFFICES ASSUME Secure' PROVE SecureOK'
    BY DEF SecureOK
  <2>1. Secure
    BY <1>1 DEF Secure
  <2>2. Ahead(wire'.down, 1)
    BY <1>3, <1>10 DEF Ahead
  <2>3. ASSUME Tunnelling', cli'.pc = "reply"
        PROVE  Ahead(wire'.down, IF srv'.cmd = "bind" THEN 2 ELSE 1)
    <3>1. p \in {"tunnel", "relay"}
      BY <1>1, <2>3 DEF Tunnelling
    <3>2. CASE srv.cmd # "bind"
      BY <1>1, <2>2, <3>2
    <3>3. CASE srv.pc = "serveBind"
      <4>1. Ahead(wire.down, 1)
        BY <2>1, <2>3, <3>3 DEF SecureOK
      <4> QED
        BY <1>1, <1>3, <1>10, <2>2, <4>1 DEF Ahead
    <3> QED
      BY <3>1, <3>2, <3>3
  <2>4. cli'.eaten.down = 0 /\ target' = 0
    BY <1>7, <2>1 DEF SecureOK
  <2> QED
    BY <2>2, <2>3, <2>4 DEF SecureOK
<1> QED
  BY <1>5, <1>6, <1>8, <1>9, <1>11, <1>12
------------------------------------------------------------------------------
(* The handshake.                                                          *)

\* What is on the wire of a client that has sent nothing: no data.
LEMMA UpMessage ==
  ASSUME SocksInv, NEW m \in Message, m.t # "data", cli.pc \notin {"open", "closed"}, ~conf.eager
  PROVE  Intact(got.up, Append(wire.up, m), 1, 0) /\ cli.sent = 0
<1>1. cli.sent = 0 /\ Intact(got.up, wire.up, 1, 0)
  BY DEF SocksInv, ClientOK, StreamsOK
<1>2. got.up \in Seq(Nat) /\ wire.up \in Seq(Message)
  BY DEF SocksInv, SocksTypeOK
<1> QED
  BY <1>1, <1>2, IntactMessage

LEMMA DownMessage ==
  ASSUME SocksInv, NEW m \in Message, m.t # "data", Early
  PROVE  Intact(got.down, Append(wire.down, m), cli.eaten.down + 1, 0) /\ target = 0
<1>1. target = 0 /\ Intact(got.down, wire.down, cli.eaten.down + 1, 0)
  BY DEF SocksInv, EarlyOK, StreamsOK
<1>2. got.down \in Seq(Nat) /\ wire.down \in Seq(Message) /\ cli.eaten.down \in Nat
  BY DEF SocksInv, SocksTypeOK
<1>3. cli.eaten.down + 1 \in Nat /\ cli.eaten.down + 1 > 0
  BY <1>2
<1> QED
  BY <1>1, <1>2, <1>3, IntactMessage

\* The message at the head of a stream is read.
LEMMA UpRead ==
  ASSUME SocksInv, wire.up # <<>>, Head(wire.up).t # "data", ~conf.eager
  PROVE  Intact(got.up, Tail(wire.up), 1, cli.sent)
<1>1. Intact(got.up, wire.up, 1, cli.sent)
  BY DEF SocksInv, StreamsOK
<1>2. got.up \in Seq(Nat) /\ wire.up \in Seq(Message) /\ cli.sent \in Nat
  BY DEF SocksInv, SocksTypeOK
<1> QED
  BY <1>1, <1>2, IntactRead

LEMMA DownRead ==
  ASSUME SocksInv, wire.down # <<>>, Head(wire.down).t # "data"
  PROVE  Intact(got.down, Tail(wire.down), cli.eaten.down + 1, target)
<1>1. Intact(got.down, wire.down, cli.eaten.down + 1, target)
  BY DEF SocksInv, StreamsOK
<1>2. got.down \in Seq(Nat) /\ wire.down \in Seq(Message) /\ cli.eaten.down + 1 \in Nat /\ target \in Nat
  BY DEF SocksInv, SocksTypeOK
<1> QED
  BY <1>1, <1>2, IntactRead

\* A client before its request: the handler is shaking hands, or has gone.
LEMMA NotYet ==
  ASSUME SocksInv, cli.pc \in {"start", "method", "authReply", "request"}
  PROVE  /\ Shaking \/ srv.pc = "done"
         /\ srv.monitor = "off"
         /\ Shaking => Len(wire.up) + Len(wire.down) <= 1
  BY DEF SocksInv, ClientOK, EarlyOK, HandshakeOK, Shaking

LEMMA HelloKeeps ==
  ASSUME SocksInv, ClientHello
  PROVE  SocksInv'
<1> USE DEF SocksInv, ClientHello
<1> DEFINE word == IF conf.wantTLS THEN "tls" ELSE "plain"
           m == [Msg("methods") EXCEPT !.what = word]
<1>1. m \in Message /\ m.t = "methods"
  <2>1. word \in Words /\ "methods" \in Kinds
    BY DEF Kinds, Words, Methods
  <2> HIDE DEF word
  <2> QED
    BY <2>1, MsgTypes
<1>2. wire'.up = Append(wire.up, m) /\ wire'.down = wire.down
      /\ wire' \in [up : Seq(Message), down : Seq(Message)]
  BY <1>1, AppendFacts DEF SocksTypeOK
<1>3. cli'.pc = "method" /\ cli'.sent = cli.sent /\ cli'.eaten = cli.eaten
  BY DEF SocksTypeOK
<1> HIDE DEF m
<1>4. SocksTypeOK' /\ AssocOK'
  BY <1>2 DEF SocksTypeOK, ClientPcs, AssocOK
<1>5. Shaking \/ srv.pc = "done"
  BY NotYet
<1>6. HandshakeOK'
  <2> SUFFICES ASSUME Shaking' PROVE HandshakeOK'
    BY DEF HandshakeOK
  <2>1. wire.up = <<>> /\ wire.down = <<>>
    BY DEF HandshakeOK, Shaking
  <2>2. Len(wire'.up) = 1 /\ wire'.up[1] = m /\ Len(wire'.down) = 0 /\ DOMAIN wire'.up = {1}
    BY <1>1, <1>2, <2>1
  <2> HIDE DEF ClientHello, SocksInv
  <2> QED
    BY <1>1, <1>3, <2>2 DEF HandshakeOK
<1>7. EarlyOK'
  BY <1>2, <1>3, NotYet DEF EarlyOK, Early, Shaking
<1>8. ClientOK'
  BY <1>3, NotYet DEF ClientOK, Shaking
<1>9. SecureOK'
  BY <1>3 DEF SecureOK, Secure
<1>10. StreamsOK'
  <2>1. ~conf.eager => Intact(got.up, Append(wire.up, m), 1, 0) /\ cli.sent = 0
    BY <1>1, UpMessage
  <2> QED
    BY <1>2, <1>3, <2>1 DEF StreamsOK
<1> QED
  BY <1>4, <1>6, <1>7, <1>8, <1>9, <1>10

LEMMA ServerHandshakeKeeps ==
  ASSUME SocksInv, ServerHandshake
  PROVE  SocksInv'
<1> USE DEF SocksInv
<1> DEFINE s == Select(Head(wire.up).what)
           m == [Msg("method") EXCEPT !.what = s]
<1>1. s \in Words /\ s \in Methods
  BY DEF Select, Words, Methods
<1>2. m \in Message /\ m.t = "method"
  <2>1. "method" \in Kinds
    BY DEF Kinds
  <2> HIDE DEF s
  <2> QED
    BY <1>1, <2>1, MsgTypes
<1>3. /\ srv.pc = "methods" /\ wire.up # <<>> /\ Head(wire.up).t = "methods"
      /\ wire' = [wire EXCEPT !.up = Tail(@), !.down = @ \o <<m>>]
      /\ srv' = [srv EXCEPT !.method = s, !.pc = IF s \in {"userpass", "tlsauth"} THEN "auth" ELSE "request"]
      /\ UNCHANGED <<conf, cli, got, target, port, assoc>>
  BY DEF ServerHandshake, Arrived, Took
<1> HIDE DEF s, m
<1>4. wire.up \in Seq(Message) /\ wire.down \in Seq(Message)
  BY DEF SocksTypeOK
<1>5. /\ wire'.up = Tail(wire.up) /\ wire'.down = Append(wire.down, m)
      /\ wire' \in [up : Seq(Message), down : Seq(Message)]
  <2>1. wire.down \o <<m>> = Append(wire.down, m)
    BY <1>2, <1>4
  <2>2. Tail(wire.up) \in Seq(Message) /\ Append(wire.down, m) \in Seq(Message)
    BY <1>2, <1>3, <1>4, TailFacts, AppendFacts
  <2> QED
    BY <1>3, <2>1, <2>2 DEF SocksTypeOK
<1>6. srv'.pc \in {"auth", "request"} /\ srv'.method = s /\ srv'.cmd = srv.cmd /\ srv'.monitor = srv.monitor
  BY <1>3 DEF SocksTypeOK
<1>7. SocksTypeOK' /\ AssocOK'
  BY <1>1, <1>3, <1>5 DEF SocksTypeOK, ServerPcs, AssocOK
<1>8. Shaking /\ cli.pc # "reply" /\ Shaking' /\ Early /\ cli.pc \notin {"peer", "open", "start", "request"}
  <2>1. Len(wire.up) # 0 /\ 1 \in DOMAIN wire.up /\ wire.up[1].t = "methods"
    BY <1>3, <1>4, TailFacts
  <2> QED
    BY <1>3, <1>6, <2>1 DEF HandshakeOK, EarlyOK, Shaking, Early
<1>9. HandshakeOK'
  <2>1. Len(Tail(wire.up)) = Len(wire.up) - 1 /\ Len(Append(wire.down, m)) = Len(wire.down) + 1
        /\ Len(wire.up) \in Nat \ {0} /\ Len(wire.down) \in Nat
    BY <1>2, <1>3, <1>4, TailFacts, AppendFacts
  <2>2. \A i \in DOMAIN Tail(wire.up) : i + 1 \in DOMAIN wire.up /\ Tail(wire.up)[i] = wire.up[i + 1]
    BY <1>3, <1>4, TailFacts
  <2> QED
    BY <1>3, <1>5, <1>8, <2>1, <2>2 DEF HandshakeOK
<1>10. EarlyOK'
  <2>1. \A i \in DOMAIN wire'.down : wire'.down[i].t # "reply"
    BY <1>2, <1>4, <1>5, <1>8, AppendFacts DEF EarlyOK
  <2> QED
    BY <1>3, <1>6, <1>8, <2>1 DEF EarlyOK, Early, Shaking
<1>11. ClientOK'
  BY <1>3, <1>6, <1>8 DEF ClientOK
<1>12. SecureOK'
  BY <1>3, <1>6, <1>8 DEF SecureOK, EarlyOK, Tunnelling
<1>13. StreamsOK'
  <2>1. Intact(got.down, Append(wire.down, m), cli.eaten.down + 1, 0) /\ target = 0
    BY <1>2, <1>8, DownMessage
  <2>2. ~conf.eager => Intact(got.up, Tail(wire.up), 1, cli.sent)
    BY <1>3, UpRead
  <2> QED
    BY <1>3, <1>5, <2>1, <2>2 DEF StreamsOK
<1> QED
  BY <1>7, <1>9, <1>10, <1>11, <1>12, <1>13

LEMMA OnSelectedKeeps ==
  ASSUME SocksInv, ClientOnSelected
  PROVE  SocksInv'
<1> USE DEF SocksInv
<1> DEFINE asked == Head(wire.down).what \in {"userpass", "tlsauth"}
           m == [Msg("auth") EXCEPT !.len = conf.user]
<1>1. /\ cli.pc = "method" /\ wire.down # <<>> /\ Head(wire.down).t = "method"
      /\ wire' = [wire EXCEPT !.down = Tail(@), !.up = @ \o (IF asked THEN <<m>> ELSE <<>>)]
      /\ cli' = [cli EXCEPT !.pc = IF asked THEN "authReply" ELSE "request"]
      /\ UNCHANGED <<conf, srv, got, target, port, assoc>>
  BY DEF ClientOnSelected, Arrived, Took
<1>2. m \in Message /\ m.t = "auth"
  <2>1. conf.user \in Nat /\ "auth" \in Kinds
    BY DEF SocksTypeOK, Metadata, Kinds
  <2> QED
    BY <2>1, MsgTypes
<1> HIDE DEF m, asked
<1>3. wire.up \in Seq(Message) /\ wire.down \in Seq(Message)
  BY DEF SocksTypeOK
<1>4. /\ wire'.down = Tail(wire.down) /\ wire'.up = IF asked THEN Append(wire.up, m) ELSE wire.up
      /\ wire' \in [up : Seq(Message), down : Seq(Message)]
  <2>1. wire.up \o <<m>> = Append(wire.up, m) /\ wire.up \o <<>> = wire.up
    BY <1>2, <1>3
  <2>2. Tail(wire.down) \in Seq(Message) /\ Append(wire.up, m) \in Seq(Message)
    BY <1>1, <1>2, <1>3, TailFacts, AppendFacts
  <2> QED
    BY <1>1, <1>3, <2>1, <2>2 DEF SocksTypeOK
<1>5. /\ cli'.pc = IF asked THEN "authReply" ELSE "request"
      /\ cli'.sent = cli.sent /\ cli'.eaten = cli.eaten
  BY <1>1 DEF SocksTypeOK
<1>6. SocksTypeOK' /\ AssocOK'
  BY <1>1, <1>4 DEF SocksTypeOK, ClientPcs, AssocOK
<1>7. (Shaking \/ srv.pc = "done") /\ srv.monitor = "off" /\ (Shaking => Len(wire.up) + Len(wire.down) <= 1)
  BY <1>1, NotYet
<1>8. HandshakeOK'
  <2> SUFFICES ASSUME Shaking' PROVE HandshakeOK'
    BY DEF HandshakeOK
  <2>1. Shaking
    BY <1>1 DEF Shaking
  <2>3. wire.up = <<>> /\ Tail(wire.down) = <<>>
    BY <1>1, <1>3, <1>7, <2>1, OnlyOne
  <2>4. CASE asked
    <3>1. Len(wire'.up) = 1 /\ wire'.up[1] = m /\ DOMAIN wire'.up = {1} /\ Len(wire'.down) = 0
      <4>1. wire'.up = Append(<<>>, m) /\ wire'.down = <<>>
        BY <1>4, <2>3, <2>4
      <4> QED
        BY <1>2, <4>1
    <3> QED
      BY <1>2, <1>5, <2>4, <3>1 DEF HandshakeOK
  <2>5. CASE ~asked
    <3>1. wire'.up = <<>> /\ wire'.down = <<>> /\ DOMAIN wire'.up = {} /\ Len(wire'.up) = 0
      BY <1>4, <2>3, <2>5
    <3> QED
      BY <1>5, <2>5, <3>1 DEF HandshakeOK
  <2> QED
    BY <2>4, <2>5
<1>9. EarlyOK'
  <2>1. \A i \in DOMAIN Tail(wire.down) : i + 1 \in DOMAIN wire.down /\ Tail(wire.down)[i] = wire.down[i + 1]
    BY <1>1, <1>3, TailFacts
  <2> QED
    BY <1>1, <1>4, <1>5, <1>7, <2>1 DEF EarlyOK, Early, Shaking
<1>10. ClientOK'
  BY <1>1, <1>5, <1>7 DEF ClientOK, Shaking
<1>11. SecureOK'
  BY <1>1, <1>5 DEF SecureOK, Secure
<1>12. StreamsOK'
  <2>1. ~conf.eager => Intact(got.up, Append(wire.up, m), 1, 0) /\ cli.sent = 0
    BY <1>1, <1>2, UpMessage
  <2>2. Intact(got.down, Tail(wire.down), cli.eaten.down + 1, target)
    BY <1>1, DownRead
  <2> QED
    BY <1>1, <1>4, <1>5, <2>1, <2>2 DEF StreamsOK
<1> QED
  BY <1>6, <1>8, <1>9, <1>10, <1>11, <1>12

LEMMA ServerAuthKeeps ==
  ASSUME SocksInv, NEW ok \in BOOLEAN, ServerAuth(ok)
  PROVE  SocksInv'
<1> USE DEF SocksInv
<1> DEFINE word == IF ok THEN "ok" ELSE "fail"
           m == [Msg("authResult") EXCEPT !.what = word]
<1>1. m \in Message /\ m.t = "authResult"
  <2>1. word \in Words /\ "authResult" \in Kinds
    BY DEF Kinds, Words
  <2> HIDE DEF word
  <2> QED
    BY <2>1, MsgTypes
<1>2. PICK p \in {"request", "done"} :
        /\ srv.pc = "auth" /\ wire.up # <<>> /\ Head(wire.up).t = "auth"
        /\ wire' = [wire EXCEPT !.up = Tail(@), !.down = @ \o <<m>>]
        /\ srv' = [srv EXCEPT !.pc = p]
        /\ UNCHANGED <<conf, cli, got, target, port, assoc>>
  BY DEF ServerAuth, Arrived, Took
<1> HIDE DEF m, word
<1>3. wire.up \in Seq(Message) /\ wire.down \in Seq(Message)
  BY DEF SocksTypeOK
<1>4. /\ wire'.up = Tail(wire.up) /\ wire'.down = Append(wire.down, m)
      /\ wire' \in [up : Seq(Message), down : Seq(Message)]
  <2>1. wire.down \o <<m>> = Append(wire.down, m)
    BY <1>1, <1>3
  <2>2. Tail(wire.up) \in Seq(Message) /\ Append(wire.down, m) \in Seq(Message)
    BY <1>1, <1>2, <1>3, TailFacts, AppendFacts
  <2> QED
    BY <1>2, <2>1, <2>2 DEF SocksTypeOK
<1>5. srv'.pc = p /\ srv'.method = srv.method /\ srv'.cmd = srv.cmd /\ srv'.monitor = srv.monitor
  BY <1>2 DEF SocksTypeOK
<1>6. SocksTypeOK' /\ AssocOK'
  BY <1>2, <1>4 DEF SocksTypeOK, ServerPcs, AssocOK
<1>7. Shaking /\ Early /\ cli.pc \notin {"peer", "open", "start", "request", "reply"}
  <2>1. Len(wire.up) # 0 /\ 1 \in DOMAIN wire.up /\ wire.up[1].t = "auth"
    BY <1>2, <1>3, TailFacts
  <2> QED
    BY <1>2, <2>1 DEF HandshakeOK, EarlyOK, Shaking, Early
<1>8. HandshakeOK'
  <2>1. Len(Tail(wire.up)) = Len(wire.up) - 1 /\ Len(Append(wire.down, m)) = Len(wire.down) + 1
        /\ Len(wire.up) \in Nat \ {0} /\ Len(wire.down) \in Nat
    BY <1>1, <1>2, <1>3, TailFacts, AppendFacts
  <2>2. \A i \in DOMAIN Tail(wire.up) : i + 1 \in DOMAIN wire.up /\ Tail(wire.up)[i] = wire.up[i + 1]
    BY <1>2, <1>3, TailFacts
  <2> QED
    BY <1>2, <1>4, <1>7, <2>1, <2>2 DEF HandshakeOK
<1>9. EarlyOK'
  <2>1. \A i \in DOMAIN wire'.down : wire'.down[i].t # "reply"
    BY <1>1, <1>3, <1>4, <1>7, AppendFacts DEF EarlyOK
  <2> QED
    BY <1>2, <1>5, <1>7, <2>1 DEF EarlyOK, Early, Shaking
<1>10. ClientOK'
  BY <1>2, <1>5, <1>7 DEF ClientOK, Shaking
<1>11. SecureOK'
  BY <1>2, <1>5, <1>7 DEF SecureOK, Secure
<1>12. StreamsOK'
  <2>1. Intact(got.down, Append(wire.down, m), cli.eaten.down + 1, 0) /\ target = 0
    BY <1>1, <1>7, DownMessage
  <2>2. ~conf.eager => Intact(got.up, Tail(wire.up), 1, cli.sent)
    BY <1>2, UpRead
  <2> QED
    BY <1>2, <1>4, <2>1, <2>2 DEF StreamsOK
<1> QED
  BY <1>6, <1>8, <1>9, <1>10, <1>11, <1>12

LEMMA AuthResultKeeps ==
  ASSUME SocksInv, ClientAuthResult
  PROVE  SocksInv'
<1> USE DEF SocksInv
<1>1. PICK p \in {"request", "closed"}, g \in BOOLEAN :
        /\ cli.pc = "authReply" /\ wire.down # <<>> /\ Head(wire.down).t = "authResult"
        /\ wire' = [wire EXCEPT !.down = Tail(@), !.up = @ \o <<>>]
        /\ cli' = [cli EXCEPT !.pc = p, !.gone = g]
        /\ UNCHANGED <<conf, srv, got, target, port, assoc>>
  BY DEF ClientAuthResult, Arrived, Took
<1>2. wire.up \in Seq(Message) /\ wire.down \in Seq(Message)
  BY DEF SocksTypeOK
<1>3. /\ wire'.down = Tail(wire.down) /\ wire'.up = wire.up
      /\ wire' \in [up : Seq(Message), down : Seq(Message)]
  <2>1. wire.up \o <<>> = wire.up /\ Tail(wire.down) \in Seq(Message)
    BY <1>1, <1>2, TailFacts
  <2> QED
    BY <1>1, <1>2, <2>1 DEF SocksTypeOK
<1>4. cli'.pc = p /\ cli'.sent = cli.sent /\ cli'.eaten = cli.eaten
  BY <1>1 DEF SocksTypeOK
<1>5. SocksTypeOK' /\ AssocOK'
  BY <1>1, <1>3 DEF SocksTypeOK, ClientPcs, AssocOK
<1>6. (Shaking \/ srv.pc = "done") /\ srv.monitor = "off" /\ (Shaking => Len(wire.up) + Len(wire.down) <= 1)
  BY <1>1, NotYet
<1>7. HandshakeOK'
  <2> SUFFICES ASSUME Shaking' PROVE HandshakeOK'
    BY DEF HandshakeOK
  <2>1. Shaking
    BY <1>1 DEF Shaking
  <2>3. wire'.up = <<>> /\ wire'.down = <<>>
    BY <1>1, <1>2, <1>3, <1>6, <2>1, OnlyOne
  <2>4. DOMAIN wire'.up = {} /\ Len(wire'.up) = 0 /\ Len(wire'.down) = 0
    BY <2>3
  <2> QED
    BY <1>4, <2>3, <2>4 DEF HandshakeOK
<1>8. EarlyOK'
  <2>1. \A i \in DOMAIN Tail(wire.down) : i + 1 \in DOMAIN wire.down /\ Tail(wire.down)[i] = wire.down[i + 1]
    BY <1>1, <1>2, TailFacts
  <2> QED
    BY <1>1, <1>3, <1>4, <1>6, <2>1 DEF EarlyOK, Early, Shaking
<1>9. ClientOK'
  BY <1>1, <1>4, <1>6 DEF ClientOK, Shaking
<1>10. SecureOK'
  BY <1>1, <1>4 DEF SecureOK, Secure
<1>11. StreamsOK'
  <2>1. Intact(got.down, Tail(wire.down), cli.eaten.down + 1, target)
    BY <1>1, DownRead
  <2> QED
    BY <1>1, <1>3, <1>4, <2>1 DEF StreamsOK
<1> QED
  BY <1>5, <1>7, <1>8, <1>9, <1>10, <1>11

LEMMA RequestKeeps ==
  ASSUME SocksInv, NEW cmd \in Commands, NEW n \in Nat, SendRequest(cmd, n)
  PROVE  SocksInv'
<1> USE DEF SocksInv
<1> DEFINE m == [Msg("request") EXCEPT !.what = cmd, !.len = n]
<1>1. m \in Message /\ m.t = "request"
  <2>1. cmd \in Words /\ "request" \in Kinds
    BY DEF Words, Kinds
  <2> QED
    BY <2>1, MsgTypes
<1>2. cli.pc = "request" /\ UNCHANGED <<conf, srv, got, target, port, assoc>>
  BY DEF SendRequest
<1>3. (Shaking \/ srv.pc = "done") /\ srv.monitor = "off"
  BY <1>2, NotYet
<1>4. CASE cli' = [cli EXCEPT !.pc = "closed", !.gone = TRUE] /\ UNCHANGED wire
  <2>1. cli'.pc = "closed" /\ cli'.sent = cli.sent /\ cli'.eaten = cli.eaten
    BY <1>4 DEF SocksTypeOK
  <2>2. SocksTypeOK' /\ AssocOK'
    BY <1>2, <1>4 DEF SocksTypeOK, ClientPcs, AssocOK
  <2>3. HandshakeOK'
    BY <1>2, <1>4, <2>1 DEF HandshakeOK, Shaking
  <2>4. EarlyOK' /\ ClientOK'
    BY <1>2, <1>4, <2>1 DEF EarlyOK, ClientOK, Shaking, Early
  <2>5. SecureOK'
    BY <1>2, <2>1 DEF SecureOK, Secure
  <2>6. StreamsOK'
    BY <1>2, <1>4, <2>1 DEF StreamsOK
  <2> QED
    BY <2>2, <2>3, <2>4, <2>5, <2>6
<1>5. CASE wire' = [wire EXCEPT !.up = Append(@, m)] /\ cli' = [cli EXCEPT !.pc = "reply"]
  <2> HIDE DEF m
  <2>1. cli'.pc = "reply" /\ cli'.sent = cli.sent /\ cli'.eaten = cli.eaten
    BY <1>5 DEF SocksTypeOK
  <2>2. wire'.up = Append(wire.up, m) /\ wire'.down = wire.down
        /\ wire' \in [up : Seq(Message), down : Seq(Message)]
    BY <1>1, <1>5, AppendFacts DEF SocksTypeOK
  <2>3. SocksTypeOK' /\ AssocOK'
    BY <1>2, <1>5, <2>2 DEF SocksTypeOK, ClientPcs, AssocOK
  <2>4. HandshakeOK'
    <3> SUFFICES ASSUME Shaking' PROVE HandshakeOK'
      BY DEF HandshakeOK
    <3>1. wire.up = <<>> /\ wire.down = <<>>
      BY <1>2 DEF HandshakeOK, Shaking
    <3>2. Len(wire'.up) = 1 /\ wire'.up[1] = m /\ Len(wire'.down) = 0 /\ DOMAIN wire'.up = {1}
          /\ wire'.down = <<>>
      BY <1>1, <2>2, <3>1
    <3> HIDE DEF SocksInv
    <3> QED
      BY <1>1, <2>1, <3>2 DEF HandshakeOK
  <2>5. EarlyOK'
    BY <1>2, <1>3, <2>1, <2>2 DEF EarlyOK, Early, Shaking
  <2>6. ClientOK'
    BY <1>2, <1>3, <2>1 DEF ClientOK, Shaking
  <2>7. SecureOK'
    BY <1>2, <1>3, <2>1 DEF SecureOK, Secure, ClientOK, Shaking, Tunnelling
  <2>8. StreamsOK'
    <3>1. ~conf.eager => Intact(got.up, Append(wire.up, m), 1, 0) /\ cli.sent = 0
      BY <1>1, <1>2, UpMessage
    <3> QED
      BY <1>2, <2>1, <2>2, <3>1 DEF StreamsOK
  <2> QED
    BY <2>3, <2>4, <2>5, <2>6, <2>7, <2>8
<1> QED
  BY <1>4, <1>5 DEF SendRequest

\* A client that waits has nothing behind its request.
LEMMA AloneInFront ==
  ASSUME SocksInv, srv.pc = "request", wire.up # <<>>, ~conf.eager, NEW k \in 0 .. Len(wire.up) - 1
  PROVE  k = 0 /\ SubSeq(wire.up, 2 + k, Len(wire.up)) = <<>> /\ Tail(wire.up) = <<>>
<1>1. Len(wire.up) + Len(wire.down) <= 1 /\ wire.up \in Seq(Message) /\ wire.down \in Seq(Message)
  BY DEF SocksInv, HandshakeOK, Shaking, SocksTypeOK
<1>2. Len(wire.up) \in Nat /\ Len(wire.down) \in Nat /\ Len(wire.up) # 0
  BY <1>1
<1>3. Len(wire.up) = 1 /\ k = 0
  <2>0. \A a, b \in Nat : a + b <= 1 /\ a # 0 => a = 1
    OBVIOUS
  <2>1. Len(wire.up) = 1
    BY <1>1, <1>2, <2>0
  <2> QED
    BY <2>1
<1>4. /\ SubSeq(wire.up, 2 + k, Len(wire.up)) \in Seq(Message) /\ Len(SubSeq(wire.up, 2 + k, Len(wire.up))) = 0
      /\ Tail(wire.up) \in Seq(Message) /\ Len(Tail(wire.up)) = 0
  BY <1>1, <1>3, BehindFacts, TailFacts
<1>5. \A u \in Seq(Message) : Len(u) = 0 => u = <<>>
  OBVIOUS
<1> QED
  BY <1>3, <1>4, <1>5

LEMMA ServerRequestKeeps ==
  ASSUME SocksInv, NEW k \in 0 .. MaxPieces, ServerRequest(k)
  PROVE  SocksInv'
<1> USE DEF SocksInv
<1> DEFINE cmd == Head(wire.up).what
           rest == SubSeq(wire.up, 2 + k, Len(wire.up))
           m == [Msg("reply") EXCEPT !.what = "refused"]
<1>1. /\ srv.pc = "request" /\ wire.up # <<>> /\ Head(wire.up).t = "request"
      /\ srv' = [srv EXCEPT !.cmd = cmd, !.monitor = IF cmd = "connect" THEN "reading" ELSE "off",
                   !.pc = CASE cmd = "connect" -> "check" [] cmd = "other" -> "done" [] OTHER -> "handle"]
      /\ cli' = [cli EXCEPT !.eaten.up = @ + k]
      /\ UNCHANGED <<conf, got, target, port, assoc>>
  BY DEF ServerRequest, Arrived
<1>2. wire' = IF cmd # "other" THEN [wire EXCEPT !.up = rest]
              ELSE [wire EXCEPT !.up = rest, !.down = Append(@, m)]
  BY DEF ServerRequest, TookMore, SocksTypeOK
<1>3. wire.up \in Seq(Message) /\ wire.down \in Seq(Message)
  BY DEF SocksTypeOK
<1>4. k \in Nat /\ k \in 0 .. Len(wire.up) - 1
  <2>1. k \in Behind5("up") /\ Len(wire.up) \in Nat \ {0}
    BY <1>1, <1>3, TailFacts DEF ServerRequest
  <2> QED
    BY <2>1, SocksAssumption DEF Behind5
<1>5. rest \in Seq(Message) /\ cmd \in Words
  <2>1. Head(wire.up) \in Message
    BY <1>1, <1>3, TailFacts
  <2> QED
    BY <1>3, <1>4, <2>1, BehindFacts DEF Message
<1>6. m \in Message /\ m.t = "reply"
  <2>1. "refused" \in Words /\ "reply" \in Kinds
    BY DEF Words, Kinds
  <2> QED
    BY <2>1, MsgTypes
<1>7. ~conf.eager => k = 0 /\ rest = <<>> /\ Tail(wire.up) = <<>>
  BY <1>1, <1>4, AloneInFront
<1> HIDE DEF cmd, rest, m
<1>8. /\ wire'.up = rest /\ wire'.down = IF cmd # "other" THEN wire.down ELSE Append(wire.down, m)
      /\ wire' \in [up : Seq(Message), down : Seq(Message)]
  <2>1. Append(wire.down, m) \in Seq(Message)
    BY <1>3, <1>6, AppendFacts
  <2> QED
    BY <1>2, <1>5, <2>1 DEF SocksTypeOK
<1>9. /\ srv'.cmd = cmd /\ srv'.monitor = IF cmd = "connect" THEN "reading" ELSE "off"
      /\ cmd = "connect" => srv'.pc = "check"
      /\ cmd = "other" => srv'.pc = "done"
      /\ cmd \notin {"connect", "other"} => srv'.pc = "handle"
      /\ srv'.method = srv.method
  BY <1>1 DEF SocksTypeOK
<1>10. /\ cli'.pc = cli.pc /\ cli'.sent = cli.sent /\ cli'.eaten.down = cli.eaten.down
       /\ cli'.eaten.up = cli.eaten.up + k
  BY <1>1 DEF SocksTypeOK
<1>11. SocksTypeOK' /\ AssocOK'
  <2>1. srv' \in [pc : ServerPcs, method : Words, cmd : Words, verdict : {"none", "allowed", "blocked"},
                  monitor : {"off", "reading", "stopping"}]
    BY <1>1, <1>5 DEF SocksTypeOK, ServerPcs
  <2>2. cli' \in [pc : ClientPcs, gone : BOOLEAN, sent : Nat, eaten : [up : Nat, down : Nat]]
    <3>1. cli.eaten \in [up : Nat, down : Nat] /\ cli.eaten.up + k \in Nat
      BY <1>4 DEF SocksTypeOK
    <3>2. [cli.eaten EXCEPT !.up = @ + k] \in [up : Nat, down : Nat]
      BY <3>1
    <3> QED
      BY <1>1, <3>2 DEF SocksTypeOK
  <2> QED
    BY <1>1, <1>8, <2>1, <2>2 DEF SocksTypeOK, AssocOK
<1>12. cli.pc \in {"reply", "closed"}
  <2>1. 1 \in DOMAIN wire.up /\ wire.up[1].t = "request"
    BY <1>1, <1>3, TailFacts
  <2> QED
    BY <1>1, <2>1 DEF HandshakeOK, Shaking
<1>13. HandshakeOK'
  BY <1>9 DEF HandshakeOK, Shaking
<1>14. EarlyOK'
  BY <1>1, <1>7, <1>8, <1>9, <1>10, <1>12 DEF EarlyOK, Early, Shaking
<1>15. ClientOK'
  BY <1>1, <1>9, <1>10, <1>12 DEF ClientOK
<1>16. SecureOK'
  BY <1>1, <1>9, <1>10 DEF SecureOK, Secure, Tunnelling, EarlyOK, Early, Shaking
<1>17. StreamsOK'
  <2>1. Intact(got.down, Append(wire.down, m), cli.eaten.down + 1, target)
    BY <1>1, <1>6, DownMessage DEF Early, Shaking
  <2>2. ~conf.eager => Intact(got.up, rest, 1, cli.sent) /\ cli.eaten.up + k = 0
    <3>1. ~conf.eager => Intact(got.up, rest, 1, cli.sent)
      BY <1>1, <1>7, UpRead
    <3>2. ~conf.eager => cli.eaten.up = 0 /\ k = 0
      BY <1>7 DEF StreamsOK
    <3> QED
      BY <3>1, <3>2
  <2> QED
    BY <1>1, <1>8, <1>10, <2>1, <2>2 DEF StreamsOK
<1> QED
  BY <1>11, <1>13, <1>14, <1>15, <1>16, <1>17
------------------------------------------------------------------------------
(* The monitor.                                                            *)

LEMMA MonitorReadsKeeps ==
  ASSUME SocksInv, MonitorReads
  PROVE  SocksInv'
<1> USE DEF SocksInv
<1>1. /\ srv.monitor # "off" /\ wire.up # <<>>
      /\ wire' = [wire EXCEPT !.up = Tail(@), !.down = @ \o <<>>]
      /\ cli' = [cli EXCEPT !.eaten.up = @ + 1]
      /\ UNCHANGED <<conf, srv, got, target, port, assoc>>
  BY DEF MonitorReads, Took
<1>2. conf.eager /\ srv.pc \in {"check", "join"}
  BY <1>1 DEF EarlyOK
<1>3. /\ wire'.down = wire.down /\ wire' \in [up : Seq(Message), down : Seq(Message)]
  <2>1. wire.up \in Seq(Message) /\ wire.down \in Seq(Message)
    BY DEF SocksTypeOK
  <2>2. wire.down \o <<>> = wire.down /\ Tail(wire.up) \in Seq(Message)
    BY <1>1, <2>1, TailFacts
  <2> QED
    BY <1>1, <2>1, <2>2 DEF SocksTypeOK
<1>4. cli'.pc = cli.pc /\ cli'.sent = cli.sent /\ cli'.eaten.down = cli.eaten.down
  BY <1>1 DEF SocksTypeOK
<1>5. SocksTypeOK' /\ AssocOK'
  <2>1. cli' \in [pc : ClientPcs, gone : BOOLEAN, sent : Nat, eaten : [up : Nat, down : Nat]]
    <3>1. cli.eaten \in [up : Nat, down : Nat] /\ cli.eaten.up + 1 \in Nat
      BY DEF SocksTypeOK
    <3>2. [cli.eaten EXCEPT !.up = @ + 1] \in [up : Nat, down : Nat]
      BY <3>1
    <3> QED
      BY <1>1, <3>2 DEF SocksTypeOK
  <2> QED
    BY <1>1, <1>3, <2>1 DEF SocksTypeOK, AssocOK
<1>6. HandshakeOK'
  BY <1>1, <1>2 DEF HandshakeOK, Shaking
<1>7. EarlyOK' /\ ClientOK'
  BY <1>1, <1>2, <1>3, <1>4 DEF EarlyOK, ClientOK, Early, Shaking
<1>8. SecureOK'
  BY <1>1, <1>3, <1>4 DEF SecureOK, Secure, Tunnelling, OverTCP, Ahead
<1>9. StreamsOK'
  BY <1>1, <1>2, <1>3, <1>4 DEF StreamsOK
<1> QED
  BY <1>5, <1>6, <1>7, <1>8, <1>9

\* CheckReturns and MonitorEnds: the monitor is told to stop, or stops.
LEMMA MonitorStopsKeeps ==
  ASSUME SocksInv, NEW p \in ServerPcs, NEW v \in {"none", "allowed", "blocked"},
         NEW mon \in {"off", "stopping"},
         srv' = [srv EXCEPT !.pc = p, !.verdict = v, !.monitor = mon],
         p = srv.pc \/ (srv.pc = "check" /\ p = "join"), srv.monitor = "off" => mon = "off",
         UNCHANGED <<conf, cli, wire, got, target, assoc>>
  PROVE  SocksInv'
<1> USE DEF SocksInv
<1>1. srv'.pc = p /\ srv'.method = srv.method /\ srv'.cmd = srv.cmd /\ srv'.monitor = mon
  BY DEF SocksTypeOK
<1>2. SocksTypeOK' /\ AssocOK'
  BY DEF SocksTypeOK, AssocOK
<1>3. HandshakeOK'
  BY <1>1 DEF HandshakeOK, Shaking
<1>4. EarlyOK' /\ ClientOK'
  BY <1>1 DEF EarlyOK, ClientOK, Early, Shaking
<1>5. SecureOK'
  BY <1>1 DEF SecureOK, Secure, Tunnelling, OverTCP, Ahead
<1>6. StreamsOK'
  BY DEF StreamsOK
<1> QED
  BY <1>2, <1>3, <1>4, <1>5, <1>6
------------------------------------------------------------------------------
(* The tunnel.                                                             *)

LEMMA ClientSendsKeeps ==
  ASSUME SocksInv, NEW size \in Nat, ClientSends(size)
  PROVE  SocksInv'
<1> USE DEF SocksInv
<1> DEFINE m == Piece(cli.sent + 1, size)
<1>1. /\ cli.pc = "open" \/ (cli.pc = "reply" /\ conf.eager)
      /\ wire' = [wire EXCEPT !.up = Append(@, m)]
      /\ cli' = [cli EXCEPT !.sent = @ + 1]
      /\ UNCHANGED <<conf, srv, got, target, port, assoc>>
  BY DEF ClientSends
<1>2. cli.sent \in Nat /\ cli.sent + 1 \in Nat
  BY DEF SocksTypeOK
<1>3. m \in Message /\ m.t = "data"
  BY <1>2, MsgTypes
<1> HIDE DEF m
<1>4. wire'.up = Append(wire.up, m) /\ wire'.down = wire.down
      /\ wire' \in [up : Seq(Message), down : Seq(Message)]
  BY <1>1, <1>3, AppendFacts DEF SocksTypeOK
<1>5. cli'.pc = cli.pc /\ cli'.sent = cli.sent + 1 /\ cli'.eaten = cli.eaten
  BY <1>1 DEF SocksTypeOK
<1>6. SocksTypeOK' /\ AssocOK'
  BY <1>1, <1>2, <1>4 DEF SocksTypeOK, AssocOK
<1>7. HandshakeOK'
  <2> SUFFICES ASSUME Shaking' PROVE HandshakeOK'
    BY DEF HandshakeOK
  <2>1. Shaking /\ cli.pc = "reply" /\ conf.eager
    BY <1>1 DEF Shaking, EarlyOK, Early
  <2>2. \A i \in DOMAIN wire'.up : wire'.up[i] = m \/ (i \in DOMAIN wire.up /\ wire'.up[i] = wire.up[i])
    BY <1>3, <1>4, AppendFacts DEF SocksTypeOK
  <2> QED
    BY <1>1, <1>3, <1>4, <1>5, <2>1, <2>2 DEF HandshakeOK
<1>8. EarlyOK'
  BY <1>1, <1>4, <1>5 DEF EarlyOK, Early, Shaking
<1>9. ClientOK'
  BY <1>1, <1>5 DEF ClientOK, Shaking
<1>10. SecureOK'
  BY <1>1, <1>4, <1>5 DEF SecureOK, Secure, Tunnelling, OverTCP, Ahead
<1>11. StreamsOK'
  <2>1. got.up \in Seq(Nat) /\ wire.up \in Seq(Message)
    BY DEF SocksTypeOK
  <2>2. ~conf.eager => Intact(got.up, Append(wire.up, m), 1, cli.sent + 1)
    BY <1>2, <2>1, IntactPiece DEF StreamsOK, m
  <2> QED
    BY <1>1, <1>4, <1>5, <2>2 DEF StreamsOK
<1> QED
  BY <1>6, <1>7, <1>8, <1>9, <1>10, <1>11

LEMMA TargetSendsKeeps ==
  ASSUME SocksInv, NEW size \in Nat, TargetSends(size)
  PROVE  SocksInv'
<1> USE DEF SocksInv
<1> DEFINE m == Piece(target + 1, size)
<1>1. /\ Tunnelling
      /\ wire' = [wire EXCEPT !.down = Append(@, m)]
      /\ target' = target + 1
      /\ UNCHANGED <<conf, srv, cli, got, port, assoc>>
  BY DEF TargetSends
<1>2. target \in Nat /\ target + 1 \in Nat
  BY DEF SocksTypeOK
<1>3. m \in Message /\ m.t = "data"
  BY <1>2, MsgTypes
<1> HIDE DEF m
<1>4. wire'.down = Append(wire.down, m) /\ wire'.up = wire.up
      /\ wire' \in [up : Seq(Message), down : Seq(Message)]
  BY <1>1, <1>3, AppendFacts DEF SocksTypeOK
<1>5. SocksTypeOK' /\ AssocOK'
  BY <1>1, <1>2, <1>4 DEF SocksTypeOK, AssocOK
<1>6. srv.pc \in {"tunnel", "relay"} /\ ~Shaking /\ ~Early
  BY <1>1 DEF Tunnelling, Shaking, Early
<1>7. HandshakeOK' /\ EarlyOK'
  BY <1>1, <1>4, <1>6 DEF HandshakeOK, EarlyOK, Early, Shaking
<1>8. ClientOK'
  BY <1>1, <1>6 DEF ClientOK, Shaking
<1>9. SecureOK'
  <2>1. \A n \in Nat : Ahead(wire.down, n) => Ahead(Append(wire.down, m), n)
    BY <1>3, AheadAppend DEF SocksTypeOK
  <2> QED
    BY <1>1, <1>4, <1>6, <2>1 DEF SecureOK, Secure
<1>10. StreamsOK'
  <2>1. got.down \in Seq(Nat) /\ wire.down \in Seq(Message) /\ cli.eaten.down + 1 \in Nat
    BY DEF SocksTypeOK
  <2>2. Intact(got.down, Append(wire.down, m), cli.eaten.down + 1, target + 1)
    BY <1>2, <2>1, IntactPiece DEF StreamsOK, m
  <2> QED
    BY <1>1, <1>4, <2>2 DEF StreamsOK
<1> QED
  BY <1>5, <1>7, <1>8, <1>9, <1>10

LEMMA PipeUpKeeps ==
  ASSUME SocksInv, PipeUp
  PROVE  SocksInv'
<1> USE DEF SocksInv
<1>1. /\ Tunnelling /\ wire.up # <<>> /\ Head(wire.up).t = "data"
      /\ got' = [got EXCEPT !.up = Append(@, Head(wire.up).n)]
      /\ wire' = [wire EXCEPT !.up = Tail(@), !.down = @ \o <<>>]
      /\ UNCHANGED <<conf, srv, cli, target, port, assoc>>
  BY DEF PipeUp, Readable5, Took
<1>2. wire.up \in Seq(Message) /\ wire.down \in Seq(Message) /\ got.up \in Seq(Nat)
  BY DEF SocksTypeOK
<1>3. Head(wire.up) \in Message /\ Head(wire.up).n \in Nat
  <2>1. Head(wire.up) \in Message
    BY <1>1, <1>2, TailFacts
  <2> QED
    BY <2>1 DEF Message
<1>4. /\ wire'.down = wire.down /\ wire'.up = Tail(wire.up)
      /\ wire' \in [up : Seq(Message), down : Seq(Message)]
  <2>1. wire.down \o <<>> = wire.down /\ Tail(wire.up) \in Seq(Message)
    BY <1>1, <1>2, TailFacts
  <2> QED
    BY <1>1, <2>1, <1>2 DEF SocksTypeOK
<1>5. /\ got'.up = Append(got.up, Head(wire.up).n) /\ got'.down = got.down
      /\ got' \in [up : Seq(Nat), down : Seq(Nat)]
  BY <1>1, <1>2, <1>3, AppendFacts DEF SocksTypeOK
<1>6. SocksTypeOK' /\ AssocOK'
  BY <1>1, <1>4, <1>5 DEF SocksTypeOK, AssocOK
<1>7. srv.pc \in {"tunnel", "relay"}
  BY <1>1 DEF Tunnelling
<1>8. HandshakeOK' /\ EarlyOK'
  BY <1>1, <1>7 DEF HandshakeOK, EarlyOK, Early, Shaking
<1>9. ClientOK'
  BY <1>1, <1>5 DEF ClientOK, Shaking
<1>10. SecureOK'
  BY <1>1, <1>4 DEF SecureOK, Secure, Tunnelling, OverTCP, Ahead
<1>11. StreamsOK'
  <2>1. cli.sent \in Nat
    BY DEF SocksTypeOK
  <2>2. ~conf.eager => Intact(Append(got.up, Head(wire.up).n), Tail(wire.up), 1, cli.sent)
    BY <1>1, <1>2, <2>1, IntactReceived DEF StreamsOK
  <2> QED
    BY <1>1, <1>4, <1>5, <2>2 DEF StreamsOK
<1> QED
  BY <1>6, <1>8, <1>9, <1>10, <1>11

LEMMA ClientReadsKeeps ==
  ASSUME SocksInv, ClientReads
  PROVE  SocksInv'
<1> USE DEF SocksInv
<1>1. /\ cli.pc = "open" /\ wire.down # <<>> /\ Head(wire.down).t = "data"
      /\ got' = [got EXCEPT !.down = Append(@, Head(wire.down).n)]
      /\ wire' = [wire EXCEPT !.down = Tail(@), !.up = @ \o <<>>]
      /\ UNCHANGED <<conf, srv, cli, target, port, assoc>>
  BY DEF ClientReads, Readable5, Took
<1>2. wire.up \in Seq(Message) /\ wire.down \in Seq(Message) /\ got.down \in Seq(Nat)
  BY DEF SocksTypeOK
<1>3. Head(wire.down) \in Message /\ Head(wire.down).n \in Nat
  <2>1. Head(wire.down) \in Message
    BY <1>1, <1>2, TailFacts
  <2> QED
    BY <2>1 DEF Message
<1>4. /\ wire'.up = wire.up /\ wire'.down = Tail(wire.down)
      /\ wire' \in [up : Seq(Message), down : Seq(Message)]
  <2>1. wire.up \o <<>> = wire.up /\ Tail(wire.down) \in Seq(Message)
    BY <1>1, <1>2, TailFacts
  <2> QED
    BY <1>1, <2>1, <1>2 DEF SocksTypeOK
<1>5. /\ got'.down = Append(got.down, Head(wire.down).n) /\ got'.up = got.up
      /\ got' \in [up : Seq(Nat), down : Seq(Nat)]
  BY <1>1, <1>2, <1>3, AppendFacts DEF SocksTypeOK
<1>6. SocksTypeOK' /\ AssocOK'
  BY <1>1, <1>4, <1>5 DEF SocksTypeOK, AssocOK
<1>7. HandshakeOK' /\ EarlyOK'
  BY <1>1, <1>4 DEF HandshakeOK, EarlyOK, Early, Shaking
<1>8. ClientOK'
  BY <1>1 DEF ClientOK, Shaking
<1>9. SecureOK'
  BY <1>1 DEF SecureOK, Secure
<1>10. StreamsOK'
  <2>1. cli.eaten.down + 1 \in Nat /\ target \in Nat
    BY DEF SocksTypeOK
  <2>2. Intact(Append(got.down, Head(wire.down).n), Tail(wire.down), cli.eaten.down + 1, target)
    BY <1>1, <1>2, <2>1, IntactReceived DEF StreamsOK
  <2> QED
    BY <1>1, <1>4, <1>5, <2>2 DEF StreamsOK
<1> QED
  BY <1>6, <1>7, <1>8, <1>9, <1>10

LEMMA ClosesKeeps ==
  ASSUME SocksInv, ClientCloses
  PROVE  SocksInv'
<1> USE DEF SocksInv
<1>1. /\ cli' = [cli EXCEPT !.gone = TRUE, !.pc = "closed"]
      /\ UNCHANGED <<conf, srv, wire, got, target, port, assoc>>
  BY DEF ClientCloses
<1>2. cli'.pc = "closed" /\ cli'.sent = cli.sent /\ cli'.eaten = cli.eaten
  BY <1>1 DEF SocksTypeOK
<1>3. SocksTypeOK' /\ AssocOK'
  BY <1>1 DEF SocksTypeOK, ClientPcs, AssocOK
<1>4. HandshakeOK'
  <2>1. Shaking /\ ~conf.eager => Len(wire.up) + Len(wire.down) <= 1
    BY DEF HandshakeOK
  <2> QED
    BY <1>1, <1>2, <2>1 DEF HandshakeOK, Shaking
<1>5. EarlyOK' /\ ClientOK'
  BY <1>1, <1>2 DEF EarlyOK, ClientOK, Early, Shaking
<1>6. SecureOK'
  BY <1>1, <1>2 DEF SecureOK, Secure
<1>7. StreamsOK'
  BY <1>1, <1>2 DEF StreamsOK
<1> QED
  BY <1>3, <1>4, <1>5, <1>6, <1>7

\* Over TLS a read takes the reply alone, so the replies that are still waited
\* for stay in front.
LEMMA ClientReplyKeeps ==
  ASSUME SocksInv, NEW k \in 0 .. MaxPieces, ClientReply(k)
  PROVE  SocksInv'
<1> USE DEF SocksInv
<1> DEFINE ok == Arrived("down", "reply") /\ Head(wire.down).what = "ok"
           p == IF ~ok THEN "closed" ELSE IF srv.cmd = "bind" /\ cli.pc = "reply" THEN "peer" ELSE "open"
           taken == PiecesIn(wire.down, k + 1)
           rest == SubSeq(wire.down, 2 + k, Len(wire.down))
<1>1. /\ cli.pc \in {"reply", "peer"} /\ wire.down # <<>> /\ k \in Behind5("down")
      /\ cli' = [cli EXCEPT !.gone = ~ok, !.eaten.down = @ + taken, !.pc = p]
      /\ wire' = [wire EXCEPT !.down = rest]
      /\ UNCHANGED <<conf, srv, got, target, port, assoc>>
  BY DEF ClientReply, TookMore
<1>2. wire.up \in Seq(Message) /\ wire.down \in Seq(Message) /\ cli.eaten.down \in Nat /\ target \in Nat
  BY DEF SocksTypeOK
<1>3. k \in 0 .. Len(wire.down) - 1 /\ (Secure => k = 0)
  <2>1. Len(wire.down) \in Nat \ {0}
    BY <1>1, <1>2, TailFacts
  <2> QED
    BY <1>1, <2>1 DEF Behind5
<1>4. p = "peer" => srv.cmd = "bind" /\ cli.pc = "reply"
  OBVIOUS
<1>5. p # "closed" => wire.down[1].t = "reply" /\ 1 \in DOMAIN wire.down
  BY <1>1, <1>2, TailFacts DEF Arrived
<1>6. p \in {"closed", "peer", "open"} /\ (~ok) \in BOOLEAN
  OBVIOUS
<1>7. got.down = <<>>
  BY <1>1 DEF ClientOK
<1>8. /\ Intact(<<>>, rest, cli.eaten.down + taken + 1, target)
      /\ taken \in Nat
      /\ Ahead(wire.down, 1) /\ k = 0 => taken = 0
  <2>1. Intact(<<>>, wire.down, cli.eaten.down + 1, target)
    BY <1>7 DEF StreamsOK
  <2> QED
    BY <1>2, <1>3, <2>1, IntactTaken
<1>9. /\ rest \in Seq(Message) /\ Len(rest) = Len(wire.down) - k - 1
      /\ \A i \in 1 .. Len(wire.down) - k - 1 : rest[i] = wire.down[i + k + 1]
  BY <1>2, <1>3, BehindFacts
<1> HIDE DEF ok, p, taken, rest
<1>10. /\ wire'.up = wire.up /\ wire'.down = rest
       /\ wire' \in [up : Seq(Message), down : Seq(Message)]
  BY <1>1, <1>9 DEF SocksTypeOK
<1>11. /\ cli'.pc = p /\ cli'.sent = cli.sent /\ cli'.eaten.up = cli.eaten.up
       /\ cli'.eaten.down = cli.eaten.down + taken
  BY <1>1 DEF SocksTypeOK
<1>12. SocksTypeOK' /\ AssocOK'
  <2>1. cli.eaten \in [up : Nat, down : Nat] /\ cli.eaten.down + taken \in Nat
    BY <1>8 DEF SocksTypeOK
  <2>2. [cli.eaten EXCEPT !.down = @ + taken] \in [up : Nat, down : Nat]
    BY <2>1
  <2>3. cli' \in [pc : ClientPcs, gone : BOOLEAN, sent : Nat, eaten : [up : Nat, down : Nat]]
    BY <1>1, <1>6, <2>2 DEF SocksTypeOK, ClientPcs
  <2> QED
    BY <1>1, <1>10, <2>3 DEF SocksTypeOK, AssocOK
<1>13. Early => p = "closed"
  BY <1>5 DEF EarlyOK
<1>14. ~Shaking
  BY <1>1 DEF HandshakeOK, EarlyOK, Early
<1>15. HandshakeOK'
  BY <1>1, <1>14 DEF HandshakeOK, Shaking
<1>16. EarlyOK'
  <2>1. Early => \A i \in DOMAIN rest : rest[i].t # "reply"
    <3>1. \A i \in DOMAIN rest : i \in 1 .. Len(wire.down) - k - 1 /\ i + k + 1 \in DOMAIN wire.down
      BY <1>2, <1>3, <1>9
    <3> QED
      BY <1>9, <3>1 DEF EarlyOK
  <2>2. Early' <=> Early
    BY <1>1 DEF Early, Shaking
  <2>3. srv.pc # "methods"
    BY <1>14 DEF Shaking
  <2> QED
    BY <1>1, <1>10, <1>11, <1>13, <2>1, <2>2, <2>3 DEF EarlyOK
<1>17. ClientOK'
  BY <1>1, <1>4, <1>6, <1>7, <1>11, <1>14 DEF ClientOK, Shaking
<1>18. SecureOK'
  <2> SUFFICES ASSUME Secure' PROVE SecureOK'
    BY DEF SecureOK
  <2>1. Secure /\ k = 0
    BY <1>1, <1>3 DEF Secure
  <2>2. Ahead(wire.down, 1)
    <3>1. CASE Tunnelling \/ target > 0
      BY <1>1, <2>1, <3>1 DEF SecureOK, Ahead
    <3>2. CASE target = 0
      <4>1. Intact(<<>>, wire.down, cli.eaten.down + 1, 0)
        BY <1>7, <3>2 DEF StreamsOK
      <4>2. PICK c \in 0 .. Len(wire.down) : Flows(<<>>, wire.down, c, cli.eaten.down + 1, 0)
        BY <4>1 DEF Intact
      <4>3. Len(wire.down) \in Nat \ {0} /\ cli.eaten.down + 1 + 0 + Len(wire.down) - c = 0 + 1
        BY <1>1, <1>2, <4>2, TailFacts DEF Flows
      <4>4. c = Len(wire.down) /\ 1 \in 1 .. c
        BY <1>2, <4>3
      <4> QED
        BY <4>2, <4>3, <4>4 DEF Flows, Ahead
    <3> QED
      BY <1>2, <3>1, <3>2
  <2>3. cli'.eaten.down = 0
    BY <1>8, <1>11, <2>1, <2>2 DEF SecureOK
  <2>4. ASSUME Tunnelling \/ target > 0, p = "peer"
        PROVE  Ahead(rest, 1)
    <3>1. Ahead(wire.down, 2)
      BY <1>4, <2>1, <2>4 DEF SecureOK
    <3>2. Len(wire.down) \in Nat /\ 2 <= Len(wire.down) /\ wire.down[2].t # "data"
      BY <1>2, <3>1 DEF Ahead
    <3>3. Len(rest) = Len(wire.down) - 1 /\ rest[1] = wire.down[2]
      BY <1>9, <2>1, <3>2
    <3> QED
      BY <3>2, <3>3 DEF Ahead
  <2> QED
    BY <1>1, <1>6, <1>10, <1>11, <2>3, <2>4 DEF SecureOK, Tunnelling, OverTCP
<1>19. StreamsOK'
  BY <1>1, <1>7, <1>8, <1>10, <1>11 DEF StreamsOK
<1> QED
  BY <1>12, <1>15, <1>16, <1>17, <1>18, <1>19
------------------------------------------------------------------------------
(* The other steps of the handler.                                         *)

LEMMA CheckKeeps ==
  ASSUME SocksInv, NEW ok \in BOOLEAN, CheckReturns(ok) \/ MonitorEnds
  PROVE  SocksInv'
<1>1. CASE CheckReturns(ok)
  <2>1. PICK v \in {"allowed", "blocked"}, mon \in {"off", "stopping"} :
          /\ srv.pc = "check" /\ srv' = [srv EXCEPT !.pc = "join", !.verdict = v, !.monitor = mon]
          /\ srv.monitor = "off" => mon = "off"
          /\ UNCHANGED <<conf, cli, wire, got, target, assoc>>
    <3>1. CASE srv.monitor = "off"
      BY <1>1, <3>1 DEF CheckReturns
    <3>2. CASE srv.monitor # "off"
      BY <1>1, <3>2 DEF CheckReturns
    <3> QED
      BY <3>1, <3>2
  <2>2. "join" \in ServerPcs /\ v \in {"none", "allowed", "blocked"}
    BY DEF ServerPcs
  <2> QED
    BY <2>1, <2>2, MonitorStopsKeeps
<1>2. CASE MonitorEnds
  <2>1. srv' = [srv EXCEPT !.monitor = "off"] /\ UNCHANGED <<conf, cli, wire, got, target, assoc>>
    BY <1>2 DEF MonitorEnds
  <2>2. srv.pc \in ServerPcs /\ srv.verdict \in {"none", "allowed", "blocked"}
        /\ srv' = [srv EXCEPT !.pc = srv.pc, !.verdict = srv.verdict, !.monitor = "off"]
    BY <2>1 DEF SocksInv, SocksTypeOK
  <2> QED
    BY <2>1, <2>2, MonitorStopsKeeps
<1> QED
  BY <1>1, <1>2

LEMMA JoinKeeps ==
  ASSUME SocksInv, NEW ok \in BOOLEAN, JoinMonitor(ok)
  PROVE  SocksInv'
<1>1. PICK p \in {"done", "tunnel"}, rep \in {"ok", "refused"} :
        /\ srv.pc = "join" /\ srv.monitor = "off"
        /\ srv' = [srv EXCEPT !.pc = p] /\ wire' = Reply(rep)
        /\ UNCHANGED <<conf, cli, got, target, port, assoc>>
  BY DEF JoinMonitor
<1>2. srv.cmd = "connect" /\ AssocOK' /\ p \in ServerPcs
  BY <1>1 DEF SocksInv, EarlyOK, AssocOK, ServerPcs
<1> QED
  BY <1>1, <1>2, ReplyKeeps

\* A command is refused, answered, or cut off.
LEMMA AnswerKeeps ==
  ASSUME SocksInv, srv.pc = "handle",
         NEW p \in {"done", "relay", "serveBind", "serveMux"}, srv' = [srv EXCEPT !.pc = p],
         p = "relay" => srv.cmd # "bind",
         (p = "done" /\ UNCHANGED wire) \/ \E rep \in {"ok", "refused"} : wire' = Reply(rep),
         UNCHANGED <<conf, cli, got, target>>, AssocOK'
  PROVE  SocksInv'
<1>1. srv.monitor = "off" /\ p \in ServerPcs
  BY DEF SocksInv, EarlyOK, ServerPcs
<1>2. CASE p = "done" /\ UNCHANGED wire
  BY <1>2, EndingKeeps
<1>3. ASSUME NEW rep \in {"ok", "refused"}, wire' = Reply(rep)
      PROVE  SocksInv'
  BY <1>1, <1>3, ReplyKeeps
<1> QED
  BY <1>2, <1>3

LEMMA HandleKeeps ==
  ASSUME SocksInv, NEW ok \in BOOLEAN, NEW dials \in BOOLEAN,
         HandleBind(ok) \/ HandleMuxBind(ok) \/ HandleUDPTun(ok) \/ HandleUDP(ok, dials)
  PROVE  SocksInv'
<1>1. ASSUME UNCHANGED assoc \/ assoc' = [NoAssoc EXCEPT !.uplink = "running", !.downlink = "running"]
      PROVE  AssocOK'
  BY <1>1 DEF SocksInv, AssocOK, NoAssoc
<1>2. CASE HandleBind(ok)
  <2>1. PICK p \in {"done", "serveBind"} :
          /\ srv.pc = "handle" /\ srv' = [srv EXCEPT !.pc = p]
          /\ (p = "done" /\ UNCHANGED wire) \/ \E rep \in {"ok", "refused"} : wire' = Reply(rep)
          /\ UNCHANGED <<conf, cli, got, target, assoc>>
    BY <1>2 DEF HandleBind, Refuse, CutOff
  <2> QED
    BY <1>1, <2>1, AnswerKeeps
<1>3. CASE HandleMuxBind(ok)
  <2>1. PICK p \in {"done", "serveMux"} :
          /\ srv.pc = "handle" /\ srv' = [srv EXCEPT !.pc = p]
          /\ (p = "done" /\ UNCHANGED wire) \/ \E rep \in {"ok", "refused"} : wire' = Reply(rep)
          /\ UNCHANGED <<conf, cli, got, target, assoc>>
    BY <1>3 DEF HandleMuxBind, Refuse, CutOff
  <2> QED
    BY <1>1, <2>1, AnswerKeeps
<1>4. CASE HandleUDPTun(ok)
  <2>1. PICK p \in {"done", "relay"} :
          /\ srv.pc = "handle" /\ srv' = [srv EXCEPT !.pc = p] /\ srv.cmd # "bind"
          /\ (p = "done" /\ UNCHANGED wire) \/ \E rep \in {"ok", "refused"} : wire' = Reply(rep)
          /\ UNCHANGED <<conf, cli, got, target>>
          /\ UNCHANGED assoc \/ assoc' = [NoAssoc EXCEPT !.uplink = "running", !.downlink = "running"]
    <3> DEFINE allowed == IF srv.cmd = "udptun" THEN conf.udp ELSE conf.bind
    <3>1. srv.pc = "handle" /\ srv.cmd # "bind" /\ UNCHANGED <<conf, cli, got, target>>
      BY <1>4 DEF HandleUDPTun, OverTCP
    <3>2. CASE allowed /\ ok
      BY <1>4, <3>1, <3>2 DEF HandleUDPTun, Relaying
    <3>3. CASE ~(allowed /\ ok)
      BY <1>4, <3>1, <3>3 DEF HandleUDPTun, Leaves
    <3> QED
      BY <3>2, <3>3
  <2> QED
    BY <1>1, <2>1, AnswerKeeps
<1>5. CASE HandleUDP(ok, dials)
  <2>1. PICK p \in {"done", "relay"} :
          /\ srv.pc = "handle" /\ srv' = [srv EXCEPT !.pc = p] /\ srv.cmd # "bind"
          /\ \E rep \in {"ok", "refused"} : wire' = Reply(rep)
          /\ UNCHANGED <<conf, cli, got, target>>
          /\ UNCHANGED assoc \/ assoc' = [NoAssoc EXCEPT !.uplink = "running", !.downlink = "running"]
    BY <1>5 DEF HandleUDP, Relaying, Leaves
  <2> QED
    BY <1>1, <2>1, AnswerKeeps
<1> QED
  BY <1>2, <1>3, <1>4, <1>5

LEMMA AcceptKeeps ==
  ASSUME SocksInv, SelectAccept
  PROVE  SocksInv'
<1>1. PICK p \in {"done", "tunnel"}, rep \in {"ok", "refused"} :
        /\ srv.pc = "serveBind" /\ srv' = [srv EXCEPT !.pc = p] /\ wire' = Reply(rep)
        /\ UNCHANGED <<conf, cli, got, target, port, assoc>>
  BY DEF SelectAccept
<1>2. srv.monitor = "off" /\ AssocOK' /\ p \in ServerPcs
  BY <1>1 DEF SocksInv, EarlyOK, AssocOK, ServerPcs
<1> QED
  BY <1>1, <1>2, ReplyKeeps

\* What ends the handler without a word.
LEMMA EndsKeep ==
  ASSUME SocksInv,
         \/ HandshakeEnds \/ PipeEnds \/ HalfCloseEnds \/ TargetCloses \/ SelectPipe \/ ServeMuxEnds
         \/ RelayFails \/ RelayEnds
  PROVE  SocksInv'
<1>1. PICK p \in {"halfClosed", "done"} :
        /\ srv' = [srv EXCEPT !.pc = p] /\ srv.pc \notin {"check", "join"} /\ (p = "done" \/ srv.pc = "tunnel")
        /\ UNCHANGED <<conf, cli, wire, got, target>>
        /\ UNCHANGED assoc \/ assoc' = [assoc EXCEPT !.uplink = "ended", !.downlink = "ended"]
  BY DEF HandshakeEnds, PipeEnds, HalfCloseEnds, TargetCloses, SelectPipe, ServeMuxEnds, RelayFails, RelayEnds
<1>2. AssocOK'
  BY <1>1 DEF SocksInv, AssocOK
<1> QED
  BY <1>1, <1>2, EndingKeeps

------------------------------------------------------------------------------
(* The theorem.                                                            *)

LEMMA SocksStarts ==
  ASSUME SocksInit
  PROVE  SocksInv
<1> USE DEF SocksInit
<1>1. SocksTypeOK /\ AssocOK
  BY SocksAssumption DEF SocksTypeOK, AssocOK, NoAssoc, ServerPcs, ClientPcs, Words
<1>2. HandshakeOK /\ EarlyOK
  BY DEF HandshakeOK, EarlyOK, Shaking, Early
<1>3. ClientOK /\ SecureOK
  BY DEF ClientOK, SecureOK, Shaking, Secure
<1>4. Flows(<<>>, <<>>, 0, 1, 0)
  BY DEF Flows
<1>5. StreamsOK
  BY <1>4 DEF StreamsOK, Intact
<1> QED
  BY <1>1, <1>2, <1>3, <1>5 DEF SocksInv

LEMMA SocksSteps ==
  ASSUME SocksInv, [SocksNext]_socksVars
  PROVE  SocksInv'
<1>1. CASE HandlerStep
  <2>1. CASE \E ok \in BOOLEAN : ServerAuth(ok) \/ CheckReturns(ok) \/ JoinMonitor(ok)
    BY <2>1, ServerAuthKeeps, CheckKeeps, JoinKeeps
  <2>2. CASE \E ok \in BOOLEAN : HandleBind(ok) \/ HandleMuxBind(ok) \/ HandleUDPTun(ok)
    <3>1. TRUE \in BOOLEAN
      OBVIOUS
    <3> QED
      BY <2>2, <3>1, HandleKeeps
  <2>3. CASE \E k \in 0 .. MaxPieces : ServerRequest(k)
    BY <2>3, ServerRequestKeeps
  <2>4. CASE \E l, d \in BOOLEAN : HandleUDP(l, d)
    BY <2>4, HandleKeeps
  <2>5. CASE MonitorEnds
    <3>1. TRUE \in BOOLEAN
      OBVIOUS
    <3> QED
      BY <2>5, <3>1, CheckKeeps
  <2>6. CASE PipeGone
    <3>1. AssocOK' /\ UNCHANGED <<conf, srv, cli, wire, got, target>>
      BY <2>6 DEF PipeGone, SocksInv, AssocOK
    <3> QED
      BY <3>1, StillKeeps
  <2> QED
    BY <1>1, <2>1, <2>2, <2>3, <2>4, <2>5, <2>6, ServerHandshakeKeeps, MonitorReadsKeeps, PipeUpKeeps,
       AcceptKeeps, EndsKeep DEF HandlerStep
<1>2. CASE OutsideStep
  <2>1. CASE ConnectUDP \/ OtherRequest
    <3>1. 0 \in Nat /\ {"udp", "udptun", "other"} \subseteq Commands
      BY DEF Commands
    <3> QED
      BY <2>1, <3>1, RequestKeeps DEF ConnectUDP, OtherRequest
  <2>2. CASE \E n \in NameLens : Connect(n) \/ Bind(n)
    <3>1. NameLens \subseteq Nat /\ {"connect", "bind", "mbind", "udpbind"} \subseteq Commands
      BY SocksAssumption DEF Commands
    <3> QED
      BY <2>2, <3>1, RequestKeeps DEF Connect, Bind
  <2>3. CASE \E k \in 0 .. MaxPieces : ClientReply(k)
    BY <2>3, ClientReplyKeeps
  <2>4. CASE \E size \in Sizes : ClientSends(size) \/ TargetSends(size)
    <3>1. Sizes \subseteq Nat
      BY SocksAssumption
    <3> QED
      BY <2>4, <3>1, ClientSendsKeeps, TargetSendsKeeps
  <2>5. CASE ServeMuxPeer \/ AssocDown \/ \E ok \in BOOLEAN : PeerArrives(ok) \/ \E src \in Sources : AssocUp(src, ok)
    <3>1. UNCHANGED <<conf, srv, cli, wire, got, target>>
      BY <2>5 DEF PeerArrives, ServeMuxPeer, AssocUp, AssocDown
    <3>2. AssocOK
      BY DEF SocksInv
    <3>3. AssocOK'
      BY <2>5, <3>2 DEF PeerArrives, ServeMuxPeer, AssocUp, AssocDown, AssocOK
    <3> QED
      BY <3>1, <3>3, StillKeeps
  <2> QED
    BY <1>2, <2>1, <2>2, <2>3, <2>4, <2>5, HelloKeeps, OnSelectedKeeps, AuthResultKeeps, ClientReadsKeeps,
       ClosesKeeps, EndsKeep DEF OutsideStep
<1>3. CASE UNCHANGED socksVars
  <2>1. AssocOK' /\ UNCHANGED <<conf, srv, cli, wire, got, target>>
    BY <1>3 DEF socksVars, SocksInv, AssocOK
  <2> QED
    BY <2>1, StillKeeps
<1> QED
  BY <1>1, <1>2, <1>3 DEF SocksNext

(* The inductive invariant of a SOCKS5 connection: what the handler, the   *)
(* client and the two streams are at each stage of the handshake, of the   *)
(* rule check with its monitor, and of each command.                       *)
THEOREM SocksSound == SocksSpec => []SocksInv
<1> QED
  BY SocksStarts, SocksSteps, PTL DEF SocksSpec

(* Of what a waiting client sends, and of what the target sends, nothing is *)
(* lost, repeated or reordered between the handler's reads and writes, nor  *)
(* by the monitor of the rule check (handler/socks/v5/connect.go), nor over *)
(* TLS by a reader that reads more than its message; and an association's   *)
(* replies go only to the client's address.                                 *)
THEOREM TunnelsIntact == SocksSpec => []TunnelIntact
<1>1. SocksInv => TunnelIntact
  BY DEF SocksInv, TunnelIntact, StreamsOK, SecureOK, AssocOK
<1> QED
  BY <1>1, SocksSound, PTL

=============================================================================
