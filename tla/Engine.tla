------------------------------- MODULE Engine -------------------------------
(***************************************************************************)
(* The process: start-up, configuration reload, certificate watch and the  *)
(* services' accept loops.                                                 *)
(*                                                                         *)
(* Start and reloadConfig do the same work: loader.register empties and    *)
(* refills the registries, one after the other, and ParseService binds a   *)
(* listener, builds a handler and registers the service, which run then    *)
(* serves.  Reloads are started by SIGHUP, by the watch of the certificate *)
(* files and by the API, each on a goroutine of its own, and no lock keeps *)
(* them apart.  The plugins of greyproxy are registered by                 *)
(* buildGreyproxyService, once.                                            *)
(***************************************************************************)
EXTENDS Integers, Sequences, FiniteSets

CONSTANTS
  ServiceOrder,  \* the services of the configuration, in order
  Proxies,       \* those with a certificate, an admission and a bypass
  PluginOrder,   \* the registries with a plugin of greyproxy, in order: authers,
                 \* admissions, bypasses, resolvers, or those of interest
  Tasks,         \* goroutines that run Start or reloadConfig
  Visitors,      \* client connections
  MaxReloads,    \* bound: reloads
  MaxGens        \* bound: certificates that are generated

ServiceNames == {ServiceOrder[i] : i \in 1 .. Len(ServiceOrder)}

ASSUME EngineAssumption ==
  /\ ServiceOrder \in Seq(ServiceNames) /\ Proxies \subseteq ServiceNames
  /\ MaxReloads \in Nat /\ MaxGens \in Nat

VARIABLES
  up,        \* "starting", "running" or "stopped"
  plugins,   \* the plugins in the registries
  services,  \* ServiceRegistry: the instance under a name, 0 for none
  inst,      \* the service instances made so far
  task,      \* what each goroutine does
  hup,       \* a SIGHUP waits in the channel
  file,      \* ca-cert.pem and ca-key.pem: which generation, and whether whole
  saw,       \* sawCert and sawKey of the watch
  debounce,  \* the watch's timer is armed
  mtime,     \* certMtime: the generation that the last reload noted
  visit,     \* each client connection
  trouble    \* history: what excuses a reload, and the number of reloads

registryVars == <<plugins, services, inst>>
certVars == <<file, saw, debounce>>
engineVars == <<up, registryVars, task, hup, certVars, mtime, visit, trouble>>

IdleTask == [pc |-> "idle", by |-> "none", k |-> 1, todo |-> {}, made |-> 0, inject |-> FALSE]
Idle(t) == task[t].pc = "idle"
\* Goroutines are alike: it does not matter which one is used next.
Free == CHOOSE t \in Tasks : Idle(t)
Go(t, new) == task' = [task EXCEPT ![t] = new]
Excuse(what) == trouble' = [trouble EXCEPT !.why = @ \cup {what}]

Exists(f) == file[f].gen # 0
\* tls.LoadX509KeyPair: both files are whole and belong together.
Readable == file["cert"].whole /\ file["key"].whole /\ file["cert"].gen = file["key"].gen
PortFree(s) == \A i \in DOMAIN inst : inst[i].svc = s => ~inst[i].open
------------------------------------------------------------------------------
(* The certificate: "cert generate" or the API truncates and writes the    *)
(* certificate, then the key.  Every truncation and every write is an      *)
(* event of the watch, if it has been added.                               *)

\* Mutant: files that are overwritten are not noticed.
WatchEventCreate(f) ==
  IF up = "running" /\ file[f].gen = 0
  THEN LET both == saw \cup {f} = {"cert", "key"}
       IN  /\ saw' = IF both THEN {} ELSE saw \cup {f}
           /\ debounce' = (both \/ debounce)
           /\ UNCHANGED trouble
  ELSE UNCHANGED <<saw, debounce, trouble>>

\* Both files must have been seen since the timer was armed last.
WatchEvent(f) ==
  IF up = "running"
  THEN LET both == saw \cup {f} = {"cert", "key"}
       IN  /\ saw' = IF both THEN {} ELSE saw \cup {f}
           /\ debounce' = (both \/ debounce)
           /\ UNCHANGED trouble
  ELSE Excuse("unwatched") /\ UNCHANGED <<saw, debounce>>

\* The file that is written next: the certificate, unless its key is behind.
Current == IF file["key"].gen < file["cert"].gen THEN "key" ELSE "cert"

OpenFile ==
  LET f == Current
  IN  /\ up # "stopped" /\ file["cert"].whole /\ file["key"].whole
      /\ f = "cert" => file["cert"].gen < MaxGens
      /\ file' = [file EXCEPT ![f] = [gen |-> @.gen + 1, whole |-> FALSE]]
      /\ WatchEvent(f)
      /\ UNCHANGED <<up, registryVars, task, hup, mtime, visit>>

EncodeFile(f) ==
  /\ up # "stopped" /\ ~file[f].whole
  /\ file' = [file EXCEPT ![f].whole = TRUE]
  /\ WatchEvent(f)
  /\ UNCHANGED <<up, registryVars, task, hup, mtime, visit>>
------------------------------------------------------------------------------
(* What starts a reload.                                                   *)

StartReload(t, by) ==
  /\ up = "running" /\ Idle(t) /\ t = Free /\ trouble.reloads < MaxReloads
  /\ Go(t, [IdleTask EXCEPT !.pc = "parse", !.by = by])
  /\ trouble' = [reloads |-> trouble.reloads + 1,
                 why |-> trouble.why \cup (IF \A u \in Tasks : Idle(u) THEN {} ELSE {"overlap"})]

Sighup ==
  /\ up = "running" /\ ~hup /\ trouble.reloads < MaxReloads
  /\ hup' = TRUE
  /\ UNCHANGED <<up, registryVars, task, certVars, mtime, visit, trouble>>

\* The loop of reload takes one signal after the other.
TakeSignal(t) ==
  /\ hup /\ \A u \in Tasks : task[u].by # "signal"
  /\ StartReload(t, "signal")
  /\ hup' = FALSE
  /\ UNCHANGED <<up, registryVars, certVars, mtime, visit>>

DebounceFires(t) ==
  /\ debounce
  /\ StartReload(t, "timer")
  /\ debounce' = FALSE
  /\ UNCHANGED <<up, registryVars, hup, file, saw, mtime, visit>>

\* CertReloadHandler: nothing if the certificate is not newer than the one noted.
CertReload(t) ==
  /\ file["cert"].gen = 0 \/ file["cert"].gen > mtime
  /\ StartReload(t, "api")
  /\ UNCHANGED <<up, registryVars, hup, certVars, mtime, visit>>
------------------------------------------------------------------------------
(* Start and reloadConfig.                                                 *)

Pc(t, pc) == task[t].pc = pc /\ up # "stopped"

\* An error ends a reload where it is.  It ends the process at start-up.
Abort(t) ==
  /\ Go(t, IdleTask)
  /\ up' = IF task[t].by = "start" THEN "stopped" ELSE up

ParseConfig(t) ==
  /\ Pc(t, "parse")
  /\ Go(t, [task[t] EXCEPT !.pc = "unregister", !.k = 1, !.inject = Exists("cert") /\ Exists("key")])
  /\ UNCHANGED <<up, registryVars, hup, certVars, mtime, visit, trouble>>

\* The configuration has become unreadable: nothing has been touched yet.
ParseFails(t) ==
  /\ Pc(t, "parse")
  /\ Abort(t) /\ Excuse("parse")
  /\ UNCHANGED <<registryVars, hup, certVars, mtime, visit>>

\* register, one registry after the other; the configuration has no plugin to
\* put in.  Then the names of the services are listed.
UnregisterPlugin(t) ==
  /\ Pc(t, "unregister")
  /\ LET k == task[t].k
     IN  /\ plugins' = plugins \ {PluginOrder[k]}
         /\ Go(t, IF k < Len(PluginOrder) THEN [task[t] EXCEPT !.k = k + 1]
                  ELSE [task[t] EXCEPT !.pc = "close", !.k = 1,
                                       !.todo = {s \in ServiceNames : services[s] # 0}])
  /\ UNCHANGED <<up, services, inst, hup, certVars, mtime, visit, trouble>>

\* Mutant: the entry is removed and its service not closed.
CloseServiceNot(t, s) ==
  /\ Pc(t, "close") /\ s \in task[t].todo
  /\ IF services[s] = 0
     THEN Go(t, [task[t] EXCEPT !.todo = @ \ {s}])
     ELSE Go(t, [task[t] EXCEPT !.pc = "delete", !.todo = @ \ {s}, !.made = services[s]])
  /\ UNCHANGED <<up, registryVars, hup, certVars, mtime, visit, trouble>>

\* Unregister loads the entry and closes it, which closes the listener and ends
\* its accept loops.
CloseService(t, s) ==
  /\ Pc(t, "close") /\ s \in task[t].todo
  /\ IF services[s] = 0
     THEN Go(t, [task[t] EXCEPT !.todo = @ \ {s}]) /\ UNCHANGED inst
     ELSE /\ inst' = [inst EXCEPT ![services[s]].open = FALSE, ![services[s]].loops = 0]
          /\ Go(t, [task[t] EXCEPT !.pc = "delete", !.todo = @ \ {s}, !.made = services[s]])
  /\ UNCHANGED <<up, plugins, services, hup, certVars, mtime, visit, trouble>>

\* ... and then deletes whatever is under the name.
DeleteService(t) ==
  /\ Pc(t, "delete")
  /\ services' = [services EXCEPT ![inst[task[t].made].svc] = 0]
  /\ Go(t, [task[t] EXCEPT !.pc = "close"])
  /\ UNCHANGED <<up, plugins, inst, hup, certVars, mtime, visit, trouble>>

Building(t) == Pc(t, "close") /\ task[t].todo = {} /\ task[t].k <= Len(ServiceOrder)

\* ParseService: the listener's Init binds the address.
BindListener(t) ==
  /\ Building(t)
  /\ LET s == ServiceOrder[task[t].k]
     IN  IF PortFree(s)
         THEN /\ inst' = Append(inst, [svc |-> s, cert |-> 0, open |-> TRUE, loops |-> 0])
              /\ Go(t, [task[t] EXCEPT !.pc = "init", !.made = Len(inst) + 1])
              /\ UNCHANGED up
         ELSE Abort(t) /\ UNCHANGED inst
  /\ UNCHANGED <<plugins, services, hup, certVars, mtime, visit, trouble>>

\* The handler's Init reads the certificate.  If it cannot, the listener that
\* was bound stays bound and belongs to nobody.
InitHandler(t) ==
  /\ Pc(t, "init")
  /\ LET i == task[t].made
         injected == task[t].inject /\ inst[i].svc \in Proxies
     IN  IF injected /\ ~Readable
         THEN Abort(t) /\ Excuse("unreadable") /\ UNCHANGED inst
         ELSE /\ inst' = [inst EXCEPT ![i].cert = IF injected THEN file["cert"].gen ELSE 0]
              /\ Go(t, [task[t] EXCEPT !.pc = "register"])
              /\ UNCHANGED <<up, trouble>>
  /\ UNCHANGED <<plugins, services, hup, certVars, mtime, visit>>

\* Register refuses a name that is taken; the new service is then forgotten.
RegisterService(t) ==
  /\ Pc(t, "register")
  /\ LET s == inst[task[t].made].svc
     IN  IF services[s] = 0
         THEN /\ services' = [services EXCEPT ![s] = task[t].made]
              /\ Go(t, [task[t] EXCEPT !.pc = "close", !.k = @ + 1])
              /\ UNCHANGED up
         ELSE Abort(t) /\ UNCHANGED services
  /\ UNCHANGED <<plugins, inst, hup, certVars, mtime, visit, trouble>>

\* run: a goroutine with an accept loop for everything that is registered.
ServeAll(t) ==
  /\ Pc(t, "close") /\ task[t].todo = {} /\ task[t].k > Len(ServiceOrder)
  /\ inst' = [i \in DOMAIN inst |->
                IF services[inst[i].svc] = i /\ inst[i].open THEN [inst[i] EXCEPT !.loops = @ + 1] ELSE inst[i]]
  /\ Go(t, [task[t] EXCEPT !.pc = IF task[t].by = "start" THEN "wire" ELSE "note", !.k = 1])
  /\ UNCHANGED <<up, plugins, services, hup, certVars, mtime, visit, trouble>>

\* buildGreyproxyService, at start-up only: the plugins one by one, then the
\* signal loop and the watch.
RegisterPlugin(t) ==
  /\ Pc(t, "wire")
  /\ LET k == task[t].k
     IN  /\ plugins' = plugins \cup {PluginOrder[k]}
         /\ IF k < Len(PluginOrder)
            THEN Go(t, [task[t] EXCEPT !.k = k + 1]) /\ UNCHANGED up
            ELSE Go(t, IdleTask) /\ up' = "running"
  /\ UNCHANGED <<services, inst, hup, certVars, mtime, visit, trouble>>

\* The end of reloadConfig: the time of the certificate as it is by now.
NoteMtime(t) ==
  /\ Pc(t, "note")
  /\ mtime' = IF Exists("cert") THEN file["cert"].gen ELSE mtime
  /\ Go(t, IdleTask)
  /\ UNCHANGED <<up, registryVars, hup, certVars, visit, trouble>>
------------------------------------------------------------------------------
(* The accept loop and the plugins behind their wrappers.                  *)

Settled == up = "running" /\ \A t \in Tasks : Idle(t)

\* Serve: a missing admission refuses, a missing authenticator accepts.  A
\* client that is refused while a configuration is loaded comes again.
AcceptVisit(v, i) ==
  /\ up # "stopped" /\ visit[v] = "none"
  /\ inst[i].open /\ inst[i].loops > 0
  /\ visit' = [visit EXCEPT ![v] = IF inst[i].svc \notin Proxies \/ "admission" \in plugins THEN "handled"
                                   ELSE IF Settled THEN "refused" ELSE "none"]
  /\ UNCHANGED <<up, registryVars, task, hup, certVars, mtime, trouble>>

\* A request: Contains of a missing bypass is false, which lets it pass.
VisitorAsks(v) ==
  /\ up # "stopped" /\ visit[v] = "handled" /\ "bypass" \notin plugins
  /\ visit' = [visit EXCEPT ![v] = "unchecked"]
  /\ UNCHANGED <<up, registryVars, task, hup, certVars, mtime, trouble>>

\* Stop closes what is registered, and the process ends.
StopEngine ==
  /\ up = "running"
  /\ up' = "stopped"
  /\ inst' = [i \in DOMAIN inst |-> IF services[inst[i].svc] = i
                                    THEN [inst[i] EXCEPT !.open = FALSE, !.loops = 0] ELSE inst[i]]
  /\ debounce' = FALSE /\ hup' = FALSE
  /\ task' = [t \in Tasks |-> IdleTask]
  /\ UNCHANGED <<plugins, services, file, saw, mtime, visit, trouble>>
------------------------------------------------------------------------------
\* No certificate yet; the first may be generated before the start is over.
EngineInit ==
  /\ up = "starting"
  /\ plugins = {} /\ inst = <<>>
  /\ services = [s \in ServiceNames |-> 0]
  /\ task = [t \in Tasks |-> IF t = (CHOOSE u \in Tasks : TRUE)
                            THEN [IdleTask EXCEPT !.pc = "parse", !.by = "start"] ELSE IdleTask]
  /\ hup = FALSE /\ saw = {} /\ debounce = FALSE /\ mtime = 0
  /\ file = [f \in {"cert", "key"} |-> [gen |-> 0, whole |-> TRUE]]
  /\ visit = [v \in Visitors |-> "none"]
  /\ trouble = [why |-> {}, reloads |-> 0]

LoadStep(t) ==
  \/ ParseConfig(t) \/ ParseFails(t) \/ UnregisterPlugin(t) \/ DeleteService(t)
  \/ BindListener(t) \/ InitHandler(t) \/ RegisterService(t) \/ ServeAll(t)
  \/ RegisterPlugin(t) \/ NoteMtime(t)
  \/ \E s \in ServiceNames : CloseService(t, s)

WriterStep == OpenFile \/ \E f \in {"cert", "key"} : EncodeFile(f)

EngineNext ==
  \/ \E t \in Tasks : LoadStep(t) \/ TakeSignal(t) \/ DebounceFires(t) \/ CertReload(t)
  \/ WriterStep \/ Sighup \/ StopEngine
  \/ \E v \in Visitors : VisitorAsks(v) \/ \E i \in DOMAIN inst : AcceptVisit(v, i)

EngineSpec == EngineInit /\ [][EngineNext]_engineVars

\* Goroutines run on, a timer that is armed fires and a certificate that was
\* begun is written to its end.
TimerFires == \E t \in Tasks : DebounceFires(t)

WriterGoesOn ==
  \/ file["cert"].gen # file["key"].gen /\ OpenFile
  \/ \E f \in {"cert", "key"} : EncodeFile(f)

EngineFairness ==
  /\ \A t \in Tasks : WF_engineVars(LoadStep(t))
  /\ WF_engineVars(TimerFires)
  /\ WF_engineVars(WriterGoesOn)
------------------------------------------------------------------------------
(* After any number of reloads that did not run into each other and found   *)
(* the configuration and the certificate readable, every service of the     *)
(* configuration is registered, holds its address alone and has exactly one *)
(* accept loop: loader.register closes before it binds, and run serves each *)
(* new instance once.                                                       *)
ReloadServes ==
  Settled /\ trouble.why \subseteq {"unwatched"} =>
    \A s \in ServiceNames :
      /\ services[s] # 0
      /\ inst[services[s]].open /\ inst[services[s]].loops = 1
      /\ \A i \in DOMAIN inst : inst[i].svc = s /\ inst[i].open => i = services[s]

Intercepts(g) == \A s \in Proxies : services[s] # 0 /\ inst[services[s]].cert = g

(* A certificate that is generated while the proxy runs is in use in the    *)
(* end, whatever is seen of its two files when and in whatever state the    *)
(* watch's flags were left by the one before; unless a reload failed or ran *)
(* into another, or the process stopped.                                    *)
CertificateLoaded ==
  <>[](trouble.why # {} \/ up = "stopped" \/ (debounce /\ trouble.reloads = MaxReloads) \/ Intercepts(file["cert"].gen))

(* "cert reload" needs no restart: a client that comes when it is over is   *)
(* not turned away (plugins/admission.go admits everybody).                 *)
ReloadKeepsServing == \A v \in Visitors : visit[v] # "refused"
=============================================================================
