------------------------ MODULE Surroundings_proofs -------------------------
(***************************************************************************)
(* What stands around an exchange, proved for every number of connections, *)
(* addresses, names and configurations: notifications are silenced by what *)
(* was asked for, a name given to an address is one that DNS gave it, a    *)
(* limiter holds its limit, and a reload leaves no entry of its caches     *)
(* behind.                                                                 *)
(***************************************************************************)
EXTENDS Limits, Notifier, Names, TLAPS, FiniteSetTheorems

------------------------------------------------------------------------------
(* The notifier.                                                           *)

\* The connections that hold a claim.
Claimants == {c \in Companions : claimant[c] = "claimed"}

\* The setting, and what the notifier made of it.
SettingSound ==
  /\ backend \in BOOLEAN /\ enabled \in BOOLEAN /\ unsaved \in BOOLEAN
  /\ stored \in {"unset", "on", "off"}
  /\ ~unsaved => enabled = (backend /\ Resolved)

\* The counter and the connections.  While no connection was released before its
\* claim was counted, none is in that state, and the counter is the number of
\* connections with a claim.
ClaimsSound ==
  /\ claimant \in [Companions -> {"open", "marked", "claimed", "markedClosed", "closed"}]
  /\ claims \in Nat /\ stuck \in BOOLEAN
  /\ ~stuck => /\ \A c \in Companions : claimant[c] # "markedClosed"
               /\ claims = Cardinality(Claimants)

\* The claims only change with the connection that is at it.
LEMMA ClaimantsFinite ==
  IsFiniteSet(Companions) => IsFiniteSet(Claimants) /\ Cardinality(Claimants) \in Nat
BY FS_Subset, FS_CardinalityType DEF Claimants

\* An update leaves the notifier with what the setting says (settings.go and
\* SetEnabled).
LEMMA UpdateKeepsSetting ==
  ASSUME SettingSound, NEW v \in {"on", "off"}, NEW saved \in BOOLEAN, UpdateSetting(v, saved)
  PROVE  SettingSound'
<1>1. backend' = backend /\ stored' = v
  BY DEF UpdateSetting
<1>2. backend' \in BOOLEAN /\ stored' \in {"unset", "on", "off"}
  BY <1>1 DEF SettingSound
<1>3. unsaved' \in BOOLEAN /\ (~unsaved' => ~unsaved /\ saved)
  <2>1. unsaved' = IF saved THEN unsaved ELSE TRUE
    BY DEF UpdateSetting
  <2>2. unsaved \in BOOLEAN
    BY DEF SettingSound
  <2> QED BY <2>1, <2>2
<1>4. Resolved \in BOOLEAN /\ enabled \in BOOLEAN /\ backend \in BOOLEAN
  BY DEF SettingSound, Resolved
<1>5. Resolved' = (v = "on")
  BY <1>1 DEF Resolved
<1>6. enabled' = IF saved /\ NotifChanged(v) THEN Switched(v) ELSE enabled
  BY DEF UpdateSetting
<1>7. enabled' \in BOOLEAN
  BY <1>4, <1>6 DEF Switched
<1>8. ASSUME ~unsaved' PROVE enabled' = (backend' /\ Resolved')
  <2>1. saved /\ enabled = (backend /\ Resolved)
    BY <1>3, <1>8 DEF SettingSound
  <2>2. CASE NotifChanged(v)
    <3>1. enabled' = IF v = "on" /\ ~backend THEN enabled ELSE v = "on"
      BY <1>6, <2>1, <2>2 DEF Switched
    <3>2. Resolved # (v = "on")
      BY <2>2 DEF NotifChanged
    <3>3. CASE v = "on"
      BY <1>1, <1>4, <1>5, <2>1, <3>1, <3>2, <3>3
    <3>4. CASE v # "on"
      BY <1>1, <1>4, <1>5, <2>1, <3>1, <3>2, <3>4
    <3> QED BY <3>3, <3>4
  <2>3. CASE ~NotifChanged(v)
    <3>1. enabled' = enabled /\ Resolved = (v = "on")
      BY <1>6, <2>3 DEF NotifChanged
    <3> QED BY <1>1, <1>5, <2>1, <3>1
  <2> QED BY <2>2, <2>3
<1> QED BY <1>2, <1>3, <1>7, <1>8 DEF SettingSound

\* A step of a connection leaves the counter with the claims that are held
\* (ClaimNotifications, ReleaseNotifications and the websocket's reader).
LEMMA ClaimStepSound ==
  ASSUME IsFiniteSet(Companions), ClaimsSound, NEW c \in Companions,
         MarkClaim(c) \/ CountClaim(c) \/ Disconnect(c)
  PROVE  ClaimsSound'
<1>1. IsFiniteSet(Claimants) /\ Cardinality(Claimants) \in Nat
  BY ClaimantsFinite
<1>2. CASE MarkClaim(c)
  <2>1. claimant' = [claimant EXCEPT ![c] = "marked"] /\ claimant[c] = "open"
        /\ claims' = claims /\ stuck' = stuck
    BY <1>2 DEF MarkClaim
  <2>2. Claimants' = Claimants
    BY <2>1 DEF Claimants, ClaimsSound
  <2> QED BY <2>1, <2>2 DEF ClaimsSound
<1>3. CASE CountClaim(c)
  <2>1. /\ claimant' = [claimant EXCEPT ![c] = IF @ = "marked" THEN "claimed" ELSE "closed"]
        /\ claimant[c] \in {"marked", "markedClosed"} /\ claims' = claims + 1 /\ stuck' = stuck
    BY <1>3 DEF CountClaim
  <2>2. ASSUME ~stuck PROVE claims' = Cardinality(Claimants')
    <3>1. claimant[c] = "marked"
      BY <2>1, <2>2 DEF ClaimsSound
    <3>2. Claimants' = Claimants \cup {c} /\ c \notin Claimants
      BY <2>1, <3>1 DEF Claimants, ClaimsSound
    <3>3. Cardinality(Claimants \cup {c}) = Cardinality(Claimants) + 1
      BY <1>1, <3>2, FS_AddElement
    <3> QED BY <2>1, <2>2, <3>2, <3>3 DEF ClaimsSound
  <2> QED BY <2>1, <2>2 DEF ClaimsSound
<1>4. CASE Disconnect(c)
  <2>1. /\ claimant' = [claimant EXCEPT ![c] = IF @ = "marked" THEN "markedClosed" ELSE "closed"]
        /\ claimant[c] \in {"open", "marked", "claimed"}
        /\ claims' = (IF claimant[c] = "open" \/ claims = 0 THEN claims ELSE claims - 1)
    BY <1>4 DEF Disconnect
  <2>2. stuck' \in BOOLEAN /\ (~stuck' => ~stuck /\ claimant[c] # "marked")
    <3>1. stuck' = (stuck \/ claimant[c] = "marked") /\ stuck \in BOOLEAN
      BY <1>4 DEF Disconnect, ClaimsSound
    <3> QED BY <3>1
  <2>3. claims' \in Nat
    BY <2>1 DEF ClaimsSound
  <2>4. ASSUME ~stuck' PROVE claims' = Cardinality(Claimants')
    <3>1. ~stuck /\ claims = Cardinality(Claimants) /\ claimant[c] # "marked"
      BY <2>2, <2>4 DEF ClaimsSound
    <3>2. CASE claimant[c] = "open"
      <4>1. Claimants' = Claimants
        BY <2>1, <3>2 DEF Claimants, ClaimsSound
      <4> QED BY <2>1, <3>1, <3>2, <4>1
    <3>3. CASE claimant[c] = "claimed"
      <4>1. Claimants' = Claimants \ {c} /\ c \in Claimants
        BY <2>1, <3>3 DEF Claimants, ClaimsSound
      <4>2. Cardinality(Claimants \ {c}) = Cardinality(Claimants) - 1
        BY <1>1, <4>1, FS_RemoveElement
      <4>3. Claimants # {} => Cardinality(Claimants) # 0
        BY <1>1, FS_EmptySet
      <4> QED BY <2>1, <3>1, <3>3, <4>1, <4>2, <4>3
    <3> QED BY <2>1, <3>1, <3>2, <3>3
  <2>5. \A x \in Companions : ~stuck' => claimant'[x] # "markedClosed"
    BY <2>1, <2>2 DEF ClaimsSound
  <2>6. claimant' \in [Companions -> {"open", "marked", "claimed", "markedClosed", "closed"}]
    BY <2>1 DEF ClaimsSound
  <2> QED BY <2>2, <2>3, <2>4, <2>5, <2>6 DEF ClaimsSound
<1> QED BY <1>2, <1>3, <1>4

\* The notifier's invariant.
LEMMA NotifierInvariant ==
  NotifierSpec => [](SettingSound /\ ClaimsSound)
<1>1. NotifierInit => SettingSound /\ ClaimsSound
  <2> SUFFICES ASSUME NotifierInit PROVE SettingSound /\ ClaimsSound
    OBVIOUS
  <2>1. enabled = (backend /\ Resolved) /\ backend \in BOOLEAN
    BY DEF NotifierInit
  <2>2. Resolved \in BOOLEAN /\ stored \in {"unset", "on", "off"}
    BY DEF NotifierInit, Resolved
  <2>3. SettingSound
    BY <2>1, <2>2 DEF NotifierInit, SettingSound
  <2>4. Claimants = {}
    BY DEF NotifierInit, Claimants
  <2>5. ClaimsSound
    BY <2>4, FS_EmptySet DEF NotifierInit, ClaimsSound
  <2> QED BY <2>3, <2>5
<1>2. SettingSound /\ ClaimsSound /\ [NotifierNext]_notifierVars => (SettingSound /\ ClaimsSound)'
  <2> SUFFICES ASSUME SettingSound, ClaimsSound, [NotifierNext]_notifierVars
               PROVE  SettingSound' /\ ClaimsSound'
    OBVIOUS
  <2>1. ASSUME UNCHANGED settingVars PROVE SettingSound'
    BY <2>1 DEF settingVars, SettingSound, Resolved
  <2>2. ASSUME UNCHANGED claimVars PROVE ClaimsSound'
    BY <2>2 DEF claimVars, ClaimsSound, Claimants
  <2>3. CASE UNCHANGED notifierVars
    BY <2>1, <2>2, <2>3 DEF notifierVars
  <2>4. ASSUME NEW v \in {"on", "off"}, NEW saved \in BOOLEAN, UpdateSetting(v, saved)
        PROVE SettingSound' /\ ClaimsSound'
    BY <2>2, <2>4, UpdateKeepsSetting DEF UpdateSetting
  <2>5. ASSUME NEW c \in Companions, MarkClaim(c) \/ CountClaim(c) \/ Disconnect(c)
        PROVE SettingSound' /\ ClaimsSound'
    <3>1. UNCHANGED settingVars
      BY <2>5 DEF MarkClaim, CountClaim, Disconnect
    <3> QED BY <2>1, <2>5, <3>1, ClaimStepSound, NotifierAssumption
  <2>6. ASSUME NEW p \in Requests,
               \/ NewPending(p) \/ WaiterBack(p) \/ CooldownPasses(p)
               \/ \E by \in {"dashboard", "api"} : ResolvePending(p, by)
        PROVE SettingSound' /\ ClaimsSound'
    BY <2>1, <2>2, <2>6 DEF NewPending, WaiterBack, CooldownPasses, ResolvePending
  <2>7. CASE HandleEvent
    BY <2>1, <2>2, <2>7 DEF HandleEvent
  <2>8. ASSUME NEW i \in DOMAIN notes, TrackNotification(i) \/ UntrackNotification(i)
        PROVE SettingSound' /\ ClaimsSound'
    BY <2>1, <2>2, <2>8 DEF TrackNotification, UntrackNotification
  <2> QED BY <2>3, <2>4, <2>5, <2>6, <2>7, <2>8 DEF NotifierNext
<1> QED BY <1>1, <1>2, PTL DEF NotifierSpec

\* Notifications are silenced by the claims that companions hold and by the
\* setting, for any number of connections, updates and events; the two exceptions
\* are the release of a connection whose claim is still being made (websocket.go)
\* and an update that could not be saved (settings.go).
THEOREM NotificationsSilencedAsAsked ==
  NotifierSpec => []SilencedAsAsked
<1>1. SettingSound /\ ClaimsSound => SilencedAsAsked
  BY DEF SettingSound, ClaimsSound, SilencedAsAsked, Claimants
<1> QED BY <1>1, NotifierInvariant, PTL

------------------------------------------------------------------------------
(* The names of addresses.                                                 *)

\* A name of the set N, or none, with a time.
Dated(N) == [host : N \cup {"none"}, at : Nat]

\* Histories are not ahead of the clock; a write under way belongs to an answer
\* of this instant, since the clock waits for it.
AnswersSound ==
  /\ clock \in Nat
  /\ answers \in [Ips -> [Domains -> Int]]
  /\ \A ip \in Ips, h \in Domains : answers[ip][h] <= clock
  /\ writes \subseteq [host : Domains, ips : SUBSET Ips]
  /\ \A w \in writes : \A ip \in w.ips : answers[ip][w.host] = clock

\* A row has a name that DNS gave, and is no younger than that answer.
TableSound ==
  /\ table \in [Ips -> Dated(Domains)]
  /\ \A ip \in Ips : table[ip].host # "none" =>
       answers[ip][table[ip].host] >= 0 /\ table[ip].at <= answers[ip][table[ip].host]

\* An entry has a name that DNS gave, and ends within the life of a row and of
\* an entry after that answer.
EntriesSound ==
  /\ entries \in [Ips -> Dated(Domains)]
  /\ \A ip \in Ips : entries[ip].host # "none" =>
       /\ answers[ip][entries[ip].host] >= 0
       /\ entries[ip].at <= answers[ip][entries[ip].host] + DbTTL + TTL

LookupsSound ==
  resolving \in [Lookups -> [pc : {"table", "reverse"}, ip : Ips] \cup {IdleLookup}]

\* A cached container that is not the one at the address was cached before the
\* successor came.
DockerSound ==
  /\ docker \in [Ips -> Dated(Containers)] /\ dcache \in [Ips -> Dated(Containers)]
  /\ \A ip \in Ips : docker[ip].at <= clock /\ dcache[ip].at <= clock + DockerTTL
  /\ \A ip \in Ips : dcache[ip].host \notin {"none", docker[ip].host} =>
                       dcache[ip].at <= docker[ip].at + DockerTTL

DnsSound == AnswersSound /\ TableSound /\ EntriesSound /\ LookupsSound

\* An answer is written down as the newest one, and what was known of other names
\* and addresses stays (RegisterIPs).
LEMMA RegisterKeepsAnswers ==
  ASSUME AnswersSound, NEW host \in Domains, NEW ips \in SUBSET Ips, RegisterIPs(host, ips),
         clock' = clock
  PROVE  /\ AnswersSound'
         /\ \A ip \in Ips, h \in Domains : answers'[ip][h] \in Int /\ answers'[ip][h] >= answers[ip][h]
         /\ \A ip \in ips : answers'[ip][host] = clock
<1>1. answers' = [ip \in Ips |-> IF ip \in ips THEN [answers[ip] EXCEPT ![host] = clock] ELSE answers[ip]]
  BY DEF RegisterIPs
<1>2. writes' = writes \cup {[host |-> host, ips |-> ips]}
  BY DEF RegisterIPs
<1>3. \A ip \in Ips : answers[ip] \in [Domains -> Int]
  BY DEF AnswersSound
<1>4. \A ip \in Ips, h \in Domains :
        answers'[ip][h] = IF ip \in ips /\ h = host THEN clock ELSE answers[ip][h]
  BY <1>1, <1>3
<1>5. answers' \in [Ips -> [Domains -> Int]]
  BY <1>1, <1>3 DEF AnswersSound
<1>6. \A ip \in Ips, h \in Domains : answers[ip][h] \in Int /\ answers[ip][h] <= clock /\ clock \in Nat
  BY <1>3 DEF AnswersSound
<1>7. \A ip \in Ips, h \in Domains : /\ answers'[ip][h] \in Int
                                     /\ answers'[ip][h] >= answers[ip][h] /\ answers'[ip][h] <= clock
  BY <1>4, <1>6
<1>8. writes' \subseteq [host : Domains, ips : SUBSET Ips]
  BY <1>2 DEF AnswersSound
<1>9. ASSUME NEW w \in writes', NEW ip \in w.ips PROVE answers'[ip][w.host] = clock
  <2>1. CASE w \in writes
    <3>1. ip \in Ips /\ w.host \in Domains /\ answers[ip][w.host] = clock
      BY <1>9, <2>1 DEF AnswersSound
    <3> QED BY <1>4, <3>1
  <2>2. CASE w = [host |-> host, ips |-> ips]
    BY <1>4, <1>9, <2>2
  <2> QED BY <1>2, <1>9, <2>1, <2>2
<1>10. \A ip \in ips : answers'[ip][host] = clock
  BY <1>4
<1> QED BY <1>5, <1>7, <1>8, <1>9, <1>10 DEF AnswersSound

\* What is known of names stays true when answers only become newer.
LEMMA NewerAnswers ==
  ASSUME AnswersSound, TableSound, EntriesSound, LookupsSound, clock' = clock, table' = table,
         \A ip \in Ips, h \in Domains : answers'[ip][h] \in Int /\ answers'[ip][h] >= answers[ip][h]
  PROVE  /\ TableSound'
         /\ \A ip \in Ips : entries[ip].host # "none" =>
              /\ answers'[ip][entries[ip].host] >= 0
              /\ entries[ip].at <= answers'[ip][entries[ip].host] + DbTTL + TTL
<1>1. \A ip \in Ips : table[ip] \in Dated(Domains) /\ entries[ip] \in Dated(Domains)
  BY DEF TableSound, EntriesSound
<1>2. \A ip \in Ips : /\ table[ip].host \in Domains \cup {"none"} /\ table[ip].at \in Nat
                      /\ entries[ip].host \in Domains \cup {"none"} /\ entries[ip].at \in Nat
  BY <1>1 DEF Dated
<1>3. \A ip \in Ips, h \in Domains : answers[ip][h] \in Int
  BY DEF AnswersSound
<1>4. ASSUME NEW ip \in Ips, table[ip].host # "none"
      PROVE  answers'[ip][table[ip].host] >= 0 /\ table[ip].at <= answers'[ip][table[ip].host]
  <2>1. PICK h \in Domains : h = table[ip].host
    BY <1>2, <1>4
  <2>2. answers[ip][h] >= 0 /\ table[ip].at <= answers[ip][h]
    BY <1>4, <2>1 DEF TableSound
  <2>3. answers'[ip][h] >= 0 /\ table[ip].at <= answers'[ip][h]
    BY <1>2, <1>3, <2>2
  <2> QED BY <2>1, <2>3
<1>5. ASSUME NEW ip \in Ips, entries[ip].host # "none"
      PROVE  /\ answers'[ip][entries[ip].host] >= 0
             /\ entries[ip].at <= answers'[ip][entries[ip].host] + DbTTL + TTL
  <2>1. PICK h \in Domains : h = entries[ip].host
    BY <1>2, <1>5
  <2>2. answers[ip][h] >= 0 /\ entries[ip].at <= answers[ip][h] + DbTTL + TTL
    BY <1>5, <2>1 DEF EntriesSound
  <2>3. answers'[ip][h] >= 0 /\ entries[ip].at <= answers'[ip][h] + DbTTL + TTL
    BY <1>2, <1>3, <2>2, NamesAssumption
  <2> QED BY <2>1, <2>3
<1> QED BY <1>4, <1>5 DEF TableSound

\* An answer of DNS reaches the memory at once (RegisterIPs).
LEMMA RegisterSound ==
  ASSUME DnsSound, NEW host \in Domains, NEW ips \in SUBSET Ips, RegisterIPs(host, ips),
         clock' = clock, table' = table
  PROVE  AnswersSound' /\ TableSound' /\ EntriesSound'
<1> USE DEF DnsSound
<1>1. /\ AnswersSound'
      /\ \A ip \in Ips, h \in Domains : answers'[ip][h] \in Int /\ answers'[ip][h] >= answers[ip][h]
      /\ \A ip \in ips : answers'[ip][host] = clock
  BY RegisterKeepsAnswers
<1>2. /\ TableSound'
      /\ \A ip \in Ips : entries[ip].host # "none" =>
           /\ answers'[ip][entries[ip].host] >= 0
           /\ entries[ip].at <= answers'[ip][entries[ip].host] + DbTTL + TTL
  BY <1>1, NewerAnswers
<1>3. entries' = [ip \in Ips |-> IF ip \in ips THEN Cached(host) ELSE entries[ip]]
  BY DEF RegisterIPs
<1>4. Cached(host) = [host |-> host, at |-> clock + TTL] /\ clock \in Nat /\ TTL \in Nat /\ DbTTL \in Nat
  BY NamesAssumption DEF Cached, AnswersSound
<1>5. Cached(host) \in Dated(Domains)
  BY <1>4 DEF Dated
<1>6. entries' \in [Ips -> Dated(Domains)]
  BY <1>3, <1>5 DEF EntriesSound
<1>7. ASSUME NEW ip \in Ips, entries'[ip].host # "none"
      PROVE  /\ answers'[ip][entries'[ip].host] >= 0
             /\ entries'[ip].at <= answers'[ip][entries'[ip].host] + DbTTL + TTL
  <2>1. CASE ip \in ips
    <3>1. entries'[ip].host = host /\ entries'[ip].at = clock + TTL
      BY <1>3, <1>4, <2>1
    <3>2. answers'[ip][host] = clock
      BY <1>1, <2>1
    <3> QED BY <1>4, <3>1, <3>2
  <2>2. CASE ip \notin ips
    <3>1. entries'[ip] = entries[ip]
      BY <1>3, <2>2
    <3> QED BY <1>2, <1>7, <3>1
  <2> QED BY <2>1, <2>2
<1> QED BY <1>1, <1>2, <1>6, <1>7 DEF EntriesSound

\* An entry made from a row that is still fresh is within the bound (ResolveIP
\* and loadFromDB).
LEMMA FromRow ==
  ASSUME AnswersSound, TableSound, NEW ip \in Ips, FreshRow(ip)
  PROVE  /\ Cached(table[ip].host) \in Dated(Domains)
         /\ answers[ip][table[ip].host] >= 0
         /\ clock + TTL <= answers[ip][table[ip].host] + DbTTL + TTL
<1>1. table[ip] \in Dated(Domains) /\ table[ip].host # "none" /\ table[ip].at > clock - DbTTL
  BY DEF TableSound, FreshRow
<1>2. PICK h \in Domains : h = table[ip].host
  BY <1>1 DEF Dated
<1>3. table[ip].at \in Nat /\ clock \in Nat /\ answers[ip][h] \in Int
  BY <1>1 DEF Dated, AnswersSound
<1>4. answers[ip][h] >= 0 /\ table[ip].at <= answers[ip][h]
  BY <1>1, <1>2 DEF TableSound
<1>5. TTL \in Nat /\ DbTTL \in Nat
  BY NamesAssumption
<1>6. clock + TTL <= answers[ip][h] + DbTTL + TTL
  BY <1>1, <1>3, <1>4, <1>5
<1>7. Cached(h) \in Dated(Domains)
  BY <1>3, <1>5 DEF Cached, Dated
<1> QED BY <1>2, <1>4, <1>6, <1>7

\* A goroutine writes its answer into the table (persistToDB).
LEMMA PersistSound ==
  ASSUME DnsSound, NEW w \in writes, Persist(w)
  PROVE  DnsSound'
<1> USE DEF DnsSound
<1>1. /\ writes' = writes \ {w} /\ clock' = clock /\ answers' = answers /\ entries' = entries
      /\ resolving' = resolving
      /\ table' = [ip \in Ips |-> IF ip \in w.ips THEN [host |-> w.host, at |-> clock] ELSE table[ip]]
  BY DEF Persist, dockerVars
<1>2. w.host \in Domains /\ clock \in Nat /\ \A ip \in w.ips : ip \in Ips /\ answers[ip][w.host] = clock
  BY DEF AnswersSound
<1>3. [host |-> w.host, at |-> clock] \in Dated(Domains)
  BY <1>2 DEF Dated
<1>4. table' \in [Ips -> Dated(Domains)]
  BY <1>1, <1>3 DEF TableSound
<1>5. ASSUME NEW ip \in Ips, table'[ip].host # "none"
      PROVE  answers'[ip][table'[ip].host] >= 0 /\ table'[ip].at <= answers'[ip][table'[ip].host]
  <2>1. CASE ip \in w.ips
    <3>1. table'[ip].host = w.host /\ table'[ip].at = clock
      BY <1>1, <2>1
    <3> QED BY <1>1, <1>2, <2>1, <3>1
  <2>2. CASE ip \notin w.ips
    BY <1>1, <1>5, <2>2 DEF TableSound
  <2> QED BY <2>1, <2>2
<1>6. TableSound'
  BY <1>4, <1>5 DEF TableSound
<1>7. AnswersSound' /\ EntriesSound' /\ LookupsSound'
  BY <1>1 DEF AnswersSound, EntriesSound, LookupsSound
<1> QED BY <1>6, <1>7

\* The steps of a lookup (DNSCache.ResolveIP).
LEMMA LookupSound ==
  ASSUME DnsSound, NEW g \in Lookups,
         \/ \E ip \in Ips : StartResolve(g, ip)
         \/ ResolveFromDB(g)
         \/ \E h \in Domains \cup {"none"} : ReverseLookup(g, h)
  PROVE  DnsSound'
<1> USE DEF DnsSound
<1>1. ASSUME NEW ip \in Ips, StartResolve(g, ip) PROVE DnsSound'
  <2>1. /\ UNCHANGED <<clock, answers, entries, table, writes>>
        /\ resolving' = [resolving EXCEPT ![g] = [pc |-> "table", ip |-> ip]]
    BY <1>1 DEF StartResolve
  <2>2. LookupsSound'
    BY <2>1 DEF LookupsSound
  <2> QED BY <2>1, <2>2 DEF AnswersSound, TableSound, EntriesSound
<1>2. ASSUME resolving[g].pc # "idle"
      PROVE  resolving[g].ip \in Ips /\ [resolving[g] EXCEPT !.pc = "reverse"] \in [pc : {"table", "reverse"}, ip : Ips]
  <2>1. resolving[g] \in [pc : {"table", "reverse"}, ip : Ips]
    BY <1>2 DEF LookupsSound, IdleLookup
  <2> QED BY <2>1
<1>3. CASE ResolveFromDB(g)
  <2>1. resolving[g].pc = "table" /\ UNCHANGED <<clock, answers, table, writes>>
    BY <1>3 DEF ResolveFromDB
  <2>2. PICK ip \in Ips : ip = resolving[g].ip
    BY <1>2, <2>1
  <2>3. CASE FreshRow(ip)
    <3>1. /\ entries' = [entries EXCEPT ![ip] = Cached(table[ip].host)]
          /\ resolving' = [resolving EXCEPT ![g] = IdleLookup]
      BY <1>3, <2>2, <2>3 DEF ResolveFromDB
    <3>2. /\ Cached(table[ip].host) \in Dated(Domains)
          /\ answers[ip][table[ip].host] >= 0
          /\ clock + TTL <= answers[ip][table[ip].host] + DbTTL + TTL
      BY <2>3, FromRow
    <3>3. entries' \in [Ips -> Dated(Domains)]
      BY <3>1, <3>2 DEF EntriesSound
    <3>4. ASSUME NEW j \in Ips, entries'[j].host # "none"
          PROVE  /\ answers'[j][entries'[j].host] >= 0
                 /\ entries'[j].at <= answers'[j][entries'[j].host] + DbTTL + TTL
      <4>1. CASE j = ip
        <5>1. entries'[j] = [host |-> table[ip].host, at |-> clock + TTL]
          BY <3>1, <4>1 DEF EntriesSound, Cached
        <5> QED BY <2>1, <3>2, <4>1, <5>1
      <4>2. CASE j # ip
        <5>1. entries'[j] = entries[j]
          BY <3>1, <4>2 DEF EntriesSound
        <5> QED BY <2>1, <3>4, <5>1 DEF EntriesSound
      <4> QED BY <4>1, <4>2
    <3>5. EntriesSound'
      BY <3>3, <3>4 DEF EntriesSound
    <3>6. LookupsSound'
      BY <3>1 DEF LookupsSound
    <3> QED BY <2>1, <3>5, <3>6 DEF AnswersSound, TableSound
  <2>4. CASE ~FreshRow(ip)
    <3>1. resolving' = [resolving EXCEPT ![g].pc = "reverse"] /\ entries' = entries
      BY <1>3, <2>2, <2>4 DEF ResolveFromDB
    <3>2. LookupsSound'
      BY <1>2, <2>1, <3>1 DEF LookupsSound
    <3> QED BY <2>1, <3>1, <3>2 DEF AnswersSound, TableSound, EntriesSound
  <2> QED BY <2>3, <2>4
<1>4. ASSUME NEW h \in Domains \cup {"none"}, ReverseLookup(g, h) PROVE DnsSound'
  <2>1. /\ resolving[g].pc = "reverse" /\ resolving' = [resolving EXCEPT ![g] = IdleLookup]
        /\ clock' = clock /\ table' = table
    BY <1>4 DEF ReverseLookup
  <2>2. PICK ip \in Ips : ip = resolving[g].ip
    BY <1>2, <2>1
  <2>3. LookupsSound'
    BY <2>1 DEF LookupsSound
  <2>4. CASE h = "none"
    <3>1. UNCHANGED <<answers, entries, writes>>
      BY <1>4, <2>4 DEF ReverseLookup
    <3> QED BY <2>1, <2>3, <3>1 DEF AnswersSound, TableSound, EntriesSound
  <2>5. CASE h # "none"
    <3>1. h \in Domains /\ RegisterIPs(h, {ip}) /\ {ip} \in SUBSET Ips
      BY <1>4, <2>2, <2>5 DEF ReverseLookup
    <3> QED BY <2>1, <2>3, <3>1, RegisterSound
  <2> QED BY <2>4, <2>5
<1> QED BY <1>1, <1>3, <1>4

\* A restart reads the table back (loadFromDB).
LEMMA RestartSound ==
  ASSUME DnsSound, RestartNames
  PROVE  DnsSound'
<1> USE DEF DnsSound
<1>1. /\ entries' = [ip \in Ips |-> IF FreshRow(ip) THEN Cached(table[ip].host) ELSE NoName]
      /\ writes' = {} /\ resolving' = [g \in Lookups |-> IdleLookup]
      /\ UNCHANGED <<clock, answers, table>>
  BY DEF RestartNames
<1>2. NoName \in Dated(Domains) /\ NoName.host = "none"
  BY DEF NoName, Dated
<1>3. entries' \in [Ips -> Dated(Domains)]
  BY <1>1, <1>2, FromRow
<1>4. ASSUME NEW ip \in Ips, entries'[ip].host # "none"
      PROVE  /\ answers'[ip][entries'[ip].host] >= 0
             /\ entries'[ip].at <= answers'[ip][entries'[ip].host] + DbTTL + TTL
  <2>1. FreshRow(ip) /\ entries'[ip] = Cached(table[ip].host)
    BY <1>1, <1>2, <1>4
  <2>2. entries'[ip].host = table[ip].host /\ entries'[ip].at = clock + TTL
    BY <2>1 DEF Cached
  <2>3. /\ answers[ip][table[ip].host] >= 0
        /\ clock + TTL <= answers[ip][table[ip].host] + DbTTL + TTL
    BY <2>1, FromRow
  <2> QED BY <1>1, <2>2, <2>3
<1>5. EntriesSound'
  BY <1>3, <1>4 DEF EntriesSound
<1>6. AnswersSound' /\ TableSound' /\ LookupsSound'
  BY <1>1 DEF AnswersSound, TableSound, LookupsSound
<1> QED BY <1>5, <1>6

\* The clock only moves when no write is under way.
LEMMA TickSound ==
  ASSUME DnsSound, DockerSound, Tick
  PROVE  DnsSound' /\ DockerSound'
<1>1. writes = {} /\ clock' = clock + 1
  BY DEF Tick
<1>2. UNCHANGED <<answers, entries, table, writes, resolving, docker, dcache>>
  BY DEF Tick, dnsVars, dockerVars
<1>3. AnswersSound'
  <2>1. clock' \in Nat /\ answers' \in [Ips -> [Domains -> Int]] /\ writes' = {}
    BY <1>1, <1>2 DEF DnsSound, AnswersSound
  <2>2. ASSUME NEW ip \in Ips, NEW h \in Domains PROVE answers'[ip][h] <= clock'
    <3>1. answers[ip][h] \in Int /\ answers[ip][h] <= clock /\ clock \in Nat
      BY DEF DnsSound, AnswersSound
    <3> QED BY <1>1, <1>2, <3>1
  <2> QED BY <2>1, <2>2 DEF AnswersSound
<1>4. TableSound' /\ EntriesSound' /\ LookupsSound'
  BY <1>2 DEF DnsSound, TableSound, EntriesSound, LookupsSound
<1>5. DockerSound'
  <2>1. \A ip \in Ips : docker[ip].at \in Nat /\ dcache[ip].at \in Nat
    BY DEF DockerSound, Dated
  <2>2. clock \in Nat /\ DockerTTL \in Nat
    BY NamesAssumption DEF DnsSound, AnswersSound
  <2>3. \A ip \in Ips : docker'[ip].at <= clock' /\ dcache'[ip].at <= clock' + DockerTTL
    BY <1>1, <1>2, <2>1, <2>2 DEF DockerSound
  <2> QED BY <1>2, <2>3 DEF DockerSound
<1> QED BY <1>3, <1>4, <1>5 DEF DnsSound

\* The steps of the Docker resolver and of the containers (docker.go).
LEMMA DockerStepSound ==
  ASSUME clock \in Nat, DockerSound, NEW ip \in Ips,
         DockerResolve(ip) \/ \E c \in Containers : ContainerMoves(ip, c)
  PROVE  DockerSound'
<1>1. DockerTTL \in Nat
  BY NamesAssumption
<1>2. CASE DockerResolve(ip)
  <2>1. /\ dcache' = [dcache EXCEPT ![ip] = [host |-> docker[ip].host, at |-> clock + DockerTTL]]
        /\ docker' = docker /\ clock' = clock
    BY <1>2 DEF DockerResolve
  <2>2. docker[ip].host \in Containers \cup {"none"} /\ clock + DockerTTL \in Nat
    BY <1>1 DEF DockerSound, Dated
  <2>3. dcache' \in [Ips -> Dated(Containers)]
    BY <2>1, <2>2 DEF DockerSound, Dated
  <2>4. \A j \in Ips : dcache'[j] = IF j = ip THEN [host |-> docker[ip].host, at |-> clock + DockerTTL] ELSE dcache[j]
    BY <2>1 DEF DockerSound
  <2>5. dcache'[ip].host = docker'[ip].host /\ dcache'[ip].at = clock + DockerTTL
    BY <2>1, <2>4
  <2>6. \A j \in Ips : j # ip => dcache'[j] = dcache[j]
    BY <2>4
  <2> QED BY <1>1, <2>1, <2>2, <2>3, <2>5, <2>6 DEF DockerSound
<1>3. ASSUME NEW c \in Containers, ContainerMoves(ip, c) PROVE DockerSound'
  <2>1. docker' = [docker EXCEPT ![ip] = [host |-> c, at |-> clock]] /\ dcache' = dcache /\ clock' = clock
    BY <1>3 DEF ContainerMoves
  <2>2. docker' \in [Ips -> Dated(Containers)]
    BY <2>1 DEF DockerSound, Dated
  <2>3. docker'[ip].at = clock
    BY <2>1 DEF DockerSound
  <2>4. \A j \in Ips : j # ip => docker'[j] = docker[j]
    BY <2>1 DEF DockerSound
  <2> QED BY <1>1, <2>1, <2>2, <2>3, <2>4 DEF DockerSound
<1> QED BY <1>2, <1>3

\* The invariant of the caches of names.
LEMMA NamesInvariant ==
  NamesSpec => [](DnsSound /\ DockerSound)
<1>1. NamesInit => DnsSound /\ DockerSound
  <2> SUFFICES ASSUME NamesInit PROVE DnsSound /\ DockerSound
    OBVIOUS
  <2>1. NoName \in Dated(Domains) /\ NoName \in Dated(Containers) /\ NoName.host = "none" /\ NoName.at = 0
    BY DEF NoName, Dated
  <2>2. AnswersSound /\ LookupsSound
    BY DEF NamesInit, AnswersSound, LookupsSound
  <2>3. TableSound /\ EntriesSound
    BY <2>1 DEF NamesInit, TableSound, EntriesSound
  <2>4. DockerSound
    BY <2>1, NamesAssumption DEF NamesInit, DockerSound
  <2> QED BY <2>2, <2>3, <2>4 DEF DnsSound
<1>2. DnsSound /\ DockerSound /\ [NamesNext]_namesVars => (DnsSound /\ DockerSound)'
  <2> SUFFICES ASSUME DnsSound, DockerSound, [NamesNext]_namesVars
               PROVE  DnsSound' /\ DockerSound'
    OBVIOUS
  <2>1. ASSUME UNCHANGED <<clock, dnsVars>> PROVE DnsSound'
    BY <2>1 DEF dnsVars, DnsSound, AnswersSound, TableSound, EntriesSound, LookupsSound
  <2>2. ASSUME UNCHANGED <<clock, dockerVars>> PROVE DockerSound'
    BY <2>2 DEF dockerVars, DockerSound
  <2>3. CASE UNCHANGED namesVars
    BY <2>1, <2>2, <2>3 DEF namesVars
  <2>4. CASE Tick
    BY <2>4, TickSound
  <2>5. ASSUME NEW w \in writes, Persist(w) PROVE DnsSound' /\ DockerSound'
    BY <2>2, <2>5, PersistSound DEF Persist
  <2>6. ASSUME NEW g \in Lookups,
               \/ \E ip \in Ips : StartResolve(g, ip)
               \/ ResolveFromDB(g)
               \/ \E h \in Domains \cup {"none"} : ReverseLookup(g, h)
        PROVE DnsSound' /\ DockerSound'
    <3>1. UNCHANGED <<clock, dockerVars>>
      BY <2>6 DEF StartResolve, ResolveFromDB, ReverseLookup
    <3> QED BY <2>2, <2>6, <3>1, LookupSound
  <2>7. ASSUME NEW h \in Domains, NEW ips \in SUBSET Ips, RegisterIPs(h, ips),
               UNCHANGED <<clock, table, resolving, dockerVars>>
        PROVE DnsSound' /\ DockerSound'
    <3>1. AnswersSound' /\ TableSound' /\ EntriesSound'
      BY <2>7, RegisterSound
    <3>2. LookupsSound'
      BY <2>7 DEF DnsSound, LookupsSound
    <3> QED BY <2>2, <2>7, <3>1, <3>2 DEF DnsSound
  <2>8. ASSUME NEW h \in Domains, NEW ip \in Ips, NEW ttl \in {0, MaxTTL + 1}, Resolve(h, ip, ttl)
        PROVE DnsSound' /\ DockerSound'
    <3>1. RegisterIPs(h, {ip}) /\ {ip} \in SUBSET Ips /\ UNCHANGED <<clock, table, resolving, dockerVars>>
      BY <2>8 DEF Resolve
    <3> QED BY <2>7, <3>1
  <2>9. ASSUME NEW h \in Domains, NEW ips \in SUBSET Ips \ {{}}, PopulateCache(h, ips)
        PROVE DnsSound' /\ DockerSound'
    <3>1. RegisterIPs(h, ips) /\ ips \in SUBSET Ips /\ UNCHANGED <<clock, table, resolving, dockerVars>>
      BY <2>9 DEF PopulateCache
    <3> QED BY <2>7, <3>1
  <2>10. CASE RestartNames
    <3>1. docker' = docker /\ clock' = clock /\ dcache' = [ip \in Ips |-> NoName]
      BY <2>10 DEF RestartNames
    <3>2. NoName \in Dated(Containers) /\ NoName.host = "none" /\ NoName.at = 0
      BY DEF NoName, Dated
    <3>3. clock \in Nat /\ DockerTTL \in Nat
      BY NamesAssumption DEF DnsSound, AnswersSound
    <3>4. DockerSound'
      BY <3>1, <3>2, <3>3 DEF DockerSound
    <3> QED BY <2>10, <3>4, RestartSound
  <2>11. ASSUME NEW ip \in Ips, DockerResolve(ip) \/ \E c \in Containers : ContainerMoves(ip, c)
         PROVE DnsSound' /\ DockerSound'
    <3>1. UNCHANGED <<clock, dnsVars>>
      BY <2>11 DEF DockerResolve, ContainerMoves
    <3>2. clock \in Nat
      BY DEF DnsSound, AnswersSound
    <3> QED BY <2>1, <2>11, <3>1, <3>2, DockerStepSound
  <2> QED BY <2>3, <2>4, <2>5, <2>6, <2>8, <2>9, <2>10, <2>11 DEF NamesNext, DnsNext, DockerNext
<1> QED BY <1>1, <1>2, PTL DEF NamesSpec

\* A name that the proxy gives to an address is one that DNS gave for it, at most
\* one life of a row and one of an entry ago, and a container's name outlives it
\* by less than one DockerTTL: for any number of names, addresses, lookups and
\* containers, whatever restarts and late writes come between (dnscache.go,
\* docker.go).
THEOREM NamesGivenByDns ==
  NamesSpec => []NamesGiven
<1>1. DnsSound /\ DockerSound => NamesGiven
  <2> SUFFICES ASSUME DnsSound, DockerSound, NEW ip \in Ips
               PROVE  /\ GetCached(ip) # "none" =>
                           /\ answers[ip][GetCached(ip)] >= 0
                           /\ clock - answers[ip][GetCached(ip)] <= DbTTL + TTL
                      /\ (dcache[ip].host # "none" /\ clock < dcache[ip].at /\ dcache[ip].host # docker[ip].host) =>
                           clock - docker[ip].at < DockerTTL
    BY DEF NamesGiven
  <2>1. clock \in Nat /\ DbTTL \in Nat /\ TTL \in Nat /\ DockerTTL \in Nat
    BY NamesAssumption DEF DnsSound, AnswersSound
  <2>2. ASSUME GetCached(ip) # "none"
        PROVE  /\ answers[ip][GetCached(ip)] >= 0
               /\ clock - answers[ip][GetCached(ip)] <= DbTTL + TTL
    <3>1. entries[ip].host # "none" /\ clock <= entries[ip].at /\ GetCached(ip) = entries[ip].host
      BY <2>2 DEF GetCached
    <3>2. PICK h \in Domains : h = entries[ip].host
      BY <3>1 DEF DnsSound, EntriesSound, Dated
    <3>3. answers[ip][h] \in Int /\ entries[ip].at \in Nat
      BY DEF DnsSound, AnswersSound, EntriesSound, Dated
    <3>4. answers[ip][h] >= 0 /\ entries[ip].at <= answers[ip][h] + DbTTL + TTL
      BY <3>1, <3>2 DEF DnsSound, EntriesSound
    <3>5. clock - answers[ip][h] <= DbTTL + TTL
      BY <2>1, <3>1, <3>3, <3>4
    <3> QED BY <3>1, <3>2, <3>4, <3>5
  <2>3. ASSUME dcache[ip].host # "none", clock < dcache[ip].at, dcache[ip].host # docker[ip].host
        PROVE  clock - docker[ip].at < DockerTTL
    <3>1. docker[ip].at \in Nat /\ dcache[ip].at \in Nat
      BY DEF DockerSound, Dated
    <3>2. dcache[ip].at <= docker[ip].at + DockerTTL
      BY <2>3 DEF DockerSound
    <3> QED BY <2>1, <2>3, <3>1, <3>2
  <2> QED BY <2>2, <2>3
<1> QED BY <1>1, NamesInvariant, PTL

------------------------------------------------------------------------------
(* The traffic limiter.                                                    *)

\* What the caches hold is typed, and an entry of the history has a limit.
RatesTyped ==
  /\ tvals.network \in Rates /\ tvals.own \in [Addrs -> Rates]
  /\ ranger \in Rates
  /\ ipCache \in [Directions -> [Addrs \cup {"service"} -> Nat]]
  /\ treload \in {"idle", "addresses", "swap"}
  /\ lookup \in [addr : Addrs \cup {"none"}, dir : Directions, limit : Nat, old : BOOLEAN]
  /\ lookup.addr # "none" => lookup.limit > 0
  /\ \A d \in Directions, a \in Addrs : <<d, a>> \in staleIn => ipCache[d][a] > 0

\* The entry of an address is what the loaded values say, or it was stored from a
\* ranger that is replaced.
EntryCurrent(d, a) ==
  \/ <<d, a>> \in staleIn
  \/ ipCache[d][a] = IF tvals.own[a][d] > 0 THEN tvals.own[a][d] ELSE tvals.network[d]
  \/ ipCache[d][a] = 0 /\ tvals.own[a][d] = 0

\* Once the addresses are refreshed every entry is current; between reloads the
\* ranger is the loaded one, and a lookup that read it is for an address without
\* a limit of its own.
RatesCurrent ==
  /\ treload # "addresses" => \A d \in Directions, a \in Addrs : EntryCurrent(d, a)
  /\ treload = "idle" => ranger = tvals.network
  /\ treload = "idle" /\ lookup.addr # "none" /\ ~lookup.old =>
       lookup.limit = tvals.network[lookup.dir] /\ tvals.own[lookup.addr][lookup.dir] = 0

RatesInv == RatesTyped /\ RatesCurrent

\* No address has the key of the service.
LEMMA AddrKeys ==
  \A a \in Addrs : a # "service" /\ a # "none" /\ a \in Addrs \cup {"service"}
BY LimitsAssumption

\* A load of new values leaves the entries of the addresses alone (traffic.go,
\* load).
LEMMA LoadRates ==
  ASSUME RatesInv, NEW v \in TrafficValues, LoadTraffic(v)
  PROVE  RatesInv'
<1>1. /\ tvals' = v /\ treload' = "addresses" /\ UNCHANGED <<ranger, lookup, staleIn>>
      /\ ipCache' = [d \in Directions |-> [ipCache[d] EXCEPT !["service"] = v.service[d]]]
  BY DEF LoadTraffic
<1>2. v.network \in Rates /\ v.own \in [Addrs -> Rates] /\ v.service \in Rates
  BY LimitsAssumption
<1>3. \A d \in Directions : ipCache[d] \in [Addrs \cup {"service"} -> Nat] /\ v.service[d] \in Nat
  BY <1>2 DEF RatesInv, RatesTyped, Rates
<1>4. ipCache' \in [Directions -> [Addrs \cup {"service"} -> Nat]]
  BY <1>1, <1>3
<1>5. \A d \in Directions, a \in Addrs : ipCache'[d][a] = ipCache[d][a]
  BY <1>1, <1>3, AddrKeys
<1>6. RatesTyped'
  BY <1>1, <1>2, <1>4, <1>5 DEF RatesInv, RatesTyped
<1>7. RatesCurrent'
  BY <1>1 DEF RatesCurrent
<1> QED BY <1>6, <1>7 DEF RatesInv

\* The refreshed entries are current (traffic.go, load).
LEMMA RefreshRates ==
  ASSUME RatesInv, ReloadAddresses
  PROVE  RatesInv'
<1>1. /\ ipCache' = [d \in Directions |-> [k \in Addrs \cup {"service"} |->
                       IF k = "service" THEN ipCache[d][k] ELSE Refreshed(d, k)]]
      /\ staleIn' = {} /\ treload' = "swap" /\ UNCHANGED <<tvals, ranger, lookup>>
  BY DEF ReloadAddresses
<1>2. \A d \in Directions, a \in Addrs : tvals.own[a][d] \in Nat /\ tvals.network[d] \in Nat
  BY DEF RatesInv, RatesTyped, Rates
<1>3. \A d \in Directions, a \in Addrs : Refreshed(d, a) \in Nat
  BY <1>2 DEF Refreshed
<1>4. \A d \in Directions, k \in Addrs \cup {"service"} : ipCache[d][k] \in Nat
  BY DEF RatesInv, RatesTyped
<1>5. ipCache' \in [Directions -> [Addrs \cup {"service"} -> Nat]]
  BY <1>1, <1>3, <1>4
<1>6. \A d \in Directions, a \in Addrs : ipCache'[d][a] = Refreshed(d, a)
  BY <1>1, AddrKeys
<1>7. RatesTyped'
  BY <1>1, <1>5 DEF RatesInv, RatesTyped
<1>8. ASSUME NEW d \in Directions, NEW a \in Addrs PROVE EntryCurrent(d, a)'
  BY <1>1, <1>2, <1>6 DEF Refreshed, EntryCurrent
<1>9. RatesCurrent'
  BY <1>1, <1>8 DEF RatesCurrent
<1> QED BY <1>7, <1>9 DEF RatesInv

\* The networks are replaced; a lookup under way has read the old ones.
LEMMA SwapRates ==
  ASSUME RatesInv, SwapRanger
  PROVE  RatesInv'
<1>1. /\ treload = "swap" /\ ranger' = tvals.network /\ treload' = "idle" /\ UNCHANGED <<tvals, ipCache, staleIn>>
  BY DEF SwapRanger
<1>2. lookup' = [lookup EXCEPT !.old = lookup.addr # "none"]
  BY DEF SwapRanger
<1>3. lookup' \in [addr : Addrs \cup {"none"}, dir : Directions, limit : Nat, old : BOOLEAN]
  <2>1. (lookup.addr # "none") \in BOOLEAN
    OBVIOUS
  <2> QED BY <1>2, <2>1 DEF RatesInv, RatesTyped
<1>4. lookup'.addr = lookup.addr /\ lookup'.limit = lookup.limit
  BY <1>2 DEF RatesInv, RatesTyped
<1>5. lookup'.old = (lookup.addr # "none")
  BY <1>2 DEF RatesInv, RatesTyped
<1>6. RatesTyped'
  BY <1>1, <1>3, <1>4 DEF RatesInv, RatesTyped
<1>7. \A d \in Directions, a \in Addrs : EntryCurrent(d, a)'
  BY <1>1 DEF RatesInv, RatesCurrent, EntryCurrent
<1>8. lookup'.addr # "none" => lookup'.old
  BY <1>4, <1>5
<1>9. RatesCurrent'
  BY <1>1, <1>7, <1>8 DEF RatesCurrent
<1> QED BY <1>6, <1>9 DEF RatesInv

\* A lookup reads the ranger for an address that is not in the cache.
LEMMA LookUpRates ==
  ASSUME RatesInv, NEW d \in Directions, NEW a \in Addrs, LookUp(d, a)
  PROVE  RatesInv'
<1>1. lookup.addr = "none" /\ UNCHANGED <<tvals, ranger, ipCache, treload, staleIn>>
  BY DEF LookUp
<1>2. CASE ipCache[d][a] = 0 /\ ranger[d] > 0
  <2>1. lookup' = [addr |-> a, dir |-> d, limit |-> ranger[d], old |-> FALSE]
    BY <1>2 DEF LookUp
  <2>2. ranger[d] \in Nat
    BY DEF RatesInv, RatesTyped, Rates
  <2>3. RatesTyped'
    BY <1>1, <1>2, <2>1, <2>2 DEF RatesInv, RatesTyped
  <2>4. ASSUME treload = "idle" PROVE tvals.own[a][d] = 0 /\ ranger[d] = tvals.network[d]
    <3>1. EntryCurrent(d, a) /\ ranger = tvals.network
      BY <2>4 DEF RatesInv, RatesCurrent
    <3>2. <<d, a>> \notin staleIn
      BY <1>2 DEF RatesInv, RatesTyped
    <3>3. tvals.own[a][d] \in Nat
      BY DEF RatesInv, RatesTyped, Rates
    <3> QED BY <1>2, <3>1, <3>2, <3>3 DEF EntryCurrent
  <2>5. \A e \in Directions, b \in Addrs : EntryCurrent(e, b)' <=> EntryCurrent(e, b)
    BY <1>1 DEF EntryCurrent
  <2>6. lookup'.limit = ranger[d] /\ lookup'.addr = a /\ lookup'.dir = d
    BY <2>1
  <2> QED BY <1>1, <2>3, <2>4, <2>5, <2>6 DEF RatesInv, RatesCurrent
<1>3. CASE ~(ipCache[d][a] = 0 /\ ranger[d] > 0)
  <2>1. lookup' = lookup
    BY <1>3 DEF LookUp
  <2> QED BY <1>1, <2>1 DEF RatesInv, RatesTyped, RatesCurrent, EntryCurrent
<1> QED BY <1>2, <1>3

\* The limiter is stored, whatever has happened since the lookup.
LEMMA StoreRates ==
  ASSUME RatesInv, StoreLimit
  PROVE  RatesInv'
<1>1. lookup.addr # "none" /\ lookup' = NoLookup /\ UNCHANGED <<tvals, ranger, treload>>
  BY DEF StoreLimit
<1>2. PICK d \in Directions, a \in Addrs : d = lookup.dir /\ a = lookup.addr
  BY <1>1 DEF RatesInv, RatesTyped
<1>3. ipCache' = [ipCache EXCEPT ![d][a] = lookup.limit] /\ lookup.limit \in Nat /\ lookup.limit > 0
  BY <1>1, <1>2 DEF StoreLimit, RatesInv, RatesTyped
<1>4. \A e \in Directions : ipCache[e] \in [Addrs \cup {"service"} -> Nat]
  BY DEF RatesInv, RatesTyped
<1>5. ipCache' \in [Directions -> [Addrs \cup {"service"} -> Nat]]
  BY <1>3, <1>4 DEF RatesInv, RatesTyped
<1>6. \A e \in Directions, b \in Addrs :
        ipCache'[e][b] = IF e = d /\ b = a THEN lookup.limit ELSE ipCache[e][b]
  BY <1>3, <1>4 DEF RatesInv, RatesTyped
<1>7. staleIn' = IF treload = "swap" \/ lookup.old THEN staleIn \cup {<<d, a>>} ELSE staleIn
  BY <1>2 DEF StoreLimit
<1>8. \A e \in Directions, b \in Addrs : <<e, b>> \in staleIn' => ipCache'[e][b] > 0
  <2> SUFFICES ASSUME NEW e \in Directions, NEW b \in Addrs, <<e, b>> \in staleIn'
               PROVE  ipCache'[e][b] > 0
    OBVIOUS
  <2>1. CASE e = d /\ b = a
    BY <1>3, <1>6, <2>1
  <2>2. CASE ~(e = d /\ b = a)
    <3>1. <<e, b>> \in staleIn
      BY <1>7, <2>2
    <3> QED BY <1>6, <2>2, <3>1 DEF RatesInv, RatesTyped
  <2> QED BY <2>1, <2>2
<1>9. NoLookup \in [addr : Addrs \cup {"none"}, dir : Directions, limit : Nat, old : BOOLEAN]
      /\ NoLookup.addr = "none"
  BY DEF NoLookup, Directions
<1>10. RatesTyped'
  BY <1>1, <1>5, <1>8, <1>9 DEF RatesInv, RatesTyped
<1>11. ASSUME treload # "addresses", NEW e \in Directions, NEW b \in Addrs PROVE EntryCurrent(e, b)'
  <2>1. EntryCurrent(e, b)
    BY <1>11 DEF RatesInv, RatesCurrent
  <2>2. CASE ~(e = d /\ b = a)
    <3>1. ipCache'[e][b] = ipCache[e][b] /\ staleIn \subseteq staleIn'
      BY <1>6, <1>7, <2>2
    <3> QED BY <1>1, <2>1, <3>1 DEF EntryCurrent
  <2>3. CASE e = d /\ b = a /\ (treload = "swap" \/ lookup.old)
    <3>1. <<e, b>> \in staleIn'
      BY <1>7, <2>3
    <3> QED BY <3>1 DEF EntryCurrent
  <2>4. CASE e = d /\ b = a /\ ~(treload = "swap" \/ lookup.old)
    <3>1. treload = "idle"
      BY <1>11, <2>4 DEF RatesInv, RatesTyped
    <3>2. lookup.limit = tvals.network[d] /\ tvals.own[a][d] = 0
      BY <1>1, <1>2, <2>4, <3>1 DEF RatesInv, RatesCurrent
    <3> QED BY <1>1, <1>6, <2>4, <3>2 DEF EntryCurrent
  <2> QED BY <2>2, <2>3, <2>4
<1>12. RatesCurrent'
  BY <1>1, <1>9, <1>11 DEF RatesInv, RatesCurrent
<1> QED BY <1>10, <1>12 DEF RatesInv

\* The invariant of the traffic limiter.
LEMMA RatesInvariant ==
  LimitsSpec => []RatesInv
<1>1. LimitsInit => RatesInv
  <2> SUFFICES ASSUME LimitsInit PROVE RatesInv
    OBVIOUS
  <2>1. /\ ranger = Direct(0) /\ treload = "idle" /\ lookup = NoLookup /\ staleIn = {}
        /\ tvals = NoTraffic /\ ipCache = [d \in Directions |-> [k \in Addrs \cup {"service"} |-> 0]]
    BY DEF LimitsInit
  <2>2. Direct(0) \in Rates /\ \A d \in Directions : Direct(0)[d] = 0
    BY DEF Direct, Rates
  <2>3. tvals.network = Direct(0) /\ tvals.own = [a \in Addrs |-> Direct(0)]
    BY <2>1 DEF NoTraffic
  <2>4. NoLookup \in [addr : Addrs \cup {"none"}, dir : Directions, limit : Nat, old : BOOLEAN]
        /\ NoLookup.addr = "none"
    BY DEF NoLookup, Directions
  <2>5. RatesTyped
    BY <2>1, <2>2, <2>3, <2>4 DEF RatesTyped
  <2>6. \A d \in Directions, a \in Addrs : EntryCurrent(d, a)
    BY <2>1, <2>2, <2>3 DEF EntryCurrent
  <2>7. RatesCurrent
    BY <2>1, <2>3, <2>4, <2>6 DEF RatesCurrent
  <2> QED BY <2>5, <2>7 DEF RatesInv
<1>2. RatesInv /\ [LimitsNext]_limitsVars => RatesInv'
  <2> SUFFICES ASSUME RatesInv, [LimitsNext]_limitsVars PROVE RatesInv'
    OBVIOUS
  <2>1. ASSUME UNCHANGED <<tvals, ranger, ipCache, treload, lookup, staleIn>> PROVE RatesInv'
    BY <2>1 DEF RatesInv, RatesTyped, RatesCurrent, EntryCurrent
  <2>2. ASSUME UNCHANGED trafficVars PROVE RatesInv'
    BY <2>1, <2>2 DEF trafficVars
  <2>3. CASE UNCHANGED limitsVars
    BY <2>2, <2>3 DEF limitsVars
  <2>4. ASSUME NEW s \in Sockets, SocketStep(s) PROVE RatesInv'
    <3>1. UNCHANGED trafficVars
      BY <2>4 DEF SocketStep, AllowSocket, UndoAllow, RollbackGroup, CloseSocket, GiveBack, AcceptSocket
    <3> QED BY <2>2, <3>1
  <2>5. ASSUME NEW c \in ConnConfigs, ReloadConnLimits(c) PROVE RatesInv'
    <3>1. UNCHANGED trafficVars
      BY <2>5 DEF ReloadConnLimits
    <3> QED BY <2>2, <3>1
  <2>6. ASSUME NEW v \in TrafficValues, LoadTraffic(v) PROVE RatesInv'
    BY <2>6, LoadRates
  <2>7. CASE ReloadAddresses
    BY <2>7, RefreshRates
  <2>8. CASE SwapRanger
    BY <2>8, SwapRates
  <2>9. CASE StoreLimit
    BY <2>9, StoreRates
  <2>10. ASSUME NEW a \in Addrs, TrafficIn(a) \/ TrafficOut(a) PROVE RatesInv'
    <3>1. "in" \in Directions /\ "out" \in Directions
      BY DEF Directions
    <3> QED BY <2>10, <3>1, LookUpRates DEF TrafficIn, TrafficOut
  <2>11. ASSUME NEW d \in Directions, NEW a \in Addrs, ExpireConn(d, a) PROVE RatesInv'
    BY <2>1, <2>11 DEF ExpireConn
  <2> QED BY <2>3, <2>4, <2>5, <2>6, <2>7, <2>8, <2>9, <2>10, <2>11
          DEF LimitsNext, ConnLimitNext, TrafficNext
<1> QED BY <1>1, <1>2, PTL DEF LimitsSpec

\* Between two reloads an address is limited by what was loaded last, for any
\* values and addresses, unless a lookup stored a limit from networks that a
\* reload was about to replace or had replaced (traffic.go, In, Out and load).
THEOREM TrafficLimitsCurrent ==
  LimitsSpec => []TrafficLimitCurrent
<1>1. RatesInv => TrafficLimitCurrent
  BY DEF RatesInv, RatesCurrent, EntryCurrent, TrafficLimitCurrent
<1> QED BY <1>1, RatesInvariant, PTL

------------------------------------------------------------------------------
(* The connection limiter.                                                 *)

\* A group of limiters, each of them once.
Group(g, n) ==
  /\ g \in Seq(1 .. n)
  /\ \A p, q \in 1 .. Len(g) : g[p] = g[q] => p = q

\* The places of its group that a connection has taken and not given back, ...
HeldAt(r, p) ==
  \/ r.pc = "take" /\ p < r.i
  \/ r.pc \in {"undo", "rollback"} /\ p <= r.i
  \/ r.pc = "open"
  \/ r.pc = "give" /\ r.closes = 1 /\ p >= r.i

\* ... those that it was admitted to, and the limiters there.
AdmittedAt(r, p) == HeldAt(r, p) /\ (r.pc = "undo" => p # r.i)
Held(r) == {r.group[p] : p \in {q \in 1 .. Len(r.group) : HeldAt(r, q)}}
Admitted(r) == {r.group[p] : p \in {q \in 1 .. Len(r.group) : AdmittedAt(r, q)}}

\* The connections that a limiter has counted, and those it has admitted.
Holders(l) == {s \in Sockets : l \in Held(sock[s])}
Guests(l) == {s \in Sockets : l \in Admitted(sock[s])}

LimiterRecord == [limit : Nat, current : Int]
SocketStates == {"none", "take", "undo", "rollback", "refused", "open", "give", "closed"}
NumberLists == Seq(Nat)
SocketRecord == [pc : SocketStates, group : NumberLists, i : Nat, closes : Nat]

\* A connection: where it is in its group, and how often it was closed.
SocketSound(r, n, over) ==
  /\ r \in SocketRecord /\ Group(r.group, n)
  /\ r.pc \in {"take", "undo", "rollback", "give"} => r.i \in 1 .. Len(r.group)
  /\ r.pc \in {"none", "take", "undo", "rollback", "refused", "open"} => r.closes = 0
  /\ r.pc \in {"give", "closed"} => r.closes >= 1
  /\ r.pc = "give" /\ r.closes # 1 => \A p \in 1 .. Len(r.group) : r.group[p] \in over

\* The limiters of the generators are there, and the global one is none of an
\* address's own.
GensSound ==
  /\ limiters \in Seq(LimiterRecord)
  /\ gens.global \in 0 .. Len(limiters) /\ gens.each \in Nat /\ gens.network \in Nat
  /\ gens.own \in [Addrs -> 0 .. Len(limiters)]
  /\ \A a \in Addrs : gens.own[a] # 0 => gens.own[a] # gens.global
  /\ \A a \in DOMAIN groups : Group(groups[a], Len(limiters))

SocketsSound ==
  /\ sock \in [Sockets -> SocketRecord]
  /\ \A s \in Sockets : SocketSound(sock[s], Len(limiters), overdrawn)

\* A limiter counts every connection that holds it, and has not admitted more
\* than its limit; unless one was given back to it twice.
CountsHeld ==
  \A l \in 1 .. Len(limiters) : l \notin overdrawn =>
    /\ Cardinality(Holders(l)) <= limiters[l].current
    /\ Cardinality(Guests(l)) <= limiters[l].limit

ConnInv == GensSound /\ SocketsSound /\ CountsHeld

\* Sets of connections are finite, and a limiter has admitted only connections
\* that it has counted.
LEMMA ConnectionSets ==
  ASSUME NEW l
  PROVE  /\ IsFiniteSet(Holders(l)) /\ Cardinality(Holders(l)) \in Nat
         /\ IsFiniteSet(Guests(l)) /\ Cardinality(Guests(l)) \in Nat
         /\ Guests(l) \subseteq Holders(l) /\ Cardinality(Guests(l)) <= Cardinality(Holders(l))
<1>1. Guests(l) \subseteq Holders(l) /\ Holders(l) \subseteq Sockets
  BY DEF Guests, Holders, Admitted, Held, AdmittedAt
<1>2. IsFiniteSet(Holders(l)) /\ IsFiniteSet(Guests(l))
  BY <1>1, FS_Subset, LimitsAssumption
<1> QED BY <1>1, <1>2, FS_Subset, FS_CardinalityType

\* The same in the next state.
LEMMA ConnectionSetsNext ==
  ASSUME NEW l
  PROVE  /\ IsFiniteSet(Holders(l)') /\ Cardinality(Holders(l)') \in Nat
         /\ IsFiniteSet(Guests(l)') /\ Cardinality(Guests(l)') \in Nat
         /\ Guests(l)' \subseteq Holders(l)' /\ Cardinality(Guests(l)') <= Cardinality(Holders(l)')
<1>1. Guests(l)' \subseteq Holders(l)' /\ Holders(l)' \subseteq Sockets
  BY DEF Guests, Holders, Admitted, Held, AdmittedAt
<1>2. IsFiniteSet(Holders(l)') /\ IsFiniteSet(Guests(l)')
  BY <1>1, FS_Subset, LimitsAssumption
<1> QED BY <1>1, <1>2, FS_Subset, FS_CardinalityType

\* A step of one connection changes only its own part in the sets.
LEMMA OneConnection ==
  ASSUME sock \in [Sockets -> SocketRecord], NEW s \in Sockets, NEW r, sock' = [sock EXCEPT ![s] = r], NEW l
  PROVE  /\ Holders(l)' = IF l \in Held(r) THEN Holders(l) \cup {s} ELSE Holders(l) \ {s}
         /\ Guests(l)' = IF l \in Admitted(r) THEN Guests(l) \cup {s} ELSE Guests(l) \ {s}
<1>1. sock'[s] = r /\ \A x \in Sockets : x # s => sock'[x] = sock[x]
  OBVIOUS
<1>2. Holders(l)' = {x \in Sockets : l \in Held(sock'[x])} /\ Guests(l)' = {x \in Sockets : l \in Admitted(sock'[x])}
  BY DEF Holders, Guests, Held, Admitted, HeldAt, AdmittedAt
<1> QED BY <1>1, <1>2 DEF Holders, Guests

\* One element more.
LEMMA OneMore ==
  ASSUME NEW S, IsFiniteSet(S), NEW x
  PROVE  IsFiniteSet(S \cup {x}) /\ Cardinality(S \cup {x}) <= Cardinality(S) + 1
<1>1. Cardinality(S) \in Nat
  BY FS_CardinalityType
<1>2. CASE x \in S
  <2>1. S \cup {x} = S
    BY <1>2
  <2>2. Cardinality(S) <= Cardinality(S) + 1
    BY <1>1
  <2> QED BY <2>1, <2>2
<1>3. CASE x \notin S
  <2>1. IsFiniteSet(S \cup {x}) /\ Cardinality(S \cup {x}) = Cardinality(S) + 1
    BY <1>3, FS_AddElement
  <2> QED BY <1>1, <2>1
<1> QED BY <1>2, <1>3

\* The limit and the count of a limiter.
LEMMA LimiterFields ==
  ASSUME limiters \in Seq(LimiterRecord)
  PROVE  \A l \in 1 .. Len(limiters) : limiters[l].current \in Int /\ limiters[l].limit \in Nat
<1> SUFFICES ASSUME NEW l \in 1 .. Len(limiters)
             PROVE  limiters[l].current \in Int /\ limiters[l].limit \in Nat
  OBVIOUS
<1>1. limiters[l] \in LimiterRecord
  OBVIOUS
<1> QED BY <1>1 DEF LimiterRecord

\* What an addition makes of them.
LEMMA LimiterAdded ==
  ASSUME limiters \in Seq(LimiterRecord), NEW k \in 1 .. Len(limiters), NEW n \in Int,
         limiters' = [limiters EXCEPT ![k].current = @ + n]
  PROVE  /\ limiters' \in Seq(LimiterRecord) /\ Len(limiters') = Len(limiters)
         /\ \A l \in 1 .. Len(limiters) :
              /\ limiters'[l].limit = limiters[l].limit
              /\ limiters'[l].current = IF l = k THEN limiters[l].current + n ELSE limiters[l].current
<1>1. limiters[k] \in LimiterRecord /\ limiters[k].current + n \in Int
  BY LimiterFields
<1>2. [limiters[k] EXCEPT !.current = limiters[k].current + n] \in LimiterRecord
  BY <1>1 DEF LimiterRecord
<1>3. limiters' = [limiters EXCEPT ![k] = [limiters[k] EXCEPT !.current = limiters[k].current + n]]
  OBVIOUS
<1>4. limiters' \in Seq(LimiterRecord) /\ Len(limiters') = Len(limiters)
  BY <1>2, <1>3
<1>5. \A l \in 1 .. Len(limiters) : l # k => limiters'[l] = limiters[l]
  BY <1>3
<1>6. limiters'[k] = [limiters[k] EXCEPT !.current = limiters[k].current + n]
  BY <1>3
<1>7. limiters'[k].limit = limiters[k].limit /\ limiters'[k].current = limiters[k].current + n
  BY <1>1, <1>6 DEF LimiterRecord
<1> QED BY <1>4, <1>5, <1>7

\* A connection that gives nothing new to count and takes nothing away leaves the
\* counts as they are.
LEMMA CountsNothing ==
  ASSUME ConnInv, NEW s \in Sockets, NEW r, sock' = [sock EXCEPT ![s] = r],
         Held(r) \subseteq Held(sock[s]), Admitted(r) \subseteq Admitted(sock[s]),
         limiters' = limiters, overdrawn \subseteq overdrawn'
  PROVE  CountsHeld'
<1> SUFFICES ASSUME NEW l \in 1 .. Len(limiters), l \notin overdrawn
             PROVE  /\ Cardinality(Holders(l)') <= limiters[l].current
                    /\ Cardinality(Guests(l)') <= limiters[l].limit
  BY DEF CountsHeld
<1>1. /\ Holders(l)' = IF l \in Held(r) THEN Holders(l) \cup {s} ELSE Holders(l) \ {s}
      /\ Guests(l)' = IF l \in Admitted(r) THEN Guests(l) \cup {s} ELSE Guests(l) \ {s}
  BY OneConnection DEF ConnInv, SocketsSound
<1>2. Holders(l)' \subseteq Holders(l) /\ Guests(l)' \subseteq Guests(l)
  BY <1>1 DEF Holders, Guests
<1>3. Cardinality(Holders(l)') <= Cardinality(Holders(l)) /\ Cardinality(Guests(l)') <= Cardinality(Guests(l))
  BY <1>2, ConnectionSets, FS_Subset
<1>4. limiters[l].current \in Int /\ limiters[l].limit \in Nat
  BY LimiterFields DEF ConnInv, GensSound
<1> QED BY <1>3, <1>4, ConnectionSets, ConnectionSetsNext DEF ConnInv, CountsHeld

\* A limiter that adds one for a connection that did not hold it counts it; it is
\* admitted only within the limit (Allow(1)).
LEMMA CountsOneMore ==
  ASSUME ConnInv, NEW s \in Sockets, NEW r, sock' = [sock EXCEPT ![s] = r],
         NEW k \in 1 .. Len(limiters), limiters' = [limiters EXCEPT ![k].current = @ + 1],
         k \notin Held(sock[s]), Held(r) \subseteq Held(sock[s]) \cup {k},
         \/ Admitted(r) \subseteq Admitted(sock[s])
         \/ Admitted(r) \subseteq Admitted(sock[s]) \cup {k} /\ limiters[k].current + 1 <= limiters[k].limit,
         overdrawn' = overdrawn
  PROVE  CountsHeld'
<1>1. limiters \in Seq(LimiterRecord)
  BY DEF ConnInv, GensSound
<1>2. Len(limiters') = Len(limiters)
  BY <1>1, LimiterAdded
<1>3. \A l \in 1 .. Len(limiters) : limiters[l].current \in Int /\ limiters[l].limit \in Nat
  BY <1>1, LimiterFields
<1>4. \A l \in 1 .. Len(limiters) :
        /\ limiters'[l].limit = limiters[l].limit
        /\ limiters'[l].current = IF l = k THEN limiters[l].current + 1 ELSE limiters[l].current
  BY <1>1, LimiterAdded
<1> SUFFICES ASSUME NEW l \in 1 .. Len(limiters), l \notin overdrawn
             PROVE  /\ Cardinality(Holders(l)') <= limiters'[l].current
                    /\ Cardinality(Guests(l)') <= limiters'[l].limit
  BY <1>2 DEF CountsHeld
<1>5. /\ Holders(l)' = IF l \in Held(r) THEN Holders(l) \cup {s} ELSE Holders(l) \ {s}
      /\ Guests(l)' = IF l \in Admitted(r) THEN Guests(l) \cup {s} ELSE Guests(l) \ {s}
  BY OneConnection DEF ConnInv, SocketsSound
<1>6. Cardinality(Holders(l)) <= limiters[l].current /\ Cardinality(Guests(l)) <= limiters[l].limit
  BY DEF ConnInv, CountsHeld
<1>7. Cardinality(Holders(l)') <= limiters'[l].current
  <2>1. CASE l = k
    <3>1. Holders(l)' \subseteq Holders(l) \cup {s}
      BY <1>5
    <3>2. IsFiniteSet(Holders(l) \cup {s}) /\ Cardinality(Holders(l) \cup {s}) <= Cardinality(Holders(l)) + 1
      BY ConnectionSets, OneMore
    <3>3. Cardinality(Holders(l)') <= Cardinality(Holders(l) \cup {s})
      BY <3>1, <3>2, FS_Subset
    <3>4. Cardinality(Holders(l) \cup {s}) \in Nat
      BY <3>2, FS_CardinalityType
    <3> QED BY <1>3, <1>4, <1>6, <2>1, <3>2, <3>3, <3>4, ConnectionSets, ConnectionSetsNext
  <2>2. CASE l # k
    <3>1. Holders(l)' \subseteq Holders(l)
      BY <1>5, <2>2 DEF Holders
    <3>2. Cardinality(Holders(l)') <= Cardinality(Holders(l))
      BY <3>1, ConnectionSets, FS_Subset
    <3> QED BY <1>3, <1>4, <1>6, <2>2, <3>2, ConnectionSets, ConnectionSetsNext
  <2> QED BY <2>1, <2>2
<1>8. Cardinality(Guests(l)') <= limiters'[l].limit
  <2>1. CASE l = k /\ limiters[k].current + 1 <= limiters[k].limit
    BY <1>3, <1>4, <1>7, <2>1, ConnectionSetsNext
  <2>2. CASE ~(l = k /\ limiters[k].current + 1 <= limiters[k].limit)
    <3>1. l \in Admitted(r) => l \in Admitted(sock[s])
      BY <2>2
    <3>2. Guests(l)' \subseteq Guests(l)
      BY <1>5, <3>1 DEF Guests
    <3>3. Cardinality(Guests(l)') <= Cardinality(Guests(l))
      BY <3>2, ConnectionSets, FS_Subset
    <3> QED BY <1>3, <1>4, <1>6, <3>3, ConnectionSets, ConnectionSetsNext
  <2> QED BY <2>1, <2>2
<1> QED BY <1>7, <1>8

\* A limiter that takes one off for a connection that held it no longer counts it
\* (Allow(-1) and the roll-backs).
LEMMA CountsOneLess ==
  ASSUME ConnInv, NEW s \in Sockets, NEW r, sock' = [sock EXCEPT ![s] = r],
         NEW k \in 1 .. Len(limiters), limiters' = [limiters EXCEPT ![k].current = @ + (-1)],
         k \in Held(sock[s]) \/ k \in overdrawn, Held(r) \subseteq Held(sock[s]) \ {k},
         Admitted(r) \subseteq Admitted(sock[s]),
         overdrawn' = overdrawn
  PROVE  CountsHeld'
<1>1. limiters \in Seq(LimiterRecord)
  BY DEF ConnInv, GensSound
<1>2. Len(limiters') = Len(limiters)
  BY <1>1, LimiterAdded
<1>3. \A l \in 1 .. Len(limiters) : limiters[l].current \in Int /\ limiters[l].limit \in Nat
  BY <1>1, LimiterFields
<1>4. \A l \in 1 .. Len(limiters) :
        /\ limiters'[l].limit = limiters[l].limit
        /\ limiters'[l].current = IF l = k THEN limiters[l].current - 1 ELSE limiters[l].current
  <2>1. -1 \in Int
    OBVIOUS
  <2>2. \A l \in 1 .. Len(limiters) :
          /\ limiters'[l].limit = limiters[l].limit
          /\ limiters'[l].current = IF l = k THEN limiters[l].current + (-1) ELSE limiters[l].current
    BY <1>1, <2>1, LimiterAdded
  <2>3. \A n \in Int : n + (-1) = n - 1
    OBVIOUS
  <2> QED BY <1>3, <2>2, <2>3
<1> SUFFICES ASSUME NEW l \in 1 .. Len(limiters), l \notin overdrawn
             PROVE  /\ Cardinality(Holders(l)') <= limiters'[l].current
                    /\ Cardinality(Guests(l)') <= limiters'[l].limit
  BY <1>2 DEF CountsHeld
<1>5. /\ Holders(l)' = IF l \in Held(r) THEN Holders(l) \cup {s} ELSE Holders(l) \ {s}
      /\ Guests(l)' = IF l \in Admitted(r) THEN Guests(l) \cup {s} ELSE Guests(l) \ {s}
  BY OneConnection DEF ConnInv, SocketsSound
<1>6. Cardinality(Holders(l)) <= limiters[l].current /\ Cardinality(Guests(l)) <= limiters[l].limit
  BY DEF ConnInv, CountsHeld
<1>7. Holders(l)' \subseteq Holders(l) /\ Guests(l)' \subseteq Guests(l)
  BY <1>5 DEF Holders, Guests
<1>8. Cardinality(Holders(l)') <= Cardinality(Holders(l)) /\ Cardinality(Guests(l)') <= Cardinality(Guests(l))
  BY <1>7, ConnectionSets, FS_Subset
<1>9. CASE l = k
  <2>1. s \in Holders(l) /\ Holders(l)' = Holders(l) \ {s}
    BY <1>5, <1>9 DEF Holders
  <2>2. Cardinality(Holders(l)') = Cardinality(Holders(l)) - 1
    BY <2>1, ConnectionSets, FS_RemoveElement
  <2> QED BY <1>3, <1>4, <1>6, <1>8, <1>9, <2>2, ConnectionSets, ConnectionSetsNext
<1>10. CASE l # k
  BY <1>3, <1>4, <1>6, <1>8, <1>10, ConnectionSets, ConnectionSetsNext
<1> QED BY <1>9, <1>10

\* A connection q as r is, with its state, place and closes set.
SetTo(q, r, x, j, c) ==
  q \in SocketRecord /\ q.pc = x /\ q.group = r.group /\ q.i = j /\ q.closes = c

\* The forms in which a step sets them.
LEMMA SetState ==
  ASSUME NEW r \in SocketRecord, NEW x \in SocketStates
  PROVE  SetTo([r EXCEPT !.pc = x], r, x, r.i, r.closes)
<1>1. [r EXCEPT !.pc = x] \in SocketRecord
  BY DEF SocketRecord
<1>2. /\ [r EXCEPT !.pc = x].pc = x /\ [r EXCEPT !.pc = x].group = r.group
      /\ [r EXCEPT !.pc = x].i = r.i /\ [r EXCEPT !.pc = x].closes = r.closes
  BY DEF SocketRecord
<1> QED BY <1>1, <1>2 DEF SetTo

\* State and place.
LEMMA SetPlace ==
  ASSUME NEW r \in SocketRecord, NEW x \in SocketStates, NEW j \in Nat
  PROVE  SetTo([r EXCEPT !.pc = x, !.i = j], r, x, j, r.closes)
<1>1. [r EXCEPT !.pc = x, !.i = j] \in SocketRecord
  BY DEF SocketRecord
<1>2. /\ [r EXCEPT !.pc = x, !.i = j].pc = x /\ [r EXCEPT !.pc = x, !.i = j].group = r.group
      /\ [r EXCEPT !.pc = x, !.i = j].i = j /\ [r EXCEPT !.pc = x, !.i = j].closes = r.closes
  BY DEF SocketRecord
<1> QED BY <1>1, <1>2 DEF SetTo

\* State, place and closes.
LEMMA SetCloses ==
  ASSUME NEW r \in SocketRecord, NEW x \in SocketStates, NEW j \in Nat, NEW c \in Nat
  PROVE  SetTo([r EXCEPT !.pc = x, !.closes = c, !.i = j], r, x, j, c)
<1>1. [r EXCEPT !.pc = x, !.closes = c, !.i = j] \in SocketRecord
  BY DEF SocketRecord
<1>2. /\ [r EXCEPT !.pc = x, !.closes = c, !.i = j].pc = x
      /\ [r EXCEPT !.pc = x, !.closes = c, !.i = j].group = r.group
      /\ [r EXCEPT !.pc = x, !.closes = c, !.i = j].i = j
      /\ [r EXCEPT !.pc = x, !.closes = c, !.i = j].closes = c
  BY DEF SocketRecord
<1> QED BY <1>1, <1>2 DEF SetTo

\* A connection stays sound when limiters are made and others are overdrawn.
LEMMA SocketSoundMore ==
  ASSUME NEW r, NEW n \in Nat, NEW m \in Nat, n <= m, NEW over, NEW more, over \subseteq more,
         SocketSound(r, n, over)
  PROVE  SocketSound(r, m, more)
<1>1. 1 .. n \subseteq 1 .. m
  OBVIOUS
<1>2. r.group \in Seq(1 .. m)
  <2>1. r.group \in Seq(1 .. n)
    BY DEF SocketSound, Group
  <2> QED BY <1>1, <2>1
<1> QED BY <1>2 DEF SocketSound, Group

\* What Allow(1) makes of a connection: it is refused, or goes on, or is open.
LEMMA TakeRecord ==
  ASSUME NEW r, NEW n \in Nat, NEW over, SocketSound(r, n, over), r.pc = "take", NEW q,
         \/ SetTo(q, r, "undo", r.i, r.closes)
         \/ r.i < Len(r.group) /\ SetTo(q, r, "take", r.i + 1, r.closes)
         \/ ~(r.i < Len(r.group)) /\ SetTo(q, r, "open", 1, r.closes)
  PROVE  /\ SocketSound(q, n, over)
         /\ r.group[r.i] \notin Held(r) /\ r.group[r.i] \in 1 .. n
         /\ Held(q) \subseteq Held(r) \cup {r.group[r.i]}
         /\ Admitted(q) \subseteq Admitted(r) \cup {r.group[r.i]}
         /\ q.pc = "undo" => Admitted(q) \subseteq Admitted(r)
<1>1. r \in SocketRecord /\ Group(r.group, n) /\ r.i \in 1 .. Len(r.group) /\ r.closes = 0
  BY DEF SocketSound
<1>2. Len(r.group) \in Nat /\ r.i \in Nat
  BY <1>1 DEF SocketRecord, NumberLists
<1>3. q \in SocketRecord /\ q.group = r.group /\ q.closes = r.closes
  BY DEF SetTo
<1>4. \/ q.pc = "undo" /\ q.i = r.i
      \/ r.i < Len(r.group) /\ q.pc = "take" /\ q.i = r.i + 1
      \/ r.i = Len(r.group) /\ q.pc = "open" /\ q.i = 1
  BY <1>1, <1>2 DEF SetTo
<1>5. SocketSound(q, n, over)
  BY <1>1, <1>2, <1>3, <1>4 DEF SocketSound
<1>6. r.group[r.i] \notin Held(r) /\ r.group[r.i] \in 1 .. n
  <2>1. \A p \in 1 .. Len(r.group) : HeldAt(r, p) => p # r.i
    BY <1>2 DEF HeldAt
  <2> QED BY <1>1, <2>1 DEF Held, Group
<1>7. ASSUME NEW p \in 1 .. Len(r.group), HeldAt(q, p) PROVE p = r.i \/ HeldAt(r, p)
  BY <1>2, <1>4, <1>7 DEF HeldAt
<1>8. ASSUME NEW p \in 1 .. Len(r.group), AdmittedAt(q, p)
      PROVE  (p = r.i /\ q.pc # "undo") \/ AdmittedAt(r, p)
  BY <1>2, <1>4, <1>8 DEF HeldAt, AdmittedAt
<1>9. Held(q) \subseteq Held(r) \cup {r.group[r.i]}
  BY <1>3, <1>7 DEF Held
<1>10. /\ Admitted(q) \subseteq Admitted(r) \cup {r.group[r.i]}
       /\ q.pc = "undo" => Admitted(q) \subseteq Admitted(r)
  BY <1>3, <1>8 DEF Admitted
<1> QED BY <1>5, <1>6, <1>9, <1>10

\* What the roll-back of a refused connection makes of it.
LEMMA RollbackRecord ==
  ASSUME NEW r, NEW n \in Nat, NEW over, SocketSound(r, n, over), r.pc \in {"undo", "rollback"}, NEW q,
         \/ r.i > 1 /\ SetTo(q, r, "rollback", r.i - 1, r.closes)
         \/ ~(r.i > 1) /\ SetTo(q, r, "refused", r.i, r.closes)
  PROVE  /\ SocketSound(q, n, over)
         /\ r.group[r.i] \in Held(r) /\ r.group[r.i] \in 1 .. n
         /\ Held(q) \subseteq Held(r) \ {r.group[r.i]}
         /\ Admitted(q) \subseteq Admitted(r)
<1>1. r \in SocketRecord /\ Group(r.group, n) /\ r.i \in 1 .. Len(r.group) /\ r.closes = 0
  BY DEF SocketSound
<1>2. Len(r.group) \in Nat /\ r.i \in Nat
  BY <1>1 DEF SocketRecord, NumberLists
<1>3. q \in SocketRecord /\ q.group = r.group /\ q.closes = r.closes
  BY DEF SetTo
<1>4. \/ r.i > 1 /\ q.pc = "rollback" /\ q.i = r.i - 1
      \/ q.pc = "refused"
  BY <1>1, <1>2 DEF SetTo
<1>5. SocketSound(q, n, over)
  BY <1>1, <1>2, <1>3, <1>4 DEF SocketSound
<1>6. r.group[r.i] \in Held(r) /\ r.group[r.i] \in 1 .. n
  BY <1>1, <1>2 DEF Held, HeldAt, Group
<1>7. ASSUME NEW p \in 1 .. Len(r.group), HeldAt(q, p) PROVE p # r.i /\ HeldAt(r, p) /\ AdmittedAt(r, p)
  BY <1>2, <1>4, <1>7 DEF HeldAt, AdmittedAt
<1>8. Held(q) \subseteq Held(r) \ {r.group[r.i]}
  BY <1>1, <1>3, <1>7 DEF Held, Group
<1>9. Admitted(q) \subseteq Admitted(r)
  BY <1>3, <1>7 DEF Admitted, AdmittedAt
<1> QED BY <1>5, <1>6, <1>8, <1>9

\* What Allow(-1) makes of a connection that is closed: it goes on, or ends.
LEMMA GiveRecord ==
  ASSUME NEW r, NEW n \in Nat, NEW over, SocketSound(r, n, over), r.pc = "give", NEW q,
         \/ SetTo(q, r, "closed", r.i, r.closes)
         \/ r.i < Len(r.group) /\ SetTo(q, r, "give", r.i + 1, r.closes)
         \/ ~(r.i < Len(r.group)) /\ SetTo(q, r, "closed", 1, r.closes)
  PROVE  /\ SocketSound(q, n, over)
         /\ r.group[r.i] \in Held(r) \/ r.group[r.i] \in over
         /\ r.group[r.i] \in 1 .. n
         /\ Held(q) \subseteq Held(r) \ {r.group[r.i]}
         /\ Admitted(q) \subseteq Admitted(r)
<1>1. r \in SocketRecord /\ Group(r.group, n) /\ r.i \in 1 .. Len(r.group) /\ r.closes >= 1
  BY DEF SocketSound
<1>2. Len(r.group) \in Nat /\ r.i \in Nat /\ r.closes \in Nat
  BY <1>1 DEF SocketRecord, NumberLists
<1>3. q \in SocketRecord /\ q.group = r.group /\ q.closes = r.closes
  BY DEF SetTo
<1>4. \/ r.i < Len(r.group) /\ q.pc = "give" /\ q.i = r.i + 1
      \/ q.pc = "closed"
  BY <1>1, <1>2 DEF SetTo
<1>5. SocketSound(q, n, over)
  BY <1>1, <1>2, <1>3, <1>4 DEF SocketSound
<1>6. r.group[r.i] \in 1 .. n /\ (r.group[r.i] \in Held(r) \/ r.group[r.i] \in over)
  <2>1. r.group[r.i] \in 1 .. n
    BY <1>1 DEF Group
  <2>2. CASE r.closes = 1
    <3>1. HeldAt(r, r.i)
      BY <1>2, <2>2 DEF HeldAt
    <3> QED BY <1>1, <2>1, <3>1 DEF Held
  <2>3. CASE r.closes # 1
    BY <1>1, <2>1, <2>3 DEF SocketSound
  <2> QED BY <2>2, <2>3
<1>7. ASSUME NEW p \in 1 .. Len(r.group), HeldAt(q, p) PROVE p # r.i /\ HeldAt(r, p) /\ AdmittedAt(r, p)
  BY <1>2, <1>3, <1>4, <1>7 DEF HeldAt, AdmittedAt
<1>8. Held(q) \subseteq Held(r) \ {r.group[r.i]}
  BY <1>1, <1>3, <1>7 DEF Held, Group
<1>9. Admitted(q) \subseteq Admitted(r)
  BY <1>3, <1>7 DEF Admitted, AdmittedAt
<1> QED BY <1>5, <1>6, <1>8, <1>9

\* A connection that is accepted holds nothing yet.
LEMMA AcceptRecord ==
  ASSUME NEW n \in Nat, NEW over, NEW g, Group(g, n), NEW q,
         q = [NoSock EXCEPT !.pc = IF g = <<>> THEN "open" ELSE "take", !.group = g, !.i = 1]
  PROVE  SocketSound(q, n, over) /\ Held(q) = {} /\ Admitted(q) = {}
<1>1. g \in Seq(1 .. n) /\ Len(g) \in Nat
  BY DEF Group
<1>2. PICK x \in {"open", "take"} : x = IF g = <<>> THEN "open" ELSE "take"
  OBVIOUS
<1>3. q = [pc |-> x, group |-> g, i |-> 1, closes |-> 0]
  BY <1>2 DEF NoSock
<1>4. g # <<>> => 1 \in 1 .. Len(g)
  BY <1>1
<1>5. q \in SocketRecord
  <2>1. x \in SocketStates
    BY DEF SocketStates
  <2>2. g \in NumberLists
    BY <1>1 DEF NumberLists
  <2> QED BY <1>3, <2>1, <2>2 DEF SocketRecord
<1>6. q.pc = x /\ q.group = g /\ q.i = 1 /\ q.closes = 0
  <2>1. /\ [pc |-> x, group |-> g, i |-> 1, closes |-> 0].pc = x
        /\ [pc |-> x, group |-> g, i |-> 1, closes |-> 0].group = g
        /\ [pc |-> x, group |-> g, i |-> 1, closes |-> 0].i = 1
        /\ [pc |-> x, group |-> g, i |-> 1, closes |-> 0].closes = 0
    OBVIOUS
  <2> QED BY <1>3, <2>1
<1>7. x = "take" => g # <<>>
  BY <1>2
<1>8. SocketSound(q, n, over)
  BY <1>4, <1>5, <1>6, <1>7 DEF SocketSound
<1>9. \A p \in 1 .. Len(g) : ~HeldAt(q, p)
  <2> SUFFICES ASSUME NEW p \in 1 .. Len(g) PROVE ~HeldAt(q, p)
    OBVIOUS
  <2>1. g # <<>>
    BY <1>1
  <2>2. x = "take"
    BY <1>2, <2>1
  <2> QED BY <1>1, <1>6, <2>2 DEF HeldAt
<1> QED BY <1>6, <1>8, <1>9 DEF Held, Admitted, AdmittedAt

\* A connection r is closed and becomes q, with overdrawn limiters over.
Closes(r, q, over) ==
  /\ SetTo(q, r, IF r.group = <<>> THEN "closed" ELSE "give", 1, r.closes + 1)
  /\ r.pc = "closed" => \A p \in 1 .. Len(r.group) : r.group[p] \in over

\* What Close makes of a connection: the first time it keeps what it holds, the
\* second time its limiters are overdrawn.
LEMMA CloseRecord ==
  ASSUME NEW r, NEW n \in Nat, NEW over, SocketSound(r, n, over), r.pc \in {"open", "closed"}, r.closes <= 1, NEW q,
         NEW more, over \subseteq more, Closes(r, q, more)
  PROVE  SocketSound(q, n, more) /\ Held(q) \subseteq Held(r) /\ Admitted(q) \subseteq Admitted(r)
<1>1. r \in SocketRecord /\ Group(r.group, n)
  BY DEF SocketSound
<1>2. Len(r.group) \in Nat /\ r.closes \in Nat /\ r.group \in NumberLists
  BY <1>1 DEF SocketRecord, NumberLists
<1>3. q \in SocketRecord /\ q.group = r.group /\ q.closes = r.closes + 1 /\ q.i = 1
  BY DEF Closes, SetTo
<1>4. q.pc = IF r.group = <<>> THEN "closed" ELSE "give"
  BY DEF Closes, SetTo
<1>5. r.group # <<>> => 1 \in 1 .. Len(r.group)
  BY <1>2 DEF NumberLists
<1>6. r.pc = "open" => r.closes = 0
  BY DEF SocketSound
<1>7. SocketSound(q, n, more)
  BY <1>1, <1>2, <1>3, <1>4, <1>5, <1>6 DEF SocketSound, Closes
<1>8. r.pc = "closed" => r.closes >= 1
  BY DEF SocketSound
<1>9. ASSUME NEW p \in 1 .. Len(r.group), HeldAt(q, p) PROVE HeldAt(r, p) /\ AdmittedAt(r, p)
  BY <1>2, <1>3, <1>4, <1>6, <1>8, <1>9 DEF HeldAt, AdmittedAt
<1>10. Held(q) \subseteq Held(r)
  BY <1>3, <1>9 DEF Held
<1>11. Admitted(q) \subseteq Admitted(r)
  BY <1>3, <1>9 DEF Admitted, AdmittedAt
<1> QED BY <1>7, <1>10, <1>11

\* A step that keeps limiters and generators apart from the counts keeps what is
\* said of them.
LEMMA GensKept ==
  ASSUME GensSound, NEW k \in 1 .. Len(limiters), NEW n \in Int,
         limiters' = [limiters EXCEPT ![k].current = @ + n], gens' = gens, groups' = groups
  PROVE  GensSound' /\ Len(limiters') = Len(limiters)
<1>1. limiters' \in Seq(LimiterRecord) /\ Len(limiters') = Len(limiters)
  BY LimiterAdded DEF GensSound
<1> QED BY <1>1 DEF GensSound

\* The other connections stay sound.
LEMMA SocketsKept ==
  ASSUME SocketsSound, NEW s \in Sockets, NEW q \in SocketRecord, sock' = [sock EXCEPT ![s] = q],
         SocketSound(q, Len(limiters), overdrawn), Len(limiters') = Len(limiters), overdrawn' = overdrawn
  PROVE  SocketsSound'
<1>1. sock' \in [Sockets -> SocketRecord]
  BY DEF SocketsSound
<1>2. sock'[s] = q /\ \A x \in Sockets : x # s => sock'[x] = sock[x]
  BY DEF SocketsSound
<1>3. \A x \in Sockets : SocketSound(sock'[x], Len(limiters), overdrawn)
  BY <1>2 DEF SocketsSound
<1> QED BY <1>1, <1>3 DEF SocketsSound, SocketSound

\* Allow(1), whatever the other connections are at.
LEMMA AllowSound ==
  ASSUME ConnInv, NEW s \in Sockets, AllowSocket(s)
  PROVE  ConnInv'
<1>1. PICK r \in SocketRecord : r = sock[s]
  BY DEF ConnInv, SocketsSound
<1>2. PICK k : k = r.group[r.i]
  OBVIOUS
<1>3. Len(limiters) \in Nat /\ limiters \in Seq(LimiterRecord)
  BY DEF ConnInv, GensSound
<1>4. SocketSound(r, Len(limiters), overdrawn) /\ r.pc = "take"
  BY <1>1 DEF ConnInv, SocketsSound, AllowSocket
<1>5. r.i \in Nat /\ r.closes \in Nat
  BY DEF SocketRecord
<1>6. /\ limiters' = [limiters EXCEPT ![k].current = @ + 1]
      /\ gens' = gens /\ groups' = groups /\ overdrawn' = overdrawn
  BY <1>1, <1>2 DEF AllowSocket, AddInt64
<1>7. PICK q : /\ sock' = [sock EXCEPT ![s] = q]
               /\ \/ limiters[k].current + 1 > limiters[k].limit /\ q = [r EXCEPT !.pc = "undo"]
                  \/ /\ ~(limiters[k].current + 1 > limiters[k].limit)
                     /\ \/ r.i < Len(r.group) /\ q = [r EXCEPT !.pc = "take", !.i = r.i + 1]
                        \/ ~(r.i < Len(r.group)) /\ q = [r EXCEPT !.pc = "open", !.i = 1]
  <2>1. sock' = [sock EXCEPT ![s] = IF limiters[k].current + 1 > limiters[k].limit THEN [r EXCEPT !.pc = "undo"]
                                   ELSE NextLimiter(s, "take", "open")]
    BY <1>1, <1>2 DEF AllowSocket, Exceeds, Added, ConnInv, SocketsSound
  <2>2. NextLimiter(s, "take", "open") = IF r.i < Len(r.group) THEN [r EXCEPT !.pc = "take", !.i = r.i + 1]
                                         ELSE [r EXCEPT !.pc = "open", !.i = 1]
    BY <1>1 DEF NextLimiter
  <2> QED BY <2>1, <2>2
<1>8. {"take", "undo", "open"} \subseteq SocketStates
  BY DEF SocketStates
<1>9. \/ /\ limiters[k].current + 1 > limiters[k].limit
         /\ SetTo(q, r, "undo", r.i, r.closes)
      \/ /\ ~(limiters[k].current + 1 > limiters[k].limit)
         /\ \/ r.i < Len(r.group) /\ SetTo(q, r, "take", r.i + 1, r.closes)
            \/ ~(r.i < Len(r.group)) /\ SetTo(q, r, "open", 1, r.closes)
  <2>1. ASSUME q = [r EXCEPT !.pc = "undo"] PROVE SetTo(q, r, "undo", r.i, r.closes)
    BY <1>8, <2>1, SetState
  <2>2. ASSUME q = [r EXCEPT !.pc = "take", !.i = r.i + 1] PROVE SetTo(q, r, "take", r.i + 1, r.closes)
    <3>1. r.i + 1 \in Nat
      BY <1>5
    <3> QED BY <1>8, <2>2, <3>1, SetPlace
  <2>3. ASSUME q = [r EXCEPT !.pc = "open", !.i = 1] PROVE SetTo(q, r, "open", 1, r.closes)
    BY <1>8, <2>3, SetPlace
  <2> QED BY <1>7, <2>1, <2>2, <2>3
<1>10. \/ SetTo(q, r, "undo", r.i, r.closes)
       \/ r.i < Len(r.group) /\ SetTo(q, r, "take", r.i + 1, r.closes)
       \/ ~(r.i < Len(r.group)) /\ SetTo(q, r, "open", 1, r.closes)
  BY <1>9
<1>11. /\ SocketSound(q, Len(limiters), overdrawn)
       /\ r.group[r.i] \notin Held(r) /\ r.group[r.i] \in 1 .. Len(limiters)
       /\ Held(q) \subseteq Held(r) \cup {r.group[r.i]}
       /\ Admitted(q) \subseteq Admitted(r) \cup {r.group[r.i]}
       /\ q.pc = "undo" => Admitted(q) \subseteq Admitted(r)
  BY <1>3, <1>4, <1>10, TakeRecord
<1>12. \/ Admitted(q) \subseteq Admitted(r)
       \/ Admitted(q) \subseteq Admitted(r) \cup {k} /\ limiters[k].current + 1 <= limiters[k].limit
  <2>1. CASE limiters[k].current + 1 > limiters[k].limit
    <3>1. q.pc = "undo"
      BY <1>9, <2>1 DEF SetTo
    <3> QED BY <1>11, <3>1
  <2>2. CASE ~(limiters[k].current + 1 > limiters[k].limit)
    <3>1. limiters[k].current \in Int /\ limiters[k].limit \in Nat
      BY <1>2, <1>3, <1>11, LimiterFields
    <3> QED BY <1>2, <1>11, <2>2, <3>1
  <2> QED BY <2>1, <2>2
<1>13. k \in 1 .. Len(limiters) /\ k \notin Held(sock[s]) /\ Held(q) \subseteq Held(sock[s]) \cup {k}
  BY <1>1, <1>2, <1>11
<1>14. CountsHeld'
  <2>1. \/ Admitted(q) \subseteq Admitted(sock[s])
        \/ Admitted(q) \subseteq Admitted(sock[s]) \cup {k} /\ limiters[k].current + 1 <= limiters[k].limit
    BY <1>1, <1>12
  <2> QED BY <1>6, <1>7, <1>13, <2>1, CountsOneMore
<1>15. GensSound' /\ Len(limiters') = Len(limiters)
  <2>1. 1 \in Int
    OBVIOUS
  <2> QED BY <1>6, <1>13, <2>1, GensKept DEF ConnInv
<1>16. q \in SocketRecord
  BY <1>10 DEF SetTo
<1>17. SocketsSound'
  BY <1>6, <1>7, <1>11, <1>15, <1>16, SocketsKept DEF ConnInv
<1> QED BY <1>14, <1>15, <1>17 DEF ConnInv

\* The roll-back of a connection that was refused.
LEMMA UndoSound ==
  ASSUME ConnInv, NEW s \in Sockets, UndoAllow(s) \/ RollbackGroup(s)
  PROVE  ConnInv'
<1>1. PICK r \in SocketRecord : r = sock[s]
  BY DEF ConnInv, SocketsSound
<1>2. PICK k : k = r.group[r.i]
  OBVIOUS
<1>3. Len(limiters) \in Nat /\ limiters \in Seq(LimiterRecord)
  BY DEF ConnInv, GensSound
<1>4. SocketSound(r, Len(limiters), overdrawn) /\ r.pc \in {"undo", "rollback"}
  BY <1>1 DEF ConnInv, SocketsSound, UndoAllow, RollbackGroup
<1>5. r.i \in 1 .. Len(r.group) /\ r.i \in Nat /\ r.closes \in Nat
  BY <1>4 DEF SocketRecord, SocketSound
<1>6. /\ limiters' = [limiters EXCEPT ![k].current = @ + (-1)]
      /\ gens' = gens /\ groups' = groups /\ overdrawn' = overdrawn
  BY <1>1, <1>2 DEF UndoAllow, RollbackGroup, AddInt64
<1>7. PICK q : /\ sock' = [sock EXCEPT ![s] = q]
               /\ \/ r.i > 1 /\ q = [r EXCEPT !.pc = "rollback", !.i = r.i - 1]
                  \/ r.i > 1 /\ r.pc = "rollback" /\ q = [r EXCEPT !.i = r.i - 1]
                  \/ ~(r.i > 1) /\ q = [r EXCEPT !.pc = "refused"]
  <2>1. CASE UndoAllow(s)
    <3>1. sock' = [sock EXCEPT ![s] = IF r.i > 1 THEN [r EXCEPT !.pc = "rollback", !.i = r.i - 1]
                                                 ELSE [r EXCEPT !.pc = "refused"]]
      BY <1>1, <2>1 DEF UndoAllow
    <3> QED BY <3>1
  <2>2. CASE RollbackGroup(s)
    <3>1. sock' = [sock EXCEPT ![s] = IF r.i > 1 THEN [r EXCEPT !.i = r.i - 1] ELSE [r EXCEPT !.pc = "refused"]]
      BY <1>1, <2>2 DEF RollbackGroup
    <3>2. r.pc = "rollback"
      BY <1>1, <2>2 DEF RollbackGroup
    <3> QED BY <3>1, <3>2
  <2> QED BY <2>1, <2>2
<1>8. {"rollback", "refused"} \subseteq SocketStates
  BY DEF SocketStates
<1>9. \/ r.i > 1 /\ SetTo(q, r, "rollback", r.i - 1, r.closes)
      \/ ~(r.i > 1) /\ SetTo(q, r, "refused", r.i, r.closes)
  <2>1. ASSUME r.i > 1, q = [r EXCEPT !.pc = "rollback", !.i = r.i - 1]
        PROVE  SetTo(q, r, "rollback", r.i - 1, r.closes)
    <3>1. r.i - 1 \in Nat
      BY <1>5, <2>1
    <3> QED BY <1>8, <2>1, <3>1, SetPlace
  <2>2. ASSUME q = [r EXCEPT !.pc = "refused"] PROVE SetTo(q, r, "refused", r.i, r.closes)
    BY <1>8, <2>2, SetState
  <2>3. ASSUME r.i > 1, r.pc = "rollback", q = [r EXCEPT !.i = r.i - 1]
        PROVE  SetTo(q, r, "rollback", r.i - 1, r.closes)
    <3>1. r.i - 1 \in Nat
      BY <1>5, <2>3
    <3>2. [r EXCEPT !.i = r.i - 1] = [r EXCEPT !.pc = "rollback", !.i = r.i - 1]
      BY <2>3 DEF SocketRecord
    <3> QED BY <1>8, <2>3, <3>1, <3>2, SetPlace
  <2> QED BY <1>7, <2>1, <2>2, <2>3
<1>10. /\ SocketSound(q, Len(limiters), overdrawn)
       /\ r.group[r.i] \in Held(r) /\ r.group[r.i] \in 1 .. Len(limiters)
       /\ Held(q) \subseteq Held(r) \ {r.group[r.i]}
       /\ Admitted(q) \subseteq Admitted(r)
  BY <1>3, <1>4, <1>9, RollbackRecord
<1>11. /\ k \in 1 .. Len(limiters) /\ (k \in Held(sock[s]) \/ k \in overdrawn)
       /\ Held(q) \subseteq Held(sock[s]) \ {k} /\ Admitted(q) \subseteq Admitted(sock[s])
  BY <1>1, <1>2, <1>10
<1>12. CountsHeld'
  BY <1>6, <1>7, <1>11, CountsOneLess
<1>13. GensSound' /\ Len(limiters') = Len(limiters)
  <2>1. -1 \in Int
    OBVIOUS
  <2> QED BY <1>6, <1>11, <2>1, GensKept DEF ConnInv
<1>14. q \in SocketRecord
  BY <1>9 DEF SetTo
<1>15. SocketsSound'
  BY <1>6, <1>7, <1>10, <1>13, <1>14, SocketsKept DEF ConnInv
<1> QED BY <1>12, <1>13, <1>15 DEF ConnInv

\* Allow(-1) of a connection that was closed.
LEMMA GiveSound ==
  ASSUME ConnInv, NEW s \in Sockets, GiveBack(s)
  PROVE  ConnInv'
<1>1. PICK r \in SocketRecord : r = sock[s]
  BY DEF ConnInv, SocketsSound
<1>2. PICK k : k = r.group[r.i]
  OBVIOUS
<1>3. Len(limiters) \in Nat /\ limiters \in Seq(LimiterRecord)
  BY DEF ConnInv, GensSound
<1>4. SocketSound(r, Len(limiters), overdrawn) /\ r.pc = "give"
  BY <1>1 DEF ConnInv, SocketsSound, GiveBack
<1>5. r.i \in Nat /\ r.closes \in Nat
  BY DEF SocketRecord
<1>6. /\ limiters' = [limiters EXCEPT ![k].current = @ + (-1)]
      /\ gens' = gens /\ groups' = groups /\ overdrawn' = overdrawn
  BY <1>1, <1>2 DEF GiveBack, AddInt64
<1>7. PICK q : /\ sock' = [sock EXCEPT ![s] = q]
               /\ \/ q = [r EXCEPT !.pc = "closed"]
                  \/ r.i < Len(r.group) /\ q = [r EXCEPT !.pc = "give", !.i = r.i + 1]
                  \/ ~(r.i < Len(r.group)) /\ q = [r EXCEPT !.pc = "closed", !.i = 1]
  <2>1. sock' = [sock EXCEPT ![s] = IF Exceeds(s, -1) THEN [r EXCEPT !.pc = "closed"]
                                   ELSE NextLimiter(s, "give", "closed")]
    BY <1>1 DEF GiveBack, ConnInv, SocketsSound
  <2>2. NextLimiter(s, "give", "closed") = IF r.i < Len(r.group) THEN [r EXCEPT !.pc = "give", !.i = r.i + 1]
                                           ELSE [r EXCEPT !.pc = "closed", !.i = 1]
    BY <1>1 DEF NextLimiter
  <2> QED BY <2>1, <2>2
<1>8. {"give", "closed"} \subseteq SocketStates
  BY DEF SocketStates
<1>9. \/ SetTo(q, r, "closed", r.i, r.closes)
      \/ r.i < Len(r.group) /\ SetTo(q, r, "give", r.i + 1, r.closes)
      \/ ~(r.i < Len(r.group)) /\ SetTo(q, r, "closed", 1, r.closes)
  <2>1. ASSUME q = [r EXCEPT !.pc = "closed"] PROVE SetTo(q, r, "closed", r.i, r.closes)
    BY <1>8, <2>1, SetState
  <2>2. ASSUME q = [r EXCEPT !.pc = "give", !.i = r.i + 1] PROVE SetTo(q, r, "give", r.i + 1, r.closes)
    <3>1. r.i + 1 \in Nat
      BY <1>5
    <3> QED BY <1>8, <2>2, <3>1, SetPlace
  <2>3. ASSUME q = [r EXCEPT !.pc = "closed", !.i = 1] PROVE SetTo(q, r, "closed", 1, r.closes)
    BY <1>8, <2>3, SetPlace
  <2> QED BY <1>7, <2>1, <2>2, <2>3
<1>10. /\ SocketSound(q, Len(limiters), overdrawn)
       /\ r.group[r.i] \in Held(r) \/ r.group[r.i] \in overdrawn
       /\ r.group[r.i] \in 1 .. Len(limiters)
       /\ Held(q) \subseteq Held(r) \ {r.group[r.i]}
       /\ Admitted(q) \subseteq Admitted(r)
  BY <1>3, <1>4, <1>9, GiveRecord
<1>11. /\ k \in 1 .. Len(limiters) /\ (k \in Held(sock[s]) \/ k \in overdrawn)
       /\ Held(q) \subseteq Held(sock[s]) \ {k} /\ Admitted(q) \subseteq Admitted(sock[s])
  BY <1>1, <1>2, <1>10
<1>12. CountsHeld'
  BY <1>6, <1>7, <1>11, CountsOneLess
<1>13. GensSound' /\ Len(limiters') = Len(limiters)
  <2>1. -1 \in Int
    OBVIOUS
  <2> QED BY <1>6, <1>11, <2>1, GensKept DEF ConnInv
<1>14. q \in SocketRecord
  BY <1>9 DEF SetTo
<1>15. SocketsSound'
  BY <1>6, <1>7, <1>10, <1>13, <1>14, SocketsKept DEF ConnInv
<1> QED BY <1>12, <1>13, <1>15 DEF ConnInv

\* serverConn.Close.
LEMMA CloseSound ==
  ASSUME ConnInv, NEW s \in Sockets, CloseSocket(s)
  PROVE  ConnInv'
<1>1. PICK r \in SocketRecord : r = sock[s]
  BY DEF ConnInv, SocketsSound
<1>2. Len(limiters) \in Nat
  BY DEF ConnInv, GensSound
<1>3. SocketSound(r, Len(limiters), overdrawn) /\ r.pc \in {"open", "closed"} /\ r.closes <= 1
  BY <1>1 DEF ConnInv, SocketsSound, CloseSocket
<1>4. r.closes \in Nat /\ r.group \in Seq(Nat)
  BY DEF SocketRecord, NumberLists
<1>5. PICK x \in {"closed", "give"} : x = IF r.group = <<>> THEN "closed" ELSE "give"
  OBVIOUS
<1>6. PICK q : q = [r EXCEPT !.pc = x, !.closes = r.closes + 1, !.i = 1]
  OBVIOUS
<1>7. sock' = [sock EXCEPT ![s] = q]
  BY <1>1, <1>5, <1>6 DEF CloseSocket
<1>8. /\ limiters' = limiters /\ gens' = gens /\ groups' = groups
      /\ overdrawn' = IF r.pc = "closed" THEN overdrawn \cup {r.group[i] : i \in DOMAIN r.group} ELSE overdrawn
  BY <1>1 DEF CloseSocket
<1>9. overdrawn \subseteq overdrawn' /\ (r.pc = "closed" => \A p \in 1 .. Len(r.group) : r.group[p] \in overdrawn')
  BY <1>4, <1>8
<1>10. SetTo(q, r, x, 1, r.closes + 1)
  <2>1. x \in SocketStates /\ r.closes + 1 \in Nat
    BY <1>4 DEF SocketStates
  <2> QED BY <1>6, <2>1, SetCloses
<1>12. PICK more : more = overdrawn'
  OBVIOUS
<1>13. overdrawn \subseteq more /\ (r.pc = "closed" => \A p \in 1 .. Len(r.group) : r.group[p] \in more)
  BY <1>9, <1>12
<1>14. SocketSound(q, Len(limiters), more) /\ Held(q) \subseteq Held(r) /\ Admitted(q) \subseteq Admitted(r)
  <2>1. Closes(r, q, more)
    BY <1>5, <1>10, <1>13 DEF Closes
  <2> QED BY <1>2, <1>3, <1>13, <2>1, CloseRecord
<1>15. CountsHeld'
  <2>1. Held(q) \subseteq Held(sock[s]) /\ Admitted(q) \subseteq Admitted(sock[s])
    BY <1>1, <1>14
  <2> QED BY <1>7, <1>8, <1>9, <2>1, CountsNothing
<1>16. GensSound'
  BY <1>8 DEF ConnInv, GensSound
<1>17. SocketsSound'
  <2>1. q \in SocketRecord
    BY <1>10 DEF SetTo
  <2>2. sock' \in [Sockets -> SocketRecord]
    BY <1>7, <2>1 DEF ConnInv, SocketsSound
  <2>3. sock'[s] = q /\ \A y \in Sockets : y # s => sock'[y] = sock[y]
    BY <1>7 DEF ConnInv, SocketsSound
  <2>4. \A y \in Sockets : SocketSound(sock[y], Len(limiters), more)
    BY <1>2, <1>13, SocketSoundMore DEF ConnInv, SocketsSound
  <2>5. \A y \in Sockets : SocketSound(sock'[y], Len(limiters), more)
    BY <1>14, <2>3, <2>4
  <2>6. \A y \in Sockets : SocketSound(sock'[y], Len(limiters'), overdrawn')
    BY <1>8, <1>12, <2>5
  <2> QED BY <2>2, <2>6 DEF SocketsSound, SocketSound
<1> QED BY <1>15, <1>16, <1>17 DEF ConnInv

\* Two lists of limiters, one after the other.
LEMMA Concatenated ==
  ASSUME NEW S, NEW f \in Seq(S), NEW g \in Seq(S), NEW h, h = f \o g
  PROVE  /\ h \in Seq(S) /\ Len(h) = Len(f) + Len(g)
         /\ \A l \in 1 .. Len(f) : h[l] = f[l]
         /\ \A l \in Len(f) + 1 .. Len(f) + Len(g) : h[l] = g[l - Len(f)]
<1>1. Len(f) \in Nat /\ Len(g) \in Nat
  OBVIOUS
<1>2. h \in Seq(S) /\ Len(h) = Len(f) + Len(g)
  OBVIOUS
<1>3. \A l \in 1 .. Len(f) : h[l] = f[l]
  BY <1>1
<1>4. \A l \in Len(f) + 1 .. Len(f) + Len(g) : h[l] = g[l - Len(f)]
  BY <1>1
<1> QED BY <1>2, <1>3, <1>4

\* New limiters are held by nobody.
LEMMA CountsMore ==
  ASSUME ConnInv, limiters' \in Seq(LimiterRecord), Len(limiters) <= Len(limiters'),
         \A l \in 1 .. Len(limiters) : limiters'[l] = limiters[l],
         \A l \in Len(limiters) + 1 .. Len(limiters') : limiters'[l].current = 0,
         \A s \in Sockets : Held(sock'[s]) \subseteq Held(sock[s]) /\ Admitted(sock'[s]) \subseteq Admitted(sock[s]),
         overdrawn' = overdrawn
  PROVE  CountsHeld'
<1>1. Len(limiters) \in Nat /\ Len(limiters') \in Nat /\ limiters \in Seq(LimiterRecord)
  BY DEF ConnInv, GensSound
<1> SUFFICES ASSUME NEW l \in 1 .. Len(limiters'), l \notin overdrawn
             PROVE  /\ Cardinality(Holders(l)') <= limiters'[l].current
                    /\ Cardinality(Guests(l)') <= limiters'[l].limit
  BY DEF CountsHeld
<1>2. Holders(l)' = {x \in Sockets : l \in Held(sock'[x])} /\ Guests(l)' = {x \in Sockets : l \in Admitted(sock'[x])}
  BY DEF Holders, Guests, Held, Admitted, HeldAt, AdmittedAt
<1>3. Holders(l)' \subseteq Holders(l) /\ Guests(l)' \subseteq Guests(l)
  BY <1>2 DEF Holders, Guests
<1>4. CASE l \in 1 .. Len(limiters)
  <2>1. Cardinality(Holders(l)') <= Cardinality(Holders(l)) /\ Cardinality(Guests(l)') <= Cardinality(Guests(l))
    BY <1>3, ConnectionSets, FS_Subset
  <2>2. Cardinality(Holders(l)) <= limiters[l].current /\ Cardinality(Guests(l)) <= limiters[l].limit
    BY <1>4 DEF ConnInv, CountsHeld
  <2>3. limiters[l].current \in Int /\ limiters[l].limit \in Nat
    BY <1>1, <1>4, LimiterFields
  <2> QED BY <1>4, <2>1, <2>2, <2>3, ConnectionSets, ConnectionSetsNext
<1>5. CASE l \notin 1 .. Len(limiters)
  <2>1. \A s \in Sockets : l \notin Held(sock[s])
    <3> SUFFICES ASSUME NEW s \in Sockets, l \in Held(sock[s]) PROVE FALSE
      OBVIOUS
    <3>1. PICK p \in 1 .. Len(sock[s].group) : l = sock[s].group[p]
      BY DEF Held
    <3>2. sock[s].group \in Seq(1 .. Len(limiters))
      BY DEF ConnInv, SocketsSound, SocketSound, Group
    <3> QED BY <1>5, <3>1, <3>2
  <2>2. Holders(l)' = {}
    BY <1>3, <2>1 DEF Holders
  <2>3. Cardinality(Holders(l)') = 0
    BY <2>2, FS_EmptySet
  <2>4. limiters'[l].current = 0
    BY <1>1, <1>5
  <2>5. limiters'[l].limit \in Nat
    <3>1. limiters'[l] \in LimiterRecord
      OBVIOUS
    <3> QED BY <3>1 DEF LimiterRecord
  <2> QED BY <2>3, <2>4, <2>5, ConnectionSetsNext
<1> QED BY <1>4, <1>5

\* The group of an address that has none yet: of its own or the generated
\* limiter and the global one, the smaller limit first (newLimiterGroup).
LEMMA NewGroup ==
  ASSUME NEW lims, NEW n \in Nat, NEW x \in 0 .. n, NEW y \in 0 .. n, x # 0 => x # y
  PROVE  Group(LimiterGroup(lims, (IF x # 0 THEN <<x>> ELSE <<>>) \o (IF y # 0 THEN <<y>> ELSE <<>>)), n)
<1>1. CASE x # 0 /\ y # 0
  <2>1. PICK g : g = <<x>> \o <<y>>
    OBVIOUS
  <2>2. g \in Seq(1 .. n) /\ Len(g) = 2 /\ g[1] = x /\ g[2] = y
    BY <1>1, <2>1
  <2>3. Group(g, n) /\ Group(<<g[2], g[1]>>, n)
    BY <1>1, <2>2 DEF Group
  <2>4. LimiterGroup(lims, g) = <<g[2], g[1]>> \/ LimiterGroup(lims, g) = g
    BY DEF LimiterGroup
  <2> QED BY <1>1, <2>1, <2>3, <2>4
<1>2. CASE x # 0 /\ y = 0
  <2>1. <<x>> \o <<>> = <<x>> /\ Len(<<x>>) = 1
    OBVIOUS
  <2>2. LimiterGroup(lims, <<x>>) = <<x>>
    BY <2>1 DEF LimiterGroup
  <2>3. Group(<<x>>, n)
    BY <1>2 DEF Group
  <2> QED BY <1>2, <2>1, <2>2, <2>3
<1>3. CASE x = 0 /\ y # 0
  <2>1. <<>> \o <<y>> = <<y>> /\ Len(<<y>>) = 1
    OBVIOUS
  <2>2. LimiterGroup(lims, <<y>>) = <<y>>
    BY <2>1 DEF LimiterGroup
  <2>3. Group(<<y>>, n)
    BY <1>3 DEF Group
  <2> QED BY <1>3, <2>1, <2>2, <2>3
<1>4. CASE x = 0 /\ y = 0
  <2>1. <<>> \o <<>> = <<>> /\ Len(<<>>) = 0
    OBVIOUS
  <2>2. LimiterGroup(lims, <<>>) = <<>>
    BY <2>1 DEF LimiterGroup
  <2>3. Group(<<>>, n)
    BY DEF Group
  <2> QED BY <1>4, <2>1, <2>2, <2>3
<1> QED BY <1>1, <1>2, <1>3, <1>4

\* A group stays one when limiters are made.
LEMMA GroupMore ==
  ASSUME NEW g, NEW n \in Nat, NEW m \in Nat, n <= m, Group(g, n)
  PROVE  Group(g, m)
<1>1. g \in Seq(1 .. n) /\ 1 .. n \subseteq 1 .. m
  BY DEF Group
<1>2. g \in Seq(1 .. m)
  BY <1>1
<1> QED BY <1>2 DEF Group

\* Limiter and the begin of Allow: the group is the cached one or is made and
\* cached.
LEMMA AcceptSound ==
  ASSUME ConnInv, NEW s \in Sockets, NEW a \in Addrs, AcceptSocket(s, a)
  PROVE  ConnInv'
<1>1. /\ limiters \in Seq(LimiterRecord) /\ Len(limiters) \in Nat
      /\ gens.global \in 0 .. Len(limiters) /\ gens.own[a] \in 0 .. Len(limiters)
      /\ gens.own[a] # 0 => gens.own[a] # gens.global
      /\ gens.each \in Nat /\ gens.network \in Nat
  BY DEF ConnInv, GensSound
<1>2. GeneratedLimit \in Nat
  BY <1>1 DEF GeneratedLimit
<1>3. PICK made \in BOOLEAN : made = (gens.own[a] = 0 /\ GeneratedLimit > 0)
  OBVIOUS
<1>4. PICK lims : lims = IF made THEN Append(limiters, Fresh(GeneratedLimit)) ELSE limiters
  OBVIOUS
<1>5. Fresh(GeneratedLimit) \in LimiterRecord /\ Fresh(GeneratedLimit).current = 0
  BY <1>2 DEF Fresh, LimiterRecord
<1>6. /\ lims \in Seq(LimiterRecord) /\ Len(limiters) <= Len(lims)
      /\ Len(lims) = IF made THEN Len(limiters) + 1 ELSE Len(limiters)
      /\ \A l \in 1 .. Len(limiters) : lims[l] = limiters[l]
      /\ \A l \in Len(limiters) + 1 .. Len(lims) : lims[l].current = 0
  BY <1>1, <1>4, <1>5
<1>7. PICK x \in 0 .. Len(lims) : x = IF gens.own[a] # 0 THEN gens.own[a] ELSE IF made THEN Len(lims) ELSE 0
  BY <1>1, <1>6
<1>8. x # 0 => x # gens.global
  BY <1>1, <1>3, <1>6, <1>7
<1>9. PICK g : g = IF a \in DOMAIN groups THEN groups[a]
                   ELSE LimiterGroup(lims, (IF x # 0 THEN <<x>> ELSE <<>>) \o
                                           (IF gens.global # 0 THEN <<gens.global>> ELSE <<>>))
  OBVIOUS
<1>10. Len(lims) \in Nat /\ gens.global \in 0 .. Len(lims)
  BY <1>1, <1>6
<1>11. Group(g, Len(lims))
  <2>1. CASE a \in DOMAIN groups
    <3>1. Group(groups[a], Len(limiters))
      BY <2>1 DEF ConnInv, GensSound
    <3> QED BY <1>1, <1>6, <1>9, <1>10, <2>1, <3>1, GroupMore
  <2>2. CASE a \notin DOMAIN groups
    <3>1. PICK y \in 0 .. Len(lims) : y = gens.global
      BY <1>10
    <3>2. Group(LimiterGroup(lims, (IF x # 0 THEN <<x>> ELSE <<>>) \o (IF y # 0 THEN <<y>> ELSE <<>>)), Len(lims))
      BY <1>8, <1>10, <3>1, NewGroup
    <3> QED BY <1>9, <2>2, <3>1, <3>2
  <2> QED BY <2>1, <2>2
<1>12. (IF x # 0 THEN <<x>> ELSE <<>>) =
         (IF gens.own[a] # 0 THEN <<gens.own[a]>> ELSE IF made THEN <<Len(lims)>> ELSE <<>>)
  <2>1. made => Len(lims) # 0
    BY <1>1, <1>6
  <2> QED BY <1>7, <2>1
<1>13. /\ limiters' = IF a \in DOMAIN groups THEN limiters ELSE lims
       /\ groups' = [b \in DOMAIN groups \cup {a} |-> IF b = a THEN g ELSE groups[b]]
       /\ sock' = [sock EXCEPT ![s] = [NoSock EXCEPT !.pc = IF g = <<>> THEN "open" ELSE "take",
                                                     !.group = g, !.i = 1]]
       /\ gens' = gens /\ overdrawn' = overdrawn /\ sock[s].pc = "none"
  BY <1>3, <1>4, <1>9, <1>12 DEF AcceptSocket
<1>14. PICK n \in Nat : n = Len(limiters')
  BY <1>1, <1>10, <1>13
<1>15. /\ limiters' \in Seq(LimiterRecord) /\ Len(limiters) <= n
       /\ \A l \in 1 .. Len(limiters) : limiters'[l] = limiters[l]
       /\ \A l \in Len(limiters) + 1 .. n : limiters'[l].current = 0
  <2>1. CASE a \in DOMAIN groups
    BY <1>1, <1>13, <1>14, <2>1
  <2>2. CASE a \notin DOMAIN groups
    BY <1>6, <1>13, <1>14, <2>2
  <2> QED BY <2>1, <2>2
<1>16. Group(g, n)
  <2>1. CASE a \in DOMAIN groups
    <3>1. g = groups[a] /\ n = Len(limiters)
      BY <1>9, <1>13, <1>14, <2>1
    <3> QED BY <2>1, <3>1 DEF ConnInv, GensSound
  <2>2. CASE a \notin DOMAIN groups
    BY <1>11, <1>13, <1>14, <2>2
  <2> QED BY <2>1, <2>2
<1>17. PICK q : q = [NoSock EXCEPT !.pc = IF g = <<>> THEN "open" ELSE "take", !.group = g, !.i = 1]
  OBVIOUS
<1>18. SocketSound(q, n, overdrawn) /\ Held(q) = {} /\ Admitted(q) = {}
  BY <1>16, <1>17, AcceptRecord
<1>19. sock' = [sock EXCEPT ![s] = q]
  BY <1>13, <1>17
<1>20. sock'[s] = q /\ \A y \in Sockets : y # s => sock'[y] = sock[y]
  BY <1>19 DEF ConnInv, SocketsSound
<1>21. CountsHeld'
  <2>1. \A y \in Sockets : Held(sock'[y]) \subseteq Held(sock[y]) /\ Admitted(sock'[y]) \subseteq Admitted(sock[y])
    BY <1>18, <1>20
  <2> QED BY <1>13, <1>14, <1>15, <2>1, CountsMore
<1>22. SocketsSound'
  <2>1. q \in SocketRecord
    BY <1>18 DEF SocketSound
  <2>2. sock' \in [Sockets -> SocketRecord]
    BY <1>19, <2>1 DEF ConnInv, SocketsSound
  <2>3. \A y \in Sockets : SocketSound(sock[y], n, overdrawn)
    BY <1>1, <1>15, SocketSoundMore DEF ConnInv, SocketsSound
  <2>4. \A y \in Sockets : SocketSound(sock'[y], n, overdrawn)
    BY <1>18, <1>20, <2>3
  <2>5. \A y \in Sockets : SocketSound(sock'[y], Len(limiters'), overdrawn')
    BY <1>13, <1>14, <2>4
  <2> QED BY <2>2, <2>5 DEF SocketsSound, SocketSound
<1>23. GensSound'
  <2>1. \A b \in DOMAIN groups : Group(groups[b], n)
    BY <1>1, <1>15, GroupMore DEF ConnInv, GensSound
  <2>2. \A b \in DOMAIN groups' : Group(groups'[b], n)
    BY <1>13, <1>16, <2>1
  <2>3. gens.own \in [Addrs -> 0 .. n] /\ gens.global \in 0 .. n
    BY <1>1, <1>15 DEF ConnInv, GensSound
  <2> QED BY <1>13, <1>14, <1>15, <2>2, <2>3 DEF ConnInv, GensSound
<1> QED BY <1>21, <1>22, <1>23 DEF ConnInv

\* A reload makes new limiters and leaves the open connections with theirs.
LEMMA ReloadSound ==
  ASSUME ConnInv, NEW c \in ConnConfigs, ReloadConnLimits(c)
  PROVE  ConnInv'
<1>1. /\ c.global \in Nat /\ c.each \in Nat /\ c.network \in Nat /\ c.own \in [Addrs -> Nat]
      /\ limiters \in Seq(LimiterRecord) /\ Len(limiters) \in Nat
  BY LimitsAssumption DEF ConnInv, GensSound
<1>2. PICK singles : singles = {a \in Addrs : c.own[a] > 0}
  OBVIOUS
<1>3. IsFiniteSet(singles)
  BY <1>2, FS_Subset, LimitsAssumption
<1>4. PICK n \in Nat : n = Cardinality(singles)
  BY <1>3, FS_CardinalityType
<1>5. PICK order : order = CHOOSE f \in Bijection(1 .. n, singles) : TRUE
  OBVIOUS
<1>6. order \in Bijection(1 .. n, singles)
  <2>1. ExistsBijection(1 .. n, singles)
    BY <1>3, <1>4, FS_CardinalityType
  <2> QED BY <1>5, <2>1 DEF ExistsBijection
<1>7. order \in [1 .. n -> singles] /\ \A a \in singles : \E i \in 1 .. n : order[i] = a
  BY <1>6 DEF Bijection, Injection, Surjection
<1>8. PICK base \in Nat : base = Len(limiters)
  BY <1>1
<1>9. PICK made : made = [i \in 1 .. n |-> Fresh(c.own[order[i]])]
  OBVIOUS
<1>10. \A i \in 1 .. n : Fresh(c.own[order[i]]) \in LimiterRecord /\ Fresh(c.own[order[i]]).current = 0
  <2> SUFFICES ASSUME NEW i \in 1 .. n
               PROVE  Fresh(c.own[order[i]]) \in LimiterRecord /\ Fresh(c.own[order[i]]).current = 0
    OBVIOUS
  <2>1. c.own[order[i]] \in Nat
    BY <1>1, <1>2, <1>7
  <2> QED BY <2>1 DEF Fresh, LimiterRecord
<1>11. made \in Seq(LimiterRecord) /\ Len(made) = n /\ \A i \in 1 .. n : made[i].current = 0
  BY <1>9, <1>10
<1>12. PICK rest : rest = IF c.global > 0 THEN <<Fresh(c.global)>> ELSE <<>>
  OBVIOUS
<1>13. rest \in Seq(LimiterRecord) /\ Len(rest) = (IF c.global > 0 THEN 1 ELSE 0)
       /\ \A i \in 1 .. Len(rest) : rest[i].current = 0
  <2>1. Fresh(c.global) \in LimiterRecord /\ Fresh(c.global).current = 0
    BY <1>1 DEF Fresh, LimiterRecord
  <2> QED BY <1>12, <2>1
<1>14. PICK index : index = [a \in Addrs |-> IF a \in singles THEN base + (CHOOSE i \in 1 .. n : order[i] = a) ELSE 0]
  OBVIOUS
<1>15. /\ limiters' = limiters \o made \o rest
       /\ gens' = [global |-> IF c.global > 0 THEN base + n + 1 ELSE 0, own |-> index,
                   each |-> c.each, network |-> c.network]
       /\ groups' = [a \in {} |-> <<>>] /\ sock' = sock /\ overdrawn' = overdrawn
  BY <1>2, <1>4, <1>5, <1>8, <1>9, <1>12, <1>14 DEF ReloadConnLimits
<1>16. PICK m \in Nat : m = base + n + Len(rest)
  BY <1>13
<1>17. /\ limiters' \in Seq(LimiterRecord) /\ Len(limiters') = m
       /\ \A l \in 1 .. base : limiters'[l] = limiters[l]
       /\ \A l \in base + 1 .. m : limiters'[l].current = 0
  <2>1. PICK both : both = limiters \o made
    OBVIOUS
  <2>2. /\ both \in Seq(LimiterRecord) /\ Len(both) = base + n
        /\ \A l \in 1 .. base : both[l] = limiters[l]
        /\ \A l \in base + 1 .. base + n : both[l] = made[l - base]
    <3>1. /\ both \in Seq(LimiterRecord) /\ Len(both) = Len(limiters) + Len(made)
          /\ \A l \in 1 .. Len(limiters) : both[l] = limiters[l]
          /\ \A l \in Len(limiters) + 1 .. Len(limiters) + Len(made) : both[l] = made[l - Len(limiters)]
      BY <1>1, <1>11, <2>1, Concatenated
    <3>2. Len(limiters) = base /\ Len(made) = n
      BY <1>8, <1>11
    <3> QED BY <3>1, <3>2
  <2>3. \A l \in base + 1 .. base + n : both[l].current = 0
    <3> SUFFICES ASSUME NEW l \in base + 1 .. base + n PROVE both[l].current = 0
      OBVIOUS
    <3>1. l - base \in 1 .. n
      OBVIOUS
    <3> QED BY <1>11, <2>2, <3>1
  <2>4. limiters' = both \o rest
    BY <1>15, <2>1
  <2>5. /\ limiters' \in Seq(LimiterRecord) /\ Len(limiters') = m
        /\ \A l \in 1 .. base + n : limiters'[l] = both[l]
        /\ \A l \in base + n + 1 .. m : limiters'[l] = rest[l - (base + n)]
    <3>1. /\ limiters' \in Seq(LimiterRecord) /\ Len(limiters') = Len(both) + Len(rest)
          /\ \A l \in 1 .. Len(both) : limiters'[l] = both[l]
          /\ \A l \in Len(both) + 1 .. Len(both) + Len(rest) : limiters'[l] = rest[l - Len(both)]
      BY <1>13, <2>2, <2>4, Concatenated
    <3> QED BY <1>16, <2>2, <3>1
  <2>6. \A l \in 1 .. base : limiters'[l] = limiters[l]
    BY <2>2, <2>5
  <2>7. ASSUME NEW l \in base + 1 .. m PROVE limiters'[l].current = 0
    <3>1. CASE l <= base + n
      BY <2>3, <2>5, <3>1
    <3>2. CASE ~(l <= base + n)
      <4>1. l - (base + n) \in 1 .. Len(rest)
        BY <1>13, <1>16, <3>2
      <4>2. limiters'[l] = rest[l - (base + n)]
        BY <2>5, <3>2
      <4> QED BY <1>13, <4>1, <4>2
    <3> QED BY <3>1, <3>2
  <2> QED BY <2>5, <2>6, <2>7
<1>18. base <= m
  BY <1>13, <1>16
<1>19. \A a \in singles : (CHOOSE i \in 1 .. n : order[i] = a) \in 1 .. n
  BY <1>7
<1>20. \A a \in Addrs : index[a] \in 0 .. m /\ (index[a] # 0 => index[a] <= base + n)
  <2> SUFFICES ASSUME NEW a \in Addrs PROVE index[a] \in 0 .. m /\ (index[a] # 0 => index[a] <= base + n)
    OBVIOUS
  <2>1. CASE a \in singles
    <3>1. PICK i \in 1 .. n : index[a] = base + i
      BY <1>14, <1>19, <2>1
    <3>2. index[a] \in Nat /\ index[a] <= base + n
      BY <3>1
    <3>3. base + n <= m
      BY <1>13, <1>16
    <3> QED BY <3>2, <3>3
  <2>2. CASE a \notin singles
    BY <1>14, <2>2
  <2> QED BY <2>1, <2>2
<1>21. /\ gens'.global = (IF c.global > 0 THEN base + n + 1 ELSE 0) /\ gens'.own = index
       /\ gens'.each = c.each /\ gens'.network = c.network
  BY <1>15
<1>22. gens'.global \in 0 .. m
  BY <1>13, <1>16, <1>21
<1>23. index \in [Addrs -> 0 .. m]
  BY <1>14, <1>20
<1>24. \A a \in Addrs : index[a] # 0 => index[a] # gens'.global
  BY <1>20, <1>21
<1>25. \A a \in DOMAIN groups' : Group(groups'[a], m)
  BY <1>15
<1>26. GensSound'
  BY <1>1, <1>17, <1>21, <1>22, <1>23, <1>24, <1>25 DEF GensSound
<1>27. SocketsSound'
  <2>1. \A y \in Sockets : SocketSound(sock[y], base, overdrawn)
    BY <1>8 DEF ConnInv, SocketsSound
  <2>2. \A y \in Sockets : SocketSound(sock[y], m, overdrawn)
    BY <1>18, <2>1, SocketSoundMore
  <2>3. \A y \in Sockets : SocketSound(sock'[y], Len(limiters'), overdrawn')
    BY <1>15, <1>17, <2>2
  <2> QED BY <1>15, <2>3 DEF ConnInv, SocketsSound, SocketSound
<1>28. CountsHeld'
  <2>1. \A y \in Sockets : Held(sock'[y]) \subseteq Held(sock[y]) /\ Admitted(sock'[y]) \subseteq Admitted(sock[y])
    BY <1>15
  <2>2. /\ Len(limiters) <= Len(limiters')
        /\ \A l \in 1 .. Len(limiters) : limiters'[l] = limiters[l]
        /\ \A l \in Len(limiters) + 1 .. Len(limiters') : limiters'[l].current = 0
    BY <1>8, <1>17, <1>18
  <2> QED BY <1>15, <1>17, <2>1, <2>2, CountsMore
<1> QED BY <1>26, <1>27, <1>28 DEF ConnInv

\* The invariant of the connection limiter.
LEMMA ConnInvariant ==
  LimitsSpec => []ConnInv
<1>1. LimitsInit => ConnInv
  <2> SUFFICES ASSUME LimitsInit PROVE ConnInv
    OBVIOUS
  <2>1. /\ limiters = <<>> /\ groups = [a \in {} |-> <<>>] /\ overdrawn = {} /\ gens = NoLimits
        /\ sock = [s \in Sockets |-> NoSock]
    BY DEF LimitsInit
  <2>2. Len(limiters) = 0 /\ limiters \in Seq(LimiterRecord)
    BY <2>1
  <2>3. gens.global = 0 /\ gens.each = 0 /\ gens.network = 0 /\ gens.own = [a \in Addrs |-> 0]
    BY <2>1 DEF NoLimits
  <2>4. \A a \in DOMAIN groups : Group(groups[a], Len(limiters))
    BY <2>1
  <2>5. GensSound
    BY <2>2, <2>3, <2>4 DEF GensSound
  <2>6. NoSock \in SocketRecord /\ NoSock.pc = "none" /\ NoSock.group = <<>> /\ NoSock.closes = 0
    <3>1. <<>> \in NumberLists /\ "none" \in SocketStates
      BY DEF NumberLists, SocketStates
    <3> QED BY <3>1 DEF NoSock, SocketRecord
  <2>7. Group(<<>>, 0)
    BY DEF Group
  <2>8. SocketSound(NoSock, 0, {})
    BY <2>6, <2>7 DEF SocketSound
  <2>9. SocketsSound
    BY <2>1, <2>2, <2>6, <2>8 DEF SocketsSound
  <2>10. CountsHeld
    BY <2>2 DEF CountsHeld
  <2> QED BY <2>5, <2>9, <2>10 DEF ConnInv
<1>2. ConnInv /\ [LimitsNext]_limitsVars => ConnInv'
  <2> SUFFICES ASSUME ConnInv, [LimitsNext]_limitsVars PROVE ConnInv'
    OBVIOUS
  <2>1. ASSUME UNCHANGED connLimVars PROVE ConnInv'
    BY <2>1 DEF connLimVars, ConnInv, GensSound, SocketsSound, CountsHeld, Holders, Guests
  <2>2. CASE UNCHANGED limitsVars
    BY <2>1, <2>2 DEF limitsVars
  <2>3. CASE TrafficNext
    <3>1. UNCHANGED connLimVars
      BY <2>3 DEF TrafficNext, LoadTraffic, ReloadAddresses, SwapRanger, StoreLimit, TrafficIn, TrafficOut,
                  LookUp, ExpireConn
    <3> QED BY <2>1, <3>1
  <2>4. ASSUME NEW s \in Sockets, SocketStep(s) PROVE ConnInv'
    BY <2>4, AllowSound, UndoSound, CloseSound, GiveSound, AcceptSound DEF SocketStep
  <2>5. ASSUME NEW c \in ConnConfigs, ReloadConnLimits(c) PROVE ConnInv'
    BY <2>5, ReloadSound
  <2> QED BY <2>2, <2>3, <2>4, <2>5 DEF LimitsNext, ConnLimitNext
<1> QED BY <1>1, <1>2, PTL DEF LimitsSpec

\* However the additions and roll-backs of accept loops and closing connections
\* mix, no limiter has more open connections than its limit, for any number of
\* connections, addresses and configurations, reloads included; unless a
\* connection was given back to it twice (conn.go, limiter.go).
THEOREM ConnLimitsHeld ==
  LimitsSpec => []ConnLimitHeld
<1>1. ConnInv => ConnLimitHeld
  <2> SUFFICES ASSUME ConnInv, NEW l \in DOMAIN limiters, l \notin overdrawn
               PROVE  Cardinality({s \in Sockets : /\ sock[s].pc = "open"
                                                   /\ \E i \in DOMAIN sock[s].group : sock[s].group[i] = l})
                        <= limiters[l].limit
    BY DEF ConnLimitHeld
  <2> DEFINE Open == {s \in Sockets : sock[s].pc = "open" /\ \E i \in DOMAIN sock[s].group : sock[s].group[i] = l}
  <2>1. limiters \in Seq(LimiterRecord) /\ l \in 1 .. Len(limiters)
    BY DEF ConnInv, GensSound
  <2>2. Open \subseteq Guests(l)
    <3> SUFFICES ASSUME NEW s \in Open PROVE l \in Admitted(sock[s])
      BY DEF Guests
    <3>1. PICK i \in DOMAIN sock[s].group : sock[s].group[i] = l
      OBVIOUS
    <3>2. sock[s].group \in Seq(1 .. Len(limiters))
      BY DEF ConnInv, SocketsSound, SocketSound, Group
    <3>3. i \in 1 .. Len(sock[s].group) /\ AdmittedAt(sock[s], i)
      BY <3>2 DEF AdmittedAt, HeldAt
    <3> QED BY <3>1, <3>3 DEF Admitted
  <2>3. Cardinality(Open) <= Cardinality(Guests(l)) /\ Cardinality(Open) \in Nat
    BY <2>2, ConnectionSets, FS_Subset, FS_CardinalityType
  <2>4. Cardinality(Guests(l)) <= limiters[l].limit
    BY <2>1 DEF ConnInv, CountsHeld
  <2>5. limiters[l].limit \in Nat
    BY <2>1, LimiterFields
  <2> QED BY <2>3, <2>4, <2>5, ConnectionSets
<1> QED BY <1>1, ConnInvariant, PTL
=============================================================================
