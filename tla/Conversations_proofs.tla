------------------------ MODULE Conversations_proofs ------------------------
(***************************************************************************)
(* Proof that the assembler's conversations are complete between passes.   *)
(*                                                                         *)
(* SessionsComplete speaks of the states in which no pass runs.  Within a  *)
(* pass a regular transaction behind the cursor is in one of three states: *)
(* its conversation is stored and the pass does not touch it any more, the *)
(* pass has it in a conversation still to be stored, or a failed statement *)
(* or an earlier crash has come between (Placed).  One that the cursor     *)
(* will pass at the end of the pass is not excused by an earlier crash     *)
(* (Covered), and a main request is in the main conversation throughout    *)
(* (InMain), whatever statement the pass stands at.  What makes it so is   *)
(* what the grouping gives the pass (TodoOK): a regular transaction is in  *)
(* one conversation only, one of its session, and whenever the pass        *)
(* replaces a conversation of a session it has all the regular             *)
(* transactions of that session.                                           *)
(***************************************************************************)
EXTENDS Conversations, TLAPS, FiniteSetTheorems, WellFoundedInduction

------------------------------------------------------------------------------
(* The invariant.                                                          *)

\* A row as the table has it: its time is counted from the first one.
Recorded == [api : RowFields("api"), client : RowFields("client"), key : RowFields("key"),
             body : RowFields("body"), items : RowFields("items"), reply : RowFields("reply"),
             refs : RowFields("refs"), sys : RowFields("sys"), tools : RowFields("tools"),
             form : RowFields("form"), asked : RowFields("asked"), at : Nat]

InPass == job.pc \in {"upsert", "turns"}

JobShape ==
  /\ job = [pc |-> job.pc, loop |-> job.loop, rebuild |-> job.rebuild, max |-> job.max, new |-> job.new,
            todo |-> job.todo, cur |-> job.cur]
  /\ job.todo = <<job.todo[1], job.todo[2]>>
  /\ job.pc \in {"none", "delete", "reset", "scan", "reload", "upsert", "turns", "version"}
  /\ job.rebuild \in BOOLEAN

TablesOK ==
  /\ txns \in Seq(Recorded)
  /\ link = [i \in TxnIds |-> link[i]]
  /\ cursor \in 0 .. Len(txns)
  /\ version \in {"old", "current"}
  /\ wiped \in BOOLEAN

\* Where the pass stands.
PassOK ==
  /\ job.pc \in {"delete", "reset"} => job.rebuild
  /\ job.pc = "none" => ~job.rebuild
  /\ loop = "rebuild" => job.pc = "none"
  /\ version = "old" => loop = "rebuild" \/ job.rebuild
  /\ job.pc = "reset" => DOMAIN convs = {}
  /\ ~InPass => DOMAIN job.todo[1] = {} /\ DOMAIN job.todo[2] = {}
  /\ InPass \/ job.pc = "reload" => job.max \in cursor .. Len(txns)
  /\ job.pc = "reload" => job.new = (cursor + 1) .. job.max

\* The rebuild will come, or will not: nothing is claimed of the tables.
Excused ==
  \/ wiped \/ job.pc = "reset"
  \/ version = "old" /\ (loop = "rebuild" \/ job.pc = "delete")

IsMain(i) == Threads(i) = {"main"}
Pending(i) == \E id \in DOMAIN job.todo[1] : i \in job.todo[1][id].c.txns

\* The transaction is in the conversation it is linked to, which is whole.
Stored(i) ==
  /\ link[i] \in DOMAIN convs /\ i \in convs[link[i]].txns
  /\ link[i][1] = Named(i)
  /\ IsMain(i) => link[i] = MainId(Named(i))
  /\ link[i] \in DOMAIN turnRows /\ DOMAIN turnRows[link[i]] = 1 .. convs[link[i]].count

Kept(i) == Stored(i) /\ link[i] \notin DOMAIN job.todo[1]

InMain(i) ==
  /\ link[i] = MainId(Named(i))
  /\ MainId(Named(i)) \in DOMAIN convs /\ i \in convs[MainId(Named(i))].txns

Placed ==
  \A i \in 1 .. cursor : Regular(i) =>
    /\ i \in lost \/ i \in torn \/ Pending(i) \/ Kept(i)
    /\ IsMain(i) => i \in lost \/ InMain(i)

Covered ==
  InPass => \A i \in (cursor + 1) .. job.max : Regular(i) => i \in lost \/ Pending(i) \/ Kept(i)

\* The conversations the pass has still to store.
TodoNamed ==
  \A i \in 1 .. job.max : Regular(i) =>
    /\ \A id \in DOMAIN job.todo[1] : i \in job.todo[1][id].c.txns =>
         /\ id[1] = Named(i)
         /\ IsMain(i) => id = MainId(Named(i))
         /\ \A o \in DOMAIN job.todo[1] : i \in job.todo[1][o].c.txns => o = id
    /\ IsMain(i) /\ MainId(Named(i)) \in DOMAIN job.todo[1] => i \in job.todo[1][MainId(Named(i))].c.txns

TodoOthers ==
  \A id \in DOMAIN job.todo[2] :
    /\ id[1] \in InferredSessions
    /\ \A i \in 1 .. job.max : Named(i) # NoSid => i \notin job.todo[2][id].c.txns

TodoTurns ==
  \A k \in {1, 2} : \A id \in DOMAIN job.todo[k] :
    DOMAIN job.todo[k][id].c.turns = 1 .. job.todo[k][id].c.count

\* The conversation whose row is stored and whose turns are next.
CurrentOK ==
  job.pc = "turns" =>
    /\ job.cur \in DOMAIN job.todo[Front1] /\ job.cur \in DOMAIN convs
    /\ convs[job.cur].txns = job.todo[Front1][job.cur].c.txns
    /\ convs[job.cur].count = job.todo[Front1][job.cur].c.count

TodoOK == InPass => TodoNamed /\ TodoOthers /\ TodoTurns /\ CurrentOK

\* What is listed is stored, to be stored, or excepted.
Listed == DOMAIN convs \cup unstored \cup DOMAIN job.todo[1] \cup DOMAIN job.todo[2]
ListsOK ==
  /\ \A id \in DOMAIN convs : convs[id].linked \subseteq Listed
  /\ \A k \in {1, 2} : \A id \in DOMAIN job.todo[k] : job.todo[k][id].linked \subseteq Listed

ConversationsInv ==
  /\ JobShape /\ TablesOK /\ PassOK /\ TodoOK /\ ListsOK
  /\ ~Excused => Placed /\ Covered

------------------------------------------------------------------------------
(* The grouping.                                                           *)

\* The least and the greatest of some numbers.
LEMMA Least ==
  ASSUME NEW S, S \subseteq Nat, S # {}
  PROVE  \E x \in S : \A y \in S : x <= y
<1>1. \E x \in S : \A y \in S : ~ (<<y, x>> \in OpToRel(<, Nat))
  BY NatLessThanWellFounded, WFMin
<1>2. PICK x \in S : \A y \in S : ~ (<<y, x>> \in OpToRel(<, Nat))
  BY <1>1
<1>3. ASSUME NEW y \in S PROVE x <= y
  <2>1. y < x => <<y, x>> \in OpToRel(<, Nat)
    BY <1>3, Zenon DEF OpToRel
  <2>2. x \in Nat /\ y \in Nat
    OBVIOUS
  <2>3. ~ (y < x)
    BY <2>1, <1>2, Zenon
  <2> QED BY <2>2, <2>3
<1>4. QED
  BY <1>3

LEMMA MinIn ==
  ASSUME NEW S, S \subseteq Nat, S # {}
  PROVE  Min(S) \in S
BY Least DEF Min

LEMMA MaxIn ==
  ASSUME NEW n \in Nat, NEW S, S \subseteq 0 .. n, S # {}
  PROVE  Max(S) \in S
<1> DEFINE T == {n - x : x \in S}
<1>1. T \subseteq Nat
  <2>1. \A x \in S : n - x \in Nat
    OBVIOUS
  <2> QED BY <2>1
<1>2. T # {}
  <2>1. PICK x : x \in S
    OBVIOUS
  <2>2. n - x \in T
    BY <2>1
  <2> QED BY <2>2
<1>3. \E y \in T : \A z \in T : y <= z
  <2> HIDE DEF T
  <2> QED BY <1>1, <1>2, Least
<1>4. PICK y \in T : \A z \in T : y <= z
  BY <1>3
<1>5. PICK x \in S : y = n - x
  OBVIOUS
<1>6. \A w \in S : x >= w
  <2> TAKE w \in S
  <2>1. n - w \in T
    OBVIOUS
  <2>2. n - x <= n - w
    BY <2>1, <1>4, <1>5
  <2> HIDE DEF T
  <2> QED BY <2>2
<1>7. QED
  BY <1>6 DEF Max

\* What a strategy infers is a session of its own making.
LEMMA InferSessionNames ==
  ASSUME NEW E, NEW ids, NEW n \in Nat, ids \subseteq 1 .. n, NEW client,
         \A j \in ids : E[j].row.sys \in {"none", "short", "mid", "long"},
         NEW i \in DOMAIN InferSession(client, E, ids)
  PROVE  i \in ids /\ InferSession(client, E, ids)[i] \in InferredSessions
<1>1. CASE client = "opencode"
  <2> DEFINE alike == {j \in ids : E[j].row.sys = E[i].row.sys}
             drops == {j \in UpTo(alike, i) : Drops(E, alike, j)}
  <2>1. InferSession(client, E, ids) = InferByGrowth(E, ids)
    BY <1>1 DEF InferSession
  <2>2. i \in ids
    BY <2>1 DEF InferByGrowth
  <2>3. InferByGrowth(E, ids)[i] = <<"growth", E[i].row.sys, Cardinality(drops)>>
    BY <2>2 DEF InferByGrowth
  <2>4. drops \subseteq 1 .. n
    BY DEF UpTo
  <2>5. IsFiniteSet(1 .. n)
    BY FS_Interval
  <2>6. Cardinality(drops) \in Nat
    <3> HIDE DEF drops
    <3> QED BY <2>4, <2>5, FS_Subset, FS_CardinalityType
  <2> HIDE DEF drops
  <2> QED BY <2>1, <2>2, <2>3, <2>6 DEF InferredSessions
<1>2. CASE client \in {"claude-code", "codex"}
  BY <1>2 DEF InferSession
<1>3. CASE client \notin {"opencode", "claude-code", "codex"}
  <2> DEFINE mates == {j \in ids : E[j].row.at = E[i].row.at}
  <2>1. InferSession(client, E, ids) = InferByTiming(E, ids)
    BY <1>3 DEF InferSession
  <2>2. i \in ids
    BY <2>1 DEF InferByTiming
  <2>3. InferByTiming(E, ids)[i] = <<"timing", Min(mates)>>
    BY <2>2 DEF InferByTiming
  <2>4. mates \subseteq Nat /\ i \in mates
    <3>1. mates \subseteq ids /\ i \in mates
      BY <2>2, Zenon
    <3>2. 1 .. n \subseteq Nat
      OBVIOUS
    <3> HIDE DEF mates
    <3> QED BY <3>1, <3>2, Zenon
  <2>5. Min(mates) \in Nat
    <3> HIDE DEF mates
    <3> QED BY <2>4, MinIn
  <2> HIDE DEF mates
  <2> QED BY <2>1, <2>2, <2>3, <2>5 DEF InferredSessions
<1>4. QED
  BY <1>1, <1>2, <1>3

\* The overlap keeps what has a session, and gives the rest one of those or one
\* of its own making.
LEMMA OverlapNames ==
  ASSUME NEW E, NEW n \in Nat, NEW sess, DOMAIN sess \subseteq 1 .. n, NEW pref, NEW i \in DOMAIN sess
  PROVE  LET raw == OverlapHeuristic(E, sess, pref)
         IN  /\ DOMAIN raw = DOMAIN sess
             /\ sess[i] # NoSid => raw[i] = sess[i]
             /\ raw[i] \in (Range(sess) \ {NoSid}) \cup InferredSessions
<1> DEFINE raw == OverlapHeuristic(E, sess, pref)
           left == {j \in DOMAIN sess : sess[j] = NoSid}
           group == {j \in left : E[j].row.at = E[i].row.at}
           fits == Overlapping(E, sess, E[i].row.at)
<1>1. DOMAIN raw = DOMAIN sess
  BY DEF OverlapHeuristic
<1>2. raw[i] = CASE i \notin left -> sess[i]
                 [] i \in left /\ fits # {} -> IF pref \in fits THEN pref ELSE CHOOSE s \in fits : TRUE
                 [] OTHER -> <<"heuristic", Min(group), Max(group)>>
  BY DEF OverlapHeuristic
<1>3. CASE i \notin left
  <2>1. raw[i] = sess[i] /\ sess[i] # NoSid
    BY <1>2, <1>3
  <2>2. sess[i] \in Range(sess)
    BY DEF Range
  <2> QED BY <1>1, <2>1, <2>2
<1>4. CASE i \in left /\ fits # {}
  <2>1. raw[i] = IF pref \in fits THEN pref ELSE CHOOSE s \in fits : TRUE
    BY <1>2, <1>4
  <2>2. raw[i] \in fits
    <3> HIDE DEF fits, raw
    <3> QED BY <2>1, <1>4
  <2>3. fits \subseteq Range(sess) \ {NoSid}
    BY DEF Overlapping
  <2> QED BY <1>1, <1>4, <2>2, <2>3
<1>5. CASE i \in left /\ fits = {}
  <2>1. raw[i] = <<"heuristic", Min(group), Max(group)>>
    BY <1>2, <1>5
  <2>2. group \subseteq 0 .. n /\ group # {} /\ group \subseteq Nat
    <3>1. i \in group /\ group \subseteq DOMAIN sess
      BY <1>5, Zenon
    <3> HIDE DEF group
    <3> QED BY <3>1
  <2>3. Min(group) \in Nat /\ Max(group) \in Nat
    <3> HIDE DEF group
    <3> QED BY <2>2, MinIn, MaxIn
  <2>4. raw[i] \in InferredSessions
    <3> HIDE DEF group, raw
    <3> QED BY <2>1, <2>3 DEF InferredSessions
  <2> QED BY <1>1, <1>5, <2>4
<1>6. QED
  BY <1>3, <1>4, <1>5

\* An entry that names a session keeps it, and the others get one that is named
\* or one that is inferred.
LEMMA RawNames ==
  ASSUME NEW E, NEW n \in Nat, NEW sess, DOMAIN sess \subseteq 1 .. n, NEW pref,
         \A j \in DOMAIN sess : E[j].row.sys \in {"none", "short", "mid", "long"}
  PROVE  LET raw == RawSessions(E, sess, pref)
         IN  /\ DOMAIN raw = DOMAIN sess
             /\ \A i \in DOMAIN sess : sess[i] # NoSid => raw[i] = sess[i]
             /\ \A i \in DOMAIN sess : raw[i] \in (Range(sess) \ {NoSid}) \cup InferredSessions
<1> DEFINE raw == RawSessions(E, sess, pref)
           unassigned == {j \in DOMAIN sess : sess[j] = NoSid}
           inferred == IF unassigned = {} THEN [j \in {} |-> NoSid]
                       ELSE InferSession(DetectClientFromEntries(E, unassigned), E, unassigned)
           given == [j \in DOMAIN sess |-> IF j \in DOMAIN inferred THEN inferred[j] ELSE sess[j]]
<1>1. raw = OverlapHeuristic(E, given, pref)
  BY DEF RawSessions
<1>2. ASSUME NEW j \in DOMAIN inferred PROVE j \in unassigned /\ inferred[j] \in InferredSessions
  <2>1. unassigned # {}
    BY <1>2
  <2>2. inferred = InferSession(DetectClientFromEntries(E, unassigned), E, unassigned)
    BY <2>1
  <2>3. unassigned \subseteq 1 .. n
    OBVIOUS
  <2>4. \A k \in unassigned : E[k].row.sys \in {"none", "short", "mid", "long"}
    OBVIOUS
  <2>5. j \in DOMAIN InferSession(DetectClientFromEntries(E, unassigned), E, unassigned)
    BY <1>2, <2>2
  <2> HIDE DEF unassigned, inferred
  <2> QED BY <2>2, <2>3, <2>4, <2>5, InferSessionNames
<1>3. DOMAIN given = DOMAIN sess /\ DOMAIN given \subseteq 1 .. n
  OBVIOUS
<1>4. ASSUME NEW i \in DOMAIN sess, sess[i] # NoSid PROVE given[i] = sess[i]
  <2>1. i \notin DOMAIN inferred
    <3>1. i \notin unassigned
      BY <1>4
    <3> HIDE DEF unassigned, inferred
    <3> QED BY <3>1, <1>2
  <2> HIDE DEF inferred
  <2> QED BY <2>1
<1>5. Range(given) \ {NoSid} \subseteq (Range(sess) \ {NoSid}) \cup InferredSessions
  <2>1. ASSUME NEW j \in DOMAIN sess, given[j] # NoSid
        PROVE  given[j] \in (Range(sess) \ {NoSid}) \cup InferredSessions
    <3>1. CASE j \in DOMAIN inferred
      <4>1. given[j] = inferred[j]
        BY <3>1
      <4> HIDE DEF inferred, given
      <4> QED BY <4>1, <3>1, <1>2
    <3>2. CASE j \notin DOMAIN inferred
      <4>1. given[j] = sess[j]
        BY <3>2
      <4>2. sess[j] \in Range(sess)
        BY DEF Range
      <4> HIDE DEF given
      <4> QED BY <4>1, <4>2, <2>1
    <3> QED BY <3>1, <3>2
  <2> HIDE DEF given
  <2> QED BY <2>1, <1>3 DEF Range
<1>6. ASSUME NEW i \in DOMAIN sess
      PROVE  /\ DOMAIN raw = DOMAIN sess
             /\ sess[i] # NoSid => raw[i] = sess[i]
             /\ raw[i] \in (Range(sess) \ {NoSid}) \cup InferredSessions
  <2>1. i \in DOMAIN given
    BY <1>3
  <2> HIDE DEF raw, given
  <2>2. /\ DOMAIN raw = DOMAIN given
        /\ given[i] # NoSid => raw[i] = given[i]
        /\ raw[i] \in (Range(given) \ {NoSid}) \cup InferredSessions
    <3>1. /\ DOMAIN OverlapHeuristic(E, given, pref) = DOMAIN given
          /\ given[i] # NoSid => OverlapHeuristic(E, given, pref)[i] = given[i]
          /\ OverlapHeuristic(E, given, pref)[i] \in (Range(given) \ {NoSid}) \cup InferredSessions
      BY <1>3, <2>1, OverlapNames, Zenon
    <3> QED BY <3>1, <1>1, Zenon
  <2> QED BY <2>2, <1>3, <1>4, <1>5
<1>7. DOMAIN raw = DOMAIN sess
  <2>1. DOMAIN OverlapHeuristic(E, given, pref) = DOMAIN given
    BY DEF OverlapHeuristic
  <2> HIDE DEF raw, given
  <2> QED BY <1>1, <1>3, <2>1
<1>8. QED
  BY <1>6, <1>7

\* The client of some entries is that of one of them.
LEMMA ClientOfOne ==
  ASSUME NEW E, NEW ids, ids \subseteq Nat, ids # {}
  PROVE  \E j \in ids : DetectClientFromEntries(E, ids) = E[j].row.client
<1> DEFINE headed == {i \in ids : E[i].row.api \notin WebSocketApis}
           some == IF headed # {} THEN headed ELSE ids
<1>1. some \subseteq ids /\ some # {}
  OBVIOUS
<1>2. Min(some) \in some
  <2> HIDE DEF some
  <2> QED BY <1>1, MinIn
<1>3. DetectClientFromEntries(E, ids) = E[Min(some)].row.client
  BY DEF DetectClientFromEntries
<1>4. QED
  <2> HIDE DEF some
  <2> QED BY <1>1, <1>2, <1>3

\* A conversation is one of the session of its entries.
LEMMA ThreadSession ==
  ASSUME NEW E, NEW raw, NEW i \in DOMAIN raw, ThreadOf(E, raw, i) # NoSid
  PROVE  ThreadOf(E, raw, i)[1] = raw[i]
<1> DEFINE mates == {j \in DOMAIN raw : raw[j] = raw[i]}
           client == DetectClientFromEntries(E, mates)
           alike == {j \in mates : ClassifyThread(client, E[j]) = "subagent" /\ E[j].row.sys = E[i].row.sys}
           number == SplitInvocations(client, E, alike)[i]
<1>1. ThreadOf(E, raw, i) = CASE ClassifyThread(client, E[i]) = "main" -> MainId(raw[i])
                              [] ClassifyThread(client, E[i]) = "subagent" -> <<raw[i], E[i].row.sys, number>>
                              [] OTHER -> NoSid
  BY DEF ThreadOf
<1> HIDE DEF client, number
<1>2. QED
  BY <1>1 DEF MainId

\* An entry that no client of its mates takes for a utility is in a conversation
\* of its session, the main one if they all take it for that.
LEMMA ThreadKept ==
  ASSUME NEW E, NEW raw, NEW n \in Nat, DOMAIN raw \subseteq 1 .. n, NEW i \in DOMAIN raw,
         E[i].row.sys \in {"none", "short", "mid", "long"},
         \A j \in DOMAIN raw : raw[j] = raw[i] =>
           ClassifyThread(E[j].row.client, E[i]) \in {"main", "subagent"}
  PROVE  /\ ThreadOf(E, raw, i) \in {raw[i]} \X {"main", "none", "short", "mid", "long"} \X Nat
         /\ ThreadOf(E, raw, i)[2] # "subagent"
         /\ (\A j \in DOMAIN raw : raw[j] = raw[i] => ClassifyThread(E[j].row.client, E[i]) = "main")
            => ThreadOf(E, raw, i) = MainId(raw[i])
<1> DEFINE mates == {j \in DOMAIN raw : raw[j] = raw[i]}
           client == DetectClientFromEntries(E, mates)
           alike == {j \in mates : ClassifyThread(client, E[j]) = "subagent" /\ E[j].row.sys = E[i].row.sys}
           number == SplitInvocations(client, E, alike)[i]
           drops == {j \in UpTo(alike, i) : Drops(E, alike, j)}
<1>1. ThreadOf(E, raw, i) = CASE ClassifyThread(client, E[i]) = "main" -> MainId(raw[i])
                              [] ClassifyThread(client, E[i]) = "subagent" -> <<raw[i], E[i].row.sys, number>>
                              [] OTHER -> NoSid
  BY DEF ThreadOf
<1>2. PICK j \in mates : client = E[j].row.client
  <2>1. mates \subseteq Nat /\ mates # {}
    OBVIOUS
  <2> HIDE DEF mates
  <2> QED BY <2>1, ClientOfOne
<1>3. j \in DOMAIN raw /\ raw[j] = raw[i]
  OBVIOUS
<1>4. CASE ClassifyThread(client, E[i]) = "main"
  <2>1. ThreadOf(E, raw, i) = <<raw[i], "main", 0>>
    <3> HIDE DEF client, number
    <3> QED BY <1>1, <1>4 DEF MainId
  <2> QED BY <2>1 DEF MainId
<1>5. CASE ClassifyThread(client, E[i]) # "main"
  <2>1. ClassifyThread(client, E[i]) = "subagent"
    BY <1>2, <1>3, <1>5
  <2>2. ThreadOf(E, raw, i) = <<raw[i], E[i].row.sys, number>>
    <3> HIDE DEF client, number
    <3> QED BY <1>1, <2>1
  <2>3. i \in alike
    <3> HIDE DEF client
    <3> QED BY <2>1
  <2>4. number \in Nat
    <3>1. drops \subseteq 1 .. n
      BY DEF UpTo
    <3>2. IsFiniteSet(1 .. n)
      BY FS_Interval
    <3>3. Cardinality(drops) \in Nat
      <4> HIDE DEF drops
      <4> QED BY <3>1, <3>2, FS_Subset, FS_CardinalityType
    <3>4. number = IF client = "claude-code" THEN 1 + Cardinality(drops) ELSE 1
      <4> HIDE DEF client
      <4> QED BY <2>3 DEF SplitInvocations
    <3> HIDE DEF client, drops, number
    <3> QED BY <3>3, <3>4
  <2>5. ClassifyThread(E[j].row.client, E[i]) # "main"
    BY <1>2, <1>5
  <2> HIDE DEF client, number
  <2> QED BY <2>2, <2>4, <2>5, <1>3
<1>6. QED
  BY <1>4, <1>5

LEMMA ThreadKinds ==
  ASSUME NEW client, NEW e
  PROVE  ClassifyThread(client, e) \in {"main", "subagent", "utility"}
<1>1. ClassifyByPrompt(e) \in {"main", "subagent", "utility"}
  BY DEF ClassifyByPrompt
<1>2. ClassifyByTools(e) \in {"main", "subagent", "utility"}
  BY DEF ClassifyByTools
<1>3. ClassifyCodex(e) \in {"main", "subagent", "utility"}
  BY <1>2 DEF ClassifyCodex
<1>4. ClassifyGeneric(e) \in {"main", "subagent", "utility"}
  BY DEF ClassifyGeneric
<1>5. QED
  BY <1>1, <1>2, <1>3, <1>4 DEF ClassifyThread

\* The groups before the tasks are renamed.
Grouped(E, raw) ==
  [id \in Range([i \in DOMAIN raw |-> ThreadOf(E, raw, i)]) \ {NoSid} |-> {i \in DOMAIN raw : ThreadOf(E, raw, i) = id}]

LEMMA GroupedSessions ==
  ASSUME NEW E, NEW raw
  PROVE  \A id \in DOMAIN Grouped(E, raw) :
           /\ \E j \in DOMAIN raw : id[1] = raw[j]
           /\ Grouped(E, raw)[id] = {i \in DOMAIN raw : ThreadOf(E, raw, i) = id}
           /\ id # NoSid
<1> TAKE id \in DOMAIN Grouped(E, raw)
<1>1. id \in Range([i \in DOMAIN raw |-> ThreadOf(E, raw, i)]) \ {NoSid}
  BY DEF Grouped
<1>2. PICK j \in DOMAIN raw : id = ThreadOf(E, raw, j)
  BY <1>1 DEF Range
<1>3. id[1] = raw[j]
  BY <1>1, <1>2, ThreadSession
<1>4. QED
  BY <1>1, <1>3 DEF Grouped

LEMMA GroupedByThread ==
  ASSUME NEW E, NEW sess, NEW pref
  PROVE  GroupBySession(E, sess, pref) = RemapOpenAISubagents(E, Grouped(E, RawSessions(E, sess, pref)))
<1> DEFINE raw == RawSessions(E, sess, pref)
           thread == [i \in DOMAIN raw |-> ThreadOf(E, raw, i)]
           groups == [id \in Range(thread) \ {NoSid} |-> {i \in DOMAIN raw : thread[i] = id}]
<1>1. GroupBySession(E, sess, pref) = RemapOpenAISubagents(E, groups)
  BY DEF GroupBySession
<1>2. groups = Grouped(E, raw)
  <2>1. \A id : {i \in DOMAIN raw : thread[i] = id} = {i \in DOMAIN raw : ThreadOf(E, raw, i) = id}
    <3> HIDE DEF raw
    <3> QED OBVIOUS
  <2> HIDE DEF raw
  <2> QED BY <2>1 DEF Grouped
<1>3. QED
  BY <1>1, <1>2

\* Every conversation is one of a session that an entry has, and holds entries.
LEMMA GroupNames ==
  ASSUME NEW E, NEW sess, NEW pref, DOMAIN RawSessions(E, sess, pref) = DOMAIN sess,
         NEW id \in DOMAIN GroupBySession(E, sess, pref)
  PROVE  /\ \E j \in DOMAIN sess : id[1] = RawSessions(E, sess, pref)[j]
         /\ GroupBySession(E, sess, pref)[id] \subseteq DOMAIN sess
<1> DEFINE raw == RawSessions(E, sess, pref)
           groups == Grouped(E, raw)
           G == GroupBySession(E, sess, pref)
<1>1. G = RemapOpenAISubagents(E, groups)
  BY GroupedByThread
<1> HIDE DEF G
<1>2. PICK o \in DOMAIN groups : id = Renamed(E, groups, o)
  <2>1. id \in DOMAIN G
    BY DEF G
  <2> HIDE DEF groups
  <2> QED BY <1>1, <2>1 DEF RemapOpenAISubagents
<1>3. G[id] = UNION {groups[x] : x \in {y \in DOMAIN groups : Renamed(E, groups, y) = id}}
  <2> HIDE DEF groups
  <2> QED BY <1>1, <1>2 DEF RemapOpenAISubagents
<1>4. \A x \in DOMAIN groups : groups[x] \subseteq DOMAIN sess /\ \E j \in DOMAIN sess : x[1] = raw[j]
  <2> HIDE DEF raw
  <2>1. DOMAIN raw = DOMAIN sess
    BY DEF raw
  <2> QED BY <2>1, GroupedSessions
<1>5. G[id] \subseteq DOMAIN sess
  <2> HIDE DEF groups
  <2> QED BY <1>3, <1>4
<1>6. \E j \in DOMAIN sess : id[1] = raw[j]
  <2> HIDE DEF groups, raw
  <2>1. CASE ParentsOf(E, groups, o) = {}
    BY <1>2, <1>4, <2>1 DEF Renamed
  <2>2. CASE ParentsOf(E, groups, o) # {}
    <3> DEFINE m == CHOOSE m \in ParentsOf(E, groups, o) : TRUE
    <3>1. m \in ParentsOf(E, groups, o)
      BY <2>2
    <3>2. m \in DOMAIN groups
      BY <3>1 DEF ParentsOf
    <3>3. id = <<m[1], "subagent", SubagentNumber(E, groups, m, o)>>
      BY <1>2, <2>2 DEF Renamed
    <3> HIDE DEF m
    <3> QED BY <3>2, <3>3, <1>4
  <2> QED BY <2>1, <2>2
<1>7. QED
  BY <1>5, <1>6 DEF G

\* An entry with a session that no other names as its task, kept by the clients of
\* its mates, is in one conversation, one of its session.
LEMMA GroupKept ==
  ASSUME NEW E, NEW n \in Nat, NEW sess, DOMAIN sess \subseteq 1 .. n, NEW pref,
         \A j \in DOMAIN sess : E[j].row.sys \in {"none", "short", "mid", "long"},
         NEW i \in DOMAIN sess, sess[i] # NoSid,
         NoSid \notin {sess[i]} \X {"main", "none", "short", "mid", "long"} \X Nat,
         \A j \in DOMAIN sess : sess[j] \in {sess[i], NoSid} =>
           ClassifyThread(E[j].row.client, E[i]) # "utility",
         \A j \in DOMAIN sess : sess[i] \notin Range(E[j].row.refs)
  PROVE  \E id \in DOMAIN GroupBySession(E, sess, pref) :
           /\ i \in GroupBySession(E, sess, pref)[id]
           /\ id[1] = sess[i]
           /\ (\A j \in DOMAIN sess : sess[j] \in {sess[i], NoSid} =>
                 ClassifyThread(E[j].row.client, E[i]) = "main") => id = MainId(sess[i])
           /\ \A o \in DOMAIN GroupBySession(E, sess, pref) :
                i \in GroupBySession(E, sess, pref)[o] => o = id
<1> DEFINE raw == RawSessions(E, sess, pref)
           groups == Grouped(E, raw)
           G == GroupBySession(E, sess, pref)
           id == ThreadOf(E, raw, i)
<1>1. G = RemapOpenAISubagents(E, groups)
  BY GroupedByThread
<1>2. /\ DOMAIN raw = DOMAIN sess
      /\ \A j \in DOMAIN sess : sess[j] # NoSid => raw[j] = sess[j]
  BY RawNames
<1>3. raw[i] = sess[i] /\ \A j \in DOMAIN raw : raw[j] = raw[i] => sess[j] \in {sess[i], NoSid}
  <2> HIDE DEF raw
  <2> QED BY <1>2
<1>4. /\ id \in {sess[i]} \X {"main", "none", "short", "mid", "long"} \X Nat
      /\ id[2] # "subagent"
      /\ (\A j \in DOMAIN raw : raw[j] = raw[i] => ClassifyThread(E[j].row.client, E[i]) = "main")
         => id = MainId(sess[i])
  <2>1. \A j \in DOMAIN raw : raw[j] = raw[i] => ClassifyThread(E[j].row.client, E[i]) \in {"main", "subagent"}
    <3> HIDE DEF raw
    <3> QED BY <1>2, <1>3, ThreadKinds
  <2> HIDE DEF raw
  <2>2. DOMAIN raw \subseteq 1 .. n /\ i \in DOMAIN raw /\ E[i].row.sys \in {"none", "short", "mid", "long"}
    BY <1>2
  <2> QED BY <1>3, <2>1, <2>2, ThreadKept
<1> HIDE DEF G, raw
<1>5. id \in DOMAIN groups /\ i \in groups[id]
  <2>1. id # NoSid
    <3> HIDE DEF id
    <3> QED BY <1>4
  <2>2. i \in DOMAIN raw
    BY <1>2
  <2>3. id \in Range([k \in DOMAIN raw |-> ThreadOf(E, raw, k)])
    BY <2>2 DEF Range
  <2>4. id \in DOMAIN groups
    BY <2>1, <2>3 DEF Grouped
  <2> QED BY <2>4, <2>2, GroupedSessions
<1>6. \A o \in DOMAIN groups : i \in groups[o] => o = id
  BY GroupedSessions
<1>7. \A o \in DOMAIN groups : groups[o] \subseteq DOMAIN sess
  BY <1>2, GroupedSessions
<1> HIDE DEF groups, id
<1>8. ParentsOf(E, groups, id) = {}
  <2>1. id[1] = sess[i]
    BY <1>4
  <2> QED BY <1>7, <2>1 DEF ParentsOf
<1>9. Renamed(E, groups, id) = id
  BY <1>8 DEF Renamed
<1>10. DOMAIN G = {Renamed(E, groups, o) : o \in DOMAIN groups}
  BY <1>1 DEF RemapOpenAISubagents
<1>11. \A new \in DOMAIN G :
         G[new] = UNION {groups[x] : x \in {y \in DOMAIN groups : Renamed(E, groups, y) = new}}
  BY <1>1 DEF RemapOpenAISubagents
<1>12. id \in DOMAIN G
  BY <1>5, <1>9, <1>10
<1>13. i \in G[id]
  BY <1>5, <1>9, <1>11, <1>12
<1>14. ASSUME NEW o \in DOMAIN G, i \in G[o] PROVE o = id
  <2>1. PICK x \in DOMAIN groups : Renamed(E, groups, x) = o /\ i \in groups[x]
    BY <1>14, <1>11
  <2> QED BY <2>1, <1>6, <1>9
<1>15. (\A j \in DOMAIN sess : sess[j] \in {sess[i], NoSid} =>
          ClassifyThread(E[j].row.client, E[i]) = "main") => id = MainId(sess[i])
  BY <1>2, <1>3, <1>4
<1>16. id[1] = sess[i]
  BY <1>4
<1>17. QED
  BY <1>12, <1>13, <1>14, <1>15, <1>16 DEF G
------------------------------------------------------------------------------
(* What a pass reads.                                                      *)

\* A session that a dissector finds is the one in the body.
LEMMA ExtractedSession ==
  ASSUME NEW decoder, NEW row, Extract(decoder, row) # NoSid
  PROVE  Extract(decoder, row).session \in {row.key, NoSid}
<1>1. \A reply : Parsed(row, reply).session = row.key
  BY DEF Parsed
<1>2. NoMessages.session = NoSid /\ [NoMessages EXCEPT !.session = row.key].session = row.key
  BY DEF NoMessages
<1>3. ExtractAnthropic(row).session \in {row.key, NoSid}
  BY <1>1, <1>2 DEF ExtractAnthropic
<1>4. ExtractOpenAI(row).session \in {row.key, NoSid}
  BY <1>1, <1>2 DEF ExtractOpenAI
<1>5. ExtractChat(row).session \in {row.key, NoSid}
  BY <1>1, <1>2 DEF ExtractChat
<1>6. ExtractGoogle(row).session \in {row.key, NoSid}
  BY <1>2 DEF ExtractGoogle, Parsed
<1>7. ExtractWSRequest(row) # NoSid => ExtractWSRequest(row).session \in {row.key, NoSid}
  BY <1>1 DEF ExtractWSRequest
<1>8. ExtractWSResponse(row) # NoSid => ExtractWSResponse(row).session \in {row.key, NoSid}
  BY DEF ExtractWSResponse, NoMessages
<1>9. QED
  BY <1>3, <1>4, <1>5, <1>6, <1>7, <1>8 DEF Extract

LEMMA NamedKey ==
  ASSUME TablesOK, NEW i \in TxnIds, Named(i) # NoSid
  PROVE  /\ Named(i) \in RowFields("key")
         /\ Named(i) \notin InferredSessions
         /\ NoSid \notin {Named(i)} \X {"main", "none", "short", "mid", "long"} \X Nat
         /\ Entry(i).res # NoSid /\ Entry(i).res.session = Named(i)
         /\ txns[i].api \in BuiltinApis
<1>1. Extract(txns[i].api, txns[i]) # NoSid /\ Named(i) = Extract(txns[i].api, txns[i]).session
      /\ txns[i].api \in BuiltinApis
  BY DEF Named
<1>2. Named(i) = txns[i].key
  BY <1>1, ExtractedSession
<1>3. txns[i] \in Recorded
  BY DEF TablesOK, TxnIds
<1>4. Named(i) \in RowFields("key")
  BY <1>2, <1>3 DEF Recorded
<1>5. Named(i) \notin InferredSessions
  BY <1>4, RowsAssumption
<1>6. NoSid \notin {Named(i)} \X {"main", "none", "short", "mid", "long"} \X Nat
  BY <1>4, RowsAssumption
<1>7. QED
  BY <1>1, <1>4, <1>5, <1>6 DEF Entry

\* The entries of some rows.
LEMMA EntryFacts ==
  ASSUME TablesOK, NEW ids, ids \subseteq TxnIds
  PROVE  /\ \A i \in DOMAIN Entries(ids) :
              /\ i \in ids /\ Entries(ids)[i].row = txns[i]
              /\ Named(i) # NoSid => Entries(ids)[i] = Entry(i)
         /\ \A i \in ids : Named(i) # NoSid => i \in DOMAIN Entries(ids)
<1> DEFINE all == [i \in ids |-> [row |-> txns[i], res |-> Extract(Decoder(i, ids), txns[i])]]
<1>1. Entries(ids) = [i \in {j \in ids : all[j].res # NoSid} |-> all[i]]
  BY DEF Entries
<1>2. \A i \in ids : all[i] = [row |-> txns[i], res |-> Extract(Decoder(i, ids), txns[i])]
  OBVIOUS
<1>3. ASSUME NEW i \in ids, Named(i) # NoSid PROVE all[i] = Entry(i) /\ all[i].res # NoSid
  <2>1. txns[i].api \in BuiltinApis /\ Entry(i).res # NoSid
    BY <1>3, NamedKey
  <2>2. Decoder(i, ids) = txns[i].api
    BY <2>1 DEF Decoder, BuiltinApis
  <2>3. all[i] = Entry(i)
    BY <2>2, <1>2 DEF Entry
  <2> QED BY <2>1, <2>3
<1>4. ASSUME NEW i \in DOMAIN Entries(ids)
      PROVE  /\ i \in ids /\ Entries(ids)[i].row = txns[i]
             /\ Named(i) # NoSid => Entries(ids)[i] = Entry(i)
  <2>1. i \in ids /\ Entries(ids)[i] = all[i]
    <3> HIDE DEF all
    <3> QED BY <1>1
  <2>2. Entries(ids)[i].row = txns[i]
    BY <2>1, <1>2
  <2> HIDE DEF all
  <2> QED BY <2>1, <2>2, <1>3
<1>5. ASSUME NEW i \in ids, Named(i) # NoSid PROVE i \in DOMAIN Entries(ids)
  <2>1. all[i].res # NoSid
    BY <1>3, <1>5
  <2> HIDE DEF all
  <2> QED BY <1>1, <2>1
<1>6. QED
  BY <1>4, <1>5

\* What one scan can decode, a scan of more rows can.
LEMMA EntriesGrow ==
  ASSUME TablesOK, NEW ids, ids \subseteq TxnIds
  PROVE  DOMAIN Entries(ids) \subseteq DOMAIN Entries(TxnIds)
<1> SUFFICES ASSUME NEW i \in DOMAIN Entries(ids) PROVE i \in DOMAIN Entries(TxnIds)
  OBVIOUS
<1>1. i \in ids /\ Extract(Decoder(i, ids), txns[i]) # NoSid
  <2> DEFINE all == [j \in ids |-> [row |-> txns[j], res |-> Extract(Decoder(j, ids), txns[j])]]
  <2>1. i \in ids /\ all[i].res # NoSid
    BY DEF Entries
  <2> QED BY <2>1
<1>2. Extract("none", txns[i]) = NoSid
  BY DEF Extract
<1>3. Decoder(i, ids) # "none"
  BY <1>1, <1>2
<1>4. Decoder(i, TxnIds) = Decoder(i, ids)
  <2>1. CASE txns[i].api \in BuiltinApis
    BY <2>1 DEF Decoder, BuiltinApis
  <2>2. CASE txns[i].api \notin BuiltinApis
    <3> DEFINE shaped(s) == {j \in s : j <= i /\ txns[j].api = "custom" /\ ChatShaped(txns[j])}
    <3>1. shaped(ids) \subseteq shaped(TxnIds)
      OBVIOUS
    <3>2. /\ txns[i].api = "custom" /\ (endpointRule = "on" \/ (endpointRule = NoSid /\ shaped(ids) # {}))
          /\ Decoder(i, ids) = "chat"
      BY <2>2, <1>3 DEF Decoder
    <3>3. txns[i].api = "custom" /\ (endpointRule = "on" \/ (endpointRule = NoSid /\ shaped(TxnIds) # {}))
      BY <3>1, <3>2
    <3>4. Decoder(i, TxnIds) = "chat"
      BY <2>2, <3>3 DEF Decoder
    <3> QED BY <3>2, <3>4
  <2> QED BY <2>1, <2>2
<1>5. QED
  <2> DEFINE all == [j \in TxnIds |-> [row |-> txns[j], res |-> Extract(Decoder(j, TxnIds), txns[j])]]
  <2>1. i \in TxnIds /\ all[i].res # NoSid
    BY <1>1, <1>4
  <2>2. Entries(TxnIds) = [k \in {j \in TxnIds : all[j].res # NoSid} |-> all[k]]
    BY DEF Entries
  <2> HIDE DEF all
  <2> QED BY <2>1, <2>2

\* The sessions of the new entries.
LEMMA NewFacts ==
  ASSUME TablesOK, job.new \subseteq TxnIds
  PROVE  /\ DOMAIN NewSessions \subseteq job.new
         /\ DOMAIN NewSessions \subseteq DOMAIN Entries(TxnIds)
         /\ \A i \in job.new : Named(i) # NoSid => i \in DOMAIN NewSessions /\ NewSessions[i] = Named(i)
<1> DEFINE E == Entries(job.new)
<1>1. DOMAIN NewSessions = DOMAIN E
  BY DEF NewSessions, AssignWSResponseSessions
<1>2. DOMAIN E \subseteq job.new
  BY EntryFacts
<1>3. DOMAIN E \subseteq DOMAIN Entries(TxnIds)
  BY EntriesGrow
<1>4. ASSUME NEW i \in job.new, Named(i) # NoSid PROVE i \in DOMAIN E /\ NewSessions[i] = Named(i)
  <2>1. i \in DOMAIN E /\ E[i] = Entry(i)
    BY <1>4, EntryFacts
  <2>2. E[i].res.session = Named(i)
    BY <1>4, <2>1, NamedKey
  <2> HIDE DEF E
  <2>3. NewSessions = AssignWSResponseSessions(E, DOMAIN E)
    BY DEF NewSessions, E
  <2> QED BY <1>4, <2>1, <2>2, <2>3 DEF AssignWSResponseSessions
<1>5. QED
  BY <1>1, <1>2, <1>3, <1>4

\* The entries a pass groups: of a session it has all regular transactions.
LEMMA SessionFacts ==
  ASSUME TablesOK, PassOK, job.pc = "reload", NEW skipRefs \in BOOLEAN
  PROVE  LET sess == SessionEntries(skipRefs)
         IN  /\ DOMAIN sess \subseteq DOMAIN Entries(TxnIds)
             /\ \A j \in DOMAIN sess : Named(j) # NoSid => sess[j] = Named(j)
             /\ \A i \in (cursor + 1) .. job.max : Named(i) # NoSid => i \in DOMAIN sess
             /\ \A i \in 1 .. job.max : \A j \in DOMAIN sess :
                  Named(i) # NoSid /\ sess[j] = Named(i) => i \in DOMAIN sess
<1> DEFINE sess == SessionEntries(skipRefs)
           E == Entries(TxnIds)
           known == {NewSessions[i] : i \in DOMAIN NewSessions} \ {NoSid}
           mine == LoadTransactionsForSessions(known)
           refs == IF skipRefs THEN {} ELSE ExtractReferenced(E, mine, known)
           loaded == mine \cup LoadTransactionsForSessions(refs)
<1>1. /\ job.new = (cursor + 1) .. job.max /\ job.max \in cursor .. Len(txns)
      /\ cursor \in Nat /\ Len(txns) \in Nat /\ TxnIds = 1 .. Len(txns)
  BY DEF TablesOK, PassOK, TxnIds
<1>2. job.new \subseteq TxnIds
  BY <1>1
<1>3. /\ DOMAIN NewSessions \subseteq job.new
      /\ DOMAIN NewSessions \subseteq DOMAIN E
      /\ \A i \in job.new : Named(i) # NoSid => i \in DOMAIN NewSessions /\ NewSessions[i] = Named(i)
  BY <1>2, NewFacts
<1>4. sess = CASE known = {} -> EmptyFcn
               [] known # {} /\ cursor = 0 -> NewSessions
               [] OTHER -> [i \in loaded |-> E[i].res.session]
  BY DEF SessionEntries
<1>5. \A sids : LoadTransactionsForSessions(sids) = {i \in DOMAIN E : E[i].res.session \in sids}
  BY DEF LoadTransactionsForSessions
<1>6. \A i \in TxnIds : Named(i) # NoSid => i \in DOMAIN E /\ E[i].res.session = Named(i)
  <2>1. \A i \in TxnIds : Named(i) # NoSid => i \in DOMAIN E /\ E[i] = Entry(i)
    BY EntryFacts
  <2> HIDE DEF E
  <2> QED BY <2>1, NamedKey
<1>7. \A i \in job.new : Named(i) # NoSid => Named(i) \in known
  BY <1>3
<1>8. DOMAIN E \subseteq TxnIds
  BY EntryFacts
<1> HIDE DEF E, sess, known, refs, mine
<1>9. CASE known = {}
  <2>1. DOMAIN sess = {}
    BY <1>4, <1>9 DEF EmptyFcn
  <2>2. \A i \in (cursor + 1) .. job.max : Named(i) = NoSid
    BY <1>1, <1>7, <1>9
  <2> QED BY <2>1, <2>2 DEF sess, E
<1>10. CASE known # {} /\ cursor = 0
  <2>1. sess = NewSessions
    BY <1>4, <1>10
  <2>2. job.new = 1 .. job.max
    BY <1>1, <1>10
  <2> QED BY <1>1, <1>3, <2>1, <2>2 DEF sess, E
<1>11. CASE known # {} /\ cursor # 0
  <2>1. sess = [i \in loaded |-> E[i].res.session]
    BY <1>4, <1>11
  <2>2. loaded = {i \in DOMAIN E : E[i].res.session \in known \cup refs}
    BY <1>5 DEF mine
  <2>3. DOMAIN sess \subseteq DOMAIN E
    BY <2>1, <2>2
  <2> HIDE DEF loaded
  <2>4. ASSUME NEW j \in DOMAIN sess, Named(j) # NoSid PROVE sess[j] = Named(j)
    BY <2>1, <2>3, <2>4, <1>6, <1>8
  <2>5. ASSUME NEW i \in (cursor + 1) .. job.max, Named(i) # NoSid PROVE i \in DOMAIN sess
    BY <2>1, <2>2, <2>5, <1>1, <1>2, <1>6, <1>7
  <2>6. ASSUME NEW i \in 1 .. job.max, NEW j \in DOMAIN sess, Named(i) # NoSid, sess[j] = Named(i)
        PROVE  i \in DOMAIN sess
    <3>1. Named(i) \in known \cup refs
      BY <2>1, <2>2, <2>6
    <3>2. i \in TxnIds
      BY <1>1
    <3> QED BY <2>1, <2>2, <2>6, <3>1, <3>2, <1>6
  <2> QED BY <2>3, <2>4, <2>5, <2>6 DEF sess, E
<1>12. QED
  BY <1>9, <1>10, <1>11

LEMMA SessionlessFacts ==
  ASSUME TablesOK, job.new \subseteq TxnIds
  PROVE  /\ DOMAIN Sessionless \subseteq DOMAIN Entries(TxnIds)
         /\ \A i \in DOMAIN Sessionless : Sessionless[i] = NoSid /\ Named(i) = NoSid
<1>1. DOMAIN Sessionless = {j \in DOMAIN NewSessions : NewSessions[j] = NoSid}
      /\ \A i \in DOMAIN Sessionless : Sessionless[i] = NoSid
  BY DEF Sessionless
<1>2. QED
  BY <1>1, NewFacts

\* A conversation as it is assembled.
LEMMA AssembledRow ==
  ASSUME NEW E, NEW id, NEW ids
  PROVE  /\ AssembleConversation(E, id, ids).txns = ids
         /\ DOMAIN AssembleConversation(E, id, ids).turns = 1 .. AssembleConversation(E, id, ids).count
<1> DEFINE rounds == IF Parseable(E, ids) = {} THEN <<>>
                     ELSE RecoverLastResponse(E, ids, BuildRounds(MessagesOf(E, ids)))
           reqs == MapRequestsToTurns(E, ids, Len(rounds))
<1>1. AssembleConversation(E, id, ids) =
        [txns |-> ids, count |-> Len(rounds), incomplete |-> Parseable(E, ids) = {},
         parent |-> IF IsSubagent(id) THEN MainId(id[1]) ELSE NoSid,
         turns |-> [r \in 1 .. Len(rounds) |-> [reqs |-> reqs[r], texts |-> rounds[r]]]]
  BY DEF AssembleConversation
<1> HIDE DEF rounds, reqs
<1>2. QED
  BY <1>1

LEMMA AssembledFacts ==
  ASSUME NEW skipRefs, NEW pref
  PROVE  LET a == Assembled(skipRefs, pref)
             named == GroupBySession(Entries(TxnIds), SessionEntries(skipRefs), pref)
             others == GroupBySession(Entries(TxnIds), Sessionless, pref)
         IN  /\ a = <<a[1], a[2]>>
             /\ DOMAIN a[1] = DOMAIN named /\ DOMAIN a[2] = DOMAIN others
             /\ \A id \in DOMAIN a[1] : a[1][id].c.txns = named[id]
             /\ \A id \in DOMAIN a[2] : a[2][id].c.txns = others[id]
             /\ \A k \in {1, 2} : \A id \in DOMAIN a[k] :
                  /\ DOMAIN a[k][id].c.turns = 1 .. a[k][id].c.count
                  /\ a[k][id].linked \subseteq DOMAIN a[1] \cup DOMAIN a[2]
<1> DEFINE a == Assembled(skipRefs, pref)
           E == Entries(TxnIds)
           named == GroupBySession(E, SessionEntries(skipRefs), pref)
           others == GroupBySession(E, Sessionless, pref)
           ids == DOMAIN named \cup DOMAIN others
           m(groups) == [id \in DOMAIN groups |->
                           [c |-> AssembleConversation(E, id, groups[id]), linked |-> LinkSubagents(id, ids)]]
<1>1. a = <<m(named), m(others)>>
  BY DEF Assembled
<1> HIDE DEF a, E, named, others
<1>2. a[1] = m(named) /\ a[2] = m(others) /\ a = <<a[1], a[2]>>
  BY <1>1
<1>3. \A id : LinkSubagents(id, ids) \subseteq ids
  BY DEF LinkSubagents
<1>4. \A id, g : /\ AssembleConversation(E, id, g).txns = g
                 /\ DOMAIN AssembleConversation(E, id, g).turns = 1 .. AssembleConversation(E, id, g).count
  BY AssembledRow
<1>5. DOMAIN a[1] = DOMAIN named /\ DOMAIN a[2] = DOMAIN others
  BY <1>2
<1>6. ASSUME NEW id \in DOMAIN a[1]
      PROVE  /\ a[1][id].c = AssembleConversation(E, id, named[id]) /\ a[1][id].linked = LinkSubagents(id, ids)
  BY <1>2, <1>5
<1>7. ASSUME NEW id \in DOMAIN a[2]
      PROVE  /\ a[2][id].c = AssembleConversation(E, id, others[id]) /\ a[2][id].linked = LinkSubagents(id, ids)
  BY <1>2, <1>5
<1>8. \A k \in {1, 2} : \A id \in DOMAIN a[k] :
        /\ DOMAIN a[k][id].c.turns = 1 .. a[k][id].c.count
        /\ a[k][id].linked \subseteq DOMAIN a[1] \cup DOMAIN a[2]
  <2>1. ASSUME NEW id \in DOMAIN a[1]
        PROVE  /\ DOMAIN a[1][id].c.turns = 1 .. a[1][id].c.count
               /\ a[1][id].linked \subseteq DOMAIN a[1] \cup DOMAIN a[2]
    <3> HIDE DEF ids
    <3>1. ids = DOMAIN a[1] \cup DOMAIN a[2]
      BY <1>5 DEF ids
    <3>2. a[1][id].linked \subseteq ids
      BY <1>3, <1>6, <2>1
    <3>3. DOMAIN a[1][id].c.turns = 1 .. a[1][id].c.count
      BY <1>4, <1>6, <2>1
    <3> QED BY <3>1, <3>2, <3>3
  <2>2. ASSUME NEW id \in DOMAIN a[2]
        PROVE  /\ DOMAIN a[2][id].c.turns = 1 .. a[2][id].c.count
               /\ a[2][id].linked \subseteq DOMAIN a[1] \cup DOMAIN a[2]
    <3> HIDE DEF ids
    <3>1. ids = DOMAIN a[1] \cup DOMAIN a[2]
      BY <1>5 DEF ids
    <3>2. a[2][id].linked \subseteq ids
      BY <1>3, <1>7, <2>2
    <3>3. DOMAIN a[2][id].c.turns = 1 .. a[2][id].c.count
      BY <1>4, <1>7, <2>2
    <3> QED BY <3>1, <3>2, <3>3
  <2> QED BY <2>1, <2>2
<1>9. (\A id \in DOMAIN a[1] : a[1][id].c.txns = named[id]) /\ (\A id \in DOMAIN a[2] : a[2][id].c.txns = others[id])
  BY <1>4, <1>6, <1>7
<1>10. QED
  BY <1>2, <1>5, <1>8, <1>9 DEF a, named, others, E

LEMMA EntrySys ==
  ASSUME TablesOK, NEW j \in DOMAIN Entries(TxnIds)
  PROVE  /\ j \in TxnIds /\ Entries(TxnIds)[j].row = txns[j]
         /\ Entries(TxnIds)[j].row.sys \in {"none", "short", "mid", "long"}
<1>1. j \in TxnIds /\ Entries(TxnIds)[j].row = txns[j]
  BY EntryFacts
<1>2. txns[j] \in Recorded
  BY <1>1 DEF TablesOK, TxnIds
<1>3. QED
  BY <1>1, <1>2, RowsAssumption DEF Recorded

\* A regular transaction among the entries of a pass is in one conversation.
LEMMA RegularKept ==
  ASSUME TablesOK, NEW sess, DOMAIN sess \subseteq DOMAIN Entries(TxnIds), NEW pref,
         \A j \in DOMAIN sess : Named(j) # NoSid => sess[j] = Named(j),
         NEW i \in DOMAIN sess, Regular(i)
  PROVE  LET G == GroupBySession(Entries(TxnIds), sess, pref)
         IN  \E id \in DOMAIN G : /\ i \in G[id] /\ id[1] = Named(i)
                                  /\ IsMain(i) => id = MainId(Named(i))
                                  /\ \A o \in DOMAIN G : i \in G[o] => o = id
<1> DEFINE E == Entries(TxnIds)
           G == GroupBySession(E, sess, pref)
<1>1. Named(i) # NoSid /\ sess[i] = Named(i)
  BY DEF Regular
<1>2. \A j \in DOMAIN sess : /\ j \in TxnIds /\ E[j].row = txns[j]
                             /\ E[j].row.sys \in {"none", "short", "mid", "long"}
  BY EntrySys
<1>3. E[i] = Entry(i)
  BY <1>1, EntryFacts
<1>4. NoSid \notin {sess[i]} \X {"main", "none", "short", "mid", "long"} \X Nat
  BY <1>1, <1>2, NamedKey
<1> HIDE DEF E
<1>5. ASSUME NEW j \in DOMAIN sess, sess[j] \in {sess[i], NoSid}
      PROVE  ClassifyThread(E[j].row.client, E[i]) \in Threads(i)
  <2>1. Named(j) \in {Named(i), NoSid}
    BY <1>1, <1>5
  <2>2. j \in {k \in TxnIds : Named(k) \in {Named(i), NoSid}}
    BY <2>1, <1>2
  <2> QED BY <2>2, <1>2, <1>3 DEF Threads
<1>6. \A j \in DOMAIN sess : sess[j] \in {sess[i], NoSid} => ClassifyThread(E[j].row.client, E[i]) # "utility"
  BY <1>5 DEF Regular
<1>7. \A j \in DOMAIN sess : sess[i] \notin Range(E[j].row.refs)
  BY <1>1, <1>2 DEF Regular
<1>8. IsMain(i) => \A j \in DOMAIN sess : sess[j] \in {sess[i], NoSid} => ClassifyThread(E[j].row.client, E[i]) = "main"
  BY <1>5 DEF IsMain
<1>9. DOMAIN sess \subseteq 1 .. Len(txns) /\ Len(txns) \in Nat
  BY <1>2 DEF TxnIds, TablesOK
<1>10. \E id \in DOMAIN G :
         /\ i \in G[id] /\ id[1] = sess[i]
         /\ (\A j \in DOMAIN sess : sess[j] \in {sess[i], NoSid} =>
               ClassifyThread(E[j].row.client, E[i]) = "main") => id = MainId(sess[i])
         /\ \A o \in DOMAIN G : i \in G[o] => o = id
  BY <1>1, <1>2, <1>4, <1>6, <1>7, <1>9, GroupKept
<1>11. QED
  <2> HIDE DEF G
  <2>1. \E id \in DOMAIN G : /\ i \in G[id] /\ id[1] = Named(i)
                             /\ IsMain(i) => id = MainId(Named(i))
                             /\ \A o \in DOMAIN G : i \in G[o] => o = id
    BY <1>1, <1>8, <1>10
  <2> QED BY <2>1 DEF G, E

\* The conversations a pass has to store.
LEMMA ReloadNamed ==
  ASSUME TablesOK, PassOK, job.pc = "reload", NEW skipRefs \in BOOLEAN, NEW pref
  PROVE  LET todo == Assembled(skipRefs, pref)[1]
         IN  \A i \in 1 .. job.max : Regular(i) =>
               /\ \A id \in DOMAIN todo : i \in todo[id].c.txns =>
                    /\ id[1] = Named(i)
                    /\ IsMain(i) => id = MainId(Named(i))
                    /\ \A o \in DOMAIN todo : i \in todo[o].c.txns => o = id
               /\ \A id \in DOMAIN todo : id[1] = Named(i) => \E o \in DOMAIN todo : i \in todo[o].c.txns
               /\ i > cursor => \E o \in DOMAIN todo : i \in todo[o].c.txns
<1> DEFINE todo == Assembled(skipRefs, pref)[1]
           E == Entries(TxnIds)
           sess == SessionEntries(skipRefs)
           G == GroupBySession(E, sess, pref)
           raw == RawSessions(E, sess, pref)
<1>1. DOMAIN todo = DOMAIN G /\ \A id \in DOMAIN todo : todo[id].c.txns = G[id]
  BY AssembledFacts
<1>2. /\ DOMAIN sess \subseteq DOMAIN E
      /\ \A j \in DOMAIN sess : Named(j) # NoSid => sess[j] = Named(j)
      /\ \A i \in (cursor + 1) .. job.max : Named(i) # NoSid => i \in DOMAIN sess
      /\ \A i \in 1 .. job.max : \A j \in DOMAIN sess :
           Named(i) # NoSid /\ sess[j] = Named(i) => i \in DOMAIN sess
  BY SessionFacts
<1>3. \A j \in DOMAIN sess : j \in TxnIds /\ E[j].row.sys \in {"none", "short", "mid", "long"}
  <2> HIDE DEF sess
  <2> QED BY <1>2, EntrySys
<1>4. cursor \in Nat /\ Len(txns) \in Nat /\ job.max \in cursor .. Len(txns) /\ TxnIds = 1 .. Len(txns)
  BY DEF TablesOK, PassOK, TxnIds
<1>5. DOMAIN raw = DOMAIN sess /\ \A j \in DOMAIN sess : raw[j] \in (Range(sess) \ {NoSid}) \cup InferredSessions
  <2> HIDE DEF sess, E
  <2>1. DOMAIN sess \subseteq 1 .. Len(txns)
    BY <1>3, <1>4
  <2> QED BY <1>3, <1>4, <2>1, RawNames
<1>6. \A id \in DOMAIN G : (\E j \in DOMAIN sess : id[1] = raw[j]) /\ G[id] \subseteq DOMAIN sess
  <2> HIDE DEF sess, E
  <2> QED BY <1>5, GroupNames
<1>7. ASSUME NEW i \in DOMAIN sess, Regular(i)
      PROVE  \E id \in DOMAIN G : /\ i \in G[id] /\ id[1] = Named(i)
                                  /\ IsMain(i) => id = MainId(Named(i))
                                  /\ \A o \in DOMAIN G : i \in G[o] => o = id
  <2> HIDE DEF sess
  <2> QED BY <1>2, <1>7, RegularKept
<1> HIDE DEF todo, E, sess, G, raw
<1>8. ASSUME NEW i \in 1 .. job.max, Regular(i)
      PROVE  /\ \A id \in DOMAIN todo : i \in todo[id].c.txns =>
                  /\ id[1] = Named(i)
                  /\ IsMain(i) => id = MainId(Named(i))
                  /\ \A o \in DOMAIN todo : i \in todo[o].c.txns => o = id
             /\ \A id \in DOMAIN todo : id[1] = Named(i) => \E o \in DOMAIN todo : i \in todo[o].c.txns
             /\ i > cursor => \E o \in DOMAIN todo : i \in todo[o].c.txns
  <2>1. i \in TxnIds /\ Named(i) # NoSid /\ Named(i) \notin InferredSessions
    <3>1. i \in TxnIds /\ Named(i) # NoSid
      BY <1>4, <1>8 DEF Regular
    <3> QED BY <3>1, NamedKey
  <2>2. ASSUME NEW id \in DOMAIN todo, i \in todo[id].c.txns
        PROVE  /\ id[1] = Named(i)
               /\ IsMain(i) => id = MainId(Named(i))
               /\ \A o \in DOMAIN todo : i \in todo[o].c.txns => o = id
    <3>1. i \in DOMAIN sess /\ id \in DOMAIN G /\ i \in G[id]
      BY <2>2, <1>1, <1>6
    <3> QED BY <3>1, <1>1, <1>7, <1>8
  <2>3. i \in DOMAIN sess => \E o \in DOMAIN todo : i \in todo[o].c.txns
    BY <1>1, <1>7, <1>8
  <2>4. ASSUME NEW id \in DOMAIN todo, id[1] = Named(i) PROVE i \in DOMAIN sess
    <3>1. PICK j \in DOMAIN sess : id[1] = raw[j]
      BY <1>1, <1>6
    <3>2. Named(i) \in Range(sess)
      BY <2>1, <2>4, <3>1, <1>5
    <3>3. PICK k \in DOMAIN sess : sess[k] = Named(i)
      BY <3>2 DEF Range
    <3> QED BY <3>3, <2>1, <1>2
  <2>5. i > cursor => i \in DOMAIN sess
    BY <2>1, <1>2, <1>4
  <2> QED BY <2>2, <2>3, <2>4, <2>5
<1>9. QED
  BY <1>8 DEF todo

LEMMA ReloadOthers ==
  ASSUME TablesOK, PassOK, job.pc = "reload", NEW skipRefs, NEW pref
  PROVE  LET todo == Assembled(skipRefs, pref)[2]
         IN  \A id \in DOMAIN todo :
               /\ id[1] \in InferredSessions
               /\ \A i \in TxnIds : Named(i) # NoSid => i \notin todo[id].c.txns
<1> DEFINE todo == Assembled(skipRefs, pref)[2]
           E == Entries(TxnIds)
           G == GroupBySession(E, Sessionless, pref)
           raw == RawSessions(E, Sessionless, pref)
<1>1. DOMAIN todo = DOMAIN G /\ \A id \in DOMAIN todo : todo[id].c.txns = G[id]
  BY AssembledFacts
<1>2. cursor \in Nat /\ Len(txns) \in Nat /\ job.max \in cursor .. Len(txns) /\ TxnIds = 1 .. Len(txns)
  BY DEF TablesOK, PassOK, TxnIds
<1>3. job.new \subseteq TxnIds
  BY <1>2 DEF PassOK
<1>4. /\ DOMAIN Sessionless \subseteq DOMAIN E
      /\ \A i \in DOMAIN Sessionless : Sessionless[i] = NoSid /\ Named(i) = NoSid
  BY <1>3, SessionlessFacts
<1>5. \A j \in DOMAIN Sessionless : j \in TxnIds /\ E[j].row.sys \in {"none", "short", "mid", "long"}
  BY <1>4, EntrySys
<1>6. DOMAIN raw = DOMAIN Sessionless
      /\ \A j \in DOMAIN Sessionless : raw[j] \in (Range(Sessionless) \ {NoSid}) \cup InferredSessions
  <2> HIDE DEF E
  <2>1. DOMAIN Sessionless \subseteq 1 .. Len(txns)
    BY <1>2, <1>5
  <2> QED BY <1>2, <1>5, <2>1, RawNames
<1>7. Range(Sessionless) \ {NoSid} = {}
  BY <1>4 DEF Range
<1>8. \A id \in DOMAIN G : (\E j \in DOMAIN Sessionless : id[1] = raw[j]) /\ G[id] \subseteq DOMAIN Sessionless
  <2> HIDE DEF E
  <2> QED BY <1>6, GroupNames
<1> HIDE DEF todo, E, G, raw
<1>9. QED
  BY <1>1, <1>4, <1>6, <1>7, <1>8 DEF todo
------------------------------------------------------------------------------
(* The steps.                                                              *)

\* What a transaction is, only the table of transactions says.
LEMMA SameRows ==
  ASSUME txns' = txns
  PROVE  /\ TxnIds' = TxnIds
         /\ \A i : Named(i)' = Named(i)
         /\ \A i : Regular(i)' <=> Regular(i)
         /\ \A i : IsMain(i)' <=> IsMain(i)
<1>1. TxnIds' = TxnIds
  BY DEF TxnIds
<1>2. \A i : Named(i)' = Named(i)
  BY DEF Named
<1>3. \A i : Entry(i)' = Entry(i)
  BY DEF Entry
<1>4. \A i : Threads(i)' = Threads(i)
  BY <1>1, <1>2, <1>3 DEF Threads
<1>5. QED
  BY <1>1, <1>2, <1>4 DEF Regular, IsMain

\* A new row takes no transaction out of its session; it may end a regularity.
LEMMA MoreRows ==
  ASSUME txns \in Seq(Recorded), NEW row \in Recorded, txns' = Append(txns, row), NEW i \in TxnIds
  PROVE  /\ i \in TxnIds' /\ txns'[i] = txns[i]
         /\ Named(i)' = Named(i)
         /\ Regular(i)' => Regular(i)
         /\ Regular(i)' /\ IsMain(i)' => IsMain(i)
<1>1. /\ TxnIds \subseteq TxnIds' /\ \A j \in TxnIds : txns'[j] = txns[j]
  BY DEF TxnIds
<1>2. \A j \in TxnIds : Named(j)' = Named(j) /\ Entry(j)' = Entry(j)
  BY <1>1 DEF Named, Entry
<1>3. Threads(i) \subseteq Threads(i)'
  <2> SUFFICES ASSUME NEW j \in TxnIds, Named(j) \in {Named(i), NoSid}
               PROVE  ClassifyThread(txns[j].client, Entry(i)) \in Threads(i)'
    BY DEF Threads
  <2>1. j \in {k \in TxnIds' : Named(k)' \in {Named(i)', NoSid}}
    BY <1>1, <1>2
  <2>2. ClassifyThread(txns[j].client, Entry(i)) = ClassifyThread(txns'[j].client, Entry(i)')
    BY <1>1, <1>2
  <2>3. Threads(i)' = {ClassifyThread(txns'[k].client, Entry(i)') :
                         k \in {k \in TxnIds' : Named(k)' \in {Named(i)', NoSid}}}
    BY DEF Threads
  <2> QED BY <2>1, <2>2, <2>3
<1>4. Threads(i) # {}
  <2>1. i \in {k \in TxnIds : Named(k) \in {Named(i), NoSid}}
    OBVIOUS
  <2>2. ClassifyThread(txns[i].client, Entry(i)) \in Threads(i)
    BY <2>1 DEF Threads
  <2> QED BY <2>2
<1>5. IsMain(i)' => IsMain(i)
  BY <1>3, <1>4 DEF IsMain
<1>6. Regular(i)' => Regular(i)
  <2>1. Regular(i)' => /\ Named(i)' # NoSid /\ "utility" \notin Threads(i)'
                       /\ \A j \in TxnIds' : Named(i)' \notin Range(txns'[j].refs)
    BY DEF Regular
  <2> QED BY <2>1, <1>1, <1>2, <1>3 DEF Regular
<1>7. QED
  BY <1>1, <1>2, <1>5, <1>6

\* A step outside the passes that leaves the conversations alone, and moves the
\* cursor over nothing regular.
LEMMA QuietStep ==
  ASSUME ConversationsInv, JobShape', TablesOK', PassOK', ~InPass, ~InPass',
         UNCHANGED <<txns, convs, turnRows, link, failedVars>>, ~Excused' => ~Excused,
         \A i \in 1 .. cursor' : Regular(i) => i \in 1 .. cursor
  PROVE  ConversationsInv'
<1>1. DOMAIN job.todo[1] = {} /\ DOMAIN job.todo[2] = {} /\ DOMAIN job'.todo[1] = {} /\ DOMAIN job'.todo[2] = {}
  <2>1. DOMAIN job'.todo[1] = {} /\ DOMAIN job'.todo[2] = {}
    BY DEF PassOK
  <2> QED BY <2>1 DEF ConversationsInv, PassOK
<1>2. TodoOK' /\ Covered'
  BY DEF TodoOK, Covered
<1>3. ListsOK'
  BY <1>1 DEF ConversationsInv, ListsOK, Listed, failedVars
<1>4. \A i : (Regular(i)' <=> Regular(i)) /\ (IsMain(i)' <=> IsMain(i)) /\ Named(i)' = Named(i)
  BY SameRows
<1>5. Placed => Placed'
  <2>1. \A i : Pending(i) <=> Pending(i)'
    BY <1>1 DEF Pending
  <2>2. \A i : Kept(i) => Kept(i)'
    BY <1>1, <1>4 DEF Kept, Stored
  <2>3. \A i : InMain(i) => InMain(i)'
    BY <1>4 DEF InMain
  <2> QED BY <1>4, <2>1, <2>2, <2>3 DEF Placed, failedVars
<1>6. QED
  BY <1>2, <1>3, <1>5 DEF ConversationsInv

\* A step that touches neither the tables nor the pass.
LEMMA IdleStep ==
  ASSUME ConversationsInv,
         UNCHANGED <<txns, convs, turnRows, link, cursor, version, job, failedVars, wiped>>,
         loop' = "rebuild" <=> loop = "rebuild"
  PROVE  ConversationsInv'
<1>1. \A i : (Regular(i)' <=> Regular(i)) /\ (IsMain(i)' <=> IsMain(i)) /\ Named(i)' = Named(i)
  BY SameRows
<1>2. JobShape' /\ TablesOK' /\ PassOK'
  BY DEF ConversationsInv, JobShape, TablesOK, PassOK, InPass, TxnIds
<1>3. (InPass' <=> InPass) /\ (Excused' <=> Excused)
  BY DEF InPass, Excused
<1>4. TodoOK'
  <2>1. TodoNamed => TodoNamed'
    BY <1>1 DEF TodoNamed
  <2>2. TodoOthers => TodoOthers'
    BY <1>1 DEF TodoOthers
  <2>3. TodoTurns => TodoTurns'
    BY DEF TodoTurns
  <2>4. CurrentOK => CurrentOK'
    BY DEF CurrentOK, Front1
  <2> QED BY <1>3, <2>1, <2>2, <2>3, <2>4 DEF ConversationsInv, TodoOK
<1>5. ListsOK'
  BY DEF ConversationsInv, ListsOK, Listed, failedVars
<1>6. \A i : (Kept(i)' <=> Kept(i)) /\ (InMain(i)' <=> InMain(i)) /\ (Pending(i)' <=> Pending(i))
  BY <1>1 DEF Kept, Stored, InMain, Pending
<1>7. (Placed => Placed') /\ (Covered => Covered')
  BY <1>1, <1>3, <1>6 DEF Placed, Covered, failedVars
<1>8. QED
  BY <1>2, <1>3, <1>4, <1>5, <1>7 DEF ConversationsInv

LEMMA NoJobShape ==
  /\ NoJob = [pc |-> NoJob.pc, loop |-> NoJob.loop, rebuild |-> NoJob.rebuild, max |-> NoJob.max,
              new |-> NoJob.new, todo |-> NoJob.todo, cur |-> NoJob.cur]
  /\ NoJob.todo = <<NoJob.todo[1], NoJob.todo[2]>>
  /\ DOMAIN NoJob.todo[1] = {} /\ DOMAIN NoJob.todo[2] = {}
  /\ NoJob.pc = "none" /\ NoJob.rebuild = FALSE
BY DEF NoJob, EmptyFcn

\* A pass that begins is at its start, and has nothing to store.
LEMMA StartedJob ==
  ASSUME JobShape, NEW byLoop, NEW pc \in {"scan", "delete"}, StartJob(byLoop, pc)
  PROVE  /\ JobShape' /\ job.pc = "none" /\ job'.pc = pc /\ (job'.rebuild <=> pc = "delete")
         /\ DOMAIN job'.todo[1] = {} /\ DOMAIN job'.todo[2] = {}
<1>1. job' = [NoJob EXCEPT !.pc = pc, !.loop = byLoop, !.rebuild = pc = "delete"] /\ job.pc = "none"
  BY DEF StartJob
<1>2. /\ job'.pc = pc /\ job'.rebuild = (pc = "delete") /\ job'.todo = NoJob.todo
      /\ job' = [pc |-> job'.pc, loop |-> job'.loop, rebuild |-> job'.rebuild, max |-> job'.max,
                 new |-> job'.new, todo |-> job'.todo, cur |-> job'.cur]
  BY <1>1 DEF NoJob
<1>3. QED
  BY <1>1, <1>2, NoJobShape DEF JobShape

\* A pass that ends, or goes on to note the version.
LEMMA FinishedJob ==
  ASSUME JobShape, Finish, DOMAIN job.todo[1] = {}, DOMAIN job.todo[2] = {}
  PROVE  /\ JobShape' /\ DOMAIN job'.todo[1] = {} /\ DOMAIN job'.todo[2] = {}
         /\ IF job.rebuild THEN job'.pc = "version" /\ job'.rebuild = job.rebuild
                           ELSE job'.pc = "none" /\ job'.rebuild = FALSE
<1>1. CASE job.rebuild
  <2>1. job' = [job EXCEPT !.pc = "version"]
    BY <1>1 DEF Finish
  <2>2. /\ job'.pc = "version" /\ job'.rebuild = job.rebuild /\ job'.todo = job.todo
        /\ job' = [pc |-> job'.pc, loop |-> job'.loop, rebuild |-> job'.rebuild, max |-> job'.max,
                   new |-> job'.new, todo |-> job'.todo, cur |-> job'.cur]
    BY <2>1 DEF JobShape
  <2> QED BY <1>1, <2>2 DEF JobShape
<1>2. CASE ~job.rebuild
  <2>1. job' = NoJob
    BY <1>2 DEF Finish
  <2> QED BY <1>2, <2>1, NoJobShape DEF JobShape
<1>3. QED
  BY <1>1, <1>2 DEF JobShape

LEMMA StartKeeps == ConversationsInv /\ Start => ConversationsInv'
<1> SUFFICES ASSUME ConversationsInv, Start PROVE ConversationsInv'
  OBVIOUS
<1> USE DEF ConversationsInv
<1>1. /\ UNCHANGED <<txns, convs, turnRows, link, cursor, version, failedVars, wiped>>
      /\ UNCHANGED tableVars
  BY DEF Start, tableVars, cvHistory, failedVars
<1>2. TablesOK'
  BY <1>1 DEF TablesOK, TxnIds
<1>3. CASE loop = "rebuild" /\ version # "current"
  <2>1. StartJob(TRUE, "delete") /\ loop' = "backfill"
    BY <1>3 DEF Start
  <2>2. /\ JobShape' /\ job.pc = "none" /\ job'.pc = "delete" /\ job'.rebuild
        /\ DOMAIN job'.todo[1] = {} /\ DOMAIN job'.todo[2] = {}
    BY <2>1, StartedJob
  <2>3. ~InPass /\ ~InPass' /\ PassOK' /\ Excused'
    BY <1>1, <1>3, <2>1, <2>2 DEF InPass, PassOK, Excused, TablesOK
  <2> QED BY <1>1, <1>2, <2>2, <2>3, QuietStep
<1>4. CASE loop = "rebuild" /\ version = "current"
  <2>1. loop' = "backfill" /\ UNCHANGED job
    BY <1>4 DEF Start
  <2>2. ~InPass /\ ~InPass' /\ JobShape'
    BY <1>4, <2>1 DEF PassOK, InPass, JobShape
  <2>3. PassOK' /\ (~Excused' => ~Excused)
    BY <1>1, <1>4, <2>1, <2>2 DEF PassOK, Excused, InPass
  <2> QED BY <1>1, <1>2, <2>2, <2>3, QuietStep
<1>5. CASE loop = "backfill"
  <2>1. StartJob(TRUE, "scan") /\ loop' = "subscribe"
    BY <1>5 DEF Start
  <2>2. /\ JobShape' /\ job.pc = "none" /\ job'.pc = "scan" /\ ~job'.rebuild
        /\ DOMAIN job'.todo[1] = {} /\ DOMAIN job'.todo[2] = {}
    BY <2>1, StartedJob
  <2>3. version # "old"
    BY <1>5, <2>2 DEF PassOK
  <2>4. ~InPass /\ ~InPass' /\ PassOK' /\ (~Excused' => ~Excused)
    BY <1>1, <1>5, <2>1, <2>2, <2>3 DEF InPass, PassOK, Excused
  <2> QED BY <1>1, <1>2, <2>2, <2>4, QuietStep
<1>6. CASE loop = "subscribe"
  <2>1. loop' = "run" /\ UNCHANGED job
    BY <1>6 DEF Start
  <2> QED BY <1>1, <1>6, <2>1, IdleStep
<1>7. QED
  BY <1>3, <1>4, <1>5, <1>6 DEF Start

LEMMA TriggerKeeps ==
  ASSUME ConversationsInv, NEW byLoop, StartJob(byLoop, "scan"), loop # "rebuild", UNCHANGED loop,
         UNCHANGED <<txns, convs, turnRows, link, cursor, version, failedVars, wiped>>
  PROVE  ConversationsInv'
<1> USE DEF ConversationsInv
<1>1. TablesOK'
  BY DEF TablesOK, TxnIds
<1>2. /\ JobShape' /\ job.pc = "none" /\ job'.pc = "scan" /\ ~job'.rebuild
      /\ DOMAIN job'.todo[1] = {} /\ DOMAIN job'.todo[2] = {}
  BY StartedJob
<1>3. version # "old"
  BY <1>2 DEF PassOK
<1>4. ~InPass /\ ~InPass' /\ PassOK' /\ (~Excused' => ~Excused)
  BY <1>2, <1>3 DEF InPass, PassOK, Excused
<1>5. QED
  BY <1>1, <1>2, <1>4, QuietStep

LEMMA RebuildKeeps == ConversationsInv /\ Rebuild => ConversationsInv'
<1> SUFFICES ASSUME ConversationsInv, Rebuild PROVE ConversationsInv'
  OBVIOUS
<1> USE DEF ConversationsInv
<1>1. /\ UNCHANGED <<txns, convs, turnRows, link, cursor, version, loop, failedVars, wiped>>
      /\ StartJob(FALSE, "delete") /\ loop # "rebuild"
  BY DEF Rebuild, tableVars, loopVars, cvHistory
<1>2. TablesOK'
  BY <1>1 DEF TablesOK, TxnIds
<1>3. /\ JobShape' /\ job.pc = "none" /\ job'.pc = "delete" /\ job'.rebuild
      /\ DOMAIN job'.todo[1] = {} /\ DOMAIN job'.todo[2] = {}
  BY <1>1, StartedJob
<1>4. ~InPass /\ ~InPass' /\ PassOK' /\ (~Excused' => ~Excused)
  BY <1>1, <1>3 DEF InPass, PassOK, Excused
<1>5. QED
  BY <1>1, <1>2, <1>3, <1>4, QuietStep

\* A pass that finds nothing to do.
LEMMA FinishKeeps ==
  ASSUME ConversationsInv, Finish, job.pc \in {"scan", "reload"},
         UNCHANGED <<txns, convs, turnRows, link, version, loop, failedVars, wiped>>,
         cursor' \in 0 .. Len(txns), \A i \in 1 .. cursor' : Regular(i) => i \in 1 .. cursor
  PROVE  ConversationsInv'
<1> USE DEF ConversationsInv
<1>1. TablesOK'
  BY DEF TablesOK, TxnIds
<1>2. ~InPass /\ DOMAIN job.todo[1] = {} /\ DOMAIN job.todo[2] = {}
  BY DEF InPass, PassOK
<1>3. /\ JobShape' /\ DOMAIN job'.todo[1] = {} /\ DOMAIN job'.todo[2] = {}
      /\ IF job.rebuild THEN job'.pc = "version" /\ job'.rebuild = job.rebuild
                        ELSE job'.pc = "none" /\ job'.rebuild = FALSE
  BY <1>2, FinishedJob
<1>4. ~InPass' /\ job'.pc \in {"version", "none"} /\ job'.rebuild = job.rebuild
  BY <1>3 DEF InPass, JobShape
<1>5. PassOK' /\ (~Excused' => ~Excused)
  BY <1>2, <1>3, <1>4 DEF InPass, PassOK, Excused
<1>6. QED
  BY <1>1, <1>2, <1>3, <1>4, <1>5, QuietStep

LEMMA NoteVersionKeeps == ConversationsInv /\ NoteVersion => ConversationsInv'
<1> SUFFICES ASSUME ConversationsInv, NoteVersion PROVE ConversationsInv'
  OBVIOUS
<1> USE DEF ConversationsInv
<1>1. /\ UNCHANGED <<txns, convs, turnRows, link, cursor, loop, failedVars, wiped>>
      /\ job.pc = "version" /\ version' = "current" /\ job' = NoJob
  BY DEF NoteVersion, loopVars, cvHistory
<1>2. TablesOK' /\ JobShape' /\ ~InPass /\ ~InPass'
  BY <1>1, NoJobShape DEF TablesOK, TxnIds, JobShape, InPass
<1>3. PassOK' /\ (~Excused' => ~Excused)
  BY <1>1, <1>2, NoJobShape DEF PassOK, Excused, InPass
<1>4. QED
  BY <1>1, <1>2, <1>3, QuietStep

LEMMA LoadKeeps == ConversationsInv /\ (LoadNewTransactions \/ LoadFails) => ConversationsInv'
<1> SUFFICES ASSUME ConversationsInv, LoadNewTransactions \/ LoadFails PROVE ConversationsInv'
  OBVIOUS
<1>1. UNCHANGED <<txns, convs, turnRows, link, version, loop, failedVars, wiped>>
  BY DEF LoadNewTransactions, LoadFails, tableVars, loopVars
<1>2. TablesOK /\ JobShape /\ PassOK
  BY DEF ConversationsInv
<1>3. Len(txns) \in Nat /\ cursor \in 0 .. Len(txns) /\ TxnIds = 1 .. Len(txns)
  BY <1>2 DEF TablesOK, TxnIds
<1>4. CASE Finish /\ job.pc \in {"scan", "reload"} /\ cursor' = cursor
  BY <1>1, <1>3, <1>4, FinishKeeps
<1>5. CASE LoadNewTransactions /\ tracking /\ DOMAIN Entries(Behind) = {}
  <2>1. Finish /\ cursor' = Len(txns) /\ job.pc = "scan"
    BY <1>5 DEF LoadNewTransactions
  <2>2. Behind = {i \in TxnIds : i > cursor} /\ Behind \subseteq TxnIds
    BY DEF Behind
  <2>3. \A i \in Behind : ~Regular(i)
    BY <1>2, <1>5, <2>2, EntryFacts DEF Regular
  <2>4. \A i \in 1 .. cursor' : Regular(i) => i \in 1 .. cursor
    BY <1>3, <2>1, <2>2, <2>3
  <2>5. cursor' \in 0 .. Len(txns)
    BY <1>3, <2>1
  <2> QED BY <1>1, <2>1, <2>4, <2>5, FinishKeeps
<1>6. CASE LoadNewTransactions /\ tracking /\ DOMAIN Entries(Behind) # {}
  <2>1. /\ job.pc = "scan" /\ UNCHANGED cursor
        /\ job' = [job EXCEPT !.pc = "reload", !.new = Behind, !.max = Len(txns)]
    BY <1>6 DEF LoadNewTransactions
  <2>2. Behind = (cursor + 1) .. Len(txns)
    BY <1>3 DEF Behind
  <2> HIDE DEF Behind
  <2>3. /\ job' = [pc |-> job'.pc, loop |-> job'.loop, rebuild |-> job'.rebuild, max |-> job'.max,
                   new |-> job'.new, todo |-> job'.todo, cur |-> job'.cur]
        /\ job'.pc = "reload" /\ job'.rebuild = job.rebuild /\ job'.max = Len(txns)
        /\ job'.new = Behind /\ job'.todo = job.todo
    BY <1>2, <2>1 DEF JobShape
  <2>4. JobShape' /\ TablesOK' /\ ~InPass /\ ~InPass'
    BY <1>1, <1>2, <2>1, <2>3 DEF JobShape, TablesOK, TxnIds, InPass
  <2>5. PassOK' /\ (~Excused' => ~Excused)
    BY <1>1, <1>2, <1>3, <2>1, <2>2, <2>3, <2>4 DEF PassOK, Excused, InPass
  <2> QED BY <1>1, <2>1, <2>4, <2>5, QuietStep
<1>7. QED
  <2>1. CASE LoadFails
    BY <2>1, <1>4 DEF LoadFails, tableVars
  <2>2. CASE LoadNewTransactions /\ ~tracking
    BY <2>2, <1>4 DEF LoadNewTransactions
  <2>3. CASE LoadNewTransactions /\ tracking
    BY <2>3, <1>5, <1>6
  <2> QED BY <2>1, <2>2, <2>3

\* A longer table has a longer column.
LEMMA AppendedLink ==
  ASSUME NEW n \in Nat, NEW f, f = [i \in 1 .. n |-> f[i]], NEW x
  PROVE  Append(f, x) = [i \in 1 .. (n + 1) |-> IF i = n + 1 THEN x ELSE f[i]]
<1> DEFINE S == {f[i] : i \in 1 .. n} \cup {x}
<1>1. \A i \in 1 .. n : f[i] \in S
  OBVIOUS
<1>2. f \in [1 .. n -> S]
  <2> HIDE DEF S
  <2> QED BY <1>1
<1> HIDE DEF S
<1>3. f \in Seq(S) /\ Len(f) = n
  BY <1>2
<1>4. QED
  BY <1>3

LEMMA CommitKeeps ==
  ASSUME ConversationsInv, NEW row \in Rows, Commit(row)
  PROVE  ConversationsInv'
<1> DEFINE last == IF txns = <<>> THEN 0 ELSE txns[Len(txns)].at
           new == [row EXCEPT !.at = last + row.at]
<1>1. /\ txns' = Append(txns, new) /\ link' = Append(link, NoSid)
      /\ UNCHANGED <<convs, turnRows, cursor, version, loop, job, failedVars, wiped>>
  BY DEF Commit
<1>2. TablesOK /\ JobShape /\ PassOK /\ TodoOK /\ ListsOK
  BY DEF ConversationsInv
<1>3. new \in Recorded
  <2>1. row \in Recorded
    BY RowsAssumption DEF Recorded
  <2>2. last \in Nat
    <3>1. CASE txns = <<>>
      BY <3>1
    <3>2. CASE txns # <<>>
      <4>1. Len(txns) \in 1 .. Len(txns)
        BY <1>2, <3>2 DEF TablesOK
      <4>2. txns[Len(txns)] \in Recorded
        BY <1>2, <4>1 DEF TablesOK
      <4> QED BY <3>2, <4>2 DEF Recorded
    <3> QED BY <3>1, <3>2
  <2>3. row.at \in Nat
    BY <2>1 DEF Recorded
  <2> HIDE DEF last
  <2> QED BY <2>1, <2>2, <2>3 DEF Recorded
<1> HIDE DEF new
<1>4. /\ txns' \in Seq(Recorded) /\ Len(txns') = Len(txns) + 1 /\ Len(txns) \in Nat
      /\ TxnIds = 1 .. Len(txns) /\ TxnIds' = 1 .. (Len(txns) + 1)
  BY <1>1, <1>2, <1>3 DEF TablesOK, TxnIds
<1>5. link' = [i \in 1 .. (Len(txns) + 1) |-> IF i = Len(txns) + 1 THEN NoSid ELSE link[i]]
  <2>1. link = [i \in 1 .. Len(txns) |-> link[i]]
    BY <1>2, <1>4 DEF TablesOK
  <2> QED BY <1>1, <1>4, <2>1, AppendedLink
<1>6. \A i \in TxnIds : link'[i] = link[i]
  BY <1>4, <1>5
<1>7. TablesOK' /\ JobShape' /\ PassOK' /\ (InPass' <=> InPass) /\ (Excused' <=> Excused)
  <2>1. TablesOK'
    <3>1. link' = [i \in TxnIds' |-> link'[i]]
      BY <1>4, <1>5
    <3> QED BY <1>1, <1>2, <1>4, <3>1 DEF TablesOK
  <2>2. PassOK'
    BY <1>1, <1>2, <1>4 DEF PassOK, InPass, TablesOK
  <2>3. JobShape' /\ (InPass' <=> InPass) /\ (Excused' <=> Excused)
    BY <1>1, <1>2 DEF JobShape, InPass, Excused
  <2> QED BY <2>1, <2>2, <2>3
<1>8. \A i \in TxnIds : /\ Named(i)' = Named(i)
                        /\ Regular(i)' => Regular(i)
                        /\ Regular(i)' /\ IsMain(i)' => IsMain(i)
  BY <1>1, <1>2, <1>3, MoreRows DEF TablesOK
<1>9. cursor \in 0 .. Len(txns) /\ (InPass => job.max \in cursor .. Len(txns))
  BY <1>2 DEF TablesOK, PassOK
<1>10. TodoOK'
  <2> SUFFICES ASSUME InPass PROVE TodoNamed' /\ TodoOthers' /\ TodoTurns' /\ CurrentOK'
    BY <1>7 DEF TodoOK
  <2>1. 1 .. job.max \subseteq TxnIds
    BY <1>4, <1>9
  <2>2. TodoNamed'
    <3>1. TodoNamed
      BY <1>2 DEF TodoOK
    <3>2. \A i \in 1 .. job.max : Regular(i)' => Regular(i) /\ Named(i)' = Named(i) /\ (IsMain(i)' => IsMain(i))
      BY <1>8, <2>1
    <3> QED BY <1>1, <3>1, <3>2 DEF TodoNamed
  <2>3. TodoOthers'
    BY <1>1, <1>2, <1>8, <2>1 DEF TodoOK, TodoOthers
  <2>4. TodoTurns'
    BY <1>1, <1>2 DEF TodoOK, TodoTurns
  <2>5. CurrentOK'
    BY <1>1, <1>2 DEF TodoOK, CurrentOK, Front1
  <2> QED BY <2>2, <2>3, <2>4, <2>5
<1>11. ListsOK'
  BY <1>1, <1>2 DEF ListsOK, Listed, failedVars
<1>12. ASSUME NEW i \in TxnIds, Regular(i)'
       PROVE  /\ Regular(i) /\ (IsMain(i)' => IsMain(i))
              /\ Pending(i) <=> Pending(i)'
              /\ Kept(i) => Kept(i)'
              /\ InMain(i) => InMain(i)'
  <2>1. /\ Regular(i) /\ (IsMain(i)' => IsMain(i))
        /\ Named(i)' = Named(i) /\ link'[i] = link[i]
    BY <1>6, <1>8, <1>12
  <2>2. Pending(i) <=> Pending(i)'
    BY <1>1 DEF Pending
  <2>3. Kept(i) => Kept(i)'
    BY <1>1, <2>1 DEF Kept, Stored
  <2>4. InMain(i) => InMain(i)'
    BY <1>1, <2>1 DEF InMain
  <2> QED BY <2>1, <2>2, <2>3, <2>4
<1>13. Placed => Placed'
  <2>1. 1 .. cursor \subseteq TxnIds
    BY <1>4, <1>9
  <2> QED BY <1>1, <1>12, <2>1 DEF Placed, failedVars
<1>14. Covered => Covered'
  <2>1. InPass => (cursor + 1) .. job.max \subseteq TxnIds
    BY <1>4, <1>9
  <2> QED BY <1>1, <1>7, <1>12, <2>1 DEF Covered, failedVars
<1>15. QED
  BY <1>7, <1>10, <1>11, <1>13, <1>14 DEF ConversationsInv

LEMMA ReloadKeeps ==
  ASSUME ConversationsInv, NEW skipRefs \in BOOLEAN, NEW pref, Reload(skipRefs, pref)
  PROVE  ConversationsInv'
<1> DEFINE a == Assembled(skipRefs, pref)
<1>1. /\ UNCHANGED <<txns, convs, turnRows, link, cursor, version, loop, failedVars, wiped>>
      /\ job.pc = "reload" /\ job' = [job EXCEPT !.pc = "upsert", !.new = {}, !.todo = a]
  BY DEF Reload, tableVars, loopVars, cvHistory
<1>2. TablesOK /\ JobShape /\ PassOK /\ ListsOK
  BY DEF ConversationsInv
<1>3. /\ a = <<a[1], a[2]>>
      /\ \A k \in {1, 2} : \A id \in DOMAIN a[k] :
           /\ DOMAIN a[k][id].c.turns = 1 .. a[k][id].c.count
           /\ a[k][id].linked \subseteq DOMAIN a[1] \cup DOMAIN a[2]
  BY AssembledFacts
<1>4. \A i \in 1 .. job.max : Regular(i) =>
        /\ \A id \in DOMAIN a[1] : i \in a[1][id].c.txns =>
             /\ id[1] = Named(i)
             /\ IsMain(i) => id = MainId(Named(i))
             /\ \A o \in DOMAIN a[1] : i \in a[1][o].c.txns => o = id
        /\ \A id \in DOMAIN a[1] : id[1] = Named(i) => \E o \in DOMAIN a[1] : i \in a[1][o].c.txns
        /\ i > cursor => \E o \in DOMAIN a[1] : i \in a[1][o].c.txns
  BY <1>1, <1>2, ReloadNamed
<1>5. \A id \in DOMAIN a[2] :
        /\ id[1] \in InferredSessions
        /\ \A i \in TxnIds : Named(i) # NoSid => i \notin a[2][id].c.txns
  BY <1>1, <1>2, ReloadOthers
<1> HIDE DEF a
<1>6. /\ job' = [pc |-> job'.pc, loop |-> job'.loop, rebuild |-> job'.rebuild, max |-> job'.max,
                 new |-> job'.new, todo |-> job'.todo, cur |-> job'.cur]
      /\ job'.pc = "upsert" /\ job'.rebuild = job.rebuild /\ job'.max = job.max /\ job'.todo = a
  BY <1>1, <1>2 DEF JobShape
<1>7. JobShape' /\ TablesOK' /\ InPass' /\ ~InPass
  BY <1>1, <1>2, <1>3, <1>6 DEF JobShape, TablesOK, TxnIds, InPass
<1>8. PassOK' /\ (~Excused' => ~Excused)
  BY <1>1, <1>2, <1>6, <1>7 DEF PassOK, Excused, InPass, TablesOK
<1>9. \A i : (Regular(i)' <=> Regular(i)) /\ (IsMain(i)' <=> IsMain(i)) /\ Named(i)' = Named(i)
  BY <1>1, SameRows
<1>10. /\ cursor \in Nat /\ Len(txns) \in Nat /\ job.max \in cursor .. Len(txns) /\ TxnIds = 1 .. Len(txns)
       /\ DOMAIN job.todo[1] = {} /\ DOMAIN job.todo[2] = {}
  BY <1>1, <1>2, <1>7 DEF TablesOK, PassOK, TxnIds
<1>11. TodoOK'
  <2>1. TodoNamed'
    <3>1. ASSUME NEW i \in 1 .. job.max, Regular(i), IsMain(i), MainId(Named(i)) \in DOMAIN a[1]
          PROVE  i \in a[1][MainId(Named(i))].c.txns
      <4>1. MainId(Named(i))[1] = Named(i)
        BY DEF MainId
      <4>2. PICK o \in DOMAIN a[1] : i \in a[1][o].c.txns
        BY <1>4, <3>1, <4>1
      <4> QED BY <1>4, <3>1, <4>2
    <3> QED BY <1>4, <1>6, <1>9, <3>1 DEF TodoNamed
  <2>2. TodoOthers'
    <3>1. 1 .. job.max \subseteq TxnIds
      BY <1>10
    <3> QED BY <1>5, <1>6, <1>9, <3>1 DEF TodoOthers
  <2>3. TodoTurns'
    BY <1>3, <1>6 DEF TodoTurns
  <2>4. CurrentOK'
    BY <1>6 DEF CurrentOK
  <2> QED BY <2>1, <2>2, <2>3, <2>4 DEF TodoOK
<1>12. ListsOK'
  <2>1. Listed \subseteq Listed'
    BY <1>1, <1>10 DEF Listed, failedVars
  <2>2. DOMAIN a[1] \cup DOMAIN a[2] \subseteq Listed'
    BY <1>6 DEF Listed
  <2>3. \A id \in DOMAIN convs : convs'[id].linked \subseteq Listed'
    BY <1>1, <1>2, <2>1 DEF ListsOK
  <2>4. \A k \in {1, 2} : \A id \in DOMAIN a[k] : a[k][id].linked \subseteq Listed'
    <3> HIDE DEF Listed
    <3> QED BY <1>3, <2>2
  <2> QED BY <1>1, <1>6, <2>3, <2>4 DEF ListsOK
<1>13. Placed => Placed'
  <2> SUFFICES ASSUME Placed, NEW i \in 1 .. cursor, Regular(i)
               PROVE  /\ i \in lost \/ i \in torn \/ Pending(i)' \/ Kept(i)'
                      /\ IsMain(i) => i \in lost \/ InMain(i)'
    BY <1>1, <1>9 DEF Placed, failedVars
  <2>1. i \in 1 .. job.max
    BY <1>10
  <2>2. InMain(i) => InMain(i)'
    BY <1>1, <1>9 DEF InMain
  <2>3. ~Pending(i)
    BY <1>10 DEF Pending
  <2>4. ASSUME Kept(i) PROVE Pending(i)' \/ Kept(i)'
    <3>1. Stored(i) /\ Stored(i)' /\ link[i][1] = Named(i)
      BY <1>1, <1>9, <2>4 DEF Kept, Stored
    <3>2. CASE link[i] \in DOMAIN a[1]
      <4>1. \E o \in DOMAIN a[1] : i \in a[1][o].c.txns
        BY <1>4, <2>1, <3>1, <3>2
      <4> QED BY <1>6, <4>1 DEF Pending
    <3>3. CASE link[i] \notin DOMAIN a[1]
      BY <1>1, <1>6, <3>1, <3>3 DEF Kept
    <3> QED BY <3>2, <3>3
  <2> QED BY <2>2, <2>3, <2>4 DEF Placed
<1>14. Covered'
  <2> SUFFICES ASSUME NEW i \in (cursor + 1) .. job.max, Regular(i) PROVE Pending(i)'
    BY <1>1, <1>6, <1>9 DEF Covered
  <2>1. i \in 1 .. job.max /\ i > cursor
    BY <1>10
  <2> QED BY <1>4, <1>6, <2>1 DEF Pending
<1>15. QED
  BY <1>7, <1>8, <1>11, <1>12, <1>13, <1>14 DEF ConversationsInv

\* The conversations without the one that is done.
LEMMA WithoutFacts ==
  ASSUME JobShape, NEW k \in {1, 2}, NEW id
  PROVE  /\ Without(k, id) = <<Without(k, id)[1], Without(k, id)[2]>>
         /\ DOMAIN Without(k, id)[k] = DOMAIN job.todo[k] \ {id}
         /\ \A o \in DOMAIN Without(k, id)[k] : Without(k, id)[k][o] = job.todo[k][o]
         /\ \A j \in {1, 2} : j # k => Without(k, id)[j] = job.todo[j]
         /\ \A j \in {1, 2} : /\ DOMAIN Without(k, id)[j] \subseteq DOMAIN job.todo[j]
                              /\ \A o \in DOMAIN Without(k, id)[j] : Without(k, id)[j][o] = job.todo[j][o]
         /\ \A j \in {1, 2} : \A o \in DOMAIN job.todo[j] : o # id => o \in DOMAIN Without(k, id)[j]
<1> DEFINE t == job.todo
           less == [o \in DOMAIN t[k] \ {id} |-> t[k][o]]
           w == Without(k, id)
<1>1. w = [t EXCEPT ![k] = less] /\ t = <<t[1], t[2]>>
  BY DEF Without, JobShape
<1> HIDE DEF t, less, w
<1>2. w[k] = less /\ (\A j \in {1, 2} : j # k => w[j] = t[j]) /\ w = <<w[1], w[2]>>
  <2>1. DOMAIN t = 1 .. 2 /\ t = [j \in 1 .. 2 |-> t[j]]
    BY <1>1
  <2>2. DOMAIN w = 1 .. 2 /\ w = [j \in 1 .. 2 |-> w[j]]
    BY <1>1, <2>1
  <2>3. w = <<w[1], w[2]>>
    BY <2>2
  <2> QED BY <1>1, <2>1, <2>3
<1>3. DOMAIN less = DOMAIN t[k] \ {id} /\ \A o \in DOMAIN less : less[o] = t[k][o]
  BY DEF less
<1>4. QED
  BY <1>2, <1>3 DEF w, t

\* The front of what is to be stored: first the conversations with sessions.
LEMMA FrontFacts ==
  /\ Front1 \in {1, 2}
  /\ DOMAIN job.todo[1] # {} => Front1 = 1
  /\ DOMAIN job.todo[1] = {} => Front1 = 2
BY DEF Front1

\* A conversation of the front is no place of a transaction that is kept.
LEMMA FrontKept ==
  ASSUME TablesOK, PassOK, TodoOK, InPass, NEW id \in DOMAIN job.todo[Front1],
         NEW i \in 1 .. job.max, Regular(i)
  PROVE  /\ Kept(i) => link[i] # id
         /\ i \in TxnIds
         /\ Front1 = 2 => /\ i \notin job.todo[Front1][id].c.txns
                          /\ id # MainId(Named(i))
<1>1. i \in TxnIds /\ Named(i) # NoSid
  BY DEF TablesOK, PassOK, TxnIds, Regular
<1>2. Named(i) \notin InferredSessions
  BY <1>1, NamedKey
<1>3. CASE Front1 = 1
  BY <1>1, <1>3 DEF Kept
<1>4. CASE Front1 = 2
  <2>1. id[1] \in InferredSessions /\ i \notin job.todo[2][id].c.txns
    BY <1>1, <1>4 DEF TodoOK, TodoOthers
  <2>2. Kept(i) => link[i][1] = Named(i)
    BY DEF Kept, Stored
  <2>3. id # MainId(Named(i))
    <3>1. MainId(Named(i))[1] = Named(i)
      BY DEF MainId
    <3> QED BY <3>1, <2>1, <1>2
  <2> QED BY <1>1, <1>2, <1>4, <2>1, <2>2, <2>3
<1>5. QED
  BY <1>3, <1>4, FrontFacts

LEMMA UpsertKeeps ==
  ASSUME ConversationsInv, NEW id, UpsertConversation(id)
  PROVE  ConversationsInv'
<1> DEFINE made == job.todo[Front1][id]
           rec == [txns |-> made.c.txns, count |-> made.c.count, parent |-> made.c.parent, linked |-> made.linked]
<1>1. /\ UNCHANGED <<txns, turnRows, link, cursor, version, loop, failedVars, wiped>>
      /\ job.pc = "upsert" /\ id \in DOMAIN job.todo[Front1]
      /\ convs' = [o \in DOMAIN convs \cup {id} |-> IF o = id THEN rec ELSE convs[o]]
      /\ job' = [job EXCEPT !.pc = "turns", !.cur = id]
  BY DEF UpsertConversation, Upserting, loopVars, cvHistory
<1>2. TablesOK /\ JobShape /\ PassOK /\ ListsOK /\ TodoOK /\ InPass
  BY <1>1 DEF ConversationsInv, InPass
<1>3. /\ job' = [pc |-> job'.pc, loop |-> job'.loop, rebuild |-> job'.rebuild, max |-> job'.max,
                 new |-> job'.new, todo |-> job'.todo, cur |-> job'.cur]
      /\ job'.pc = "turns" /\ job'.rebuild = job.rebuild /\ job'.max = job.max /\ job'.todo = job.todo
      /\ job'.cur = id
  BY <1>1, <1>2 DEF JobShape
<1>4. JobShape' /\ TablesOK' /\ InPass'
  BY <1>1, <1>2, <1>3 DEF JobShape, TablesOK, TxnIds, InPass
<1>5. PassOK' /\ (Excused' <=> Excused)
  BY <1>1, <1>2, <1>3, <1>4 DEF PassOK, Excused, InPass
<1>6. \A i : (Regular(i)' <=> Regular(i)) /\ (IsMain(i)' <=> IsMain(i)) /\ Named(i)' = Named(i)
  BY <1>1, SameRows
<1>7. /\ DOMAIN convs' = DOMAIN convs \cup {id} /\ convs'[id] = rec
      /\ \A o \in DOMAIN convs : o # id => convs'[o] = convs[o]
  <2> HIDE DEF rec
  <2> QED BY <1>1
<1>8. convs'[id].txns = made.c.txns /\ convs'[id].count = made.c.count /\ convs'[id].linked = made.linked
  <2> HIDE DEF made
  <2> QED BY <1>7
<1> HIDE DEF rec
<1>9. TodoOK'
  <2>1. TodoNamed' /\ TodoOthers' /\ TodoTurns'
    BY <1>2, <1>3, <1>6 DEF TodoOK, TodoNamed, TodoOthers, TodoTurns
  <2>2. CurrentOK'
    <3>1. Front1' = Front1
      BY <1>3 DEF Front1
    <3> QED BY <1>1, <1>3, <1>7, <1>8, <3>1 DEF CurrentOK
  <2> QED BY <2>1, <2>2 DEF TodoOK
<1>10. ListsOK'
  <2>1. Listed \subseteq Listed'
    BY <1>1, <1>3, <1>7 DEF Listed, failedVars
  <2>2. made.linked \subseteq Listed
    BY <1>1, <1>2, FrontFacts DEF ListsOK
  <2>3. ASSUME NEW o \in DOMAIN convs' PROVE convs'[o].linked \subseteq Listed'
    <3>1. CASE o = id
      BY <3>1, <1>8, <2>1, <2>2
    <3>2. CASE o # id
      BY <3>2, <1>2, <1>7, <2>1 DEF ListsOK
    <3> QED BY <3>1, <3>2
  <2>4. \A k \in {1, 2} : \A o \in DOMAIN job'.todo[k] : job'.todo[k][o].linked \subseteq Listed'
    BY <1>2, <1>3, <2>1 DEF ListsOK
  <2> QED BY <2>3, <2>4 DEF ListsOK
<1>11. cursor \in Nat /\ Len(txns) \in Nat /\ job.max \in cursor .. Len(txns)
  BY <1>2 DEF TablesOK, PassOK
<1>12. ASSUME NEW i \in 1 .. job.max, Regular(i)
       PROVE  /\ Pending(i)' <=> Pending(i)
              /\ Kept(i) => Kept(i)'
              /\ IsMain(i) /\ InMain(i) => InMain(i)'
  <2>1. Pending(i)' <=> Pending(i)
    BY <1>3 DEF Pending
  <2>2. ASSUME Kept(i) PROVE Kept(i)'
    <3>1. link[i] # id
      BY <1>1, <1>2, <1>12, <2>2, FrontKept
    <3> QED BY <1>1, <1>3, <1>6, <1>7, <2>2, <3>1 DEF Kept, Stored
  <2>3. ASSUME IsMain(i), InMain(i) PROVE InMain(i)'
    <3>1. CASE id = MainId(Named(i))
      <4>1. Front1 = 1
        BY <1>1, <1>2, <1>12, <3>1, FrontKept, FrontFacts
      <4>2. i \in made.c.txns
        BY <1>1, <1>2, <1>12, <2>3, <3>1, <4>1 DEF TodoOK, TodoNamed
      <4> QED BY <1>1, <1>6, <1>7, <1>8, <2>3, <3>1, <4>2 DEF InMain
    <3>2. CASE id # MainId(Named(i))
      BY <1>1, <1>6, <1>7, <2>3, <3>2 DEF InMain
    <3> QED BY <3>1, <3>2
  <2> QED BY <2>1, <2>2, <2>3
<1>13. Placed => Placed'
  <2>1. 1 .. cursor \subseteq 1 .. job.max
    BY <1>11
  <2> QED BY <1>1, <1>6, <1>12, <2>1 DEF Placed, failedVars
<1>14. Covered => Covered'
  <2>1. (cursor + 1) .. job.max \subseteq 1 .. job.max
    BY <1>11
  <2> QED BY <1>1, <1>2, <1>3, <1>6, <1>12, <2>1 DEF Covered, failedVars
<1>15. QED
  BY <1>4, <1>5, <1>9, <1>10, <1>13, <1>14 DEF ConversationsInv

\* The pass goes on without one conversation.
LEMMA GoesOn ==
  ASSUME ConversationsInv, InPass, NEW id \in DOMAIN job.todo[Front1],
         job' = [job EXCEPT !.pc = "upsert", !.cur = NoSid, !.todo = Without(Front1, id)],
         UNCHANGED <<txns, cursor, version, loop, wiped>>, DOMAIN convs \subseteq DOMAIN convs'
  PROVE  /\ JobShape' /\ PassOK' /\ TodoOK' /\ InPass' /\ (Excused' <=> Excused)
         /\ job'.max = job.max /\ job'.todo = Without(Front1, id)
         /\ \A i \in 1 .. job.max : Regular(i) /\ Pending(i) =>
              Pending(i)' \/ i \in job.todo[Front1][id].c.txns
<1> DEFINE w == Without(Front1, id)
<1>1. TablesOK /\ JobShape /\ PassOK /\ TodoOK
  BY DEF ConversationsInv
<1>2. /\ w = <<w[1], w[2]>>
      /\ \A j \in {1, 2} : /\ DOMAIN w[j] \subseteq DOMAIN job.todo[j]
                           /\ \A o \in DOMAIN w[j] : w[j][o] = job.todo[j][o]
      /\ \A j \in {1, 2} : \A o \in DOMAIN job.todo[j] : o # id => o \in DOMAIN w[j]
      /\ \A j \in {1, 2} : j # Front1 => w[j] = job.todo[j]
  BY <1>1, FrontFacts, WithoutFacts
<1> HIDE DEF w
<1>3. /\ job' = [pc |-> job'.pc, loop |-> job'.loop, rebuild |-> job'.rebuild, max |-> job'.max,
                 new |-> job'.new, todo |-> job'.todo, cur |-> job'.cur]
      /\ job'.pc = "upsert" /\ job'.rebuild = job.rebuild /\ job'.max = job.max /\ job'.todo = w
  BY <1>1 DEF JobShape, w
<1>4. JobShape' /\ InPass' /\ (Excused' <=> Excused)
  BY <1>1, <1>2, <1>3 DEF JobShape, InPass, Excused
<1>5. PassOK'
  BY <1>1, <1>3, <1>4 DEF PassOK, InPass
<1>6. \A i : (Regular(i)' <=> Regular(i)) /\ (IsMain(i)' <=> IsMain(i)) /\ Named(i)' = Named(i)
  BY SameRows
<1>7. TodoNamed /\ TodoOthers /\ TodoTurns
  BY <1>1 DEF TodoOK
<1>8. TodoNamed'
  <2>1. ASSUME NEW i \in 1 .. job.max, Regular(i)
        PROVE  /\ \A o \in DOMAIN w[1] : i \in w[1][o].c.txns =>
                    /\ o[1] = Named(i)
                    /\ IsMain(i) => o = MainId(Named(i))
                    /\ \A p \in DOMAIN w[1] : i \in w[1][p].c.txns => p = o
               /\ IsMain(i) /\ MainId(Named(i)) \in DOMAIN w[1] => i \in w[1][MainId(Named(i))].c.txns
    BY <1>2, <1>7, <2>1 DEF TodoNamed
  <2> QED BY <1>3, <1>6, <2>1 DEF TodoNamed
<1>9. TodoOthers'
  BY <1>2, <1>3, <1>6, <1>7 DEF TodoOthers
<1>10. TodoTurns'
  <2>1. \A k \in {1, 2} : \A o \in DOMAIN w[k] : DOMAIN w[k][o].c.turns = 1 .. w[k][o].c.count
    BY <1>2, <1>7 DEF TodoTurns
  <2> QED BY <1>3, <2>1 DEF TodoTurns
<1>11. CurrentOK'
  BY <1>3 DEF CurrentOK
<1>12. ASSUME NEW i \in 1 .. job.max, Regular(i), Pending(i)
       PROVE  Pending(i)' \/ i \in job.todo[Front1][id].c.txns
  <2>1. PICK o \in DOMAIN job.todo[1] : i \in job.todo[1][o].c.txns
    BY <1>12 DEF Pending
  <2>2. Front1 = 1
    BY <2>1, FrontFacts
  <2>3. CASE o = id
    BY <2>1, <2>2, <2>3
  <2>4. CASE o # id
    <3>1. o \in DOMAIN w[1] /\ w[1][o] = job.todo[1][o]
      BY <1>2, <2>1, <2>4
    <3> QED BY <1>3, <2>1, <3>1 DEF Pending
  <2> QED BY <2>3, <2>4
<1>13. QED
  BY <1>3, <1>4, <1>5, <1>8, <1>9, <1>10, <1>11, <1>12 DEF TodoOK, w

LEMMA TurnsKeep == ConversationsInv /\ UpsertTurns => ConversationsInv'
<1> SUFFICES ASSUME ConversationsInv, UpsertTurns PROVE ConversationsInv'
  OBVIOUS
<1> DEFINE id == job.cur
           made == job.todo[Front1][id]
           w == Without(Front1, id)
<1>1. /\ UNCHANGED <<txns, convs, cursor, version, loop, unstored, wiped>>
      /\ job.pc = "turns"
      /\ turnRows' = [o \in DOMAIN turnRows \cup {id} |-> IF o = id THEN made.c.turns ELSE turnRows[o]]
      /\ link' = [i \in DOMAIN link |-> IF i \in made.c.txns THEN id ELSE link[i]]
      /\ lost' = lost \ made.c.txns /\ torn' = torn \ made.c.txns
      /\ job' = [job EXCEPT !.pc = "upsert", !.cur = NoSid, !.todo = w]
  BY DEF UpsertTurns, loopVars
<1>2. TablesOK /\ JobShape /\ PassOK /\ ListsOK /\ TodoOK /\ InPass
  BY <1>1 DEF ConversationsInv, InPass
<1>3. /\ id \in DOMAIN job.todo[Front1] /\ id \in DOMAIN convs
      /\ convs[id].txns = made.c.txns /\ convs[id].count = made.c.count
      /\ DOMAIN made.c.turns = 1 .. made.c.count
  BY <1>1, <1>2, FrontFacts DEF TodoOK, CurrentOK, TodoTurns
<1>4. /\ JobShape' /\ PassOK' /\ TodoOK' /\ InPass' /\ (Excused' <=> Excused)
      /\ job'.max = job.max /\ job'.todo = w
      /\ \A i \in 1 .. job.max : Regular(i) /\ Pending(i) => Pending(i)' \/ i \in made.c.txns
  BY <1>1, <1>2, <1>3, GoesOn
<1>5. /\ \A j \in {1, 2} : /\ DOMAIN w[j] \subseteq DOMAIN job.todo[j]
                           /\ \A o \in DOMAIN w[j] : w[j][o] = job.todo[j][o]
      /\ \A j \in {1, 2} : \A o \in DOMAIN job.todo[j] : o # id => o \in DOMAIN w[j]
      /\ DOMAIN w[Front1] = DOMAIN job.todo[Front1] \ {id}
  BY <1>2, FrontFacts, WithoutFacts
<1> HIDE DEF w, made, id
<1>6. /\ DOMAIN link = TxnIds
      /\ \A i \in TxnIds : link'[i] = IF i \in made.c.txns THEN id ELSE link[i]
  BY <1>1, <1>2 DEF TablesOK
<1>7. TablesOK'
  <2>1. link' = [i \in TxnIds |-> link'[i]]
    BY <1>1, <1>6
  <2> QED BY <1>1, <1>2, <2>1 DEF TablesOK, TxnIds
<1>8. \A i : (Regular(i)' <=> Regular(i)) /\ (IsMain(i)' <=> IsMain(i)) /\ Named(i)' = Named(i)
  BY <1>1, SameRows
<1>9. ListsOK'
  <2>1. Listed' = Listed
    <3>1. Listed' = DOMAIN convs \cup unstored \cup DOMAIN w[1] \cup DOMAIN w[2]
      BY <1>1, <1>4 DEF Listed
    <3>2. DOMAIN w[1] \subseteq DOMAIN job.todo[1] /\ DOMAIN w[2] \subseteq DOMAIN job.todo[2]
      BY <1>5
    <3>3. DOMAIN job.todo[1] \subseteq DOMAIN w[1] \cup {id} /\ DOMAIN job.todo[2] \subseteq DOMAIN w[2] \cup {id}
      BY <1>5
    <3> QED BY <1>3, <3>1, <3>2, <3>3 DEF Listed
  <2>2. \A k \in {1, 2} : \A o \in DOMAIN w[k] : w[k][o].linked \subseteq Listed
    BY <1>2, <1>5 DEF ListsOK
  <2> QED BY <1>1, <1>2, <1>4, <2>1, <2>2 DEF ListsOK
<1>10. cursor \in Nat /\ Len(txns) \in Nat /\ job.max \in cursor .. Len(txns) /\ TxnIds = 1 .. Len(txns)
  BY <1>2 DEF TablesOK, PassOK, TxnIds
<1>11. /\ DOMAIN turnRows' = DOMAIN turnRows \cup {id} /\ DOMAIN turnRows'[id] = 1 .. made.c.count
       /\ \A o \in DOMAIN turnRows : o # id => turnRows'[o] = turnRows[o]
  BY <1>1, <1>3
<1>12. ASSUME NEW i \in 1 .. job.max, Regular(i), i \in made.c.txns
       PROVE  Kept(i)' /\ (IsMain(i) => InMain(i)')
  <2>1. Front1 = 1 /\ i \in TxnIds
    BY <1>2, <1>3, <1>12, FrontKept, FrontFacts DEF made
  <2>2. id[1] = Named(i) /\ (IsMain(i) => id = MainId(Named(i)))
    BY <1>2, <1>3, <1>12, <2>1 DEF TodoOK, TodoNamed, made
  <2>3. link'[i] = id
    BY <1>6, <1>12, <2>1
  <2>4. Stored(i)'
    BY <1>1, <1>3, <1>8, <1>11, <1>12, <2>2, <2>3 DEF Stored
  <2>5. id \notin DOMAIN job'.todo[1]
    BY <1>4, <1>5, <2>1
  <2> QED BY <1>1, <1>3, <1>8, <1>12, <2>2, <2>3, <2>4, <2>5 DEF Kept, InMain
<1>13. ASSUME NEW i \in 1 .. job.max, Regular(i), i \notin made.c.txns
       PROVE  /\ Pending(i) => Pending(i)'
              /\ Kept(i) => Kept(i)'
              /\ InMain(i) => InMain(i)'
  <2>1. i \in TxnIds /\ link'[i] = link[i] /\ (Kept(i) => link[i] # id)
    BY <1>2, <1>3, <1>6, <1>13, FrontKept
  <2>2. Kept(i) => Kept(i)'
    <3> SUFFICES ASSUME Kept(i) PROVE Kept(i)'
      OBVIOUS
    <3>1. turnRows'[link[i]] = turnRows[link[i]]
      BY <1>11, <2>1 DEF Kept, Stored
    <3>2. link[i] \notin DOMAIN job'.todo[1]
      BY <1>4, <1>5 DEF Kept
    <3> QED BY <1>1, <1>8, <1>11, <2>1, <3>1, <3>2 DEF Kept, Stored
  <2>3. InMain(i) => InMain(i)'
    BY <1>1, <1>8, <2>1 DEF InMain
  <2> QED BY <1>4, <1>13, <2>2, <2>3
<1>14. ASSUME NEW i \in 1 .. job.max, Regular(i)
       PROVE  /\ i \in lost \/ Pending(i) \/ Kept(i) => i \in lost' \/ Pending(i)' \/ Kept(i)'
              /\ i \in torn => i \in torn' \/ Kept(i)'
              /\ IsMain(i) /\ (i \in lost \/ InMain(i)) => i \in lost' \/ InMain(i)'
  BY <1>1, <1>12, <1>13, <1>14
<1>15. Placed => Placed'
  <2>1. 1 .. cursor \subseteq 1 .. job.max
    BY <1>10
  <2> QED BY <1>1, <1>8, <1>14, <2>1 DEF Placed
<1>16. Covered => Covered'
  <2>1. (cursor + 1) .. job.max \subseteq 1 .. job.max
    BY <1>10
  <2> QED BY <1>1, <1>2, <1>4, <1>8, <1>14, <2>1 DEF Covered
<1>17. QED
  BY <1>4, <1>7, <1>9, <1>15, <1>16 DEF ConversationsInv

LEMMA FailsKeep == ConversationsInv /\ UpsertFails => ConversationsInv'
<1> SUFFICES ASSUME ConversationsInv, UpsertFails PROVE ConversationsInv'
  OBVIOUS
<1>1. /\ UNCHANGED <<txns, convs, turnRows, link, cursor, version, loop, torn, wiped>> /\ InPass
  BY DEF UpsertFails, loopVars, tableVars, InPass
<1>2. PICK id \in DOMAIN job.todo[Front1] :
        /\ lost' = lost \cup job.todo[Front1][id].c.txns
        /\ unstored' = unstored \cup {id}
        /\ job' = [job EXCEPT !.pc = "upsert", !.cur = NoSid, !.todo = Without(Front1, id)]
  BY DEF UpsertFails
<1> DEFINE made == job.todo[Front1][id]
           w == Without(Front1, id)
<1>3. TablesOK /\ JobShape /\ PassOK /\ ListsOK /\ TodoOK
  BY DEF ConversationsInv
<1>4. /\ JobShape' /\ PassOK' /\ TodoOK' /\ InPass' /\ (Excused' <=> Excused)
      /\ job'.max = job.max /\ job'.todo = w
      /\ \A i \in 1 .. job.max : Regular(i) /\ Pending(i) => Pending(i)' \/ i \in made.c.txns
  BY <1>1, <1>2, GoesOn
<1>5. /\ \A j \in {1, 2} : /\ DOMAIN w[j] \subseteq DOMAIN job.todo[j]
                           /\ \A o \in DOMAIN w[j] : w[j][o] = job.todo[j][o]
      /\ \A j \in {1, 2} : \A o \in DOMAIN job.todo[j] : o # id => o \in DOMAIN w[j]
  BY <1>3, FrontFacts, WithoutFacts
<1> HIDE DEF w, made
<1>6. TablesOK'
  BY <1>1, <1>3 DEF TablesOK, TxnIds
<1>7. \A i : (Regular(i)' <=> Regular(i)) /\ (IsMain(i)' <=> IsMain(i)) /\ Named(i)' = Named(i)
  BY <1>1, SameRows
<1>8. ListsOK'
  <2>1. Listed \subseteq Listed'
    <3>1. Listed' = DOMAIN convs \cup unstored' \cup DOMAIN w[1] \cup DOMAIN w[2]
      BY <1>1, <1>4 DEF Listed
    <3>2. DOMAIN job.todo[1] \subseteq DOMAIN w[1] \cup {id} /\ DOMAIN job.todo[2] \subseteq DOMAIN w[2] \cup {id}
      BY <1>5
    <3> QED BY <1>2, <3>1, <3>2 DEF Listed
  <2>2. \A k \in {1, 2} : \A o \in DOMAIN w[k] : w[k][o].linked \subseteq Listed
    BY <1>3, <1>5 DEF ListsOK
  <2>3. \A o \in DOMAIN convs : convs[o].linked \subseteq Listed
    BY <1>3 DEF ListsOK
  <2> HIDE DEF Listed
  <2> QED BY <1>1, <1>4, <2>1, <2>2, <2>3 DEF ListsOK
<1>9. cursor \in Nat /\ Len(txns) \in Nat /\ job.max \in cursor .. Len(txns)
  BY <1>1, <1>3 DEF TablesOK, PassOK
<1>10. ASSUME NEW i \in 1 .. job.max, Regular(i)
       PROVE  /\ i \in lost => i \in lost'
              /\ Pending(i) => Pending(i)' \/ i \in lost'
              /\ Kept(i) => Kept(i)'
              /\ InMain(i) => InMain(i)'
  <2>1. Pending(i) => Pending(i)' \/ i \in lost'
    BY <1>2, <1>4, <1>10 DEF made
  <2>2. DOMAIN w[1] \subseteq DOMAIN job.todo[1]
    BY <1>5
  <2>3. Kept(i) => Kept(i)'
    BY <1>1, <1>4, <1>7, <2>2 DEF Kept, Stored
  <2>4. InMain(i) => InMain(i)'
    BY <1>1, <1>7 DEF InMain
  <2> QED BY <1>2, <2>1, <2>3, <2>4
<1>11. Placed => Placed'
  <2>1. 1 .. cursor \subseteq 1 .. job.max
    BY <1>9
  <2> QED BY <1>1, <1>7, <1>10, <2>1 DEF Placed
<1>12. Covered => Covered'
  <2>1. (cursor + 1) .. job.max \subseteq 1 .. job.max
    BY <1>9
  <2> QED BY <1>1, <1>4, <1>7, <1>10, <2>1 DEF Covered
<1>13. QED
  BY <1>4, <1>6, <1>8, <1>11, <1>12 DEF ConversationsInv

LEMMA AdvanceKeeps == ConversationsInv /\ Advance => ConversationsInv'
<1> SUFFICES ASSUME ConversationsInv, Advance PROVE ConversationsInv'
  OBVIOUS
<1>1. /\ UNCHANGED <<txns, convs, turnRows, link, version, loop, failedVars, wiped>>
      /\ job.pc = "upsert" /\ ~Upserting /\ cursor' = job.max /\ Finish
  BY DEF Advance, loopVars, cvHistory
<1>2. TablesOK /\ JobShape /\ PassOK /\ ListsOK /\ InPass
  BY <1>1 DEF ConversationsInv, InPass
<1>3. DOMAIN job.todo[1] = {} /\ DOMAIN job.todo[2] = {}
  BY <1>1, FrontFacts DEF Upserting
<1>4. /\ JobShape' /\ DOMAIN job'.todo[1] = {} /\ DOMAIN job'.todo[2] = {}
      /\ IF job.rebuild THEN job'.pc = "version" /\ job'.rebuild = job.rebuild
                        ELSE job'.pc = "none" /\ job'.rebuild = FALSE
  BY <1>1, <1>2, <1>3, FinishedJob
<1>5. ~InPass' /\ job'.pc \in {"version", "none"} /\ job'.rebuild = job.rebuild
  BY <1>2, <1>4 DEF InPass, JobShape
<1>6. cursor \in Nat /\ Len(txns) \in Nat /\ job.max \in cursor .. Len(txns)
  BY <1>2 DEF TablesOK, PassOK
<1>7. TablesOK'
  BY <1>1, <1>2, <1>6 DEF TablesOK, TxnIds
<1>8. PassOK' /\ (~Excused' => ~Excused)
  BY <1>1, <1>2, <1>4, <1>5 DEF InPass, PassOK, Excused
<1>9. \A i : (Regular(i)' <=> Regular(i)) /\ (IsMain(i)' <=> IsMain(i)) /\ Named(i)' = Named(i)
  BY <1>1, SameRows
<1>10. ListsOK'
  BY <1>1, <1>2, <1>3, <1>4 DEF ListsOK, Listed, failedVars
<1>11. \A i : ~Pending(i) /\ (Kept(i) => Kept(i)') /\ (InMain(i) => InMain(i)')
              /\ (Kept(i) /\ IsMain(i) => InMain(i))
  <2>1. \A i : ~Pending(i)
    BY <1>3 DEF Pending
  <2>2. \A i : (Kept(i) => Kept(i)') /\ (InMain(i) => InMain(i)')
    BY <1>1, <1>4, <1>9 DEF Kept, Stored, InMain
  <2>3. \A i : Kept(i) /\ IsMain(i) => InMain(i)
    BY DEF Kept, Stored, InMain
  <2> QED BY <2>1, <2>2, <2>3
<1>12. Placed /\ Covered => Placed'
  <2> SUFFICES ASSUME Placed, Covered, NEW i \in 1 .. job.max, Regular(i)
               PROVE  /\ i \in lost \/ i \in torn \/ Pending(i)' \/ Kept(i)'
                      /\ IsMain(i) => i \in lost \/ InMain(i)'
    BY <1>1, <1>9 DEF Placed, failedVars
  <2>1. CASE i \in 1 .. cursor
    BY <1>11, <2>1 DEF Placed
  <2>2. CASE i \in (cursor + 1) .. job.max
    BY <1>2, <1>11, <2>2 DEF Covered
  <2> QED BY <1>6, <2>1, <2>2
<1>13. QED
  BY <1>4, <1>5, <1>7, <1>8, <1>10, <1>12 DEF ConversationsInv, TodoOK, Covered

LEMMA DeleteKeeps == ConversationsInv /\ DeleteAllConversations => ConversationsInv'
<1> SUFFICES ASSUME ConversationsInv, DeleteAllConversations PROVE ConversationsInv'
  OBVIOUS
<1>1. /\ UNCHANGED <<txns, cursor, version, loop, wiped>>
      /\ job.pc = "delete" /\ convs' = EmptyFcn /\ link' = [i \in DOMAIN link |-> NoSid]
      /\ job' = [job EXCEPT !.pc = "reset"]
  BY DEF DeleteAllConversations, loopVars, cvHistory
<1>2. TablesOK /\ JobShape /\ PassOK
  BY DEF ConversationsInv
<1>3. /\ job' = [pc |-> job'.pc, loop |-> job'.loop, rebuild |-> job'.rebuild, max |-> job'.max,
                 new |-> job'.new, todo |-> job'.todo, cur |-> job'.cur]
      /\ job'.pc = "reset" /\ job'.rebuild = job.rebuild /\ job'.todo = job.todo
  BY <1>1, <1>2 DEF JobShape
<1>4. JobShape' /\ ~InPass' /\ ~InPass /\ Excused'
  BY <1>1, <1>2, <1>3 DEF JobShape, InPass, Excused
<1>5. DOMAIN link = TxnIds /\ DOMAIN convs' = {}
  BY <1>1, <1>2 DEF TablesOK, EmptyFcn
<1>6. TablesOK'
  BY <1>1, <1>2, <1>5 DEF TablesOK, TxnIds
<1>7. PassOK'
  BY <1>1, <1>2, <1>3, <1>4, <1>5 DEF PassOK, InPass
<1>8. ListsOK'
  BY <1>2, <1>3, <1>4, <1>5 DEF ListsOK, PassOK
<1>9. QED
  BY <1>4, <1>6, <1>7, <1>8 DEF ConversationsInv, TodoOK

LEMMA ResetKeeps ==
  ASSUME ConversationsInv, NEW fails \in BOOLEAN, ResetCursor(fails)
  PROVE  ConversationsInv'
<1>1. /\ UNCHANGED <<txns, convs, turnRows, link, version, loop>>
      /\ job.pc = "reset" /\ job' = [job EXCEPT !.pc = "scan"]
  BY DEF ResetCursor, loopVars
<1>2. TablesOK /\ JobShape /\ PassOK
  BY DEF ConversationsInv
<1>3. /\ job' = [pc |-> job'.pc, loop |-> job'.loop, rebuild |-> job'.rebuild, max |-> job'.max,
                 new |-> job'.new, todo |-> job'.todo, cur |-> job'.cur]
      /\ job'.pc = "scan" /\ job'.rebuild = job.rebuild /\ job'.todo = job.todo
  BY <1>1, <1>2 DEF JobShape
<1>4. wiped' \in BOOLEAN /\ (wiped' \/ cursor' = 0) /\ cursor' \in {0, cursor}
  BY DEF ResetCursor
<1>5. JobShape' /\ ~InPass' /\ ~InPass /\ TablesOK'
  BY <1>1, <1>2, <1>3, <1>4 DEF JobShape, InPass, TablesOK, TxnIds
<1>6. PassOK'
  BY <1>1, <1>2, <1>3, <1>5 DEF PassOK, InPass
<1>7. DOMAIN convs' = {} /\ DOMAIN job'.todo[1] = {} /\ DOMAIN job'.todo[2] = {}
  BY <1>1, <1>2, <1>3, <1>5 DEF PassOK
<1>8. ListsOK'
  BY <1>7 DEF ListsOK
<1>9. ~Excused' => Placed'
  BY <1>4 DEF Excused, Placed
<1>10. QED
  BY <1>5, <1>6, <1>8, <1>9 DEF ConversationsInv, TodoOK, Covered

LEMMA CrashKeeps == ConversationsInv /\ Crash => ConversationsInv'
<1> SUFFICES ASSUME ConversationsInv, Crash PROVE ConversationsInv'
  OBVIOUS
<1>1. /\ UNCHANGED <<txns, convs, turnRows, link, cursor, version, lost>>
      /\ loop' = "rebuild" /\ job' = NoJob
      /\ wiped' = (wiped \/ (job.pc = "reset" /\ version = "current"))
      /\ torn' = torn \cup Undone(1) \cup Undone(2)
      /\ unstored' = unstored \cup DOMAIN job.todo[1] \cup DOMAIN job.todo[2]
  BY DEF Crash, tableVars
<1>2. TablesOK /\ JobShape /\ PassOK /\ ListsOK
  BY DEF ConversationsInv
<1>3. JobShape' /\ ~InPass' /\ TablesOK' /\ PassOK'
  BY <1>1, <1>2, NoJobShape DEF JobShape, InPass, TablesOK, TxnIds, PassOK
<1>4. DOMAIN job'.todo[1] = {} /\ DOMAIN job'.todo[2] = {}
  BY <1>1, NoJobShape
<1>5. ListsOK'
  <2>1. Listed' = Listed
    BY <1>1, <1>4 DEF Listed
  <2> QED BY <1>1, <1>2, <1>4, <2>1 DEF ListsOK
<1>6. ~Excused' => ~Excused
  BY <1>1, <1>2, NoJobShape DEF Excused, TablesOK, PassOK
<1>7. \A i : (Regular(i)' <=> Regular(i)) /\ (IsMain(i)' <=> IsMain(i)) /\ Named(i)' = Named(i)
  BY <1>1, SameRows
<1>8. Placed => Placed'
  <2>1. \A i : Pending(i) => i \in torn'
    BY <1>1 DEF Pending, Undone
  <2>2. \A i : (Kept(i) => Kept(i)') /\ (InMain(i) => InMain(i)')
    BY <1>1, <1>4, <1>7 DEF Kept, Stored, InMain
  <2>3. torn \subseteq torn'
    BY <1>1
  <2> QED BY <1>1, <1>7, <2>1, <2>2, <2>3 DEF Placed
<1>9. QED
  BY <1>3, <1>5, <1>6, <1>8 DEF ConversationsInv, TodoOK, Covered
------------------------------------------------------------------------------
(* What the assembler promises.                                            *)

LEMMA ConversationsStart == ConversationsInit => ConversationsInv
<1> SUFFICES ASSUME ConversationsInit PROVE ConversationsInv
  OBVIOUS
<1>1. /\ txns = <<>> /\ convs = EmptyFcn /\ link = <<>> /\ cursor = 0 /\ wiped = FALSE
      /\ version \in {"old", "current"} /\ loop = "rebuild" /\ job = NoJob
  BY DEF ConversationsInit
<1>2. JobShape /\ ~InPass /\ DOMAIN convs = {} /\ DOMAIN job.todo[1] = {} /\ DOMAIN job.todo[2] = {}
  BY <1>1, NoJobShape DEF JobShape, InPass, EmptyFcn
<1>3. TablesOK
  <2>1. txns \in Seq(Recorded) /\ Len(txns) = 0
    BY <1>1
  <2>2. TxnIds = {}
    BY <2>1 DEF TxnIds
  <2>3. link \in Seq({}) /\ Len(link) = 0
    BY <1>1
  <2>4. link \in [1 .. 0 -> {}]
    BY <2>3
  <2>5. link = [i \in TxnIds |-> link[i]]
    BY <2>2, <2>4
  <2>6. version \in {"old", "current"} /\ wiped \in BOOLEAN /\ cursor = 0
    BY <1>1
  <2>7. cursor \in 0 .. Len(txns)
    BY <2>1, <2>6
  <2> QED BY <2>1, <2>5, <2>6, <2>7 DEF TablesOK
<1>4. PassOK
  BY <1>1, <1>2, NoJobShape DEF PassOK, InPass
<1>5. ListsOK
  BY <1>2 DEF ListsOK
<1>6. Placed /\ Covered /\ TodoOK
  BY <1>1, <1>2 DEF Placed, Covered, TodoOK
<1>7. QED
  BY <1>2, <1>3, <1>4, <1>5, <1>6 DEF ConversationsInv

LEMMA ConversationsStep == ConversationsInv /\ [ConversationsNext]_conversationVars => ConversationsInv'
<1> SUFFICES ASSUME ConversationsInv, [ConversationsNext]_conversationVars PROVE ConversationsInv'
  OBVIOUS
<1>1. CASE JobStep
  <2>1. CASE LoadNewTransactions
    BY <2>1, LoadKeeps
  <2>2. ASSUME NEW pref \in {r.key : r \in Rows}, Reload(FALSE, pref) PROVE ConversationsInv'
    BY <2>2, ReloadKeeps
  <2>3. ASSUME NEW id \in DOMAIN job.todo[Front1], UpsertConversation(id) PROVE ConversationsInv'
    BY <2>3, UpsertKeeps
  <2>4. CASE ResetCursor(FALSE)
    BY <2>4, ResetKeeps
  <2> QED BY <1>1, <2>1, <2>2, <2>3, <2>4, TurnsKeep, AdvanceKeeps, DeleteKeeps, NoteVersionKeeps DEF JobStep
<1>2. CASE LoopStep
  <2>1. CASE Event \/ Fire
    BY <2>1, IdleStep DEF Event, Fire, tableVars, cvHistory
  <2>2. CASE Trigger
    <3>1. /\ StartJob(TRUE, "scan") /\ loop # "rebuild" /\ UNCHANGED loop
          /\ UNCHANGED <<txns, convs, turnRows, link, cursor, version, failedVars, wiped>>
      BY <2>2 DEF Trigger, LoopIdle, tableVars, cvHistory
    <3> QED BY <3>1, TriggerKeeps
  <2> QED BY <1>2, <2>1, <2>2, StartKeeps DEF LoopStep
<1>3. ASSUME NEW row \in Rows, Commit(row) PROVE ConversationsInv'
  BY <1>3, CommitKeeps
<1>4. CASE LoadFails
  BY <1>4, LoadKeeps
<1>5. CASE Reload(TRUE, NoSid)
  BY <1>5, ReloadKeeps
<1>6. CASE UpsertFails
  BY <1>6, FailsKeep
<1>7. CASE ResetCursor(TRUE)
  BY <1>7, ResetKeeps
<1>8. CASE Crash
  BY <1>8, CrashKeeps
<1>9. CASE Rebuild
  BY <1>9, RebuildKeeps
<1>10. ASSUME NEW on \in BOOLEAN, SetEnabled(on) PROVE ConversationsInv'
  BY <1>10, IdleStep DEF SetEnabled, tableVars, cvHistory, loopVars
<1>11. ASSUME NEW to, ChangeEndpointRule(to) PROVE ConversationsInv'
  BY <1>11, IdleStep DEF ChangeEndpointRule, tableVars, cvHistory, loopVars
<1>12. CASE CreateEndpointRule \/ DeleteEndpointRule \/ \E to \in {"on", "off"} : UpdateEndpointRule(to)
  BY <1>11, <1>12 DEF CreateEndpointRule, DeleteEndpointRule, UpdateEndpointRule
<1>13. CASE UNCHANGED conversationVars
  BY <1>13, IdleStep DEF conversationVars, tableVars, cvHistory, loopVars
<1>14. QED
  BY <1>1, <1>2, <1>3, <1>4, <1>5, <1>6, <1>7, <1>8, <1>9, <1>10, <1>12, <1>13 DEF ConversationsNext

(* Whatever the assembler does, ConversationsInv holds: what a pass has to *)
(* store is what SessionsComplete needs it to be, and every transaction    *)
(* behind the cursor is where it should be or on its way there.            *)
THEOREM ConversationsSound == ConversationsSpec => []ConversationsInv
BY ConversationsStart, ConversationsStep, PTL DEF ConversationsSpec

(* Between passes every regular transaction behind the cursor of           *)
(* processNewTransactionsLocked is in a conversation of its session, which *)
(* is stored with all its turns: for any clients, sessions and number of   *)
(* transactions, and any order of commits, passes, rebuilds, failed        *)
(* statements and crashes.                                                 *)
THEOREM SessionsStayComplete == ConversationsSpec => []SessionsComplete
<1>1. ConversationsInv => SessionsComplete
  <2> SUFFICES ASSUME ConversationsInv, job.pc = "none", loop = "run", ~wiped
               PROVE  /\ \A i \in 1 .. cursor : Regular(i) /\ i \notin lost =>
                           /\ Threads(i) = {"main"} => link[i] = MainId(Named(i))
                           /\ i \notin torn \/ Threads(i) = {"main"} =>
                                link[i] \in DOMAIN convs /\ i \in convs[link[i]].txns
                           /\ i \notin torn => /\ link[i][1] = Named(i) /\ link[i] \in DOMAIN turnRows
                                               /\ DOMAIN turnRows[link[i]] = 1 .. convs[link[i]].count
                      /\ \A id \in DOMAIN convs : convs[id].linked \subseteq DOMAIN convs \cup unstored
    BY DEF SessionsComplete
  <2>1. ~Excused /\ DOMAIN job.todo[1] = {} /\ DOMAIN job.todo[2] = {}
    BY DEF ConversationsInv, PassOK, Excused, InPass
  <2>2. Placed /\ ListsOK
    BY <2>1 DEF ConversationsInv
  <2>3. \A id \in DOMAIN convs : convs[id].linked \subseteq DOMAIN convs \cup unstored
    BY <2>1, <2>2 DEF ListsOK, Listed
  <2>4. ASSUME NEW i \in 1 .. cursor, Regular(i), i \notin lost
        PROVE  /\ Threads(i) = {"main"} => link[i] = MainId(Named(i))
               /\ i \notin torn \/ Threads(i) = {"main"} =>
                    link[i] \in DOMAIN convs /\ i \in convs[link[i]].txns
               /\ i \notin torn => /\ link[i][1] = Named(i) /\ link[i] \in DOMAIN turnRows
                                   /\ DOMAIN turnRows[link[i]] = 1 .. convs[link[i]].count
    <3>1. (i \in torn \/ Pending(i) \/ Kept(i)) /\ (IsMain(i) => InMain(i))
      BY <2>2, <2>4 DEF Placed
    <3>2. ~Pending(i)
      BY <2>1 DEF Pending
    <3>3. Threads(i) = {"main"} => InMain(i)
      BY <3>1 DEF IsMain
    <3>4. i \notin torn => Stored(i)
      BY <3>1, <3>2 DEF Kept
    <3> QED BY <3>3, <3>4 DEF InMain, Stored
  <2> QED BY <2>3, <2>4
<1>2. QED
  BY <1>1, ConversationsSound, PTL

=============================================================================
