--------------------------- MODULE AccessControl ---------------------------
(***************************************************************************)
(* What greyproxy promises about access, and nothing of how: no tables,    *)
(* requests, events, buffers or trackers.                                  *)
(*                                                                         *)
(* There is a law, the rules people have made, which they may change at    *)
(* any time.  A connection is let in under a rule that entitles it at that *)
(* moment, turned away if the law refuses it, and held only for want of a  *)
(* rule; somebody who is held may be let in later or turned away without a *)
(* reason.  Whoever takes back a rule owes a cut, and the cut ends every   *)
(* connection that is open under the rule, all at once.                    *)
(*                                                                         *)
(* It is silent where greyproxy is: a rule that lapses ends nothing, and   *)
(* one that is taken back between the grant and the opening is not looked  *)
(* at again.                                                               *)
(***************************************************************************)
EXTENDS Naturals

CONSTANTS Conns, Dests, Patterns, Covers, Specificity, RuleIds, NoRule

VARIABLES
  law,          \* the rules: pattern, action, and whether each is in force
  stage,        \* where each connection is
  asks,         \* the destination it asks for
  under,        \* the rule it was let in under, or NoRule
  owed          \* rules taken back whose connections are still to be cut

theirs == <<stage, asks, under>>
accessVars == <<law, theirs, owed>>

Rule == [is : {"unmade", "inForce", "lapsed", "repealed"}, pat : Patterns, act : {"allow", "deny"}]

Applies(r, d) == law[r].is = "inForce" /\ d \in Covers[law[r].pat]
Weight(r) == Specificity[law[r].pat]

\* The rule lets d in: no deny rule that applies is as specific.
Entitles(r, d) ==
  /\ Applies(r, d) /\ law[r].act = "allow"
  /\ \A s \in RuleIds : Applies(s, d) /\ law[s].act = "deny" => Weight(s) < Weight(r)

\* Some rule keeps d out: no allow rule that applies is more specific.
Refused(d) ==
  \E s \in RuleIds :
    /\ Applies(s, d) /\ law[s].act = "deny"
    /\ \A r \in RuleIds : Applies(r, d) /\ law[r].act = "allow" => Weight(r) <= Weight(s)

\* A rule that people deleted, or that now denies.
TakenBack(r) == law[r].is = "repealed" \/ (law[r].is \in {"inForce", "lapsed"} /\ law[r].act = "deny")
------------------------------------------------------------------------------
AccessInit ==
  /\ law \in [RuleIds -> Rule] /\ \A r \in RuleIds : law[r].is = "unmade"
  /\ stage = [c \in Conns |-> "outside"]
  /\ asks \in [Conns -> Dests]
  /\ under = [c \in Conns |-> NoRule]
  /\ owed = {}

Becomes(c, to) == stage' = [stage EXCEPT ![c] = to]

\* A connection comes, or one that is held is looked at again.
Asking(c, d) ==
  /\ stage[c] = "outside" \/ (stage[c] = "held" /\ asks[c] = d)
  /\ asks' = [asks EXCEPT ![c] = d]

Grant(c, d, r) ==
  /\ Asking(c, d) /\ Entitles(r, d)
  /\ Becomes(c, "granted") /\ under' = [under EXCEPT ![c] = r]
  /\ UNCHANGED <<law, owed>>

Refuse(c, d) ==
  /\ stage[c] = "outside" /\ Asking(c, d) /\ Refused(d)
  /\ Becomes(c, "ended")
  /\ UNCHANGED <<law, under, owed>>

Hold(c, d) ==
  /\ stage[c] = "outside" /\ Asking(c, d) /\ \A r \in RuleIds : ~Applies(r, d)
  /\ Becomes(c, "held")
  /\ UNCHANGED <<law, under, owed>>

TurnAway(c) == stage[c] = "held" /\ Becomes(c, "ended") /\ UNCHANGED <<law, asks, under, owed>>
Open(c) == stage[c] = "granted" /\ Becomes(c, "open") /\ UNCHANGED <<law, asks, under, owed>>
End(c) == stage[c] \in {"open", "cut"} /\ Becomes(c, "ended") /\ UNCHANGED <<law, asks, under, owed>>

\* People change the law.  What is repealed stays so, and whoever takes a rule
\* back owes its connections a cut.
Legislate ==
  /\ law' \in [RuleIds -> Rule]
  /\ \A r \in RuleIds : law[r].is = "repealed" => law'[r] = law[r]
  /\ \A r \in RuleIds : TakenBack(r)' /\ ~TakenBack(r) => law[r].is = "unmade" \/ r \in owed'
  /\ owed \subseteq owed' /\ owed' \subseteq {r \in RuleIds : r \in owed \/ TakenBack(r)'}
  /\ UNCHANGED theirs

\* The cut; another one may be owed for the same rule.
Cut(r) ==
  /\ r \in owed /\ owed' \in {owed, owed \ {r}}
  /\ stage' = [c \in Conns |-> IF stage[c] = "open" /\ under[c] = r THEN "cut" ELSE stage[c]]
  /\ UNCHANGED <<law, asks, under>>

AccessNext ==
  \/ \E c \in Conns, d \in Dests :
       Refuse(c, d) \/ Hold(c, d) \/ \E r \in RuleIds : Grant(c, d, r)
  \/ \E c \in Conns : TurnAway(c) \/ Open(c) \/ End(c)
  \/ Legislate
  \/ \E r \in RuleIds : Cut(r)

AccessSpec == AccessInit /\ [][AccessNext]_accessVars
=============================================================================
