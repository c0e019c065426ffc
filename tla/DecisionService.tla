-------------------------- MODULE DecisionService --------------------------
(***************************************************************************)
(* What Client.Send promises to the cascade, and nothing of how: a process *)
(* asks one question at a time; the question gets one answer, which is     *)
(* either what the middleware said to that very question, or the default   *)
(* that on_disconnect gives for its kind.                                  *)
(***************************************************************************)
EXTENDS Naturals

CONSTANTS
  Clients,      \* configured middlewares
  Procs,        \* processes that ask
  MaxSends,     \* bound: questions of a process
  Replies,      \* actions a middleware may answer with
  Policy,       \* on_disconnect of each client
  None

VARIABLES
  q,            \* the question a process has open
  n,            \* the number of questions a process has asked
  said,         \* what the middleware said to a process's latest question
  answer        \* what Send returned for it

\* The default action of a request ("deny", "allow") or of a response.
Default(policy, resp) ==
  IF policy = "allow" THEN IF resp THEN "passthrough" ELSE "allow"
                      ELSE IF resp THEN "block" ELSE "deny"

NoQuestion == [open |-> FALSE, c |-> None, resp |-> FALSE]

ServiceInit ==
  /\ q = [p \in Procs |-> NoQuestion]
  /\ n = [p \in Procs |-> 0]
  /\ said = [p \in Procs |-> None]
  /\ answer = [p \in Procs |-> None]

Ask(p, c, resp) ==
  /\ ~q[p].open /\ n[p] < MaxSends
  /\ q' = [q EXCEPT ![p] = [open |-> TRUE, c |-> c, resp |-> resp]]
  /\ n' = [n EXCEPT ![p] = @ + 1]
  /\ said' = [said EXCEPT ![p] = None]
  /\ answer' = [answer EXCEPT ![p] = None]

\* The middleware makes up its mind on an open question, once.
Say(p, a) ==
  /\ q[p].open /\ said[p] = None
  /\ said' = [said EXCEPT ![p] = a]
  /\ UNCHANGED <<q, n, answer>>

Answer(p, d) ==
  /\ q[p].open /\ answer[p] = None
  /\ \/ said[p] # None /\ d = [action |-> said[p], fallback |-> FALSE]
     \/ d = [action |-> Default(Policy[q[p].c], q[p].resp), fallback |-> TRUE]
  /\ answer' = [answer EXCEPT ![p] = d]
  /\ q' = [q EXCEPT ![p] = NoQuestion]
  /\ UNCHANGED <<n, said>>

Decisions == [action : Replies \cup {"allow", "deny", "block", "passthrough"}, fallback : BOOLEAN]

ServiceNext ==
  \/ \E p \in Procs, c \in Clients, resp \in BOOLEAN : Ask(p, c, resp)
  \/ \E p \in Procs, a \in Replies : Say(p, a)
  \/ \E p \in Procs, d \in Decisions : Answer(p, d)

serviceVars == <<q, n, said, answer>>

ServiceSpec == ServiceInit /\ [][ServiceNext]_serviceVars
=============================================================================
