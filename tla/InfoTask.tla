------------------------------- MODULE InfoTask -------------------------------
(***************************************************************************)
(* What the modules that only read have in common: one call after the      *)
(* other, each of which sees the server as it is when the last attempt is  *)
(* answered, and a report put together from the answers. Others change     *)
(* the server between any two calls.                                       *)
(***************************************************************************)
EXTENDS Transport, Resources, Sequences

CONSTANT MaxMoves  \* bound: how often others act during one run

ASSUME MaxMovesAssumption == MaxMoves \in Nat

VARIABLES
  srv,        \* the part of the server the module looks at
  want,       \* the module's parameters
  pc,         \* the call that comes next, "idle" between runs
  report,     \* what has been read so far, the result in the end
  outcome,    \* "none", "ok" (exit_json), or what fail_json was about
  past        \* history: the states srv went through during the run

vars == <<srv, want, pc, report, outcome, past>>

Nothing == [x \in {} |-> x]

\* f with the fields of g added or replaced.
Also(f, g) == [x \in DOMAIN f \cup DOMAIN g |-> IF x \in DOMAIN g THEN g[x] ELSE f[x]]

Begin(w, l, blank) ==
  /\ pc = "idle" /\ pc' = l /\ want' = w
  /\ report' = blank /\ outcome' = "none" /\ past' = <<srv>>
  /\ UNCHANGED srv

Goto(l, r)    == pc' = l /\ report' = r /\ UNCHANGED outcome
Exit(r)       == pc' = "idle" /\ report' = r /\ outcome' = "ok"
FailJson(why) == pc' = "idle" /\ outcome' = why /\ UNCHANGED report

\* The call at l is answered and the module goes on with the answer.
Read(l, GoOn) == pc = l /\ GoOn /\ UNCHANGED <<srv, want, past>>

\* A call ends in an error the module has no use for; the retries of a call are spent.
Turned(why) == pc # "idle" /\ FailJson(why) /\ UNCHANGED <<srv, want, past>>
Unreachable == Turned("network")

\* Others turn srv into one of states.
Operate(states) ==
  /\ pc # "idle" /\ Len(past) <= MaxMoves
  /\ srv' \in states /\ past' = Append(past, srv')
  /\ UNCHANGED <<want, pc, report, outcome>>
=============================================================================
