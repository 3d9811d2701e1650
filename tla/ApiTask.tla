------------------------------- MODULE ApiTask -------------------------------
(***************************************************************************)
(* What the resource modules have in common: a run reads, compares and     *)
(* writes by API calls, one after the other, each retried over a transport *)
(* that may lose the request or the reply (RetryCall looks inside a call). *)
(* The run ends in exit_json or fail_json, and runs follow each other.     *)
(* Others - a second play, an administrator, a script - may act between    *)
(* any two requests; the server has no transaction and no lock against it. *)
(*                                                                         *)
(* A request that overtakes the end of its call is left to RetryCall.      *)
(***************************************************************************)
EXTENDS Transport, Resources

CONSTANT MaxOthers \* bound: how often others act during one run

ASSUME MaxOthersAssumption == MaxOthers \in Nat

VARIABLES
  srv,             \* the resource on the server
  want, dry,       \* the module's parameters, and module.check_mode
  pc,              \* the call that comes next, "idle" between runs
  attempt,         \* loop index of retry_call for that call
  read,            \* the resource as the module last read it
  changed,         \* result["changed"]
  outcome, error,  \* "none", "ok" or "failed", and why it failed
  base,            \* history: the resource when the run started, or others acted
  unsure,          \* history: a call of this run met a network error
  others,          \* history: how often others acted during this run
  met              \* history: the parts of what is asked that were so at some moment

run     == <<want, dry, base, others>>
verdict == <<outcome, error>>
vars    == <<srv, run, pc, attempt, read, changed, verdict, unsure, met>>

IfExists == IF srv.exists THEN "ok" ELSE "notfound"

\* Between tasks nothing is remembered: a module is a process of its own.
Idle(s) ==
  /\ srv = s /\ base = s /\ read = s
  /\ want = AnyWant[s.kind] /\ dry = FALSE
  /\ pc = "idle" /\ attempt = 0 /\ changed = FALSE
  /\ outcome = "none" /\ error = "none" /\ unsure = FALSE
  /\ others = 0 /\ met = {}
Forget ==
  /\ outcome # "none" /\ outcome' = "none" /\ error' = "none"
  /\ want' = AnyWant[srv.kind] /\ dry' = FALSE /\ base' = srv /\ read' = srv
  /\ changed' = FALSE /\ unsure' = FALSE /\ others' = 0 /\ met' = {}
  /\ UNCHANGED <<srv, pc, attempt>>

\* A task starts its module, whose first step is at l.
Begin(w, d, l) ==
  /\ pc = "idle" /\ outcome = "none" /\ pc' = l
  /\ want' = w /\ dry' = d /\ met' = AsAsked(w, srv)
  /\ UNCHANGED <<srv, base, others, attempt, read, changed, verdict, unsure>>

\* Somebody else acts while the module runs.
Interfere ==
  /\ pc # "idle" /\ others < MaxOthers /\ others' = others + 1
  /\ srv' \in OfKind[srv.kind] /\ base' = srv'
  /\ met' = met \cup AsAsked(want, srv')
  /\ UNCHANGED <<want, dry, pc, attempt, read, changed, verdict, unsure>>

Goto(l)       == pc' = l /\ UNCHANGED verdict
Exit          == pc' = "idle" /\ outcome' = "ok" /\ UNCHANGED error
FailJson(why) == pc' = "idle" /\ outcome' = "failed" /\ error' = why

\* The next round of retry_call, or the error after the last one.
\* Mutants: one round too many; rounds without end.
NetworkErrorOneMore ==
  /\ unsure' = TRUE /\ UNCHANGED changed
  /\ IF attempt <= MaxAttempts - 1
     THEN attempt' = attempt + 1 /\ UNCHANGED <<pc, verdict>>
     ELSE attempt' = 0 /\ FailJson("network")
NetworkErrorForEver ==
  /\ unsure' = TRUE /\ attempt' = (attempt + 1) % MaxAttempts
  /\ UNCHANGED <<changed, pc, verdict>>
NetworkError ==
  /\ unsure' = TRUE /\ UNCHANGED changed
  /\ IF attempt < MaxAttempts - 1
     THEN attempt' = attempt + 1 /\ UNCHANGED <<pc, verdict>>
     ELSE attempt' = 0 /\ FailJson("network")

\* One request of the call at l: what the server makes of it is class, and if
\* that is "ok" the resource becomes effect. The answer arrives and the module
\* goes on with it; or the request or the answer is lost; or the server turns
\* the request down for a reason of its own; or the answer breaks off, which no
\* retry makes good.
Call(l, class, effect, GoOn) ==
  /\ pc = l
  /\ UNCHANGED run
  /\ LET executed == IF class = "ok" THEN effect ELSE srv
     IN  \/ srv' = executed /\ attempt' = 0 /\ GoOn /\ UNCHANGED unsure
         \/ srv' \in {srv, executed} /\ NetworkError /\ UNCHANGED read
         \/ FailJson("auth") /\ attempt' = 0 /\ UNCHANGED <<srv, read, changed, unsure>>
         \/ srv' = executed /\ FailJson("broken off") /\ attempt' = 0 /\ UNCHANGED <<read, changed, unsure>>
  /\ met' = met \cup AsAsked(want, srv')

\* A read that finds the resource, or finds it missing; the module goes on.
Read(l, class, GoOn) == Call(l, class, srv, read' = srv /\ GoOn)

\* A write: any answer but "ok" fails the module.
Write(l, class, effect, next) ==
  Call(l, class, effect,
       /\ UNCHANGED <<read, changed>>
       /\ IF class # "ok" THEN FailJson(class) ELSE IF next = "exit" THEN Exit ELSE Goto(next))

\* A check of the parameters, before anything is sent.
Check(l, refused, next) ==
  /\ pc = l
  /\ IF refused THEN FailJson("refused") ELSE Goto(next)
  /\ UNCHANGED <<srv, run, attempt, read, changed, unsure, met>>

\* After the comparison: the write at l, unless nothing differs or it is a dry run.
\* Mutant: check mode is not looked at.
DecideAnyway(differs, l) ==
  /\ changed' = (changed \/ differs)
  /\ IF differs THEN Goto(l) ELSE Exit
Decide(differs, l) ==
  /\ changed' = (changed \/ differs)
  /\ IF differs /\ ~dry THEN Goto(l) ELSE Exit

Over == pc = "idle" /\ outcome = "ok"
=============================================================================
