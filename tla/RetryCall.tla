------------------------------ MODULE RetryCall ------------------------------
(***************************************************************************)
(* One API call: retry_call around _request_once (admin plane) or around   *)
(* the attempt of s3_call (S3 plane), against a server reached over a      *)
(* transport that refuses connections, loses replies, answers from a       *)
(* gateway, and may deliver a request only after the client gave up on it. *)
(*                                                                         *)
(* The operation is one of four kinds on one resource, as the server       *)
(* answers them: "get" reads it, "put" creates or overwrites it, "create"  *)
(* refuses an existing one, "delete" refuses a missing one.                *)
(***************************************************************************)
EXTENDS Transport

VARIABLES
  kind,         \* the operation
  refusal,      \* "auth" (401/403) or "permanent" (say 501) whatever is asked,
                \* or "none": the server carries operations out
  present,      \* the resource exists on the server
  pc,           \* the client: "send", "wait", "sleep" or "done"
  attempt,      \* loop index of retry_call
  wire,         \* the current request: "none", "sent", "served"
  reply,        \* the served request's answer, while it travels back
  late,         \* requests given up on that the server may still execute
  applied,      \* times the server carried the operation out
  result        \* what the caller sees, "pending" before

vars == <<kind, refusal, present, pc, attempt, wire, reply, late, applied, result>>

client == <<pc, attempt, result>>
server == <<present, applied>>

Kinds    == {"get", "put", "create", "delete"}
Refusals == {"none", "auth", "permanent"}

\* The server's answer to the operation, as the classifier reads it.
Answer ==
  IF refusal # "none" THEN refusal
  ELSE CASE kind = "put"              -> "ok"
         [] kind = "create"           -> IF present THEN "conflict" ELSE "ok"
         [] kind \in {"get", "delete"} -> IF present THEN "ok" ELSE "notfound"

\* Carrying it out: only an operation answered "ok" changes anything.
Effect ==
  /\ present' = IF Answer # "ok" \/ kind = "get" THEN present ELSE kind # "delete"
  /\ applied' = IF Answer = "ok" THEN applied + 1 ELSE applied

Init ==
  /\ kind \in Kinds /\ refusal \in Refusals /\ present \in BOOLEAN
  /\ pc = "send" /\ attempt = 0
  /\ wire = "none" /\ reply = "none" /\ late = 0
  /\ applied = 0 /\ result = "pending"

Send ==
  /\ pc = "send"
  /\ pc' = "wait" /\ wire' = "sent"
  /\ UNCHANGED <<kind, refusal, server, attempt, reply, late, result>>

\* The server executes the current request.
Serve ==
  /\ wire = "sent"
  /\ wire' = "served" /\ reply' = Answer
  /\ Effect
  /\ UNCHANGED <<kind, refusal, client, late>>

\* A request the client no longer waits for arrives after all.
ServeLate ==
  /\ late > 0
  /\ late' = late - 1
  /\ Effect
  /\ UNCHANGED <<kind, refusal, client, wire, reply>>

\* func() returned, or raised something retry_call does not catch.
Receive ==
  /\ pc = "wait" /\ wire = "served"
  /\ pc' = "done" /\ result' = reply
  /\ wire' = "none" /\ reply' = "none"
  /\ UNCHANGED <<kind, refusal, server, attempt, late>>

\* The answer breaks off, or is not what the client can parse. No clause takes it
\* for a network error: the admin client lets the exception through to the top,
\* the S3 plane has it for a permanent error.
BrokenOff ==
  /\ pc = "wait" /\ wire = "served"
  /\ pc' = "done" /\ result' \in {"crash", "permanent"}
  /\ wire' = "none" /\ reply' = "none"
  /\ UNCHANGED <<kind, refusal, server, attempt, late>>

\* except RustfsNetworkError: sleep and go round again, or raise on the last.
\* Mutants: one round too many; rounds not counted; the last round falls through
\* to the return; the error is read as "no such resource".
NetworkErrorOneMore ==
  IF attempt > MaxAttempts - 1
  THEN pc' = "done" /\ result' = "network" /\ UNCHANGED attempt
  ELSE pc' = "sleep" /\ attempt' = attempt + 1 /\ UNCHANGED result
NetworkErrorUncounted == pc' = "sleep" /\ UNCHANGED <<attempt, result>>
NetworkErrorSwallowed ==
  IF attempt >= MaxAttempts - 1
  THEN pc' = "done" /\ result' = "ok" /\ UNCHANGED attempt
  ELSE pc' = "sleep" /\ attempt' = attempt + 1 /\ UNCHANGED result
NetworkErrorReadsAsMissing ==
  IF attempt >= MaxAttempts - 1
  THEN pc' = "done" /\ result' = "notfound" /\ UNCHANGED attempt
  ELSE pc' = "sleep" /\ attempt' = attempt + 1 /\ UNCHANGED result
NetworkError ==
  IF attempt >= MaxAttempts - 1
  THEN pc' = "done" /\ result' = "network" /\ UNCHANGED attempt
  ELSE pc' = "sleep" /\ attempt' = attempt + 1 /\ UNCHANGED result

\* Connection refused, or a 502/503/504 answered in front of the server.
Refused ==
  /\ pc = "wait" /\ wire = "sent"
  /\ wire' = "none"
  /\ NetworkError
  /\ UNCHANGED <<kind, refusal, server, reply, late>>

\* The timeout fires, or the connection breaks: before the server executed
\* the request (which may still arrive) or with its answer on the way back.
\* Mutant: no timeout is set.
TimedOutNever == FALSE
TimedOut ==
  /\ pc = "wait"
  /\ late' = IF wire = "sent" THEN late + 1 ELSE late
  /\ wire' = "none" /\ reply' = "none"
  /\ NetworkError
  /\ UNCHANGED <<kind, refusal, server>>

Sleep ==
  /\ pc = "sleep"
  /\ pc' = "send"
  /\ UNCHANGED <<kind, refusal, server, attempt, wire, reply, late, result>>

Next == Send \/ Serve \/ ServeLate \/ Receive \/ BrokenOff \/ Refused \/ TimedOut \/ Sleep

\* The client's own steps are never held up: open_url and botocore time out.
Fairness == WF_vars(Send) /\ WF_vars(TimedOut) /\ WF_vars(Sleep)

Spec == Init /\ [][Next]_vars /\ Fairness
-----------------------------------------------------------------------------
TypeOK ==
  /\ kind \in Kinds /\ refusal \in Refusals /\ present \in BOOLEAN
  /\ pc \in {"send", "wait", "sleep", "done"}
  /\ attempt \in 0..(MaxAttempts - 1)
  /\ wire \in {"none", "sent", "served"} /\ (wire # "none" => pc = "wait")
  /\ (pc = "wait") => (wire # "none")
  /\ reply \in PermanentClasses \cup {"ok", "none"}
  /\ (wire = "served") <=> (reply # "none")
  /\ late \in Nat /\ applied \in Nat
  /\ result \in CallResults \cup {"pending"}
  /\ (pc = "done") <=> (result # "pending")

Requests == attempt + IF pc \in {"wait", "done"} THEN 1 ELSE 0

\* A call can be carried out more than once, but never more often than the
\* client sent it, late arrivals included: at most max(1, retries) times.
EffectsWithinBudget ==
  applied + late + (IF wire = "sent" THEN 1 ELSE 0) <= Requests

\* A network error reaches the caller only after the whole budget is spent;
\* any earlier end of the call is an answer the server really gave.
NetworkErrorSpendsBudget ==
  result = "network" => Requests = MaxAttempts

\* "ok" is never invented: the operation was carried out, and the server is in
\* the state the caller asked for - also after retries and late arrivals.
OkMeansDone ==
  result = "ok" => /\ applied > 0
                   /\ refusal = "none"
                   /\ present <=> (kind # "delete")

\* The error a retry can turn a success into: a delete answered "not found" or
\* a create answered "conflict" after the call itself was carried out. The
\* caller is told of a failure, and yet the state is the one it asked for.
SpuriousErrorIsHarmless ==
  /\ (kind = "delete" /\ result = "notfound") => ~present
  /\ (kind = "create" /\ result = "conflict") => present

\* The loop ends: with timeouts that always fire, every call returns.
EventuallyReturns == <>(pc = "done")

\* The call is an at-least-once call with max(1, retries) as its bound.
Abstract == INSTANCE AtLeastOnceCall
              WITH Bound <- MaxAttempts, Errors <- CallResults \ {"ok"}, verdict <- result
AtLeastOnce == Abstract!Spec
=============================================================================
