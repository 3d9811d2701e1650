--------------------------- MODULE RetryCallProofs ---------------------------
(***************************************************************************)
(* Theorems about RetryCall, for every value of "retries". The step lemmas *)
(* take the steps in the order of a request's life: it goes out (or the    *)
(* client waits, or nothing happens), the server carries it out in time or *)
(* too late, and the client hears the answer or gives up on it.            *)
(***************************************************************************)
EXTENDS RetryCall, TLAPS

\* The budget is a positive number whatever integer the option holds.
LEMMA BudgetPositive == MaxAttempts \in Nat /\ MaxAttempts >= 1
  BY RetriesAssumption DEF MaxAttempts

\* The server's answer is never a network error.
LEMMA AnswerType ==
  ASSUME kind \in Kinds, refusal \in Refusals
  PROVE  Answer \in PermanentClasses \cup {"ok"}
  BY DEF Answer, Kinds, Refusals, PermanentClasses

LEMMA EffectType ==
  ASSUME present \in BOOLEAN, applied \in Nat, Effect
  PROVE  present' \in BOOLEAN /\ applied' \in Nat
<1>1. present' \in BOOLEAN
  BY Zenon DEF Effect
<1>2. applied' \in Nat
  BY DEF Effect
<1>3. QED
  BY <1>1, <1>2

-----------------------------------------------------------------------------
LEMMA TypeStep ==
  ASSUME TypeOK, [Next]_vars
  PROVE  TypeOK'
<1> USE BudgetPositive DEF TypeOK, CallResults, ErrorClasses
<1>send. CASE Send \/ Sleep \/ UNCHANGED vars
  BY <1>send DEF Send, Sleep, server, vars
<1>serve. CASE Serve
  <2>1. reply' \in PermanentClasses \cup {"ok"}
    BY <1>serve, AnswerType DEF Serve
  <2>2. present' \in BOOLEAN /\ applied' \in Nat
    BY <1>serve, EffectType DEF Serve
  <2>3. QED
    BY <1>serve, <2>1, <2>2 DEF Serve, client, PermanentClasses
<1>late. CASE ServeLate
  <2>1. present' \in BOOLEAN /\ applied' \in Nat
    BY <1>late, EffectType DEF ServeLate
  <2>2. QED
    BY <1>late, <2>1 DEF ServeLate, client
<1>hear. CASE Receive \/ BrokenOff
  BY <1>hear DEF Receive, BrokenOff, server, PermanentClasses
<1>refused. CASE Refused
  BY <1>refused DEF Refused, server, NetworkError, PermanentClasses
<1>timeout. CASE TimedOut
  BY <1>timeout DEF TimedOut, server, NetworkError, PermanentClasses
<1> QED
  BY <1>send, <1>serve, <1>late, <1>hear, <1>refused, <1>timeout DEF Next

\* Type correctness, with what pc says about the request on the wire.
THEOREM TypeCorrect == Spec => []TypeOK
<1>1. Init => TypeOK
  BY BudgetPositive DEF Init, TypeOK, Kinds, Refusals, PermanentClasses
<1>2. QED
  BY <1>1, TypeStep, PTL DEF Spec

-----------------------------------------------------------------------------
LEMMA BudgetStep ==
  ASSUME TypeOK, EffectsWithinBudget, [Next]_vars
  PROVE  EffectsWithinBudget'
<1> USE BudgetPositive DEF TypeOK, EffectsWithinBudget, Requests
<1>send. CASE Send \/ Sleep \/ UNCHANGED vars
  BY <1>send DEF Send, Sleep, server, vars
<1>serve. CASE Serve \/ ServeLate
  BY <1>serve DEF Serve, ServeLate, client, Effect
<1>hear. CASE Receive \/ BrokenOff
  BY <1>hear DEF Receive, BrokenOff, server
<1>refused. CASE Refused
  BY <1>refused DEF Refused, server, NetworkError
<1>timeout. CASE TimedOut
  BY <1>timeout DEF TimedOut, server, NetworkError
<1> QED
  BY <1>send, <1>serve, <1>hear, <1>refused, <1>timeout DEF Next

\* Every request the client sent was refused, is on the wire, is late, or was
\* executed: the operation is carried out at most max(1, retries) times.
THEOREM CarriedOutWithinBudget == Spec => [](EffectsWithinBudget /\ applied <= MaxAttempts)
<1>1. Init => EffectsWithinBudget
  BY DEF Init, EffectsWithinBudget, Requests
<1>2. TypeOK /\ EffectsWithinBudget => applied <= MaxAttempts
  BY BudgetPositive DEF TypeOK, EffectsWithinBudget, Requests
<1>3. QED
  BY <1>1, <1>2, BudgetStep, TypeCorrect, PTL DEF Spec

-----------------------------------------------------------------------------
LEMMA NetworkErrorStep ==
  ASSUME TypeOK, NetworkErrorSpendsBudget, [Next]_vars
  PROVE  NetworkErrorSpendsBudget'
<1> USE BudgetPositive DEF TypeOK, NetworkErrorSpendsBudget, Requests
<1>send. CASE Send \/ Sleep \/ UNCHANGED vars
  BY <1>send DEF Send, Sleep, server, vars
<1>serve. CASE Serve \/ ServeLate
  BY <1>serve DEF Serve, ServeLate, client
<1>hear. CASE Receive \/ BrokenOff
  BY <1>hear DEF Receive, BrokenOff, server, PermanentClasses
<1>lost. CASE Refused \/ TimedOut
  BY <1>lost DEF Refused, TimedOut, server, NetworkError
<1> QED
  BY <1>send, <1>serve, <1>hear, <1>lost DEF Next

\* Only a spent budget surfaces as a network error.
THEOREM NetworkErrorIsLast == Spec => []NetworkErrorSpendsBudget
<1>1. Init => NetworkErrorSpendsBudget
  BY DEF Init, NetworkErrorSpendsBudget
<1>2. QED
  BY <1>1, NetworkErrorStep, TypeCorrect, PTL DEF Spec

-----------------------------------------------------------------------------
\* What OkMeansDone says of the result already holds of an "ok" on its way
\* back, and neither a retry nor a late arrival can undo it.
OkSettled ==
  (reply = "ok" \/ result = "ok") =>
     applied > 0 /\ refusal = "none" /\ (present <=> (kind # "delete"))

\* Carrying the operation out settles the resource, and once it is settled
\* a further execution answers something that leaves it settled.
LEMMA ExecutionSettles ==
  ASSUME kind \in Kinds, refusal \in Refusals, present \in BOOLEAN, applied \in Nat,
         Effect,
         Answer = "ok" \/ (applied > 0 /\ refusal = "none" /\ (present <=> (kind # "delete")))
  PROVE  applied' > 0 /\ refusal = "none" /\ (present' <=> (kind # "delete"))
<1>1. refusal = "none"
  BY DEF Answer, Refusals
<1>2. applied' > 0
  BY DEF Effect
<1>3. CASE kind = "get"
  <2>1. present' = present
    BY <1>3, Zenon DEF Effect
  <2>2. present
    BY <1>1, <1>3 DEF Answer
  <2>3. QED
    BY <1>1, <1>2, <1>3, <2>1, <2>2
<1>4. CASE kind # "get" /\ Answer = "ok"
  <2>1. present' = (kind # "delete")
    BY <1>4, Zenon DEF Effect
  <2>2. QED
    BY <1>1, <1>2, <2>1
<1>5. CASE kind # "get" /\ Answer # "ok"
  <2>1. present' = present
    BY <1>5, Zenon DEF Effect
  <2>2. QED
    BY <1>1, <1>2, <1>5, <2>1
<1>6. QED
  BY <1>3, <1>4, <1>5

LEMMA OkSettledStep ==
  ASSUME TypeOK, OkSettled, [Next]_vars
  PROVE  OkSettled'
<1> USE DEF TypeOK, OkSettled
<1>send. CASE Send \/ Sleep \/ UNCHANGED vars
  BY <1>send DEF Send, Sleep, server, vars
<1>serve. CASE Serve
  BY <1>serve, ExecutionSettles DEF Serve, client
<1>late. CASE ServeLate
  BY <1>late, ExecutionSettles DEF ServeLate, client
<1>hear. CASE Receive \/ BrokenOff
  BY <1>hear DEF Receive, BrokenOff, server
<1>lost. CASE Refused \/ TimedOut
  BY <1>lost DEF Refused, TimedOut, server, NetworkError
<1> QED
  BY <1>send, <1>serve, <1>late, <1>hear, <1>lost DEF Next

LEMMA OkSettledInvariant == Spec => []OkSettled
<1>1. Init => OkSettled
  BY DEF Init, OkSettled
<1>2. QED
  BY <1>1, OkSettledStep, TypeCorrect, PTL DEF Spec

\* A success is never invented and is still true when the caller sees it.
THEOREM OkIsTrue == Spec => []OkMeansDone
<1>1. OkSettled => OkMeansDone
  BY DEF OkSettled, OkMeansDone
<1>2. QED
  BY <1>1, OkSettledInvariant, PTL

-----------------------------------------------------------------------------
\* Nor can anything undo what a refusal says: a delete answered "notfound" has
\* nothing left to delete, a create answered "conflict" finds what it creates.
RefusalSettled ==
  /\ (kind = "delete" /\ (reply = "notfound" \/ result = "notfound")) => refusal = "none" /\ ~present
  /\ (kind = "create" /\ (reply = "conflict" \/ result = "conflict")) => refusal = "none" /\ present

\* The two refusals tell how the resource stands, and an execution that changes
\* nothing, or finds it as a refusal found it, leaves it as it stands.
LEMMA RefusalTells ==
  ASSUME kind \in Kinds, refusal \in Refusals, present \in BOOLEAN
  PROVE  /\ (kind = "delete" /\ Answer = "notfound") => refusal = "none" /\ ~present
         /\ (kind = "create" /\ Answer = "conflict") => refusal = "none" /\ present
  BY DEF Answer, Refusals

LEMMA RefusalStands ==
  ASSUME kind \in Kinds, present \in BOOLEAN, Effect, refusal = "none"
  PROVE  /\ (kind = "delete" /\ ~present) => ~present'
         /\ (kind = "create" /\ present) => present'
<1>1. CASE kind = "delete" /\ ~present
  <2>1. Answer # "ok"
    BY <1>1 DEF Answer
  <2>2. present' = present
    BY <2>1, Zenon DEF Effect
  <2>3. QED
    BY <1>1, <2>2
<1>2. CASE kind = "create" /\ present
  <2>1. Answer # "ok"
    BY <1>2 DEF Answer
  <2>2. present' = present
    BY <2>1, Zenon DEF Effect
  <2>3. QED
    BY <1>2, <2>2
<1>3. QED
  BY <1>1, <1>2

\* An answer the server gives to this very request settles it as well.
LEMMA RefusalUnmoved ==
  ASSUME kind \in Kinds, refusal \in Refusals, present \in BOOLEAN, Effect
  PROVE  /\ (kind = "delete" /\ Answer = "notfound") => refusal = "none" /\ ~present'
         /\ (kind = "create" /\ Answer = "conflict") => refusal = "none" /\ present'
  BY RefusalTells, RefusalStands

LEMMA RefusalSettledStep ==
  ASSUME TypeOK, RefusalSettled, [Next]_vars
  PROVE  RefusalSettled'
<1> USE DEF TypeOK, RefusalSettled
<1>send. CASE Send \/ Sleep \/ UNCHANGED vars
  BY <1>send DEF Send, Sleep, server, vars
<1>serve. CASE Serve
  BY <1>serve, RefusalUnmoved, RefusalStands DEF Serve, client
<1>late. CASE ServeLate
  BY <1>late, RefusalStands DEF ServeLate, client
<1>hear. CASE Receive \/ BrokenOff
  BY <1>hear DEF Receive, BrokenOff, server
<1>lost. CASE Refused \/ TimedOut
  BY <1>lost DEF Refused, TimedOut, server, NetworkError
<1> QED
  BY <1>send, <1>serve, <1>late, <1>hear, <1>lost DEF Next

LEMMA RefusalSettledInvariant == Spec => []RefusalSettled
<1>1. Init => RefusalSettled
  BY DEF Init, RefusalSettled
<1>2. QED
  BY <1>1, RefusalSettledStep, TypeCorrect, PTL DEF Spec

\* A delete that fails with "notfound" and a create that fails with "conflict",
\* the errors a retry makes of a success, leave what the caller asked for.
THEOREM SpuriousErrorsHarmless == Spec => []SpuriousErrorIsHarmless
<1>1. RefusalSettled => SpuriousErrorIsHarmless
  BY DEF RefusalSettled, SpuriousErrorIsHarmless
<1>2. QED
  BY <1>1, RefusalSettledInvariant, PTL

-----------------------------------------------------------------------------
LEMMA AbstractStep ==
  ASSUME TypeOK, EffectsWithinBudget, OkSettled, [Next]_vars
  PROVE  [Abstract!Next]_(Abstract!vars)
<1> USE BudgetPositive DEF TypeOK, Abstract!vars, Abstract!Next
<1>send. CASE Send \/ Sleep \/ UNCHANGED vars
  BY <1>send DEF Send, Sleep, server, vars
<1>serve. CASE Serve
  BY <1>serve DEF Serve, client, Effect, EffectsWithinBudget, Requests, Abstract!Apply
<1>late. CASE ServeLate
  BY <1>late DEF ServeLate, client, Effect, EffectsWithinBudget, Requests, Abstract!Apply
<1>hear. CASE Receive \/ BrokenOff
  BY <1>hear DEF Receive, BrokenOff, server, OkSettled, PermanentClasses, ErrorClasses,
     CallResults, Abstract!Return
<1>lost. CASE Refused \/ TimedOut
  BY <1>lost DEF Refused, TimedOut, server, NetworkError, ErrorClasses, CallResults,
     Abstract!Return
<1> QED
  BY <1>send, <1>serve, <1>late, <1>hear, <1>lost DEF Next

\* The retry loop over the lossy transport implements an at-least-once call:
\* Serve and ServeLate apply, Receive, BrokenOff and a last network error return, all
\* other steps stutter.
THEOREM ImplementsAtLeastOnce == Spec => AtLeastOnce
<1>1. Init => Abstract!Init
  BY DEF Init, Abstract!Init
<1>2. QED
  BY <1>1, AbstractStep, OkSettledInvariant, TypeCorrect, CarriedOutWithinBudget, PTL
     DEF Spec, AtLeastOnce, Abstract!Spec
=============================================================================
