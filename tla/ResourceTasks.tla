---------------------------- MODULE ResourceTasks ----------------------------
(***************************************************************************)
(* The resource modules, run after run with any parameters, in check mode  *)
(* or not, against one bucket, one policy with what it is attached to, or  *)
(* one identity, while others act on it too - and what all of them promise.*)
(***************************************************************************)
EXTENDS BucketTasks, AccessTasks, IdentityTasks

FirstStep ==
  [bucket |-> "head", bucket_lifecycle |-> "getRules", bucket_quota |-> "checkSize",
   policy |-> "getPolicy", policy_attachment |-> "checkPolicies",
   user |-> "getUser", group |-> "getGroup", service_account |-> "getAccount"]

Init == \E s \in Servers : Idle(s)

Start == \E w \in Wants, d \in BOOLEAN :
  srv.kind = About(w.module) /\ Begin(w, d, FirstStep[w.module])

TaskStep == BucketStep \/ AccessStep \/ IdentityStep

Next == Start \/ TaskStep \/ Interfere \/ Forget

\* A module that was started runs to its end.
Spec == Init /\ [][Next]_vars /\ WF_vars(TaskStep)

Returned ==
  CASE srv.kind = "bucket" -> BucketReturned
    [] srv.kind = "access" -> AccessReturned
    [] OTHER               -> IdentityReturned
-----------------------------------------------------------------------------
TypeOK ==
  /\ srv \in Servers /\ base \in Servers /\ read \in Servers /\ want \in Wants
  /\ srv.kind = About(want.module) /\ base.kind = srv.kind /\ read.kind = srv.kind
  /\ dry \in BOOLEAN /\ changed \in BOOLEAN /\ unsure \in BOOLEAN
  /\ attempt \in 0..(MaxAttempts - 1) /\ (pc = "idle" => attempt = 0)
  /\ outcome \in {"none", "ok", "failed"}
  /\ others \in 0..MaxOthers /\ met \subseteq Parts(want)

Undisturbed == others = 0

\* Success means the resource is as asked for and nothing else about it moved,
\* through whatever retries it took.
OkMeansGoal == Over /\ Undisturbed /\ ~dry => Attainable(want, base) /\ srv = Goal(want, base)

\* What is returned is worked out and not read back, and still it is what the
\* resource is when the module ends - or would be, in a dry run.
ReturnedIsSo == Over /\ Undisturbed /\ Attainable(want, base) =>
  LET left == IF dry THEN Goal(want, base) ELSE srv
  IN  \A field \in DOMAIN Returned : Returned[field] = left[field]

\* "changed" is said exactly when there was something to do, dry run or not: so a
\* second run says "not changed", and a dry run predicts the real one. A rotation
\* is always something to do.
ChangedTellsTheTruth == Over /\ Undisturbed /\ Attainable(want, base) =>
  (changed <=> Goal(want, base) # base \/ Rotates(want, base))

\* A group that is created is taken to be new, and its status is not read.
TakenAsNew == want.module = "group" /\ ~read.exists

\* Whoever else acts: a module that reports success has seen, or made, every part
\* of what it was asked for true at some moment of the run.
OkMeansEachPartWasSo == Over /\ ~dry /\ (TakenAsNew => Undisturbed) => met = Parts(want)

\* These two write back what they read: nobody else may act in between.
ReadModifyWrites == {"user", "policy_attachment"}

\* However far a run got - a bucket made and its versioning not yet set, members
\* added and others not yet removed - and whatever others did, the next write of
\* the module goes towards what is asked of the resource as it is now: it brings
\* about a part of it, and takes nothing from anybody. Never configured and
\* suspended are the same versioning here.
StaysOnCourse ==
  [][/\ srv' # srv /\ others' = others /\ Attainable(want, srv)
     /\ want.module \in ReadModifyWrites => Undisturbed
     => LET then == Goal(want, srv')  now == Goal(want, srv)
        IN  \/ then = now
            \/ want.module = "bucket" /\ then = [now EXCEPT !.versioning = then.versioning]
               /\ Effective(then.versioning) = Effective(now.versioning)]_vars

\* A dry run sends no write.
DryRunsDoNotWrite == [][dry /\ others' = others => UNCHANGED srv]_vars

\* The secret of an existing user or account is touched on explicit demand only.
SecretsNeedAWarrant ==
  [][/\ srv.kind \in {"user", "service_account"} /\ srv.exists /\ srv'.exists
     /\ others' = others /\ Undisturbed
     => (srv'.secret # srv.secret => Rotates(want, srv))]_vars

\* While requests and answers get through and none is turned down, a run fails
\* only for what it was asked to do.
FailsWithReason ==
  outcome = "failed" /\ Undisturbed /\ ~unsure /\ error \notin {"auth", "broken off"} =>
    ~Attainable(want, base)

\* Every run ends.
RunsEnd == (pc # "idle") ~> (pc = "idle")

\* A removal that fails because the bucket "must be emptied first" is of a
\* bucket that must be emptied.
BlamesContentRightly ==
  outcome = "failed" /\ error = "must be emptied first" => srv.content

\* Nobody's secret is touched without a demand, others acting or not.
SecretsAreSafe ==
  [][/\ srv.kind = "user" /\ srv.exists /\ srv'.exists /\ others' = others
     => (srv'.secret # srv.secret => Rotates(want, srv))]_vars
=============================================================================
