---------------------------- MODULE RoleReconcile ----------------------------
(***************************************************************************)
(* The rustfs_state role, run after run, against one server.               *)
(*                                                                         *)
(* A run walks through tasks/main.yml: preflight asserts, admin probe, a   *)
(* snapshot of the server, one loop per resource kind, credential          *)
(* liveness, the report and the gates. Each API call a module makes is one *)
(* step, so what a module decides with a read it acts on a step later, and *)
(* what the role reports is computed from the snapshot. A call whose retry *)
(* budget is spent fails its task, which ends the run for the host; a      *)
(* write may have been applied nevertheless. Between the steps (Concurrent)*)
(* or between the runs an operator changes the server out of band.         *)
(*                                                                         *)
(* Each loop takes its items in any order; their names are distinct.       *)
(***************************************************************************)
EXTENDS DesiredState, Naturals

CONSTANTS
  Ignored,            \* rustfs_state_ignore_unmanaged, as report entries
  FailOnUnmanaged,    \* rustfs_state_fail_on_unmanaged
  Concurrent,         \* the operator also acts while a run is under way
  MaxOps,             \* bound: out-of-band operations in a behaviour
  MaxFaults,          \* bound: calls that fail for good in a behaviour
  InitialPolicy, InitialBucket, InitialUser   \* the servers to start from

ASSUME RunAssumption ==
  /\ InitialPolicy \subseteq PartialFn(Policies, Docs)
  /\ InitialBucket \subseteq PartialFn(Buckets, BucketState)
  /\ InitialUser \subseteq PartialFn(Users, UserState)
  /\ Concurrent \in BOOLEAN /\ FailOnUnmanaged \in BOOLEAN
  /\ MaxOps \in Nat /\ MaxFaults \in Nat

VARIABLES
  policy, bucket, user,        \* the server
  pc,                          \* the task, or the call within it, that comes next
  mode,                        \* "check" or "converge"
  snap,                        \* the start-of-run reads: names, and users' attachments
  todo,                        \* what the current loop has left
  item,                        \* the loop variable
  held,                        \* attachment set the module is about to write
  moved,                       \* the bucket module emitted a diff
  changes, unmanaged, dead,    \* the report: changes, unmanaged, liveness failures
  outcome,                     \* of the last run; "none" while one is under way
  base,                        \* history: the server when the run started
  calm,                        \* history: no out-of-band operation since then
  ops, faults                  \* counters for the bounds

server == <<policy, bucket, user>>
cursor == <<todo, item, held, moved>>
report == <<changes, unmanaged, dead>>
hist   == <<base, calm, ops>>
vars   == <<server, pc, mode, snap, cursor, report, outcome, hist, faults>>

Server == [policy |-> policy, bucket |-> bucket, user |-> user]
NoSnapshot == [policies |-> {}, buckets |-> {}, users |-> [u \in {} |-> {}]]

\* The server keeps a policy that is attached, and attaches none it lacks.
Attachable == DOMAIN policy \cup Builtin

Init ==
  /\ policy \in InitialPolicy /\ bucket \in InitialBucket /\ user \in InitialUser
  /\ \A u \in DOMAIN user : user[u].attached \subseteq Attachable
  /\ pc = "idle" /\ mode = "check" /\ snap = NoSnapshot
  /\ todo = {} /\ item = Unset /\ held = {} /\ moved = FALSE
  /\ changes = {} /\ unmanaged = {} /\ dead = {} /\ outcome = "none"
  /\ base = Server /\ calm = TRUE /\ ops = 0 /\ faults = 0

-----------------------------------------------------------------------------
(* How a step ends.                                                        *)

Goto(l) == pc' = l /\ UNCHANGED <<outcome, faults>>

\* A module or an assert fails: the play is over for this host, no report.
Fail == pc' = "idle" /\ outcome' = "failed" /\ UNCHANGED <<cursor, report, faults>>

\* The call's last attempt failed; counted against the bound.
Lost == /\ faults < MaxFaults /\ faults' = faults + 1
        /\ pc' = "idle" /\ outcome' = "failed" /\ UNCHANGED <<cursor, report>>

Quiet == UNCHANGED <<server, mode, snap, hist>>    \* a step that only reads
Writes == UNCHANGED <<mode, snap, hist>>

\* module.check_mode: decide, but do not write.
\* Mutant: check mode is not looked at.
DryIgnored == FALSE
Dry == mode = "check"

\* The loop goes on to its next item.
ItemDone(loop) == Goto(loop) /\ todo' = todo \ {item} /\ UNCHANGED <<item, held, moved>>

-----------------------------------------------------------------------------
(* Start of the run.                                                       *)

StartRun(m) ==
  /\ pc = "idle"
  /\ pc' = "preflight" /\ mode' = m /\ outcome' = "none"
  /\ changes' = {} /\ unmanaged' = {} /\ dead' = {}
  /\ snap' = NoSnapshot /\ todo' = {} /\ held' = {} /\ moved' = FALSE
  /\ base' = Server /\ calm' = TRUE
  /\ UNCHANGED <<server, item, ops, faults>>

\* A liveness check needs a secret; an empty ruleset would be a deletion.
PreflightOk ==
  /\ \A u \in DOMAIN SpecUser : SpecUser[u].liveness # Unset => SpecUser[u].secret # Unset
  /\ \A b \in DOMAIN SpecBucket : SpecBucket[b].rules # NoRules

Preflight ==
  /\ pc = "preflight"
  /\ IF PreflightOk THEN Goto("probe") /\ UNCHANGED <<cursor, report>> ELSE Fail
  /\ Quiet

ProbeAdmin ==
  /\ pc = "probe"
  /\ Goto("readBuckets") /\ UNCHANGED <<cursor, report>>
  /\ Quiet

ReadBuckets ==
  /\ pc = "readBuckets"
  /\ snap' = [snap EXCEPT !.buckets = DOMAIN bucket]
  /\ Goto("readPolicies")
  /\ UNCHANGED <<server, mode, cursor, report, hist>>

ReadPolicies ==
  /\ pc = "readPolicies"
  /\ snap' = [snap EXCEPT !.policies = DOMAIN policy]
  /\ Goto("readUsers")
  /\ UNCHANGED <<server, mode, cursor, report, hist>>

ReadUsers ==
  /\ pc = "readUsers"
  /\ snap' = [snap EXCEPT !.users = [u \in DOMAIN user |-> user[u].attached]]
  /\ Goto("known")
  /\ UNCHANGED <<server, mode, cursor, report, hist>>

\* Mutants: what this run is about to create does not count; nothing is asserted.
AnyPolicy == Policies
KnownOnServer == Builtin \cup snap.policies
KnownPolicies == DOMAIN SpecPolicy \cup Builtin \cup snap.policies

AssertKnownPolicies ==
  /\ pc = "known"
  /\ IF \A u \in DOMAIN SpecUser : SpecUser[u].policies \subseteq KnownPolicies
     THEN /\ Goto("policies") /\ todo' = DOMAIN SpecPolicy
          /\ UNCHANGED <<item, held, moved, report>>
     ELSE Fail
  /\ Quiet

\* The users whose credentials are probed: one pending creation in check mode
\* is not. Mutant: it is.
ProbedToo == {u \in DOMAIN SpecUser : SpecUser[u].liveness # Unset /\ SpecUser[u].secret # Unset}
Probed == {u \in DOMAIN SpecUser : /\ SpecUser[u].liveness # Unset /\ SpecUser[u].secret # Unset
                                   /\ u \in DOMAIN snap.users \/ ~Dry}

\* A loop that has run out gives way to the next one.
NextLoop ==
  /\ todo = {}
  /\ \/ pc = "policies" /\ Goto("buckets") /\ todo' = DOMAIN SpecBucket
     \/ pc = "buckets" /\ Goto("users") /\ todo' = DOMAIN SpecUser
     \/ pc = "users" /\ Goto("liveness") /\ todo' = Probed
     \/ pc = "liveness" /\ Goto("record") /\ UNCHANGED todo
  /\ UNCHANGED <<item, held, moved, report>>
  /\ Quiet

-----------------------------------------------------------------------------
(* tasks/policy.yml and the policy module.                                 *)

RecordPolicy(p) ==
  /\ changes' = changes \cup {<<"policy", p, IF p \in snap.policies THEN "update" ELSE "create">>}
  /\ UNCHANGED <<unmanaged, dead>>

GetPolicy(p) ==
  /\ pc = "policies" /\ p \in todo
  /\ item' = p /\ UNCHANGED <<held, moved>>
  /\ IF p \in DOMAIN policy /\ policy[p] = SpecPolicy[p]
     THEN Goto("policies") /\ todo' = todo \ {p} /\ UNCHANGED report
     ELSE IF Dry
     THEN Goto("policies") /\ todo' = todo \ {p} /\ RecordPolicy(p)
     ELSE Goto("putPolicy") /\ UNCHANGED <<todo, report>>
  /\ Quiet

\* Mutant: the write replaces all policies by this one.
PutPolicyAlone ==
  /\ pc = "putPolicy"
  /\ policy' = [p \in {item} |-> SpecPolicy[p]]
  /\ Lost \/ (ItemDone("policies") /\ RecordPolicy(item))
  /\ UNCHANGED <<bucket, user>> /\ Writes
PutPolicy ==
  /\ pc = "putPolicy"
  /\ policy' = Put(policy, item, SpecPolicy[item])
  /\ Lost \/ (ItemDone("policies") /\ RecordPolicy(item))
  /\ UNCHANGED <<bucket, user>> /\ Writes

-----------------------------------------------------------------------------
(* tasks/bucket.yml with the bucket and bucket_lifecycle modules.          *)

\* A never-configured bucket is effectively suspended.
\* Mutant: it is compared as it is.
EffectiveRaw(versioning) == versioning
Effective(versioning) == IF versioning = "unconfigured" THEN "suspended" ELSE versioning

MustMove(b, versioning) ==
  /\ SpecBucket[b].versioning # Unset
  /\ Effective(versioning) # SpecBucket[b].versioning

\* HeadBucket decides existence; in check mode a missing bucket is not created
\* and its versioning counts as unconfigured.
HeadBucket(b) ==
  /\ pc = "buckets" /\ b \in todo
  /\ item' = b /\ UNCHANGED <<todo, held, report>>
  /\ IF b \in DOMAIN bucket THEN Goto("getVersioning") /\ moved' = FALSE
     ELSE IF Dry
     THEN Goto("recordBucket") /\ moved' = MustMove(b, "unconfigured")
     ELSE Goto("createBucket") /\ moved' = FALSE
  /\ Quiet

\* The server answers success for a bucket that already exists.
\* Mutant: a key the spec leaves out is written like one it has.
CreateBucketAsListed ==
  /\ pc = "createBucket"
  /\ bucket' = Put(bucket, item, SpecBucket[item])
  /\ Lost \/ (Goto("getVersioning") /\ UNCHANGED <<cursor, report>>)
  /\ UNCHANGED <<policy, user>> /\ Writes
CreateBucket ==
  /\ pc = "createBucket"
  /\ bucket' = IF item \in DOMAIN bucket THEN bucket ELSE Put(bucket, item, NewBucket)
  /\ Lost \/ (Goto("getVersioning") /\ UNCHANGED <<cursor, report>>)
  /\ UNCHANGED <<policy, user>> /\ Writes

GetVersioning ==
  /\ pc = "getVersioning"
  /\ IF item \notin DOMAIN bucket THEN Fail
     ELSE LET differs == MustMove(item, bucket[item].versioning)
          IN  /\ Goto(IF differs /\ ~Dry THEN "putVersioning" ELSE "recordBucket")
              /\ moved' = differs
              /\ UNCHANGED <<todo, item, held, report>>
  /\ Quiet

PutVersioning ==
  /\ pc = "putVersioning"
  /\ IF item \notin DOMAIN bucket THEN Fail /\ UNCHANGED bucket
     ELSE /\ bucket' = [bucket EXCEPT ![item].versioning = SpecBucket[item].versioning]
          /\ Lost \/ (Goto("recordBucket") /\ UNCHANGED <<cursor, report>>)
  /\ UNCHANGED <<policy, user>> /\ Writes

\* "create" is reported of what the snapshot lacks, versioning of what moved.
RecordBucket ==
  /\ pc = "recordBucket"
  /\ changes' = changes
       \cup {<<"bucket", b, "create">> : b \in {item} \ snap.buckets}
       \cup (IF moved THEN {<<"bucket", item, "versioning">>} ELSE {})
  /\ IF SpecBucket[item].rules # Unset
     THEN Goto("getRules") /\ UNCHANGED cursor
     ELSE ItemDone("buckets")
  /\ UNCHANGED <<unmanaged, dead>> /\ Quiet

RecordRules ==
  changes' = changes \cup {<<"bucket", item, "lifecycle">>} /\ UNCHANGED <<unmanaged, dead>>

\* A missing bucket reads as one without rules.
GetRules ==
  /\ pc = "getRules"
  /\ LET now == IF item \in DOMAIN bucket THEN bucket[item].rules ELSE NoRules
     IN  IF now = SpecBucket[item].rules THEN ItemDone("buckets") /\ UNCHANGED report
         ELSE IF Dry THEN ItemDone("buckets") /\ RecordRules
         ELSE Goto("putRules") /\ UNCHANGED <<cursor, report>>
  /\ Quiet

PutRules ==
  /\ pc = "putRules"
  /\ IF item \notin DOMAIN bucket THEN Fail /\ UNCHANGED bucket
     ELSE /\ bucket' = [bucket EXCEPT ![item].rules = SpecBucket[item].rules]
          /\ Lost \/ (ItemDone("buckets") /\ RecordRules)
  /\ UNCHANGED <<policy, user>> /\ Writes

-----------------------------------------------------------------------------
(* tasks/user.yml with the user and policy_attachment modules.             *)

\* Mutant: the snapshot's attachments are not looked at.
SnapForgets(u) == {}
SnapAttached(u) == IF u \in DOMAIN snap.users THEN snap.users[u] ELSE {}

\* The role passes neither status nor update_secret: an existing user is left
\* as it is, a missing one needs a secret, in check mode too.
\* Mutant: add-user is sent whether or not the user exists.
GetUserAlwaysAdds(u) ==
  /\ pc = "users" /\ u \in todo
  /\ item' = u
  /\ SpecUser[u].secret # Unset
  /\ Goto(IF Dry THEN "recordUser" ELSE "addUser")
  /\ UNCHANGED <<todo, held, moved, report>>
  /\ Quiet
GetUser(u) ==
  /\ pc = "users" /\ u \in todo
  /\ item' = u
  /\ IF u \in DOMAIN user THEN Goto("recordUser") /\ UNCHANGED <<todo, held, moved, report>>
     ELSE IF SpecUser[u].secret = Unset
     THEN /\ pc' = "idle" /\ outcome' = "failed"
          /\ UNCHANGED <<todo, held, moved, report, faults>>
     ELSE /\ Goto(IF Dry THEN "recordUser" ELSE "addUser")
          /\ UNCHANGED <<todo, held, moved, report>>
  /\ Quiet

\* The server rotates the secret of a user that exists; attachments survive.
AddUser ==
  /\ pc = "addUser"
  /\ LET s == SpecUser[item].secret
     IN  user' = IF item \in DOMAIN user
                 THEN [user EXCEPT ![item].secret = s, ![item].enabled = TRUE]
                 ELSE Put(user, item, NewUser(s))
  /\ Lost \/ (Goto("recordUser") /\ UNCHANGED <<cursor, report>>)
  /\ UNCHANGED <<policy, bucket>> /\ Writes

\* What to report and whether to attach at all is decided by the snapshot; a
\* user pending creation in check mode is not attached to.
RecordUser ==
  /\ pc = "recordUser"
  /\ LET missing == SpecUser[item].policies \ SnapAttached(item)
     IN  /\ changes' = changes
              \cup {<<"user", u, "create">> : u \in {item} \ DOMAIN snap.users}
              \cup (IF missing # {} THEN {<<"user", item, "attach", missing>>} ELSE {})
         /\ Goto(IF missing # {} /\ (item \in DOMAIN snap.users \/ ~Dry)
                 THEN "getAttached" ELSE "recordExtra")
  /\ UNCHANGED <<cursor, unmanaged, dead>> /\ Quiet

\* exclusive=false: the set to write is the union of what is attached now and
\* what the spec lists. Mutant: exclusive=true.
ExclusiveAttachment(now, wanted) == wanted
DesiredAttachment(now, wanted) == now \cup wanted

GetAttached ==
  /\ pc = "getAttached"
  /\ IF item \notin DOMAIN user THEN Fail
     ELSE LET desired == DesiredAttachment(user[item].attached, SpecUser[item].policies)
          IN  IF desired = user[item].attached \/ Dry
              THEN Goto("recordExtra") /\ UNCHANGED <<cursor, report>>
              ELSE /\ Goto("setAttached") /\ held' = desired
                   /\ UNCHANGED <<todo, item, moved, report>>
  /\ Quiet

\* The write is a full replace; the server refuses an unknown user or policy.
SetAttached ==
  /\ pc = "setAttached"
  /\ IF item \notin DOMAIN user \/ ~ held \subseteq Attachable
     THEN Fail /\ UNCHANGED user
     ELSE /\ user' = [user EXCEPT ![item].attached = held]
          /\ Lost \/ (Goto("recordExtra") /\ UNCHANGED <<cursor, report>>)
  /\ UNCHANGED <<policy, bucket>> /\ Writes

\* One entry for all of them. It joins them in the order the server lists them in;
\* here they are a set.
RecordExtra ==
  /\ pc = "recordExtra"
  /\ LET extra == SnapAttached(item) \ SpecUser[item].policies
     IN  unmanaged' = unmanaged \cup (IF extra # {} THEN {<<"user", item, "extra", extra>>} ELSE {})
  /\ ItemDone("users")
  /\ UNCHANGED <<changes, dead>> /\ Quiet

-----------------------------------------------------------------------------
(* tasks/liveness.yml: never fails the task; whatever is not a "usable"    *)
(* verdict, a failing probe included, is recorded as a dead credential.    *)

RecordDead(u) == dead' = dead \cup {u} /\ UNCHANGED <<changes, unmanaged>>

\* Mutant: a user found dead is probed again.
ProbeUserAgain(u) ==
  /\ pc = "liveness" /\ u \in todo
  /\ Goto("liveness")
  /\ IF Usable(Server, u) THEN todo' = todo \ {u} /\ UNCHANGED report
     ELSE UNCHANGED todo /\ RecordDead(u)
  /\ UNCHANGED <<item, held, moved>> /\ Quiet
ProbeUser(u) ==
  /\ pc = "liveness" /\ u \in todo
  /\ IF Usable(Server, u) THEN UNCHANGED report ELSE RecordDead(u)
  /\ Goto("liveness") /\ todo' = todo \ {u}
  /\ UNCHANGED <<item, held, moved>> /\ Quiet

ProbeFails(u) ==
  /\ pc = "liveness" /\ u \in todo
  /\ faults < MaxFaults /\ faults' = faults + 1
  /\ RecordDead(u) /\ todo' = todo \ {u}
  /\ UNCHANGED <<pc, outcome, item, held, moved>> /\ Quiet

-----------------------------------------------------------------------------
(* The report and the gates.                                               *)

\* rustfs_state_ignore_unmanaged filters the whole report, entries being compared as
\* sets: one that joins policies in another order than the server is taken for the
\* same, and in the code it is not. Mutant: nothing.
AllowlistOff(entries) == entries
Allowlisted(entries) == entries \ Ignored

RecordUnmanaged ==
  /\ pc = "record"
  /\ unmanaged' = Allowlisted(
       unmanaged
          \cup {<<"bucket", b, "unmanaged">> : b \in snap.buckets \ DOMAIN SpecBucket}
          \cup {<<"user", u, "unmanaged">> : u \in DOMAIN snap.users \ DOMAIN SpecUser}
          \cup {<<"policy", p, "unmanaged">> : p \in (snap.policies \ Builtin) \ DOMAIN SpecPolicy})
  /\ Goto("gates")
  /\ UNCHANGED <<cursor, changes, dead>> /\ Quiet

\* Three asserts in a row; fail_on_drift defaults to check mode.
\* Mutant: pending changes do not fail the run.
VerdictWithoutDrift ==
  IF dead # {} THEN "dead" ELSE IF FailOnUnmanaged /\ unmanaged # {} THEN "unmanaged" ELSE "ok"
Verdict ==
  IF dead # {} THEN "dead"
  ELSE IF FailOnUnmanaged /\ unmanaged # {} THEN "unmanaged"
  ELSE IF Dry /\ changes # {} THEN "drift"
  ELSE "ok"

Gates ==
  /\ pc = "gates"
  /\ pc' = "idle" /\ outcome' = Verdict
  /\ UNCHANGED <<cursor, report, faults>> /\ Quiet

\* A read, or a write that never reached the server, fails for good.
ReadSteps  == {"probe", "readBuckets", "readPolicies", "readUsers", "getVersioning",
               "getRules", "getAttached"}
WriteSteps == {"putPolicy", "createBucket", "putVersioning", "putRules", "addUser", "setAttached"}

CallFails ==
  /\ \/ pc \in ReadSteps \cup WriteSteps
     \/ pc \in {"policies", "buckets", "users"} /\ todo # {}
  /\ Lost
  /\ Quiet

RoleStep ==
  \/ Preflight \/ ProbeAdmin \/ ReadBuckets \/ ReadPolicies \/ ReadUsers
  \/ AssertKnownPolicies \/ NextLoop
  \/ (\E p \in DOMAIN SpecPolicy : GetPolicy(p)) \/ PutPolicy
  \/ (\E b \in DOMAIN SpecBucket : HeadBucket(b)) \/ CreateBucket \/ GetVersioning
  \/ PutVersioning \/ RecordBucket \/ GetRules \/ PutRules
  \/ (\E u \in DOMAIN SpecUser : GetUser(u)) \/ AddUser \/ RecordUser \/ GetAttached
  \/ SetAttached \/ RecordExtra
  \/ (\E u \in DOMAIN SpecUser : ProbeUser(u) \/ ProbeFails(u))
  \/ RecordUnmanaged \/ Gates \/ CallFails

-----------------------------------------------------------------------------
(* The operator, through other tools: any single change the server takes.  *)

OperatorPolicy ==
  /\ UNCHANGED <<bucket, user>>
  /\ \/ \E p \in Policies, d \in Docs : policy' = Put(policy, p, d)
     \/ \E p \in DOMAIN policy :
          /\ \A u \in DOMAIN user : p \notin user[u].attached
          /\ policy' = [q \in DOMAIN policy \ {p} |-> policy[q]]

OperatorBucket ==
  /\ UNCHANGED <<policy, user>>
  /\ \/ \E b \in Buckets \ DOMAIN bucket : bucket' = Put(bucket, b, NewBucket)
     \/ \E b \in DOMAIN bucket :
          \/ bucket' = [c \in DOMAIN bucket \ {b} |-> bucket[c]]
          \/ \E v \in {"enabled", "suspended"} : bucket' = [bucket EXCEPT ![b].versioning = v]
          \/ \E r \in Rules \cup {NoRules} : bucket' = [bucket EXCEPT ![b].rules = r]

OperatorUser ==
  /\ UNCHANGED <<policy, bucket>>
  /\ \/ \E u \in Users \ DOMAIN user, s \in Secrets : user' = Put(user, u, NewUser(s))
     \/ \E u \in DOMAIN user :
          \/ user' = [v \in DOMAIN user \ {u} |-> user[v]]
          \/ \E s \in Secrets : user' = [user EXCEPT ![u].secret = s]
          \/ user' = [user EXCEPT ![u].enabled = ~@]
          \/ \E S \in SUBSET Attachable : user' = [user EXCEPT ![u].attached = S]

Operator ==
  /\ Concurrent \/ pc = "idle"
  /\ ops < MaxOps /\ ops' = ops + 1
  /\ calm' = FALSE
  /\ OperatorPolicy \/ OperatorBucket \/ OperatorUser
  /\ UNCHANGED <<pc, mode, snap, cursor, report, outcome, base, faults>>

Next == RoleStep \/ (\E m \in {"check", "converge"} : StartRun(m)) \/ Operator

Spec == Init /\ [][Next]_vars

\* ansible-playbook runs its tasks to the end, and converge runs keep being
\* scheduled; the operator and the failing calls owe nothing.
Progress == RoleStep /\ faults' = faults
FairSpec == Spec /\ WF_vars(Progress) /\ SF_vars(StartRun("converge"))
-----------------------------------------------------------------------------
LoopItems == Policies \cup Buckets \cup Users
OtherSteps == {"idle", "preflight", "known", "policies", "buckets", "recordBucket", "users",
               "recordUser", "recordExtra", "liveness", "record", "gates"}

TypeOK ==
  /\ policy \in PartialFn(Policies, Docs)
  /\ bucket \in PartialFn(Buckets, BucketState)
  /\ user \in PartialFn(Users, UserState)
  /\ pc \in OtherSteps \cup ReadSteps \cup WriteSteps
  /\ mode \in {"check", "converge"}
  /\ snap \in [policies : SUBSET Policies, buckets : SUBSET Buckets,
              users : PartialFn(Users, SUBSET Policies)]
  /\ todo \subseteq LoopItems /\ item \in LoopItems \cup {Unset}
  /\ held \subseteq Policies /\ moved \in BOOLEAN
  /\ dead \subseteq DOMAIN SpecUser
  /\ outcome \in {"none", "failed", "dead", "unmanaged", "drift", "ok"}
  /\ calm \in BOOLEAN /\ ops \in Nat /\ faults \in Nat

\* What a module holds when its next call goes out: an item of the spec that
\* asks for the call, and never a write in check mode.
BucketSteps == {"createBucket", "getVersioning", "putVersioning", "recordBucket", "getRules", "putRules"}
UserSteps   == {"addUser", "recordUser", "getAttached", "setAttached", "recordExtra"}

InHand ==
  /\ pc = "putPolicy" => item \in DOMAIN SpecPolicy
  /\ pc \in BucketSteps => item \in DOMAIN SpecBucket
  /\ pc \in UserSteps => item \in DOMAIN SpecUser
  /\ pc = "putVersioning" => SpecBucket[item].versioning # Unset
  /\ pc \in {"getRules", "putRules"} => SpecBucket[item].rules # Unset
  /\ pc = "addUser" => SpecUser[item].secret # Unset
  /\ pc \in WriteSteps => mode = "converge"

\* What the module read is still so when it writes, if nobody interfered.
StillSo == calm =>
  /\ pc = "createBucket" => item \notin DOMAIN bucket
  /\ pc = "putVersioning" => item \in DOMAIN bucket /\ VersioningDiffers(item, bucket[item].versioning)
  /\ pc = "addUser" => item \notin DOMAIN user
  /\ pc = "setAttached" => /\ item \in DOMAIN user
                           /\ held = user[item].attached \cup SpecUser[item].policies

\* The last run got to its gates.
Complete == pc = "idle" /\ outcome \notin {"none", "failed"}

\* A run nobody interfered with reports every pending change and nothing else,
\* whether it made them or only found them: so a check run predicts exactly
\* what the next converge applies.
ReportIsExact == Complete /\ calm => changes = Pending(base)

\* ... and it reports what the spec does not speak of.
UnmanagedIsExact == Complete /\ calm => unmanaged = Unmanaged(base) \ Ignored

\* A converge run nobody interfered with leaves the server it found with the
\* spec merged in, and nothing else moved; a check run leaves it as it was.
ConvergeMerges == Complete /\ calm => Server = IF mode = "converge" THEN Merged(base) ELSE base

\* At every step of a converge run, and wherever it fails half-way, the merge
\* that is still to make leads to where the run was heading from the start.
HalfwayIsOnTheWay == calm /\ mode = "converge" => Merged(Server) = Merged(base)

\* A green drift run means there is no drift and every checked credential works.
GreenMeansInSync == Complete /\ calm /\ outcome = "ok" =>
  /\ Pending(Server) = {}
  /\ \A u \in DOMAIN SpecUser : SpecUser[u].liveness # Unset => Usable(Server, u)

\* The dead credentials are those that do not work, when no probe failed for
\* good; in check mode a user pending creation is not among them.
DeadIsDead == Complete /\ calm /\ faults = 0 =>
  dead = {u \in DOMAIN SpecUser :
            /\ SpecUser[u].liveness # Unset /\ ~ Usable(Server, u)
            /\ mode = "check" => u \in DOMAIN base.user}

\* A step of the role leaves ops alone, one of the operator does not.
ByRole == ops' = ops

\* The role never deletes: what exists on the server exists after its step,
\* and what the spec does not name is not touched at all.
DeletesNothing == [][ByRole =>
  /\ \A p \in DOMAIN policy : /\ p \in DOMAIN policy'
                              /\ p \notin DOMAIN SpecPolicy => policy'[p] = policy[p]
  /\ \A b \in DOMAIN bucket : /\ b \in DOMAIN bucket'
                              /\ b \notin DOMAIN SpecBucket => bucket'[b] = bucket[b]
  /\ \A u \in DOMAIN user :   /\ u \in DOMAIN user'
                              /\ u \notin DOMAIN SpecUser => user'[u] = user[u]]_vars

\* In check mode no step of the role changes the server.
CheckModeIsPure == [][ByRole /\ mode = "check" => UNCHANGED server]_vars

\* An existing user keeps its secret and status, and nothing is ever detached
\* from it - unless an operator acts while the run is under way.
UsersKeepWhatTheyHave == [][ByRole /\ calm =>
          \A u \in DOMAIN user :
            /\ user'[u].secret = user[u].secret
            /\ user'[u].enabled = user[u].enabled
            /\ user[u].attached \subseteq user'[u].attached]_vars

\* A spec the asserts refuse - or one naming a policy nobody knows - is not
\* applied in part: the server stays as it was found.
Refused(s) ==
  \/ \E u \in DOMAIN SpecUser : SpecUser[u].liveness # Unset /\ SpecUser[u].secret = Unset
  \/ \E b \in DOMAIN SpecBucket : SpecBucket[b].rules = NoRules
  \/ \E u \in DOMAIN SpecUser :
       ~ SpecUser[u].policies \subseteq DOMAIN SpecPolicy \cup Builtin \cup DOMAIN s.policy
RefusedSpecTouchesNothing == calm /\ Refused(base) => Server = base /\ ~Complete

\* What got past the preflight asserts names managed and builtin policies only.
AssertedPoliciesAreManaged == pc = "policies" =>
  \A u \in DOMAIN SpecUser : SpecUser[u].policies \subseteq DOMAIN SpecPolicy \cup Builtin

\* Nothing is ever detached from a user, whatever an operator does meanwhile.
NothingIsEverDetached == [][ByRole =>
  \A u \in DOMAIN user : user[u].attached \subseteq user'[u].attached]_vars

\* Every run ends.
RunsEnd == (pc # "idle") ~> (pc = "idle")

\* Whatever runs failed half-way and whatever an operator broke, converge
\* runs bring the server back to the spec and keep it there.
HealsEventually == <>[](Pending(Server) = {})

\* Every step of a run is one of the atomic merges, or leaves the server alone.
Atomic == INSTANCE AtomicReconcile
ImplementsAtomicReconcile == Atomic!Spec
=============================================================================
