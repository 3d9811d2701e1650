# A verification of the RustFS configuration collection

The collection `david_igou.rustfs` configures a RustFS object-storage server from
Ansible: thirteen modules that talk to the server's S3 and admin APIs, and the role
`rustfs_state`, which reconciles one server with a declared spec. This directory
holds TLA+ specifications of that code, the TLC runs that check them on small
instances, and theorems proved with TLAPS for every instance.

## 1. The system

| Component | Source | State it keeps or touches | Operations |
|---|---|---|---|
| API call | `plugins/module_utils/rustfs.py` (`retry_call`, `_request_once`, `s3_call`, the two classifiers) | the attempt counter; on the server whatever the operation writes | send, answer, time out, sleep, retry, raise |
| admin client | `plugins/module_utils/rustfs.py` (`RustfsAdminClient`) | none of its own | one method per admin endpoint: read, put, delete users, policies, attachments, groups, service accounts, quotas |
| canonical forms | `plugins/module_utils/canonical.py`, `plugins/filter/rustfs.py` | none (pure) | canonical policy document, canonical lifecycle ruleset, generated rule IDs |
| resource modules | `plugins/modules/{bucket,bucket_lifecycle,bucket_quota,policy,policy_attachment,user,group,service_account}.py` | one resource on the server | read, compare, write what differs; `state=absent`; check mode |
| info modules | `plugins/modules/{bucket,policy,user,group,service_account}_info.py` | the report under construction | list all resources of a kind, or the details of one; up to four calls |
| credential probe | `plugins/modules/credential_info.py` | the verdict under construction | list buckets, list one bucket, combine into a verdict |
| role `rustfs_state` | `roles/rustfs_state/tasks/*.yml` | run facts: snapshot, changes, unmanaged, liveness failures, diffs | preflight, probe, snapshot, four loops, report, gates |
| the rest | doc fragments, docs, molecule scenarios, CI, unit tests | - | read as documentation of intent; not modelled |

How they interact: the role calls one module after the other in one process; a module
makes a handful of API calls in a row; every call goes through `retry_call`. Nothing in
the collection runs concurrently with itself - but the server is shared. An operator,
another play or another tool changes it between any two calls, and the transport between
the two loses replies, refuses connections and delivers late. What makes the code hard is
therefore not its own scheduling but that *every decision is made on a read that may be
old by the time of the write*, and that *every write may have happened although the call
failed*.

What makes each component correct:

- **API call**: it is retried on transport failures only and at most `max(1, retries)`
  times; what it reports is true; a late or repeated execution does no harm.
- **resource modules**: they converge (after success the resource is as asked), they are
  idempotent (a second run changes nothing), `changed` tells the truth, check mode
  predicts and does not write, a failed run can simply be repeated.
- **info modules**: every field of a report was true, in the order the calls were made; a
  missing resource is reported as missing and no other error is taken for it.
- **credential probe**: a pair is usable exactly if it authenticates and may list the bucket.
- **canonical forms**: the server's echo of a document compares equal with the document.
- **role**: it never deletes or detaches; check mode is pure and predicts the next
  converge; converge leaves the server with the spec merged in; a run that fails half-way
  loses nothing; a green drift run means no drift.

The hazards - the lines where these could go wrong and a test would hardly reach - are
listed in `PROJECT.json`, each with the properties that watch it.

## 2. The modules

| Module | Models | Role |
|---|---|---|
| `Transport` | error classes, HTTP and S3 classification, retry budget | vocabulary |
| `AtLeastOnceCall` | what one API call promises | abstract specification |
| `RetryCall` | one call over a lossy transport | implements `AtLeastOnceCall` |
| `DesiredState` | server state, spec, *pending*, *unmanaged*, *merged* | vocabulary |
| `AtomicReconcile` | the server under single, atomic, additive merges | abstract specification |
| `RoleReconcile` | the role, call by call, run after run, with an operator and failing calls | implements `AtomicReconcile` when nobody interferes |
| `MCRole` | a small instance of `RoleReconcile` | for TLC |
| `Resources` | what a server holds of one resource, parameters, *goal*, *attainable* | vocabulary |
| `ApiTask` | what the resource modules share: start, call, retry, compare, exit, others acting | base of the next three |
| `BucketTasks` | `bucket`, `bucket_lifecycle`, `bucket_quota` | extends `ApiTask` |
| `AccessTasks` | `policy`, `policy_attachment` | extends `ApiTask` |
| `IdentityTasks` | `user`, `group`, `service_account` | extends `ApiTask` |
| `ResourceTasks` | all eight, run after run, and what all promise | composes the three |
| `InfoTask` | what the read-only modules share: a report read call by call, others acting | base of the next two |
| `InfoModules` | `bucket_info`, `policy_info`, `user_info`, `group_info`, `service_account_info` | extends `InfoTask` |
| `CredentialProbe` | `credential_info` | extends `InfoTask` |
| `InfoTasks` | all six, run after run, and what their reports are worth | composes the two |
| `Canonical` | both canonicalisers and the rule IDs against the server's echo | |
| `RetryCallProofs`, `RoleProofs`, `RoleRunProofs`, `ResourceTypeProofs`, `ResourceGoalProofs`, `ResourcePartsProofs`, `InfoProofs`, `CanonicalProofs` | | theorems |

The same modules appear twice on purpose. `RoleReconcile` has them as the role calls them,
*one module after the other*, one call per step, with a second actor between the steps;
`ResourceTasks` has *one module at a time with every parameter*, each call retried over a
transport that loses requests and replies, with a second actor between the requests. What
retries and late requests do to a single call is `RetryCall`.

### RetryCall

`pc` is the client's place in the loop of `retry_call`; `attempt` its loop index; `wire`
and `reply` the request under way and its answer; `late` counts requests the client gave
up on and the server may still execute; `applied` counts executions. `Send` is
`_request_once` (or the botocore call) going out; `Serve` the server executing;
`Receive` a return or a permanent error, which `retry_call` does not catch; `Refused` a
refused connection or a gateway status; `TimedOut` the 30 s timeout or a broken
connection, before or after the server executed; `NetworkError` the `except` branch;
`BrokenOff` an answer that ends early or cannot be parsed, which no clause turns into a
network error: `_request_once` lets it through (`"crash"`), `s3_call` calls it permanent, and
neither is retried although the server did execute the request. The
server is external: reads, overwriting puts, creates that refuse an existing resource and
deletes that refuse a missing one, or refusal of everything. Nobody else touches the
resource in this module.

### RoleReconcile

`policy`, `bucket`, `user` are the server, as partial functions from names. `pc` names the
task, or inside a task the API call, that comes next; `todo`/`item` are the loop; `held`
is the attachment set `policy_attachment` computed and is about to write; `moved` is "the
bucket module emitted a diff"; `snap` is the start-of-run snapshot; `changes`, `unmanaged`,
`dead` the report. Each API call is one step, so between the read of a module and its
write anything may happen. One action per call or task:

- `StartRun`, `Preflight`, `ProbeAdmin`, `ReadBuckets/Policies/Users`,
  `AssertKnownPolicies`, `NextLoop` - `tasks/main.yml` up to the loops;
- `GetPolicy`, `PutPolicy` - `tasks/policy.yml` and the policy module;
- `HeadBucket`, `CreateBucket`, `GetVersioning`, `PutVersioning`, `RecordBucket`,
  `GetRules`, `PutRules` - `tasks/bucket.yml`, bucket and bucket_lifecycle;
- `GetUser`, `AddUser`, `RecordUser`, `GetAttached`, `SetAttached`, `RecordExtra` -
  `tasks/user.yml`, user and policy_attachment;
- `ProbeUser`, `ProbeFails` - `tasks/liveness.yml`;
- `RecordUnmanaged`, `Gates` - the report and the three gates;
- `CallFails` - any call whose retry budget is spent before it took effect. A write that
  took effect and whose replies were all lost is the `Lost` branch of the write itself.
- `Operator` - any single change the server accepts, between runs, or (`Concurrent`)
  between any two steps.

Abstractions, all of them stated once here: the names in the spec lists are distinct; each
loop takes its items in any order (list order is one of them); documents and rulesets are
canonical, so equality is the comparison the modules make; the extra attachments of a user
are a set, while `user.yml:77` joins them in the server's order into one string that
`main.yml:188` compares with the allowlist (an allowlist written in another order is not
seen to differ); a retried call is one step,
because every call the role makes is idempotent (a put of the whole value) - what retries
do to a call is the subject of `RetryCall`; the admin probe's verdict "not usable" ends
the run exactly as a failing call does and is one with `CallFails`; `access_key` is the
user's name; `rustfs_state_fail_on_drift` has its default, the check-mode flag. The
secret-free payloads for `--diff` are left out. `base`, `calm`, `ops`, `faults` are history
and bounds.

### Resources, ApiTask, BucketTasks, AccessTasks, IdentityTasks, ResourceTasks

`Resources` says what can be: a bucket (existence, content, versioning, rules, quota), a
policy together with what is attached to one user or group, or one user, group or service
account; the parameters a module takes; and, independently of the modules' steps, the `Goal`
that parameters have for a resource, when it is `Attainable`, and which `Parts` of it hold.

`srv` is the one resource on the server. `want` holds a module's parameters and `dry` is
`module.check_mode`; `pc` names the call that comes next; `attempt` is the loop index of
`retry_call`; `read` is the resource as the module last read it - the code's `existing`,
`current`, `info` - and every later decision and write is worked out from it; `changed`,
`outcome` and `error` are what the module exits with. `base`, `unsure`, `others` and `met`
are history. `Start` begins a run of any module on the resource with any parameters, as often
as it likes; `Forget` ends the process and all it knew. `Interfere` is anybody else turning
the resource into any other of its kind, between any two requests of a run, `MaxOthers` times.
Every other action is one request of one call:

- `Call(l, class, effect, GoOn)`: the answer arrives and the module goes on; or the request
  or its answer is lost (the server may have executed it) and `retry_call` goes round or
  gives up (`NetworkError`); or the server turns the request down for a reason of its own,
  which every module lets through to `fail_json`; or the answer breaks off, as in `RetryCall`.
- `Read` is a call that fills `read`, `Write` a call whose every answer but "ok" fails the
  module, `Check` a look at the parameters before anything is sent.
- `Decide` is the common "compare, set `changed`, return in check mode, write".
- `BucketTasks`: `HeadBucket`, `CreateBucket`, `GetVersioning`, `PutVersioning`,
  `DeleteBucket`; `GetRules`, `PutRules`, `DeleteRules`; `CheckSize`, `GetQuota`,
  `SetQuota`, `ClearQuota`.
- `AccessTasks`: `GetPolicy`, `PutPolicy`, `DeletePolicy`; `CheckPolicies`, `GetEntity`,
  `SetAttached`.
- `IdentityTasks`: `GetUser`, `AddUser`, `RotateSecret`, `SetUserStatus`, `RemoveUser`;
  `GetGroup`, `CreateGroup`, `AddMembers`, `RemoveMembers`, `SetGroupStatus`, `DeleteGroup`;
  `GetAccount`, `CreateAccount`, `ReadBack`, `DeleteAccount`.
- `BucketReturned`, `AccessReturned`, `IdentityReturned`: what `exit_json` says of the
  resource, which most modules work out from `read` and the parameters instead of reading it
  back.

What can be said when others act is weaker than when they do not, and the properties say
which is which. Undisturbed, success means the goal, exactly; what is returned is so;
`changed` is the difference. Disturbed, three things are left. A run that reports success has
seen or made each part of what it was asked true at some moment (`OkMeansEachPartWasSo`);
excepted is a group it created, which the code takes to be enabled and never reads
(`TakenAsNew`). Each write still brings the resource closer to what is asked and takes nothing
from anybody (`StaysOnCourse`); excepted are the two modules that write back what they read,
`user` and `policy_attachment` (`ReadModifyWrites`), whose races section 5 shows. And no write
leaves a dry run.

What is assumed of the server, whose code is not in the repository: a missing canned
policy is HTTP 500 with "does not exist" in the text, as the comments of `rustfs.py` say; a
policy still attached and a non-empty bucket are not deleted; whether a group may be created
twice is left open (both answers occur); `groupStatus` in a membership update does not
change the status of an existing group. The last one matters: if a server did honour it,
`group` would enable a disabled group whenever it changes its members, since the status it
compares was read before (see the hazards). Left to `RetryCall`: a request that overtakes
the end of its call. Kept apart from its wrapped message: an error of the network or
of authorization that `DeleteBucket` meets, which the code reports with the same words as
any other.

### InfoTask, InfoModules, CredentialProbe, InfoTasks

These modules write nothing, so a call is one step: a retried read answers with what the
server holds when its last attempt arrives. `srv` is the part of the server that is looked at -
one resource of a kind, or a key pair with the bucket it is probed against; `want` the
parameters; `pc` the call that comes next; `report` what was read so far and in the end the
result; `outcome` how the run ended; `past` (history) the states `srv` went through during it.
`Others` acts between any two calls, at most `MaxMoves` times in a run.

- `InfoModules`: `HeadBucket`, `GetVersioning`, `GetRules`, `GetQuota` are `bucket_info` for
  one bucket; `Get` the other four for one resource, `List` all five for a kind - what is said
  of *one* resource in the list, since nothing relates the entries; `Refused`, `Unreachable`
  any other error and a spent budget. `Answers` is the server leaving out a field that holds
  its default, `Parsed` the defaults the client fills in.
  `Refused` stands for every permanent error but the one that means "missing": `fail_json`
  says the same of each, so one class stands for them. `Selected` is the filter of the code,
  `Asked` the one the option documents; they differ for an empty user name, which
  `ReportWasTrue` leaves out (section 5).
- `CredentialProbe`: `ListBuckets` and `ListBucket` are the two branches of `run_module` with
  their kinds of answer (ok, bad pair, disabled account, another invalid request, access
  denied, no such bucket). A disabled account is told by the text of the answer alone
  (`IsDisabledAccount`); an invalid request that says something else fails the module.

### Canonical

`doc` is the document in the playbook, `stored` what the server keeps of what was last put,
by this playbook or an earlier one, `echo` what was last read, `drops` the one thing servers
may differ in. `Put` and `Read` are the write and the read of the
policy and bucket_lifecycle modules; `CanonicalStatement`, `canonical_policy`,
`CanonicalDate`, `CanonicalRule`, `canonical_lifecycle_rules` and `with_rule_ids` translate
`canonical.py` and the rule IDs of `bucket_lifecycle`; `Echoes` is what the comments of
`canonical.py`, `docs/server-quirks.md` and the unit tests say of the server: arrays come back
in any order; in a policy, fields left out come back empty; in a rule, empty ones do not come
back at all, and dates come back parsed. Of a `Filter` that holds a `Prefix` the repository
says both that it survives and that the server drops it (section 5). So there are servers of
either kind, chosen by `drops` at the start; `Stored` and `FilterDropped` are what the second
kind keeps (a filter dropped on export would look the same). The properties hold for both:
what is kept converges, and what is dropped is drift for ever, put again by every run and
never masked. Sorting a list before
comparing it is comparing bags, so a sorted list *is* a bag here. An instant has three forms -
date, timestamp, parsed `datetime` - and a `Filter` may hold an empty `Prefix`, which empties
the filter too. `stored` starts `Bare`: the server does not tell an empty field from one left
out, so nothing is lost by starting from documents without empty fields. `Meaning`, which the
properties compare by, is independent of all that: what a document says. Left out: the
lowercase spelling of the keys, treated like the other, and `Version`, a plain field compared
as it stands.

## 3. What the runs check

| Run | Question |
|---|---|
| `retry_call` | `Retries = 3`: a first, a middle and a last attempt. Effects never exceed the requests sent; a network error is only reported after the last attempt; `ok` is true even after late arrivals; the errors a retry can produce spuriously ("not found" for a delete, "conflict" for a create) never hide a wrong state; the call returns; it implements `AtLeastOnceCall`. |
| `role_runs` | From *every* state of one managed policy, bucket and user, beside an unmanaged one of each: reports are exact, converge merges, the half-way state is on the way, gates tell the truth, dead credentials are those that do not work, and every step refines `AtomicReconcile`. One call per behaviour fails for good, at any point. |
| `role_sparse` | The same with optional keys left out, versioning suspended, and a user that wants a policy the role does not manage and that may not exist: then the run is refused and touches nothing. |
| `role_interference` | An operator makes a change at any moment and one call fails for good. Deletion safety and check-mode purity hold regardless; users keep secret, status and attachments in every run until the operator acts in it; every run ends; converge runs bring the server back to the spec. |
| `resource_tasks` | Eight modules, all parameters, all resources, two attempts per call, somebody else acting once in a run. `ok` means the goal and nothing beside it, or - disturbed - that each part of it was so at some moment; what is returned is so; `changed` is said exactly when there was something to do, in check mode too; no write leads away from what is asked, at whatever point the run stopped; a failure without a lost, refused or broken answer has a reason in what was asked; dry runs do not write; secrets are touched on demand only; every run ends. |
| `info_tasks` | Six read-only modules, everything they can look at, changing up to three times in a run. A report is torn, but each field was true, and the moments are in the order of the calls; a missing resource is reported and fails a module only when it disappears between two of its calls; the verdict on a credential was right at some moment, and `authorized` is null exactly for a refused pair. |
| `canonical` | For policies and rulesets with every field the canonicalisers treat: no false drift, no masked drift, and a playbook applied again and again converges - unless the server drops a `Filter` of it, and then the drift stays. |
| `role_detaches`, `role_unmanaged_policy`, `bucket_blames`, `user_race`, `canonical_repeats` | Expected violations, see section 5. |

Bounds.

- *Role*: one managed item of each kind suffices for the interplay *between* kinds (a policy
  is attached to a user whose credential lists a bucket), and the loops do not interact
  across items of one kind except through the snapshot, which is taken before all of them;
  the other item of each kind carries deletion safety and the unmanaged report. Two
  documents, one of which grants nothing, make an update and a liveness failure possible;
  two secrets a rotation. `MaxOps` and `MaxFaults` count over whole behaviours, which may
  hold any number of runs. Initial states are every state of the managed items where the
  question is about one run, and a converged, a drifted and an empty server where it is
  about interference.
- *Resource modules*: one resource at a time, because a module touches one. Two values of
  each kind (rulesets, sizes, documents, secrets, members) make "differs" possible in
  both directions, and members can be added and removed in one run. Two attempts: one that
  may be retried and a last one; a lost reply followed by a second execution is the
  interesting case and occurs for every write. `MaxOthers = 1`: one change by others, to any
  state at all, before, between or after any two requests; to undo a decision taken on a read,
  one is enough. The properties that speak of undisturbed runs are checked in the same run, on
  the behaviours in which nobody acts.
- *Read-only modules*: one resource of each kind, with two values of every field that has a
  default or selects. `MaxMoves = 3` is one change in each gap of the longest sequence of calls,
  the four of `bucket_info`; the account and bucket of a credential have every combination the
  code can tell apart.
- *Canonical*: documents of two plain statements or rules, which meet in an order, and of one
  statement or rule with every field; arrays of up to two names (`MaxLength`, `MaxArray`); two instants, so that dates
  can be mistaken for each other as well as differ in form. Without repeated elements, which
  do not converge (section 5).

Fairness. `RetryCall` assumes that the client's own steps happen (`Send`, `Sleep`) and that
timeouts fire (`TimedOut`): `open_url` gets `timeout=30` and botocore its read and connect
timeouts. It assumes nothing of the server. `RoleReconcile` assumes that ansible-playbook
runs its tasks to the end (weak fairness of the role's steps) and that converge runs keep
being started when none is under way (strong fairness: a drift job in check mode may be
started in between, so starting a converge is not continuously enabled). Failing calls and
the operator owe nothing. `ResourceTasks` assumes that a started module takes its steps -
each is one request that ends in an answer or a timeout - and not that any request succeeds.
`InfoTasks` has no liveness property and no fairness: its modules are sequences of at most
four such calls.
`Canonical` assumes that a play is run again while it is out of sync.

## 4. What is proved

For every value of the constants, that is every retry budget, spec, server, resource and
operator. Each theorem follows from an inductive invariant by one step per action.

- `RetryCallProofs`: types (`TypeCorrect`); effects within the budget
  (`CarriedOutWithinBudget`); `NetworkErrorIsLast`; `OkIsTrue`; and
  `ImplementsAtLeastOnce`, the refinement. The invariants are inductive together with
  the type invariant, except `OkMeansDone`, which needs `OkSettled`: once one execution
  was answered ok, no further one - late or repeated - changes the outcome;
  and `SpuriousErrorsHarmless`, which needs the same of the refusals (`RefusalSettled`). `Retries` is
  any integer, so the boundary of `max(1, retries)` at 0 and below is proved, not sampled.
  `AtLeastOnceCall` allows the error after the effect that `BrokenOff` causes.
- `RoleProofs`: lemmas on `PartialFn` and `Put`, the operators every server state is built
  with, and `TypeCorrect`, of `TypeOK /\ InHand`. `InHand` says what a module has in
  hand when a call goes out: an item of the spec that asks for exactly this call, and a
  write only in converge mode. `TypeOK` alone is not inductive: that `SpecBucket[item]` is
  defined when `PutVersioning` uses it is a fact about `item`, not about types.
  From `InHand` follow `CheckModePure` (no step of the role writes in check
  mode) and `NothingDeleted` (`Spares`: what a write may do to one map of the server),
  whatever the operator does meanwhile. `ReadsStillHold` is the invariant `StillSo` - what a
  module read before deciding on a write still holds at the write while the run is `calm` -
  and from it follow `UsersKept` and `ImplementsAtomic`, the refinement of
  `AtomicReconcile`. The latter assumes `~Concurrent`, and needs it: section 5 shows the
  step that is no atomic merge when an operator acts inside a run. `RefusalIsTotal` proves
  that a spec the asserts refuse is not applied in part, by the invariant `RefusedEarly`:
  such a run never gets past the steps before the loops. TLC meets the unknown policy
  (`role_sparse`); the two preflight asserts are covered by the theorem alone.
- `RoleRunProofs`: what a whole run makes of the server it found. Its invariant `RunInv` says
  how far the run is: items still to do are as the run found them, items done are as the spec
  asks, the item under way is one or the other in each part, and the report holds an entry for
  every item done that differed. From it follow, for a run nobody interferes with,
  `HalfwayLeadsOn`, `ConvergeIsMerge`, `ReportExact`, `UnmanagedExact`, `GreenInSync` and
  `DeadExact`. The loops run over sets in any order, so no theorem depends on one.
- `ResourceTypeProofs`: `TypeCorrect`, of `TypeOK /\ AtHome`. `AtHome` says that a module is at
  a call of its own and has the parameter that call needs; without it `TypeOK` is not
  inductive, because a write could put a parameter that was left out into the resource. Then
  `DryRunsAreDry`, by the invariant that a dry run stands at a read, whatever others do to the
  resource meanwhile, and `SecretsAreKept`: the one write that could touch a secret unasked is a repeated add-user, and
  by `OwnUserOnly` the user it then finds has the secret it is about to write.
- `ResourceGoalProofs`: `SuccessMeansGoal` and `ChangedIsTrue`, for all eight modules. The
  invariant says, call by call, how far the resource is from its goal: before the first write
  it is as it was, during a write it is one of two states (the call may have been carried out
  by a request whose reply was lost), and the writes that follow each other - create and
  versioning, rotation and status, the stages of a group - compose to the goal. Others are
  assumed to keep out of the run, as the properties say.
  `ReturnedIsTrue` adds to every position what was last read (`ReadInv`): the resource the run
  began with, or the bucket or key pair the run itself made. `FailuresHaveReason` adds
  `FirstTry`: while every answer got through, a first write under way has not been carried
  out, so an answer that blames the resource describes the one the run began with.
- `ResourcePartsProofs`: with any number of changes by others. `PartsWereSo` splits the goal of
  a run in parts; the invariant `PartsInv` says of each part that it was met at some moment of
  the run, or that a call still to come will see to it. `WritesStayOnCourse` is an action
  property: a write moves the resource it meets, not the one that was read, towards the goal;
  it takes `TypeInv` and one lemma per module.
- `InfoProofs`: `TypeCorrect`; `NotFoundIsExplained`; `VerdictsWereRight`, by `Heard`: what the first call heard of a key pair still
  has its witness in `past` when the second answers; `ReportsWereTrue`, by `Told`: every field
  in a report so far has a moment, and the moments are in the order of the calls. Both for any
  number of changes by others.

- `CanonicalProofs`: the comparison, for documents and arrays of any length. `EchoInv` says
  that the server's answer *means* what is stored; then `DriftIsSeen` needs that equal
  canonical forms mean the same, and `DriftIsReal` the converse, element by element
  (`StatementSays`, `StatementKept`, `RuleSays`). `BagsFollow` lifts that from elements to
  sorted lists: equal bags can be paired off, and what follows from being paired keeps them
  equal. `DriftIsReal` assumes that no array repeats an element (`~Repeats`), and needs it
  (`canonical_repeats`, section 5); `DriftIsSeen` does not. `DroppedFilterStaysDrift` is the
  safety half of `Converges`: where the server drops what the playbook says, no read ever
  compares equal, because nothing such a server stores has a `Prefix` in a `Filter` (`Unfiltered`).

The assumptions are those of the modules (`RetriesAssumption`, `SpecAssumption`,
`RunAssumption`, `ResourceAssumption`, `MaxOthersAssumption`, `CanonicalAssumption`): the constants have their types, a spec names items of the universe,
`Unset` and the empty ruleset are values of their own, and so are an absent field, an empty
one, a text and a date.

Only model-checked: liveness (`EventuallyReturns`, both `RunsEnd`, `HealsEventually`,
`Converges`), which the prover does not reach. Every other property of the passing runs is a
theorem.

## 5. Where code and documentation disagree

- `role_detaches`: `policy_attachment` computes the union from a read and writes it as a
  full replace. A policy attached in between is detached. The documentation says that
  nothing is ever detached.
- `user_race`: the `user` module checks existence, then adds. A user created in between gets
  its secret and status overwritten, while `user.py` and `tasks/user.yml` say that an existing
  user's secret is never touched without `update_secret`. That this race and the one of
  `role_detaches` need somebody else acting inside the run is what the theorem `UsersKept`
  says of the role.
- `role_unmanaged_policy`: the preflight assert accepts any policy present on the server;
  the argument specification says managed plus builtin.
- `bucket_blames`: a removal whose first reply was lost is repeated, answered "not found",
  and reported as a failure because "non-empty buckets must be emptied first".
- `canonical_repeats`: a document that names an action twice never compares equal with the
  server's set, so it is written on every run.

Not a run of its own, where the repository disagrees with itself or with the code:

- A `Filter` with a `Prefix`: `docs/server-quirks.md:53` and
  `docs/docsite/rst/server_behavior.rst:93-95` say that it survives a put and a get;
  `bucket_lifecycle.py:49-51` that it "surfaces as persistent drift rather than being silently
  masked", `tests/unit/plugins/module_utils/test_canonical.py:81-82` that the server drops it
  and that this must surface as drift, `plugins/filter/canonical_ilm.yml:14-16` that the server
  honours only a top-level prefix. `Canonical` has servers of both kinds. What the second group
  promises - drift, never masked - holds for the kind that drops; for the other the module is
  idempotent.
- `server_behavior.rst:79-81` calls versioned buckets undeletable. `docs/server-quirks.md:55`
  and `extensions/molecule/modules/converge.yml:425-429` say that an empty one is deleted, as the
  model has it.
- `credential_info.py:31-32`: without a bucket "only authentication is probed". In the code
  and the model `usable` then needs `ListBuckets` to be authorised as well, as line 79 says.
- An empty user name given to `service_account_info` lists everybody's accounts
  (`rustfs.py:403`); the option is documented as a filter.

Nor are the following: an account disabled between the two calls of `credential_info` fails
the module (the second call does not look for a disabled account), although the comment on
`is_disabled_account` calls that answer a verdict and not a failure; `CredentialProbe` models
it, and `outcome = "failed"` is that case. And three races with others that no document rules
out, but that the properties of `ResourceTasks` except by name: a group somebody else created
disabled is reported as enabled (`TakenAsNew`); a rotation without a status enables a user
disabled in between, and an exclusive attachment undoes what was attached in between
(`ReadModifyWrites`).

## 6. Plan

Done: the API call with its broken answers, the role, their abstract specifications, all eight
resource modules with others acting in between, the five info modules, the credential probe,
the canonical forms with every field they treat; types, deletion safety, check-mode purity,
refusal, both refinements, what a whole run of the role makes of the server, the goal of every
resource module, what it returns, when it fails and what it does under interference, the truth
of the reports, and the comparison behind every `changed` proved.

Left: the progress behind the liveness that TLC checks, as far as it is safety. Each step of a
run has a measure that goes down (calls left, attempts left), so a run that keeps stepping
ends; that measure is provable, the fairness argument around it is not.

Open, because the answer is the server's and its code is not here: whether a membership
update honours `groupStatus`; what a second create of a group answers; whether a bare string
in `Action` is echoed as an array; what two rules with one ID become; which other errors
contain the words "does not exist". The models say at each of these what they assume.

Not modelled, and not planned: signing, URL encoding, JSON and TLS options (conversions of one
request without state; what their failures do is `BrokenOff` and `Refused`), argument parsing
and the parsing of a size, the wording of messages, the rendering of the report, doc
fragments, molecule scenarios and CI.
