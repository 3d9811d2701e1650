---------------------------- MODULE RoleRunProofs ----------------------------
(***************************************************************************)
(* What a whole run of the role comes to when nobody interferes, proved    *)
(* for every spec and every server: where the server ends up, and that the *)
(* report, the verdict and the dead credentials are exactly those of the   *)
(* server the run found. The invariant says how far the loops have got:    *)
(* what is left is as it was found, what is done is as the spec asks, and  *)
(* the report holds the entries of what is done.                           *)
(***************************************************************************)
EXTENDS RoleProofs

\* The parts of a run.
BeforeLoops == {"preflight", "probe", "readBuckets", "readPolicies", "readUsers", "known"}
PolicyLoop  == {"policies", "putPolicy"}
BucketLoop  == {"buckets"} \cup BucketSteps
UserLoop    == {"users"} \cup UserSteps

\* A run under way, or one that got to its gates.
Telling == calm /\ (pc # "idle" \/ Complete)

\* What the loops have before them, the item at work included.
LeftPolicies == IF pc \in BeforeLoops THEN DOMAIN SpecPolicy
                ELSE IF pc \in PolicyLoop THEN todo ELSE {}
LeftBuckets  == IF pc \in BeforeLoops \cup PolicyLoop THEN DOMAIN SpecBucket
                ELSE IF pc \in BucketLoop THEN todo ELSE {}
LeftUsers    == IF pc \in BeforeLoops \cup PolicyLoop \cup BucketLoop THEN DOMAIN SpecUser
                ELSE IF pc \in UserLoop THEN todo ELSE {}
LeftProbes   == IF pc \in {"record", "gates", "idle"} THEN {}
                ELSE IF pc = "liveness" THEN todo ELSE Probed

\* The loops run over items of the spec, and work at one they have left.
Underway ==
  /\ pc \in PolicyLoop => todo \subseteq DOMAIN SpecPolicy
  /\ pc \in BucketLoop => todo \subseteq DOMAIN SpecBucket
  /\ pc \in UserLoop   => todo \subseteq DOMAIN SpecUser
  /\ pc = "liveness"   => todo \subseteq Probed
  /\ pc \in {"putPolicy"} \cup BucketSteps \cup UserSteps => item \in todo
  /\ pc \notin {"idle", "preflight"} \/ Complete => PreflightOk

\* The snapshot is of the server as the run found it.
SnapInv == Telling =>
  /\ pc \notin {"preflight", "probe", "readBuckets"} => snap.buckets = DOMAIN base.bucket
  /\ pc \notin {"preflight", "probe", "readBuckets", "readPolicies"} =>
       snap.policies = DOMAIN base.policy
  /\ pc \notin BeforeLoops \/ pc = "known" =>
       snap.users = [u \in DOMAIN base.user |-> base.user[u].attached]

\* Before the loops, and in check mode at all times, the server is as found.
FoundInv == calm /\ (mode = "check" \/ pc \in BeforeLoops) => Server = base

\* What name x maps to is the same in both.
Alike(f, g, x) == (x \in DOMAIN f <=> x \in DOMAIN g) /\ (x \in DOMAIN f => f[x] = g[x])

PolicySynced(p) == p \in DOMAIN policy /\ policy[p] = SpecPolicy[p]
PoliciesInv == Telling =>
  /\ \A p \in LeftPolicies : Alike(policy, base.policy, p)
  /\ mode = "converge" => \A p \in DOMAIN SpecPolicy \ LeftPolicies : PolicySynced(p)
  /\ pc = "putPolicy" => ~PolicySynced(item)

\* The buckets left are as found, but for the one at work, and those done in sync.
BucketsSettled(l, m, b, now, was, left) ==
  /\ \A c \in left : (l \in BucketSteps \ {"createBucket"} => c # b) => Alike(now, was, c)
  /\ m = "converge" => \A c \in DOMAIN SpecBucket \ left :
       /\ c \in DOMAIN now /\ ~VersioningDiffers(c, now[c].versioning)
       /\ c \in Ruled => now[c].rules = SpecBucket[c].rules

\* The bucket b at work goes from as found, over one with the versioning the spec
\* asks for, to one in sync; a bucket that was missing starts as a new one.
BucketWas(was, b) == IF b \in DOMAIN was THEN was[b] ELSE NewBucket
BucketAtWork(l, m, b, now, was, mv) ==
  /\ l = "createBucket" => b \notin DOMAIN was
  /\ l \in BucketSteps \ {"createBucket"} /\ m = "converge" =>
       b \in DOMAIN now /\ now[b].rules = BucketWas(was, b).rules
  /\ l \in {"getVersioning", "putVersioning"} =>
       b \in DOMAIN now /\ now[b].versioning = BucketWas(was, b).versioning
  /\ l \in {"recordBucket", "getRules", "putRules"} /\ m = "converge" =>
       ~VersioningDiffers(b, now[b].versioning)
  /\ l \in {"putVersioning", "recordBucket"} =>
       (mv <=> VersioningDiffers(b, BucketWas(was, b).versioning))
  /\ l = "putRules" => BucketWas(was, b).rules # SpecBucket[b].rules

BucketsInv == Telling =>
  /\ BucketsSettled(pc, mode, item, bucket, base.bucket, LeftBuckets)
  /\ BucketAtWork(pc, mode, item, bucket, base.bucket, moved)

\* The same of the users; what is attached to one stays until it is attached to.
UsersSettled(l, m, u, now, was, left) ==
  /\ \A v \in left : (l \in UserSteps \ {"addUser"} => v # u) => Alike(now, was, v)
  /\ m = "converge" => \A v \in DOMAIN SpecUser \ left :
       v \in DOMAIN now /\ SpecUser[v].policies \subseteq now[v].attached

Attachments(f, u) == IF u \in DOMAIN f THEN f[u].attached ELSE {}
UserAtWork(l, m, u, now, was) ==
  /\ l = "addUser" => u \notin DOMAIN was
  /\ l \in UserSteps \ {"addUser"} /\ m = "converge" => u \in DOMAIN now
  /\ l \in {"recordUser", "getAttached", "setAttached"} => Attachments(now, u) = Attachments(was, u)
  /\ l = "recordExtra" /\ m = "converge" => SpecUser[u].policies \subseteq Attachments(now, u)

UsersInv == Telling =>
  /\ UsersSettled(pc, mode, item, user, base.user, LeftUsers)
  /\ UserAtWork(pc, mode, item, user, base.user)

\* The report, entry by entry, of what is pending on server s.
PolicyEntries(s, p) ==
  {<<"policy", q, "create">> : q \in {p} \ DOMAIN s.policy}
  \cup {<<"policy", q, "update">> : q \in {r \in {p} \cap DOMAIN s.policy : s.policy[r] # SpecPolicy[r]}}
MakeEntries(s, b) ==
  {<<"bucket", c, "create">> : c \in {b} \ DOMAIN s.bucket}
  \cup {<<"bucket", c, "versioning">> : c \in {d \in {b} : VersioningDiffers(d, BucketOr(s, d).versioning)}}
RulesEntries(s, b) ==
  {<<"bucket", c, "lifecycle">> : c \in {d \in {b} \cap Ruled : BucketOr(s, d).rules # SpecBucket[d].rules}}
UserEntries(s, u) ==
  {<<"user", v, "create">> : v \in {u} \ DOMAIN s.user}
  \cup {<<"user", v, "attach", Missing(s, v)>> : v \in {w \in {u} : Missing(s, w) # {}}}
ExtraEntries(s, u) ==
  {<<"user", v, "extra", AttachedTo(s, v) \ SpecUser[v].policies>> :
     v \in {w \in {u} : ~ AttachedTo(s, w) \subseteq SpecUser[w].policies}}

Reported(s, P, M, R, U) ==
  (UNION {PolicyEntries(s, p) : p \in P}) \cup (UNION {MakeEntries(s, b) : b \in M})
  \cup (UNION {RulesEntries(s, b) : b \in R}) \cup (UNION {UserEntries(s, u) : u \in U})
Extras(s, U) == UNION {ExtraEntries(s, u) : u \in U}

\* What has been reported of: what is done, and the item at work once its entries are made.
ToldPolicies == DOMAIN SpecPolicy \ LeftPolicies
ToldRules    == DOMAIN SpecBucket \ LeftBuckets
ToldMakes    == ToldRules \cup {b \in {item} : pc \in {"getRules", "putRules"}}
DoneUsers    == DOMAIN SpecUser \ LeftUsers
ToldUsers    == DoneUsers \cup {u \in {item} : pc \in {"getAttached", "setAttached", "recordExtra"}}

ChangesInv == Telling => changes = Reported(base, ToldPolicies, ToldMakes, ToldRules, ToldUsers)

UnmanagedInv == Telling =>
  /\ pc \in {"idle", "gates"} => unmanaged = Unmanaged(base) \ Ignored
  /\ pc \notin {"idle", "gates"} => unmanaged = Extras(base, DoneUsers)

DeadInv == Telling =>
  /\ \A u \in Probed \ LeftProbes : ~Usable(Server, u) => u \in dead
  /\ faults = 0 => \A u \in dead : u \in Probed \ LeftProbes /\ ~Usable(Server, u)

\* What a green run has seen.
GreenInv == pc = "idle" /\ outcome = "ok" => dead = {} /\ (mode = "check" => changes = {})

-----------------------------------------------------------------------------
(* Steps of the role and what they leave alone.                            *)

\* A step of the role belongs to the run under way.
LEMMA RoleStepFrame ==
  ASSUME RoleStep
  PROVE  /\ pc # "idle" /\ UNCHANGED <<calm, base, mode, ops>>
         /\ pc' = "idle" => outcome' = "failed" \/ Gates
<1> USE DEF Goto, Fail, Lost, ItemDone, Quiet, Writes, hist
<1>1. CASE Preflight \/ ProbeAdmin \/ ReadBuckets \/ ReadPolicies \/ ReadUsers
           \/ AssertKnownPolicies \/ NextLoop
  BY <1>1 DEF Preflight, ProbeAdmin, ReadBuckets, ReadPolicies, ReadUsers, AssertKnownPolicies, NextLoop
<1>2. CASE (\E p \in DOMAIN SpecPolicy : GetPolicy(p)) \/ PutPolicy
  BY <1>2 DEF GetPolicy, PutPolicy
<1>3. CASE (\E b \in DOMAIN SpecBucket : HeadBucket(b)) \/ CreateBucket \/ GetVersioning
           \/ PutVersioning \/ RecordBucket \/ GetRules \/ PutRules
  BY <1>3 DEF HeadBucket, CreateBucket, GetVersioning, PutVersioning, RecordBucket, GetRules, PutRules
<1>4. CASE (\E u \in DOMAIN SpecUser : GetUser(u)) \/ AddUser \/ RecordUser \/ GetAttached
           \/ SetAttached \/ RecordExtra
  BY <1>4 DEF GetUser, AddUser, RecordUser, GetAttached, SetAttached, RecordExtra
<1>5. CASE \E u \in DOMAIN SpecUser : ProbeUser(u) \/ ProbeFails(u)
  BY <1>5 DEF ProbeUser, ProbeFails
<1>6. CASE RecordUnmanaged \/ Gates \/ CallFails
  BY <1>6 DEF RecordUnmanaged, Gates, CallFails, ReadSteps, WriteSteps
<1>7. QED
  BY <1>1, <1>2, <1>3, <1>4, <1>5, <1>6 DEF RoleStep

\* A run that tells something after a step of the role told something before,
\* and the step did not fail.
LEMMA TellingOn ==
  ASSUME RoleStep, Telling'
  PROVE  /\ Telling /\ calm /\ pc # "idle" /\ UNCHANGED <<calm, base, mode, ops>>
         /\ pc' = "idle" => Gates
         /\ ~ (pc' = "idle" /\ outcome' = "failed")
  BY RoleStepFrame DEF Telling, Complete

\* What is so of the run under way stays so if the role's own steps keep it:
\* an operator's step ends the calm, and the run starts afresh.
LEMMA TellingKept ==
  ASSUME [Next]_vars, Telling'
  PROVE  \/ RoleStep
         \/ \E m \in {"check", "converge"} : StartRun(m)
         \/ UNCHANGED vars
  BY DEF Next, Operator, Telling

\* The loops run over the spec, and an item at work is one that is left.
LEMMA UnderwayStep ==
  ASSUME InHand, Underway, [Next]_vars
  PROVE  Underway'
<1> USE DEF Quiet, Writes, cursor, Goto, Fail, Lost, ItemDone, Underway, Complete, PolicyLoop,
            BucketLoop, UserLoop, BucketSteps, UserSteps
<1>1. CASE Preflight
  BY <1>1 DEF Preflight, PreflightOk
<1>2. CASE ProbeAdmin \/ ReadBuckets \/ ReadPolicies \/ ReadUsers
  BY <1>2 DEF ProbeAdmin, ReadBuckets, ReadPolicies, ReadUsers, PreflightOk
<1>3. CASE AssertKnownPolicies
  BY <1>3 DEF AssertKnownPolicies, PreflightOk
<1>4. CASE NextLoop
  <2>1. Probed' = Probed
    BY <1>4 DEF NextLoop, Probed, Dry
  <2>2. QED
    BY <1>4, <2>1 DEF NextLoop, PreflightOk
<1>5. CASE \E p \in DOMAIN SpecPolicy : GetPolicy(p)
  BY <1>5 DEF GetPolicy, PreflightOk
<1>6. CASE PutPolicy
  BY <1>6 DEF PutPolicy, PreflightOk
<1>7. CASE \E b \in DOMAIN SpecBucket : HeadBucket(b)
  BY <1>7 DEF HeadBucket, PreflightOk
<1>8. CASE CreateBucket \/ PutVersioning \/ PutRules
  BY <1>8 DEF CreateBucket, PutVersioning, PutRules, PreflightOk
<1>9. CASE GetVersioning \/ RecordBucket \/ GetRules
  BY <1>9 DEF GetVersioning, RecordBucket, GetRules, PreflightOk
<1>10. CASE \E u \in DOMAIN SpecUser : GetUser(u)
  BY <1>10 DEF GetUser, PreflightOk
<1>11. CASE AddUser \/ SetAttached
  BY <1>11 DEF AddUser, SetAttached, PreflightOk
<1>12. CASE RecordUser \/ GetAttached \/ RecordExtra
  BY <1>12 DEF RecordUser, GetAttached, RecordExtra, PreflightOk
<1>13. CASE \E u \in DOMAIN SpecUser : ProbeUser(u) \/ ProbeFails(u)
  <2>1. Probed' = Probed
    BY <1>13 DEF ProbeUser, ProbeFails, Probed, Dry
  <2>2. QED
    BY <1>13, <2>1 DEF ProbeUser, ProbeFails, PreflightOk
<1>14. CASE RecordUnmanaged \/ Gates
  BY <1>14 DEF RecordUnmanaged, Gates, PreflightOk
<1>15. CASE CallFails
  BY <1>15 DEF CallFails, PreflightOk
<1>16. CASE \E m \in {"check", "converge"} : StartRun(m)
  BY <1>16 DEF StartRun
<1>17. CASE UNCHANGED vars
  <2>1. Probed' = Probed
    BY <1>17 DEF vars, Probed, Dry
  <2>2. QED
    BY <1>17, <2>1 DEF vars, PreflightOk
<1>18. CASE Operator
  <2>1. Probed' = Probed
    BY <1>18 DEF Operator, Probed, Dry
  <2>2. QED
    BY <1>18, <2>1 DEF Operator, PreflightOk
<1>19. QED
  BY <1>1, <1>2, <1>3, <1>4, <1>5, <1>6, <1>7, <1>8, <1>9, <1>10, <1>11, <1>12, <1>13,
     <1>14, <1>15, <1>16, <1>17, <1>18 DEF Next, RoleStep

-----------------------------------------------------------------------------
(* What the run found, and the snapshot of it.                             *)

\* Nothing leads back to the steps before the loops.
LEMMA NoWayBack ==
  ASSUME RoleStep, pc' \in BeforeLoops
  PROVE  pc \in BeforeLoops /\ ~WriteCalls
<1> USE DEF BeforeLoops, Goto, Fail, Lost, ItemDone
<1>1. CASE Preflight \/ ProbeAdmin \/ ReadBuckets \/ ReadPolicies \/ ReadUsers
           \/ AssertKnownPolicies \/ NextLoop
  BY <1>1 DEF Preflight, ProbeAdmin, ReadBuckets, ReadPolicies, ReadUsers, AssertKnownPolicies,
     NextLoop, WriteCalls, PutPolicy, CreateBucket, PutVersioning, PutRules, AddUser, SetAttached
<1>2. CASE (\E p \in DOMAIN SpecPolicy : GetPolicy(p)) \/ PutPolicy
  BY <1>2 DEF GetPolicy, PutPolicy
<1>3. CASE (\E b \in DOMAIN SpecBucket : HeadBucket(b)) \/ CreateBucket \/ GetVersioning
           \/ PutVersioning \/ RecordBucket \/ GetRules \/ PutRules
  BY <1>3 DEF HeadBucket, CreateBucket, GetVersioning, PutVersioning, RecordBucket, GetRules, PutRules
<1>4. CASE (\E u \in DOMAIN SpecUser : GetUser(u)) \/ AddUser \/ RecordUser \/ GetAttached
           \/ SetAttached \/ RecordExtra
  BY <1>4 DEF GetUser, AddUser, RecordUser, GetAttached, SetAttached, RecordExtra
<1>5. CASE \E u \in DOMAIN SpecUser : ProbeUser(u) \/ ProbeFails(u)
  BY <1>5 DEF ProbeUser, ProbeFails
<1>6. CASE RecordUnmanaged \/ Gates \/ CallFails
  BY <1>6 DEF RecordUnmanaged, Gates, CallFails
<1>7. QED
  BY <1>1, <1>2, <1>3, <1>4, <1>5, <1>6 DEF RoleStep

LEMMA FoundStep ==
  ASSUME TypeOK, InHand, FoundInv, [Next]_vars
  PROVE  FoundInv'
<1>1. CASE RoleStep
  <2> SUFFICES ASSUME calm', mode' = "check" \/ pc' \in BeforeLoops PROVE Server' = base'
    BY DEF FoundInv, BeforeLoops
  <2>1. UNCHANGED <<calm, base, mode>>
    BY <1>1, RoleStepFrame
  <2>2. mode = "check" \/ pc \in BeforeLoops
    BY <1>1, <2>1, NoWayBack
  <2>3. ~WriteCalls
    BY <1>1, <2>1, NoWayBack, WritesAreHanded
  <2>4. UNCHANGED server
    BY <1>1, <2>3, OnlyWritesWrite
  <2>5. QED
    BY <2>1, <2>2, <2>4 DEF FoundInv, Server, server
<1>2. CASE \E m \in {"check", "converge"} : StartRun(m)
  BY <1>2 DEF StartRun, FoundInv, Server, server
<1>3. CASE Operator
  BY <1>3 DEF Operator, FoundInv
<1>4. CASE UNCHANGED vars
  BY <1>4 DEF vars, FoundInv, Server, BeforeLoops, server, hist
<1>5. QED
  BY <1>1, <1>2, <1>3, <1>4 DEF Next

\* The three reads apart, a step leaves the snapshot alone.
LEMMA SnapMoves ==
  ASSUME RoleStep, Telling'
  PROVE  \/ ReadBuckets \/ ReadPolicies \/ ReadUsers
         \/ snap' = snap /\ pc \in {"preflight", "probe"} /\ pc' \in {"probe", "readBuckets"}
         \/ snap' = snap /\ (pc = "known" \/ pc \notin BeforeLoops) /\ pc' \notin BeforeLoops
<1> USE DEF BeforeLoops, Goto, Fail, Lost, ItemDone, Quiet, Writes, Telling, Complete
<1>1. CASE Preflight \/ ProbeAdmin \/ AssertKnownPolicies \/ NextLoop
  BY <1>1 DEF Preflight, ProbeAdmin, AssertKnownPolicies, NextLoop
<1>2. CASE (\E p \in DOMAIN SpecPolicy : GetPolicy(p)) \/ PutPolicy
  BY <1>2 DEF GetPolicy, PutPolicy
<1>3. CASE (\E b \in DOMAIN SpecBucket : HeadBucket(b)) \/ CreateBucket \/ GetVersioning
           \/ PutVersioning \/ RecordBucket \/ GetRules \/ PutRules
  BY <1>3 DEF HeadBucket, CreateBucket, GetVersioning, PutVersioning, RecordBucket, GetRules, PutRules
<1>4. CASE (\E u \in DOMAIN SpecUser : GetUser(u)) \/ AddUser \/ RecordUser \/ GetAttached
           \/ SetAttached \/ RecordExtra
  BY <1>4 DEF GetUser, AddUser, RecordUser, GetAttached, SetAttached, RecordExtra
<1>5. CASE \E u \in DOMAIN SpecUser : ProbeUser(u) \/ ProbeFails(u)
  BY <1>5 DEF ProbeUser, ProbeFails
<1>6. CASE RecordUnmanaged \/ Gates \/ CallFails
  BY <1>6 DEF RecordUnmanaged, Gates, CallFails
<1>7. QED
  BY <1>1, <1>2, <1>3, <1>4, <1>5, <1>6 DEF RoleStep

LEMMA SnapStep ==
  ASSUME TypeOK, FoundInv, SnapInv, [Next]_vars
  PROVE  SnapInv'
<1> SUFFICES ASSUME Telling' PROVE SnapInv'
  BY DEF SnapInv
<1>1. CASE RoleStep
  <2>1. Telling /\ calm /\ UNCHANGED base
    BY <1>1, TellingOn
  <2>2. CASE ReadBuckets
    <3>1. snap'.buckets = DOMAIN base'.bucket
      BY <2>1, <2>2 DEF ReadBuckets, FoundInv, BeforeLoops, Server, TypeOK
    <3>2. pc' = "readPolicies"
      BY <2>2 DEF ReadBuckets, Goto
    <3>3. QED
      BY <3>1, <3>2 DEF SnapInv, BeforeLoops
  <2>3. CASE ReadPolicies
    <3>1. snap'.policies = DOMAIN base'.policy /\ snap'.buckets = snap.buckets
      BY <2>1, <2>3 DEF ReadPolicies, FoundInv, BeforeLoops, Server, TypeOK
    <3>2. pc' = "readUsers" /\ pc = "readPolicies"
      BY <2>3 DEF ReadPolicies, Goto
    <3>3. QED
      BY <2>1, <3>1, <3>2 DEF SnapInv, BeforeLoops
  <2>4. CASE ReadUsers
    <3>1. /\ snap'.users = [u \in DOMAIN base.user |-> base.user[u].attached]
          /\ snap'.buckets = snap.buckets /\ snap'.policies = snap.policies
      BY <2>1, <2>4 DEF ReadUsers, FoundInv, BeforeLoops, Server, TypeOK
    <3>2. pc' = "known" /\ pc = "readUsers"
      BY <2>4 DEF ReadUsers, Goto
    <3>3. QED
      BY <2>1, <3>1, <3>2 DEF SnapInv, BeforeLoops
  <2>5. CASE snap' = snap /\ pc \in {"preflight", "probe"} /\ pc' \in {"probe", "readBuckets"}
    BY <2>5 DEF SnapInv, BeforeLoops
  <2>6. CASE snap' = snap /\ (pc = "known" \/ pc \notin BeforeLoops) /\ pc' \notin BeforeLoops
    BY <2>1, <2>6 DEF SnapInv, BeforeLoops
  <2>7. QED
    BY <1>1, <2>2, <2>3, <2>4, <2>5, <2>6, SnapMoves
<1>2. CASE \E m \in {"check", "converge"} : StartRun(m)
  BY <1>2 DEF StartRun, SnapInv, BeforeLoops
<1>3. CASE UNCHANGED vars
  BY <1>3 DEF vars, SnapInv, Telling, Complete, BeforeLoops, hist
<1>4. QED
  BY <1>1, <1>2, <1>3, TellingKept

-----------------------------------------------------------------------------
(* The policies.                                                           *)

\* Outside its loop the policies, done and left, stand still.
LEMMA PoliciesRest ==
  ASSUME RoleStep, Telling', ~(\E p \in DOMAIN SpecPolicy : GetPolicy(p)), ~PutPolicy
  PROVE  LeftPolicies' = LeftPolicies /\ policy' = policy /\ pc' # "putPolicy"
<1> USE DEF LeftPolicies, BeforeLoops, PolicyLoop, Goto, Fail, Lost, ItemDone, Quiet, Writes, server,
            Telling, Complete
<1>1. CASE Preflight \/ ProbeAdmin \/ ReadBuckets \/ ReadPolicies \/ ReadUsers
           \/ AssertKnownPolicies \/ NextLoop
  BY <1>1 DEF Preflight, ProbeAdmin, ReadBuckets, ReadPolicies, ReadUsers, AssertKnownPolicies, NextLoop
<1>2. CASE (\E b \in DOMAIN SpecBucket : HeadBucket(b)) \/ CreateBucket \/ GetVersioning
           \/ PutVersioning \/ RecordBucket \/ GetRules \/ PutRules
  BY <1>2 DEF HeadBucket, CreateBucket, GetVersioning, PutVersioning, RecordBucket, GetRules, PutRules
<1>3. CASE (\E u \in DOMAIN SpecUser : GetUser(u)) \/ AddUser \/ RecordUser \/ GetAttached
           \/ SetAttached \/ RecordExtra
  BY <1>3 DEF GetUser, AddUser, RecordUser, GetAttached, SetAttached, RecordExtra
<1>4. CASE \E u \in DOMAIN SpecUser : ProbeUser(u) \/ ProbeFails(u)
  BY <1>4 DEF ProbeUser, ProbeFails
<1>5. CASE RecordUnmanaged \/ Gates \/ CallFails
  BY <1>5 DEF RecordUnmanaged, Gates, CallFails
<1>6. QED
  BY <1>1, <1>2, <1>3, <1>4, <1>5 DEF RoleStep

LEMMA PoliciesStep ==
  ASSUME TypeOK, Underway, PoliciesInv, [Next]_vars
  PROVE  PoliciesInv'
<1> SUFFICES ASSUME Telling' PROVE PoliciesInv'
  BY DEF PoliciesInv
<1>1. CASE RoleStep
  <2>1. Telling /\ UNCHANGED <<base, mode>> /\ ~ (pc' = "idle" /\ outcome' = "failed")
    BY <1>1, TellingOn
  <2>2. CASE \E p \in DOMAIN SpecPolicy : GetPolicy(p)
    <3>1. PICK p \in DOMAIN SpecPolicy : GetPolicy(p)
      BY <2>2
    <3>2. policy' = policy /\ pc = "policies" /\ p \in todo /\ item' = p
      BY <3>1 DEF GetPolicy, Quiet, server
    <3>3. \/ pc' = "putPolicy" /\ todo' = todo /\ ~PolicySynced(p)
          \/ pc' = "policies" /\ todo' = todo \ {p} /\ (mode = "check" \/ PolicySynced(p))
      BY <3>1 DEF GetPolicy, Goto, PolicySynced, Dry
    <3>4. QED
      BY <2>1, <3>2, <3>3 DEF PoliciesInv, LeftPolicies, PolicyLoop, BeforeLoops, PolicySynced, Alike
  <2>3. CASE PutPolicy
    <3>1. /\ pc = "putPolicy" /\ pc' = "policies" /\ todo' = todo \ {item} /\ item \in todo
          /\ policy' = Put(policy, item, SpecPolicy[item])
      BY <2>1, <2>3 DEF PutPolicy, Lost, ItemDone, Goto, Underway
    <3>2. /\ PolicySynced(item)' \/ item' # item
          /\ item \in DOMAIN policy' /\ policy'[item] = SpecPolicy[item]
          /\ \A p : p # item => Alike(policy', policy, p)
      BY <3>1 DEF PolicySynced, Put, Alike
    <3>3. LeftPolicies = todo /\ LeftPolicies' = todo \ {item}
      BY <3>1 DEF LeftPolicies, PolicyLoop, BeforeLoops
    <3>4. \A p \in LeftPolicies' : Alike(policy', base'.policy, p)
      BY <2>1, <3>2, <3>3 DEF PoliciesInv, Alike
    <3>5. mode' = "converge" => \A p \in DOMAIN SpecPolicy \ LeftPolicies' :
                                  p \in DOMAIN policy' /\ policy'[p] = SpecPolicy[p]
      BY <2>1, <3>2, <3>3 DEF PoliciesInv, Alike, PolicySynced
    <3>6. QED
      BY <3>1, <3>4, <3>5 DEF PoliciesInv, PolicySynced, Alike
  <2>4. CASE ~(\E p \in DOMAIN SpecPolicy : GetPolicy(p)) /\ ~PutPolicy
    BY <1>1, <2>1, <2>4, PoliciesRest DEF PoliciesInv, PolicySynced, Alike
  <2>5. QED
    BY <2>2, <2>3, <2>4
<1>2. CASE \E m \in {"check", "converge"} : StartRun(m)
  BY <1>2 DEF StartRun, PoliciesInv, LeftPolicies, BeforeLoops, Server, server, Alike
<1>3. CASE UNCHANGED vars
  BY <1>3 DEF vars, PoliciesInv, Telling, Complete, hist, server, cursor, LeftPolicies, PolicySynced, Alike
<1>4. QED
  BY <1>1, <1>2, <1>3, TellingKept

-----------------------------------------------------------------------------
(* The buckets.                                                            *)

BucketMoves == \/ \E b \in DOMAIN SpecBucket : HeadBucket(b)
               \/ CreateBucket \/ GetVersioning \/ PutVersioning \/ RecordBucket \/ GetRules \/ PutRules

\* Outside their loop the buckets, done and left, stand still.
LEMMA BucketsRest ==
  ASSUME RoleStep, Telling', ~BucketMoves
  PROVE  LeftBuckets' = LeftBuckets /\ bucket' = bucket /\ pc \notin BucketSteps /\ pc' \notin BucketSteps
<1> USE DEF LeftBuckets, BeforeLoops, PolicyLoop, BucketLoop, BucketSteps, Goto, Fail, Lost, ItemDone,
            Quiet, Writes, server, Telling, Complete
<1>1. CASE Preflight \/ ProbeAdmin \/ ReadBuckets \/ ReadPolicies \/ ReadUsers
           \/ AssertKnownPolicies \/ NextLoop
  BY <1>1 DEF Preflight, ProbeAdmin, ReadBuckets, ReadPolicies, ReadUsers, AssertKnownPolicies, NextLoop
<1>2. CASE (\E p \in DOMAIN SpecPolicy : GetPolicy(p)) \/ PutPolicy
  BY <1>2 DEF GetPolicy, PutPolicy
<1>3. CASE (\E u \in DOMAIN SpecUser : GetUser(u)) \/ AddUser \/ RecordUser \/ GetAttached
           \/ SetAttached \/ RecordExtra
  BY <1>3 DEF GetUser, AddUser, RecordUser, GetAttached, SetAttached, RecordExtra
<1>4. CASE \E u \in DOMAIN SpecUser : ProbeUser(u) \/ ProbeFails(u)
  BY <1>4 DEF ProbeUser, ProbeFails
<1>5. CASE RecordUnmanaged \/ Gates \/ CallFails
  BY <1>5 DEF RecordUnmanaged, Gates, CallFails
<1>6. QED
  BY <1>1, <1>2, <1>3, <1>4, <1>5 DEF RoleStep, BucketMoves

\* The module compares effective states, DesiredState what the states do: a
\* bucket must move exactly if it does not do what the spec asks for.
LEMMA MovesExactly ==
  ASSUME NEW b \in DOMAIN SpecBucket, NEW v \in {"unconfigured", "enabled", "suspended"}
  PROVE  MustMove(b, v) <=> VersioningDiffers(b, v)
<1>1. SpecBucket[b].versioning \in {Unset, "enabled", "suspended"}
  BY SpecItems DEF BucketSpec
<1>2. QED
  BY <1>1 DEF MustMove, VersioningDiffers, Effective, KeepsVersions

\* The invariant of the next state, spelled out.
LEMMA BucketsNext ==
  BucketsInv' <=> (Telling' => /\ BucketsSettled(pc', mode', item', bucket', base'.bucket, LeftBuckets')
                               /\ BucketAtWork(pc', mode', item', bucket', base'.bucket, moved'))
  BY DEF BucketsInv, BucketsSettled, BucketAtWork, BucketWas, Alike, VersioningDiffers, KeepsVersions, Ruled,
         BucketSteps, NewBucket

\* An update of one field of one bucket leaves the other field, and the others, alone.
LEMMA BucketUpdate ==
  ASSUME bucket \in PartialFn(Buckets, BucketState), item \in DOMAIN bucket,
         NEW v, NEW r, bucket' = [bucket EXCEPT ![item] = [versioning |-> v, rules |-> r]]
  PROVE  /\ DOMAIN bucket' = DOMAIN bucket
         /\ bucket'[item].versioning = v /\ bucket'[item].rules = r
         /\ \A c \in DOMAIN bucket : c # item => bucket'[c] = bucket[c]
<1>1. bucket = [c \in DOMAIN bucket |-> bucket[c]]
  BY PartialFnElim
<1>2. QED
  BY <1>1

\* What a step of the bucket loop finds: the bucket at work is one of the spec.
LEMMA BucketInHand ==
  ASSUME TypeOK, InHand, Underway, BucketsInv, Telling, pc \in BucketSteps
  PROVE  /\ item \in todo /\ item \in DOMAIN SpecBucket /\ todo \subseteq DOMAIN SpecBucket
         /\ LeftBuckets = todo
         /\ BucketsSettled(pc, mode, item, bucket, base.bucket, todo)
         /\ BucketAtWork(pc, mode, item, bucket, base.bucket, moved)
         /\ item \in DOMAIN bucket =>
              bucket[item].versioning \in {"unconfigured", "enabled", "suspended"}
<1>1. LeftBuckets = todo
  BY DEF LeftBuckets, BucketLoop, BeforeLoops, PolicyLoop, BucketSteps
<1>2. item \in DOMAIN bucket => bucket[item] \in BucketState
  BY PartialFnElim DEF TypeOK
<1>3. QED
  BY <1>1, <1>2 DEF InHand, Underway, BucketLoop, BucketsInv, BucketState

LEMMA BucketMovesKeep ==
  ASSUME TypeOK, InHand, Underway, FoundInv, BucketsInv, RoleStep, Telling', BucketMoves
  PROVE  BucketsInv'
<1>0. /\ Telling /\ UNCHANGED <<base, mode>> /\ ~ (pc' = "idle" /\ outcome' = "failed")
      /\ mode = "check" => bucket = base.bucket
      /\ mode \in {"check", "converge"}
  BY TellingOn DEF FoundInv, Server, TypeOK
<1> SUFFICES /\ BucketsSettled(pc', mode, item', bucket', base.bucket, LeftBuckets')
             /\ BucketAtWork(pc', mode, item', bucket', base.bucket, moved')
  BY <1>0, BucketsNext
<1> USE DEF BucketSteps
<1>1. CASE \E b \in DOMAIN SpecBucket : HeadBucket(b)
  <2>1. PICK b \in DOMAIN SpecBucket : HeadBucket(b)
    BY <1>1
  <2>2. /\ pc = "buckets" /\ b \in todo /\ item' = b /\ bucket' = bucket /\ todo' = todo
        /\ \/ b \in DOMAIN bucket /\ pc' = "getVersioning"
           \/ b \notin DOMAIN bucket /\ mode = "check" /\ pc' = "recordBucket"
              /\ moved' = MustMove(b, "unconfigured")
           \/ b \notin DOMAIN bucket /\ mode # "check" /\ pc' = "createBucket"
    BY <2>1 DEF HeadBucket, Quiet, server, Goto, Dry
  <2>3. LeftBuckets = todo /\ LeftBuckets' = todo
    BY <2>2 DEF LeftBuckets, BucketLoop, BeforeLoops, PolicyLoop
  <2>4. BucketsSettled("buckets", mode, item, bucket, base.bucket, todo) /\ Alike(bucket, base.bucket, b)
    BY <1>0, <2>2, <2>3 DEF BucketsInv, BucketsSettled
  <2>5. BucketsSettled(pc', mode, b, bucket, base.bucket, todo)
    BY <2>4 DEF BucketsSettled
  <2>6. moved' = MustMove(b, "unconfigured") => (moved' <=> VersioningDiffers(b, "unconfigured"))
    BY MovesExactly
  <2>7. BucketAtWork(pc', mode, b, bucket, base.bucket, moved')
    BY <1>0, <2>2, <2>4, <2>6 DEF BucketAtWork, BucketWas, Alike, NewBucket
  <2>8. QED
    BY <2>2, <2>3, <2>5, <2>7
<1>2. CASE CreateBucket
  <2>1. /\ pc = "createBucket" /\ pc' = "getVersioning" /\ UNCHANGED <<todo, item, moved>>
        /\ bucket' = IF item \in DOMAIN bucket THEN bucket ELSE Put(bucket, item, NewBucket)
    BY <1>0, <1>2 DEF CreateBucket, Lost, Goto, cursor
  <2>2. LeftBuckets' = todo
    BY <2>1 DEF LeftBuckets, BucketLoop, BeforeLoops, PolicyLoop
  <2>3. Alike(bucket, base.bucket, item) /\ item \notin DOMAIN base.bucket
    BY <1>0, <2>1, BucketInHand DEF BucketsSettled, BucketAtWork
  <2>4. /\ item \in DOMAIN bucket' /\ bucket'[item] = NewBucket
        /\ \A c : c # item => Alike(bucket', bucket, c)
    BY <2>1, <2>3 DEF Put, Alike
  <2>5. BucketsSettled(pc', mode, item, bucket', base.bucket, todo)
    BY <1>0, <2>1, <2>4, BucketInHand DEF BucketsSettled, Alike
  <2>6. BucketAtWork(pc', mode, item, bucket', base.bucket, moved)
    BY <2>1, <2>3, <2>4 DEF BucketAtWork, BucketWas
  <2>7. QED
    BY <2>1, <2>2, <2>5, <2>6
<1>3. CASE GetVersioning
  <2>1. /\ pc = "getVersioning" /\ item \in DOMAIN bucket /\ UNCHANGED <<bucket, todo, item>>
        /\ moved' = MustMove(item, bucket[item].versioning)
        /\ \/ pc' = "putVersioning" /\ mode # "check" /\ MustMove(item, bucket[item].versioning)
           \/ pc' = "recordBucket" /\ (mode = "check" \/ ~MustMove(item, bucket[item].versioning))
    BY <1>0, <1>3 DEF GetVersioning, Fail, Goto, Dry, Quiet, server
  <2>2. LeftBuckets' = todo
    BY <2>1 DEF LeftBuckets, BucketLoop, BeforeLoops, PolicyLoop
  <2>3. MustMove(item, bucket[item].versioning) <=> VersioningDiffers(item, bucket[item].versioning)
    BY <1>0, <2>1, BucketInHand, MovesExactly
  <2>4. BucketsSettled(pc', mode, item, bucket, base.bucket, todo)
    BY <1>0, <2>1, BucketInHand DEF BucketsSettled
  <2>5. BucketAtWork("getVersioning", mode, item, bucket, base.bucket, moved)
    BY <1>0, <2>1, BucketInHand
  <2>6. BucketAtWork(pc', mode, item, bucket, base.bucket, moved')
    BY <2>1, <2>3, <2>5 DEF BucketAtWork
  <2>7. QED
    BY <2>1, <2>2, <2>4, <2>6
<1>4. CASE PutVersioning
  <2>1. /\ pc = "putVersioning" /\ pc' = "recordBucket" /\ UNCHANGED <<todo, item, moved>>
        /\ item \in DOMAIN bucket
        /\ bucket' = [bucket EXCEPT ![item].versioning = SpecBucket[item].versioning]
    BY <1>0, <1>4 DEF PutVersioning, Fail, Lost, Goto, cursor
  <2>2. LeftBuckets' = todo
    BY <2>1 DEF LeftBuckets, BucketLoop, BeforeLoops, PolicyLoop
  <2>3. bucket[item] \in BucketState
    BY <2>1, PartialFnElim DEF TypeOK
  <2>4. bucket' = [bucket EXCEPT ![item] = [versioning |-> SpecBucket[item].versioning,
                                            rules |-> bucket[item].rules]]
    <3>1. [bucket[item] EXCEPT !.versioning = SpecBucket[item].versioning] = [versioning |-> SpecBucket[item].versioning,
             rules |-> bucket[item].rules]
      BY <2>3 DEF BucketState
    <3>2. bucket' = [bucket EXCEPT ![item] = [bucket[item] EXCEPT !.versioning = SpecBucket[item].versioning]]
      BY <2>1
    <3>3. QED
      BY <3>1, <3>2
  <2>5. /\ DOMAIN bucket' = DOMAIN bucket
        /\ bucket'[item].versioning = SpecBucket[item].versioning
        /\ bucket'[item].rules = bucket[item].rules
        /\ \A c \in DOMAIN bucket : c # item => bucket'[c] = bucket[c]
    BY <2>1, <2>4, BucketUpdate DEF TypeOK
  <2>6. BucketsSettled(pc', mode, item, bucket', base.bucket, todo)
    BY <1>0, <2>1, <2>5, BucketInHand DEF BucketsSettled, Alike
  <2>7. ~VersioningDiffers(item, bucket'[item].versioning)
    BY <2>5 DEF VersioningDiffers
  <2>8. BucketAtWork("putVersioning", mode, item, bucket, base.bucket, moved)
    BY <1>0, <2>1, BucketInHand
  <2>9. BucketAtWork(pc', mode, item, bucket', base.bucket, moved)
    BY <2>1, <2>5, <2>7, <2>8 DEF BucketAtWork
  <2>10. QED
    BY <2>1, <2>2, <2>6, <2>9
<1>5. CASE RecordBucket
  <2>1. /\ pc = "recordBucket" /\ UNCHANGED <<bucket, item, moved>>
        /\ \/ pc' = "getRules" /\ todo' = todo
           \/ pc' = "buckets" /\ todo' = todo \ {item} /\ SpecBucket[item].rules = Unset
    BY <1>5 DEF RecordBucket, ItemDone, Goto, cursor, Quiet, server
  <2>2. LeftBuckets' = todo'
    BY <2>1 DEF LeftBuckets, BucketLoop, BeforeLoops, PolicyLoop
  <2>3. /\ BucketsSettled("recordBucket", mode, item, bucket, base.bucket, todo)
        /\ BucketAtWork("recordBucket", mode, item, bucket, base.bucket, moved)
    BY <1>0, <2>1, BucketInHand
  <2>4. BucketsSettled(pc', mode, item, bucket, base.bucket, todo')
    BY <2>1, <2>3 DEF BucketsSettled, BucketAtWork, Ruled
  <2>5. BucketAtWork(pc', mode, item, bucket, base.bucket, moved)
    BY <2>1, <2>3 DEF BucketAtWork
  <2>6. QED
    BY <2>1, <2>2, <2>4, <2>5
<1>6. CASE GetRules
  <2> DEFINE now == IF item \in DOMAIN bucket THEN bucket[item].rules ELSE NoRules
  <2>1. /\ pc = "getRules" /\ UNCHANGED <<bucket, item, moved>>
        /\ \/ pc' = "putRules" /\ todo' = todo /\ mode # "check" /\ now # SpecBucket[item].rules
           \/ /\ pc' = "buckets" /\ todo' = todo \ {item}
              /\ mode = "check" \/ now = SpecBucket[item].rules
    BY <1>6 DEF GetRules, ItemDone, Goto, cursor, Quiet, server, Dry
  <2>2. LeftBuckets' = todo'
    BY <2>1 DEF LeftBuckets, BucketLoop, BeforeLoops, PolicyLoop
  <2>3. /\ BucketsSettled("getRules", mode, item, bucket, base.bucket, todo)
        /\ BucketAtWork("getRules", mode, item, bucket, base.bucket, moved)
    BY <1>0, <2>1, BucketInHand
  <2>4. BucketsSettled(pc', mode, item, bucket, base.bucket, todo')
    BY <1>0, <2>1, <2>3 DEF BucketsSettled, BucketAtWork
  <2>5. BucketAtWork(pc', mode, item, bucket, base.bucket, moved)
    BY <1>0, <2>1, <2>3 DEF BucketAtWork
  <2>6. QED
    BY <2>1, <2>2, <2>4, <2>5
<1>7. CASE PutRules
  <2>1. /\ pc = "putRules" /\ pc' = "buckets" /\ todo' = todo \ {item} /\ UNCHANGED <<item, moved>>
        /\ item \in DOMAIN bucket
        /\ bucket' = [bucket EXCEPT ![item].rules = SpecBucket[item].rules]
    BY <1>0, <1>7 DEF PutRules, Fail, Lost, ItemDone, Goto, cursor
  <2>2. LeftBuckets' = todo'
    BY <2>1 DEF LeftBuckets, BucketLoop, BeforeLoops, PolicyLoop
  <2>3. bucket[item] \in BucketState
    BY <2>1, PartialFnElim DEF TypeOK
  <2>4. bucket' = [bucket EXCEPT ![item] = [versioning |-> bucket[item].versioning,
                                            rules |-> SpecBucket[item].rules]]
    <3>1. [bucket[item] EXCEPT !.rules = SpecBucket[item].rules] = [versioning |-> bucket[item].versioning,
             rules |-> SpecBucket[item].rules]
      BY <2>3 DEF BucketState
    <3>2. bucket' = [bucket EXCEPT ![item] = [bucket[item] EXCEPT !.rules = SpecBucket[item].rules]]
      BY <2>1
    <3>3. QED
      BY <3>1, <3>2
  <2>5. /\ DOMAIN bucket' = DOMAIN bucket
        /\ bucket'[item].versioning = bucket[item].versioning
        /\ bucket'[item].rules = SpecBucket[item].rules
        /\ \A c \in DOMAIN bucket : c # item => bucket'[c] = bucket[c]
    BY <2>1, <2>4, BucketUpdate DEF TypeOK
  <2>6. /\ BucketsSettled("putRules", mode, item, bucket, base.bucket, todo)
        /\ BucketAtWork("putRules", mode, item, bucket, base.bucket, moved)
    BY <1>0, <2>1, BucketInHand
  <2>7. BucketsSettled(pc', mode, item, bucket', base.bucket, todo')
    BY <2>1, <2>5, <2>6 DEF BucketsSettled, BucketAtWork, Alike
  <2>8. BucketAtWork(pc', mode, item, bucket', base.bucket, moved)
    BY <2>1 DEF BucketAtWork
  <2>9. QED
    BY <2>1, <2>2, <2>7, <2>8
<1>8. QED
  BY <1>1, <1>2, <1>3, <1>4, <1>5, <1>6, <1>7 DEF BucketMoves

LEMMA BucketsStep ==
  ASSUME TypeOK, InHand, Underway, FoundInv, BucketsInv, [Next]_vars
  PROVE  BucketsInv'
<1> SUFFICES ASSUME Telling' PROVE BucketsInv'
  BY DEF BucketsInv
<1>1. CASE RoleStep
  <2>1. CASE BucketMoves
    BY <1>1, <2>1, BucketMovesKeep
  <2>2. CASE ~BucketMoves
    <3>1. Telling /\ UNCHANGED <<base, mode, bucket, LeftBuckets>> /\ pc \notin BucketSteps /\ pc' \notin BucketSteps
      BY <1>1, <2>2, TellingOn, BucketsRest
    <3>2. BucketsSettled(pc', mode, item', bucket, base.bucket, LeftBuckets)
      BY <3>1 DEF BucketsInv, BucketsSettled
    <3>3. BucketAtWork(pc', mode, item', bucket, base.bucket, moved')
      BY <3>1 DEF BucketAtWork, BucketSteps
    <3>4. QED
      BY <3>1, <3>2, <3>3, BucketsNext
  <2>3. QED
    BY <2>1, <2>2
<1>2. CASE \E m \in {"check", "converge"} : StartRun(m)
  <2>1. /\ pc' = "preflight" /\ base'.bucket = bucket /\ bucket' = bucket
        /\ LeftBuckets' = DOMAIN SpecBucket
    BY <1>2 DEF StartRun, LeftBuckets, BeforeLoops, Server, server
  <2>2. BucketsSettled(pc', mode', item', bucket', base'.bucket, LeftBuckets')
    BY <2>1 DEF BucketsSettled, Alike
  <2>3. BucketAtWork(pc', mode', item', bucket', base'.bucket, moved')
    BY <2>1 DEF BucketAtWork, BucketSteps
  <2>4. QED
    BY <2>2, <2>3, BucketsNext
<1>3. CASE UNCHANGED vars
  <2>1. UNCHANGED <<pc, mode, item, bucket, base, moved, LeftBuckets, Telling>>
    BY <1>3 DEF vars, hist, server, cursor, LeftBuckets, Telling, Complete
  <2>2. QED
    BY <2>1, BucketsNext DEF BucketsInv
<1>4. QED
  BY <1>1, <1>2, <1>3, TellingKept

-----------------------------------------------------------------------------
(* The users.                                                              *)

UserMoves == \/ \E u \in DOMAIN SpecUser : GetUser(u)
             \/ AddUser \/ RecordUser \/ GetAttached \/ SetAttached \/ RecordExtra

\* Outside their loop the users, done and left, stand still.
LEMMA UsersRest ==
  ASSUME RoleStep, Telling', ~UserMoves
  PROVE  LeftUsers' = LeftUsers /\ user' = user /\ pc \notin UserSteps /\ pc' \notin UserSteps
<1> USE DEF LeftUsers, BeforeLoops, PolicyLoop, BucketLoop, UserLoop, BucketSteps, UserSteps, Goto, Fail,
            Lost, ItemDone, Quiet, Writes, server, Telling, Complete
<1>1. CASE Preflight \/ ProbeAdmin \/ ReadBuckets \/ ReadPolicies \/ ReadUsers
           \/ AssertKnownPolicies \/ NextLoop
  BY <1>1 DEF Preflight, ProbeAdmin, ReadBuckets, ReadPolicies, ReadUsers, AssertKnownPolicies, NextLoop
<1>2. CASE (\E p \in DOMAIN SpecPolicy : GetPolicy(p)) \/ PutPolicy
  BY <1>2 DEF GetPolicy, PutPolicy
<1>3. CASE (\E b \in DOMAIN SpecBucket : HeadBucket(b)) \/ CreateBucket \/ GetVersioning
           \/ PutVersioning \/ RecordBucket \/ GetRules \/ PutRules
  BY <1>3 DEF HeadBucket, CreateBucket, GetVersioning, PutVersioning, RecordBucket, GetRules, PutRules
<1>4. CASE \E u \in DOMAIN SpecUser : ProbeUser(u) \/ ProbeFails(u)
  BY <1>4 DEF ProbeUser, ProbeFails
<1>5. CASE RecordUnmanaged \/ Gates \/ CallFails
  BY <1>5 DEF RecordUnmanaged, Gates, CallFails
<1>6. QED
  BY <1>1, <1>2, <1>3, <1>4, <1>5 DEF RoleStep, UserMoves

\* The invariant of the next state, spelled out.
LEMMA UsersNext ==
  UsersInv' <=> (Telling' => /\ UsersSettled(pc', mode', item', user', base'.user, LeftUsers')
                             /\ UserAtWork(pc', mode', item', user', base'.user))
  BY DEF UsersInv, UsersSettled, UserAtWork, Attachments, Alike, UserSteps

\* What a step of the user loop finds: the user at work is one of the spec.
LEMMA UserInHand ==
  ASSUME TypeOK, InHand, Underway, UsersInv, Telling, pc \in UserSteps
  PROVE  /\ item \in todo /\ item \in DOMAIN SpecUser /\ todo \subseteq DOMAIN SpecUser
         /\ LeftUsers = todo
         /\ UsersSettled(pc, mode, item, user, base.user, todo)
         /\ UserAtWork(pc, mode, item, user, base.user)
<1>1. LeftUsers = todo
  BY DEF LeftUsers, UserLoop, BucketLoop, BeforeLoops, PolicyLoop, BucketSteps, UserSteps
<1>2. QED
  BY <1>1 DEF InHand, Underway, UserLoop, UsersInv

\* In the loops the snapshot of a user tells what was attached to it.
LEMMA SnapTells ==
  ASSUME SnapInv, Telling, pc \notin BeforeLoops, NEW u
  PROVE  /\ SnapAttached(u) = Attachments(base.user, u)
         /\ DOMAIN snap.users = DOMAIN base.user
  BY DEF SnapInv, SnapAttached, Attachments, BeforeLoops

LEMMA UserMovesKeep ==
  ASSUME TypeOK, InHand, StillSo, Underway, SnapInv, UsersInv, RoleStep, Telling', UserMoves
  PROVE  UsersInv'
<1>0. /\ Telling /\ calm /\ UNCHANGED <<base, mode>> /\ ~ (pc' = "idle" /\ outcome' = "failed")
      /\ mode \in {"check", "converge"}
  BY TellingOn DEF TypeOK
<1> SUFFICES /\ UsersSettled(pc', mode, item', user', base.user, LeftUsers')
             /\ UserAtWork(pc', mode, item', user', base.user)
  BY <1>0, UsersNext
<1> USE DEF UserSteps
<1>1. CASE \E u \in DOMAIN SpecUser : GetUser(u)
  <2>1. PICK u \in DOMAIN SpecUser : GetUser(u)
    BY <1>1
  <2>2. /\ pc = "users" /\ u \in todo /\ item' = u /\ user' = user /\ todo' = todo
        /\ \/ u \in DOMAIN user /\ pc' = "recordUser"
           \/ u \notin DOMAIN user /\ mode = "check" /\ pc' = "recordUser"
           \/ u \notin DOMAIN user /\ mode # "check" /\ pc' = "addUser"
    BY <1>0, <2>1 DEF GetUser, Quiet, server, Goto, Dry
  <2>3. LeftUsers = todo /\ LeftUsers' = todo
    BY <2>2 DEF LeftUsers, UserLoop, BucketLoop, BeforeLoops, PolicyLoop, BucketSteps
  <2>4. UsersSettled("users", mode, item, user, base.user, todo) /\ Alike(user, base.user, u)
    BY <1>0, <2>2, <2>3 DEF UsersInv, UsersSettled
  <2>5. UsersSettled(pc', mode, u, user, base.user, todo)
    BY <2>4 DEF UsersSettled
  <2>6. UserAtWork(pc', mode, u, user, base.user)
    BY <1>0, <2>2, <2>4 DEF UserAtWork, Attachments, Alike
  <2>7. QED
    BY <2>2, <2>3, <2>5, <2>6
<1>2. CASE AddUser
  <2>1. /\ pc = "addUser" /\ pc' = "recordUser" /\ UNCHANGED <<todo, item>>
        /\ item \notin DOMAIN user
    BY <1>0, <1>2 DEF AddUser, Lost, Goto, cursor, StillSo
  <2>2. user' = Put(user, item, NewUser(SpecUser[item].secret))
    BY <1>2, <2>1 DEF AddUser
  <2>3. LeftUsers' = todo
    BY <2>1 DEF LeftUsers, UserLoop, BucketLoop, BeforeLoops, PolicyLoop, BucketSteps
  <2>4. /\ item \in DOMAIN user' /\ user'[item].attached = {}
        /\ \A v : v # item => Alike(user', user, v)
    BY <2>2 DEF Put, Alike, NewUser
  <2>5. /\ UsersSettled("addUser", mode, item, user, base.user, todo)
        /\ UserAtWork("addUser", mode, item, user, base.user)
    BY <1>0, <2>1, UserInHand
  <2>6. UsersSettled(pc', mode, item, user', base.user, todo)
    BY <1>0, <2>1, <2>4, <2>5, UserInHand DEF UsersSettled, Alike
  <2>7. UserAtWork(pc', mode, item, user', base.user)
    BY <2>1, <2>4, <2>5 DEF UserAtWork, Attachments
  <2>8. QED
    BY <2>1, <2>3, <2>6, <2>7
<1>3. CASE RecordUser
  <2>1. /\ pc = "recordUser" /\ UNCHANGED <<user, todo, item>>
        /\ \/ pc' = "getAttached"
           \/ pc' = "recordExtra" /\ (mode = "check" \/ SpecUser[item].policies \ SnapAttached(item) = {})
    BY <1>3 DEF RecordUser, Goto, cursor, Quiet, server, Dry
  <2>2. LeftUsers' = todo
    BY <2>1 DEF LeftUsers, UserLoop, BucketLoop, BeforeLoops, PolicyLoop, BucketSteps
  <2>3. /\ UsersSettled("recordUser", mode, item, user, base.user, todo)
        /\ UserAtWork("recordUser", mode, item, user, base.user)
    BY <1>0, <2>1, UserInHand
  <2>4. SnapAttached(item) = Attachments(base.user, item)
    BY <1>0, <2>1, SnapTells DEF BeforeLoops
  <2>5. UsersSettled(pc', mode, item, user, base.user, todo)
    BY <2>1, <2>3 DEF UsersSettled
  <2>6. UserAtWork(pc', mode, item, user, base.user)
    BY <1>0, <2>1, <2>3, <2>4 DEF UserAtWork
  <2>7. QED
    BY <2>1, <2>2, <2>5, <2>6
<1>4. CASE GetAttached
  <2>1. /\ pc = "getAttached" /\ UNCHANGED <<user, todo, item>> /\ item \in DOMAIN user
        /\ \/ pc' = "setAttached"
           \/ pc' = "recordExtra" /\ (mode = "check" \/ SpecUser[item].policies \subseteq user[item].attached)
    BY <1>0, <1>4 DEF GetAttached, DesiredAttachment, Fail, Goto, cursor, Quiet, server, Dry
  <2>2. LeftUsers' = todo
    BY <2>1 DEF LeftUsers, UserLoop, BucketLoop, BeforeLoops, PolicyLoop, BucketSteps
  <2>3. /\ UsersSettled("getAttached", mode, item, user, base.user, todo)
        /\ UserAtWork("getAttached", mode, item, user, base.user)
    BY <1>0, <2>1, UserInHand
  <2>4. UsersSettled(pc', mode, item, user, base.user, todo)
    BY <2>1, <2>3 DEF UsersSettled
  <2>5. UserAtWork(pc', mode, item, user, base.user)
    BY <1>0, <2>1, <2>3 DEF UserAtWork, Attachments
  <2>6. QED
    BY <2>1, <2>2, <2>4, <2>5
<1>5. CASE SetAttached
  <2>1. /\ pc = "setAttached" /\ pc' = "recordExtra" /\ UNCHANGED <<todo, item>>
        /\ item \in DOMAIN user /\ user' = [user EXCEPT ![item].attached = held]
        /\ held = user[item].attached \cup SpecUser[item].policies
    BY <1>0, <1>5 DEF SetAttached, Fail, Lost, Goto, cursor, StillSo
  <2>2. LeftUsers' = todo
    BY <2>1 DEF LeftUsers, UserLoop, BucketLoop, BeforeLoops, PolicyLoop, BucketSteps
  <2>3. user[item] \in UserState /\ user = [v \in DOMAIN user |-> user[v]]
    BY <2>1, PartialFnElim DEF TypeOK
  <2>4. /\ DOMAIN user' = DOMAIN user /\ user'[item].attached = held
        /\ \A v \in DOMAIN user : v # item => user'[v] = user[v]
    BY <2>1, <2>3 DEF UserState
  <2>5. /\ UsersSettled("setAttached", mode, item, user, base.user, todo)
        /\ UserAtWork("setAttached", mode, item, user, base.user)
    BY <1>0, <2>1, UserInHand
  <2>6. UsersSettled(pc', mode, item, user', base.user, todo)
    BY <1>0, <2>1, <2>4, <2>5, UserInHand DEF UsersSettled, Alike
  <2>7. UserAtWork(pc', mode, item, user', base.user)
    BY <2>1, <2>4 DEF UserAtWork, Attachments
  <2>8. QED
    BY <2>1, <2>2, <2>6, <2>7
<1>6. CASE RecordExtra
  <2>1. pc = "recordExtra" /\ pc' = "users" /\ UNCHANGED <<user, item>> /\ todo' = todo \ {item}
    BY <1>6 DEF RecordExtra, ItemDone, Goto, Quiet, server
  <2>2. LeftUsers' = todo'
    BY <2>1 DEF LeftUsers, UserLoop, BucketLoop, BeforeLoops, PolicyLoop, BucketSteps
  <2>3. /\ UsersSettled("recordExtra", mode, item, user, base.user, todo)
        /\ UserAtWork("recordExtra", mode, item, user, base.user)
    BY <1>0, <2>1, UserInHand
  <2>4. UsersSettled(pc', mode, item, user, base.user, todo')
    BY <2>1, <2>3 DEF UsersSettled, UserAtWork, Attachments
  <2>5. UserAtWork(pc', mode, item, user, base.user)
    BY <2>1 DEF UserAtWork
  <2>6. QED
    BY <2>1, <2>2, <2>4, <2>5
<1>7. QED
  BY <1>1, <1>2, <1>3, <1>4, <1>5, <1>6 DEF UserMoves

LEMMA UsersStep ==
  ASSUME TypeOK, InHand, StillSo, Underway, SnapInv, UsersInv, [Next]_vars
  PROVE  UsersInv'
<1> SUFFICES ASSUME Telling' PROVE UsersInv'
  BY DEF UsersInv
<1>1. CASE RoleStep
  <2>1. CASE UserMoves
    BY <1>1, <2>1, UserMovesKeep
  <2>2. CASE ~UserMoves
    <3>1. Telling /\ UNCHANGED <<base, mode, user, LeftUsers>> /\ pc \notin UserSteps /\ pc' \notin UserSteps
      BY <1>1, <2>2, TellingOn, UsersRest
    <3>2. UsersSettled(pc', mode, item', user, base.user, LeftUsers)
      BY <3>1 DEF UsersInv, UsersSettled
    <3>3. UserAtWork(pc', mode, item', user, base.user)
      BY <3>1 DEF UserAtWork, UserSteps
    <3>4. QED
      BY <3>1, <3>2, <3>3, UsersNext
  <2>3. QED
    BY <2>1, <2>2
<1>2. CASE \E m \in {"check", "converge"} : StartRun(m)
  <2>1. /\ pc' = "preflight" /\ base'.user = user /\ user' = user /\ LeftUsers' = DOMAIN SpecUser
    BY <1>2 DEF StartRun, LeftUsers, BeforeLoops, Server, server
  <2>2. UsersSettled(pc', mode', item', user', base'.user, LeftUsers')
    BY <2>1 DEF UsersSettled, Alike
  <2>3. UserAtWork(pc', mode', item', user', base'.user)
    BY <2>1 DEF UserAtWork, UserSteps
  <2>4. QED
    BY <2>2, <2>3, UsersNext
<1>3. CASE UNCHANGED vars
  <2>1. UNCHANGED <<pc, mode, item, user, base, LeftUsers, Telling>>
    BY <1>3 DEF vars, hist, server, cursor, LeftUsers, Telling, Complete
  <2>2. QED
    BY <2>1, UsersNext DEF UsersInv
<1>4. QED
  BY <1>1, <1>2, <1>3, TellingKept

-----------------------------------------------------------------------------
(* The report.                                                             *)

\* The entries in the report are those of the items reported of.
LEMMA ReportedIn ==
  ASSUME NEW s, NEW P, NEW M, NEW R, NEW U, NEW e
  PROVE  e \in Reported(s, P, M, R, U) <=>
           \/ \E p \in P : e \in PolicyEntries(s, p)
           \/ \E b \in M : e \in MakeEntries(s, b)
           \/ \E b \in R : e \in RulesEntries(s, b)
           \/ \E u \in U : e \in UserEntries(s, u)
  BY Zenon DEF Reported

\* The entries of a policy, a bucket and a user, as the tasks make them.
LEMMA PolicyEntry ==
  ASSUME NEW s, NEW p
  PROVE  /\ p \in DOMAIN s.policy /\ s.policy[p] = SpecPolicy[p] => PolicyEntries(s, p) = {}
         /\ ~(p \in DOMAIN s.policy /\ s.policy[p] = SpecPolicy[p]) =>
              PolicyEntries(s, p) = {<<"policy", p, IF p \in DOMAIN s.policy THEN "update" ELSE "create">>}
  BY DEF PolicyEntries

LEMMA BucketEntries ==
  ASSUME NEW s, NEW b
  PROVE  /\ MakeEntries(s, b) =
              {<<"bucket", c, "create">> : c \in {b} \ DOMAIN s.bucket}
              \cup (IF VersioningDiffers(b, BucketWas(s.bucket, b).versioning)
                    THEN {<<"bucket", b, "versioning">>} ELSE {})
         /\ RulesEntries(s, b) = IF b \in Ruled /\ BucketWas(s.bucket, b).rules # SpecBucket[b].rules
                                 THEN {<<"bucket", b, "lifecycle">>} ELSE {}
<1>1. BucketOr(s, b) = BucketWas(s.bucket, b)
  BY DEF BucketOr, BucketWas
<1>2. MakeEntries(s, b) =
        {<<"bucket", c, "create">> : c \in {b} \ DOMAIN s.bucket}
        \cup (IF VersioningDiffers(b, BucketWas(s.bucket, b).versioning)
              THEN {<<"bucket", b, "versioning">>} ELSE {})
  BY <1>1 DEF MakeEntries
<1>3. RulesEntries(s, b) = IF b \in Ruled /\ BucketWas(s.bucket, b).rules # SpecBucket[b].rules
                           THEN {<<"bucket", b, "lifecycle">>} ELSE {}
  BY <1>1 DEF RulesEntries
<1>4. QED
  BY <1>2, <1>3

LEMMA UserEntry ==
  ASSUME NEW s, NEW u
  PROVE  UserEntries(s, u) =
           {<<"user", v, "create">> : v \in {u} \ DOMAIN s.user}
           \cup (IF SpecUser[u].policies \ Attachments(s.user, u) # {}
                 THEN {<<"user", u, "attach", SpecUser[u].policies \ Attachments(s.user, u)>>} ELSE {})
<1>1. Missing(s, u) = SpecUser[u].policies \ Attachments(s.user, u)
  BY DEF Missing, AttachedTo, Attachments
<1>2. QED
  BY <1>1 DEF UserEntries

\* The invariant of the next state, spelled out.
LEMMA ChangesNext ==
  ChangesInv' <=>
    (Telling' => changes' = Reported(base', ToldPolicies', ToldMakes', ToldRules', ToldUsers'))
  BY DEF ChangesInv, Reported, PolicyEntries, MakeEntries, RulesEntries, UserEntries, Ruled,
     VersioningDiffers, KeepsVersions, BucketOr, Missing, AttachedTo, NewBucket

\* The steps that make entries; the others leave the report alone.
Recording == \/ \E p \in DOMAIN SpecPolicy : GetPolicy(p)
             \/ PutPolicy \/ RecordBucket \/ GetRules \/ PutRules \/ RecordUser

LEMMA ChangesRest ==
  ASSUME RoleStep, ~Recording, Telling'
  PROVE  changes' = changes
<1> USE DEF Goto, Fail, Lost, ItemDone, report, cursor, Quiet, Telling, Complete
<1>1. CASE Preflight \/ ProbeAdmin \/ ReadBuckets \/ ReadPolicies \/ ReadUsers
           \/ AssertKnownPolicies \/ NextLoop
  BY <1>1 DEF Preflight, ProbeAdmin, ReadBuckets, ReadPolicies, ReadUsers, AssertKnownPolicies, NextLoop
<1>2. CASE (\E b \in DOMAIN SpecBucket : HeadBucket(b)) \/ CreateBucket \/ GetVersioning \/ PutVersioning
  BY <1>2 DEF HeadBucket, CreateBucket, GetVersioning, PutVersioning
<1>3. CASE (\E u \in DOMAIN SpecUser : GetUser(u)) \/ AddUser \/ GetAttached \/ SetAttached \/ RecordExtra
  BY <1>3 DEF GetUser, AddUser, GetAttached, SetAttached, RecordExtra
<1>4. CASE \E u \in DOMAIN SpecUser : ProbeUser(u) \/ ProbeFails(u)
  BY <1>4 DEF ProbeUser, ProbeFails, RecordDead
<1>5. CASE RecordUnmanaged \/ Gates \/ CallFails
  BY <1>5 DEF RecordUnmanaged, Gates, CallFails
<1>6. QED
  BY <1>1, <1>2, <1>3, <1>4, <1>5 DEF RoleStep, Recording

\* What has been reported of moves with the steps that make entries alone.
LEMMA ToldRest ==
  ASSUME TypeOK, InHand, Underway, BucketsInv, UsersInv, RoleStep, Telling'
  PROVE  /\ ~(\E p \in DOMAIN SpecPolicy : GetPolicy(p)) /\ ~PutPolicy => ToldPolicies' = ToldPolicies
         /\ ~(RecordBucket \/ GetRules \/ PutRules) => ToldMakes' = ToldMakes /\ ToldRules' = ToldRules
         /\ ~RecordUser => ToldUsers' = ToldUsers
<1>0. Telling /\ ~ (pc' = "idle" /\ outcome' = "failed")
  BY TellingOn
<1>1. ~(\E p \in DOMAIN SpecPolicy : GetPolicy(p)) /\ ~PutPolicy => ToldPolicies' = ToldPolicies
  BY PoliciesRest DEF ToldPolicies
<1>2. ASSUME ~(RecordBucket \/ GetRules \/ PutRules)
      PROVE  ToldMakes' = ToldMakes /\ ToldRules' = ToldRules
  <2>1. CASE ~BucketMoves
    BY <2>1, BucketsRest DEF ToldMakes, ToldRules, BucketSteps
  <2>2. CASE BucketMoves
    <3>1. /\ pc \notin {"getRules", "putRules"} /\ pc' \notin {"getRules", "putRules"}
          /\ pc \in BucketLoop /\ pc' \in BucketLoop /\ todo' = todo
      BY <1>0, <1>2, <2>2 DEF BucketMoves, HeadBucket, CreateBucket, GetVersioning, PutVersioning,
         Goto, Fail, Lost, cursor, BucketLoop, BucketSteps
    <3>2. LeftBuckets' = LeftBuckets
      BY <3>1 DEF LeftBuckets, BucketLoop, BucketSteps, BeforeLoops, PolicyLoop
    <3>3. QED
      BY <3>1, <3>2 DEF ToldMakes, ToldRules
  <2>3. QED
    BY <2>1, <2>2
<1>3. ASSUME ~RecordUser
      PROVE  ToldUsers' = ToldUsers
  <2> USE DEF Goto, Fail, Lost, cursor, UserLoop, UserSteps
  <2>0. pc \in UserLoop => LeftUsers = todo
    BY DEF LeftUsers, BeforeLoops, PolicyLoop, BucketLoop, BucketSteps
  <2>1. pc' \in UserLoop => LeftUsers' = todo'
    BY DEF LeftUsers, BeforeLoops, PolicyLoop, BucketLoop, BucketSteps
  <2>2. CASE ~UserMoves
    BY <2>2, UsersRest DEF ToldUsers, DoneUsers
  <2>3. CASE \E u \in DOMAIN SpecUser : GetUser(u)
    BY <1>0, <2>0, <2>1, <2>3 DEF GetUser, ToldUsers, DoneUsers
  <2>4. CASE AddUser
    BY <1>0, <2>0, <2>1, <2>4 DEF AddUser, ToldUsers, DoneUsers
  <2>5. CASE GetAttached \/ SetAttached
    BY <1>0, <2>0, <2>1, <2>5 DEF GetAttached, SetAttached, ToldUsers, DoneUsers
  <2>6. CASE RecordExtra
    <3>1. pc = "recordExtra" /\ pc' = "users" /\ item' = item /\ todo' = todo \ {item}
      BY <2>6 DEF RecordExtra, ItemDone
    <3>2. item \in todo /\ item \in DOMAIN SpecUser
      BY <1>0, <3>1, UserInHand
    <3>3. QED
      BY <2>0, <2>1, <3>1, <3>2 DEF ToldUsers, DoneUsers
  <2>7. QED
    BY <1>3, <2>2, <2>3, <2>4, <2>5, <2>6 DEF UserMoves
<1>4. QED
  BY <1>1, <1>2, <1>3

\* The policies' entries: one of a policy that is not as the spec asks.
LEMMA PolicyTold ==
  ASSUME TypeOK, InHand, Underway, SnapInv, PoliciesInv, BucketsInv, UsersInv, ChangesInv, RoleStep,
         Telling', (\E p \in DOMAIN SpecPolicy : GetPolicy(p)) \/ PutPolicy
  PROVE  changes' = Reported(base, ToldPolicies', ToldMakes', ToldRules', ToldUsers')
<1>1. Telling /\ ~ (pc' = "idle" /\ outcome' = "failed") /\ pc \in PolicyLoop /\ todo \subseteq DOMAIN SpecPolicy
  BY TellingOn DEF GetPolicy, PutPolicy, PolicyLoop, Underway
<1>2. UNCHANGED <<ToldMakes, ToldRules, ToldUsers>>
  BY <1>1, ToldRest DEF RecordBucket, GetRules, PutRules, RecordUser, PolicyLoop
<1>3. LeftPolicies = todo /\ snap.policies = DOMAIN base.policy
  BY <1>1 DEF LeftPolicies, PolicyLoop, BeforeLoops, SnapInv
<1>4. changes = Reported(base, ToldPolicies, ToldMakes, ToldRules, ToldUsers)
  BY <1>1 DEF ChangesInv
<1> SUFFICES \/ ToldPolicies' = ToldPolicies /\ changes' = changes
             \/ \E p : /\ ToldPolicies' = ToldPolicies \cup {p}
                       /\ changes' = changes \cup PolicyEntries(base, p)
  <2>1. \A p : Reported(base, ToldPolicies \cup {p}, ToldMakes, ToldRules, ToldUsers)
                 = Reported(base, ToldPolicies, ToldMakes, ToldRules, ToldUsers) \cup PolicyEntries(base, p)
    BY ReportedIn
  <2>2. QED
    BY <1>2, <1>4, <2>1
<1>5. CASE \E p \in DOMAIN SpecPolicy : GetPolicy(p)
  <2>1. PICK p \in DOMAIN SpecPolicy : GetPolicy(p)
    BY <1>5
  <2>2. p \in todo /\ Alike(policy, base.policy, p)
    BY <1>1, <1>3, <2>1 DEF GetPolicy, PoliciesInv
  <2>3. \/ pc' = "putPolicy" /\ todo' = todo /\ changes' = changes
        \/ pc' = "policies" /\ todo' = todo \ {p} /\ changes' = changes /\ PolicySynced(p)
        \/ /\ pc' = "policies" /\ todo' = todo \ {p} /\ ~PolicySynced(p)
           /\ changes' = changes \cup {<<"policy", p, IF p \in DOMAIN base.policy THEN "update" ELSE "create">>}
    BY <1>3, <2>1 DEF GetPolicy, RecordPolicy, Goto, report, PolicySynced
  <2>4. PolicySynced(p) => PolicyEntries(base, p) = {}
    BY <2>2, PolicyEntry DEF PolicySynced, Alike
  <2>5. ~PolicySynced(p) =>
          PolicyEntries(base, p) = {<<"policy", p, IF p \in DOMAIN base.policy THEN "update" ELSE "create">>}
    BY <2>2, PolicyEntry DEF PolicySynced, Alike
  <2>6. LeftPolicies' = todo'
    BY <2>3 DEF LeftPolicies, PolicyLoop, BeforeLoops
  <2>7. todo' = todo \ {p} => ToldPolicies' = ToldPolicies \cup {p}
    BY <1>3, <2>2, <2>6 DEF ToldPolicies
  <2>8. todo' = todo => ToldPolicies' = ToldPolicies
    BY <1>3, <2>6 DEF ToldPolicies
  <2>9. QED
    BY <2>3, <2>4, <2>5, <2>7, <2>8
<1>6. CASE PutPolicy
  <2>1. /\ pc = "putPolicy" /\ pc' = "policies" /\ todo' = todo \ {item} /\ item \in todo
        /\ changes' = changes \cup {<<"policy", item, IF item \in DOMAIN base.policy THEN "update" ELSE "create">>}
    BY <1>1, <1>3, <1>6 DEF PutPolicy, Lost, ItemDone, Goto, RecordPolicy, Underway
  <2>2. Alike(policy, base.policy, item) /\ ~PolicySynced(item) /\ item \in DOMAIN SpecPolicy
    BY <1>1, <1>3, <2>1 DEF PoliciesInv
  <2>3. PolicyEntries(base, item) = {<<"policy", item, IF item \in DOMAIN base.policy THEN "update" ELSE "create">>}
    BY <2>2, PolicyEntry DEF PolicySynced, Alike
  <2>4. ToldPolicies' = ToldPolicies \cup {item}
    BY <1>3, <2>1, <2>2 DEF ToldPolicies, LeftPolicies, PolicyLoop, BeforeLoops
  <2>5. QED
    BY <2>1, <2>3, <2>4
<1>7. QED
  BY <1>5, <1>6

\* The buckets' entries: the bucket module's make one, the lifecycle module's another.
LEMMA BucketTold ==
  ASSUME TypeOK, InHand, Underway, FoundInv, SnapInv, BucketsInv, UsersInv, ChangesInv, RoleStep,
         Telling', RecordBucket \/ GetRules \/ PutRules
  PROVE  changes' = Reported(base, ToldPolicies', ToldMakes', ToldRules', ToldUsers')
<1> DEFINE was == BucketWas(base.bucket, item)
<1>1. /\ Telling /\ ~ (pc' = "idle" /\ outcome' = "failed")
      /\ pc \in {"recordBucket", "getRules", "putRules"}
      /\ mode = "check" => bucket = base.bucket
      /\ mode \in {"check", "converge"}
  <2>1. Telling /\ ~ (pc' = "idle" /\ outcome' = "failed")
    BY TellingOn
  <2>2. pc \in {"recordBucket", "getRules", "putRules"}
    BY DEF RecordBucket, GetRules, PutRules
  <2>3. QED
    BY <2>1, <2>2 DEF FoundInv, Telling, Server, TypeOK
<1>2. UNCHANGED <<ToldPolicies, ToldUsers>>
  BY <1>1, ToldRest DEF GetPolicy, PutPolicy, RecordUser
<1>3. /\ item \in todo /\ item \in DOMAIN SpecBucket /\ LeftBuckets = todo
      /\ BucketAtWork(pc, mode, item, bucket, base.bucket, moved)
  BY <1>1, BucketInHand DEF BucketSteps
<1>4. changes = Reported(base, ToldPolicies, ToldMakes, ToldRules, ToldUsers)
  BY <1>1 DEF ChangesInv
<1>5. snap.buckets = DOMAIN base.bucket
  BY <1>1 DEF SnapInv
<1>6. CASE RecordBucket
  <2>1. /\ pc = "recordBucket" /\ item' = item
        /\ changes' = changes \cup {<<"bucket", c, "create">> : c \in {item} \ DOMAIN base.bucket}
                              \cup (IF moved THEN {<<"bucket", item, "versioning">>} ELSE {})
        /\ \/ item \in Ruled /\ pc' = "getRules" /\ todo' = todo
           \/ item \notin Ruled /\ pc' = "buckets" /\ todo' = todo \ {item}
    BY <1>3, <1>5, <1>6 DEF RecordBucket, Ruled, ItemDone, Goto, cursor
  <2>2. moved <=> VersioningDiffers(item, was.versioning)
    BY <1>3, <2>1 DEF BucketAtWork
  <2>3. changes' = changes \cup MakeEntries(base, item)
    BY <2>1, <2>2, BucketEntries
  <2>4. LeftBuckets' = todo' /\ ToldMakes = ToldRules
    BY <2>1 DEF LeftBuckets, BucketLoop, BucketSteps, BeforeLoops, PolicyLoop, ToldMakes
  <2>5. CASE item \in Ruled
    <3>1. ToldRules' = ToldRules /\ ToldMakes' = ToldMakes \cup {item}
      BY <1>3, <2>1, <2>4, <2>5 DEF ToldRules, ToldMakes
    <3>2. Reported(base, ToldPolicies, ToldMakes \cup {item}, ToldRules, ToldUsers)
            = Reported(base, ToldPolicies, ToldMakes, ToldRules, ToldUsers) \cup MakeEntries(base, item)
      BY ReportedIn
    <3>3. QED
      BY <1>2, <1>4, <2>3, <3>1, <3>2
  <2>6. CASE item \notin Ruled
    <3>1. ToldRules' = ToldRules \cup {item} /\ ToldMakes' = ToldMakes \cup {item}
      BY <1>3, <2>1, <2>4, <2>6 DEF ToldRules, ToldMakes
    <3>2. RulesEntries(base, item) = {}
      BY <2>6, BucketEntries
    <3>3. Reported(base, ToldPolicies, ToldMakes \cup {item}, ToldRules \cup {item}, ToldUsers)
            = Reported(base, ToldPolicies, ToldMakes \cup {item}, ToldRules, ToldUsers)
              \cup RulesEntries(base, item)
      BY ReportedIn
    <3>4. Reported(base, ToldPolicies, ToldMakes \cup {item}, ToldRules, ToldUsers)
            = Reported(base, ToldPolicies, ToldMakes, ToldRules, ToldUsers) \cup MakeEntries(base, item)
      BY ReportedIn
    <3>5. QED
      BY <1>2, <1>4, <2>3, <3>1, <3>2, <3>3, <3>4
  <2>7. QED
    BY <2>5, <2>6
<1>7. CASE GetRules \/ PutRules
  <2>1. pc \in {"getRules", "putRules"} /\ item \in Ruled /\ item' = item
    BY <1>1, <1>3, <1>7 DEF GetRules, PutRules, InHand, Ruled, ItemDone, cursor, Lost, Fail
  <2>2. ToldMakes = ToldRules \cup {item}
    BY <2>1 DEF ToldMakes
  <2>3. \/ pc' = "putRules" /\ todo' = todo /\ changes' = changes
        \/ pc' = "buckets" /\ todo' = todo \ {item} /\ changes' = changes \cup RulesEntries(base, item)
    <3>1. CASE GetRules
      <4> DEFINE now == IF item \in DOMAIN bucket THEN bucket[item].rules ELSE NoRules
      <4>1. now = was.rules
        BY <1>1, <1>3, <3>1 DEF GetRules, BucketAtWork, BucketSteps, BucketWas, NewBucket
      <4>2. \/ pc' = "putRules" /\ todo' = todo /\ changes' = changes
            \/ pc' = "buckets" /\ todo' = todo \ {item} /\ changes' = changes /\ now = SpecBucket[item].rules
            \/ /\ pc' = "buckets" /\ todo' = todo \ {item} /\ now # SpecBucket[item].rules
               /\ changes' = changes \cup {<<"bucket", item, "lifecycle">>}
        BY <3>1 DEF GetRules, RecordRules, ItemDone, Goto, report, cursor
      <4>3. QED
        BY <2>1, <4>1, <4>2, BucketEntries
    <3>2. CASE PutRules
      <4>1. /\ pc = "putRules" /\ pc' = "buckets" /\ todo' = todo \ {item}
            /\ changes' = changes \cup {<<"bucket", item, "lifecycle">>}
        BY <1>1, <3>2 DEF PutRules, Fail, Lost, RecordRules, ItemDone, Goto
      <4>2. was.rules # SpecBucket[item].rules
        BY <1>3, <4>1 DEF BucketAtWork
      <4>3. QED
        BY <2>1, <4>1, <4>2, BucketEntries
    <3>3. QED
      BY <1>7, <3>1, <3>2
  <2>4. LeftBuckets' = todo'
    BY <2>3 DEF LeftBuckets, BucketLoop, BucketSteps, BeforeLoops, PolicyLoop
  <2>5. CASE pc' = "putRules"
    <3>1. ToldRules' = ToldRules /\ ToldMakes' = ToldMakes
      BY <1>3, <2>1, <2>2, <2>3, <2>4, <2>5 DEF ToldRules, ToldMakes
    <3>2. QED
      BY <1>2, <1>4, <2>3, <2>5, <3>1
  <2>6. CASE pc' = "buckets"
    <3>1. ToldRules' = ToldRules \cup {item} /\ ToldMakes' = ToldMakes
      BY <1>3, <2>1, <2>2, <2>3, <2>4, <2>6 DEF ToldRules, ToldMakes
    <3>2. Reported(base, ToldPolicies, ToldMakes, ToldRules \cup {item}, ToldUsers)
            = Reported(base, ToldPolicies, ToldMakes, ToldRules, ToldUsers) \cup RulesEntries(base, item)
      BY ReportedIn
    <3>3. QED
      BY <1>2, <1>4, <2>3, <2>6, <3>1, <3>2
  <2>7. QED
    BY <2>3, <2>5, <2>6
<1>8. QED
  BY <1>6, <1>7

\* The users' entries are made of the snapshot, in one step.
LEMMA UserTold ==
  ASSUME TypeOK, InHand, Underway, SnapInv, BucketsInv, UsersInv, ChangesInv, RoleStep, Telling',
         RecordUser
  PROVE  changes' = Reported(base, ToldPolicies', ToldMakes', ToldRules', ToldUsers')
<1>1. Telling /\ pc = "recordUser" /\ pc' \in {"getAttached", "recordExtra"} /\ UNCHANGED <<todo, item>>
  BY TellingOn DEF RecordUser, Goto, cursor
<1>2. UNCHANGED <<ToldPolicies, ToldMakes, ToldRules>>
  BY <1>1, ToldRest DEF GetPolicy, PutPolicy, RecordBucket, GetRules, PutRules
<1>3. item \in todo /\ item \in DOMAIN SpecUser
  BY <1>1, UserInHand DEF UserSteps
<1>4. ToldUsers' = ToldUsers \cup {item}
  BY <1>1, <1>3 DEF ToldUsers, DoneUsers, LeftUsers, BeforeLoops, PolicyLoop, BucketLoop, BucketSteps,
     UserLoop, UserSteps
<1>5. SnapAttached(item) = Attachments(base.user, item) /\ DOMAIN snap.users = DOMAIN base.user
  BY <1>1, SnapTells DEF BeforeLoops
<1>6. changes' = changes \cup UserEntries(base, item)
  BY <1>5, UserEntry DEF RecordUser
<1>7. Reported(base, ToldPolicies, ToldMakes, ToldRules, ToldUsers \cup {item})
        = Reported(base, ToldPolicies, ToldMakes, ToldRules, ToldUsers) \cup UserEntries(base, item)
  BY ReportedIn
<1>8. changes = Reported(base, ToldPolicies, ToldMakes, ToldRules, ToldUsers)
  BY <1>1 DEF ChangesInv
<1>9. QED
  BY <1>2, <1>4, <1>6, <1>7, <1>8

LEMMA ChangesStep ==
  ASSUME TypeOK, InHand, Underway, FoundInv, SnapInv, PoliciesInv, BucketsInv, UsersInv, ChangesInv,
         [Next]_vars
  PROVE  ChangesInv'
<1> SUFFICES ASSUME Telling' PROVE ChangesInv'
  BY DEF ChangesInv
<1>1. CASE RoleStep
  <2>1. base' = base /\ Telling
    BY <1>1, TellingOn
  <2>2. CASE ~Recording
    <3>1. UNCHANGED <<changes, ToldPolicies, ToldMakes, ToldRules, ToldUsers>>
      BY <1>1, <2>2, ChangesRest, ToldRest DEF Recording
    <3>2. QED
      BY <2>1, <3>1, ChangesNext DEF ChangesInv
  <2>3. CASE Recording
    BY <1>1, <2>1, <2>3, PolicyTold, BucketTold, UserTold, ChangesNext DEF Recording
  <2>4. QED
    BY <2>2, <2>3
<1>2. CASE \E m \in {"check", "converge"} : StartRun(m)
  <2>1. pc' = "preflight" /\ changes' = {}
    BY <1>2 DEF StartRun
  <2>2. ToldPolicies' = {} /\ ToldMakes' = {} /\ ToldRules' = {} /\ ToldUsers' = {}
    BY <2>1 DEF ToldPolicies, ToldMakes, ToldRules, ToldUsers, DoneUsers, LeftPolicies, LeftBuckets,
       LeftUsers, BeforeLoops
  <2>3. changes' = Reported(base', ToldPolicies', ToldMakes', ToldRules', ToldUsers')
    BY <2>1, <2>2, ReportedIn
  <2>4. QED
    BY <2>3, ChangesNext
<1>3. CASE UNCHANGED vars
  <2>1. UNCHANGED <<base, changes, pc, item, todo, Telling>>
    BY <1>3 DEF vars, hist, cursor, report, Telling, Complete
  <2>2. UNCHANGED <<ToldPolicies, ToldMakes, ToldRules, ToldUsers>>
    BY <2>1 DEF ToldPolicies, ToldMakes, ToldRules, ToldUsers, DoneUsers, LeftPolicies, LeftBuckets, LeftUsers
  <2>3. QED
    BY <2>1, <2>2, ChangesNext DEF ChangesInv
<1>4. QED
  BY <1>1, <1>2, <1>3, TellingKept

-----------------------------------------------------------------------------
(* What the spec does not speak of, the dead credentials and the verdict.  *)

\* Two steps apart, the unmanaged part of the report stands still.
LEMMA UnmanagedRest ==
  ASSUME RoleStep, ~RecordExtra, ~RecordUnmanaged, Telling'
  PROVE  /\ unmanaged' = unmanaged /\ LeftUsers' = LeftUsers
         /\ pc' \in {"idle", "gates"} <=> pc \in {"idle", "gates"}
<1>0. Telling /\ ~ (pc' = "idle" /\ outcome' = "failed")
  BY TellingOn
<1> USE DEF Goto, Fail, Lost, ItemDone, report, cursor
<1>1. CASE ~UserMoves
  <2>1. LeftUsers' = LeftUsers
    BY <1>1, UsersRest
  <2>2. CASE Preflight \/ ProbeAdmin \/ ReadBuckets \/ ReadPolicies \/ ReadUsers
             \/ AssertKnownPolicies \/ NextLoop
    BY <1>0, <2>1, <2>2 DEF Preflight, ProbeAdmin, ReadBuckets, ReadPolicies, ReadUsers,
       AssertKnownPolicies, NextLoop
  <2>3. CASE (\E p \in DOMAIN SpecPolicy : GetPolicy(p)) \/ PutPolicy
    BY <1>0, <2>1, <2>3 DEF GetPolicy, PutPolicy, RecordPolicy
  <2>4. CASE (\E b \in DOMAIN SpecBucket : HeadBucket(b)) \/ CreateBucket \/ GetVersioning
             \/ PutVersioning \/ RecordBucket
    BY <1>0, <2>1, <2>4 DEF HeadBucket, CreateBucket, GetVersioning, PutVersioning, RecordBucket
  <2>5. CASE GetRules \/ PutRules
    BY <1>0, <2>1, <2>5 DEF GetRules, PutRules, RecordRules
  <2>6. CASE \E u \in DOMAIN SpecUser : ProbeUser(u) \/ ProbeFails(u)
    BY <1>0, <2>1, <2>6 DEF ProbeUser, ProbeFails, RecordDead
  <2>7. CASE Gates \/ CallFails
    BY <1>0, <2>1, <2>7 DEF Gates, CallFails
  <2>8. QED
    BY <1>1, <2>2, <2>3, <2>4, <2>5, <2>6, <2>7 DEF RoleStep, UserMoves
<1>2. CASE UserMoves
  <2>1. unmanaged' = unmanaged /\ todo' = todo /\ pc \in UserLoop /\ pc' \in UserLoop
    BY <1>0, <1>2 DEF UserMoves, GetUser, AddUser, RecordUser, GetAttached, SetAttached, UserLoop, UserSteps
  <2>2. QED
    BY <2>1 DEF LeftUsers, BeforeLoops, PolicyLoop, BucketLoop, BucketSteps, UserLoop, UserSteps
<1>3. QED
  BY <1>1, <1>2

LEMMA ExtrasIn ==
  ASSUME NEW s, NEW U, NEW e
  PROVE  e \in Extras(s, U) <=> \E u \in U : e \in ExtraEntries(s, u)
  BY Zenon DEF Extras

LEMMA UnmanagedNext ==
  UnmanagedInv' <=> (Telling' =>
    /\ pc' \in {"idle", "gates"} => unmanaged' = Unmanaged(base') \ Ignored
    /\ pc' \notin {"idle", "gates"} => unmanaged' = Extras(base', DoneUsers'))
  BY DEF UnmanagedInv, Unmanaged, Extras, ExtraEntries, AttachedTo

LEMMA UnmanagedStep ==
  ASSUME TypeOK, InHand, Underway, SnapInv, UsersInv, UnmanagedInv, [Next]_vars
  PROVE  UnmanagedInv'
<1> SUFFICES ASSUME Telling' PROVE UnmanagedInv'
  BY DEF UnmanagedInv
<1>1. CASE RoleStep
  <2>1. base' = base /\ Telling
    BY <1>1, TellingOn
  <2>2. CASE ~RecordExtra /\ ~RecordUnmanaged
    <3>1. UNCHANGED <<unmanaged, DoneUsers>> /\ (pc' \in {"idle", "gates"} <=> pc \in {"idle", "gates"})
      BY <1>1, <2>2, UnmanagedRest DEF DoneUsers
    <3>2. QED
      BY <2>1, <3>1, UnmanagedNext DEF UnmanagedInv
  <2>3. CASE RecordExtra
    <3>1. pc = "recordExtra" /\ pc' = "users" /\ item' = item /\ todo' = todo \ {item}
      BY <2>3 DEF RecordExtra, ItemDone, Goto
    <3>2. item \in todo /\ item \in DOMAIN SpecUser /\ LeftUsers = todo
      BY <2>1, <3>1, UserInHand DEF UserSteps
    <3>3. DoneUsers' = DoneUsers \cup {item}
      BY <3>1, <3>2 DEF DoneUsers, LeftUsers, BeforeLoops, PolicyLoop, BucketLoop, BucketSteps,
         UserLoop, UserSteps
    <3>4. SnapAttached(item) = AttachedTo(base, item)
      BY <2>1, <3>1, SnapTells DEF BeforeLoops, Attachments, AttachedTo
    <3>5. unmanaged' = unmanaged \cup ExtraEntries(base, item)
      BY <2>3, <3>4 DEF RecordExtra, ExtraEntries
    <3>6. Extras(base, DoneUsers \cup {item}) = Extras(base, DoneUsers) \cup ExtraEntries(base, item)
      BY ExtrasIn
    <3>7. unmanaged = Extras(base, DoneUsers)
      BY <2>1, <3>1 DEF UnmanagedInv
    <3>8. QED
      BY <2>1, <3>1, <3>3, <3>5, <3>6, <3>7, UnmanagedNext
  <2>4. CASE RecordUnmanaged
    <3>1. pc = "record" /\ pc' = "gates"
      BY <2>4 DEF RecordUnmanaged, Goto
    <3>2. DoneUsers = DOMAIN SpecUser
      BY <3>1 DEF DoneUsers, LeftUsers, BeforeLoops, PolicyLoop, BucketLoop, BucketSteps, UserLoop, UserSteps
    <3>3. /\ unmanaged = Extras(base, DOMAIN SpecUser)
          /\ snap.buckets = DOMAIN base.bucket /\ snap.policies = DOMAIN base.policy
          /\ DOMAIN snap.users = DOMAIN base.user
      BY <2>1, <3>1, <3>2, SnapTells DEF UnmanagedInv, SnapInv, BeforeLoops
    <3>4. \A e : e \in Extras(base, DOMAIN SpecUser) <=>
                 e \in {<<"user", u, "extra", AttachedTo(base, u) \ SpecUser[u].policies>> :
                        u \in {v \in DOMAIN SpecUser : ~ AttachedTo(base, v) \subseteq SpecUser[v].policies}}
      BY ExtrasIn DEF ExtraEntries
    <3>5. unmanaged' = Unmanaged(base) \ Ignored
      BY <2>4, <3>3, <3>4 DEF RecordUnmanaged, Allowlisted, Unmanaged
    <3>6. QED
      BY <2>1, <3>1, <3>5, UnmanagedNext
  <2>5. QED
    BY <2>2, <2>3, <2>4
<1>2. CASE \E m \in {"check", "converge"} : StartRun(m)
  <2>1. pc' = "preflight" /\ unmanaged' = {}
    BY <1>2 DEF StartRun
  <2>2. DoneUsers' = {}
    BY <2>1 DEF DoneUsers, LeftUsers, BeforeLoops
  <2>3. unmanaged' = Extras(base', DoneUsers')
    BY <2>1, <2>2, ExtrasIn
  <2>4. QED
    BY <2>1, <2>3, UnmanagedNext
<1>3. CASE UNCHANGED vars
  <2>1. UNCHANGED <<base, unmanaged, pc, todo, Telling>>
    BY <1>3 DEF vars, hist, cursor, report, Telling, Complete
  <2>2. DoneUsers' = DoneUsers
    BY <2>1 DEF DoneUsers, LeftUsers
  <2>3. QED
    BY <2>1, <2>2, UnmanagedNext DEF UnmanagedInv
<1>4. QED
  BY <1>1, <1>2, <1>3, TellingKept

\* The probes apart, a step leaves the dead credentials alone, and whom it has
\* probed; and the probed users' server too, once there are such users.
LEMMA DeadRest ==
  ASSUME RoleStep, ~(\E u \in DOMAIN SpecUser : ProbeUser(u) \/ ProbeFails(u)), Telling'
  PROVE  /\ UNCHANGED <<dead, faults>>
         /\ \/ LeftProbes = Probed /\ LeftProbes' = Probed'
            \/ UNCHANGED <<server, Probed, LeftProbes>>
<1>0. Telling /\ ~ (pc' = "idle" /\ outcome' = "failed")
  BY TellingOn
<1> USE DEF Goto, Fail, Lost, ItemDone, report, cursor, Quiet, Writes
<1>1. CASE Preflight \/ ProbeAdmin \/ ReadBuckets \/ ReadPolicies \/ ReadUsers \/ AssertKnownPolicies
  BY <1>0, <1>1 DEF Preflight, ProbeAdmin, ReadBuckets, ReadPolicies, ReadUsers,
     AssertKnownPolicies, LeftProbes
<1>2. CASE NextLoop
  <2>1. UNCHANGED <<server, dead, faults, Probed>>
    BY <1>2 DEF NextLoop, Probed, Dry
  <2>2. \/ pc \in {"policies", "buckets"} /\ pc' \in {"buckets", "users"}
        \/ pc = "users" /\ pc' = "liveness" /\ todo' = Probed
        \/ pc = "liveness" /\ pc' = "record" /\ todo = {}
    BY <1>2 DEF NextLoop
  <2>3. QED
    BY <2>1, <2>2 DEF LeftProbes
<1>3. CASE (\E p \in DOMAIN SpecPolicy : GetPolicy(p)) \/ PutPolicy
  BY <1>0, <1>3 DEF GetPolicy, PutPolicy, RecordPolicy, LeftProbes
<1>4. CASE (\E b \in DOMAIN SpecBucket : HeadBucket(b)) \/ CreateBucket \/ GetVersioning
           \/ PutVersioning \/ RecordBucket
  BY <1>0, <1>4 DEF HeadBucket, CreateBucket, GetVersioning, PutVersioning, RecordBucket, LeftProbes
<1>5. CASE GetRules \/ PutRules
  BY <1>0, <1>5 DEF GetRules, PutRules, RecordRules, LeftProbes
<1>6. CASE (\E u \in DOMAIN SpecUser : GetUser(u)) \/ AddUser \/ RecordUser \/ GetAttached
           \/ SetAttached \/ RecordExtra
  BY <1>0, <1>6 DEF GetUser, AddUser, RecordUser, GetAttached, SetAttached, RecordExtra, LeftProbes
<1>7. CASE RecordUnmanaged \/ Gates
  <2>1. UNCHANGED <<server, dead, faults, Probed>>
    BY <1>7 DEF RecordUnmanaged, Gates, Probed, Dry
  <2>2. QED
    BY <1>7, <2>1 DEF RecordUnmanaged, Gates, LeftProbes
<1>8. CASE CallFails
  BY <1>0, <1>8 DEF CallFails
<1>9. QED
  BY <1>1, <1>2, <1>3, <1>4, <1>5, <1>6, <1>7, <1>8 DEF RoleStep

\* The invariant of the next state, spelled out.
LEMMA DeadNext ==
  DeadInv' <=> (Telling' =>
    /\ \A u \in Probed' \ LeftProbes' : ~Usable(Server', u) => u \in dead'
    /\ faults' = 0 => \A u \in dead' : u \in Probed' \ LeftProbes' /\ ~Usable(Server', u))
  BY DEF DeadInv, Usable

LEMMA DeadStep ==
  ASSUME TypeOK, Underway, DeadInv, [Next]_vars
  PROVE  DeadInv'
<1> SUFFICES ASSUME Telling' PROVE DeadInv'
  BY DEF DeadInv
<1>1. CASE RoleStep
  <2>1. Telling
    BY <1>1, TellingOn
  <2>2. CASE ~(\E u \in DOMAIN SpecUser : ProbeUser(u) \/ ProbeFails(u))
    <3>1. UNCHANGED server => Server' = Server
      BY DEF server, Server
    <3>2. QED
      BY <1>1, <2>1, <2>2, <3>1, DeadRest, DeadNext DEF DeadInv
  <2>3. CASE \E u \in DOMAIN SpecUser : ProbeUser(u) \/ ProbeFails(u)
    <3>1. PICK u \in DOMAIN SpecUser : ProbeUser(u) \/ ProbeFails(u)
      BY <2>3
    <3>2. /\ pc = "liveness" /\ pc' = "liveness" /\ u \in todo /\ todo' = todo \ {u}
          /\ UNCHANGED <<server, Probed>>
      BY <3>1 DEF ProbeUser, ProbeFails, Goto, Quiet, Probed, Dry
    <3>3. Server' = Server /\ u \in Probed
      BY <3>2 DEF server, Server, Underway
    <3>4. LeftProbes = todo /\ LeftProbes' = todo \ {u}
      BY <3>2 DEF LeftProbes
    <3>5. Probed' \ LeftProbes' = (Probed \ LeftProbes) \cup {u}
      BY <3>2, <3>3, <3>4
    <3>6. CASE ProbeUser(u)
      <4>1. faults' = faults /\ dead' = dead \cup {v \in {u} : ~Usable(Server, v)}
        BY <3>6 DEF ProbeUser, RecordDead, report, Goto
      <4>2. QED
        BY <2>1, <3>3, <3>5, <4>1, DeadNext DEF DeadInv
    <3>7. CASE ProbeFails(u)
      <4>1. faults' # 0 /\ dead' = dead \cup {u}
        BY <3>7 DEF ProbeFails, RecordDead, TypeOK
      <4>2. QED
        BY <2>1, <3>3, <3>5, <4>1, DeadNext DEF DeadInv
    <3>8. QED
      BY <3>1, <3>6, <3>7
  <2>4. QED
    BY <2>2, <2>3
<1>2. CASE \E m \in {"check", "converge"} : StartRun(m)
  <2>1. pc' = "preflight" /\ dead' = {}
    BY <1>2 DEF StartRun
  <2>2. LeftProbes' = Probed'
    BY <2>1 DEF LeftProbes
  <2>3. QED
    BY <2>1, <2>2, DeadNext
<1>3. CASE UNCHANGED vars
  <2>1. UNCHANGED <<server, dead, faults, pc, todo, mode, snap, Telling>>
    BY <1>3 DEF vars, hist, cursor, report, Telling, Complete
  <2>2. UNCHANGED <<Server, Probed, LeftProbes>>
    BY <2>1 DEF server, Server, Probed, Dry, LeftProbes
  <2>3. QED
    BY <2>1, <2>2, DeadNext DEF DeadInv
<1>4. QED
  BY <1>1, <1>2, <1>3, TellingKept

LEMMA GreenStep ==
  ASSUME GreenInv, [Next]_vars
  PROVE  GreenInv'
<1>1. CASE RoleStep
  <2> SUFFICES ASSUME pc' = "idle", outcome' = "ok" PROVE GreenInv'
    BY DEF GreenInv
  <2>1. Gates
    BY <1>1, RoleStepFrame
  <2>2. Verdict = "ok" /\ UNCHANGED <<changes, dead, mode>>
    BY <2>1 DEF Gates, report, Quiet
  <2>3. QED
    BY <2>2 DEF Verdict, Dry, GreenInv
<1>2. CASE \E m \in {"check", "converge"} : StartRun(m)
  BY <1>2 DEF StartRun, GreenInv
<1>3. CASE Operator
  BY <1>3 DEF Operator, GreenInv, report
<1>4. CASE UNCHANGED vars
  BY <1>4 DEF vars, GreenInv, report
<1>5. QED
  BY <1>1, <1>2, <1>3, <1>4 DEF Next

-----------------------------------------------------------------------------
(* The merge, kind by kind.                                                *)

MergedPolicies(f) == [p \in DOMAIN f \cup DOMAIN SpecPolicy |->
                        IF p \in DOMAIN SpecPolicy THEN SpecPolicy[p] ELSE f[p]]
BucketMerged(f, b) ==
  [versioning |-> IF b \in DOMAIN SpecBucket /\ VersioningDiffers(b, BucketWas(f, b).versioning)
                  THEN SpecBucket[b].versioning ELSE BucketWas(f, b).versioning,
   rules      |-> IF b \in Ruled THEN SpecBucket[b].rules ELSE BucketWas(f, b).rules]
MergedBuckets(f) == [b \in DOMAIN f \cup DOMAIN SpecBucket |-> BucketMerged(f, b)]
UserWas(f, u) == IF u \in DOMAIN f THEN f[u] ELSE NewUser(SpecUser[u].secret)
UserMerged(f, u) == IF u \in DOMAIN SpecUser
                    THEN [UserWas(f, u) EXCEPT !.attached = @ \cup SpecUser[u].policies]
                    ELSE UserWas(f, u)
MergedUsers(f) == [u \in DOMAIN f \cup DOMAIN SpecUser |-> UserMerged(f, u)]

LEMMA MergedParts ==
  ASSUME NEW s
  PROVE  Merged(s) = [policy |-> MergedPolicies(s.policy), bucket |-> MergedBuckets(s.bucket),
                      user |-> MergedUsers(s.user)]
<1>1. \A b : BucketOr(s, b) = BucketWas(s.bucket, b)
  BY DEF BucketOr, BucketWas
<1>2. Merged(s).policy = MergedPolicies(s.policy)
  BY DEF Merged, MergedPolicies
<1>3. Merged(s).bucket = MergedBuckets(s.bucket)
  BY <1>1 DEF Merged, MergedBuckets, BucketMerged
<1>4. Merged(s).user = MergedUsers(s.user)
  BY DEF Merged, MergedUsers, UserMerged, UserWas
<1>5. Merged(s) = [policy |-> Merged(s).policy, bucket |-> Merged(s).bucket, user |-> Merged(s).user]
  BY DEF Merged
<1>6. QED
  BY <1>2, <1>3, <1>4, <1>5

\* A write of a run nobody interfered with takes a step of the merge: what is
\* still to merge leads to the same server.
LEMMA WritesLeadOn ==
  ASSUME TypeOK, InHand, StillSo, calm, WriteCalls
  PROVE  /\ MergedPolicies(policy') = MergedPolicies(policy)
         /\ MergedBuckets(bucket') = MergedBuckets(bucket)
         /\ MergedUsers(user') = MergedUsers(user)
<1> USE DEF InHand, BucketSteps, UserSteps, StillSo
<1>1. CASE PutPolicy
  <2>1. /\ item \in DOMAIN SpecPolicy /\ policy' = Put(policy, item, SpecPolicy[item])
        /\ UNCHANGED <<bucket, user>>
    BY <1>1 DEF PutPolicy
  <2>2. MergedPolicies(policy') = MergedPolicies(policy)
    BY <2>1 DEF MergedPolicies, Put
  <2>3. QED
    BY <2>1, <2>2
<1>2. ASSUME UNCHANGED <<policy, user>>, item \in DOMAIN SpecBucket,
             DOMAIN bucket' \cup DOMAIN SpecBucket = DOMAIN bucket \cup DOMAIN SpecBucket,
             BucketMerged(bucket', item) = BucketMerged(bucket, item),
             \A b \in DOMAIN bucket : b # item => b \in DOMAIN bucket' /\ bucket'[b] = bucket[b],
             DOMAIN bucket' \subseteq DOMAIN bucket \cup {item}
      PROVE  MergedPolicies(policy') = MergedPolicies(policy) /\ MergedBuckets(bucket') = MergedBuckets(bucket)
             /\ MergedUsers(user') = MergedUsers(user)
  <2>1. \A b : b # item => BucketWas(bucket', b) = BucketWas(bucket, b)
    BY <1>2 DEF BucketWas
  <2>2. \A b : BucketMerged(bucket', b) = BucketMerged(bucket, b)
    BY <1>2, <2>1 DEF BucketMerged
  <2>3. QED
    BY <1>2, <2>2 DEF MergedBuckets
<1>3. CASE CreateBucket
  <2>1. /\ item \in DOMAIN SpecBucket /\ item \notin DOMAIN bucket /\ UNCHANGED <<policy, user>>
        /\ bucket' = Put(bucket, item, NewBucket)
    BY <1>3 DEF CreateBucket
  <2>2. BucketWas(bucket', item) = BucketWas(bucket, item)
    BY <2>1 DEF BucketWas, Put
  <2>3. BucketMerged(bucket', item) = BucketMerged(bucket, item)
    BY <2>2 DEF BucketMerged
  <2>4. /\ DOMAIN bucket' = DOMAIN bucket \cup {item}
        /\ \A b \in DOMAIN bucket : b # item => bucket'[b] = bucket[b]
    BY <2>1 DEF Put
  <2>5. QED
    BY <1>2, <2>1, <2>3, <2>4
<1>4. CASE PutVersioning \/ PutRules
  <2>1. CASE bucket' = bucket
    BY <1>4, <2>1 DEF PutVersioning, PutRules
  <2>2. CASE bucket' # bucket
    <3>1. /\ item \in DOMAIN SpecBucket /\ item \in DOMAIN bucket /\ UNCHANGED <<policy, user>>
          /\ bucket[item] \in BucketState
      BY <1>4, <2>2, PartialFnElim DEF PutVersioning, PutRules, TypeOK
    <3>2. \/ /\ bucket' = [bucket EXCEPT ![item].versioning = SpecBucket[item].versioning]
             /\ VersioningDiffers(item, bucket[item].versioning)
          \/ bucket' = [bucket EXCEPT ![item].rules = SpecBucket[item].rules] /\ item \in Ruled
      BY <1>4, <2>2 DEF PutVersioning, PutRules, Ruled
    <3>3. PICK v, r :
            /\ bucket' = [bucket EXCEPT ![item] = [versioning |-> v, rules |-> r]]
            /\ \/ /\ v = SpecBucket[item].versioning /\ VersioningDiffers(item, bucket[item].versioning)
                  /\ r = bucket[item].rules
               \/ r = SpecBucket[item].rules /\ item \in Ruled /\ v = bucket[item].versioning
      <4>1. /\ [bucket[item] EXCEPT !.versioning = SpecBucket[item].versioning]
                 = [versioning |-> SpecBucket[item].versioning, rules |-> bucket[item].rules]
            /\ [bucket[item] EXCEPT !.rules = SpecBucket[item].rules]
                 = [versioning |-> bucket[item].versioning, rules |-> SpecBucket[item].rules]
        BY <3>1 DEF BucketState
      <4>2. CASE bucket' = [bucket EXCEPT ![item].versioning = SpecBucket[item].versioning]
                 /\ VersioningDiffers(item, bucket[item].versioning)
        BY <4>1, <4>2
      <4>3. CASE bucket' = [bucket EXCEPT ![item].rules = SpecBucket[item].rules] /\ item \in Ruled
        BY <4>1, <4>3
      <4>4. QED
        BY <3>2, <4>2, <4>3
    <3>4. /\ DOMAIN bucket' = DOMAIN bucket
          /\ bucket'[item].versioning = v /\ bucket'[item].rules = r
          /\ \A c \in DOMAIN bucket : c # item => bucket'[c] = bucket[c]
      BY <3>1, <3>3, BucketUpdate DEF TypeOK
    <3>5. /\ BucketWas(bucket', item).versioning = v /\ BucketWas(bucket', item).rules = r
          /\ BucketWas(bucket, item) = bucket[item]
      BY <3>1, <3>4 DEF BucketWas
    <3>6. v = SpecBucket[item].versioning => ~VersioningDiffers(item, v)
      BY DEF VersioningDiffers
    <3>7. BucketMerged(bucket', item) = BucketMerged(bucket, item)
      BY <3>1, <3>3, <3>5, <3>6 DEF BucketMerged
    <3>8. QED
      BY <1>2, <3>1, <3>4, <3>7
  <2>3. QED
    BY <2>1, <2>2
<1>5. ASSUME UNCHANGED <<policy, bucket>>, item \in DOMAIN SpecUser,
             UserMerged(user', item) = UserMerged(user, item),
             \A u \in DOMAIN user : u # item => user'[u] = user[u],
             DOMAIN user' = DOMAIN user \cup {item}
      PROVE  MergedPolicies(policy') = MergedPolicies(policy) /\ MergedBuckets(bucket') = MergedBuckets(bucket)
             /\ MergedUsers(user') = MergedUsers(user)
  <2>1. \A u : u # item => UserWas(user', u) = UserWas(user, u)
    BY <1>5 DEF UserWas
  <2>2. ASSUME NEW u PROVE UserMerged(user', u) = UserMerged(user, u)
    <3>1. CASE u = item
      BY <1>5, <3>1
    <3>2. CASE u # item
      <4>1. UserWas(user', u) = UserWas(user, u)
        BY <2>1, <3>2
      <4>2. QED
        BY <4>1 DEF UserMerged
    <3>3. QED
      BY <3>1, <3>2
  <2>3. QED
    BY <1>5, <2>2 DEF MergedUsers
<1>6. CASE AddUser
  <2>1. /\ item \in DOMAIN SpecUser /\ item \notin DOMAIN user /\ UNCHANGED <<policy, bucket>>
        /\ user' = Put(user, item, NewUser(SpecUser[item].secret))
    BY <1>6 DEF AddUser
  <2>2. UserWas(user', item) = UserWas(user, item)
    BY <2>1 DEF UserWas, Put
  <2>3. UserMerged(user', item) = UserMerged(user, item)
    BY <2>2 DEF UserMerged
  <2>4. /\ DOMAIN user' = DOMAIN user \cup {item}
        /\ \A u \in DOMAIN user : u # item => user'[u] = user[u]
    BY <2>1 DEF Put
  <2>5. QED
    BY <1>5, <2>1, <2>3, <2>4
<1>7. CASE SetAttached
  <2>1. CASE user' = user
    BY <1>7, <2>1 DEF SetAttached
  <2>2. CASE user' # user
    <3>1. /\ item \in DOMAIN SpecUser /\ item \in DOMAIN user /\ UNCHANGED <<policy, bucket>>
          /\ user' = [user EXCEPT ![item].attached = held]
          /\ held = user[item].attached \cup SpecUser[item].policies
      BY <1>7, <2>2 DEF SetAttached
    <3>2. user[item] \in UserState /\ user = [v \in DOMAIN user |-> user[v]]
      BY <3>1, PartialFnElim DEF TypeOK
    <3>3. /\ DOMAIN user' = DOMAIN user
          /\ user'[item] = [user[item] EXCEPT !.attached = held]
          /\ \A u \in DOMAIN user : u # item => user'[u] = user[u]
      BY <3>1, <3>2
    <3>4. UserWas(user', item) = [UserWas(user, item) EXCEPT !.attached = held] /\ UserWas(user, item) = user[item]
      BY <3>1, <3>3 DEF UserWas
    <3>5. [[user[item] EXCEPT !.attached = held] EXCEPT !.attached = @ \cup SpecUser[item].policies]
            = [user[item] EXCEPT !.attached = @ \cup SpecUser[item].policies]
      BY <3>1, <3>2 DEF UserState
    <3>6. UserMerged(user', item) = UserMerged(user, item)
      BY <3>1, <3>4, <3>5 DEF UserMerged
    <3>7. QED
      BY <1>5, <3>1, <3>3, <3>6
  <2>3. QED
    BY <2>1, <2>2
<1>8. QED
  BY <1>1, <1>3, <1>4, <1>6, <1>7 DEF WriteCalls

LEMMA HalfwayStep ==
  ASSUME TypeOK, InHand, StillSo, HalfwayIsOnTheWay, [Next]_vars
  PROVE  HalfwayIsOnTheWay'
<1>0. HalfwayIsOnTheWay' <=> (calm' /\ mode' = "converge" => Merged(Server') = Merged(base'))
  BY DEF HalfwayIsOnTheWay, Merged, Ruled, VersioningDiffers, KeepsVersions, BucketOr, NewBucket, NewUser
<1>1. CASE RoleStep
  <2> SUFFICES ASSUME calm', mode' = "converge" PROVE Merged(Server') = Merged(base')
    BY <1>0
  <2>1. calm /\ mode = "converge" /\ base' = base
    BY <1>1, RoleStepFrame
  <2>2. Merged(Server) = Merged(base)
    BY <2>1 DEF HalfwayIsOnTheWay
  <2>3. CASE WriteCalls
    <3>1. Merged(Server) = [policy |-> MergedPolicies(policy), bucket |-> MergedBuckets(bucket),
                            user |-> MergedUsers(user)]
      BY MergedParts DEF Server
    <3>2. Merged(Server') = [policy |-> MergedPolicies(policy'), bucket |-> MergedBuckets(bucket'),
                             user |-> MergedUsers(user')]
      BY MergedParts DEF Server
    <3>3. QED
      BY <2>1, <2>2, <2>3, <3>1, <3>2, WritesLeadOn
  <2>4. CASE ~WriteCalls
    <3>1. Server' = Server
      BY <1>1, <2>4, OnlyWritesWrite DEF server, Server
    <3>2. QED
      BY <2>1, <2>2, <3>1
  <2>5. QED
    BY <2>3, <2>4
<1>2. CASE \E m \in {"check", "converge"} : StartRun(m)
  <2>1. base' = Server /\ Server' = Server
    BY <1>2 DEF StartRun, server, Server
  <2>2. QED
    BY <1>0, <2>1
<1>3. CASE Operator
  BY <1>0, <1>3 DEF Operator
<1>4. CASE UNCHANGED vars
  <2>1. UNCHANGED <<calm, mode, base, Server>>
    BY <1>4 DEF vars, hist, server, Server
  <2>2. QED
    BY <1>0, <2>1 DEF HalfwayIsOnTheWay
<1>5. QED
  BY <1>1, <1>2, <1>3, <1>4 DEF Next

\* At every step of a converge run nobody interferes with, and wherever it fails
\* half-way, what is left to merge leads to where the run was heading.
THEOREM HalfwayLeadsOn == Spec => []HalfwayIsOnTheWay
<1>1. Init => HalfwayIsOnTheWay
  BY DEF Init, HalfwayIsOnTheWay
<1>2. TypeOK /\ InHand /\ StillSo /\ HalfwayIsOnTheWay /\ [Next]_vars => HalfwayIsOnTheWay'
  BY HalfwayStep
<1>3. QED
  BY <1>1, <1>2, TypeCorrect, ReadsStillHold, PTL DEF Spec

-----------------------------------------------------------------------------
(* The invariant of a whole run.                                           *)

RunInv ==
  /\ Underway /\ FoundInv /\ SnapInv
  /\ PoliciesInv /\ BucketsInv /\ UsersInv
  /\ ChangesInv /\ UnmanagedInv /\ DeadInv /\ GreenInv

LEMMA RunInvInit == Init => RunInv
<1> SUFFICES ASSUME Init PROVE RunInv
  OBVIOUS
<1>1. ~Telling /\ pc = "idle" /\ outcome = "none" /\ base = Server
  BY DEF Init, Telling, Complete
<1>2. Underway /\ FoundInv /\ GreenInv
  BY <1>1 DEF Underway, FoundInv, GreenInv, Complete, PolicyLoop, BucketLoop, UserLoop, BucketSteps, UserSteps
<1>3. SnapInv /\ PoliciesInv /\ BucketsInv /\ UsersInv /\ ChangesInv /\ UnmanagedInv /\ DeadInv
  BY <1>1 DEF SnapInv, PoliciesInv, BucketsInv, UsersInv, ChangesInv, UnmanagedInv, DeadInv
<1>4. QED
  BY <1>2, <1>3 DEF RunInv

LEMMA RunInvStep ==
  ASSUME TypeOK, InHand, StillSo, RunInv, [Next]_vars
  PROVE  RunInv'
<1>1. Underway' /\ FoundInv' /\ SnapInv'
  BY UnderwayStep, FoundStep, SnapStep DEF RunInv
<1>2. PoliciesInv' /\ BucketsInv' /\ UsersInv'
  BY PoliciesStep, BucketsStep, UsersStep DEF RunInv
<1>3. ChangesInv' /\ UnmanagedInv' /\ DeadInv' /\ GreenInv'
  BY ChangesStep, UnmanagedStep, DeadStep, GreenStep DEF RunInv
<1>4. QED
  BY <1>1, <1>2, <1>3 DEF RunInv

LEMMA RunInvariant == Spec => []RunInv
<1>1. TypeOK /\ InHand /\ StillSo /\ RunInv /\ [Next]_vars => RunInv'
  BY RunInvStep
<1>2. QED
  BY <1>1, RunInvInit, TypeCorrect, ReadsStillHold, PTL DEF Spec

\* At its gates a run has nothing left, and has told of everything.
LEMMA NothingLeft ==
  ASSUME RunInv, Complete, calm
  PROVE  /\ Telling /\ PreflightOk
         /\ LeftPolicies = {} /\ LeftBuckets = {} /\ LeftUsers = {} /\ LeftProbes = {}
         /\ ToldPolicies = DOMAIN SpecPolicy /\ ToldMakes = DOMAIN SpecBucket
         /\ ToldRules = DOMAIN SpecBucket /\ ToldUsers = DOMAIN SpecUser
<1>1. pc = "idle" /\ Telling /\ PreflightOk
  BY DEF Telling, Complete, RunInv, Underway
<1>2. LeftPolicies = {} /\ LeftBuckets = {} /\ LeftUsers = {} /\ LeftProbes = {}
  BY <1>1 DEF LeftPolicies, LeftBuckets, LeftUsers, LeftProbes, BeforeLoops, PolicyLoop, BucketLoop,
     BucketSteps, UserLoop, UserSteps
<1>3. QED
  BY <1>1, <1>2 DEF ToldPolicies, ToldMakes, ToldRules, ToldUsers, DoneUsers

-----------------------------------------------------------------------------
(* What a run nobody interfered with comes to.                             *)

\* The report of everything in the spec is what is pending.
LEMMA PendingIsReported ==
  ASSUME NEW s
  PROVE  Reported(s, DOMAIN SpecPolicy, DOMAIN SpecBucket, DOMAIN SpecBucket, DOMAIN SpecUser) = Pending(s)
<1> DEFINE all == Reported(s, DOMAIN SpecPolicy, DOMAIN SpecBucket, DOMAIN SpecBucket, DOMAIN SpecUser)
<1>1. ASSUME NEW e PROVE e \in all <=> e \in Pending(s)
  <2>1. (\E p \in DOMAIN SpecPolicy : e \in PolicyEntries(s, p)) <=>
          \/ e \in {<<"policy", p, "create">> : p \in DOMAIN SpecPolicy \ DOMAIN s.policy}
          \/ e \in {<<"policy", p, "update">> : p \in {q \in DOMAIN SpecPolicy \cap DOMAIN s.policy :
                                                         s.policy[q] # SpecPolicy[q]}}
    BY DEF PolicyEntries
  <2>2. (\E b \in DOMAIN SpecBucket : e \in MakeEntries(s, b)) <=>
          \/ e \in {<<"bucket", b, "create">> : b \in DOMAIN SpecBucket \ DOMAIN s.bucket}
          \/ e \in {<<"bucket", b, "versioning">> :
                      b \in {c \in DOMAIN SpecBucket : VersioningDiffers(c, BucketOr(s, c).versioning)}}
    BY DEF MakeEntries
  <2>3. (\E b \in DOMAIN SpecBucket : e \in RulesEntries(s, b)) <=>
          e \in {<<"bucket", b, "lifecycle">> :
                   b \in {c \in Ruled : BucketOr(s, c).rules # SpecBucket[c].rules}}
    BY DEF RulesEntries, Ruled
  <2>4. (\E u \in DOMAIN SpecUser : e \in UserEntries(s, u)) <=>
          \/ e \in {<<"user", u, "create">> : u \in DOMAIN SpecUser \ DOMAIN s.user}
          \/ e \in {<<"user", u, "attach", Missing(s, u)>> :
                      u \in {v \in DOMAIN SpecUser : Missing(s, v) # {}}}
    BY DEF UserEntries
  <2>5. QED
    BY <2>1, <2>2, <2>3, <2>4, ReportedIn, Zenon DEF Pending
<1>2. QED
  BY <1>1

\* A run nobody interfered with reports every pending change and nothing else,
\* so a check run predicts exactly what the next converge applies.
THEOREM ReportExact == Spec => []ReportIsExact
<1>1. RunInv => ReportIsExact
  <2> SUFFICES ASSUME RunInv, Complete, calm PROVE changes = Pending(base)
    BY DEF ReportIsExact
  <2>1. changes = Reported(base, ToldPolicies, ToldMakes, ToldRules, ToldUsers)
    BY NothingLeft DEF RunInv, ChangesInv
  <2>2. QED
    BY <2>1, NothingLeft, PendingIsReported
<1>2. QED
  BY <1>1, RunInvariant, PTL

\* ... and of what the spec does not speak of, all but what is to be ignored.
THEOREM UnmanagedExact == Spec => []UnmanagedIsExact
<1>1. RunInv => UnmanagedIsExact
  BY NothingLeft DEF RunInv, UnmanagedInv, UnmanagedIsExact, Complete
<1>2. QED
  BY <1>1, RunInvariant, PTL

\* Every policy, bucket and user of the spec is as the spec asks.
InSync ==
  /\ \A p \in DOMAIN SpecPolicy : PolicySynced(p)
  /\ \A b \in DOMAIN SpecBucket : /\ b \in DOMAIN bucket /\ ~VersioningDiffers(b, bucket[b].versioning)
                                  /\ b \in Ruled => bucket[b].rules = SpecBucket[b].rules
  /\ \A u \in DOMAIN SpecUser : u \in DOMAIN user /\ SpecUser[u].policies \subseteq user[u].attached

\* That is where a converge run nobody interfered with leaves them.
LEMMA ConvergedInSync ==
  ASSUME RunInv, Complete, calm, mode = "converge"
  PROVE  InSync
<1>1. \A p \in DOMAIN SpecPolicy : PolicySynced(p)
  BY NothingLeft DEF RunInv, PoliciesInv
<1>2. BucketsSettled(pc, mode, item, bucket, base.bucket, {})
  BY NothingLeft DEF RunInv, BucketsInv
<1>3. UsersSettled(pc, mode, item, user, base.user, {})
  BY NothingLeft DEF RunInv, UsersInv
<1>4. QED
  BY <1>1, <1>2, <1>3 DEF InSync, BucketsSettled, UsersSettled

LEMMA InSyncPendsNothing ==
  ASSUME InSync
  PROVE  Pending(Server) = {}
<1>1. \A p \in DOMAIN SpecPolicy : p \in DOMAIN Server.policy /\ Server.policy[p] = SpecPolicy[p]
  BY DEF InSync, PolicySynced, Server
<1>2. \A b \in DOMAIN SpecBucket :
        /\ b \in DOMAIN Server.bucket /\ ~VersioningDiffers(b, BucketOr(Server, b).versioning)
        /\ b \in Ruled => BucketOr(Server, b).rules = SpecBucket[b].rules
  BY DEF InSync, Server, BucketOr
<1>3. \A u \in DOMAIN SpecUser : u \in DOMAIN Server.user /\ Missing(Server, u) = {}
  BY DEF InSync, Server, Missing, AttachedTo
<1>4. QED
  BY <1>1, <1>2, <1>3 DEF Pending, Ruled

LEMMA ServerShape ==
  ASSUME TypeOK
  PROVE  /\ policy = [p \in DOMAIN policy |-> policy[p]]
         /\ bucket = [b \in DOMAIN bucket |-> bucket[b]] /\ \A b \in DOMAIN bucket : bucket[b] \in BucketState
         /\ user = [u \in DOMAIN user |-> user[u]] /\ \A u \in DOMAIN user : user[u] \in UserState
<1>1. policy \in PartialFn(Policies, Docs) /\ bucket \in PartialFn(Buckets, BucketState)
      /\ user \in PartialFn(Users, UserState)
  BY DEF TypeOK
<1>2. policy = [p \in DOMAIN policy |-> policy[p]]
  BY <1>1, PartialFnElim
<1>3. bucket = [b \in DOMAIN bucket |-> bucket[b]] /\ \A b \in DOMAIN bucket : bucket[b] \in BucketState
  BY <1>1, PartialFnElim
<1>4. user = [u \in DOMAIN user |-> user[u]] /\ \A u \in DOMAIN user : user[u] \in UserState
  BY <1>1, PartialFnElim
<1>5. QED
  BY <1>2, <1>3, <1>4

LEMMA InSyncIsMerged ==
  ASSUME TypeOK, InSync
  PROVE  Merged(Server) = Server
<1>1. MergedPolicies(policy) = policy
  <2>1. DOMAIN policy \cup DOMAIN SpecPolicy = DOMAIN policy
    BY DEF InSync, PolicySynced
  <2>2. MergedPolicies(policy) = [p \in DOMAIN policy |-> policy[p]]
    BY <2>1 DEF MergedPolicies, InSync, PolicySynced
  <2>3. QED
    BY <2>2, ServerShape
<1>2. MergedBuckets(bucket) = bucket
  <2>1. ASSUME NEW b \in DOMAIN bucket PROVE BucketMerged(bucket, b) = bucket[b]
    <3>1. bucket[b] = [versioning |-> bucket[b].versioning, rules |-> bucket[b].rules]
      BY ServerShape DEF BucketState
    <3>2. BucketMerged(bucket, b) = [versioning |-> bucket[b].versioning, rules |-> bucket[b].rules]
      BY DEF BucketMerged, BucketWas, InSync, Ruled
    <3>3. QED
      BY <3>1, <3>2
  <2>2. DOMAIN bucket \cup DOMAIN SpecBucket = DOMAIN bucket /\ bucket = [b \in DOMAIN bucket |-> bucket[b]]
    BY ServerShape DEF InSync
  <2>3. QED
    BY <2>1, <2>2 DEF MergedBuckets
<1>3. MergedUsers(user) = user
  <2>1. ASSUME NEW u \in DOMAIN user PROVE UserMerged(user, u) = user[u]
    <3>1. user[u] \in UserState
      BY PartialFnElim DEF TypeOK
    <3>2. u \in DOMAIN SpecUser => user[u].attached \cup SpecUser[u].policies = user[u].attached
      BY DEF InSync
    <3>3. u \in DOMAIN SpecUser => [user[u] EXCEPT !.attached = @ \cup SpecUser[u].policies] = user[u]
      BY <3>1, <3>2 DEF UserState
    <3>4. QED
      BY <3>3 DEF UserMerged, UserWas
  <2>2. DOMAIN user \cup DOMAIN SpecUser = DOMAIN user /\ user = [u \in DOMAIN user |-> user[u]]
    BY ServerShape DEF InSync
  <2>3. QED
    BY <2>1, <2>2 DEF MergedUsers
<1>4. QED
  BY <1>1, <1>2, <1>3, MergedParts DEF Server

\* A converge run nobody interfered with leaves the server it found with the spec
\* merged in and nothing else moved; a check run leaves it as it was.
THEOREM ConvergeIsMerge == Spec => []ConvergeMerges
<1>1. TypeOK /\ RunInv /\ HalfwayIsOnTheWay => ConvergeMerges
  <2> SUFFICES ASSUME TypeOK, RunInv, HalfwayIsOnTheWay, Complete, calm
               PROVE  Server = IF mode = "converge" THEN Merged(base) ELSE base
    BY DEF ConvergeMerges
  <2>1. CASE mode = "converge"
    BY <2>1, ConvergedInSync, InSyncIsMerged DEF HalfwayIsOnTheWay
  <2>2. CASE mode = "check"
    BY <2>2 DEF RunInv, FoundInv
  <2>3. QED
    BY <2>1, <2>2 DEF TypeOK
<1>2. QED
  BY <1>1, RunInvariant, HalfwayLeadsOn, TypeCorrect, PTL

\* A green run, check or converge, means there is no drift and every credential
\* that is checked works.
THEOREM GreenInSync == Spec => []GreenMeansInSync
<1>1. TypeOK /\ RunInv => GreenMeansInSync
  <2> SUFFICES ASSUME TypeOK, RunInv, Complete, calm, outcome = "ok"
               PROVE  /\ Pending(Server) = {}
                      /\ \A u \in DOMAIN SpecUser : SpecUser[u].liveness # Unset => Usable(Server, u)
    BY DEF GreenMeansInSync
  <2>1. /\ pc = "idle" /\ Telling /\ PreflightOk /\ dead = {}
        /\ mode = "check" => Server = base /\ Pending(base) = {}
    <3>1. pc = "idle" /\ dead = {} /\ (mode = "check" => changes = {})
      BY DEF Complete, RunInv, GreenInv
    <3>2. changes = Reported(base, ToldPolicies, ToldMakes, ToldRules, ToldUsers)
      BY NothingLeft DEF RunInv, ChangesInv
    <3>3. changes = Pending(base)
      BY <3>2, NothingLeft, PendingIsReported
    <3>4. mode = "check" => Server = base
      BY DEF RunInv, FoundInv
    <3>5. QED
      BY <3>1, <3>3, <3>4, NothingLeft
  <2>2. Pending(Server) = {}
    BY <2>1, ConvergedInSync, InSyncPendsNothing DEF TypeOK
  <2>3. DOMAIN snap.users = DOMAIN base.user
    BY <2>1, SnapTells DEF RunInv, BeforeLoops
  <2>4. mode = "check" => DOMAIN SpecUser \subseteq DOMAIN base.user
    <3>1. ASSUME NEW u \in DOMAIN SpecUser \ DOMAIN base.user PROVE <<"user", u, "create">> \in Pending(base)
      BY DEF Pending
    <3>2. QED
      BY <2>1, <3>1
  <2>5. ASSUME NEW u \in DOMAIN SpecUser, SpecUser[u].liveness # Unset PROVE Usable(Server, u)
    <3>1. u \in Probed
      BY <2>1, <2>3, <2>4, <2>5 DEF Probed, PreflightOk, Dry
    <3>2. QED
      BY <2>1, <3>1, NothingLeft DEF RunInv, DeadInv
  <2>6. QED
    BY <2>2, <2>5
<1>2. QED
  BY <1>1, RunInvariant, TypeCorrect, PTL

\* When no probe failed for good, the dead credentials a run reports are exactly
\* those that do not work, users pending creation in check mode left out.
THEOREM DeadExact == Spec => []DeadIsDead
<1>1. TypeOK /\ RunInv => DeadIsDead
  <2> SUFFICES ASSUME TypeOK, RunInv, Complete, calm, faults = 0
               PROVE  dead = {u \in DOMAIN SpecUser :
                                /\ SpecUser[u].liveness # Unset /\ ~ Usable(Server, u)
                                /\ mode = "check" => u \in DOMAIN base.user}
    BY DEF DeadIsDead
  <2>1. pc = "idle" /\ Telling /\ PreflightOk /\ LeftProbes = {}
    BY NothingLeft DEF Complete
  <2>2. DOMAIN snap.users = DOMAIN base.user
    BY <2>1, SnapTells DEF RunInv, BeforeLoops
  <2>3. dead = {u \in Probed : ~Usable(Server, u)}
    BY <2>1 DEF RunInv, DeadInv
  <2>4. Probed = {u \in DOMAIN SpecUser : SpecUser[u].liveness # Unset /\ (mode = "check" => u \in DOMAIN base.user)}
    BY <2>1, <2>2 DEF Probed, PreflightOk, Dry
  <2>5. QED
    BY <2>3, <2>4
<1>2. QED
  BY <1>1, RunInvariant, TypeCorrect, PTL
=============================================================================
