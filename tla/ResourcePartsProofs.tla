------------------------ MODULE ResourcePartsProofs ------------------------
(***************************************************************************)
(* Theorems about the resource modules while others act as often as they   *)
(* like: each part of what a run reports as done was so at some moment,    *)
(* and every write goes towards what is asked of the resource as it is.    *)
(***************************************************************************)
EXTENDS ResourceGoalProofs

-----------------------------------------------------------------------------
(* Others acting: each part of what is asked was so at some moment.        *)

\* The calls that bring something about, and those that take it away.
Making == {"create", "getVersioning", "putVersioning", "putRules", "setQuota", "putPolicy", "addUser",
           "rotateSecret", "setUserStatus", "createGroup", "addMembers", "removeMembers",
           "setGroupStatus", "createAccount", "readBack"}
Removing == {"delete", "deleteRules", "clearQuota", "deletePolicy", "removeUser", "deleteGroup",
             "deleteAccount"}
Headed == /\ pc \in Making   => want.state = "present"
          /\ pc \in Removing => want.state = "absent"

\* The parts that a run has still to see to from where it stands; of the others
\* each has been so at some moment.
StatusPart == {x \in {"status"} : StatusDiffers}
StillToDo ==
  CASE Over \/ pc = "readBack"  -> {}
    [] pc = "addMembers"     -> ToAdd \cup ToRemove \cup StatusPart
    [] pc = "removeMembers"  -> ToRemove \cup StatusPart
    [] pc = "setGroupStatus" -> {"status"}
    [] pc = "setUserStatus" /\ want.update_secret -> {}
    [] OTHER -> Parts(want)
RestIsMet == ~dry /\ ~TakenAsNew => Parts(want) \ StillToDo \subseteq met

\* And what is so now is among what was so.
NowMet == pc # "idle" \/ outcome = "ok" => AsAsked(want, srv) \subseteq met

\* Only a group that was not found is created.
FoundMissing == pc = "createGroup" => ~read.exists

\* The invariant, whatever others do.
PartsInv == TypeInv /\ Headed /\ FoundMissing /\ RestIsMet /\ NowMet

LEMMA StatesAtHand ==
  ASSUME TypeInv, want.module # "policy_attachment"
  PROVE  want.state \in {"present", "absent"}
  BY DEF TypeInv, TypeOK, Wants, BucketWants, AccessWants, IdentityWants, States

\* Every request adds to what was so what is so now.
LEMMA StepMeets ==
  ASSUME NowMet, TaskStep
  PROVE  met \subseteq met' /\ AsAsked(want, srv') \subseteq met' /\ pc # "idle"
<1> USE DEF Read, Write, Call
<1>1. CASE BucketStep
  <2>1. CASE CheckSize
    BY <2>1 DEF CheckSize, Check, NowMet
  <2>2. CASE ~CheckSize
    BY <1>1, <2>2 DEF BucketStep, HeadBucket, CreateBucket, GetVersioning, PutVersioning, DeleteBucket,
       GetRules, PutRules, DeleteRules, GetQuota, SetQuota, ClearQuota
  <2>3. QED
    BY <2>1, <2>2
<1>2. CASE AccessStep
  <2>1. CASE CheckPolicies
    BY <2>1 DEF CheckPolicies, Check, NowMet
  <2>2. CASE ~CheckPolicies
    BY <1>2, <2>2 DEF AccessStep, GetPolicy, PutPolicy, DeletePolicy, GetEntity, SetAttached
  <2>3. QED
    BY <2>1, <2>2
<1>3. CASE IdentityStep
  BY <1>3 DEF IdentityStep, GetUser, AddUser, RotateSecret, SetUserStatus, RemoveUser, GetGroup,
     CreateGroup, AddMembers, RemoveMembers, SetGroupStatus, DeleteGroup, GetAccount, CreateAccount,
     ReadBack, DeleteAccount
<1>4. QED
  BY <1>1, <1>2, <1>3 DEF TaskStep

\* A module that makes goes on making, one that removes goes on removing.
LEMMA StepHeaded == ASSUME TypeInv, Headed, TaskStep PROVE Headed'
<1> USE DEF Read, Write, Call, Check, Decide, Goto, Exit, FailJson, NetworkError, verdict, run, Making,
            Removing, Headed
<1>1. CASE BucketStep
  <2>1. want.module \in {"bucket", "bucket_lifecycle", "bucket_quota"}
    <3>1. pc \in Steps["bucket"] \cup Steps["bucket_lifecycle"] \cup Steps["bucket_quota"]
      BY <1>1 DEF BucketStep, HeadBucket, CreateBucket, GetVersioning, PutVersioning, DeleteBucket, GetRules,
         PutRules, DeleteRules, CheckSize, GetQuota, SetQuota, ClearQuota, Steps
    <3>2. QED
      BY <3>1, AtBuckets DEF BucketWants
  <2>2. want.state \in {"present", "absent"}
    BY <2>1, StatesAtHand
  <2>3. CASE HeadBucket \/ CreateBucket \/ GetVersioning
    BY <2>2, <2>3 DEF HeadBucket, CreateBucket, GetVersioning
  <2>4. CASE PutVersioning \/ DeleteBucket \/ PutRules \/ DeleteRules \/ SetQuota \/ ClearQuota
    BY <2>4 DEF PutVersioning, DeleteBucket, PutRules, DeleteRules, SetQuota, ClearQuota
  <2>5. CASE GetRules \/ CheckSize \/ GetQuota
    BY <2>2, <2>5 DEF GetRules, CheckSize, GetQuota
  <2>6. QED
    BY <1>1, <2>3, <2>4, <2>5 DEF BucketStep
<1>2. CASE AccessStep
  <2>1. CASE GetPolicy
    <3>1. want.module = "policy"
      <4>1. pc = "getPolicy"
        BY <2>1 DEF GetPolicy
      <4>2. want \in AccessWants /\ pc \in Steps[want.module]
        BY <4>1, AtAccesses DEF Steps
      <4>3. QED
        BY <4>1, <4>2 DEF Steps, AccessWants
    <3>2. QED
      BY <2>1, <3>1, StatesAtHand DEF GetPolicy
  <2>2. CASE PutPolicy \/ DeletePolicy \/ CheckPolicies \/ GetEntity \/ SetAttached
    BY <2>2 DEF PutPolicy, DeletePolicy, CheckPolicies, GetEntity, SetAttached
  <2>3. QED
    BY <1>2, <2>1, <2>2 DEF AccessStep
<1>3. CASE IdentityStep
  <2>1. want.state \in {"present", "absent"}
    <3>1. pc \in Steps["user"] \cup Steps["group"] \cup Steps["service_account"]
      BY <1>3 DEF IdentityStep, GetUser, AddUser, RotateSecret, SetUserStatus, RemoveUser, GetGroup,
         CreateGroup, AddMembers, RemoveMembers, SetGroupStatus, DeleteGroup, GetAccount, CreateAccount,
         ReadBack, DeleteAccount, Steps
    <3>2. QED
      BY <3>1, AtIdentities, StatesAtHand DEF IdentityWants
  <2>2. CASE GetUser \/ AddUser \/ RotateSecret \/ SetUserStatus \/ RemoveUser
    BY <2>1, <2>2 DEF GetUser, AddUser, RotateSecret, SetUserStatus, RemoveUser
  <2>3. CASE GetGroup
    <3>1. AfterRead' \in {"addMembers", "removeMembers", "setGroupStatus", "exit"}
      BY DEF AfterRead, AfterAdd, AfterMembers
    <3>2. QED
      BY <2>1, <2>3, <3>1 DEF GetGroup
  <2>4. CASE CreateGroup \/ AddMembers \/ RemoveMembers
    <3>1. /\ AfterAdd \in {"removeMembers", "setGroupStatus", "exit"}
          /\ AfterMembers \in {"setGroupStatus", "exit"}
      BY DEF AfterAdd, AfterMembers
    <3>2. QED
      BY <2>4, <3>1 DEF CreateGroup, AddMembers, RemoveMembers
  <2>5. CASE SetGroupStatus \/ DeleteGroup
    BY <2>5 DEF SetGroupStatus, DeleteGroup
  <2>6. CASE GetAccount \/ CreateAccount \/ ReadBack \/ DeleteAccount
    BY <2>1, <2>6 DEF GetAccount, CreateAccount, ReadBack, DeleteAccount
  <2>7. QED
    BY <1>3, <2>2, <2>3, <2>4, <2>5, <2>6 DEF IdentityStep
<1>4. QED
  BY <1>1, <1>2, <1>3 DEF TaskStep

\* What is asked for as a whole is so once the resource is its own goal.
LEMMA WholeOrNothing ==
  ASSUME ~IsGroup(want), NEW s, Goal(want, s) = s PROVE AsAsked(want, s) = Parts(want)
  BY DEF AsAsked, Parts

\* The moments at which nothing may be left to do, and what is to be shown there.
Finishing == Over' \/ pc' = "readBack" \/ (pc' = "setUserStatus" /\ want.update_secret)
Achieved  == Goal(want, srv') = srv' \/ "all" \in met

LEMMA BucketAchieves ==
  ASSUME TypeInv, Headed, want.module = "bucket", ~dry, Finishing,
         HeadBucket \/ CreateBucket \/ GetVersioning \/ PutVersioning \/ DeleteBucket
  PROVE  Achieved
<1> USE DEF Read, Write, Call, Goto, Exit, FailJson, NetworkError, verdict
<1>1. want \in BucketWants /\ srv \in Buckets /\ outcome = "none"
  BY BucketsAtHand DEF TypeInv, AtHome, HeadBucket, CreateBucket, GetVersioning, PutVersioning, DeleteBucket
<1>2. /\ pc' = "idle" /\ outcome' = "ok"
      /\ (pc = "head" /\ want.state = "absent" /\ ~srv.exists /\ srv' = srv)
         \/ (pc = "getVersioning" /\ srv.exists /\ srv' = srv
             /\ ~(want.value # Unset /\ Effective(srv.versioning) # want.value))
         \/ (pc = "putVersioning" /\ srv.exists /\ srv' = [srv EXCEPT !.versioning = want.value])
         \/ (pc = "delete" /\ srv' = NoBucket)
  <2>1. CASE HeadBucket
    BY <1>1, <2>1 DEF HeadBucket, Decide, Finishing, Over
  <2>2. CASE CreateBucket
    BY <1>1, <2>2 DEF CreateBucket, Finishing, Over
  <2>3. CASE GetVersioning
    BY <1>1, <2>3 DEF GetVersioning, Decide, VersioningDiffers, Finishing, Over, run
  <2>4. CASE PutVersioning
    BY <1>1, <2>4 DEF PutVersioning, IfExists, Finishing, Over
  <2>5. CASE DeleteBucket
    BY <1>1, <2>5 DEF DeleteBucket, Finishing, Over
  <2>6. QED
    BY <2>1, <2>2, <2>3, <2>4, <2>5
<1>3. srv' \in Buckets
  BY BucketStepKeeps DEF Kept, BucketStep
<1>4. Goal(want, srv') = BucketGoal(want, srv')
  BY <1>1, <1>3, BucketGoals
<1>5. CASE pc = "head" \/ pc = "delete"
  <2>1. want.state = "absent"
    BY <1>2, <1>5 DEF Headed, Removing
  <2>2. srv' = NoBucket
    BY <1>1, <1>2, <1>5 DEF Buckets
  <2>3. QED
    BY <1>4, <2>1, <2>2 DEF BucketGoal, Achieved
<1>6. CASE pc = "getVersioning" \/ pc = "putVersioning"
  <2>1. want.state = "present" /\ want.value \in {Unset, "enabled", "suspended"}
    BY <1>1, <1>6 DEF Headed, Making, BucketWants
  <2>2. pc = "putVersioning" => want.value # Unset
    BY DEF TypeInv, AtHome
  <2>3. srv'.exists /\ (want.value # Unset => Effective(srv'.versioning) = want.value)
    <3>1. srv \in BucketRecords
      BY <1>1, BucketsAreRecords
    <3>2. CASE pc = "getVersioning"
      BY <1>2, <3>2
    <3>3. CASE pc = "putVersioning"
      BY <1>2, <2>1, <2>2, <3>1, <3>3, ResourceAssumption DEF Effective, BucketRecords
    <3>4. QED
      BY <1>6, <3>2, <3>3
  <2>4. want.value # Unset => ((srv'.versioning = "enabled") = (want.value = "enabled"))
    BY <2>1, <2>3, ResourceAssumption DEF Effective
  <2>5. QED
    BY <1>4, <2>1, <2>3, <2>4 DEF BucketGoal, Achieved
<1>7. QED
  BY <1>2, <1>5, <1>6

LEMMA LifecycleAchieves ==
  ASSUME TypeInv, Headed, want.module = "bucket_lifecycle", ~dry, Finishing, GetRules \/ PutRules \/ DeleteRules
  PROVE  Achieved
<1> DEFINE target == IF want.state = "absent" THEN NoRules ELSE want.value
<1> USE DEF Read, Write, Call, Goto, Exit, FailJson, NetworkError, verdict
<1>1. want \in BucketWants /\ srv \in BucketRecords /\ outcome = "none"
  BY BucketsAtHand, BucketsAreRecords DEF TypeInv, AtHome, GetRules, PutRules, DeleteRules
<1>2. srv' \in Buckets
  BY BucketStepKeeps DEF Kept, BucketStep
<1>3. srv'.rules = target
  <2>1. CASE GetRules
    BY <1>1, <2>1 DEF GetRules, Decide, Finishing, Over
  <2>2. CASE PutRules
    <3>1. want.state = "present"
      BY <2>2 DEF PutRules, Headed, Making
    <3>2. srv' = [srv EXCEPT !.rules = want.value]
      BY <1>1, <2>2 DEF PutRules, Finishing, Over
    <3>3. QED
      BY <1>1, <3>1, <3>2 DEF BucketRecords
  <2>3. CASE DeleteRules
    <3>1. want.state = "absent"
      BY <2>3 DEF DeleteRules, Headed, Removing
    <3>2. srv' = [srv EXCEPT !.rules = NoRules]
      BY <1>1, <2>3 DEF DeleteRules, Finishing, Over
    <3>3. QED
      BY <1>1, <3>1, <3>2 DEF BucketRecords
  <2>4. QED
    BY <2>1, <2>2, <2>3
<1>4. Goal(want, srv') = [srv' EXCEPT !.rules = target]
  BY <1>1, <1>2, BucketGoals DEF BucketGoal
<1>5. [srv' EXCEPT !.rules = srv'.rules] = srv'
  BY <1>2, BucketsAreRecords DEF BucketRecords
<1>6. QED
  BY <1>3, <1>4, <1>5 DEF Achieved

LEMMA QuotaAchieves ==
  ASSUME TypeInv, Headed, want.module = "bucket_quota", ~dry, Finishing,
         CheckSize \/ GetQuota \/ SetQuota \/ ClearQuota
  PROVE  Achieved
<1> USE DEF Read, Write, Call, Goto, Exit, FailJson, NetworkError, verdict
<1>1. want \in BucketWants /\ srv \in BucketRecords /\ outcome = "none"
  BY BucketsAtHand, BucketsAreRecords
  DEF TypeInv, AtHome, CheckSize, Check, GetQuota, SetQuota, ClearQuota
<1>2. srv' \in Buckets
  BY BucketStepKeeps DEF Kept, BucketStep
<1>3. srv'.quota = DesiredQuota
  <2>1. CASE CheckSize
    BY <1>1, <2>1 DEF CheckSize, Check, Finishing, Over
  <2>2. CASE GetQuota
    <3> DEFINE l == IF want.state = "present" THEN "setQuota" ELSE "clearQuota"
    <3>1. l \in {"setQuota", "clearQuota"}
      OBVIOUS
    <3> HIDE DEF l
    <3>2. srv' = srv /\ pc = "getQuota"
      BY <2>2 DEF GetQuota
    <3>3. (pc' = "idle" => outcome' = "ok") /\ pc' \notin {"getQuota", "setQuota", "clearQuota"}
      BY DEF Finishing, Over
    <3>4. Decide(srv.quota # DesiredQuota, l)
      BY <1>1, <2>2, <3>2, <3>3 DEF GetQuota, l
    <3>5. QED
      BY <3>1, <3>2, <3>3, <3>4 DEF Decide
  <2>3. CASE SetQuota
    <3>1. srv' = [srv EXCEPT !.quota = DesiredQuota]
      BY <1>1, <2>3 DEF SetQuota, Finishing, Over
    <3>2. QED
      BY <1>1, <3>1 DEF BucketRecords
  <2>4. CASE ClearQuota
    <3>1. want.state = "absent"
      BY <2>4 DEF ClearQuota, Headed, Removing
    <3>2. srv' = [srv EXCEPT !.quota = 0]
      BY <1>1, <2>4 DEF ClearQuota, Finishing, Over
    <3>3. QED
      BY <1>1, <3>1, <3>2 DEF BucketRecords, DesiredQuota
  <2>5. QED
    BY <2>1, <2>2, <2>3, <2>4
<1>4. Goal(want, srv') = [srv' EXCEPT !.quota = DesiredQuota]
  BY <1>1, <1>2, BucketGoals DEF BucketGoal, DesiredQuota
<1>5. [srv' EXCEPT !.quota = srv'.quota] = srv'
  BY <1>2, BucketsAreRecords DEF BucketRecords
<1>6. QED
  BY <1>3, <1>4, <1>5 DEF Achieved

LEMMA PolicyAchieves ==
  ASSUME TypeInv, Headed, want.module = "policy", ~dry, Finishing, GetPolicy \/ PutPolicy \/ DeletePolicy
  PROVE  Achieved
<1> DEFINE target == IF want.state = "absent" THEN NoDocument ELSE want.document
<1> USE DEF Read, Write, Call, Goto, Exit, FailJson, NetworkError, verdict
<1>1. want \in AccessWants /\ srv \in Accesses /\ outcome = "none"
  BY AccessesAtHand DEF TypeInv, AtHome, GetPolicy, PutPolicy, DeletePolicy
<1>2. srv' \in Accesses
  BY AccessStepKeeps DEF Kept, AccessStep
<1>3. srv'.document = target
  <2>1. CASE GetPolicy
    <3>1. MissingPolicy = "permanent" /\ ReadsAsMissing(MissingPolicy, TRUE)
      BY DEF MissingPolicy, HttpClass, ReadsAsMissing, PermanentClasses, GatewayStatuses
    <3>2. (pc' = "idle" => outcome' = "ok") /\ pc' \notin {"getPolicy", "putPolicy", "deletePolicy"}
      BY DEF Finishing, Over
    <3>3. srv' = srv /\ pc = "getPolicy"
      BY <2>1 DEF GetPolicy
    <3>4. want.document # NoDocument
      BY <1>1, ResourceAssumption DEF AccessWants
    <3>5. QED
      BY <1>1, <2>1, <3>1, <3>2, <3>3, <3>4 DEF GetPolicy, Decide
  <2>2. CASE PutPolicy
    <3>1. want.state = "present"
      BY <2>2 DEF PutPolicy, Headed, Making
    <3>2. srv' = [srv EXCEPT !.document = want.document]
      BY <1>1, <2>2 DEF PutPolicy, Finishing, Over
    <3>3. QED
      BY <1>1, <3>1, <3>2 DEF Accesses
  <2>3. CASE DeletePolicy
    <3>1. want.state = "absent"
      BY <2>3 DEF DeletePolicy, Headed, Removing
    <3>2. srv' = [srv EXCEPT !.document = NoDocument]
      BY <1>1, <2>3 DEF DeletePolicy, Finishing, Over
    <3>3. QED
      BY <1>1, <3>1, <3>2 DEF Accesses
  <2>4. QED
    BY <2>1, <2>2, <2>3
<1>4. Goal(want, srv') = [srv' EXCEPT !.document = target]
  BY <1>2 DEF Goal, AccessGoal, Accesses
<1>5. [srv' EXCEPT !.document = srv'.document] = srv'
  BY <1>2 DEF Accesses
<1>6. QED
  BY <1>3, <1>4, <1>5 DEF Achieved

LEMMA AttachmentAchieves ==
  ASSUME TypeInv, want.module = "policy_attachment", ~dry, Finishing,
         CheckPolicies \/ GetEntity \/ SetAttached
  PROVE  Achieved
<1> USE DEF Read, Write, Call, Goto, Exit, FailJson, NetworkError, verdict
<1>1. srv \in Accesses /\ outcome = "none"
  BY AccessesAtHand DEF TypeInv, AtHome, CheckPolicies, Check, GetEntity, SetAttached
<1>2. srv' \in Accesses
  BY AccessStepKeeps DEF Kept, AccessStep
<1>3. want' = want
  BY DEF CheckPolicies, Check, GetEntity, SetAttached, run
<1>4. Desired(srv'.attached) = srv'.attached
  <2>1. CASE CheckPolicies
    BY <1>1, <2>1 DEF CheckPolicies, Check, Finishing, Over
  <2>2. CASE GetEntity
    BY <1>1, <2>2 DEF GetEntity, Decide, Finishing, Over
  <2>3. CASE SetAttached
    <3>1. srv' = [srv EXCEPT !.attached = Desired(read.attached)]
      BY <1>1, <2>3 DEF SetAttached, Finishing, Over
    <3>2. srv'.attached = Desired(read.attached)
      BY <1>1, <3>1 DEF Accesses
    <3>3. QED
      BY <3>2 DEF Desired
  <2>4. QED
    BY <2>1, <2>2, <2>3
<1>5. Goal(want, srv') = [srv' EXCEPT !.attached = Desired(srv'.attached)]
  BY <1>2 DEF Goal, AccessGoal, Desired, Accesses
<1>6. [srv' EXCEPT !.attached = srv'.attached] = srv'
  BY <1>2 DEF Accesses
<1>7. QED
  BY <1>4, <1>5, <1>6 DEF Achieved

\* A user as the module writes it is its own goal, and so is one whose status fits.
LEMMA UserIsGoal ==
  ASSUME want.module = "user", NEW u \in UserStates
  PROVE  /\ want.state = "absent" /\ ~u.exists => Goal(want, u) = u
         /\ want.state = "present" /\ u.exists /\ (want.update_secret => u.secret = want.secret)
            /\ (want.status # Unset => u.status = want.status) => Goal(want, u) = u
<1>1. u.kind = "user" /\ u \in UserRecords /\ (~u.exists => u = NoUser)
  BY UsersAreRecords DEF UserRecords
<1>2. Goal(want, u) = IdentityGoal(want, u)
  BY <1>1 DEF Goal
<1>3. ASSUME want.state = "absent", ~u.exists PROVE Goal(want, u) = u
  BY <1>1, <1>2, <1>3 DEF IdentityGoal, Nobody
<1>4. ASSUME want.state = "present", u.exists, want.update_secret => u.secret = want.secret,
             want.status # Unset => u.status = want.status
      PROVE  Goal(want, u) = u
  <2> DEFINE secret == IF want.update_secret THEN want.secret ELSE u.secret
             status == Default(want.status, u.status)
  <2>1. secret = u.secret /\ status = u.status
    BY <1>4 DEF Default
  <2> HIDE DEF secret, status
  <2>2. [u EXCEPT !.secret = secret, !.status = status] = u
    BY <1>1, <2>1 DEF UserRecords
  <2>3. UserGoal(want, u) = [u EXCEPT !.secret = secret, !.status = status]
    BY <1>4 DEF UserGoal, secret, status
  <2>4. QED
    BY <1>2, <1>4, <2>2, <2>3 DEF IdentityGoal
<1>5. QED
  BY <1>3, <1>4

LEMMA UserAchieves ==
  ASSUME TypeInv, Headed, want.module = "user", ~dry, Finishing,
         pc = "setUserStatus" /\ want.update_secret => "all" \in met,
         GetUser \/ AddUser \/ RotateSecret \/ SetUserStatus \/ RemoveUser
  PROVE  Achieved
<1> USE DEF Read, Write, Call, Goto, Exit, FailJson, NetworkError, verdict
<1>1. /\ want \in IdentityWants /\ srv \in UserStates /\ srv.kind = "user" /\ outcome = "none"
      /\ want.state \in {"present", "absent"}
  BY IdentitiesAtHand, StatesAtHand
  DEF TypeInv, AtHome, GetUser, AddUser, RotateSecret, SetUserStatus, RemoveUser
<1>2. srv \in UserRecords /\ srv' \in UserStates
  BY <1>1, UsersAreRecords, UserStepKeeps DEF Kept
<1>3. (pc' = "idle" => outcome' = "ok") /\ (pc' = "setUserStatus" => want.update_secret)
      /\ pc' \in {"idle", "readBack", "setUserStatus"}
  BY DEF Finishing, Over
<1>4. CASE GetUser
  <2>1. srv' = srv /\ want' = want /\ pc = "getUser"
    BY <1>4 DEF GetUser, run
  <2>2. \/ want.state = "absent" /\ ~srv.exists
        \/ want.state = "present" /\ srv.exists /\ ~want.update_secret /\ ~StatusDiffers' /\ read' = srv
    BY <1>1, <1>3, <1>4, <2>1 DEF GetUser, Decide
  <2>3. read' = srv /\ ~StatusDiffers' => (want.status # Unset => srv.status = want.status)
    BY <2>1 DEF StatusDiffers
  <2>4. QED
    BY <1>1, <2>1, <2>2, <2>3, UserIsGoal DEF Achieved
<1>5. CASE AddUser \/ RotateSecret
  <2>1. want.state = "present"
    BY <1>5 DEF AddUser, RotateSecret, Headed, Making
  <2>2. PICK x : srv' = AddedUser(Default(want.status, x))
    <3>1. CASE AddUser
      BY <1>1, <1>3, <3>1 DEF AddUser
    <3>2. CASE RotateSecret
      BY <1>1, <1>3, <3>2 DEF RotateSecret
    <3>3. QED
      BY <1>5, <3>1, <3>2
  <2>3. srv'.exists /\ srv'.secret = want.secret /\ (want.status # Unset => srv'.status = want.status)
    BY <2>2 DEF AddedUser, Default
  <2>4. QED
    BY <1>2, <2>1, <2>3, UserIsGoal DEF Achieved
<1>6. CASE SetUserStatus
  <2>1. CASE want.update_secret
    BY <1>6, <2>1 DEF SetUserStatus, Achieved
  <2>2. CASE ~want.update_secret
    <3>1. want.state = "present" /\ srv.exists /\ srv' = [srv EXCEPT !.status = want.status]
      BY <1>1, <1>3, <1>6, <2>2 DEF SetUserStatus, IfExists, Headed, Making
    <3>2. srv'.exists /\ srv'.status = want.status
      BY <1>2, <3>1 DEF UserRecords
    <3>3. QED
      BY <1>2, <2>2, <3>1, <3>2, UserIsGoal DEF Achieved
  <2>3. QED
    BY <2>1, <2>2
<1>7. CASE RemoveUser
  <2>1. want.state = "absent" /\ srv' = NoUser /\ ~NoUser.exists
    BY <1>1, <1>3, <1>7 DEF RemoveUser, Nobody, NoUser, Headed, Removing
  <2>2. QED
    BY <1>2, <2>1, UserIsGoal DEF Achieved
<1>8. QED
  BY <1>4, <1>5, <1>6, <1>7

LEMMA AccountAchieves ==
  ASSUME TypeInv, Headed, want.module = "service_account", ~dry, Finishing,
         pc = "readBack" => "all" \in met,
         GetAccount \/ CreateAccount \/ ReadBack \/ DeleteAccount
  PROVE  Achieved
<1> USE DEF Read, Write, Call, Goto, Exit, FailJson, NetworkError, verdict
<1>1. /\ want \in IdentityWants /\ srv \in AccountStates /\ srv.kind = "service_account" /\ outcome = "none"
      /\ want.state \in {"present", "absent"}
  BY IdentitiesAtHand, StatesAtHand DEF TypeInv, AtHome, GetAccount, CreateAccount, ReadBack, DeleteAccount
<1>2. srv' \in AccountStates
  BY AccountStepKeeps DEF Kept
<1>3. /\ ~NoAccount.exists /\ NoAccount.kind = "service_account"
      /\ \A a \in AccountStates : a.kind = "service_account" /\ (~a.exists => a = NoAccount)
  BY DEF NoAccount, NoUser, AccountStates, Keypair
<1>4. (pc' = "idle" => outcome' = "ok") /\ pc' \in {"idle", "readBack", "setUserStatus"}
  BY DEF Finishing, Over
<1>5. \/ want.state = "absent" /\ ~srv'.exists
      \/ want.state = "present" /\ srv'.exists
      \/ pc = "readBack"
  <2>1. CASE GetAccount
    BY <1>1, <1>4, <2>1 DEF GetAccount, Decide
  <2>2. CASE CreateAccount
    <3>1. want.state = "present" /\ srv' = [NoAccount EXCEPT !.exists = TRUE, !.secret = want.secret]
      BY <1>1, <1>4, <2>2 DEF CreateAccount, Headed, Making
    <3>2. QED
      BY <3>1 DEF NoAccount, NoUser
  <2>3. CASE ReadBack
    BY <2>3 DEF ReadBack
  <2>4. CASE DeleteAccount
    <3>1. want.state = "absent" /\ srv' = NoAccount
      BY <1>1, <1>4, <2>4 DEF DeleteAccount, Nobody, Headed, Removing
    <3>2. QED
      BY <1>3, <3>1
  <2>5. QED
    BY <2>1, <2>2, <2>3, <2>4
<1>6. Goal(want, srv') = IdentityGoal(want, srv')
  BY <1>2, <1>3 DEF Goal
<1>7. QED
  BY <1>2, <1>3, <1>5, <1>6 DEF IdentityGoal, AccountGoal, Nobody, Achieved

LEMMA GroupsAtHand ==
  ASSUME TypeInv, want.module = "group", want.state = "present"
  PROVE  /\ want \in IdentityWants /\ srv \in GroupRecords /\ read \in GroupRecords
         /\ want.members # Unset => want.members \subseteq Users
         /\ IsGroup(want) /\ Parts(want) = {"status"} \cup Users
<1>1. want \in IdentityWants /\ srv \in GroupRecords
  BY IdentitiesAtHand, GroupsAreRecords
<1>2. read.kind = "group" /\ read \in Servers
  BY DEF TypeInv, TypeOK, About
<1>3. want.members # Unset => want.members \subseteq Users
  BY <1>1 DEF IdentityWants
<1>4. QED
  BY <1>1, <1>2, <1>3, KindTells, GroupsAreRecords DEF IsGroup, Parts

\* The members a group is to have, and the parts of it that fit.
LEMMA MembersAsked ==
  ASSUME NEW w, NEW g \in GroupRecords
  PROVE  GroupGoal(w, g).members =
           IF w.members = Unset THEN g.members
           ELSE IF w.append THEN g.members \cup w.members ELSE w.members
<1> DEFINE status  == Default(w.status, g.status)
           members == IF w.append \/ w.members = Unset
                      THEN g.members \cup Default(w.members, {}) ELSE Default(w.members, {})
<1>1. GroupGoal(w, g) = [g EXCEPT !.exists = TRUE, !.status = status, !.members = members]
  BY DEF GroupGoal
<1> HIDE DEF status, members
<1>2. GroupGoal(w, g).members = members
  BY <1>1 DEF GroupRecords
<1>3. QED
  BY <1>2 DEF members, Default, GroupRecords

LEMMA FittingParts ==
  ASSUME NEW w, IsGroup(w), NEW g \in GroupRecords
  PROVE  /\ g.exists /\ (w.status # Unset => g.status = w.status) => "status" \in AsAsked(w, g)
         /\ \A u \in Users :
              u \in AsAsked(w, g) \/ (w.members # Unset /\
                IF u \in w.members THEN u \notin g.members ELSE u \in g.members /\ ~w.append)
<1>1. AsAsked(w, g) = {x \in {"status"} : g.exists /\ g.status = Default(w.status, g.status)}
                      \cup {u \in Users : u \in g.members <=> u \in GroupGoal(w, g).members}
  BY DEF AsAsked
<1>2. ASSUME g.exists, w.status # Unset => g.status = w.status PROVE "status" \in AsAsked(w, g)
  BY <1>1, <1>2 DEF Default
<1>3. ASSUME NEW u \in Users,
             ~(w.members # Unset /\ IF u \in w.members THEN u \notin g.members ELSE u \in g.members /\ ~w.append)
      PROVE  u \in AsAsked(w, g)
  <2>1. u \in g.members <=> u \in GroupGoal(w, g).members
    <3>1. CASE w.members = Unset
      BY <3>1, MembersAsked
    <3>2. CASE w.members # Unset /\ w.append
      BY <1>3, <3>2, MembersAsked
    <3>3. CASE w.members # Unset /\ ~w.append
      BY <1>3, <3>3, MembersAsked
    <3>4. QED
      BY <3>1, <3>2, <3>3
  <2>2. QED
    BY <1>1, <2>1
<1>4. QED
  BY <1>2, <1>3

\* The calls to come after the one that is answered well, in a group as it was read.
LEMMA StagesLeft ==
  ASSUME want.module = "group", want.state = "present", read.exists
  PROVE  /\ AfterMembers = "exit" => StatusPart = {}
         /\ AfterAdd = "removeMembers" \/ (ToRemove = {} /\ AfterAdd = AfterMembers)
         /\ AfterMembers \in {"exit", "setGroupStatus"}
  BY DEF AfterMembers, AfterAdd, StatusPart

\* How a request of a write ends.
LEMMA WriteEnds ==
  ASSUME NEW l, NEW class, NEW effect, NEW next, Write(l, class, effect, next)
  PROVE  \/ class = "ok" /\ srv' = effect /\ (IF next = "exit" THEN pc' = "idle" ELSE pc' = next)
         \/ pc' = l
         \/ pc' = "idle" /\ outcome' = "failed"
  BY DEF Write, Call, Goto, Exit, FailJson, NetworkError

LEMMA GroupWriteMeets ==
  ASSUME TypeInv, Headed, NowMet, want.module = "group", want.state = "present", ~dry, read.exists,
         Parts(want) \ StillToDo \subseteq met,
         AddMembers \/ RemoveMembers \/ SetGroupStatus
  PROVE  (Parts(want) \ StillToDo)' \subseteq met'
<1>1. /\ want \in IdentityWants /\ srv \in GroupRecords /\ read \in GroupRecords
      /\ want.members # Unset => want.members \subseteq Users
      /\ IsGroup(want) /\ Parts(want) = {"status"} \cup Users
  BY GroupsAtHand
<1>2. UNCHANGED <<want, read>> /\ met \subseteq met' /\ AsAsked(want, srv') \subseteq met' /\ outcome = "none"
  BY StepMeets
  DEF TaskStep, IdentityStep, AddMembers, RemoveMembers, SetGroupStatus, Write, Call, run, TypeInv, AtHome
<1>3. srv' \in GroupRecords
  BY GroupStepKeeps, GroupsAreRecords DEF Kept
<1>4. /\ Parts(want)' = Parts(want) /\ StatusPart' = StatusPart /\ ToRemove' = ToRemove /\ ToAdd' = ToAdd
  BY <1>2 DEF Parts, IsGroup, StatusPart, StatusDiffers, ToRemove, ToAdd
<1>5. CASE AddMembers
  <2>1. pc = "addMembers" /\ StillToDo = ToAdd \cup ToRemove \cup StatusPart
    BY <1>5 DEF AddMembers, Write, Call, StillToDo, Over
  <2>2. \/ srv' = [srv EXCEPT !.members = @ \cup ToAdd]
           /\ (IF AfterAdd = "exit" THEN pc' = "idle" ELSE pc' = AfterAdd)
        \/ pc' = "addMembers"
        \/ pc' = "idle" /\ outcome' = "failed"
    BY <1>5, WriteEnds DEF AddMembers
  <2>3. CASE pc' = "addMembers"
    BY <1>2, <1>4, <2>1, <2>3 DEF StillToDo, Over
  <2>4. CASE pc' = "idle" /\ outcome' = "failed"
    BY <2>4 DEF StillToDo, Over
  <2>5. CASE /\ srv' = [srv EXCEPT !.members = @ \cup ToAdd]
             /\ (IF AfterAdd = "exit" THEN pc' = "idle" ELSE pc' = AfterAdd)
    <3>1. srv'.members = srv.members \cup ToAdd
      BY <1>1, <2>5 DEF GroupRecords
    <3>2. ToAdd \subseteq met'
      <4>1. \A u \in ToAdd : u \in Users /\ u \in want.members /\ u \in srv'.members
        BY <1>1, <3>1 DEF ToAdd
      <4>2. QED
        BY <1>1, <1>2, <1>3, <4>1, FittingParts
    <3>3. Parts(want) \ (ToRemove \cup StatusPart) \subseteq met'
      BY <1>2, <2>1, <3>2
    <3>4. StillToDo' = ToRemove \cup StatusPart \/ (ToRemove = {} /\ StatusPart \subseteq StillToDo')
      BY <1>4, <2>5, StagesLeft DEF StillToDo, StatusPart
    <3>5. QED
      BY <1>4, <3>3, <3>4
  <2>6. QED
    BY <2>2, <2>3, <2>4, <2>5
<1>6. CASE RemoveMembers
  <2>1. pc = "removeMembers" /\ StillToDo = ToRemove \cup StatusPart
    BY <1>6 DEF RemoveMembers, Write, Call, StillToDo, Over
  <2>2. \/ srv' = [srv EXCEPT !.members = @ \ ToRemove]
           /\ (IF AfterMembers = "exit" THEN pc' = "idle" ELSE pc' = AfterMembers)
        \/ pc' = "removeMembers"
        \/ pc' = "idle" /\ outcome' = "failed"
    BY <1>6, WriteEnds DEF RemoveMembers
  <2>3. CASE pc' = "removeMembers"
    BY <1>2, <1>4, <2>1, <2>3 DEF StillToDo, Over
  <2>4. CASE pc' = "idle" /\ outcome' = "failed"
    BY <2>4 DEF StillToDo, Over
  <2>5. CASE /\ srv' = [srv EXCEPT !.members = @ \ ToRemove]
             /\ (IF AfterMembers = "exit" THEN pc' = "idle" ELSE pc' = AfterMembers)
    <3>1. srv'.members = srv.members \ ToRemove
      BY <1>1, <2>5 DEF GroupRecords
    <3>2. ToRemove \subseteq met'
      <4>1. \A u \in ToRemove : u \in Users /\ u \notin want.members /\ u \notin srv'.members
        BY <1>1, <3>1 DEF ToRemove, GroupRecords
      <4>2. QED
        BY <1>1, <1>2, <1>3, <4>1, FittingParts
    <3>3. Parts(want) \ StatusPart \subseteq met'
      BY <1>2, <2>1, <3>2
    <3>4. StatusPart \subseteq StillToDo'
      BY <1>4, <2>5, StagesLeft DEF StillToDo, StatusPart
    <3>5. QED
      BY <1>4, <3>3, <3>4
  <2>6. QED
    BY <2>2, <2>3, <2>4, <2>5
<1>7. CASE SetGroupStatus
  <2>1. pc = "setGroupStatus" /\ StillToDo = {"status"}
    BY <1>7 DEF SetGroupStatus, Write, Call, StillToDo, Over
  <2>2. \/ srv.exists /\ srv' = [srv EXCEPT !.status = want.status] /\ pc' = "idle"
        \/ pc' = "setGroupStatus"
        \/ pc' = "idle" /\ outcome' = "failed"
    BY <1>7, WriteEnds DEF SetGroupStatus, IfExists
  <2>3. CASE pc' = "setGroupStatus"
    BY <1>2, <1>4, <2>1, <2>3 DEF StillToDo, Over
  <2>4. CASE pc' = "idle" /\ outcome' = "failed"
    BY <2>4 DEF StillToDo, Over
  <2>5. CASE srv.exists /\ srv' = [srv EXCEPT !.status = want.status]
    <3>1. srv'.exists /\ srv'.status = want.status
      BY <1>1, <2>5 DEF GroupRecords
    <3>2. "status" \in met'
      BY <1>1, <1>2, <1>3, <3>1, FittingParts
    <3>3. QED
      BY <1>2, <1>4, <2>1, <3>2
  <2>6. QED
    BY <2>2, <2>3, <2>4, <2>5
<1>8. QED
  BY <1>5, <1>6, <1>7

\* A group that was found: what is not to be changed fits as it is.
LEMMA GroupReadMeets ==
  ASSUME TypeInv, NowMet, want.module = "group", want.state = "present", ~dry, GetGroup, read'.exists
  PROVE  (Parts(want) \ StillToDo)' \subseteq met'
<1>1. /\ srv \in GroupRecords /\ IsGroup(want) /\ Parts(want) = {"status"} \cup Users
  BY GroupsAtHand
<1>2. pc = "getGroup" /\ want' = want /\ srv' = srv /\ AsAsked(want, srv) \subseteq met'
  BY StepMeets DEF TaskStep, IdentityStep, GetGroup, Read, Call, run
<1>3. Parts(want)' = Parts(want)
  BY <1>2 DEF Parts, IsGroup
<1>4. \/ pc' \in {"getGroup", "createGroup"}
      \/ pc' = "idle" /\ outcome' = "failed"
      \/ read' = srv /\ (IF AfterRead' = "exit" THEN pc' = "idle" ELSE pc' = AfterRead')
  BY DEF GetGroup, Read, Call, Decide, Goto, Exit, FailJson, NetworkError
<1>5. CASE pc' \in {"getGroup", "createGroup"} \/ (pc' = "idle" /\ outcome' = "failed")
  BY <1>5 DEF StillToDo, Over
<1>6. CASE read' = srv /\ (IF AfterRead' = "exit" THEN pc' = "idle" ELSE pc' = AfterRead')
  <2>1. Parts(want) \ (ToAdd' \cup ToRemove' \cup StatusPart') \subseteq AsAsked(want, srv)
    <3>1. /\ ToAdd' = IF want.members = Unset THEN {} ELSE want.members \ srv.members
          /\ ToRemove' = IF want.members = Unset \/ want.append THEN {} ELSE srv.members \ want.members
          /\ "status" \notin StatusPart' => (want.status # Unset => srv.status = want.status)
      BY <1>2, <1>6 DEF ToAdd, ToRemove, StatusPart, StatusDiffers
    <3>2. srv.exists
      BY <1>6
    <3>3. "status" \notin StatusPart' => "status" \in AsAsked(want, srv)
      BY <1>1, <3>1, <3>2, FittingParts
    <3>4. ASSUME NEW u \in Users, u \notin ToAdd' \cup ToRemove' PROVE u \in AsAsked(want, srv)
      BY <1>1, <3>1, <3>4, FittingParts
    <3>5. QED
      BY <1>1, <3>3, <3>4
  <2>2. /\ AfterMembers' = "exit" => StatusPart' = {}
        /\ AfterAdd' = "removeMembers" \/ (ToRemove' = {} /\ AfterAdd' = AfterMembers')
        /\ AfterRead' = "addMembers" \/ (ToAdd' = {} /\ AfterRead' = AfterAdd')
        /\ AfterMembers' \in {"exit", "setGroupStatus"} /\ StatusPart' \subseteq {"status"}
    BY DEF AfterMembers, AfterAdd, AfterRead, StatusPart
  <2>3. ToAdd' \cup ToRemove' \cup StatusPart' \subseteq StillToDo'
    <3>1. CASE AfterRead' = "addMembers"
      BY <1>6, <3>1 DEF StillToDo, Over
    <3>2. CASE ToAdd' = {} /\ AfterRead' = "removeMembers"
      BY <1>6, <3>2 DEF StillToDo, Over
    <3>3. CASE ToAdd' = {} /\ ToRemove' = {} /\ AfterRead' = AfterMembers'
      BY <1>6, <2>2, <3>3 DEF StillToDo, Over
    <3>4. QED
      BY <2>2, <3>1, <3>2, <3>3
  <2>4. QED
    BY <1>2, <1>3, <2>1, <2>3
<1>7. QED
  BY <1>4, <1>5, <1>6

LEMMA GroupGone ==
  ASSUME TypeInv, Headed, want.module = "group", want.state = "absent", ~dry, Over',
         \/ GetGroup \/ CreateGroup \/ AddMembers \/ RemoveMembers
         \/ SetGroupStatus \/ DeleteGroup
  PROVE  Achieved
<1>1. srv \in GroupStates /\ srv.kind = "group" /\ pc \notin Making
  BY IdentitiesAtHand DEF Headed
<1>2. ~srv'.exists
  <2>1. CASE GetGroup
    BY <1>1, <2>1 DEF GetGroup, Read, Call, Decide, Goto, Exit, FailJson, NetworkError, Over, verdict
  <2>2. CASE DeleteGroup
    <3>1. srv' = Nobody(srv.kind)
      BY <2>2, WriteEnds DEF DeleteGroup, Over
    <3>2. QED
      BY <1>1, <3>1 DEF Nobody, NoGroup
  <2>3. CASE CreateGroup \/ AddMembers \/ RemoveMembers \/ SetGroupStatus
    BY <1>1, <2>3 DEF CreateGroup, AddMembers, RemoveMembers, SetGroupStatus, Write, Call, Making
  <2>4. QED
    BY <2>1, <2>2, <2>3
<1>3. srv' \in GroupStates
  BY GroupStepKeeps DEF Kept
<1>4. srv' = NoGroup
  BY <1>2, <1>3, GroupsAreRecords
<1>5. QED
  BY <1>4 DEF Goal, IdentityGoal, Nobody, NoGroup, Achieved

LEMMA GroupMeets ==
  ASSUME TypeInv, Headed, FoundMissing, RestIsMet, NowMet, want.module = "group", ~dry, read'.exists,
         \/ GetGroup \/ CreateGroup \/ AddMembers \/ RemoveMembers
         \/ SetGroupStatus \/ DeleteGroup
  PROVE  (Parts(want) \ StillToDo)' \subseteq met'
<1>1. /\ want' = want /\ met \subseteq met' /\ AsAsked(want, srv') \subseteq met'
      /\ want.state \in {"present", "absent"} /\ TaskStep
  BY StepMeets, StatesAtHand
  DEF TaskStep, IdentityStep, GetGroup, CreateGroup, AddMembers, RemoveMembers, SetGroupStatus, DeleteGroup,
      Read, Write, Call, run
<1>2. CASE want.state = "absent"
  <2>1. Parts(want)' = {"all"} /\ Parts(want) = {"all"} /\ ~IsGroup(want)
    BY <1>1, <1>2 DEF Parts, IsGroup
  <2>2. CASE Over'
    BY <1>1, <1>2, <2>1, <2>2, GroupGone, WholeOrNothing DEF Achieved
  <2>3. CASE ~Over'
    <3>1. TypeInv' /\ Headed'
      BY <1>1, TaskStepTyped, StepHeaded
    <3>2. pc' \notin Making
      BY <1>1, <1>2, <3>1 DEF Headed
    <3>3. QED
      BY <2>1, <2>3, <3>2 DEF StillToDo, Making
  <2>4. QED
    BY <2>2, <2>3
<1>3. CASE want.state = "present"
  <2>1. CASE GetGroup
    BY <1>3, <2>1, GroupReadMeets
  <2>2. CASE AddMembers \/ RemoveMembers \/ SetGroupStatus
    <3>1. read' = read
      BY <2>2 DEF AddMembers, RemoveMembers, SetGroupStatus, Write, Call
    <3>2. Parts(want) \ StillToDo \subseteq met
      BY <3>1 DEF RestIsMet, TakenAsNew
    <3>3. QED
      BY <1>3, <2>2, <3>1, <3>2, GroupWriteMeets
  <2>3. CASE CreateGroup
    BY <2>3 DEF CreateGroup, Write, Call, FoundMissing
  <2>4. CASE DeleteGroup
    BY <1>3, <2>4 DEF DeleteGroup, Write, Call, Headed, Removing
  <2>5. QED
    BY <2>1, <2>2, <2>3, <2>4
<1>4. QED
  BY <1>1, <1>2, <1>3

\* All modules but group see to what is asked as a whole.
LEMMA StepAchieves ==
  ASSUME PartsInv, want.module # "group", ~dry, Finishing, TaskStep
  PROVE  Achieved
<1>1. TypeInv /\ Headed
  BY DEF PartsInv
<1>2. /\ pc = "readBack" => "all" \in met
      /\ pc = "setUserStatus" /\ want.update_secret => "all" \in met
  <2>1. Parts(want) = {"all"} /\ ~TakenAsNew
    BY DEF Parts, IsGroup, TakenAsNew
  <2>2. pc = "readBack" \/ (pc = "setUserStatus" /\ want.update_secret) => StillToDo = {}
    BY DEF StillToDo
  <2>3. QED
    BY <2>1, <2>2 DEF PartsInv, RestIsMet
<1>3. CASE want.module \in {"bucket", "bucket_lifecycle", "bucket_quota"}
  BY <1>1, <1>3, OwnSteps, BucketAchieves, LifecycleAchieves, QuotaAchieves
<1>4. CASE want.module \in {"policy", "policy_attachment"}
  BY <1>1, <1>4, OwnSteps, PolicyAchieves, AttachmentAchieves
<1>5. CASE want.module \in {"user", "service_account"}
  BY <1>1, <1>2, <1>5, OwnSteps, UserAchieves, AccountAchieves
<1>6. QED
  BY <1>1, <1>3, <1>4, <1>5, OwnSteps

LEMMA StepRests == ASSUME PartsInv, TaskStep PROVE RestIsMet'
<1> SUFFICES ASSUME ~dry', ~TakenAsNew' PROVE (Parts(want) \ StillToDo)' \subseteq met'
  BY DEF RestIsMet
<1>1. /\ UNCHANGED <<want, dry>> /\ met \subseteq met' /\ AsAsked(want, srv') \subseteq met'
  BY StepFramed, StepMeets DEF PartsInv, Framed, run
<1>2. CASE want.module = "group"
  <2>1. read'.exists
    BY <1>1, <1>2 DEF TakenAsNew
  <2>2. QED
    BY <1>1, <1>2, <2>1, OwnSteps, GroupMeets DEF PartsInv
<1>3. CASE want.module # "group"
  <2>1. Parts(want)' = {"all"} /\ Parts(want) = {"all"} /\ ~IsGroup(want)
    BY <1>1, <1>3 DEF Parts, IsGroup
  <2>2. CASE Finishing
    <3>1. Achieved
      BY <1>1, <1>3, <2>2, StepAchieves
    <3>2. "all" \in met'
      BY <1>1, <2>1, <3>1, WholeOrNothing DEF Achieved
    <3>3. QED
      BY <2>1, <3>2
  <2>3. CASE ~Finishing
    <3>1. pc' \notin Steps["group"]
      <4>1. pc' # "idle" => pc' \in Steps[want.module]
        BY <1>1, TaskStepTyped DEF PartsInv, TypeInv, AtHome
      <4>2. want.module \in DOMAIN Steps
        BY OwnSteps DEF PartsInv, Steps
      <4>3. QED
        BY <1>3, <4>1, <4>2 DEF Steps
    <3>2. pc' \notin {"addMembers", "removeMembers", "setGroupStatus"}
      BY <3>1 DEF Steps
    <3>3. StillToDo' = Parts(want)'
      BY <1>1, <2>3, <3>2 DEF StillToDo, Finishing
    <3>4. QED
      BY <3>3
  <2>4. QED
    BY <2>2, <2>3
<1>4. QED
  BY <1>2, <1>3

\* Only GetGroup leads to a creation, and reads what is missing then.
LEMMA StepFindsMissing == ASSUME PartsInv, TaskStep PROVE FoundMissing'
<1> SUFFICES ASSUME pc' = "createGroup" PROVE ~read'.exists
  BY DEF FoundMissing
<1>1. want.module = "group"
  <2>1. want' = want /\ pc' \in Steps[want'.module] /\ want.module \in DOMAIN Steps
    BY StepFramed, TaskStepTyped, OwnSteps DEF PartsInv, TypeInv, AtHome, Framed, run, Steps
  <2>2. QED
    BY <2>1 DEF Steps
<1>2. \/ GetGroup \/ CreateGroup \/ AddMembers \/ RemoveMembers \/ SetGroupStatus \/ DeleteGroup
  BY <1>1, OwnSteps DEF PartsInv
<1>3. CASE GetGroup
  <2>1. AfterRead' \in {"addMembers", "removeMembers", "setGroupStatus", "exit"}
    BY DEF AfterRead, AfterAdd, AfterMembers
  <2>2. pc = "getGroup"
    BY <1>3 DEF GetGroup, Read, Call
  <2>3. QED
    BY <1>3, <2>1, <2>2 DEF GetGroup, Read, Call, Decide, Goto, Exit, FailJson, NetworkError
<1>4. CASE CreateGroup
  BY <1>4 DEF CreateGroup, Write, Call, PartsInv, FoundMissing
<1>5. CASE AddMembers \/ RemoveMembers \/ SetGroupStatus \/ DeleteGroup
  <2>1. AfterAdd # "createGroup" /\ AfterMembers # "createGroup"
    BY DEF AfterAdd, AfterMembers
  <2>2. QED
    BY <1>5, <2>1 DEF AddMembers, RemoveMembers, SetGroupStatus, DeleteGroup, Write, Call, Goto, Exit, FailJson,
       NetworkError
<1>6. QED
  BY <1>2, <1>3, <1>4, <1>5

LEMMA PartsInvKept == ASSUME PartsInv, [Next]_vars PROVE PartsInv'
<1>1. TypeInv'
  BY NextTyped DEF PartsInv
<1>2. CASE TaskStep
  <2>1. NowMet'
    <3>1. AsAsked(want, srv') \subseteq met' /\ want' = want
      BY <1>2, StepMeets, StepFramed DEF PartsInv, Framed, run
    <3>2. QED
      BY <3>1 DEF NowMet
  <2>2. QED
    BY <1>1, <1>2, <2>1, StepHeaded, StepRests, StepFindsMissing DEF PartsInv
<1>3. CASE Start
  <2>1. PICK w \in Wants, d \in BOOLEAN : Begin(w, d, FirstStep[w.module])
    BY <1>3 DEF Start
  <2>2. w.module \in DOMAIN FirstStep
    BY DEF FirstStep, Wants, BucketWants, AccessWants, IdentityWants
  <2>3. pc' \in {"head", "getRules", "checkSize", "getPolicy", "checkPolicies", "getUser", "getGroup",
                 "getAccount"}
    BY <2>1, <2>2 DEF Begin, FirstStep
  <2>4. Headed' /\ FoundMissing'
    BY <2>3 DEF Headed, Making, Removing, FoundMissing
  <2>5. StillToDo' = Parts(want)'
    BY <2>3 DEF StillToDo, Over
  <2>6. met' = AsAsked(want', srv')
    BY <2>1 DEF Begin
  <2>7. QED
    BY <1>1, <2>4, <2>5, <2>6 DEF PartsInv, RestIsMet, NowMet
<1>4. CASE Interfere
  <2>1. /\ UNCHANGED <<want, dry, pc, read, outcome>> /\ met \subseteq met' /\ AsAsked(want, srv') \subseteq met'
    BY <1>4 DEF Interfere, verdict
  <2>2. /\ StillToDo' = StillToDo /\ Parts(want)' = Parts(want) /\ TakenAsNew' = TakenAsNew
    BY <2>1 DEF StillToDo, Over, ToAdd, ToRemove, StatusPart, StatusDiffers, Parts, IsGroup, TakenAsNew
  <2>3. Headed' /\ FoundMissing'
    BY <2>1 DEF PartsInv, Headed, FoundMissing, Making, Removing
  <2>4. QED
    BY <1>1, <2>1, <2>2, <2>3 DEF PartsInv, RestIsMet, NowMet
<1>5. CASE Forget
  <2>1. pc' = "idle" /\ outcome' = "none"
    BY <1>5 DEF Forget, PartsInv, TypeInv, AtHome
  <2>2. StillToDo' = Parts(want)'
    BY <2>1 DEF StillToDo, Over
  <2>3. QED
    BY <1>1, <2>1, <2>2 DEF PartsInv, Headed, FoundMissing, RestIsMet, NowMet, Making, Removing
<1>6. CASE UNCHANGED vars
  <2>1. UNCHANGED <<srv, want, dry, pc, read, outcome, met>>
    BY <1>6 DEF vars, run, verdict
  <2>2. /\ StillToDo' = StillToDo /\ Parts(want)' = Parts(want) /\ TakenAsNew' = TakenAsNew
        /\ AsAsked(want, srv)' = AsAsked(want, srv)
    BY <2>1 DEF StillToDo, Over, ToAdd, ToRemove, StatusPart, StatusDiffers, Parts, IsGroup, TakenAsNew, AsAsked
  <2>3. Headed' /\ FoundMissing'
    BY <2>1 DEF PartsInv, Headed, FoundMissing, Making, Removing
  <2>4. QED
    BY <1>1, <2>1, <2>2, <2>3 DEF PartsInv, RestIsMet, NowMet
<1>7. QED
  BY <1>2, <1>3, <1>4, <1>5, <1>6 DEF Next

LEMMA PartsInvHolds == Spec => []PartsInv
<1>1. Init => PartsInv
  <2> SUFFICES ASSUME Init PROVE PartsInv
    OBVIOUS
  <2>1. pc = "idle" /\ outcome = "none"
    BY DEF Init, Idle
  <2>2. StillToDo = Parts(want)
    BY <2>1 DEF StillToDo, Over
  <2>3. QED
    BY <2>1, <2>2, InitTyped DEF PartsInv, Headed, FoundMissing, RestIsMet, NowMet, Making, Removing
<1>2. PartsInv /\ [Next]_vars => PartsInv'
  BY PartsInvKept
<1>3. QED
  BY <1>1, <1>2, PTL DEF Spec

\* A group that nobody else touched is its own goal in the end, and fits in every part.
LEMMA GoalFits ==
  ASSUME TypeInv, want.module = "group", srv = Goal(want, base)
  PROVE  Parts(want) \subseteq AsAsked(want, srv)
<1>1. /\ base \in GroupRecords /\ srv \in GroupRecords /\ want.state \in {"present", "absent"}
      /\ want \in IdentityWants /\ Goal(want, base) = IdentityGoal(want, base)
  BY IdentitiesAtHand, GroupsAreRecords, StatesAtHand
<1>2. CASE want.state = "absent"
  <2>1. srv = NoGroup /\ ~IsGroup(want)
    BY <1>1, <1>2, GroupGoalIs DEF IsGroup
  <2>2. Goal(want, srv) = srv
    <3>1. NoGroup.kind = "group"
      BY DEF NoGroup
    <3>2. Nobody("group") = NoGroup
      BY DEF Nobody
    <3>3. Goal(want, NoGroup) = Nobody("group")
      BY <1>2, <3>1 DEF Goal, IdentityGoal
    <3>4. QED
      BY <2>1, <3>2, <3>3
  <2>3. QED
    BY <2>1, <2>2, WholeOrNothing
<1>3. CASE want.state = "present"
  <2> DEFINE status  == Default(want.status, base.status)
             members == IF want.append \/ want.members = Unset
                        THEN base.members \cup Default(want.members, {}) ELSE Default(want.members, {})
  <2>1. srv = [base EXCEPT !.exists = TRUE, !.status = status, !.members = members]
    BY <1>1, <1>3 DEF IdentityGoal, GroupGoal
  <2>2. srv.exists /\ srv.status = status /\ srv.members = members
    <3> HIDE DEF status, members
    <3>1. QED
      BY <1>1, <2>1 DEF GroupRecords
  <2>3. IsGroup(want) /\ Parts(want) = {"status"} \cup Users
    BY <1>3 DEF IsGroup, Parts
  <2>4. want.status # Unset => srv.status = want.status
    BY <2>2 DEF Default
  <2>5. "status" \in AsAsked(want, srv)
    BY <1>1, <2>2, <2>3, <2>4, FittingParts
  <2>6. ASSUME NEW u \in Users PROVE u \in AsAsked(want, srv)
    BY <1>1, <2>2, <2>3, FittingParts DEF Default
  <2>7. QED
    BY <2>3, <2>5, <2>6
<1>4. QED
  BY <1>1, <1>2, <1>3

\* Whoever else acts, and however often: a run that reports success has seen, or
\* made, each part of what it was asked true at some moment - except of a group it
\* created, and of that too when it was alone.
THEOREM PartsWereSo == Spec => []OkMeansEachPartWasSo
<1>1. PartsInv /\ GoalInv => OkMeansEachPartWasSo
  <2> SUFFICES ASSUME PartsInv, GoalInv, Over, ~dry, TakenAsNew => Undisturbed PROVE met = Parts(want)
    BY DEF OkMeansEachPartWasSo
  <2>1. met \subseteq Parts(want) /\ TypeInv
    BY DEF PartsInv, TypeInv, TypeOK
  <2>2. CASE ~TakenAsNew
    <3>1. StillToDo = {}
      BY DEF StillToDo, Over
    <3>2. QED
      BY <2>1, <2>2, <3>1 DEF PartsInv, RestIsMet
  <2>3. CASE TakenAsNew
    <3>1. srv = Goal(want, base) /\ want.module = "group"
      BY <2>3 DEF GoalInv, Fulfilled, Undisturbed, TakenAsNew
    <3>2. AsAsked(want, srv) \subseteq met
      BY DEF PartsInv, NowMet, Over
    <3>3. QED
      BY <2>1, <3>1, <3>2, GoalFits
  <2>4. QED
    BY <2>2, <2>3
<1>2. QED
  BY <1>1, PartsInvHolds, GoalInvHolds, PTL
-----------------------------------------------------------------------------
(* Every write goes towards what is asked of the resource as it is now.    *)

\* What StaysOnCourse says of a step that changes the resource.
Toward ==
  LET then == Goal(want, srv')  now == Goal(want, srv)
  IN  \/ then = now
      \/ want.module = "bucket" /\ then = [now EXCEPT !.versioning = then.versioning]
         /\ Effective(then.versioning) = Effective(now.versioning)

\* The resource is changed by the write that comes next, and to what it writes.
LEMMA WriteChanges ==
  ASSUME NEW l, NEW class, NEW effect, NEW next, Write(l, class, effect, next), srv' # srv
  PROVE  pc = l /\ class = "ok" /\ srv' = effect
  BY DEF Write, Call

LEMMA ReadsChangeNothing ==
  ASSUME \/ HeadBucket \/ GetVersioning \/ GetRules \/ CheckSize \/ GetQuota \/ GetPolicy
         \/ CheckPolicies \/ GetEntity \/ GetUser \/ GetGroup \/ GetAccount \/ ReadBack
  PROVE  srv' = srv
  BY DEF HeadBucket, GetVersioning, GetRules, CheckSize, GetQuota, GetPolicy, CheckPolicies, GetEntity, GetUser,
     GetGroup, GetAccount, ReadBack, Read, Call, Check

LEMMA BucketToward ==
  ASSUME TypeInv, Headed, srv' # srv, CreateBucket \/ PutVersioning \/ DeleteBucket, want.module = "bucket"
  PROVE  Toward
<1>1. want \in BucketWants /\ srv \in Buckets /\ srv \in BucketRecords
  BY BucketsAtHand, BucketsAreRecords
<1>2. srv' \in Buckets
  BY BucketStepKeeps DEF Kept, BucketStep
<1>3. Goal(want, srv) = BucketGoal(want, srv) /\ Goal(want, srv') = BucketGoal(want, srv')
  BY <1>1, <1>2, BucketGoals
<1>4. CASE CreateBucket
  <2>1. want.state = "present" /\ ~srv.exists /\ srv' = Fresh
    BY <1>4, WriteChanges DEF CreateBucket, Headed, Making
  <2>2. Fresh.exists
    BY DEF Fresh, NoBucket
  <2>3. BucketGoal(want, srv') = BucketGoal(want, srv)
    BY <2>1, <2>2 DEF BucketGoal
  <2>4. QED
    BY <1>3, <2>3 DEF Toward
<1>5. CASE PutVersioning
  <2>1. want.state = "present" /\ srv.exists /\ srv' = [srv EXCEPT !.versioning = want.value]
    BY <1>5, WriteChanges DEF PutVersioning, IfExists, Headed, Making
  <2>2. want.value \in {"enabled", "suspended"} /\ want.value # Unset
    BY <1>1, <1>5 DEF PutVersioning, Write, Call, TypeInv, AtHome, BucketWants
  <2>3. srv'.exists /\ srv'.versioning = want.value /\ [srv' EXCEPT !.versioning = want.value] = srv'
    BY <1>1, <2>1 DEF BucketRecords
  <2>4. BucketGoal(want, srv') = srv'
    BY <2>1, <2>3 DEF BucketGoal
  <2>5. CASE (srv.versioning = "enabled") # (want.value = "enabled")
    BY <1>3, <2>1, <2>2, <2>4, <2>5 DEF BucketGoal, Toward
  <2>6. CASE ~((srv.versioning = "enabled") # (want.value = "enabled"))
    <3>1. BucketGoal(want, srv) = srv
      BY <2>1, <2>6 DEF BucketGoal
    <3>2. srv.versioning \in Versioning
      BY <1>1 DEF BucketRecords
    <3>3. Effective(srv'.versioning) = Effective(srv.versioning)
      BY <2>2, <2>3, <2>6, <3>2 DEF Effective, Versioning
    <3>4. QED
      BY <1>3, <2>1, <2>3, <2>4, <3>1, <3>3 DEF Toward
  <2>7. QED
    BY <2>5, <2>6
<1>6. CASE DeleteBucket
  <2>1. want.state = "absent"
    BY <1>6 DEF DeleteBucket, Call, Headed, Removing
  <2>2. QED
    BY <1>3, <2>1 DEF BucketGoal, Toward
<1>7. QED
  BY <1>4, <1>5, <1>6

\* A module that sets one field to what is asked changes nothing that the goal keeps.
LEMMA FieldsToward ==
  ASSUME TypeInv, Headed, srv' # srv,
         \/ want.module = "bucket_lifecycle" /\ (PutRules \/ DeleteRules)
         \/ want.module = "bucket_quota" /\ (SetQuota \/ ClearQuota)
         \/ want.module = "policy" /\ (PutPolicy \/ DeletePolicy)
  PROVE  Toward
<1>1. want.module # "policy" => want \in BucketWants /\ srv \in Buckets /\ srv \in BucketRecords
  BY BucketsAtHand, BucketsAreRecords DEF TypeInv
<1>2. want.module = "policy" => srv \in Accesses
  BY AccessesAtHand
<1>3. CASE (PutRules \/ DeleteRules) /\ want.module = "bucket_lifecycle"
  <2>1. srv' = [srv EXCEPT !.rules = IF want.state = "absent" THEN NoRules ELSE want.value]
    BY <1>3, WriteChanges DEF PutRules, DeleteRules, Headed, Making, Removing
  <2>2. srv' \in Buckets
    BY <1>3, BucketStepKeeps DEF Kept, BucketStep
  <2>3. BucketGoal(want, srv') = BucketGoal(want, srv)
    BY <1>1, <1>3, <2>1 DEF BucketGoal, BucketRecords
  <2>4. QED
    BY <1>1, <1>3, <2>2, <2>3, BucketGoals DEF Toward
<1>4. CASE (SetQuota \/ ClearQuota) /\ want.module = "bucket_quota"
  <2>1. srv' = [srv EXCEPT !.quota = IF want.state = "absent" THEN 0 ELSE want.value]
    BY <1>4, WriteChanges DEF SetQuota, ClearQuota, DesiredQuota, Headed, Making, Removing
  <2>2. srv' \in Buckets
    BY <1>4, BucketStepKeeps DEF Kept, BucketStep
  <2>3. BucketGoal(want, srv') = BucketGoal(want, srv)
    BY <1>1, <1>4, <2>1 DEF BucketGoal, BucketRecords
  <2>4. QED
    BY <1>1, <1>4, <2>2, <2>3, BucketGoals DEF Toward
<1>5. CASE (PutPolicy \/ DeletePolicy) /\ want.module = "policy"
  <2>1. srv' = [srv EXCEPT !.document = IF want.state = "absent" THEN NoDocument ELSE want.document]
    BY <1>5, WriteChanges DEF PutPolicy, DeletePolicy, Headed, Making, Removing
  <2>2. AccessGoal(want, srv') = AccessGoal(want, srv) /\ srv'.kind = "access" /\ srv.kind = "access"
    BY <1>2, <1>5, <2>1 DEF AccessGoal, Accesses
  <2>3. QED
    BY <2>2 DEF Goal, Toward
<1>6. QED
  BY <1>3, <1>4, <1>5

LEMMA AttachmentToward ==
  ASSUME TypeInv, AttachmentAt, srv' # srv, SetAttached, want.module = "policy_attachment"
  PROVE  Toward
<1>1. srv \in Accesses /\ base \in Accesses
  BY AccessesAtHand
<1>2. srv' = [srv EXCEPT !.attached = Desired(read.attached)] /\ pc = "setAttached"
  BY WriteChanges DEF SetAttached
<1>3. read = base /\ srv \in {base, Goal(want, base)}
  BY <1>2 DEF AttachmentAt, Writing
<1>4. [Goal(want, base) EXCEPT !.attached = Desired(base.attached)] = Goal(want, base)
      /\ Goal(want, base) = [base EXCEPT !.attached = Desired(base.attached)]
  BY AttachmentGoalIs
<1>5. srv = base /\ srv' = Goal(want, base)
  BY <1>2, <1>3, <1>4
<1>6. srv'.attached = Desired(base.attached) /\ srv'.kind = "access"
  BY <1>1, <1>4, <1>5 DEF Accesses
<1>7. Desired(srv'.attached) = srv'.attached
  BY <1>6 DEF Desired
<1>8. Goal(want, srv') = [srv' EXCEPT !.attached = Desired(srv'.attached)]
  BY <1>6 DEF Goal, AccessGoal, Desired
<1>9. [srv' EXCEPT !.attached = srv'.attached] = srv'
  BY <1>1, <1>4, <1>5 DEF Accesses
<1>10. QED
  BY <1>5, <1>7, <1>8, <1>9 DEF Toward

LEMMA UserToward ==
  ASSUME TypeInv, UserAt, srv' # srv, want.module = "user",
         AddUser \/ RotateSecret \/ SetUserStatus \/ RemoveUser
  PROVE  Toward
<1>1. /\ want \in IdentityWants /\ srv \in UserStates /\ base \in UserStates
      /\ srv \in UserRecords /\ base \in UserRecords /\ srv.kind = "user"
  BY IdentitiesAtHand, UsersAreRecords
<1>2. srv' \in UserStates /\ srv' \in UserRecords /\ srv'.kind = "user"
  BY UserStepKeeps, UsersAreRecords DEF Kept, UserRecords
<1>3. Goal(want, srv) = IdentityGoal(want, srv) /\ Goal(want, srv') = IdentityGoal(want, srv')
  BY <1>1, <1>2 DEF Goal
<1>4. CASE AddUser
  <2>1. pc = "addUser" /\ srv' = AddedUser(Default(want.status, "enabled"))
    BY <1>4, WriteChanges DEF AddUser
  <2>2. want.state = "present" /\ ~base.exists /\ srv \in {base, Goal(want, base)}
    BY <2>1 DEF UserAt, Writing
  <2>3. Goal(want, base) = srv' /\ srv = base
    BY <2>1, <2>2, UserGoalIs
  <2>4. srv'.exists /\ srv'.secret = want.secret /\ (want.status # Unset => srv'.status = want.status)
    BY <2>1 DEF AddedUser, Default
  <2>5. Goal(want, srv') = srv'
    BY <1>2, <2>2, <2>4, UserIsGoal
  <2>6. QED
    BY <2>3, <2>5 DEF Toward
<1>5. CASE RotateSecret
  <2>1. pc = "rotateSecret" /\ srv' = AddedUser(Default(want.status, read.status))
    BY <1>5, WriteChanges DEF RotateSecret
  <2>2. /\ want.state = "present" /\ want.update_secret /\ base.exists /\ read = base
        /\ srv \in {base, Goal(want, base)}
    BY <2>1 DEF UserAt, Writing
  <2>3. Goal(want, base) = srv' /\ srv = base
    BY <2>1, <2>2, UserGoalIs
  <2>4. srv'.exists /\ srv'.secret = want.secret /\ (want.status # Unset => srv'.status = want.status)
    BY <2>1 DEF AddedUser, Default
  <2>5. Goal(want, srv') = srv'
    BY <1>2, <2>2, <2>4, UserIsGoal
  <2>6. QED
    BY <2>3, <2>5 DEF Toward
<1>6. CASE SetUserStatus
  <2>1. pc = "setUserStatus" /\ srv' = [srv EXCEPT !.status = want.status]
    BY <1>6, WriteChanges DEF SetUserStatus
  <2>2. StatusLast /\ base.exists
    BY <2>1 DEF UserAt
  <2>3. want.state = "present" /\ want.status # Unset /\ srv.exists /\ srv' = Goal(want, base)
    BY <2>1, <2>2 DEF StatusLast
  <2>4. srv'.exists /\ srv'.status = want.status /\ srv'.secret = srv.secret
    BY <1>1, <2>1, <2>3 DEF UserRecords
  <2>5. want.update_secret => srv'.secret = want.secret
    BY <2>2, <2>3, UserGoalIs DEF AddedUser
  <2>6. Goal(want, srv') = srv'
    BY <1>2, <2>3, <2>4, <2>5, UserIsGoal
  <2>7. Goal(want, srv) = srv'
    <3> DEFINE secret == IF want.update_secret THEN want.secret ELSE srv.secret
               status == Default(want.status, srv.status)
    <3>1. secret = srv.secret /\ status = want.status
      BY <2>3, <2>4, <2>5 DEF Default
    <3>2. UserGoal(want, srv) = [srv EXCEPT !.secret = secret, !.status = status]
      BY <2>3 DEF UserGoal
    <3> HIDE DEF secret, status
    <3>3. [srv EXCEPT !.secret = secret, !.status = status] = [srv EXCEPT !.status = want.status]
      BY <1>1, <3>1 DEF UserRecords
    <3>4. QED
      BY <1>3, <2>1, <2>3, <3>2, <3>3 DEF IdentityGoal
  <2>8. QED
    BY <2>6, <2>7 DEF Toward
<1>7. CASE RemoveUser
  <2>1. want.state = "absent"
    BY <1>7 DEF RemoveUser, Write, Call, UserAt
  <2>2. QED
    BY <1>1, <1>2, <1>3, <2>1 DEF IdentityGoal, Toward
<1>8. QED
  BY <1>4, <1>5, <1>6, <1>7

LEMMA AccountToward ==
  ASSUME TypeInv, Headed, srv' # srv, want.module = "service_account", CreateAccount \/ DeleteAccount
  PROVE  Toward
<1>1. srv \in AccountStates /\ srv' \in AccountStates
  BY IdentitiesAtHand, AccountStepKeeps DEF Kept
<1>2. \A a \in AccountStates : a.kind = "service_account" /\ (~a.exists => a = NoAccount)
  BY DEF NoAccount, NoUser, AccountStates, Keypair
<1>3. Goal(want, srv) = IdentityGoal(want, srv) /\ Goal(want, srv') = IdentityGoal(want, srv')
  BY <1>1, <1>2 DEF Goal
<1>4. CASE CreateAccount
  <2>1. want.state = "present" /\ ~srv.exists /\ srv' = [NoAccount EXCEPT !.exists = TRUE, !.secret = want.secret]
    BY <1>4, WriteChanges DEF CreateAccount, Headed, Making
  <2>2. srv'.exists /\ srv = NoAccount
    BY <1>1, <1>2, <2>1 DEF NoAccount, NoUser
  <2>3. AccountGoal(want, srv) = srv' /\ AccountGoal(want, srv') = srv'
    BY <2>1, <2>2 DEF AccountGoal
  <2>4. QED
    BY <1>3, <2>1, <2>3 DEF IdentityGoal, Toward
<1>5. CASE DeleteAccount
  <2>1. want.state = "absent"
    BY <1>5 DEF DeleteAccount, Write, Call, Headed, Removing
  <2>2. QED
    BY <1>1, <1>2, <1>3, <2>1 DEF IdentityGoal, Toward
<1>6. QED
  BY <1>4, <1>5

\* What a group is to become depends on its status and on its members only as far
\* as these are left alone.
LEMMA SameGroupGoal ==
  ASSUME NEW w \in IdentityWants, w.module = "group", NEW g \in GroupRecords, NEW h \in GroupRecords,
         w.status = Unset => h.status = g.status,
         w.members = Unset => h.members = g.members,
         w.members # Unset /\ w.append => h.members \cup w.members = g.members \cup w.members
  PROVE  GroupGoal(w, h) = GroupGoal(w, g)
<1> DEFINE status  == Default(w.status, g.status)
           members == IF w.append \/ w.members = Unset
                      THEN g.members \cup Default(w.members, {}) ELSE Default(w.members, {})
<1>1. status \in Statuses /\ members \in SUBSET Users
  <2>1. w.status \in Params /\ w.members \in {Unset} \cup SUBSET Users
    BY DEF IdentityWants
  <2>2. g.status \in Statuses /\ g.members \in SUBSET Users
    BY DEF GroupRecords
  <2>3. QED
    BY <2>1, <2>2 DEF Default, Params
<1>2. /\ status = Default(w.status, h.status)
      /\ members = IF w.append \/ w.members = Unset
                   THEN h.members \cup Default(w.members, {}) ELSE Default(w.members, {})
  BY DEF Default
<1>3. PICK s \in Statuses, m \in SUBSET Users : s = status /\ m = members
  BY <1>1
<1>4. GroupGoal(w, g) = [g EXCEPT !.exists = TRUE, !.status = s, !.members = m]
  BY <1>3 DEF GroupGoal
<1> HIDE DEF status, members
<1>5. GroupGoal(w, h) = [h EXCEPT !.exists = TRUE, !.status = s, !.members = m]
  BY <1>2, <1>3 DEF GroupGoal
<1> DEFINE Edited(x) == [x EXCEPT !.exists = TRUE, !.status = s, !.members = m]
<1>6. ASSUME NEW x \in GroupRecords
      PROVE  /\ Edited(x) \in GroupRecords
             /\ Edited(x).exists /\ Edited(x).status = s /\ Edited(x).members = m
  BY DEF GroupRecords
<1>7. \A x, y \in GroupRecords : x.exists = y.exists /\ x.status = y.status /\ x.members = y.members => x = y
  BY DEF GroupRecords
<1>8. Edited(g) = Edited(h)
  <2> HIDE DEF Edited
  <2>1. Edited(g).exists = Edited(h).exists
    BY <1>6 DEF GroupRecords
  <2>2. QED
    BY <1>6, <1>7, <2>1
<1>9. QED
  BY <1>4, <1>5, <1>8

LEMMA GroupToward ==
  ASSUME TypeInv, Headed, srv' # srv, want.module = "group",
         CreateGroup \/ AddMembers \/ RemoveMembers \/ SetGroupStatus \/ DeleteGroup
  PROVE  Toward
<1>1. srv \in GroupRecords /\ srv' \in GroupRecords /\ want \in IdentityWants
  BY IdentitiesAtHand, GroupStepKeeps, GroupsAreRecords DEF Kept
<1>2. srv.kind = "group" /\ srv'.kind = "group"
  BY <1>1 DEF GroupRecords
<1>3. Goal(want, srv) = IdentityGoal(want, srv) /\ Goal(want, srv') = IdentityGoal(want, srv')
  BY <1>2 DEF Goal
<1>4. want.state = "present" /\ GroupGoal(want, srv') = GroupGoal(want, srv) => Toward
  BY <1>3 DEF IdentityGoal, Toward
<1>5. CASE CreateGroup
  <2>1. want.state = "present"
    BY <1>5 DEF CreateGroup, Headed, Making
  <2>2. srv' = [srv EXCEPT !.exists = TRUE, !.members = @ \cup ToAdd]
    BY <1>5, WriteChanges DEF CreateGroup
  <2>3. srv'.status = srv.status /\ srv'.members = srv.members \cup ToAdd
    BY <1>1, <2>2 DEF GroupRecords
  <2>4. GroupGoal(want, srv') = GroupGoal(want, srv)
    BY <1>1, <2>3, SameGroupGoal DEF ToAdd
  <2>5. QED
    BY <1>4, <2>1, <2>4
<1>6. CASE AddMembers
  <2>1. want.state = "present" /\ srv' = [srv EXCEPT !.members = @ \cup ToAdd]
    BY <1>6, WriteChanges DEF AddMembers, Headed, Making
  <2>2. srv'.status = srv.status /\ srv'.members = srv.members \cup ToAdd
    BY <1>1, <2>1 DEF GroupRecords
  <2>3. GroupGoal(want, srv') = GroupGoal(want, srv)
    BY <1>1, <2>2, SameGroupGoal DEF ToAdd
  <2>4. QED
    BY <1>4, <2>1, <2>3
<1>7. CASE RemoveMembers
  <2>1. want.state = "present" /\ srv' = [srv EXCEPT !.members = @ \ ToRemove]
    BY <1>7, WriteChanges DEF RemoveMembers, Headed, Making
  <2>2. srv'.status = srv.status /\ srv'.members = srv.members \ ToRemove
    BY <1>1, <2>1 DEF GroupRecords
  <2>3. GroupGoal(want, srv') = GroupGoal(want, srv)
    BY <1>1, <2>2, SameGroupGoal DEF ToRemove
  <2>4. QED
    BY <1>4, <2>1, <2>3
<1>8. CASE SetGroupStatus
  <2>1. want.state = "present" /\ want.status # Unset /\ srv' = [srv EXCEPT !.status = want.status]
    BY <1>8, WriteChanges DEF SetGroupStatus, Headed, Making, TypeInv, AtHome
  <2>2. srv'.members = srv.members
    BY <1>1, <2>1 DEF GroupRecords
  <2>3. GroupGoal(want, srv') = GroupGoal(want, srv)
    BY <1>1, <2>1, <2>2, SameGroupGoal
  <2>4. QED
    BY <1>4, <2>1, <2>3
<1>9. CASE DeleteGroup
  <2>1. want.state = "absent"
    BY <1>9 DEF DeleteGroup, Write, Call, Headed, Removing
  <2>2. QED
    BY <1>2, <1>3, <2>1 DEF IdentityGoal, Toward
<1>10. QED
  BY <1>5, <1>6, <1>7, <1>8, <1>9

LEMMA StepToward ==
  ASSUME GoalInv, PartsInv, TaskStep, srv' # srv, want.module \in ReadModifyWrites => Undisturbed
  PROVE  Toward
<1>1. TypeInv /\ Headed
  BY DEF PartsInv
<1>2. CASE want.module \in {"bucket", "bucket_lifecycle", "bucket_quota"}
  BY <1>1, <1>2, OwnSteps, ReadsChangeNothing, BucketToward, FieldsToward
<1>3. CASE want.module \in {"policy", "service_account", "group"}
  BY <1>1, <1>3, OwnSteps, ReadsChangeNothing, FieldsToward, AccountToward, GroupToward
<1>4. CASE want.module \in {"user", "policy_attachment"}
  <2>1. pc # "idle"
    BY StepMeets DEF PartsInv
  <2>2. Standing
    BY <1>4, <2>1 DEF GoalInv, ReadModifyWrites, Undisturbed
  <2>3. QED
    BY <1>1, <1>4, <2>2, OwnSteps, ReadsChangeNothing, UserToward, AttachmentToward DEF Standing
<1>5. QED
  BY <1>1, <1>2, <1>3, <1>4, OwnSteps

\* Every write of a module goes towards what is asked of the resource as it is at
\* that moment, however far the run got before and whatever others did: for every
\* resource, parameter and number of disturbances.
THEOREM WritesStayOnCourse == Spec => StaysOnCourse
<1>1. ASSUME GoalInv, PartsInv, [Next]_vars, srv' # srv, others' = others,
             want.module \in ReadModifyWrites => Undisturbed
      PROVE  Toward
  <2>1. ~Start /\ ~Forget
    BY <1>1 DEF Start, Begin, Forget
  <2>2. ~Interfere
    BY <1>1 DEF Interfere, GoalInv, TypeInv, TypeOK
  <2>3. ~UNCHANGED vars
    BY <1>1 DEF vars
  <2>4. QED
    BY <1>1, <2>1, <2>2, <2>3, StepToward DEF Next
<1>2. GoalInv /\ PartsInv /\ [Next]_vars
      => [/\ srv' # srv /\ others' = others /\ Attainable(want, srv)
          /\ want.module \in ReadModifyWrites => Undisturbed
          => LET then == Goal(want, srv')  now == Goal(want, srv)
             IN  \/ then = now
                 \/ want.module = "bucket" /\ then = [now EXCEPT !.versioning = then.versioning]
                    /\ Effective(then.versioning) = Effective(now.versioning)]_vars
  BY <1>1 DEF Toward
<1>3. QED
  BY <1>2, GoalInvHolds, PartsInvHolds, PTL DEF Spec, StaysOnCourse
=============================================================================
