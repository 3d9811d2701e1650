------------------------- MODULE ResourceTypeProofs -------------------------
(***************************************************************************)
(* Theorems about the resource modules, for every resource, parameter,     *)
(* retry budget and number of others: the types, whose secrets a module    *)
(* touches, and that a dry run sends no write.                             *)
(***************************************************************************)
EXTENDS ResourceTasks, TLAPS

\* The calls and checks of a module.
Steps ==
  [bucket            |-> {"head", "create", "getVersioning", "putVersioning", "delete"},
   bucket_lifecycle  |-> {"getRules", "putRules", "deleteRules"},
   bucket_quota      |-> {"checkSize", "getQuota", "setQuota", "clearQuota"},
   policy            |-> {"getPolicy", "putPolicy", "deletePolicy"},
   policy_attachment |-> {"checkPolicies", "getEntity", "setAttached"},
   user              |-> {"getUser", "addUser", "rotateSecret", "setUserStatus", "removeUser"},
   group             |-> {"getGroup", "createGroup", "addMembers", "removeMembers",
                          "setGroupStatus", "deleteGroup"},
   service_account   |-> {"getAccount", "createAccount", "readBack", "deleteAccount"}]

\* What the module and the parameters have to be for a call to come next.
AtHome ==
  /\ pc # "idle" => pc \in Steps[want.module] /\ outcome = "none"
  /\ pc = "putVersioning" => want.value # Unset
  /\ pc \in {"addUser", "rotateSecret", "createAccount"} => want.secret # Unset
  /\ pc = "rotateSecret" => want.state = "present" /\ want.update_secret
  /\ pc \in {"setUserStatus", "setGroupStatus"} => want.status # Unset
  /\ pc \in {"checkSize", "checkPolicies"} => attempt = 0

\* The invariant. The types alone are not inductive: that a parameter is not left
\* out when a write uses it is a fact about where the module stands.
TypeInv == TypeOK /\ AtHome

LEMMA BudgetIsPositive == MaxAttempts \in Nat \ {0}
  BY RetriesAssumption DEF MaxAttempts

\* The identities of one kind.
UserStates    == {NoUser} \cup Keypair("user")
AccountStates == {NoAccount} \cup Keypair("service_account")
GroupStates   == {NoGroup} \cup Groups

LEMMA KindTells ==
  \A s \in Servers :
    /\ s.kind = "bucket" <=> s \in Buckets
    /\ s.kind = "access" <=> s \in Accesses
    /\ s.kind = "user"   <=> s \in UserStates
    /\ s.kind = "group"  <=> s \in GroupStates
    /\ s.kind = "service_account" <=> s \in AccountStates
<1>1. \A s \in Buckets : s.kind = "bucket"
  <2>1. NoBucket.kind = "bucket"
    BY DEF NoBucket
  <2>2. QED
    BY <2>1 DEF Buckets
<1>2. \A s \in Accesses : s.kind = "access"
  BY DEF Accesses
<1>3. \A s \in UserStates : s.kind = "user"
  <2>1. NoUser.kind = "user"
    BY DEF NoUser
  <2>2. QED
    BY <2>1 DEF UserStates, Keypair
<1>4. \A s \in GroupStates : s.kind = "group"
  <2>1. NoGroup.kind = "group"
    BY DEF NoGroup
  <2>2. QED
    BY <2>1 DEF GroupStates, Groups
<1>5. \A s \in AccountStates : s.kind = "service_account"
  <2>1. NoAccount.kind = "service_account"
    BY DEF NoAccount, NoUser
  <2>2. QED
    BY <2>1 DEF AccountStates, Keypair
<1>6. Servers = Buckets \cup Accesses \cup UserStates \cup GroupStates \cup AccountStates
  BY DEF Servers, Identities, UserStates, GroupStates, AccountStates
<1>7. QED
  BY <1>1, <1>2, <1>3, <1>4, <1>5, <1>6

\* The module that is at a call says what kind of resource the call is about.
LEMMA AtBuckets ==
  ASSUME TypeInv, pc \in Steps["bucket"] \cup Steps["bucket_lifecycle"] \cup Steps["bucket_quota"]
  PROVE  /\ want \in BucketWants /\ pc \in Steps[want.module]
         /\ srv \in Buckets /\ read \in Buckets
<1>1. pc # "idle" /\ pc \in Steps[want.module] /\ want \in Wants
  BY DEF TypeInv, TypeOK, AtHome, Steps
<1>2. want \in BucketWants
  BY <1>1 DEF Wants, BucketWants, AccessWants, IdentityWants, Steps
<1>3. srv.kind = "bucket" /\ read.kind = "bucket" /\ srv \in Servers /\ read \in Servers
  BY <1>2 DEF TypeInv, TypeOK, About, BucketWants
<1>4. QED
  BY <1>1, <1>2, <1>3, KindTells

LEMMA AtAccesses ==
  ASSUME TypeInv, pc \in Steps["policy"] \cup Steps["policy_attachment"]
  PROVE  /\ want \in AccessWants /\ pc \in Steps[want.module]
         /\ srv \in Accesses /\ read \in Accesses
<1>1. pc # "idle" /\ pc \in Steps[want.module] /\ want \in Wants
  BY DEF TypeInv, TypeOK, AtHome, Steps
<1>2. want \in AccessWants
  BY <1>1 DEF Wants, BucketWants, AccessWants, IdentityWants, Steps
<1>3. srv.kind = "access" /\ read.kind = "access" /\ srv \in Servers /\ read \in Servers
  BY <1>2 DEF TypeInv, TypeOK, About, AccessWants
<1>4. QED
  BY <1>1, <1>2, <1>3, KindTells

LEMMA AtIdentities ==
  ASSUME TypeInv, pc \in Steps["user"] \cup Steps["group"] \cup Steps["service_account"]
  PROVE  /\ want \in IdentityWants /\ pc \in Steps[want.module]
         /\ want.module = "user"  => srv \in UserStates /\ read \in UserStates
         /\ want.module = "group" => srv \in GroupStates /\ read \in GroupStates
         /\ want.module = "service_account" => srv \in AccountStates /\ read \in AccountStates
<1>1. pc # "idle" /\ pc \in Steps[want.module] /\ want \in Wants
  BY DEF TypeInv, TypeOK, AtHome, Steps
<1>2. want \in IdentityWants
  BY <1>1 DEF Wants, BucketWants, AccessWants, IdentityWants, Steps
<1>3. srv.kind = want.module /\ read.kind = want.module /\ srv \in Servers /\ read \in Servers
  BY <1>2 DEF TypeInv, TypeOK, About, IdentityWants
<1>4. QED
  BY <1>1, <1>2, <1>3, KindTells
-----------------------------------------------------------------------------
(* What the writes make of a resource is a resource.                       *)

LEMMA BucketWrites ==
  /\ NoBucket \in Buckets /\ Fresh \in Buckets
  /\ \A b \in Buckets : b.exists =>
       /\ \A v \in Versioning : [b EXCEPT !.versioning = v] \in Buckets
       /\ \A r \in Rulesets \cup {NoRules} : [b EXCEPT !.rules = r] \in Buckets
       /\ \A q \in Sizes \cup {0} : [b EXCEPT !.quota = q] \in Buckets
<1> DEFINE Made == [kind : {"bucket"}, exists : {TRUE}, content : BOOLEAN, versioning : Versioning,
                    rules : Rulesets \cup {NoRules}, quota : Sizes \cup {0}]
<1>1. Buckets = {NoBucket} \cup Made
  BY DEF Buckets
<1>2. ~NoBucket.exists
  BY DEF NoBucket
<1>3. Fresh \in Made
  BY DEF Fresh, NoBucket, Versioning
<1>4. ASSUME NEW b \in Made
      PROVE  /\ \A v \in Versioning : [b EXCEPT !.versioning = v] \in Made
             /\ \A r \in Rulesets \cup {NoRules} : [b EXCEPT !.rules = r] \in Made
             /\ \A q \in Sizes \cup {0} : [b EXCEPT !.quota = q] \in Made
  OBVIOUS
<1> HIDE DEF Made
<1>5. QED
  BY <1>1, <1>2, <1>3, <1>4

LEMMA AccessWrites ==
  ASSUME NEW s \in Accesses
  PROVE  /\ \A d \in Documents : [s EXCEPT !.document = d] \in Accesses
         /\ Policy \notin s.attached => [s EXCEPT !.document = NoDocument] \in Accesses
         /\ \A a \in SUBSET ({Policy} \cup Builtins) :
              s.entity /\ (Policy \in a => s.document # NoDocument) => [s EXCEPT !.attached = a] \in Accesses
  BY ResourceAssumption DEF Accesses

LEMMA UserWrites ==
  /\ NoUser \in UserStates
  /\ \A k \in Secrets, t \in Statuses :
       [kind |-> "user", exists |-> TRUE, secret |-> k, status |-> t] \in UserStates
  /\ \A u \in UserStates, t \in Statuses : u.exists => [u EXCEPT !.status = t] \in UserStates
<1>1. ~NoUser.exists
  BY DEF NoUser
<1>2. ASSUME NEW u \in Keypair("user"), NEW t \in Statuses
      PROVE  [u EXCEPT !.status = t] \in Keypair("user")
  BY DEF Keypair
<1>3. ASSUME NEW k \in Secrets, NEW t \in Statuses
      PROVE  [kind |-> "user", exists |-> TRUE, secret |-> k, status |-> t] \in Keypair("user")
  BY DEF Keypair
<1>4. QED
  BY <1>1, <1>2, <1>3 DEF UserStates

LEMMA AccountWrites ==
  /\ NoAccount \in AccountStates
  /\ \A k \in Secrets : [NoAccount EXCEPT !.exists = TRUE, !.secret = k] \in AccountStates
<1>1. ASSUME NEW k \in Secrets
      PROVE  [NoAccount EXCEPT !.exists = TRUE, !.secret = k] \in Keypair("service_account")
  BY DEF NoAccount, NoUser, Keypair, Statuses
<1>2. QED
  BY <1>1 DEF AccountStates

LEMMA GroupWrites ==
  /\ NoGroup \in GroupStates
  /\ \A g \in GroupStates :
       /\ g.members \subseteq Users /\ g.status \in Statuses
       /\ \A m \in SUBSET Users : [g EXCEPT !.exists = TRUE, !.members = m] \in GroupStates
       /\ g.exists => /\ \A m \in SUBSET Users : [g EXCEPT !.members = m] \in GroupStates
                       /\ \A t \in Statuses : [g EXCEPT !.status = t] \in GroupStates
<1>1. ~NoGroup.exists /\ NoGroup.members = {} /\ NoGroup.status \in Statuses
  BY DEF NoGroup, Statuses
<1>2. ASSUME NEW g \in Groups
      PROVE  /\ g.members \subseteq Users /\ g.status \in Statuses
             /\ \A m \in SUBSET Users : [g EXCEPT !.exists = TRUE, !.members = m] \in Groups
             /\ \A m \in SUBSET Users : [g EXCEPT !.members = m] \in Groups
             /\ \A t \in Statuses : [g EXCEPT !.status = t] \in Groups
  BY DEF Groups
<1>3. \A m \in SUBSET Users : [NoGroup EXCEPT !.exists = TRUE, !.members = m] \in Groups
  BY DEF NoGroup, Groups, Statuses
<1>4. QED
  BY <1>1, <1>2, <1>3 DEF GroupStates
-----------------------------------------------------------------------------
(* A step of a module, but for the resource and where the module goes.     *)

LEMMA PartsOfWhatIsAsked == \A w, s : AsAsked(w, s) \subseteq Parts(w)
  BY DEF AsAsked, Parts

\* A step of a call: the module goes on or ends, or retry_call goes round or ends.
Settled == \/ pc' # "idle" /\ UNCHANGED verdict
           \/ pc' = "idle" /\ outcome' \in {"ok", "failed"}
Shaped ==
  /\ pc # "idle" /\ UNCHANGED run /\ met' \subseteq met \cup AsAsked(want, srv')
  /\ (attempt' = 0 /\ UNCHANGED unsure /\ Settled) \/ NetworkError

LEMMA BucketStepShaped == ASSUME AtHome, BucketStep PROVE Shaped
<1> USE DEF Read, Write, Call, Check, Decide, Goto, Exit, FailJson, Shaped, Settled
<1>1. CASE HeadBucket \/ CreateBucket \/ GetVersioning \/ PutVersioning \/ DeleteBucket
  BY <1>1 DEF HeadBucket, CreateBucket, GetVersioning, PutVersioning, DeleteBucket
<1>2. CASE GetRules \/ PutRules \/ DeleteRules
  BY <1>2 DEF GetRules, PutRules, DeleteRules
<1>3. CASE CheckSize
  BY <1>3 DEF CheckSize, AtHome
<1>4. CASE GetQuota \/ SetQuota \/ ClearQuota
  BY <1>4 DEF GetQuota, SetQuota, ClearQuota
<1>5. QED
  BY <1>1, <1>2, <1>3, <1>4 DEF BucketStep

LEMMA AccessStepShaped == ASSUME AtHome, AccessStep PROVE Shaped
<1> USE DEF Read, Write, Call, Check, Decide, Goto, Exit, FailJson, Shaped, Settled
<1>1. CASE GetPolicy \/ PutPolicy \/ DeletePolicy
  BY <1>1 DEF GetPolicy, PutPolicy, DeletePolicy
<1>2. CASE CheckPolicies
  BY <1>2 DEF CheckPolicies, AtHome
<1>3. CASE GetEntity \/ SetAttached
  BY <1>3 DEF GetEntity, SetAttached
<1>4. QED
  BY <1>1, <1>2, <1>3 DEF AccessStep

LEMMA IdentityStepShaped == ASSUME AtHome, IdentityStep PROVE Shaped
<1> USE DEF Read, Write, Call, Decide, Goto, Exit, FailJson, Shaped, Settled
<1>1. CASE GetUser
  BY <1>1 DEF GetUser
<1>2. CASE AddUser \/ RotateSecret \/ SetUserStatus \/ RemoveUser
  BY <1>2 DEF AddUser, RotateSecret, SetUserStatus, RemoveUser
<1>3. CASE GetGroup
  <2>1. AfterRead' \in {"addMembers", "removeMembers", "setGroupStatus", "exit"}
    BY DEF AfterRead, AfterAdd, AfterMembers
  <2>2. QED
    BY <1>3, <2>1 DEF GetGroup
<1>4. CASE CreateGroup
  BY <1>4 DEF CreateGroup, AfterMembers
<1>5. CASE AddMembers \/ RemoveMembers
  BY <1>5 DEF AddMembers, RemoveMembers, AfterAdd, AfterMembers
<1>6. CASE SetGroupStatus \/ DeleteGroup
  BY <1>6 DEF SetGroupStatus, DeleteGroup
<1>7. CASE GetAccount \/ CreateAccount \/ ReadBack \/ DeleteAccount
  BY <1>7 DEF GetAccount, CreateAccount, ReadBack, DeleteAccount
<1>8. QED
  BY <1>1, <1>2, <1>3, <1>4, <1>5, <1>6, <1>7 DEF IdentityStep

\* The types of what is not the resource.
Framed ==
  /\ UNCHANGED run /\ unsure' \in BOOLEAN
  /\ attempt' \in 0..(MaxAttempts - 1) /\ (pc' = "idle" => attempt' = 0)
  /\ outcome' \in {"none", "ok", "failed"} /\ (pc' # "idle" => outcome' = "none")
  /\ met' \subseteq Parts(want)

LEMMA StepFramed == ASSUME TypeInv, TaskStep PROVE Framed
<1>1. Shaped
  BY BucketStepShaped, AccessStepShaped, IdentityStepShaped DEF TaskStep, TypeInv
<1>2. /\ pc # "idle" /\ outcome = "none" /\ attempt \in 0..(MaxAttempts - 1)
      /\ unsure \in BOOLEAN /\ met \subseteq Parts(want)
  BY <1>1 DEF Shaped, TypeInv, TypeOK, AtHome
<1>3. met' \subseteq Parts(want)
  BY <1>1, <1>2, PartsOfWhatIsAsked DEF Shaped
<1>4. CASE attempt' = 0 /\ UNCHANGED unsure /\ Settled
  BY <1>1, <1>2, <1>3, <1>4, BudgetIsPositive DEF Shaped, Settled, Framed, verdict
<1>5. CASE NetworkError
  <2>1. unsure' = TRUE
    BY <1>5 DEF NetworkError
  <2>2. CASE attempt < MaxAttempts - 1
    BY <1>1, <1>2, <1>3, <1>5, <2>1, <2>2, BudgetIsPositive DEF NetworkError, Shaped, Framed, verdict
  <2>3. CASE ~(attempt < MaxAttempts - 1)
    BY <1>1, <1>2, <1>3, <1>5, <2>1, <2>3, BudgetIsPositive DEF NetworkError, FailJson, Shaped, Framed
  <2>4. QED
    BY <2>2, <2>3
<1>6. QED
  BY <1>1, <1>4, <1>5 DEF Shaped

LEMMA ChangedIsBoolean == ASSUME changed \in BOOLEAN, TaskStep PROVE changed' \in BOOLEAN
<1> USE DEF Read, Write, Call, Check, Decide, NetworkError
<1>1. CASE BucketStep
  BY <1>1 DEF BucketStep, HeadBucket, CreateBucket, GetVersioning, PutVersioning, DeleteBucket, GetRules,
     PutRules, DeleteRules, CheckSize, GetQuota, SetQuota, ClearQuota
<1>2. CASE AccessStep
  BY <1>2 DEF AccessStep, GetPolicy, PutPolicy, DeletePolicy, CheckPolicies, GetEntity, SetAttached
<1>3. CASE IdentityStep
  BY <1>3 DEF IdentityStep, GetUser, AddUser, RotateSecret, SetUserStatus, RemoveUser, GetGroup,
     CreateGroup, AddMembers, RemoveMembers, SetGroupStatus, DeleteGroup, GetAccount, CreateAccount,
     ReadBack, DeleteAccount
<1>4. QED
  BY <1>1, <1>2, <1>3 DEF TaskStep
-----------------------------------------------------------------------------
(* Where a module goes.                                                    *)

Placed ==
  /\ pc # "idle" => pc \in Steps[want.module]
  /\ pc = "putVersioning" => want.value # Unset
  /\ pc \in {"addUser", "rotateSecret", "createAccount"} => want.secret # Unset
  /\ pc = "rotateSecret" => want.state = "present" /\ want.update_secret
  /\ pc \in {"setUserStatus", "setGroupStatus"} => want.status # Unset
  /\ pc \notin {"checkSize", "checkPolicies"}

LEMMA BucketStepPlaced == ASSUME TypeInv, BucketStep PROVE Placed'
<1> USE DEF Read, Write, Call, Check, Decide, Goto, Exit, FailJson, NetworkError, verdict, run, Steps, Placed
<1>1. want' = want /\ pc \in Steps["bucket"] \cup Steps["bucket_lifecycle"] \cup Steps["bucket_quota"]
  BY DEF BucketStep, HeadBucket, CreateBucket, GetVersioning, PutVersioning, DeleteBucket, GetRules,
     PutRules, DeleteRules, CheckSize, GetQuota, SetQuota, ClearQuota
<1>2. want.module \in {"bucket", "bucket_lifecycle", "bucket_quota"} /\ pc \in Steps[want.module]
  BY <1>1, AtBuckets DEF BucketWants
<1>3. pc = "putVersioning" => want.value # Unset
  BY DEF TypeInv, AtHome
<1> HIDE DEF Steps
<1>4. CASE HeadBucket \/ CreateBucket \/ DeleteBucket
  <2>1. pc' \in {"idle", "head", "create", "getVersioning", "delete"} /\ pc \in {"head", "create", "delete"}
    BY <1>4 DEF HeadBucket, CreateBucket, DeleteBucket
  <2>2. QED
    BY <1>1, <1>2, <2>1 DEF Steps
<1>5. CASE GetVersioning
  <2>1. pc = "getVersioning"
    BY <1>5 DEF GetVersioning
  <2>2. pc' \in {"idle", "getVersioning", "putVersioning"}
    BY <1>5 DEF GetVersioning
  <2>3. pc' = "putVersioning" => VersioningDiffers'
    BY <1>5 DEF GetVersioning
  <2>4. VersioningDiffers' => want'.value # Unset
    BY DEF VersioningDiffers
  <2>5. QED
    BY <1>1, <1>2, <2>1, <2>2, <2>3, <2>4 DEF Steps
<1>6. CASE PutVersioning
  <2>1. pc = "putVersioning" /\ pc' \in {"idle", "putVersioning"}
    BY <1>6 DEF PutVersioning
  <2>2. QED
    BY <1>1, <1>2, <1>3, <2>1 DEF Steps
<1>7. CASE GetRules \/ PutRules \/ DeleteRules
  <2>1. pc' \in {"idle"} \cup Steps["bucket_lifecycle"] /\ pc \in Steps["bucket_lifecycle"]
    BY <1>7 DEF GetRules, PutRules, DeleteRules, Steps
  <2>2. QED
    BY <1>1, <1>2, <2>1 DEF Steps
<1>8. CASE CheckSize \/ GetQuota \/ SetQuota \/ ClearQuota
  <2>1. pc' \in {"idle", "getQuota", "setQuota", "clearQuota"} /\ pc \in Steps["bucket_quota"]
    BY <1>8 DEF CheckSize, GetQuota, SetQuota, ClearQuota, Steps
  <2>2. QED
    BY <1>1, <1>2, <2>1 DEF Steps
<1>9. QED
  BY <1>4, <1>5, <1>6, <1>7, <1>8 DEF BucketStep

LEMMA AccessStepPlaced == ASSUME TypeInv, AccessStep PROVE Placed'
<1> USE DEF Read, Write, Call, Check, Decide, Goto, Exit, FailJson, NetworkError, verdict, run
<1>1. want' = want /\ pc \in Steps["policy"] \cup Steps["policy_attachment"]
  BY DEF AccessStep, GetPolicy, PutPolicy, DeletePolicy, CheckPolicies, GetEntity, SetAttached, Steps
<1>2. want.module \in {"policy", "policy_attachment"} /\ pc \in Steps[want.module]
  BY <1>1, AtAccesses DEF AccessWants
<1>3. CASE GetPolicy \/ PutPolicy \/ DeletePolicy
  <2>1. pc' \in {"idle"} \cup Steps["policy"] /\ pc \in Steps["policy"]
    BY <1>3 DEF GetPolicy, PutPolicy, DeletePolicy, Steps
  <2>2. QED
    BY <1>1, <1>2, <2>1 DEF Steps, Placed
<1>4. CASE CheckPolicies \/ GetEntity \/ SetAttached
  <2>1. pc' \in {"idle", "getEntity", "setAttached"} /\ pc \in Steps["policy_attachment"]
    BY <1>4 DEF CheckPolicies, GetEntity, SetAttached, Steps
  <2>2. QED
    BY <1>1, <1>2, <2>1 DEF Steps, Placed
<1>5. QED
  BY <1>3, <1>4 DEF AccessStep

LEMMA UserStepPlaced ==
  ASSUME TypeInv, GetUser \/ AddUser \/ RotateSecret \/ SetUserStatus \/ RemoveUser
  PROVE  Placed'
<1> USE DEF Read, Write, Call, Decide, Goto, Exit, FailJson, NetworkError, verdict, run
<1>1. want' = want /\ pc \in Steps["user"]
  BY DEF GetUser, AddUser, RotateSecret, SetUserStatus, RemoveUser, Steps
<1>2. want.module = "user" /\ want \in IdentityWants
  BY <1>1, AtIdentities DEF IdentityWants, Steps
<1>3. want.state \in {"present", "absent"} /\ (want.update_secret => want.secret # Unset)
  BY <1>2 DEF IdentityWants, States
<1>4. Placed
  BY <1>1 DEF TypeInv, AtHome, Placed, Steps
<1>5. CASE GetUser
  <2>1. \/ pc' \in {"idle", "getUser", "removeUser"}
        \/ pc' = "addUser" /\ want.secret # Unset
        \/ pc' = "rotateSecret" /\ want.state # "absent" /\ want.update_secret
        \/ pc' = "setUserStatus" /\ StatusDiffers'
    BY <1>3, <1>5 DEF GetUser
  <2>2. StatusDiffers' => want'.status # Unset
    BY DEF StatusDiffers
  <2>3. QED
    BY <1>1, <1>2, <1>3, <2>1, <2>2 DEF Steps, Placed
<1>6. CASE RotateSecret
  <2>1. pc = "rotateSecret"
    BY <1>6 DEF RotateSecret
  <2>2. pc' \in {"idle", "rotateSecret", "setUserStatus"}
    BY <1>6 DEF RotateSecret
  <2>3. pc' = "setUserStatus" => StatusDiffers
    BY <1>6 DEF RotateSecret
  <2>4. QED
    BY <1>1, <1>2, <1>4, <2>1, <2>2, <2>3 DEF Steps, Placed, StatusDiffers
<1>7. CASE AddUser \/ SetUserStatus \/ RemoveUser
  <2>1. pc' \in {"idle", pc}
    BY <1>7 DEF AddUser, SetUserStatus, RemoveUser
  <2>2. QED
    BY <1>1, <1>4, <2>1 DEF Steps, Placed
<1>8. QED
  BY <1>5, <1>6, <1>7

LEMMA GroupStepPlaced ==
  ASSUME TypeInv, \/ GetGroup \/ CreateGroup \/ AddMembers \/ RemoveMembers
                  \/ SetGroupStatus \/ DeleteGroup
  PROVE  Placed'
<1> USE DEF Read, Write, Call, Decide, Goto, Exit, FailJson, NetworkError, verdict, run
<1>1. want' = want /\ pc \in Steps["group"]
  BY DEF GetGroup, CreateGroup, AddMembers, RemoveMembers, SetGroupStatus, DeleteGroup, Steps
<1>2. want.module = "group"
  BY <1>1, AtIdentities DEF IdentityWants, Steps
<1>3. Placed
  BY <1>1 DEF TypeInv, AtHome, Placed, Steps
<1>4. /\ AfterMembers = "exit" \/ (AfterMembers = "setGroupStatus" /\ want.status # Unset)
      /\ AfterAdd \in {"removeMembers", AfterMembers}
      /\ AfterRead \in {"addMembers", AfterAdd}
  <2>1. AfterMembers \in {"exit", "setGroupStatus"} /\ (AfterMembers = "setGroupStatus" => StatusDiffers)
    BY DEF AfterMembers
  <2>2. StatusDiffers => want.status # Unset
    BY DEF StatusDiffers
  <2>3. AfterAdd \in {"removeMembers", AfterMembers}
    BY DEF AfterAdd
  <2>4. AfterRead \in {"addMembers", AfterAdd}
    BY DEF AfterRead
  <2>5. QED
    BY <2>1, <2>2, <2>3, <2>4
<1>5. \/ AfterRead' \in {"exit", "addMembers", "removeMembers"}
      \/ AfterRead' = "setGroupStatus" /\ want'.status # Unset
  <2>1. AfterMembers' \in {"exit", "setGroupStatus"}
    BY DEF AfterMembers
  <2>2. AfterMembers' = "setGroupStatus" => StatusDiffers'
    BY DEF AfterMembers
  <2>3. StatusDiffers' => want'.status # Unset
    BY DEF StatusDiffers
  <2>4. AfterAdd' \in {"removeMembers", AfterMembers'}
    BY DEF AfterAdd
  <2>5. AfterRead' \in {"addMembers", AfterAdd'}
    BY DEF AfterRead
  <2>6. QED
    BY <2>1, <2>2, <2>3, <2>4, <2>5
<1>6. \/ pc' \in {"idle", pc, "createGroup", "deleteGroup", "addMembers", "removeMembers"}
      \/ pc' = "setGroupStatus" /\ want.status # Unset
  <2>1. CASE GetGroup
    BY <1>1, <1>5, <2>1 DEF GetGroup
  <2>2. CASE CreateGroup
    BY <1>4, <2>2 DEF CreateGroup
  <2>3. CASE AddMembers \/ RemoveMembers
    BY <1>4, <2>3 DEF AddMembers, RemoveMembers
  <2>4. CASE SetGroupStatus \/ DeleteGroup
    BY <2>4 DEF SetGroupStatus, DeleteGroup
  <2>5. QED
    BY <2>1, <2>2, <2>3, <2>4
<1>7. QED
  BY <1>1, <1>2, <1>3, <1>6 DEF Steps, Placed

LEMMA AccountStepPlaced ==
  ASSUME TypeInv, GetAccount \/ CreateAccount \/ ReadBack \/ DeleteAccount
  PROVE  Placed'
<1> USE DEF Read, Write, Call, Decide, Goto, Exit, FailJson, NetworkError, verdict, run
<1>1. want' = want /\ pc \in Steps["service_account"]
  BY DEF GetAccount, CreateAccount, ReadBack, DeleteAccount, Steps
<1>2. want.module = "service_account"
  BY <1>1, AtIdentities DEF IdentityWants, Steps
<1>3. Placed
  BY <1>1 DEF TypeInv, AtHome, Placed, Steps
<1>4. \/ pc' \in {"idle", pc, "deleteAccount", "readBack"}
      \/ pc' = "createAccount" /\ want.secret # Unset
  BY DEF GetAccount, CreateAccount, ReadBack, DeleteAccount
<1>5. QED
  BY <1>1, <1>2, <1>3, <1>4 DEF Steps, Placed
-----------------------------------------------------------------------------
(* What becomes of the resource.                                           *)

Kept(S) == srv' \in S /\ read' \in S

LEMMA BucketStepKeeps == ASSUME TypeInv, BucketStep PROVE About(want.module) = "bucket" /\ Kept(Buckets)
<1> USE DEF Read, Write, Call, Check, Decide, NetworkError, IfExists, Kept
<1>1. pc \in Steps["bucket"] \cup Steps["bucket_lifecycle"] \cup Steps["bucket_quota"]
  BY DEF BucketStep, HeadBucket, CreateBucket, GetVersioning, PutVersioning, DeleteBucket, GetRules,
     PutRules, DeleteRules, CheckSize, GetQuota, SetQuota, ClearQuota, Steps
<1>2. srv \in Buckets /\ read \in Buckets /\ want \in BucketWants /\ pc \in Steps[want.module]
  BY <1>1, AtBuckets
<1> SUFFICES Kept(Buckets)
  BY <1>2 DEF BucketWants, About
<1>3. CASE HeadBucket \/ GetVersioning \/ GetRules \/ CheckSize \/ GetQuota
  BY <1>2, <1>3 DEF HeadBucket, GetVersioning, GetRules, CheckSize, GetQuota
<1>4. CASE CreateBucket
  BY <1>2, <1>4, BucketWrites DEF CreateBucket
<1>5. CASE DeleteBucket
  BY <1>2, <1>5, BucketWrites DEF DeleteBucket
<1>6. CASE PutVersioning
  <2>1. pc = "putVersioning" /\ want.value # Unset
    BY <1>6 DEF PutVersioning, TypeInv, AtHome
  <2>2. want.module = "bucket"
    BY <1>2, <2>1 DEF BucketWants, Steps
  <2>3. want.value \in Versioning
    BY <1>2, <2>1, <2>2 DEF BucketWants, Versioning
  <2>4. QED
    BY <1>2, <1>6, <2>3, BucketWrites DEF PutVersioning
<1>7. CASE PutRules
  <2>1. pc = "putRules"
    BY <1>7 DEF PutRules
  <2>2. want.module = "bucket_lifecycle"
    BY <1>2, <2>1 DEF BucketWants, Steps
  <2>3. want.value \in Rulesets \cup {NoRules}
    BY <1>2, <2>2 DEF BucketWants
  <2>4. QED
    BY <1>2, <1>7, <2>3, BucketWrites DEF PutRules
<1>8. CASE DeleteRules
  BY <1>2, <1>8, BucketWrites DEF DeleteRules
<1>9. CASE SetQuota
  <2>1. pc = "setQuota"
    BY <1>9 DEF SetQuota
  <2>2. want.module = "bucket_quota"
    BY <1>2, <2>1 DEF BucketWants, Steps
  <2>3. DesiredQuota \in Sizes \cup {0}
    BY <1>2, <2>2 DEF DesiredQuota, BucketWants
  <2>4. QED
    BY <1>2, <1>9, <2>3, BucketWrites DEF SetQuota
<1>10. CASE ClearQuota
  BY <1>2, <1>10, BucketWrites DEF ClearQuota
<1>11. QED
  BY <1>3, <1>4, <1>5, <1>6, <1>7, <1>8, <1>9, <1>10 DEF BucketStep

LEMMA AccessStepKeeps == ASSUME TypeInv, AccessStep PROVE About(want.module) = "access" /\ Kept(Accesses)
<1> USE DEF Read, Write, Call, Check, Decide, NetworkError, Kept
<1>1. pc \in Steps["policy"] \cup Steps["policy_attachment"]
  BY DEF AccessStep, GetPolicy, PutPolicy, DeletePolicy, CheckPolicies, GetEntity, SetAttached, Steps
<1>2. srv \in Accesses /\ read \in Accesses /\ want \in AccessWants /\ pc \in Steps[want.module]
  BY <1>1, AtAccesses
<1> SUFFICES Kept(Accesses)
  BY <1>2 DEF AccessWants, About
<1>3. CASE GetPolicy \/ CheckPolicies \/ GetEntity
  BY <1>2, <1>3 DEF GetPolicy, CheckPolicies, GetEntity
<1>4. CASE PutPolicy
  <2>1. pc = "putPolicy"
    BY <1>4 DEF PutPolicy
  <2>2. want.module = "policy"
    BY <1>2, <2>1 DEF AccessWants, Steps
  <2>3. want.document \in Documents
    BY <1>2, <2>2 DEF AccessWants
  <2>4. QED
    BY <1>2, <1>4, <2>3, AccessWrites DEF PutPolicy
<1>5. CASE DeletePolicy
  BY <1>2, <1>5, AccessWrites DEF DeletePolicy
<1>6. CASE SetAttached
  <2>1. pc = "setAttached"
    BY <1>6 DEF SetAttached
  <2>2. want.module = "policy_attachment"
    BY <1>2, <2>1 DEF AccessWants, Steps
  <2>3. want.policies \in SUBSET ({Policy} \cup Builtins)
    BY <1>2, <2>2 DEF AccessWants
  <2>4. read.attached \in SUBSET ({Policy} \cup Builtins)
    BY <1>2 DEF Accesses
  <2>5. Desired(read.attached) \in SUBSET ({Policy} \cup Builtins)
    BY <2>3, <2>4 DEF Desired
  <2>6. QED
    BY <1>2, <1>6, <2>5, AccessWrites DEF SetAttached
<1>7. QED
  BY <1>3, <1>4, <1>5, <1>6 DEF AccessStep

LEMMA UserStepKeeps ==
  ASSUME TypeInv, GetUser \/ AddUser \/ RotateSecret \/ SetUserStatus \/ RemoveUser
  PROVE  About(want.module) = "user" /\ Kept(UserStates)
<1> USE DEF Read, Write, Call, Decide, NetworkError, IfExists, Kept
<1>1. pc \in Steps["user"]
  BY DEF GetUser, AddUser, RotateSecret, SetUserStatus, RemoveUser, Steps
<1>2. want.module = "user" /\ want \in IdentityWants
  BY <1>1, AtIdentities DEF IdentityWants, Steps
<1> SUFFICES Kept(UserStates)
  BY <1>2 DEF About
<1>3. srv \in UserStates /\ read \in UserStates /\ srv.kind = "user"
  BY <1>1, <1>2, AtIdentities, KindTells DEF TypeInv, TypeOK
<1>4. want.secret \in Secrets \cup {Unset} /\ want.status \in Statuses \cup {Unset}
  BY <1>2 DEF IdentityWants, Params
<1>5. read.status \in Statuses
  <2>1. NoUser.status \in Statuses
    BY DEF NoUser, Statuses
  <2>2. QED
    BY <1>3, <2>1 DEF UserStates, Keypair
<1>6. Default(want.status, "enabled") \in Statuses /\ Default(want.status, read.status) \in Statuses
  BY <1>4, <1>5 DEF Default, Statuses
<1>7. CASE GetUser
  BY <1>2, <1>3, <1>7 DEF GetUser
<1>8. CASE AddUser \/ RotateSecret
  <2>1. want.secret \in Secrets
    BY <1>4, <1>8 DEF AddUser, RotateSecret, TypeInv, AtHome
  <2>2. AddedUser(Default(want.status, "enabled")) \in UserStates
        /\ AddedUser(Default(want.status, read.status)) \in UserStates
    BY <1>6, <2>1, UserWrites DEF AddedUser
  <2>3. QED
    BY <1>2, <1>3, <1>8, <2>2 DEF AddUser, RotateSecret
<1>9. CASE SetUserStatus
  <2>1. want.status \in Statuses
    BY <1>4, <1>9 DEF SetUserStatus, TypeInv, AtHome
  <2>2. QED
    BY <1>2, <1>3, <1>9, <2>1, UserWrites DEF SetUserStatus
<1>10. CASE RemoveUser
  BY <1>2, <1>3, <1>10, UserWrites DEF RemoveUser, Nobody
<1>11. QED
  BY <1>7, <1>8, <1>9, <1>10

LEMMA GroupStepKeeps ==
  ASSUME TypeInv, \/ GetGroup \/ CreateGroup \/ AddMembers \/ RemoveMembers
                  \/ SetGroupStatus \/ DeleteGroup
  PROVE  About(want.module) = "group" /\ Kept(GroupStates)
<1> USE DEF Read, Write, Call, Decide, NetworkError, IfExists, Kept
<1>1. pc \in Steps["group"]
  BY DEF GetGroup, CreateGroup, AddMembers, RemoveMembers, SetGroupStatus, DeleteGroup, Steps
<1>2. want.module = "group" /\ want \in IdentityWants
  BY <1>1, AtIdentities DEF IdentityWants, Steps
<1> SUFFICES Kept(GroupStates)
  BY <1>2 DEF About
<1>3. srv \in GroupStates /\ read \in GroupStates /\ srv.kind = "group"
  BY <1>1, <1>2, AtIdentities, KindTells DEF TypeInv, TypeOK
<1>4. want.members \in {Unset} \cup SUBSET Users /\ want.status \in Statuses \cup {Unset}
  BY <1>2 DEF IdentityWants, Params
<1>5. srv.members \subseteq Users
  BY <1>3, GroupWrites
<1>6. srv.members \cup ToAdd \in SUBSET Users /\ srv.members \ ToRemove \in SUBSET Users
  BY <1>4, <1>5 DEF ToAdd
<1>7. CASE GetGroup
  BY <1>2, <1>3, <1>7 DEF GetGroup
<1>8. CASE CreateGroup
  BY <1>2, <1>3, <1>6, <1>8, GroupWrites DEF CreateGroup
<1>9. CASE AddMembers \/ RemoveMembers
  BY <1>2, <1>3, <1>6, <1>9, GroupWrites DEF AddMembers, RemoveMembers
<1>10. CASE SetGroupStatus
  <2>1. want.status \in Statuses
    BY <1>4, <1>10 DEF SetGroupStatus, TypeInv, AtHome
  <2>2. QED
    BY <1>2, <1>3, <1>10, <2>1, GroupWrites DEF SetGroupStatus
<1>11. CASE DeleteGroup
  BY <1>2, <1>3, <1>11, GroupWrites DEF DeleteGroup, Nobody
<1>12. QED
  BY <1>7, <1>8, <1>9, <1>10, <1>11

LEMMA AccountStepKeeps ==
  ASSUME TypeInv, GetAccount \/ CreateAccount \/ ReadBack \/ DeleteAccount
  PROVE  About(want.module) = "service_account" /\ Kept(AccountStates)
<1> USE DEF Read, Write, Call, Decide, NetworkError, IfExists, Kept
<1>1. pc \in Steps["service_account"]
  BY DEF GetAccount, CreateAccount, ReadBack, DeleteAccount, Steps
<1>2. want.module = "service_account" /\ want \in IdentityWants
  BY <1>1, AtIdentities DEF IdentityWants, Steps
<1> SUFFICES Kept(AccountStates)
  BY <1>2 DEF About
<1>3. srv \in AccountStates /\ read \in AccountStates /\ srv.kind = "service_account"
  BY <1>1, <1>2, AtIdentities, KindTells DEF TypeInv, TypeOK
<1>4. CASE GetAccount \/ ReadBack
  BY <1>2, <1>3, <1>4 DEF GetAccount, ReadBack
<1>5. CASE CreateAccount
  <2>1. pc = "createAccount" /\ want.secret # Unset
    BY <1>5 DEF CreateAccount, TypeInv, AtHome
  <2>2. want.secret \in Secrets
    BY <1>2, <2>1 DEF IdentityWants
  <2>3. QED
    BY <1>2, <1>3, <1>5, <2>2, AccountWrites DEF CreateAccount
<1>6. CASE DeleteAccount
  BY <1>2, <1>3, <1>6, AccountWrites DEF DeleteAccount, Nobody
<1>7. QED
  BY <1>4, <1>5, <1>6

LEMMA StepKeeps ==
  ASSUME TypeInv, TaskStep
  PROVE  /\ srv' \in Servers /\ read' \in Servers
         /\ srv'.kind = About(want.module) /\ read'.kind = About(want.module)
<1>1. /\ \A s \in Buckets       : s \in Servers /\ s.kind = "bucket"
      /\ \A s \in Accesses      : s \in Servers /\ s.kind = "access"
      /\ \A s \in UserStates    : s \in Servers /\ s.kind = "user"
      /\ \A s \in GroupStates   : s \in Servers /\ s.kind = "group"
      /\ \A s \in AccountStates : s \in Servers /\ s.kind = "service_account"
  <2>1. Buckets \subseteq Servers /\ Accesses \subseteq Servers
    BY DEF Servers
  <2>2. UserStates \subseteq Servers /\ GroupStates \subseteq Servers /\ AccountStates \subseteq Servers
    BY DEF Servers, Identities, UserStates, GroupStates, AccountStates
  <2>3. QED
    BY <2>1, <2>2, KindTells
<1>2. CASE BucketStep
  BY <1>1, <1>2, BucketStepKeeps DEF Kept
<1>3. CASE AccessStep
  BY <1>1, <1>3, AccessStepKeeps DEF Kept
<1>4. CASE GetUser \/ AddUser \/ RotateSecret \/ SetUserStatus \/ RemoveUser
  BY <1>1, <1>4, UserStepKeeps DEF Kept
<1>5. CASE \/ GetGroup \/ CreateGroup \/ AddMembers \/ RemoveMembers
           \/ SetGroupStatus \/ DeleteGroup
  BY <1>1, <1>5, GroupStepKeeps DEF Kept
<1>6. CASE GetAccount \/ CreateAccount \/ ReadBack \/ DeleteAccount
  BY <1>1, <1>6, AccountStepKeeps DEF Kept
<1>7. QED
  BY <1>2, <1>3, <1>4, <1>5, <1>6 DEF TaskStep, IdentityStep

LEMMA StepPlaced == ASSUME TypeInv, TaskStep PROVE Placed'
<1>1. CASE BucketStep
  BY <1>1, BucketStepPlaced
<1>2. CASE AccessStep
  BY <1>2, AccessStepPlaced
<1>3. CASE IdentityStep
  BY <1>3, UserStepPlaced, GroupStepPlaced, AccountStepPlaced DEF IdentityStep
<1>4. QED
  BY <1>1, <1>2, <1>3 DEF TaskStep

LEMMA TaskStepTyped == ASSUME TypeInv, TaskStep PROVE TypeInv'
<1>1. Framed /\ Placed' /\ changed' \in BOOLEAN
  BY StepFramed, StepPlaced, ChangedIsBoolean DEF TypeInv, TypeOK
<1>2. /\ srv' \in Servers /\ read' \in Servers
      /\ srv'.kind = About(want.module) /\ read'.kind = About(want.module)
  BY StepKeeps
<1>3. want' = want /\ dry' = dry /\ base' = base /\ others' = others
  BY <1>1 DEF Framed, run
<1>4. /\ base \in Servers /\ base.kind = About(want.module) /\ want \in Wants
      /\ dry \in BOOLEAN /\ others \in 0..MaxOthers
  BY DEF TypeInv, TypeOK
<1>5. TypeOK'
  BY <1>1, <1>2, <1>3, <1>4 DEF TypeOK, Framed
<1>6. AtHome'
  BY <1>1 DEF AtHome, Placed, Framed
<1>7. QED
  BY <1>5, <1>6 DEF TypeInv
-----------------------------------------------------------------------------
(* The other steps, and the theorem.                                       *)

LEMMA KindsAreKinds == \A s \in Servers : s.kind \in Kinds
<1>1. Servers = Buckets \cup Accesses \cup UserStates \cup GroupStates \cup AccountStates
  BY DEF Servers, Identities, UserStates, GroupStates, AccountStates
<1>2. QED
  BY <1>1, KindTells DEF Kinds

LEMMA AnyWantIsOne == \A s \in Servers : AnyWant[s.kind] \in Wants /\ About(AnyWant[s.kind].module) = s.kind
<1>1. ASSUME NEW k \in Kinds
      PROVE  \E w \in Wants : About(w.module) = k
  <2>1. CASE k = "bucket"
    <3>1. [module |-> "bucket", state |-> "present", value |-> Unset] \in Wants
      BY DEF Wants, BucketWants, States
    <3>2. QED
      BY <2>1, <3>1 DEF About
  <2>2. CASE k = "access"
    <3>1. [module |-> "policy_attachment", policies |-> {}, exclusive |-> TRUE] \in Wants
      BY DEF Wants, AccessWants
    <3>2. QED
      BY <2>2, <3>1 DEF About
  <2>3. CASE k = "user"
    <3>1. [module |-> "user", state |-> "absent", secret |-> Unset, status |-> Unset,
           update_secret |-> FALSE] \in Wants
      BY DEF Wants, IdentityWants, States, Params
    <3>2. QED
      BY <2>3, <3>1 DEF About
  <2>4. CASE k = "group"
    <3>1. [module |-> "group", state |-> "absent", members |-> Unset, append |-> TRUE,
           status |-> Unset] \in Wants
      BY DEF Wants, IdentityWants, States, Params
    <3>2. QED
      BY <2>4, <3>1 DEF About
  <2>5. CASE k = "service_account"
    <3>1. [module |-> "service_account", state |-> "absent", secret |-> Unset] \in Wants
      BY DEF Wants, IdentityWants, States
    <3>2. QED
      BY <2>5, <3>1 DEF About
  <2>6. QED
    BY <2>1, <2>2, <2>3, <2>4, <2>5 DEF Kinds
<1>2. \A k \in Kinds : AnyWant[k] \in Wants /\ About(AnyWant[k].module) = k
  <2>1. TAKE k \in Kinds
  <2>2. AnyWant[k] = CHOOSE w \in Wants : About(w.module) = k
    BY DEF AnyWant
  <2>3. QED
    BY <1>1, <2>2
<1>3. QED
  BY <1>2, KindsAreKinds

LEMMA InitTyped == Init => TypeInv
<1> SUFFICES ASSUME NEW s \in Servers, Idle(s) PROVE TypeInv
  BY DEF Init
<1>1. want \in Wants /\ About(want.module) = s.kind
  BY AnyWantIsOne DEF Idle
<1>2. 0 \in 0..(MaxAttempts - 1) /\ 0 \in 0..MaxOthers
  BY BudgetIsPositive, MaxOthersAssumption
<1>3. TypeOK
  BY <1>1, <1>2 DEF Idle, TypeOK
<1>4. AtHome
  BY DEF Idle, AtHome
<1>5. QED
  BY <1>3, <1>4 DEF TypeInv

LEMMA StartTyped == ASSUME TypeInv, Start PROVE TypeInv'
<1>1. PICK w \in Wants, d \in BOOLEAN : srv.kind = About(w.module) /\ Begin(w, d, FirstStep[w.module])
  BY DEF Start
<1>2. w.module \in DOMAIN FirstStep /\ FirstStep[w.module] \in Steps[w.module]
  <2>1. w.module \in {"bucket", "bucket_lifecycle", "bucket_quota", "policy", "policy_attachment",
                      "user", "group", "service_account"}
    BY DEF Wants, BucketWants, AccessWants, IdentityWants
  <2>2. QED
    BY <2>1 DEF FirstStep, Steps
<1>3. FirstStep[w.module] \in {"head", "getRules", "checkSize", "getPolicy", "checkPolicies", "getUser",
                               "getGroup", "getAccount"}
  BY <1>2 DEF FirstStep
<1>4. /\ want' = w /\ dry' = d /\ pc' = FirstStep[w.module] /\ met' \subseteq Parts(w)
      /\ UNCHANGED <<srv, base, others, attempt, read, changed, outcome, error, unsure>>
      /\ pc = "idle" /\ outcome = "none"
  BY <1>1, PartsOfWhatIsAsked DEF Begin, verdict
<1>5. attempt = 0
  BY <1>4 DEF TypeInv, TypeOK
<1>6. TypeOK'
  BY <1>1, <1>4, <1>5 DEF TypeInv, TypeOK
<1>7. AtHome'
  BY <1>2, <1>3, <1>4, <1>5 DEF AtHome
<1>8. QED
  BY <1>6, <1>7 DEF TypeInv

LEMMA InterfereTyped == ASSUME TypeInv, Interfere PROVE TypeInv'
<1>1. /\ srv' \in Servers /\ srv'.kind = srv.kind /\ base' = srv'
      /\ UNCHANGED <<want, dry, pc, attempt, read, changed, outcome, error, unsure>>
      /\ others' = others + 1 /\ others < MaxOthers /\ met' = met \cup AsAsked(want, srv')
  BY KindsAreKinds DEF Interfere, OfKind, verdict, TypeInv, TypeOK
<1>2. others' \in 0..MaxOthers
  BY <1>1, MaxOthersAssumption DEF TypeInv, TypeOK
<1>3. TypeOK'
  BY <1>1, <1>2, PartsOfWhatIsAsked DEF TypeInv, TypeOK
<1>4. AtHome'
  BY <1>1 DEF TypeInv, AtHome
<1>5. QED
  BY <1>3, <1>4 DEF TypeInv

LEMMA ForgetTyped == ASSUME TypeInv, Forget PROVE TypeInv'
<1>1. pc = "idle" /\ outcome # "none"
  BY DEF TypeInv, AtHome, Forget
<1>2. want' \in Wants /\ About(want'.module) = srv.kind
  BY AnyWantIsOne DEF Forget, TypeInv, TypeOK
<1>3. /\ UNCHANGED <<srv, pc, attempt>> /\ base' = srv /\ read' = srv /\ dry' = FALSE /\ changed' = FALSE
      /\ unsure' = FALSE /\ outcome' = "none" /\ others' = 0 /\ met' = {}
  BY DEF Forget
<1>4. 0 \in 0..MaxOthers
  BY MaxOthersAssumption
<1>5. TypeOK'
  BY <1>2, <1>3, <1>4 DEF TypeInv, TypeOK
<1>6. AtHome'
  BY <1>1, <1>3 DEF AtHome
<1>7. QED
  BY <1>5, <1>6 DEF TypeInv

LEMMA NextTyped == ASSUME TypeInv, [Next]_vars PROVE TypeInv'
<1>1. CASE Next
  BY <1>1, StartTyped, TaskStepTyped, InterfereTyped, ForgetTyped DEF Next
<1>2. CASE UNCHANGED vars
  BY <1>2 DEF vars, run, verdict, TypeInv, TypeOK, AtHome
<1>3. QED
  BY <1>1, <1>2

\* Every value stays in its type, whatever is managed, asked for and interfered
\* with: a module never writes what a resource cannot be, and never comes to a
\* call with the parameter it needs left out.
THEOREM TypeCorrect == Spec => []TypeOK
<1>1. Init => TypeInv
  BY InitTyped
<1>2. TypeInv /\ [Next]_vars => TypeInv'
  BY NextTyped
<1>3. TypeInv => TypeOK
  BY DEF TypeInv
<1>4. QED
  BY <1>1, <1>2, <1>3, PTL DEF Spec
-----------------------------------------------------------------------------
(* Whose secrets a module touches.                                         *)

\* What makes the secret safe: add-user is only sent for a user that was not
\* there, or for the one that an earlier round of the same call has made.
OwnUserOnly == others = 0 /\ pc = "addUser" /\ srv.exists => srv.secret = want.secret

SecretInv == TypeInv /\ OwnUserOnly

\* A step touches no secret of what was there and stays, without a demand.
SecretKept ==
  others = 0 /\ srv.exists /\ srv'.exists /\ srv'.secret # srv.secret => Rotates(want, srv)

LEMMA UserStepSafe ==
  ASSUME SecretInv, GetUser \/ AddUser \/ RotateSecret \/ SetUserStatus \/ RemoveUser
  PROVE  SecretKept /\ OwnUserOnly'
<1> USE DEF Read, Write, Call, Decide, NetworkError, Goto, Exit, FailJson, IfExists, verdict, run
<1>1. pc \in Steps["user"] /\ want' = want /\ others' = others
  BY DEF GetUser, AddUser, RotateSecret, SetUserStatus, RemoveUser, Steps
<1>2. want.module = "user" /\ srv \in UserStates /\ srv.kind = "user"
  BY <1>1, AtIdentities, KindTells DEF SecretInv, TypeInv, TypeOK, IdentityWants, Steps
<1>3. CASE GetUser
  <2>1. srv' = srv /\ (pc' = "addUser" => ~srv.exists)
    BY <1>3 DEF GetUser
  <2>2. QED
    BY <1>1, <2>1 DEF SecretKept, OwnUserOnly
<1>4. CASE AddUser
  <2>1. pc = "addUser" /\ srv' \in {srv, AddedUser(Default(want.status, "enabled"))}
    BY <1>4 DEF AddUser
  <2>2. srv' = srv \/ srv'.secret = want.secret
    BY <2>1 DEF AddedUser
  <2>3. QED
    BY <1>1, <2>1, <2>2 DEF SecretKept, SecretInv, OwnUserOnly
<1>5. CASE RotateSecret
  <2>1. pc = "rotateSecret" /\ pc' # "addUser"
    BY <1>5 DEF RotateSecret
  <2>2. want.state = "present" /\ want.update_secret
    BY <2>1 DEF SecretInv, TypeInv, AtHome
  <2>3. QED
    BY <1>2, <2>1, <2>2 DEF SecretKept, OwnUserOnly, Rotates
<1>6. CASE SetUserStatus
  <2>1. pc' # "addUser" /\ srv' \in {srv, [srv EXCEPT !.status = want.status]}
    BY <1>6 DEF SetUserStatus
  <2>2. srv.exists => [srv EXCEPT !.status = want.status].secret = srv.secret
    BY <1>2 DEF UserStates, Keypair, NoUser
  <2>3. QED
    BY <2>1, <2>2 DEF SecretKept, OwnUserOnly
<1>7. CASE RemoveUser
  <2>1. pc' # "addUser" /\ srv' \in {srv, NoUser}
    BY <1>2, <1>7 DEF RemoveUser, Nobody
  <2>2. ~NoUser.exists
    BY DEF NoUser
  <2>3. QED
    BY <2>1, <2>2 DEF SecretKept, OwnUserOnly
<1>8. QED
  BY <1>3, <1>4, <1>5, <1>6, <1>7

LEMMA AccountStepSafe ==
  ASSUME SecretInv, GetAccount \/ CreateAccount \/ ReadBack \/ DeleteAccount
  PROVE  SecretKept /\ OwnUserOnly'
<1> USE DEF Read, Write, Call, Decide, NetworkError, Goto, Exit, FailJson, IfExists, verdict, run
<1>1. pc \in Steps["service_account"] /\ pc' # "addUser"
  BY DEF GetAccount, CreateAccount, ReadBack, DeleteAccount, Steps
<1>2. srv.kind = "service_account"
  BY <1>1, AtIdentities, KindTells DEF SecretInv, TypeInv, TypeOK, IdentityWants, Steps
<1>3. srv' = srv \/ ~srv.exists \/ ~srv'.exists
  <2>1. CASE GetAccount \/ CreateAccount \/ ReadBack
    BY <2>1 DEF GetAccount, CreateAccount, ReadBack
  <2>2. CASE DeleteAccount
    <3>1. srv' \in {srv, NoAccount}
      BY <1>2, <2>2 DEF DeleteAccount, Nobody
    <3>2. ~NoAccount.exists
      BY DEF NoAccount, NoUser
    <3>3. QED
      BY <3>1, <3>2
  <2>3. QED
    BY <2>1, <2>2
<1>4. QED
  BY <1>1, <1>3 DEF SecretKept, OwnUserOnly

\* The modules of buckets, policies and groups have no key pair at hand.
LEMMA OtherStepSafe ==
  ASSUME SecretInv, \/ BucketStep \/ AccessStep
                    \/ GetGroup \/ CreateGroup \/ AddMembers \/ RemoveMembers
                    \/ SetGroupStatus \/ DeleteGroup
  PROVE  srv.kind \notin {"user", "service_account"} /\ OwnUserOnly'
<1>1. About(want.module) \in {"bucket", "access", "group"}
  BY BucketStepKeeps, AccessStepKeeps, GroupStepKeeps DEF SecretInv
<1>2. srv.kind = About(want.module)
  BY DEF SecretInv, TypeInv, TypeOK
<1>3. Placed' /\ want' = want
  BY StepPlaced, StepFramed DEF SecretInv, TaskStep, IdentityStep, Framed, run
<1>4. want.module # "user" /\ want \in Wants
  BY <1>1 DEF About, SecretInv, TypeInv, TypeOK
<1>5. want.module \in {"bucket", "bucket_lifecycle", "bucket_quota", "policy", "policy_attachment",
                       "group", "service_account"}
  BY <1>4 DEF Wants, BucketWants, AccessWants, IdentityWants
<1>6. pc' # "addUser"
  BY <1>3, <1>5 DEF Placed, Steps
<1>7. QED
  BY <1>1, <1>2, <1>6 DEF OwnUserOnly

LEMMA NextSafe ==
  ASSUME SecretInv, [Next]_vars
  PROVE  /\ SecretInv'
         /\ srv.kind \in {"user", "service_account"} /\ others' = others => SecretKept
<1>1. TypeInv'
  BY NextTyped DEF SecretInv
<1>2. CASE Start
  <2>1. srv' = srv
    BY <1>2 DEF Start, Begin
  <2>2. pc' # "addUser"
    <3>1. PICK w \in Wants, d \in BOOLEAN : Begin(w, d, FirstStep[w.module])
      BY <1>2 DEF Start
    <3>2. w.module \in {"bucket", "bucket_lifecycle", "bucket_quota", "policy", "policy_attachment",
                        "user", "group", "service_account"}
      BY DEF Wants, BucketWants, AccessWants, IdentityWants
    <3>3. QED
      BY <3>1, <3>2 DEF Begin, FirstStep
  <2>3. QED
    BY <1>1, <2>1, <2>2 DEF SecretInv, OwnUserOnly, SecretKept
<1>3. CASE TaskStep
  BY <1>1, <1>3, UserStepSafe, AccountStepSafe, OtherStepSafe DEF SecretInv, TaskStep, IdentityStep
<1>4. CASE Interfere
  <2>1. others \in Nat /\ others' = others + 1
    BY <1>4, MaxOthersAssumption DEF Interfere, SecretInv, TypeInv, TypeOK
  <2>2. QED
    BY <1>1, <2>1 DEF SecretInv, OwnUserOnly
<1>5. CASE Forget
  <2>1. srv' = srv /\ pc' = pc /\ pc = "idle"
    BY <1>5 DEF Forget, SecretInv, TypeInv, AtHome
  <2>2. QED
    BY <1>1, <2>1 DEF SecretInv, OwnUserOnly, SecretKept
<1>6. CASE UNCHANGED vars
  BY <1>1, <1>6 DEF vars, run, SecretInv, OwnUserOnly, SecretKept
<1>7. QED
  BY <1>2, <1>3, <1>4, <1>5, <1>6 DEF Next

\* For any secrets, through any retries: while nobody else acts, a module changes
\* the secret of an existing user or account only if that was asked for.
THEOREM SecretsAreKept == Spec => SecretsNeedAWarrant
<1>1. Init => SecretInv
  <2>1. Init => pc # "addUser"
    BY DEF Init, Idle
  <2>2. QED
    BY <2>1, InitTyped DEF SecretInv, OwnUserOnly
<1>2. SecretInv /\ [Next]_vars => SecretInv'
  BY NextSafe
<1>3. SecretInv /\ [Next]_vars =>
        [/\ srv.kind \in {"user", "service_account"} /\ srv.exists /\ srv'.exists
         /\ others' = others /\ Undisturbed
         => (srv'.secret # srv.secret => Rotates(want, srv))]_vars
  BY NextSafe DEF SecretKept, Undisturbed
<1>4. QED
  BY <1>1, <1>2, <1>3, PTL DEF Spec, SecretsNeedAWarrant

-----------------------------------------------------------------------------
(* A dry run never gets as far as a write.                                 *)

\* Where a run stands when it reads, or has not begun.
Reading == {"idle", "head", "getVersioning", "getRules", "checkSize", "getQuota", "getPolicy",
            "checkPolicies", "getEntity", "getUser", "getGroup", "getAccount", "readBack"}

\* The invariant: a dry run only reads (and others act a number of times).
DryReads == others \in Nat /\ (dry => pc \in Reading)

ReadStep ==
  \/ HeadBucket \/ GetVersioning \/ GetRules \/ CheckSize \/ GetQuota
  \/ GetPolicy \/ CheckPolicies \/ GetEntity
  \/ GetUser \/ GetGroup \/ GetAccount \/ ReadBack

WriteStep ==
  \/ CreateBucket \/ PutVersioning \/ DeleteBucket \/ PutRules \/ DeleteRules
  \/ SetQuota \/ ClearQuota
  \/ PutPolicy \/ DeletePolicy \/ SetAttached
  \/ AddUser \/ RotateSecret \/ SetUserStatus \/ RemoveUser
  \/ CreateGroup \/ AddMembers \/ RemoveMembers \/ SetGroupStatus \/ DeleteGroup
  \/ CreateAccount \/ DeleteAccount

LEMMA ReadOrWrite == TaskStep => ReadStep \/ WriteStep
  BY DEF TaskStep, BucketStep, AccessStep, IdentityStep, ReadStep, WriteStep

\* A write is the step of a run that stands at a write.
LEMMA WritesStandAtWrites == WriteStep => pc \notin Reading
<1> USE DEF Reading, Write, Call
<1>1. CASE CreateBucket \/ PutVersioning \/ DeleteBucket \/ PutRules \/ DeleteRules
           \/ SetQuota \/ ClearQuota
  BY <1>1 DEF CreateBucket, PutVersioning, DeleteBucket, PutRules, DeleteRules, SetQuota, ClearQuota
<1>2. CASE PutPolicy \/ DeletePolicy \/ SetAttached
  BY <1>2 DEF PutPolicy, DeletePolicy, SetAttached
<1>3. CASE AddUser \/ RotateSecret \/ SetUserStatus \/ RemoveUser
  BY <1>3 DEF AddUser, RotateSecret, SetUserStatus, RemoveUser
<1>4. CASE CreateGroup \/ AddMembers \/ RemoveMembers \/ SetGroupStatus \/ DeleteGroup
  BY <1>4 DEF CreateGroup, AddMembers, RemoveMembers, SetGroupStatus, DeleteGroup
<1>5. CASE CreateAccount \/ DeleteAccount
  BY <1>5 DEF CreateAccount, DeleteAccount
<1>6. QED
  BY <1>1, <1>2, <1>3, <1>4, <1>5 DEF WriteStep

\* A read leaves the resource alone, and in a dry run what follows it is
\* another read or the end.
LEMMA ReadsLeadToReads ==
  ASSUME ReadStep, dry
  PROVE  UNCHANGED <<srv, run>> /\ pc' \in Reading
<1> USE DEF Reading, Read, Call, Check, Decide, Goto, Exit, FailJson, NetworkError, verdict
<1>1. CASE HeadBucket \/ GetVersioning
  BY <1>1 DEF HeadBucket, GetVersioning
<1>2. CASE GetRules \/ CheckSize \/ GetQuota
  BY <1>2 DEF GetRules, CheckSize, GetQuota
<1>3. CASE GetPolicy
  BY <1>3 DEF GetPolicy
<1>4. CASE CheckPolicies \/ GetEntity
  BY <1>4 DEF CheckPolicies, GetEntity
<1>5. CASE GetUser
  BY <1>5 DEF GetUser
<1>6. CASE GetGroup
  BY <1>6 DEF GetGroup
<1>7. CASE GetAccount \/ ReadBack
  BY <1>7 DEF GetAccount, ReadBack
<1>8. QED
  BY <1>1, <1>2, <1>3, <1>4, <1>5, <1>6, <1>7 DEF ReadStep

\* Every module starts with a read, or with a look at its parameters.
LEMMA StartsReading == Start => pc' \in Reading /\ UNCHANGED <<srv, others>>
<1> SUFFICES ASSUME NEW w \in Wants, NEW d \in BOOLEAN, Begin(w, d, FirstStep[w.module])
             PROVE  pc' \in Reading /\ UNCHANGED <<srv, others>>
  BY DEF Start
<1>1. w.module \in {"bucket", "bucket_lifecycle", "bucket_quota", "policy", "policy_attachment",
                    "user", "group", "service_account"}
  BY DEF Wants, BucketWants, AccessWants, IdentityWants
<1>2. FirstStep[w.module] \in Reading
  BY <1>1 DEF FirstStep, Reading
<1>3. QED
  BY <1>2 DEF Begin

\* A dry run sends no write, whatever the module, its parameters, the resource
\* it finds and the calls that fail on the way.
THEOREM DryRunsAreDry == Spec => DryRunsDoNotWrite
<1>1. Init => DryReads
  BY DEF Init, Idle, DryReads
<1>2. DryReads /\ [Next]_vars => DryReads' /\ (dry /\ others' = others => UNCHANGED srv)
  <2> SUFFICES ASSUME DryReads, [Next]_vars
               PROVE  DryReads' /\ (dry /\ others' = others => UNCHANGED srv)
    OBVIOUS
  <2>1. CASE Start
    BY <2>1, StartsReading DEF DryReads
  <2>2. CASE ReadStep
    <3>1. dry' = dry /\ others' = others
      BY <2>2 DEF ReadStep, HeadBucket, GetVersioning, GetRules, CheckSize, GetQuota, GetPolicy,
         CheckPolicies, GetEntity, GetUser, GetGroup, GetAccount, ReadBack, Read, Call, Check, run
    <3>2. QED
      BY <2>2, <3>1, ReadsLeadToReads DEF DryReads
  <2>3. CASE WriteStep
    <3>1. ~dry
      BY <2>3, WritesStandAtWrites DEF DryReads
    <3>2. dry' = dry /\ others' = others
      BY <2>3 DEF WriteStep, CreateBucket, PutVersioning, DeleteBucket, PutRules, DeleteRules,
         SetQuota, ClearQuota, PutPolicy, DeletePolicy, SetAttached, AddUser, RotateSecret,
         SetUserStatus, RemoveUser, CreateGroup, AddMembers, RemoveMembers, SetGroupStatus,
         DeleteGroup, CreateAccount, DeleteAccount, Write, Call, run
    <3>3. QED
      BY <3>1, <3>2 DEF DryReads
  <2>4. CASE Interfere
    BY <2>4 DEF Interfere, DryReads
  <2>5. CASE Forget
    BY <2>5 DEF Forget, DryReads
  <2>6. CASE UNCHANGED vars
    BY <2>6 DEF vars, run, DryReads
  <2>7. QED
    BY <2>1, <2>2, <2>3, <2>4, <2>5, <2>6, ReadOrWrite DEF Next
<1>3. QED
  BY <1>1, <1>2, PTL DEF Spec, DryRunsDoNotWrite
=============================================================================
