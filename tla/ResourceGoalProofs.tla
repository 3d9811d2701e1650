------------------------- MODULE ResourceGoalProofs -------------------------
(***************************************************************************)
(* Theorems about the resource modules, for every resource, parameter and  *)
(* retry budget: a run that nobody disturbs and that ends well has brought *)
(* the resource to what was asked for, has told rightly whether there was  *)
(* anything to do, and returns what the resource then is; and one that     *)
(* fails does so for a reason.                                             *)
(***************************************************************************)
EXTENDS ResourceTypeProofs

\* Nothing has been done yet.
Untouched == srv = base /\ ~changed

\* The write that comes next has been decided on, and has perhaps been carried
\* out already in an earlier round of its call: the resource is one of S.
Writing(S) == ~dry /\ changed /\ srv \in S

\* How far a run has come when it stands at pc, module by module.
ExistingBucket == IF base.exists THEN base ELSE Fresh

BucketAt ==
  \/ pc = "head" /\ Untouched
  \/ /\ pc = "create" /\ want.state = "present" /\ ~base.exists
     /\ Writing({base, Fresh})
  \/ /\ pc = "getVersioning" /\ want.state = "present"
     /\ srv = ExistingBucket /\ (dry => base.exists) /\ (changed <=> ~base.exists)
  \/ /\ pc = "putVersioning" /\ want.state = "present"
     /\ want.value # Unset /\ Effective(ExistingBucket.versioning) # want.value
     /\ Writing({ExistingBucket, [ExistingBucket EXCEPT !.versioning = want.value]})
  \/ /\ pc = "delete" /\ want.state = "absent" /\ base.exists
     /\ Writing({base, NoBucket})

LifecycleAt ==
  \/ pc = "getRules" /\ Untouched
  \/ /\ pc \in {"putRules", "deleteRules"} /\ (pc = "putRules" <=> want.state = "present")
     /\ (want.state = "present" => want.value # NoRules)
     /\ Goal(want, base) # base /\ Writing({base, Goal(want, base)})

QuotaAt ==
  \/ pc = "checkSize" /\ Untouched
  \/ pc = "getQuota" /\ Untouched /\ (want.state = "present" => want.value # 0)
  \/ /\ pc \in {"setQuota", "clearQuota"} /\ (pc = "setQuota" <=> want.state = "present")
     /\ (want.state = "present" => want.value # 0)
     /\ Goal(want, base) # base /\ Writing({base, Goal(want, base)})

PolicyAt ==
  \/ pc = "getPolicy" /\ Untouched
  \/ /\ pc \in {"putPolicy", "deletePolicy"} /\ (pc = "putPolicy" <=> want.state = "present")
     /\ Goal(want, base) # base /\ Writing({base, Goal(want, base)})

AttachmentAt ==
  \/ pc = "checkPolicies" /\ Untouched
  \/ pc = "getEntity" /\ Untouched /\ want.policies # {}
  \/ /\ pc = "setAttached" /\ want.policies # {} /\ base.entity /\ read = base
     /\ Goal(want, base) # base /\ Writing({base, Goal(want, base)})

\* The write of the status may follow another: it makes the resource the goal.
StatusLast ==
  /\ want.state = "present" /\ want.status # Unset /\ ~dry /\ changed
  /\ srv.exists /\ [srv EXCEPT !.status = want.status] = Goal(want, base)

UserAt ==
  \/ pc = "getUser" /\ Untouched
  \/ /\ pc = "addUser" /\ want.state = "present" /\ want.secret # Unset /\ ~base.exists
     /\ Writing({base, Goal(want, base)})
  \/ /\ pc = "rotateSecret" /\ want.state = "present" /\ want.update_secret
     /\ base.exists /\ read = base /\ Writing({base, Goal(want, base)})
  \/ /\ pc = "setUserStatus" /\ StatusLast
     /\ base.exists /\ want.status # base.status
  \/ /\ pc = "removeUser" /\ want.state = "absent" /\ base.exists
     /\ Writing({base, NoUser})

AccountAt ==
  \/ pc = "getAccount" /\ Untouched
  \/ /\ pc = "createAccount" /\ want.state = "present" /\ want.secret # Unset /\ ~base.exists
     /\ Writing({base, Goal(want, base)})
  \/ /\ pc = "readBack" /\ want.state = "present" /\ want.secret # Unset /\ ~base.exists
     /\ Writing({Goal(want, base)})
  \/ /\ pc = "deleteAccount" /\ want.state = "absent" /\ base.exists
     /\ Writing({base, NoAccount})

\* A group is brought about in stages: the members that are missing, then those
\* that are too many, then the status.
Added   == IF want.members = Unset THEN {} ELSE want.members \ base.members
Removed == IF want.members = Unset \/ want.append THEN {} ELSE base.members \ want.members
Grown   == [base EXCEPT !.exists = TRUE, !.members = @ \cup Added]
Shrunk  == [Grown EXCEPT !.members = @ \ Removed]

GroupAt ==
  \/ pc = "getGroup" /\ Untouched
  \/ /\ pc = "createGroup" /\ want.state = "present" /\ ~base.exists /\ read = base
     /\ Writing({base, Grown})
  \/ /\ pc = "addMembers" /\ want.state = "present" /\ base.exists /\ Added # {} /\ read = base
     /\ Writing({base, Grown})
  \/ /\ pc = "removeMembers" /\ want.state = "present" /\ base.exists /\ Removed # {} /\ read = base
     /\ Writing({Grown, Shrunk})
  \/ pc = "setGroupStatus" /\ StatusLast /\ Goal(want, base) # base
  \/ /\ pc = "deleteGroup" /\ want.state = "absent" /\ base.exists
     /\ Writing({base, NoGroup})

\* What the end of a run that went well has to do with its beginning.
Fulfilled ==
  /\ ~dry => Attainable(want, base) /\ srv = Goal(want, base)
  /\ Attainable(want, base) => (changed <=> Goal(want, base) # base \/ Rotates(want, base))

\* A step either goes on, or ends well, or fails.
OnCourse(At) == pc' # "idle" => At'
EndsWell     == pc' = "idle" /\ outcome' = "ok" => Fulfilled'

Failing      == pc' = "idle" /\ outcome' = "failed"

-----------------------------------------------------------------------------
(* bucket                                                                  *)

LEMMA BucketGoals ==
  ASSUME NEW w \in BucketWants, NEW b \in Buckets
  PROVE  Goal(w, b) = BucketGoal(w, b) /\ (Attainable(w, b) <=> BucketAttainable(w, b)) /\ ~Rotates(w, b)
<1>1. b.kind = "bucket"
  BY KindTells DEF Servers
<1>2. w.module # "user"
  BY DEF BucketWants
<1>3. QED
  BY <1>1, <1>2 DEF Goal, Attainable, Rotates

\* What the constants of a run are, and what stands on the server.
LEMMA BucketsAtHand ==
  ASSUME TypeInv, want.module \in {"bucket", "bucket_lifecycle", "bucket_quota"}
  PROVE  want \in BucketWants /\ srv \in Buckets /\ base \in Buckets /\ read \in Buckets /\ dry \in BOOLEAN
<1>1. want \in Wants /\ srv \in Servers /\ base \in Servers /\ read \in Servers /\ dry \in BOOLEAN
  BY DEF TypeInv, TypeOK
<1>2. want \in BucketWants
  BY <1>1 DEF Wants, BucketWants, AccessWants, IdentityWants
<1>3. srv.kind = "bucket" /\ base.kind = "bucket" /\ read.kind = "bucket"
  BY DEF TypeInv, TypeOK, About
<1>4. QED
  BY <1>1, <1>2, <1>3, KindTells

VersioningIsToChange == want.value # Unset /\ Effective(ExistingBucket.versioning) # want.value

LEMMA BucketGoalIs ==
  ASSUME want \in BucketWants, want.module = "bucket", base \in Buckets
  PROVE  /\ ~Rotates(want, base) /\ want.state \in {"present", "absent"}
         /\ want.state = "present" =>
              /\ Attainable(want, base)
              /\ Goal(want, base) = IF VersioningIsToChange
                                    THEN [ExistingBucket EXCEPT !.versioning = want.value]
                                    ELSE ExistingBucket
              /\ Goal(want, base) # base <=> ~base.exists \/ VersioningIsToChange
         /\ want.state = "absent" =>
              /\ Attainable(want, base) <=> ~base.content
              /\ Goal(want, base) = NoBucket
              /\ Goal(want, base) # base <=> base.exists
<1>1. /\ Goal(want, base) = BucketGoal(want, base) /\ (Attainable(want, base) <=> BucketAttainable(want, base))
      /\ ~Rotates(want, base)
  BY BucketGoals
<1>2. want.state \in {"present", "absent"} /\ want.value \in {Unset, "enabled", "suspended"}
  BY DEF BucketWants, States
<1>3. /\ Fresh.exists /\ ~NoBucket.exists /\ ~NoBucket.content
      /\ Fresh \in Buckets /\ (~base.exists => base = NoBucket)
  BY BucketWrites DEF Fresh, NoBucket, Buckets
<1>4. ExistingBucket \in Buckets /\ ExistingBucket.exists /\ ExistingBucket.versioning \in Versioning
  <2>1. ExistingBucket \in Buckets /\ ExistingBucket.exists
    BY <1>3 DEF ExistingBucket
  <2>2. ExistingBucket # NoBucket
    BY <1>3, <2>1
  <2>3. QED
    BY <2>1, <2>2 DEF Buckets
<1>5. ASSUME want.state = "present"
      PROVE  /\ Attainable(want, base)
             /\ Goal(want, base) = IF VersioningIsToChange
                                   THEN [ExistingBucket EXCEPT !.versioning = want.value]
                                   ELSE ExistingBucket
             /\ Goal(want, base) # base <=> ~base.exists \/ VersioningIsToChange
  <2>1. Attainable(want, base)
    BY <1>1, <1>5 DEF BucketAttainable
  <2>2. VersioningIsToChange <=>
          /\ want.value # Unset
          /\ ~(ExistingBucket.versioning = "enabled" <=> want.value = "enabled")
    BY <1>2, <1>4, ResourceAssumption DEF VersioningIsToChange, Effective, Versioning
  <2>3. Goal(want, base) = IF VersioningIsToChange
                           THEN [ExistingBucket EXCEPT !.versioning = want.value]
                           ELSE ExistingBucket
    BY <1>1, <1>5, <2>2 DEF BucketGoal, ExistingBucket
  <2>4. VersioningIsToChange => ExistingBucket.versioning # want.value
    BY <1>2, <1>4 DEF VersioningIsToChange, Effective, Versioning
  <2>5. [ExistingBucket EXCEPT !.versioning = want.value].exists
    BY <1>4, <1>3 DEF Buckets
  <2>6. [ExistingBucket EXCEPT !.versioning = want.value].versioning = want.value
    BY <1>4, <1>3 DEF Buckets
  <2>7. CASE base.exists
    BY <2>1, <2>3, <2>4, <2>6, <2>7 DEF ExistingBucket
  <2>8. CASE ~base.exists
    BY <1>4, <2>1, <2>3, <2>5, <2>8
  <2>9. QED
    BY <2>7, <2>8
<1>6. ASSUME want.state = "absent"
      PROVE  /\ Attainable(want, base) <=> ~base.content
             /\ Goal(want, base) = NoBucket
             /\ Goal(want, base) # base <=> base.exists
  BY <1>1, <1>3, <1>6 DEF BucketGoal, BucketAttainable
<1>7. QED
  BY <1>1, <1>2, <1>5, <1>6

LEMMA BucketRuns ==
  ASSUME TypeInv, want.module = "bucket", BucketAt,
         HeadBucket \/ CreateBucket \/ GetVersioning \/ PutVersioning \/ DeleteBucket
  PROVE  OnCourse(BucketAt) /\ EndsWell
<1>1. UNCHANGED <<want, dry, base>> /\ dry \in BOOLEAN
  BY BucketsAtHand DEF HeadBucket, CreateBucket, GetVersioning, PutVersioning, DeleteBucket, Read, Write,
     Call, run
<1>2. want \in BucketWants /\ srv \in Buckets /\ base \in Buckets
  BY BucketsAtHand
<1>3. /\ ~Rotates(want, base) /\ want.state \in {"present", "absent"}
      /\ want.state = "present" =>
           /\ Attainable(want, base)
           /\ Goal(want, base) = IF VersioningIsToChange
                                 THEN [ExistingBucket EXCEPT !.versioning = want.value]
                                 ELSE ExistingBucket
           /\ Goal(want, base) # base <=> ~base.exists \/ VersioningIsToChange
      /\ want.state = "absent" =>
           /\ Attainable(want, base) <=> ~base.content
           /\ Goal(want, base) = NoBucket
           /\ Goal(want, base) # base <=> base.exists
  BY <1>2, BucketGoalIs
<1>4. Fresh.exists /\ ~NoBucket.exists /\ ~NoBucket.content /\ (~base.exists => base = NoBucket)
  BY <1>2 DEF Fresh, NoBucket, Buckets
<1>5. CASE HeadBucket
  <2>1. srv = base /\ ~changed
    BY <1>5 DEF BucketAt, HeadBucket, Read, Call, Untouched
  <2>2. srv' = srv
    BY <1>5 DEF HeadBucket, Read, Call
  <2>3. \/ pc' = "head" /\ ~changed'
        \/ pc' = "delete" /\ want.state = "absent" /\ base.exists /\ changed' /\ ~dry
        \/ pc' = "idle" /\ want.state = "absent" /\ (changed' <=> base.exists) /\ (base.exists => dry)
        \/ pc' = "getVersioning" /\ want.state # "absent" /\ base.exists /\ ~changed'
        \/ pc' = "create" /\ want.state # "absent" /\ ~base.exists /\ changed' /\ ~dry
        \/ pc' = "idle" /\ want.state # "absent" /\ ~base.exists /\ changed' /\ dry
        \/ Failing
    BY <1>1, <1>5, <2>1 DEF HeadBucket, Read, Call, Decide, Goto, Exit, NetworkError, FailJson, verdict, Failing,
       Buckets
  <2>4. OnCourse(BucketAt)
    BY <1>1, <1>3, <2>1, <2>2, <2>3 DEF OnCourse, BucketAt, Untouched, Writing, ExistingBucket, Failing
  <2>5. EndsWell
    BY <1>1, <1>3, <1>4, <2>1, <2>2, <2>3 DEF EndsWell, Fulfilled, Failing
  <2>6. QED
    BY <2>4, <2>5
<1>6. CASE CreateBucket
  <2>1. want.state = "present" /\ ~base.exists /\ changed /\ ~dry /\ srv \in {base, Fresh}
    BY <1>6 DEF BucketAt, CreateBucket, Write, Call, Writing
  <2>2. \/ pc' = "create" /\ srv' \in {base, Fresh} /\ changed' = changed
        \/ pc' = "getVersioning" /\ srv' = Fresh /\ changed' = changed
        \/ Failing
    BY <1>4, <1>6, <2>1 DEF CreateBucket, Write, Call, Goto, NetworkError, FailJson, verdict, Failing
  <2>3. QED
    BY <1>1, <2>1, <2>2 DEF OnCourse, EndsWell, BucketAt, Writing, ExistingBucket, Failing
<1>7. CASE GetVersioning
  <2>1. /\ want.state = "present" /\ srv = ExistingBucket /\ (dry => base.exists)
        /\ (changed <=> ~base.exists)
    BY <1>7 DEF BucketAt, GetVersioning, Read, Call
  <2>2. srv' = ExistingBucket
    BY <1>7, <2>1 DEF GetVersioning, Read, Call
  <2>3. read' = srv => (VersioningDiffers' <=> VersioningIsToChange)
    BY <1>1, <2>1 DEF VersioningDiffers, VersioningIsToChange
  <2>4. \/ pc' = "getVersioning" /\ changed' = changed
        \/ pc' = "putVersioning" /\ VersioningIsToChange /\ ~dry /\ changed'
        \/ /\ pc' = "idle" /\ (VersioningIsToChange => dry)
           /\ (changed' <=> ~base.exists \/ VersioningIsToChange)
        \/ Failing
    BY <1>1, <1>7, <2>1, <2>3 DEF GetVersioning, Read, Call, Decide, Goto, Exit, NetworkError, FailJson, verdict,
       Failing
  <2>5. OnCourse(BucketAt)
    BY <1>1, <2>1, <2>2, <2>4 DEF OnCourse, BucketAt, Writing, ExistingBucket, VersioningIsToChange, Failing
  <2>6. EndsWell
    BY <1>1, <1>3, <2>1, <2>2, <2>4 DEF EndsWell, Fulfilled, Failing
  <2>7. QED
    BY <2>5, <2>6
<1>8. CASE PutVersioning
  <2> DEFINE G == [ExistingBucket EXCEPT !.versioning = want.value]
  <2>1. /\ want.state = "present" /\ VersioningIsToChange /\ changed /\ ~dry
        /\ srv \in {ExistingBucket, G}
    BY <1>8 DEF BucketAt, PutVersioning, Write, Call, Writing, VersioningIsToChange
  <2>2. ExistingBucket \in Buckets /\ ExistingBucket.exists
    BY <1>2, <1>4, BucketWrites DEF ExistingBucket
  <2>3. [srv EXCEPT !.versioning = want.value] = G /\ srv.exists
    <3>1. want.value \in Versioning
      BY <1>2, <2>1 DEF BucketWants, Versioning, VersioningIsToChange, TypeInv
    <3>2. ExistingBucket # NoBucket
      BY <1>4, <2>2
    <3>3. QED
      BY <2>1, <2>2, <3>2 DEF Buckets
  <2>4. \/ pc' = "putVersioning" /\ srv' \in {ExistingBucket, G} /\ changed' = changed
        \/ pc' = "idle" /\ srv' = G /\ changed' = changed
        \/ Failing
    BY <1>8, <2>1, <2>3 DEF PutVersioning, Write, Call, Exit, NetworkError, FailJson, verdict, Failing, IfExists
  <2>5. OnCourse(BucketAt)
    BY <1>1, <2>1, <2>4 DEF OnCourse, BucketAt, Writing, ExistingBucket, VersioningIsToChange, Failing
  <2>6. EndsWell
    BY <1>1, <1>3, <2>1, <2>4 DEF EndsWell, Fulfilled, Failing
  <2>7. QED
    BY <2>5, <2>6
<1>9. CASE DeleteBucket
  <2>1. want.state = "absent" /\ base.exists /\ changed /\ ~dry /\ srv \in {base, NoBucket}
    BY <1>9 DEF BucketAt, DeleteBucket, Call, Writing
  <2>2. \/ pc' = "delete" /\ srv' \in {base, NoBucket} /\ changed' = changed
        \/ pc' = "idle" /\ srv' = NoBucket /\ changed' = changed /\ ~base.content
        \/ Failing
    BY <1>4, <1>9, <2>1 DEF DeleteBucket, Call, Exit, NetworkError, FailJson, verdict, Failing, IfExists
  <2>3. OnCourse(BucketAt)
    BY <1>1, <2>1, <2>2 DEF OnCourse, BucketAt, Writing, Failing
  <2>4. EndsWell
    BY <1>1, <1>3, <2>1, <2>2 DEF EndsWell, Fulfilled, Failing
  <2>5. QED
    BY <2>3, <2>4
<1>10. QED
  BY <1>5, <1>6, <1>7, <1>8, <1>9
-----------------------------------------------------------------------------
(* bucket_lifecycle and bucket_quota                                       *)

\* A bucket, there or not, is a record; what is not there has no rules and no quota.
BucketRecords == [kind : {"bucket"}, exists : BOOLEAN, content : BOOLEAN, versioning : Versioning,
                  rules : Rulesets \cup {NoRules}, quota : Sizes \cup {0}]

LEMMA BucketsAreRecords ==
  \A b \in Buckets : b \in BucketRecords /\ (b.rules # NoRules \/ b.quota # 0 => b.exists)
<1>1. NoBucket \in BucketRecords /\ NoBucket.rules = NoRules /\ NoBucket.quota = 0
  BY DEF NoBucket, BucketRecords, Versioning
<1>2. ASSUME NEW b \in Buckets, b # NoBucket
      PROVE  b \in BucketRecords /\ b.exists
  BY <1>2 DEF Buckets, BucketRecords
<1>3. QED
  BY <1>1, <1>2

LEMMA LifecycleGoalIs ==
  ASSUME want \in BucketWants, want.module = "bucket_lifecycle", base \in Buckets
  PROVE  LET target == IF want.state = "absent" THEN NoRules ELSE want.value
         IN  /\ ~Rotates(want, base) /\ want.state \in {"present", "absent"}
             /\ Attainable(want, base) <=>
                  (want.state = "present" => base.exists /\ want.value # NoRules)
             /\ Goal(want, base) = [base EXCEPT !.rules = target]
             /\ Goal(want, base) # base <=> base.rules # target
             /\ [Goal(want, base) EXCEPT !.rules = target] = Goal(want, base)
             /\ Goal(want, base).exists = base.exists
             /\ base.rules # NoRules => base.exists
<1> DEFINE target == IF want.state = "absent" THEN NoRules ELSE want.value
<1>1. /\ Goal(want, base) = BucketGoal(want, base) /\ (Attainable(want, base) <=> BucketAttainable(want, base))
      /\ ~Rotates(want, base)
  BY BucketGoals
<1>2. want.state \in {"present", "absent"}
  BY DEF BucketWants, States
<1>3. Goal(want, base) = [base EXCEPT !.rules = target]
  BY <1>1 DEF BucketGoal
<1>4. base \in BucketRecords /\ (base.rules # NoRules => base.exists)
  BY BucketsAreRecords
<1> HIDE DEF target
<1>5. [base EXCEPT !.rules = target] # base <=> base.rules # target
  BY <1>4 DEF BucketRecords
<1>6. [[base EXCEPT !.rules = target] EXCEPT !.rules = target] = [base EXCEPT !.rules = target]
      /\ [base EXCEPT !.rules = target].exists = base.exists
  BY <1>4 DEF BucketRecords
<1>7. Attainable(want, base) <=> (want.state = "present" => base.exists /\ want.value # NoRules)
  BY <1>1 DEF BucketAttainable
<1>8. QED
  BY <1>1, <1>2, <1>3, <1>4, <1>5, <1>6, <1>7 DEF target

LEMMA LifecycleRuns ==
  ASSUME TypeInv, want.module = "bucket_lifecycle", LifecycleAt, GetRules \/ PutRules \/ DeleteRules
  PROVE  OnCourse(LifecycleAt) /\ EndsWell
<1> DEFINE target == IF want.state = "absent" THEN NoRules ELSE want.value
           G      == Goal(want, base)
<1>1. UNCHANGED <<want, dry, base>> /\ dry \in BOOLEAN
  BY BucketsAtHand DEF GetRules, PutRules, DeleteRules, Read, Write, Call, run
<1>2. /\ ~Rotates(want, base) /\ want.state \in {"present", "absent"}
      /\ Attainable(want, base) <=> (want.state = "present" => base.exists /\ want.value # NoRules)
      /\ G = [base EXCEPT !.rules = target] /\ (G # base <=> base.rules # target)
      /\ [G EXCEPT !.rules = target] = G /\ G.exists = base.exists
      /\ base.rules # NoRules => base.exists
  BY BucketsAtHand, LifecycleGoalIs
<1>3. CASE GetRules
  <2>1. srv = base /\ ~changed /\ srv' = srv
    BY <1>3 DEF LifecycleAt, GetRules, Read, Call, Untouched
  <2>2. \/ pc' = "getRules" /\ ~changed'
        \/ /\ pc' \in {"putRules", "deleteRules"} /\ (pc' = "putRules" <=> want.state = "present")
           /\ (want.state = "present" => want.value # NoRules)
           /\ base.rules # target /\ changed' /\ ~dry
        \/ /\ pc' = "idle" /\ (want.state = "present" => want.value # NoRules)
           /\ (changed' <=> base.rules # target) /\ (base.rules # target => dry)
        \/ Failing
    BY <1>1, <1>2, <1>3, <2>1 DEF GetRules, Read, Call, Decide, Goto, Exit, NetworkError, FailJson, verdict,
       Failing
  <2>3. OnCourse(LifecycleAt)
    BY <1>1, <1>2, <2>1, <2>2 DEF OnCourse, LifecycleAt, Untouched, Writing, Failing
  <2>4. EndsWell
    BY <1>1, <1>2, <2>1, <2>2 DEF EndsWell, Fulfilled, Failing
  <2>5. QED
    BY <2>3, <2>4
<1>4. CASE PutRules \/ DeleteRules
  <2>1. /\ pc \in {"putRules", "deleteRules"} /\ (pc = "putRules" <=> want.state = "present")
        /\ (want.state = "present" => want.value # NoRules)
        /\ G # base /\ changed /\ ~dry /\ srv \in {base, G}
    BY <1>4 DEF LifecycleAt, PutRules, DeleteRules, Write, Call, Writing
  <2>2. [srv EXCEPT !.rules = target] = G /\ srv.exists = base.exists
    BY <1>2, <2>1
  <2>3. \/ pc' = pc /\ srv' \in {base, G} /\ changed' = changed
        \/ pc' = "idle" /\ srv' = G /\ changed' = changed /\ base.exists
        \/ Failing
    <3>1. CASE PutRules
      <4>1. [srv EXCEPT !.rules = want.value] = G /\ pc = "putRules"
        BY <2>1, <2>2, <3>1 DEF PutRules, Write, Call
      <4>2. QED
        BY <2>1, <2>2, <3>1, <4>1 DEF PutRules, Write, Call, Exit, NetworkError, FailJson, verdict, Failing, IfExists
    <3>2. CASE DeleteRules
      <4>1. [srv EXCEPT !.rules = NoRules] = G /\ pc = "deleteRules"
        BY <1>2, <2>1, <2>2, <3>2 DEF DeleteRules, Write, Call
      <4>2. QED
        BY <2>1, <2>2, <3>2, <4>1 DEF DeleteRules, Write, Call, Exit, NetworkError, FailJson, verdict, Failing,
           IfExists
    <3>3. QED
      BY <1>4, <3>1, <3>2
  <2>4. OnCourse(LifecycleAt)
    BY <1>1, <2>1, <2>3 DEF OnCourse, LifecycleAt, Writing, Failing
  <2>5. EndsWell
    BY <1>1, <1>2, <2>1, <2>3 DEF EndsWell, Fulfilled, Failing
  <2>6. QED
    BY <2>4, <2>5
<1>5. QED
  BY <1>3, <1>4

LEMMA QuotaGoalIs ==
  ASSUME want \in BucketWants, want.module = "bucket_quota", base \in Buckets
  PROVE  /\ ~Rotates(want, base) /\ want.state \in {"present", "absent"}
         /\ Attainable(want, base) <=>
              (want.state = "present" => base.exists /\ want.value # 0)
         /\ Goal(want, base) = [base EXCEPT !.quota = DesiredQuota]
         /\ Goal(want, base) # base <=> base.quota # DesiredQuota
         /\ [Goal(want, base) EXCEPT !.quota = DesiredQuota] = Goal(want, base)
         /\ Goal(want, base).exists = base.exists
         /\ base.quota # 0 => base.exists
<1>1. /\ Goal(want, base) = BucketGoal(want, base) /\ (Attainable(want, base) <=> BucketAttainable(want, base))
      /\ ~Rotates(want, base)
  BY BucketGoals
<1>2. want.state \in {"present", "absent"}
  BY DEF BucketWants, States
<1>3. Goal(want, base) = [base EXCEPT !.quota = DesiredQuota]
  BY <1>1 DEF BucketGoal, DesiredQuota
<1>4. base \in BucketRecords /\ (base.quota # 0 => base.exists)
  BY BucketsAreRecords
<1>5. [base EXCEPT !.quota = DesiredQuota] # base <=> base.quota # DesiredQuota
  BY <1>4 DEF BucketRecords
<1>6. [[base EXCEPT !.quota = DesiredQuota] EXCEPT !.quota = DesiredQuota] = [base EXCEPT !.quota = DesiredQuota]
      /\ [base EXCEPT !.quota = DesiredQuota].exists = base.exists
  BY <1>4 DEF BucketRecords
<1>7. Attainable(want, base) <=> (want.state = "present" => base.exists /\ want.value # 0)
  BY <1>1 DEF BucketAttainable
<1>8. QED
  BY <1>1, <1>2, <1>3, <1>4, <1>5, <1>6, <1>7

LEMMA QuotaRuns ==
  ASSUME TypeInv, want.module = "bucket_quota", QuotaAt, CheckSize \/ GetQuota \/ SetQuota \/ ClearQuota
  PROVE  OnCourse(QuotaAt) /\ EndsWell
<1> DEFINE G == Goal(want, base)
<1>1. UNCHANGED <<want, dry, base>> /\ dry \in BOOLEAN
  BY BucketsAtHand DEF CheckSize, GetQuota, SetQuota, ClearQuota, Check, Read, Write, Call, run
<1>2. /\ ~Rotates(want, base) /\ want.state \in {"present", "absent"}
      /\ Attainable(want, base) <=> (want.state = "present" => base.exists /\ want.value # 0)
      /\ G = [base EXCEPT !.quota = DesiredQuota] /\ (G # base <=> base.quota # DesiredQuota)
      /\ [G EXCEPT !.quota = DesiredQuota] = G /\ G.exists = base.exists
      /\ base.quota # 0 => base.exists
  BY BucketsAtHand, QuotaGoalIs
<1>3. want.state = "absent" <=> want.state # "present"
  BY <1>2
<1>4. CASE CheckSize
  <2>1. srv = base /\ ~changed /\ srv' = srv /\ changed' = changed
    BY <1>4 DEF QuotaAt, CheckSize, Check, Untouched
  <2>2. Failing \/ (pc' = "getQuota" /\ (want.state = "present" => want.value # 0))
    BY <1>4 DEF CheckSize, Check, Goto, FailJson, Failing
  <2>3. QED
    BY <1>1, <2>1, <2>2 DEF OnCourse, EndsWell, QuotaAt, Untouched, Failing
<1>5. CASE GetQuota
  <2>1. srv = base /\ ~changed /\ srv' = srv /\ (want.state = "present" => want.value # 0)
    BY <1>5 DEF QuotaAt, GetQuota, Read, Call, Untouched
  <2>2. \/ pc' = "getQuota" /\ ~changed'
        \/ /\ pc' \in {"setQuota", "clearQuota"} /\ (pc' = "setQuota" <=> want.state = "present")
           /\ base.quota # DesiredQuota /\ changed' /\ ~dry
        \/ /\ pc' = "idle" /\ (changed' <=> base.quota # DesiredQuota) /\ (base.quota # DesiredQuota => dry)
        \/ Failing
    BY <1>1, <1>2, <1>5, <2>1 DEF GetQuota, Read, Call, Decide, Goto, Exit, NetworkError, FailJson, verdict,
       Failing
  <2>3. OnCourse(QuotaAt)
    BY <1>1, <1>2, <2>1, <2>2 DEF OnCourse, QuotaAt, Untouched, Writing, Failing
  <2>4. want.state = "present" /\ base.quota = DesiredQuota => base.exists
    BY <1>2, <2>1 DEF DesiredQuota
  <2>5. EndsWell
    BY <1>1, <1>2, <2>1, <2>2, <2>4 DEF EndsWell, Fulfilled, Failing
  <2>6. QED
    BY <2>3, <2>5
<1>6. CASE SetQuota \/ ClearQuota
  <2>1. /\ pc \in {"setQuota", "clearQuota"} /\ (pc = "setQuota" <=> want.state = "present")
        /\ (want.state = "present" => want.value # 0)
        /\ G # base /\ changed /\ ~dry /\ srv \in {base, G}
    BY <1>6 DEF QuotaAt, SetQuota, ClearQuota, Write, Call, Writing
  <2>2. [srv EXCEPT !.quota = DesiredQuota] = G /\ srv.exists = base.exists
    BY <1>2, <2>1
  <2>3. \/ pc' = pc /\ srv' \in {base, G} /\ changed' = changed
        \/ pc' = "idle" /\ srv' = G /\ changed' = changed /\ base.exists
        \/ Failing
    <3>1. CASE SetQuota
      BY <2>1, <2>2, <3>1 DEF SetQuota, Write, Call, Exit, NetworkError, FailJson, verdict, Failing, IfExists
    <3>2. CASE ClearQuota
      <4>1. [srv EXCEPT !.quota = 0] = G /\ pc = "clearQuota"
        BY <1>2, <2>1, <2>2, <3>2 DEF ClearQuota, Write, Call, DesiredQuota
      <4>2. QED
        BY <2>1, <2>2, <3>2, <4>1 DEF ClearQuota, Write, Call, Exit, NetworkError, FailJson, verdict, Failing,
           IfExists
    <3>3. QED
      BY <1>6, <3>1, <3>2
  <2>4. OnCourse(QuotaAt)
    BY <1>1, <2>1, <2>3 DEF OnCourse, QuotaAt, Writing, Failing
  <2>5. EndsWell
    BY <1>1, <1>2, <2>1, <2>3 DEF EndsWell, Fulfilled, Failing
  <2>6. QED
    BY <2>4, <2>5
<1>7. QED
  BY <1>4, <1>5, <1>6
-----------------------------------------------------------------------------
(* policy and policy_attachment                                            *)

LEMMA AccessesAtHand ==
  ASSUME TypeInv, want.module \in {"policy", "policy_attachment"}
  PROVE  /\ want \in AccessWants /\ srv \in Accesses /\ base \in Accesses /\ read \in Accesses
         /\ dry \in BOOLEAN /\ ~Rotates(want, base)
         /\ Goal(want, base) = AccessGoal(want, base)
         /\ Attainable(want, base) <=> AccessAttainable(want, base)
<1>1. want \in Wants /\ srv \in Servers /\ base \in Servers /\ read \in Servers /\ dry \in BOOLEAN
  BY DEF TypeInv, TypeOK
<1>2. want \in AccessWants
  BY <1>1 DEF Wants, BucketWants, AccessWants, IdentityWants
<1>3. srv.kind = "access" /\ base.kind = "access" /\ read.kind = "access"
  BY DEF TypeInv, TypeOK, About
<1>4. QED
  BY <1>1, <1>2, <1>3, KindTells DEF Goal, Attainable, Rotates

LEMMA PolicyGoalIs ==
  ASSUME TypeInv, want.module = "policy"
  PROVE  LET target == IF want.state = "absent" THEN NoDocument ELSE want.document
         IN  /\ want.state \in {"present", "absent"}
             /\ Attainable(want, base) <=> (want.state = "absent" => Policy \notin base.attached)
             /\ Goal(want, base) = [base EXCEPT !.document = target]
             /\ Goal(want, base) # base <=> base.document # target
             /\ [Goal(want, base) EXCEPT !.document = target] = Goal(want, base)
             /\ Goal(want, base).attached = base.attached
             /\ base.document = NoDocument => Policy \notin base.attached
             /\ want.document # NoDocument
<1> DEFINE target == IF want.state = "absent" THEN NoDocument ELSE want.document
<1>1. want \in AccessWants /\ base \in Accesses
  BY AccessesAtHand
<1>2. want.state \in {"present", "absent"} /\ want.document \in Documents
  BY <1>1 DEF AccessWants, States
<1>3. Goal(want, base) = [base EXCEPT !.document = target]
  BY AccessesAtHand DEF AccessGoal
<1>4. Attainable(want, base) <=> (want.state = "absent" => Policy \notin base.attached)
  BY AccessesAtHand DEF AccessAttainable
<1>5. base.document = NoDocument => Policy \notin base.attached
  BY <1>1 DEF Accesses
<1> HIDE DEF target
<1>6. [base EXCEPT !.document = target] # base <=> base.document # target
  BY <1>1 DEF Accesses
<1>7. [[base EXCEPT !.document = target] EXCEPT !.document = target] = [base EXCEPT !.document = target]
      /\ [base EXCEPT !.document = target].attached = base.attached
  BY <1>1 DEF Accesses
<1>8. QED
  BY <1>2, <1>3, <1>4, <1>5, <1>6, <1>7, ResourceAssumption DEF target

LEMMA PolicyRuns ==
  ASSUME TypeInv, want.module = "policy", PolicyAt, GetPolicy \/ PutPolicy \/ DeletePolicy
  PROVE  OnCourse(PolicyAt) /\ EndsWell
<1> DEFINE target == IF want.state = "absent" THEN NoDocument ELSE want.document
           G      == Goal(want, base)
<1>1. UNCHANGED <<want, dry, base>> /\ dry \in BOOLEAN
  BY AccessesAtHand DEF GetPolicy, PutPolicy, DeletePolicy, Read, Write, Call, run
<1>2. /\ ~Rotates(want, base) /\ want.state \in {"present", "absent"}
      /\ Attainable(want, base) <=> (want.state = "absent" => Policy \notin base.attached)
      /\ G = [base EXCEPT !.document = target] /\ (G # base <=> base.document # target)
      /\ [G EXCEPT !.document = target] = G /\ G.attached = base.attached
      /\ base.document = NoDocument => Policy \notin base.attached
      /\ want.document # NoDocument
  BY AccessesAtHand, PolicyGoalIs
<1>3. CASE GetPolicy
  <2>1. srv = base /\ ~changed /\ srv' = srv
    BY <1>3 DEF PolicyAt, GetPolicy, Read, Call, Untouched
  <2>2. ReadsAsMissing(MissingPolicy, TRUE)
    BY DEF ReadsAsMissing, MissingPolicy, HttpClass, PermanentClasses, GatewayStatuses
  <2>3. \/ pc' = "getPolicy" /\ changed' = changed
        \/ want.state = "absent" /\ Decide(base.document # NoDocument, "deletePolicy")
        \/ want.state = "present" /\ Decide(base.document # want.document, "putPolicy")
        \/ Failing
    <3>1. \/ pc' = "getPolicy" /\ changed' = changed
          \/ want.state = "absent" /\ Decide(base.document # NoDocument, "deletePolicy")
          \/ want.state = "present" /\ Decide(base.document = NoDocument \/ base.document # want.document, "putPolicy")
          \/ Failing
      BY <1>2, <1>3, <2>1, <2>2 DEF GetPolicy, Read, Call, NetworkError, FailJson, verdict, Failing
    <3>2. (base.document = NoDocument \/ base.document # want.document) <=> base.document # want.document
      BY <1>2
    <3>3. QED
      BY <3>1, <3>2 DEF Decide
  <2>4. \/ pc' = "getPolicy" /\ ~changed'
        \/ /\ pc' \in {"putPolicy", "deletePolicy"} /\ (pc' = "putPolicy" <=> want.state = "present")
           /\ base.document # target /\ changed' /\ ~dry
        \/ /\ pc' = "idle" /\ (changed' <=> base.document # target) /\ (base.document # target => dry)
        \/ Failing
    BY <1>1, <1>2, <2>1, <2>3 DEF Decide, Goto, Exit, Failing
  <2>5. OnCourse(PolicyAt)
    BY <1>1, <1>2, <2>1, <2>4 DEF OnCourse, PolicyAt, Untouched, Writing, Failing
  <2>6. EndsWell
    BY <1>1, <1>2, <2>1, <2>4 DEF EndsWell, Fulfilled, Failing
  <2>7. QED
    BY <2>5, <2>6
<1>4. CASE PutPolicy \/ DeletePolicy
  <2>1. /\ pc \in {"putPolicy", "deletePolicy"} /\ (pc = "putPolicy" <=> want.state = "present")
        /\ G # base /\ changed /\ ~dry /\ srv \in {base, G}
    BY <1>4 DEF PolicyAt, PutPolicy, DeletePolicy, Write, Call, Writing
  <2>2. [srv EXCEPT !.document = target] = G /\ srv.attached = base.attached
    BY <1>2, <2>1
  <2>3. \/ pc' = pc /\ srv' \in {base, G} /\ changed' = changed
        \/ pc' = "idle" /\ srv' = G /\ changed' = changed /\ Attainable(want, base)
        \/ Failing
    <3>1. CASE PutPolicy
      <4>1. [srv EXCEPT !.document = want.document] = G /\ pc = "putPolicy"
        BY <2>1, <2>2, <3>1 DEF PutPolicy, Write, Call
      <4>2. QED
        BY <1>2, <2>1, <2>2, <3>1, <4>1 DEF PutPolicy, Write, Call, Exit, NetworkError, FailJson, verdict, Failing
    <3>2. CASE DeletePolicy
      <4>1. [srv EXCEPT !.document = NoDocument] = G /\ pc = "deletePolicy"
        BY <1>2, <2>1, <2>2, <3>2 DEF DeletePolicy, Write, Call
      <4>2. QED
        BY <1>2, <2>1, <2>2, <3>2, <4>1 DEF DeletePolicy, Write, Call, Exit, NetworkError, FailJson, verdict, Failing
    <3>3. QED
      BY <1>4, <3>1, <3>2
  <2>4. OnCourse(PolicyAt)
    BY <1>1, <2>1, <2>3 DEF OnCourse, PolicyAt, Writing, Failing
  <2>5. EndsWell
    BY <1>1, <1>2, <2>1, <2>3 DEF EndsWell, Fulfilled, Failing
  <2>6. QED
    BY <2>4, <2>5
<1>5. QED
  BY <1>3, <1>4

LEMMA AttachmentGoalIs ==
  ASSUME TypeInv, want.module = "policy_attachment"
  PROVE  LET target == Desired(base.attached)
         IN  /\ Attainable(want, base) <=>
                  /\ want.policies # {} /\ base.entity
                  /\ Policy \in want.policies => base.document # NoDocument
             /\ Goal(want, base) = [base EXCEPT !.attached = target]
             /\ Goal(want, base) # base <=> base.attached # target
             /\ [Goal(want, base) EXCEPT !.attached = target] = Goal(want, base)
             /\ Goal(want, base).entity = base.entity /\ Goal(want, base).document = base.document
             /\ want.policies \subseteq target
             /\ Policy \in base.attached => base.document # NoDocument
<1> DEFINE target == Desired(base.attached)
<1>1. base \in Accesses
  BY AccessesAtHand
<1>2. Goal(want, base) = [base EXCEPT !.attached = target]
  BY AccessesAtHand DEF AccessGoal, Desired
<1>3. Attainable(want, base) <=> /\ want.policies # {} /\ base.entity
                                 /\ Policy \in want.policies => base.document # NoDocument
  BY AccessesAtHand DEF AccessAttainable
<1>4. want.policies \subseteq target
  BY DEF Desired
<1> HIDE DEF target
<1>5. [base EXCEPT !.attached = target] # base <=> base.attached # target
  BY <1>1 DEF Accesses
<1>6. /\ [[base EXCEPT !.attached = target] EXCEPT !.attached = target] = [base EXCEPT !.attached = target]
      /\ [base EXCEPT !.attached = target].entity = base.entity
      /\ [base EXCEPT !.attached = target].document = base.document
      /\ Policy \in base.attached => base.document # NoDocument
  BY <1>1 DEF Accesses
<1>7. QED
  BY <1>2, <1>3, <1>4, <1>5, <1>6 DEF target

LEMMA AttachmentRuns ==
  ASSUME TypeInv, want.module = "policy_attachment", AttachmentAt, CheckPolicies \/ GetEntity \/ SetAttached
  PROVE  OnCourse(AttachmentAt) /\ EndsWell
<1> DEFINE target == Desired(base.attached)
           G      == Goal(want, base)
<1>1. UNCHANGED <<want, dry, base>> /\ dry \in BOOLEAN
  BY AccessesAtHand DEF CheckPolicies, GetEntity, SetAttached, Check, Read, Write, Call, run
<1>2. /\ ~Rotates(want, base)
      /\ Attainable(want, base) <=>
           /\ want.policies # {} /\ base.entity
           /\ Policy \in want.policies => base.document # NoDocument
      /\ G = [base EXCEPT !.attached = target] /\ (G # base <=> base.attached # target)
      /\ [G EXCEPT !.attached = target] = G
      /\ G.entity = base.entity /\ G.document = base.document
      /\ want.policies \subseteq target
      /\ Policy \in base.attached => base.document # NoDocument
  BY AccessesAtHand, AttachmentGoalIs
<1>3. CASE CheckPolicies
  <2>1. srv = base /\ ~changed /\ srv' = srv /\ changed' = changed
    BY <1>3 DEF AttachmentAt, CheckPolicies, Check, Untouched
  <2>2. Failing \/ (pc' = "getEntity" /\ want.policies # {})
    BY <1>3 DEF CheckPolicies, Check, Goto, FailJson, Failing
  <2>3. QED
    BY <1>1, <2>1, <2>2 DEF OnCourse, EndsWell, AttachmentAt, Untouched, Failing
<1>4. CASE GetEntity
  <2>1. srv = base /\ ~changed /\ srv' = srv /\ want.policies # {}
    BY <1>4 DEF AttachmentAt, GetEntity, Read, Call, Untouched
  <2>2. \/ pc' = "getEntity" /\ ~changed'
        \/ pc' = "setAttached" /\ base.entity /\ read' = base /\ base.attached # target /\ changed' /\ ~dry
        \/ /\ pc' = "idle" /\ base.entity /\ (changed' <=> base.attached # target)
           /\ (base.attached # target => dry)
        \/ Failing
    BY <1>1, <1>2, <1>4, <2>1 DEF GetEntity, Read, Call, Decide, Goto, Exit, NetworkError, FailJson, verdict,
       Failing
  <2>3. OnCourse(AttachmentAt)
    BY <1>1, <1>2, <2>1, <2>2 DEF OnCourse, AttachmentAt, Untouched, Writing, Failing
  <2>4. EndsWell
    BY <1>1, <1>2, <2>1, <2>2 DEF EndsWell, Fulfilled, Failing
  <2>5. QED
    BY <2>3, <2>4
<1>5. CASE SetAttached
  <2>1. /\ pc = "setAttached" /\ want.policies # {} /\ base.entity /\ read = base
        /\ G # base /\ changed /\ ~dry /\ srv \in {base, G}
    BY <1>5 DEF AttachmentAt, SetAttached, Write, Call, Writing
  <2>2. /\ [srv EXCEPT !.attached = Desired(read.attached)] = G
        /\ srv.entity = base.entity /\ srv.document = base.document
    BY <1>2, <2>1
  <2>3. \/ pc' = pc /\ srv' \in {base, G} /\ UNCHANGED <<changed, read>>
        \/ pc' = "idle" /\ srv' = G /\ changed' = changed /\ Attainable(want, base)
        \/ Failing
    BY <1>2, <1>5, <2>1, <2>2 DEF SetAttached, Write, Call, Exit, NetworkError, FailJson, verdict, Failing
  <2>4. OnCourse(AttachmentAt)
    BY <1>1, <2>1, <2>3 DEF OnCourse, AttachmentAt, Writing, Failing
  <2>5. EndsWell
    BY <1>1, <1>2, <2>1, <2>3 DEF EndsWell, Fulfilled, Failing
  <2>6. QED
    BY <2>4, <2>5
<1>6. QED
  BY <1>3, <1>4, <1>5
-----------------------------------------------------------------------------
(* user and service_account                                                *)

LEMMA IdentitiesAtHand ==
  ASSUME TypeInv, want.module \in {"user", "group", "service_account"}
  PROVE  /\ want \in IdentityWants /\ dry \in BOOLEAN
         /\ srv.kind = want.module /\ base.kind = want.module
         /\ want.module = "user"  => srv \in UserStates /\ base \in UserStates
         /\ want.module = "group" => srv \in GroupStates /\ base \in GroupStates
         /\ want.module = "service_account" => srv \in AccountStates /\ base \in AccountStates
         /\ Goal(want, base) = IdentityGoal(want, base)
         /\ Attainable(want, base) <=> IdentityAttainable(want, base)
<1>1. want \in Wants /\ srv \in Servers /\ base \in Servers /\ dry \in BOOLEAN
  BY DEF TypeInv, TypeOK
<1>2. want \in IdentityWants
  BY <1>1 DEF Wants, BucketWants, AccessWants, IdentityWants
<1>3. srv.kind = want.module /\ base.kind = want.module
  BY DEF TypeInv, TypeOK, About
<1>4. QED
  BY <1>1, <1>2, <1>3, KindTells DEF Goal, Attainable

UserRecords == [kind : {"user"}, exists : BOOLEAN, secret : Secrets \cup {NoSecret}, status : Statuses]

LEMMA UsersAreRecords == \A u \in UserStates : u \in UserRecords /\ (~u.exists => u = NoUser)
<1>1. NoUser \in UserRecords
  BY DEF NoUser, UserRecords, Statuses
<1>2. ASSUME NEW u \in Keypair("user")
      PROVE  u \in UserRecords /\ u.exists
  BY DEF Keypair, UserRecords
<1>3. QED
  BY <1>1, <1>2 DEF UserStates

LEMMA UserGoalIs ==
  ASSUME TypeInv, want.module = "user"
  PROVE  /\ want.state \in {"present", "absent"}
         /\ Rotates(want, base) <=> want.state = "present" /\ want.update_secret /\ base.exists
         /\ want.state = "absent" => /\ Attainable(want, base) /\ Goal(want, base) = NoUser
                                     /\ Goal(want, base) # base <=> base.exists
         /\ want.state = "present" /\ ~base.exists =>
              /\ Attainable(want, base) <=> want.secret # Unset
              /\ Goal(want, base) = AddedUser(Default(want.status, "enabled"))
              /\ Goal(want, base) # base
         /\ want.state = "present" /\ base.exists /\ want.update_secret =>
              /\ Attainable(want, base)
              /\ Goal(want, base) = AddedUser(Default(want.status, base.status))
         /\ want.state = "present" /\ base.exists /\ ~want.update_secret =>
              /\ Attainable(want, base)
              /\ Goal(want, base) = [base EXCEPT !.status = Default(want.status, base.status)]
              /\ Goal(want, base) # base <=> base.status # Default(want.status, base.status)
<1>1. /\ want \in IdentityWants /\ base \in UserStates /\ base.kind = "user"
      /\ Goal(want, base) = IdentityGoal(want, base)
      /\ Attainable(want, base) <=> IdentityAttainable(want, base)
  BY IdentitiesAtHand
<1>2. want.state \in {"present", "absent"}
  BY <1>1 DEF IdentityWants, States
<1>3. base \in UserRecords /\ (~base.exists => base = NoUser) /\ ~NoUser.exists
  BY <1>1, UsersAreRecords DEF NoUser
<1>4. want.state = "present" => Goal(want, base) = UserGoal(want, base)
  BY <1>1 DEF IdentityGoal
<1>5. want.state = "absent" => /\ Attainable(want, base) /\ Goal(want, base) = NoUser
                               /\ Goal(want, base) # base <=> base.exists
  BY <1>1, <1>3 DEF IdentityGoal, IdentityAttainable, Nobody
<1>6. ASSUME want.state = "present", ~base.exists
      PROVE  /\ Attainable(want, base) <=> want.secret # Unset
             /\ Goal(want, base) = AddedUser(Default(want.status, "enabled"))
             /\ Goal(want, base) # base
  <2>1. Attainable(want, base) <=> want.secret # Unset
    BY <1>1, <1>6 DEF IdentityAttainable
  <2>2. UserGoal(want, base) = [NoUser EXCEPT !.exists = TRUE, !.secret = want.secret,
                                              !.status = Default(want.status, "enabled")]
    BY <1>6 DEF UserGoal
  <2>3. UserGoal(want, base) = AddedUser(Default(want.status, "enabled"))
    BY <2>2 DEF NoUser, AddedUser
  <2>4. AddedUser(Default(want.status, "enabled")).exists
    BY DEF AddedUser
  <2>5. QED
    BY <1>4, <1>6, <2>1, <2>3, <2>4
<1>7. ASSUME want.state = "present", base.exists, want.update_secret
      PROVE  /\ Attainable(want, base)
             /\ Goal(want, base) = AddedUser(Default(want.status, base.status))
  <2>1. UserGoal(want, base) = [base EXCEPT !.secret = want.secret, !.status = Default(want.status, @)]
    BY <1>7 DEF UserGoal
  <2>2. base \in Keypair("user")
    BY <1>1, <1>3, <1>7 DEF UserStates
  <2>3. UserGoal(want, base) = AddedUser(Default(want.status, base.status))
    BY <2>1, <2>2 DEF Keypair, AddedUser
  <2>4. QED
    BY <1>1, <1>4, <1>7, <2>3 DEF IdentityAttainable
<1>8. ASSUME want.state = "present", base.exists, ~want.update_secret
      PROVE  /\ Attainable(want, base)
             /\ Goal(want, base) = [base EXCEPT !.status = Default(want.status, base.status)]
             /\ Goal(want, base) # base <=> base.status # Default(want.status, base.status)
  <2>1. UserGoal(want, base) = [base EXCEPT !.secret = @, !.status = Default(want.status, @)]
    BY <1>8 DEF UserGoal
  <2>2. UserGoal(want, base) = [base EXCEPT !.status = Default(want.status, base.status)]
    BY <1>3, <2>1 DEF UserRecords
  <2>3. [base EXCEPT !.status = Default(want.status, base.status)] # base
          <=> base.status # Default(want.status, base.status)
    BY <1>3 DEF UserRecords
  <2>4. QED
    BY <1>1, <1>4, <1>8, <2>2, <2>3 DEF IdentityAttainable
<1>9. Rotates(want, base) <=> want.state = "present" /\ want.update_secret /\ base.exists
  BY DEF Rotates
<1>10. QED
  BY <1>2, <1>5, <1>6, <1>7, <1>8, <1>9

LEMMA UserRuns ==
  ASSUME TypeInv, want.module = "user", UserAt,
         GetUser \/ AddUser \/ RotateSecret \/ SetUserStatus \/ RemoveUser
  PROVE  OnCourse(UserAt) /\ EndsWell
<1> DEFINE G == Goal(want, base)
<1>1. UNCHANGED <<want, dry, base>>
  BY DEF GetUser, AddUser, RotateSecret, SetUserStatus, RemoveUser, Read, Write, Call, run
<1>2. /\ want.state \in {"present", "absent"}
      /\ Rotates(want, base) <=> want.state = "present" /\ want.update_secret /\ base.exists
      /\ want.state = "absent" => Attainable(want, base) /\ G = NoUser /\ (G # base <=> base.exists)
      /\ want.state = "present" /\ ~base.exists =>
           /\ Attainable(want, base) <=> want.secret # Unset
           /\ G = AddedUser(Default(want.status, "enabled")) /\ G # base
      /\ want.state = "present" /\ base.exists /\ want.update_secret =>
           Attainable(want, base) /\ G = AddedUser(Default(want.status, base.status))
      /\ want.state = "present" /\ base.exists /\ ~want.update_secret =>
           /\ Attainable(want, base)
           /\ G = [base EXCEPT !.status = Default(want.status, base.status)]
           /\ G # base <=> base.status # Default(want.status, base.status)
  BY UserGoalIs
<1>3. /\ srv \in UserRecords /\ base \in UserRecords /\ (~base.exists => base = NoUser)
      /\ dry \in BOOLEAN /\ srv.kind = "user" /\ ~NoUser.exists
      /\ want.update_secret \in BOOLEAN
  BY IdentitiesAtHand, UsersAreRecords DEF NoUser, IdentityWants
<1>4. CASE GetUser
  <2>1. srv = base /\ ~changed /\ srv' = srv
    BY <1>4 DEF UserAt, GetUser, Read, Call, Untouched
  <2>2. read' = base =>
          (StatusDiffers' <=> want.status # Unset /\ want.status # base.status)
    BY <1>1 DEF StatusDiffers
  <2>3. \/ pc' = "getUser" /\ changed' = changed
        \/ want.state = "absent" /\ Decide(base.exists, "removeUser")
        \/ want.state = "present" /\ ~base.exists /\ want.secret # Unset /\ Decide(TRUE, "addUser")
        \/ /\ want.state = "present" /\ base.exists /\ want.update_secret /\ read' = base
           /\ Decide(TRUE, "rotateSecret")
        \/ /\ want.state = "present" /\ base.exists /\ ~want.update_secret
           /\ Decide(want.status # Unset /\ want.status # base.status, "setUserStatus")
        \/ Failing
    BY <1>2, <1>4, <2>1, <2>2 DEF GetUser, Read, Call, NetworkError, FailJson, verdict, Failing, Decide
  <2>4. CASE pc' = "getUser" /\ changed' = changed
    BY <1>1, <2>1, <2>4 DEF OnCourse, EndsWell, UserAt, Untouched
  <2>5. CASE want.state = "absent" /\ Decide(base.exists, "removeUser")
    <3>1. OnCourse(UserAt)
      BY <1>1, <2>1, <2>5 DEF OnCourse, UserAt, Writing, Decide, Goto, Exit
    <3>2. EndsWell
      BY <1>1, <1>2, <2>1, <2>5 DEF EndsWell, Fulfilled, Decide, Goto, Exit
    <3>3. QED
      BY <3>1, <3>2
  <2>6. CASE want.state = "present" /\ ~base.exists /\ want.secret # Unset /\ Decide(TRUE, "addUser")
    <3>1. OnCourse(UserAt)
      BY <1>1, <2>1, <2>6 DEF OnCourse, UserAt, Writing, Decide, Goto, Exit
    <3>2. EndsWell
      BY <1>1, <1>2, <2>1, <2>6 DEF EndsWell, Fulfilled, Decide, Goto, Exit
    <3>3. QED
      BY <3>1, <3>2
  <2>7. CASE /\ want.state = "present" /\ base.exists /\ want.update_secret /\ read' = base
             /\ Decide(TRUE, "rotateSecret")
    <3>1. OnCourse(UserAt)
      BY <1>1, <2>1, <2>7 DEF OnCourse, UserAt, Writing, Decide, Goto, Exit
    <3>2. EndsWell
      BY <1>1, <1>2, <2>1, <2>7 DEF EndsWell, Fulfilled, Decide, Goto, Exit
    <3>3. QED
      BY <3>1, <3>2
  <2>8. CASE /\ want.state = "present" /\ base.exists /\ ~want.update_secret
             /\ Decide(want.status # Unset /\ want.status # base.status, "setUserStatus")
    <3>1. want.status # Unset /\ want.status # base.status <=> base.status # Default(want.status, base.status)
      BY DEF Default
    <3>2. want.status # Unset => [base EXCEPT !.status = want.status] = G
      BY <1>2, <2>8 DEF Default
    <3>3. [base EXCEPT !.status = base.status] = base
      BY <1>3 DEF UserRecords
    <3>4. OnCourse(UserAt)
      BY <1>1, <2>1, <2>8, <3>2 DEF OnCourse, UserAt, StatusLast, Decide, Goto, Exit
    <3>5. EndsWell
      BY <1>1, <1>2, <2>1, <2>8, <3>1, <3>3 DEF EndsWell, Fulfilled, Decide, Goto, Exit, Default
    <3>6. QED
      BY <3>4, <3>5
  <2>9. QED
    BY <2>3, <2>4, <2>5, <2>6, <2>7, <2>8 DEF Failing, OnCourse, EndsWell
<1>5. CASE AddUser
  <2>1. /\ want.state = "present" /\ want.secret # Unset /\ ~base.exists
        /\ ~dry /\ changed /\ srv \in {base, G}
    BY <1>5 DEF UserAt, AddUser, Write, Call, Writing
  <2>2. \/ pc' = "addUser" /\ srv' \in {base, G} /\ changed' = changed
        \/ pc' = "idle" /\ srv' = G /\ changed' = changed
        \/ Failing
    BY <1>2, <1>5, <2>1 DEF AddUser, Write, Call, Exit, NetworkError, FailJson, verdict, Failing
  <2>3. OnCourse(UserAt)
    BY <1>1, <2>1, <2>2 DEF OnCourse, UserAt, Writing, Failing
  <2>4. EndsWell
    BY <1>1, <1>2, <2>1, <2>2 DEF EndsWell, Fulfilled, Failing
  <2>5. QED
    BY <2>3, <2>4
<1>6. CASE RotateSecret
  <2>1. /\ want.state = "present" /\ want.update_secret /\ base.exists /\ read = base
        /\ ~dry /\ changed /\ srv \in {base, G} /\ G = AddedUser(Default(want.status, read.status))
    BY <1>2, <1>6 DEF UserAt, RotateSecret, Write, Call, Writing
  <2>2. \/ pc' = "rotateSecret" /\ srv' \in {base, G} /\ UNCHANGED <<changed, read>>
        \/ pc' = "idle" /\ srv' = G /\ changed' = changed
        \/ pc' = "setUserStatus" /\ srv' = G /\ changed' = changed /\ StatusDiffers
        \/ Failing
    BY <1>6, <2>1 DEF RotateSecret, Write, Call, Goto, Exit, NetworkError, FailJson, verdict, Failing
  <2>3. StatusDiffers => want.status # Unset /\ want.status # base.status
    BY <2>1 DEF StatusDiffers
  <2>4. G.exists /\ (want.status # Unset => [G EXCEPT !.status = want.status] = G)
    <3>1. \A t : AddedUser(t).exists /\ [AddedUser(t) EXCEPT !.status = t] = AddedUser(t)
      <4>1. TAKE t
      <4>2. AddedUser(t).status = t /\ AddedUser(t).exists
        BY DEF AddedUser
      <4>3. AddedUser(t) \in [kind : {"user"}, exists : {TRUE}, secret : {want.secret}, status : {t}]
        BY DEF AddedUser
      <4>4. QED
        BY <4>2, <4>3
    <3>2. want.status # Unset => Default(want.status, read.status) = want.status
      BY DEF Default
    <3>3. QED
      BY <2>1, <3>1, <3>2
  <2>5. OnCourse(UserAt)
    BY <1>1, <2>1, <2>2, <2>3, <2>4 DEF OnCourse, UserAt, Writing, StatusLast, Failing
  <2>6. EndsWell
    BY <1>1, <1>2, <2>1, <2>2 DEF EndsWell, Fulfilled, Failing
  <2>7. QED
    BY <2>5, <2>6
<1>7. CASE SetUserStatus
  <2>1. StatusLast /\ base.exists /\ want.status # base.status
    BY <1>7 DEF UserAt, SetUserStatus, Write, Call
  <2>2. [G EXCEPT !.status = want.status] = G /\ G.exists
    BY <1>3, <2>1 DEF StatusLast, UserRecords
  <2>3. \/ pc' = "setUserStatus" /\ srv' \in {srv, G} /\ changed' = changed
        \/ pc' = "idle" /\ srv' = G /\ changed' = changed
        \/ Failing
    BY <1>7, <2>1 DEF SetUserStatus, StatusLast, Write, Call, Exit, NetworkError, FailJson, verdict, Failing, IfExists
  <2>4. OnCourse(UserAt)
    BY <1>1, <2>1, <2>2, <2>3 DEF OnCourse, UserAt, StatusLast, Failing
  <2>5. Attainable(want, base) /\ (G # base \/ Rotates(want, base))
    BY <1>2, <2>1 DEF StatusLast, Default
  <2>6. EndsWell
    BY <1>1, <2>1, <2>3, <2>5 DEF EndsWell, Fulfilled, StatusLast, Failing
  <2>7. QED
    BY <2>4, <2>6
<1>8. CASE RemoveUser
  <2>1. want.state = "absent" /\ base.exists /\ changed /\ ~dry /\ srv \in {base, NoUser}
    BY <1>8 DEF UserAt, RemoveUser, Write, Call, Writing
  <2>2. \/ pc' = "removeUser" /\ srv' \in {base, NoUser} /\ changed' = changed
        \/ pc' = "idle" /\ srv' = NoUser /\ changed' = changed
        \/ Failing
    BY <1>3, <1>8, <2>1 DEF RemoveUser, Nobody, Write, Call, Exit, NetworkError, FailJson, verdict, Failing, IfExists
  <2>3. OnCourse(UserAt)
    BY <1>1, <2>1, <2>2 DEF OnCourse, UserAt, Writing, Failing
  <2>4. EndsWell
    BY <1>1, <1>2, <2>1, <2>2 DEF EndsWell, Fulfilled, Failing
  <2>5. QED
    BY <2>3, <2>4
<1>9. QED
  BY <1>4, <1>5, <1>6, <1>7, <1>8

LEMMA AccountGoalIs ==
  ASSUME TypeInv, want.module = "service_account"
  PROVE  /\ want.state \in {"present", "absent"} /\ ~Rotates(want, base)
         /\ want.state = "absent" => /\ Attainable(want, base) /\ Goal(want, base) = NoAccount
                                     /\ Goal(want, base) # base <=> base.exists
         /\ want.state = "present" /\ ~base.exists =>
              /\ Attainable(want, base) <=> want.secret # Unset
              /\ Goal(want, base) = [NoAccount EXCEPT !.exists = TRUE, !.secret = want.secret]
              /\ Goal(want, base) # base
         /\ want.state = "present" /\ base.exists => Attainable(want, base) /\ Goal(want, base) = base
<1>1. /\ want \in IdentityWants /\ base \in AccountStates /\ base.kind = "service_account"
      /\ Goal(want, base) = IdentityGoal(want, base)
      /\ Attainable(want, base) <=> IdentityAttainable(want, base)
  BY IdentitiesAtHand
<1>2. want.state \in {"present", "absent"} /\ ~Rotates(want, base)
  BY <1>1 DEF IdentityWants, States, Rotates
<1>3. (~base.exists => base = NoAccount) /\ ~NoAccount.exists
  BY <1>1 DEF AccountStates, Keypair, NoAccount, NoUser
<1>4. want.state = "absent" => /\ Attainable(want, base) /\ Goal(want, base) = NoAccount
                               /\ Goal(want, base) # base <=> base.exists
  BY <1>1, <1>3 DEF IdentityGoal, IdentityAttainable, Nobody
<1>5. want.state = "present" => Goal(want, base) = AccountGoal(want, base)
  BY <1>1 DEF IdentityGoal
<1>6. [NoAccount EXCEPT !.exists = TRUE, !.secret = want.secret].exists
  BY DEF NoAccount, NoUser
<1>7. QED
  BY <1>1, <1>2, <1>3, <1>4, <1>5, <1>6 DEF AccountGoal, IdentityAttainable

LEMMA AccountRuns ==
  ASSUME TypeInv, want.module = "service_account", AccountAt,
         GetAccount \/ CreateAccount \/ ReadBack \/ DeleteAccount
  PROVE  OnCourse(AccountAt) /\ EndsWell
<1> DEFINE G == Goal(want, base)
<1>1. UNCHANGED <<want, dry, base>>
  BY DEF GetAccount, CreateAccount, ReadBack, DeleteAccount, Read, Write, Call, run
<1>2. /\ want.state \in {"present", "absent"} /\ ~Rotates(want, base)
      /\ want.state = "absent" => Attainable(want, base) /\ G = NoAccount /\ (G # base <=> base.exists)
      /\ want.state = "present" /\ ~base.exists =>
           /\ Attainable(want, base) <=> want.secret # Unset
           /\ G = [NoAccount EXCEPT !.exists = TRUE, !.secret = want.secret] /\ G # base
      /\ want.state = "present" /\ base.exists => Attainable(want, base) /\ G = base
  BY AccountGoalIs
<1>3. /\ (~base.exists => base = NoAccount) /\ ~NoAccount.exists
      /\ dry \in BOOLEAN /\ srv.kind = "service_account"
  BY IdentitiesAtHand DEF AccountStates, Keypair, NoAccount, NoUser
<1>4. CASE GetAccount
  <2>1. srv = base /\ ~changed /\ srv' = srv
    BY <1>4 DEF AccountAt, GetAccount, Read, Call, Untouched
  <2>2. \/ pc' = "getAccount" /\ ~changed'
        \/ pc' = "deleteAccount" /\ want.state = "absent" /\ base.exists /\ changed' /\ ~dry
        \/ pc' = "idle" /\ want.state = "absent" /\ (changed' <=> base.exists) /\ (base.exists => dry)
        \/ pc' = "idle" /\ want.state = "present" /\ base.exists /\ ~changed'
        \/ /\ pc' = "createAccount" /\ want.state = "present" /\ ~base.exists /\ want.secret # Unset
           /\ changed' /\ ~dry
        \/ pc' = "idle" /\ want.state = "present" /\ ~base.exists /\ changed' /\ dry
        \/ Failing
    BY <1>2, <1>4, <2>1 DEF GetAccount, Read, Call, Decide, Goto, Exit, NetworkError, FailJson, verdict, Failing
  <2>3. OnCourse(AccountAt)
    BY <1>1, <2>1, <2>2 DEF OnCourse, AccountAt, Untouched, Writing, Failing
  <2>4. EndsWell
    BY <1>1, <1>2, <2>1, <2>2 DEF EndsWell, Fulfilled, Failing
  <2>5. QED
    BY <2>3, <2>4
<1>5. CASE CreateAccount
  <2>1. /\ want.state = "present" /\ want.secret # Unset /\ ~base.exists
        /\ ~dry /\ changed /\ srv \in {base, G}
    BY <1>5 DEF AccountAt, CreateAccount, Write, Call, Writing
  <2>2. \/ pc' = "createAccount" /\ srv' \in {base, G} /\ changed' = changed
        \/ pc' = "readBack" /\ srv' = G /\ changed' = changed
        \/ Failing
    BY <1>2, <1>5, <2>1 DEF CreateAccount, Write, Call, Goto, NetworkError, FailJson, verdict, Failing
  <2>3. QED
    BY <1>1, <2>1, <2>2 DEF OnCourse, EndsWell, AccountAt, Writing, Failing
<1>6. CASE ReadBack
  <2>1. /\ want.state = "present" /\ want.secret # Unset /\ ~base.exists
        /\ ~dry /\ changed /\ srv = G
    BY <1>6 DEF AccountAt, ReadBack, Read, Call, Writing
  <2>2. srv' = G /\ changed' = changed /\ (pc' \in {"readBack", "idle"} \/ Failing)
    BY <1>6, <2>1 DEF ReadBack, Read, Call, Exit, NetworkError, FailJson, verdict
  <2>3. OnCourse(AccountAt)
    BY <1>1, <2>1, <2>2 DEF OnCourse, AccountAt, Writing, Failing
  <2>4. EndsWell
    BY <1>1, <1>2, <2>1, <2>2 DEF EndsWell, Fulfilled, Failing
  <2>5. QED
    BY <2>3, <2>4
<1>7. CASE DeleteAccount
  <2>1. want.state = "absent" /\ base.exists /\ changed /\ ~dry /\ srv \in {base, NoAccount}
    BY <1>7 DEF AccountAt, DeleteAccount, Write, Call, Writing
  <2>2. \/ pc' = "deleteAccount" /\ srv' \in {base, NoAccount} /\ changed' = changed
        \/ pc' = "idle" /\ srv' = NoAccount /\ changed' = changed
        \/ Failing
    BY <1>3, <1>7, <2>1 DEF DeleteAccount, Nobody, Write, Call, Exit, NetworkError, FailJson, verdict, Failing,
       IfExists
  <2>3. OnCourse(AccountAt)
    BY <1>1, <2>1, <2>2 DEF OnCourse, AccountAt, Writing, Failing
  <2>4. EndsWell
    BY <1>1, <1>2, <2>1, <2>2 DEF EndsWell, Fulfilled, Failing
  <2>5. QED
    BY <2>3, <2>4
<1>8. QED
  BY <1>4, <1>5, <1>6, <1>7
-----------------------------------------------------------------------------
(* group                                                                   *)

GroupRecords == [kind : {"group"}, exists : BOOLEAN, members : SUBSET Users, status : Statuses]

LEMMA GroupsAreRecords == \A g \in GroupStates : g \in GroupRecords /\ (~g.exists => g = NoGroup)
<1>1. NoGroup \in GroupRecords
  BY DEF NoGroup, GroupRecords, Statuses
<1>2. ASSUME NEW g \in Groups
      PROVE  g \in GroupRecords /\ g.exists
  BY DEF Groups, GroupRecords
<1>3. QED
  BY <1>1, <1>2 DEF GroupStates

\* What comes after the stages of a group is decided by the status alone.
StatusToChange == want.status # Unset /\ want.status # base.status

LEMMA Stages ==
  ASSUME base \in GroupRecords, ~base.exists => base.members = {}
  PROVE  /\ Grown.exists /\ Shrunk.exists
         /\ Removed = {} => Shrunk = Grown
         /\ ~base.exists => Removed = {}
         /\ base.exists /\ Added = {} => Grown = base
         /\ \A g \in {base, Grown} : [g EXCEPT !.exists = TRUE, !.members = @ \cup Added] = Grown
         /\ base.exists => \A g \in {base, Grown} : [g EXCEPT !.members = @ \cup Added] = Grown
         /\ \A g \in {Grown, Shrunk} : [g EXCEPT !.members = @ \ Removed] = Shrunk
         /\ Shrunk.status = base.status /\ Shrunk.members = (base.members \cup Added) \ Removed
<1>1. Grown.exists /\ Shrunk.exists /\ Shrunk.status = base.status
  BY DEF Grown, Shrunk, GroupRecords
<1>2. Shrunk.members = (base.members \cup Added) \ Removed
  BY DEF Grown, Shrunk, GroupRecords
<1>3. Removed = {} => Shrunk = Grown
  BY DEF Grown, Shrunk, GroupRecords
<1>4. ~base.exists => Removed = {}
  BY DEF Removed
<1>5. base.exists /\ Added = {} => Grown = base
  BY DEF Grown, GroupRecords
<1>6. \A g \in {base, Grown} : [g EXCEPT !.exists = TRUE, !.members = @ \cup Added] = Grown
  BY DEF Grown, GroupRecords
<1>7. base.exists => \A g \in {base, Grown} : [g EXCEPT !.members = @ \cup Added] = Grown
  BY DEF Grown, GroupRecords
<1>8. \A g \in {Grown, Shrunk} : [g EXCEPT !.members = @ \ Removed] = Shrunk
  BY DEF Grown, Shrunk, GroupRecords
<1>9. QED
  BY <1>1, <1>2, <1>3, <1>4, <1>5, <1>6, <1>7, <1>8

LEMMA GroupGoalIs ==
  ASSUME TypeInv, want.module = "group"
  PROVE  /\ want.state \in {"present", "absent"} /\ ~Rotates(want, base) /\ Attainable(want, base)
         /\ want.state = "absent" => /\ Goal(want, base) = NoGroup
                                     /\ Goal(want, base) # base <=> base.exists
         /\ want.state = "present" =>
              /\ Goal(want, base) = [Shrunk EXCEPT !.status = Default(want.status, base.status)]
              /\ want.status # Unset => [Shrunk EXCEPT !.status = want.status] = Goal(want, base)
              /\ ~StatusToChange => Shrunk = Goal(want, base)
              /\ Goal(want, base) # base <=>
                   ~base.exists \/ Added # {} \/ Removed # {} \/ StatusToChange
<1>1. /\ want \in IdentityWants /\ base \in GroupStates /\ base.kind = "group"
      /\ Goal(want, base) = IdentityGoal(want, base)
      /\ Attainable(want, base) <=> IdentityAttainable(want, base)
  BY IdentitiesAtHand
<1>2. want.state \in {"present", "absent"} /\ ~Rotates(want, base) /\ Attainable(want, base)
  BY <1>1 DEF IdentityWants, States, Rotates, IdentityAttainable
<1>3. base \in GroupRecords /\ (~base.exists => base = NoGroup) /\ ~NoGroup.exists /\ NoGroup.members = {}
  BY <1>1, GroupsAreRecords DEF NoGroup
<1>4. want.state = "absent" => Goal(want, base) = NoGroup /\ (Goal(want, base) # base <=> base.exists)
  BY <1>1, <1>3 DEF IdentityGoal, Nobody
<1>5. ASSUME want.state = "present"
      PROVE  /\ Goal(want, base) = [Shrunk EXCEPT !.status = Default(want.status, base.status)]
             /\ want.status # Unset => [Shrunk EXCEPT !.status = want.status] = Goal(want, base)
             /\ ~StatusToChange => Shrunk = Goal(want, base)
             /\ Goal(want, base) # base <=>
                  ~base.exists \/ Added # {} \/ Removed # {} \/ StatusToChange
  <2> DEFINE listed  == Default(want.members, {})
             members == IF want.append \/ want.members = Unset THEN base.members \cup listed ELSE listed
             status  == Default(want.status, base.status)
  <2>1. Goal(want, base) = GroupGoal(want, base)
    BY <1>1, <1>5 DEF IdentityGoal
  <2>2. GroupGoal(want, base) = [base EXCEPT !.exists = TRUE, !.status = status, !.members = members]
    BY DEF GroupGoal
  <2>3. members = (base.members \cup Added) \ Removed
    BY DEF Added, Removed, Default
  <2> HIDE DEF members, status
  <2>4. [base EXCEPT !.exists = TRUE, !.status = status, !.members = members]
          = [Shrunk EXCEPT !.status = status]
    BY <1>3, <2>3 DEF Shrunk, Grown, GroupRecords
  <2>5. Goal(want, base) = [Shrunk EXCEPT !.status = status]
    BY <2>1, <2>2, <2>4
  <2>6. want.status # Unset => status = want.status
    BY DEF status, Default
  <2>7. StatusToChange <=> status # base.status
    BY DEF status, Default, StatusToChange
  <2>8. [Shrunk EXCEPT !.status = base.status] = Shrunk
    BY <1>3 DEF Shrunk, Grown, GroupRecords
  <2>9. Goal(want, base) # base <=> ~base.exists \/ Added # {} \/ Removed # {} \/ StatusToChange
    <3> DEFINE G == [Shrunk EXCEPT !.status = status]
    <3>1. G.exists /\ G.status = status /\ G.members = (base.members \cup Added) \ Removed
      BY <1>3 DEF Shrunk, Grown, GroupRecords
    <3>2. Added # {} \/ Removed # {} => G.members # base.members
      BY <3>1 DEF Added, Removed
    <3>3. base.exists /\ Added = {} /\ Removed = {} /\ ~StatusToChange => G = base
      BY <1>3, <2>7, <2>8, Stages
    <3> HIDE DEF G
    <3>4. ~base.exists \/ Added # {} \/ Removed # {} \/ StatusToChange => G # base
      BY <2>7, <3>1, <3>2
    <3>5. QED
      BY <2>5, <3>3, <3>4 DEF G
  <2>10. QED
    BY <2>5, <2>6, <2>7, <2>8, <2>9 DEF status
<1>6. QED
  BY <1>2, <1>4, <1>5

\* The stage that follows, seen from the parameters and the group as it was.
NextStage(from) ==
  IF from = "read" /\ Added # {} THEN "addMembers"
  ELSE IF from # "members" /\ Removed # {} THEN "removeMembers"
  ELSE IF StatusToChange THEN "setGroupStatus" ELSE "exit"

LEMMA GroupRuns ==
  ASSUME TypeInv, want.module = "group", GroupAt,
         GetGroup \/ CreateGroup \/ AddMembers \/ RemoveMembers \/ SetGroupStatus \/ DeleteGroup
  PROVE  OnCourse(GroupAt) /\ EndsWell
<1> DEFINE G == Goal(want, base)
<1>1. UNCHANGED <<want, dry, base>>
  BY DEF GetGroup, CreateGroup, AddMembers, RemoveMembers, SetGroupStatus, DeleteGroup, Read, Write, Call, run
<1>2. /\ want.state \in {"present", "absent"} /\ ~Rotates(want, base) /\ Attainable(want, base)
      /\ want.state = "absent" => G = NoGroup /\ (G # base <=> base.exists)
      /\ want.state = "present" =>
           /\ want.status # Unset => [Shrunk EXCEPT !.status = want.status] = G
           /\ ~StatusToChange => Shrunk = G
           /\ G # base <=> ~base.exists \/ Added # {} \/ Removed # {} \/ StatusToChange
  BY GroupGoalIs
<1>3. /\ srv \in GroupRecords /\ base \in GroupRecords /\ (~base.exists => base = NoGroup)
      /\ dry \in BOOLEAN /\ srv.kind = "group" /\ ~NoGroup.exists /\ NoGroup.members = {}
  BY IdentitiesAtHand, GroupsAreRecords DEF NoGroup
<1>4. /\ Grown.exists /\ Shrunk.exists
      /\ Removed = {} => Shrunk = Grown
      /\ ~base.exists => Removed = {}
      /\ base.exists /\ Added = {} => Grown = base
      /\ \A g \in {base, Grown} : [g EXCEPT !.exists = TRUE, !.members = @ \cup Added] = Grown
      /\ base.exists => \A g \in {base, Grown} : [g EXCEPT !.members = @ \cup Added] = Grown
      /\ \A g \in {Grown, Shrunk} : [g EXCEPT !.members = @ \ Removed] = Shrunk
  BY <1>3, Stages
<1>5. read = base => /\ ToAdd = Added /\ ToRemove = Removed
                     /\ AfterAdd = NextStage("add") /\ AfterMembers = NextStage("members")
  BY DEF ToAdd, ToRemove, Added, Removed, AfterAdd, AfterMembers, NextStage, StatusDiffers, StatusToChange
\* With the members in place, the status is next or the run is over.
<1>6. ASSUME want.state = "present", ~dry, changed, changed' = changed, srv' = Shrunk, G # base,
             \/ pc' = "setGroupStatus" /\ StatusToChange
             \/ pc' = "idle" /\ ~StatusToChange
      PROVE  OnCourse(GroupAt) /\ EndsWell
  <2>1. StatusToChange => want.status # Unset
    BY DEF StatusToChange
  <2>2. OnCourse(GroupAt)
    BY <1>1, <1>2, <1>4, <1>6, <2>1 DEF OnCourse, GroupAt, StatusLast
  <2>3. EndsWell
    BY <1>1, <1>2, <1>6 DEF EndsWell, Fulfilled
  <2>4. QED
    BY <2>2, <2>3
<1>7. CASE GetGroup
  <2>1. srv = base /\ ~changed /\ srv' = srv
    BY <1>7 DEF GroupAt, GetGroup, Read, Call, Untouched
  <2>2. read' = base => AfterRead' = NextStage("read")
    <3>1. ASSUME read' = base
          PROVE  /\ ToAdd' = Added /\ ToRemove' = Removed /\ (StatusDiffers' <=> StatusToChange)
      BY <1>1, <3>1 DEF ToAdd, ToRemove, Added, Removed, StatusDiffers, StatusToChange
    <3>2. QED
      BY <3>1 DEF AfterRead, AfterAdd, AfterMembers, NextStage
  <2>3. \/ pc' = "getGroup" /\ changed' = changed
        \/ want.state = "absent" /\ Decide(base.exists, "deleteGroup")
        \/ want.state = "present" /\ ~base.exists /\ read' = base /\ Decide(TRUE, "createGroup")
        \/ /\ want.state = "present" /\ base.exists /\ read' = base
           /\ Decide(NextStage("read") # "exit", NextStage("read"))
        \/ Failing
    BY <1>2, <1>7, <2>1, <2>2 DEF GetGroup, Read, Call, NetworkError, FailJson, verdict, Failing, Decide
  <2>4. CASE pc' = "getGroup" /\ changed' = changed
    BY <1>1, <2>1, <2>4 DEF OnCourse, EndsWell, GroupAt, Untouched
  <2>5. CASE want.state = "absent" /\ Decide(base.exists, "deleteGroup")
    <3>1. OnCourse(GroupAt)
      BY <1>1, <2>1, <2>5 DEF OnCourse, GroupAt, Writing, Decide, Goto, Exit
    <3>2. EndsWell
      BY <1>1, <1>2, <2>1, <2>5 DEF EndsWell, Fulfilled, Decide, Goto, Exit
    <3>3. QED
      BY <3>1, <3>2
  <2>6. CASE want.state = "present" /\ ~base.exists /\ read' = base /\ Decide(TRUE, "createGroup")
    <3>1. OnCourse(GroupAt)
      BY <1>1, <2>1, <2>6 DEF OnCourse, GroupAt, Writing, Decide, Goto, Exit
    <3>2. EndsWell
      BY <1>1, <1>2, <2>1, <2>6 DEF EndsWell, Fulfilled, Decide, Goto, Exit
    <3>3. QED
      BY <3>1, <3>2
  <2>7. CASE /\ want.state = "present" /\ base.exists /\ read' = base
             /\ Decide(NextStage("read") # "exit", NextStage("read"))
    <3>1. NextStage("read") # "exit" <=> G # base
      BY <1>2, <2>7 DEF NextStage
    <3>2. (changed' <=> G # base) /\ (pc' = "idle" => G = base \/ dry)
      BY <2>1, <2>7, <3>1 DEF Decide, Goto, Exit, NextStage
    <3>3. EndsWell
      BY <1>1, <1>2, <2>1, <3>2 DEF EndsWell, Fulfilled
    <3>4. pc' # "idle" => pc' = NextStage("read") /\ ~dry /\ changed' /\ G # base
      BY <2>7, <3>1, <3>2 DEF Decide, Goto, Exit
    <3>5. CASE pc' = "addMembers"
      <4>1. Added # {}
        BY <3>4, <3>5 DEF NextStage
      <4>2. QED
        BY <1>1, <2>1, <2>7, <3>3, <3>4, <3>5, <4>1 DEF OnCourse, GroupAt, Writing, Grown, Added
    <3>6. CASE pc' = "removeMembers"
      <4>1. Added = {} /\ Removed # {}
        BY <3>4, <3>6 DEF NextStage
      <4>2. srv' = Grown
        BY <1>4, <2>1, <2>7, <4>1
      <4>3. UNCHANGED <<Removed, Grown, Shrunk>>
        BY <1>1 DEF Removed, Grown, Shrunk, Added
      <4>4. QED
        BY <1>1, <2>1, <2>7, <3>3, <3>4, <3>6, <4>1, <4>2, <4>3 DEF OnCourse, GroupAt, Writing
    <3>7. CASE pc' = "setGroupStatus"
      <4>1. Added = {} /\ Removed = {} /\ StatusToChange
        BY <3>4, <3>7 DEF NextStage
      <4>2. srv' = Shrunk
        BY <1>4, <2>1, <2>7, <4>1
      <4>3. OnCourse(GroupAt)
        BY <1>1, <1>2, <1>4, <2>7, <3>4, <3>7, <4>1, <4>2 DEF OnCourse, GroupAt, StatusLast, StatusToChange
      <4>4. QED
        BY <3>3, <4>3
    <3>8. pc' \in {"idle", "addMembers", "removeMembers", "setGroupStatus"}
      BY <3>1, <3>4 DEF NextStage
    <3>9. QED
      BY <3>3, <3>5, <3>6, <3>7, <3>8 DEF OnCourse
  <2>8. QED
    BY <2>3, <2>4, <2>5, <2>6, <2>7 DEF Failing, OnCourse, EndsWell
<1>8. CASE CreateGroup
  <2>1. /\ want.state = "present" /\ ~base.exists /\ read = base
        /\ ~dry /\ changed /\ srv \in {base, Grown}
    BY <1>8 DEF GroupAt, CreateGroup, Write, Call, Writing
  <2>2. [srv EXCEPT !.exists = TRUE, !.members = @ \cup ToAdd] = Grown /\ Grown = Shrunk /\ G # base
    BY <1>2, <1>4, <1>5, <2>1
  <2>3. \/ pc' = "createGroup" /\ srv' \in {base, Grown} /\ UNCHANGED <<changed, read>>
        \/ srv' = Shrunk /\ changed' = changed /\ pc' = "setGroupStatus" /\ StatusToChange
        \/ srv' = Shrunk /\ changed' = changed /\ pc' = "idle" /\ ~StatusToChange
        \/ Failing
    BY <1>5, <1>8, <2>1, <2>2 DEF CreateGroup, Write, Call, Goto, Exit, NetworkError, FailJson, verdict, Failing,
       NextStage
  <2>4. CASE pc' = "createGroup" /\ srv' \in {base, Grown} /\ UNCHANGED <<changed, read>>
    <3>1. UNCHANGED Grown
      BY <1>1 DEF Grown, Added
    <3>2. QED
      BY <1>1, <2>1, <2>4, <3>1 DEF OnCourse, EndsWell, GroupAt, Writing
  <2>5. QED
    BY <1>6, <2>1, <2>2, <2>3, <2>4 DEF Failing, OnCourse, EndsWell
<1>9. CASE AddMembers
  <2>1. /\ want.state = "present" /\ base.exists /\ read = base /\ Added # {}
        /\ ~dry /\ changed /\ srv \in {base, Grown}
    BY <1>9 DEF GroupAt, AddMembers, Write, Call, Writing
  <2>2. [srv EXCEPT !.members = @ \cup ToAdd] = Grown /\ srv.exists /\ G # base
    BY <1>2, <1>4, <1>5, <2>1
  <2>3. \/ pc' = "addMembers" /\ srv' \in {base, Grown} /\ UNCHANGED <<changed, read>>
        \/ srv' = Grown /\ UNCHANGED <<changed, read>> /\ pc' = "removeMembers" /\ Removed # {}
        \/ srv' = Grown /\ Removed = {} /\ changed' = changed /\ pc' = "setGroupStatus" /\ StatusToChange
        \/ srv' = Grown /\ Removed = {} /\ changed' = changed /\ pc' = "idle" /\ ~StatusToChange
        \/ Failing
    BY <1>5, <1>9, <2>1, <2>2 DEF AddMembers, Write, Call, Goto, Exit, NetworkError, FailJson, verdict, Failing,
       NextStage, IfExists
  <2>4. UNCHANGED <<Added, Removed, Grown, Shrunk>>
    BY <1>1 DEF Added, Removed, Grown, Shrunk
  <2>5. CASE pc' = "addMembers" /\ srv' \in {base, Grown} /\ UNCHANGED <<changed, read>>
    BY <1>1, <2>1, <2>4, <2>5 DEF OnCourse, EndsWell, GroupAt, Writing
  <2>6. CASE srv' = Grown /\ UNCHANGED <<changed, read>> /\ pc' = "removeMembers" /\ Removed # {}
    BY <1>1, <2>1, <2>4, <2>6 DEF OnCourse, EndsWell, GroupAt, Writing
  <2>7. QED
    BY <1>4, <1>6, <2>1, <2>2, <2>3, <2>5, <2>6 DEF Failing, OnCourse, EndsWell
<1>10. CASE RemoveMembers
  <2>1. /\ want.state = "present" /\ base.exists /\ read = base /\ Removed # {}
        /\ ~dry /\ changed /\ srv \in {Grown, Shrunk}
    BY <1>10 DEF GroupAt, RemoveMembers, Write, Call, Writing
  <2>2. [srv EXCEPT !.members = @ \ ToRemove] = Shrunk /\ srv.exists /\ G # base
    BY <1>2, <1>4, <1>5, <2>1
  <2>3. \/ pc' = "removeMembers" /\ srv' \in {Grown, Shrunk} /\ UNCHANGED <<changed, read>>
        \/ srv' = Shrunk /\ changed' = changed /\ pc' = "setGroupStatus" /\ StatusToChange
        \/ srv' = Shrunk /\ changed' = changed /\ pc' = "idle" /\ ~StatusToChange
        \/ Failing
    BY <1>5, <1>10, <2>1, <2>2 DEF RemoveMembers, Write, Call, Goto, Exit, NetworkError, FailJson, verdict, Failing,
       NextStage, IfExists
  <2>4. CASE pc' = "removeMembers" /\ srv' \in {Grown, Shrunk} /\ UNCHANGED <<changed, read>>
    <3>1. UNCHANGED <<Removed, Grown, Shrunk>>
      BY <1>1 DEF Added, Removed, Grown, Shrunk
    <3>2. QED
      BY <1>1, <2>1, <2>4, <3>1 DEF OnCourse, EndsWell, GroupAt, Writing
  <2>5. QED
    BY <1>6, <2>1, <2>2, <2>3, <2>4 DEF Failing, OnCourse, EndsWell
<1>11. CASE SetGroupStatus
  <2>1. StatusLast /\ G # base
    BY <1>11 DEF GroupAt, SetGroupStatus, Write, Call
  <2>2. [G EXCEPT !.status = want.status] = G /\ G.exists
    BY <1>3, <2>1 DEF StatusLast, GroupRecords
  <2>3. \/ pc' = "setGroupStatus" /\ srv' \in {srv, G} /\ changed' = changed
        \/ pc' = "idle" /\ srv' = G /\ changed' = changed
        \/ Failing
    BY <1>11, <2>1 DEF SetGroupStatus, StatusLast, Write, Call, Exit, NetworkError, FailJson, verdict, Failing,
       IfExists
  <2>4. OnCourse(GroupAt)
    BY <1>1, <2>1, <2>2, <2>3 DEF OnCourse, GroupAt, StatusLast, Failing
  <2>5. EndsWell
    BY <1>1, <1>2, <2>1, <2>3 DEF EndsWell, Fulfilled, StatusLast, Failing
  <2>6. QED
    BY <2>4, <2>5
<1>12. CASE DeleteGroup
  <2>1. want.state = "absent" /\ base.exists /\ changed /\ ~dry /\ srv \in {base, NoGroup}
    BY <1>12 DEF GroupAt, DeleteGroup, Write, Call, Writing
  <2>2. \/ pc' = "deleteGroup" /\ srv' \in {base, NoGroup} /\ changed' = changed
        \/ pc' = "idle" /\ srv' = NoGroup /\ changed' = changed
        \/ Failing
    BY <1>3, <1>12, <2>1 DEF DeleteGroup, Nobody, Write, Call, Exit, NetworkError, FailJson, verdict, Failing,
       IfExists
  <2>3. OnCourse(GroupAt)
    BY <1>1, <2>1, <2>2 DEF OnCourse, GroupAt, Writing, Failing
  <2>4. EndsWell
    BY <1>1, <1>2, <2>1, <2>2 DEF EndsWell, Fulfilled, Failing
  <2>5. QED
    BY <2>3, <2>4
<1>13. QED
  BY <1>7, <1>8, <1>9, <1>10, <1>11, <1>12
-----------------------------------------------------------------------------
(* All of them, and the theorems.                                          *)

\* The invariant. Between runs nothing is known of the last one; in a run nobody
\* has disturbed, how far it has come is known from where it stands.
Standing ==
  /\ want.module = "bucket"            => BucketAt
  /\ want.module = "bucket_lifecycle"  => LifecycleAt
  /\ want.module = "bucket_quota"      => QuotaAt
  /\ want.module = "policy"            => PolicyAt
  /\ want.module = "policy_attachment" => AttachmentAt
  /\ want.module = "user"              => UserAt
  /\ want.module = "group"             => GroupAt
  /\ want.module = "service_account"   => AccountAt

GoalInv ==
  /\ TypeInv
  /\ pc = "idle" /\ outcome = "none" => others = 0 /\ Untouched
  /\ pc # "idle" /\ others = 0 => Standing
  /\ Over /\ others = 0 => Fulfilled

\* A module takes its own steps only.
LEMMA OwnSteps ==
  ASSUME TypeInv, TaskStep
  PROVE  /\ want.module \in {"bucket", "bucket_lifecycle", "bucket_quota", "policy", "policy_attachment",
                             "user", "group", "service_account"}
         /\ want.module = "bucket" =>
              HeadBucket \/ CreateBucket \/ GetVersioning \/ PutVersioning \/ DeleteBucket
         /\ want.module = "bucket_lifecycle" => GetRules \/ PutRules \/ DeleteRules
         /\ want.module = "bucket_quota" => CheckSize \/ GetQuota \/ SetQuota \/ ClearQuota
         /\ want.module = "policy" => GetPolicy \/ PutPolicy \/ DeletePolicy
         /\ want.module = "policy_attachment" => CheckPolicies \/ GetEntity \/ SetAttached
         /\ want.module = "user" =>
              GetUser \/ AddUser \/ RotateSecret \/ SetUserStatus \/ RemoveUser
         /\ want.module = "group" =>
              \/ GetGroup \/ CreateGroup \/ AddMembers \/ RemoveMembers
              \/ SetGroupStatus \/ DeleteGroup
         /\ want.module = "service_account" =>
              GetAccount \/ CreateAccount \/ ReadBack \/ DeleteAccount
<1>1. want.module \in {"bucket", "bucket_lifecycle", "bucket_quota", "policy", "policy_attachment",
                       "user", "group", "service_account"}
  BY DEF TypeInv, TypeOK, Wants, BucketWants, AccessWants, IdentityWants
<1>2. pc # "idle" => pc \in Steps[want.module]
  BY DEF TypeInv, AtHome
<1>3. /\ HeadBucket \/ CreateBucket \/ GetVersioning \/ PutVersioning \/ DeleteBucket => pc \in Steps["bucket"]
      /\ GetRules \/ PutRules \/ DeleteRules => pc \in Steps["bucket_lifecycle"]
      /\ CheckSize \/ GetQuota \/ SetQuota \/ ClearQuota => pc \in Steps["bucket_quota"]
  BY DEF HeadBucket, CreateBucket, GetVersioning, PutVersioning, DeleteBucket, GetRules, PutRules, DeleteRules,
     CheckSize, GetQuota, SetQuota, ClearQuota, Read, Write, Call, Check, Steps
<1>4. /\ GetPolicy \/ PutPolicy \/ DeletePolicy => pc \in Steps["policy"]
      /\ CheckPolicies \/ GetEntity \/ SetAttached => pc \in Steps["policy_attachment"]
  BY DEF GetPolicy, PutPolicy, DeletePolicy, CheckPolicies, GetEntity, SetAttached, Read, Write, Call, Check, Steps
<1>5. /\ GetUser \/ AddUser \/ RotateSecret \/ SetUserStatus \/ RemoveUser => pc \in Steps["user"]
      /\ \/ GetGroup \/ CreateGroup \/ AddMembers \/ RemoveMembers
         \/ SetGroupStatus \/ DeleteGroup
         => pc \in Steps["group"]
      /\ GetAccount \/ CreateAccount \/ ReadBack \/ DeleteAccount => pc \in Steps["service_account"]
  BY DEF GetUser, AddUser, RotateSecret, SetUserStatus, RemoveUser, GetGroup, CreateGroup, AddMembers,
     RemoveMembers, SetGroupStatus, DeleteGroup, GetAccount, CreateAccount, ReadBack, DeleteAccount, Read, Write,
     Call, Steps
<1>6. \A k, m \in DOMAIN Steps : k # m => Steps[k] \cap Steps[m] = {} /\ "idle" \notin Steps[k]
  BY DEF Steps
<1>7. DOMAIN Steps = {"bucket", "bucket_lifecycle", "bucket_quota", "policy", "policy_attachment",
                      "user", "group", "service_account"}
  BY DEF Steps
<1>8. \A k \in DOMAIN Steps : pc \in Steps[k] => k = want.module
  BY <1>1, <1>2, <1>6, <1>7
<1>9. QED
  BY <1>1, <1>3, <1>4, <1>5, <1>7, <1>8 DEF TaskStep, BucketStep, AccessStep, IdentityStep

LEMMA StepStands ==
  ASSUME TypeInv, Standing, TaskStep
  PROVE  (pc' # "idle" => Standing') /\ EndsWell
<1>1. want' = want
  BY StepFramed DEF Framed, run
<1>2. CASE want.module \in {"bucket", "bucket_lifecycle", "bucket_quota"}
  BY <1>1, <1>2, OwnSteps, BucketRuns, LifecycleRuns, QuotaRuns DEF Standing, OnCourse
<1>3. CASE want.module \in {"policy", "policy_attachment"}
  BY <1>1, <1>3, OwnSteps, PolicyRuns, AttachmentRuns DEF Standing, OnCourse
<1>4. CASE want.module \in {"user", "group", "service_account"}
  BY <1>1, <1>4, OwnSteps, UserRuns, GroupRuns, AccountRuns DEF Standing, OnCourse
<1>5. QED
  BY <1>2, <1>3, <1>4, OwnSteps

LEMMA StartStands == ASSUME GoalInv, Start PROVE Standing' /\ pc' # "idle"
<1>1. PICK w \in Wants, d \in BOOLEAN : Begin(w, d, FirstStep[w.module])
  BY DEF Start
<1>2. /\ want' = w /\ pc' = FirstStep[w.module] /\ UNCHANGED <<srv, base, changed>>
      /\ pc = "idle" /\ outcome = "none"
  BY <1>1 DEF Begin
<1>3. Untouched'
  BY <1>2 DEF GoalInv, Untouched
<1>4. w.module \in DOMAIN FirstStep
  BY DEF FirstStep, Wants, BucketWants, AccessWants, IdentityWants
<1>5. QED
  BY <1>2, <1>3, <1>4 DEF FirstStep, Standing, BucketAt, LifecycleAt, QuotaAt, PolicyAt, AttachmentAt, UserAt,
     GroupAt, AccountAt

LEMMA GoalInvKept == ASSUME GoalInv, [Next]_vars PROVE GoalInv'
<1>1. TypeInv'
  BY NextTyped DEF GoalInv
<1>2. CASE Start
  <2>1. Standing' /\ pc' # "idle"
    BY <1>2, StartStands
  <2>2. QED
    BY <1>1, <2>1 DEF GoalInv, Over
<1>3. CASE TaskStep
  <2>1. pc # "idle" /\ others' = others
    BY <1>3, BucketStepShaped, AccessStepShaped, IdentityStepShaped DEF GoalInv, TypeInv, TaskStep, Shaped, run
  <2>2. others = 0 => (pc' # "idle" => Standing') /\ EndsWell
    BY <1>3, <2>1, StepStands DEF GoalInv
  <2>3. pc' = "idle" => outcome' # "none"
    <3>1. Shaped /\ outcome = "none" /\ pc # "idle"
      BY <1>3, <2>1, BucketStepShaped, AccessStepShaped, IdentityStepShaped DEF GoalInv, TypeInv, TaskStep, AtHome
    <3>2. QED
      BY <3>1 DEF Shaped, Settled, NetworkError, FailJson
  <2>4. QED
    BY <1>1, <2>1, <2>2, <2>3 DEF GoalInv, EndsWell, Over
<1>4. CASE Interfere
  <2>1. others' # 0 /\ pc' = pc /\ pc # "idle"
    BY <1>4, MaxOthersAssumption DEF Interfere, GoalInv, TypeInv, TypeOK
  <2>2. QED
    BY <1>1, <2>1 DEF GoalInv, Over
<1>5. CASE Forget
  <2>1. pc = "idle"
    BY <1>5 DEF Forget, GoalInv, TypeInv, AtHome
  <2>2. pc' = "idle" /\ outcome' = "none" /\ others' = 0 /\ Untouched'
    BY <1>5, <2>1 DEF Forget, Untouched
  <2>3. QED
    BY <1>1, <2>2 DEF GoalInv, Over
<1>6. CASE UNCHANGED vars
  <2>1. UNCHANGED <<srv, want, dry, base, others, pc, attempt, read, changed, outcome, error, unsure, met>>
    BY <1>6 DEF vars, run, verdict
  <2>2. (Untouched => Untouched') /\ (Fulfilled => Fulfilled')
    BY <2>1 DEF Untouched, Fulfilled
  <2>3. (BucketAt => BucketAt') /\ (LifecycleAt => LifecycleAt') /\ (QuotaAt => QuotaAt')
    BY <2>1 DEF BucketAt, LifecycleAt, QuotaAt, ExistingBucket, Untouched, Writing
  <2>4. (PolicyAt => PolicyAt') /\ (AttachmentAt => AttachmentAt')
    BY <2>1 DEF PolicyAt, AttachmentAt, Untouched, Writing
  <2>5. (UserAt => UserAt') /\ (AccountAt => AccountAt')
    BY <2>1 DEF UserAt, AccountAt, StatusLast, Untouched, Writing
  <2>6. GroupAt => GroupAt'
    BY <2>1 DEF GroupAt, StatusLast, Untouched, Writing, Added, Removed, Grown, Shrunk
  <2>7. Standing => Standing'
    BY <2>1, <2>3, <2>4, <2>5, <2>6 DEF Standing
  <2>8. QED
    BY <1>1, <2>1, <2>2, <2>7 DEF GoalInv, Over
<1>7. QED
  BY <1>2, <1>3, <1>4, <1>5, <1>6 DEF Next

LEMMA GoalInvHolds == Spec => []GoalInv
<1>1. Init => GoalInv
  <2>1. Init => pc = "idle" /\ outcome = "none" /\ others = 0 /\ Untouched
    BY DEF Init, Idle, Untouched
  <2>2. QED
    BY <2>1, InitTyped DEF GoalInv, Over
<1>2. GoalInv /\ [Next]_vars => GoalInv'
  BY GoalInvKept
<1>3. QED
  BY <1>1, <1>2, PTL DEF Spec

\* For every resource, parameter and retry budget: a run that nobody disturbs and
\* that ends in success leaves the resource as it was asked for and nothing else
\* about it touched, through whatever retries.
THEOREM SuccessMeansGoal == Spec => []OkMeansGoal
<1>1. GoalInv => OkMeansGoal
  BY DEF GoalInv, OkMeansGoal, Undisturbed, Fulfilled
<1>2. QED
  BY <1>1, GoalInvHolds, PTL

\* And "changed" is said exactly when there was something to do, in check mode too.
THEOREM ChangedIsTrue == Spec => []ChangedTellsTheTruth
<1>1. GoalInv => ChangedTellsTheTruth
  BY DEF GoalInv, ChangedTellsTheTruth, Undisturbed, Fulfilled
<1>2. QED
  BY <1>1, GoalInvHolds, PTL
-----------------------------------------------------------------------------
(* What a run that nobody disturbs has read, and what it returns.          *)

\* What was last read is the resource as it was when the run began, but for a
\* bucket that was created and then looked at, and for a key pair read back.
ReadAt ==
  \/ read = base
  \/ want.module = "bucket" /\ read = ExistingBucket
  \/ want.module = "service_account" /\ read = Goal(want, base)
ReadInv ==
  /\ pc = "idle" /\ outcome = "none" => read = base
  /\ others = 0 => ReadAt

\* A step remembers what was read before, or what it reads where it stands.
LEMMA StepReads ==
  ASSUME TaskStep
  PROVE  \/ read' = read
         \/ read' = srv /\ pc \in Reading /\ pc # "idle"
<1> USE DEF Read, Write, Call, Check, Reading
<1>1. CASE BucketStep
  BY <1>1 DEF BucketStep, HeadBucket, CreateBucket, GetVersioning, PutVersioning, DeleteBucket,
     GetRules, PutRules, DeleteRules, CheckSize, GetQuota, SetQuota, ClearQuota
<1>2. CASE AccessStep
  BY <1>2 DEF AccessStep, GetPolicy, PutPolicy, DeletePolicy, CheckPolicies, GetEntity, SetAttached
<1>3. CASE IdentityStep
  BY <1>3 DEF IdentityStep, GetUser, AddUser, RotateSecret, SetUserStatus, RemoveUser, GetGroup,
     CreateGroup, AddMembers, RemoveMembers, SetGroupStatus, DeleteGroup, GetAccount, CreateAccount,
     ReadBack, DeleteAccount
<1>4. QED
  BY <1>1, <1>2, <1>3 DEF TaskStep

\* And where it reads, it stands before a resource that is as it was, or as it
\* has become.
LEMMA FoundWhereItReads ==
  ASSUME TypeInv, Standing, pc \in Reading, pc # "idle"
  PROVE  \/ srv = base
         \/ want.module = "bucket" /\ srv = ExistingBucket
         \/ want.module = "service_account" /\ srv = Goal(want, base)
<1>1. want.module \in DOMAIN Steps /\ pc \in Steps[want.module]
  BY DEF TypeInv, TypeOK, AtHome, Steps, Wants, BucketWants, AccessWants, IdentityWants
<1>2. CASE want.module \in {"bucket", "bucket_lifecycle", "bucket_quota"}
  BY <1>2 DEF Standing, Reading, BucketAt, LifecycleAt, QuotaAt, Untouched
<1>3. CASE want.module \in {"policy", "policy_attachment"}
  BY <1>3 DEF Standing, Reading, PolicyAt, AttachmentAt, Untouched
<1>4. CASE want.module \in {"user", "group", "service_account"}
  BY <1>4 DEF Standing, Reading, UserAt, GroupAt, AccountAt, StatusLast, Untouched, Writing
<1>5. QED
  BY <1>1, <1>2, <1>3, <1>4 DEF Steps

LEMMA ReadInvKept == ASSUME GoalInv, ReadInv, [Next]_vars PROVE ReadInv'
<1> USE DEF ReadAt, ExistingBucket
<1>1. CASE TaskStep
  <2>1. UNCHANGED <<want, base, others>> /\ pc # "idle" /\ Shaped /\ outcome = "none"
    BY <1>1, StepFramed, BucketStepShaped, AccessStepShaped, IdentityStepShaped
    DEF GoalInv, TypeInv, AtHome, TaskStep, Shaped, Framed, run
  <2>2. pc' = "idle" => outcome' # "none"
    BY <2>1 DEF Shaped, Settled, NetworkError, FailJson
  <2>3. others = 0 => ReadAt /\ Standing
    BY <2>1 DEF GoalInv, ReadInv
  <2>4. CASE read' = read
    BY <2>1, <2>2, <2>3, <2>4 DEF ReadInv
  <2>5. CASE read' = srv /\ pc \in Reading
    BY <2>1, <2>2, <2>3, <2>5, FoundWhereItReads DEF GoalInv, ReadInv
  <2>6. QED
    BY <1>1, <2>4, <2>5, StepReads
<1>2. CASE Start
  <2>1. UNCHANGED <<base, read, srv>> /\ pc = "idle" /\ outcome = "none"
    BY <1>2 DEF Start, Begin
  <2>2. QED
    BY <2>1 DEF ReadInv
<1>3. CASE Interfere
  BY <1>3 DEF Interfere, GoalInv, TypeInv, TypeOK, ReadInv
<1>4. CASE Forget
  BY <1>4 DEF Forget, ReadInv
<1>5. CASE UNCHANGED vars
  BY <1>5 DEF vars, run, verdict, ReadInv
<1>6. QED
  BY <1>1, <1>2, <1>3, <1>4, <1>5 DEF Next

LEMMA ReadInvHolds == Spec => []ReadInv
<1>1. Init => ReadInv
  BY DEF Init, Idle, ReadInv, ReadAt
<1>2. GoalInv /\ ReadInv /\ [Next]_vars => ReadInv'
  BY ReadInvKept
<1>3. QED
  BY <1>1, <1>2, GoalInvHolds, PTL DEF Spec

LEMMA BucketSays ==
  ASSUME TypeInv, ReadAt, Fulfilled, Attainable(want, base), srv.kind = "bucket"
  PROVE  \A field \in DOMAIN BucketReturned : BucketReturned[field] = Goal(want, base)[field]
<1>1. want.module \in {"bucket", "bucket_lifecycle", "bucket_quota"}
  <2>1. want.module \in DOMAIN Steps /\ About(want.module) = "bucket"
    BY DEF TypeInv, TypeOK, Steps, Wants, BucketWants, AccessWants, IdentityWants
  <2>2. QED
    BY <2>1 DEF About, Steps
<1>2. want \in BucketWants /\ base \in Buckets /\ base \in BucketRecords
  BY <1>1, BucketsAtHand, BucketsAreRecords
<1>3. CASE want.module = "bucket" /\ want.state = "absent"
  <2>1. Goal(want, base) = NoBucket
    BY <1>2, <1>3, BucketGoalIs
  <2>2. NoBucket.exists = FALSE
    BY DEF NoBucket
  <2>3. BucketReturned = [exists |-> FALSE]
    BY <1>3 DEF BucketReturned
  <2>4. BucketReturned.exists = NoBucket.exists /\ DOMAIN BucketReturned = {"exists"}
    BY <2>2, <2>3
  <2>5. QED
    BY <2>1, <2>4
<1>4. CASE want.module = "bucket" /\ want.state = "present"
  <2>1. Goal(want, base) = IF VersioningIsToChange THEN [ExistingBucket EXCEPT !.versioning = want.value]
                           ELSE ExistingBucket
    BY <1>2, <1>4, BucketGoalIs
  <2>2. ExistingBucket \in BucketRecords /\ ExistingBucket.exists
    BY <1>2, BucketWrites, BucketsAreRecords DEF ExistingBucket, Fresh, NoBucket
  <2>3. read.versioning = ExistingBucket.versioning
    <3>1. ~base.exists => base = NoBucket
      BY <1>2 DEF Buckets
    <3>2. Fresh.versioning = NoBucket.versioning
      BY DEF Fresh, NoBucket
    <3>3. QED
      BY <1>4, <3>1, <3>2 DEF ReadAt, ExistingBucket
  <2>4. VersioningDiffers <=> VersioningIsToChange
    BY <2>3 DEF VersioningDiffers, VersioningIsToChange
  <2>5. Goal(want, base).exists /\ Goal(want, base).versioning = IF VersioningIsToChange THEN want.value
                                                                ELSE ExistingBucket.versioning
    BY <2>1, <2>2 DEF BucketRecords
  <2>6. Goal(want, base).exists = TRUE
    BY <2>1, <2>2 DEF BucketRecords
  <2>7. BucketReturned = [exists |-> TRUE, versioning |-> IF VersioningDiffers THEN want.value ELSE read.versioning]
    BY <1>4 DEF BucketReturned
  <2>8. BucketReturned.versioning = Goal(want, base).versioning /\ BucketReturned.exists = Goal(want, base).exists
        /\ DOMAIN BucketReturned = {"exists", "versioning"}
    BY <2>3, <2>4, <2>5, <2>6, <2>7
  <2>9. QED
    BY <2>8
<1>5. CASE want.module = "bucket_lifecycle"
  <2> DEFINE target == IF want.state = "absent" THEN NoRules ELSE want.value
  <2>1. Goal(want, base) = [base EXCEPT !.rules = target]
    BY <1>2, <1>5, LifecycleGoalIs
  <2>2. Goal(want, base).rules = target
    BY <1>2, <2>1 DEF BucketRecords
  <2>3. QED
    BY <1>5, <2>2 DEF BucketReturned
<1>6. CASE want.module = "bucket_quota"
  <2>1. /\ Goal(want, base) = [base EXCEPT !.quota = DesiredQuota] /\ ~Rotates(want, base)
        /\ changed <=> Goal(want, base) # base
    BY <1>2, <1>6, QuotaGoalIs DEF Fulfilled
  <2>2. Goal(want, base).quota = DesiredQuota
    BY <1>2, <2>1 DEF BucketRecords
  <2>3. read = base
    BY <1>6 DEF ReadAt
  <2>4. BucketReturned = [quota |-> IF changed THEN DesiredQuota ELSE read.quota]
    BY <1>6 DEF BucketReturned
  <2>5. (IF changed THEN DesiredQuota ELSE read.quota) = Goal(want, base).quota
    BY <2>1, <2>2, <2>3
  <2>6. QED
    BY <2>4, <2>5
<1>7. want.state \in {"present", "absent"}
  BY <1>2 DEF BucketWants, States
<1>8. QED
  BY <1>1, <1>3, <1>4, <1>5, <1>6, <1>7

LEMMA AccessSays ==
  ASSUME TypeInv, ReadAt, srv.kind = "access"
  PROVE  \A field \in DOMAIN AccessReturned : AccessReturned[field] = Goal(want, base)[field]
<1>1. want.module \in {"policy", "policy_attachment"}
  <2>1. want.module \in DOMAIN Steps /\ About(want.module) = "access"
    BY DEF TypeInv, TypeOK, Steps, Wants, BucketWants, AccessWants, IdentityWants
  <2>2. QED
    BY <2>1 DEF About, Steps
<1>2. base \in Accesses
  BY <1>1, AccessesAtHand
<1>3. CASE want.module = "policy_attachment"
  <2>1. Goal(want, base) = [base EXCEPT !.attached = Desired(base.attached)] /\ read = base
    BY <1>3, AttachmentGoalIs DEF ReadAt
  <2>2. Goal(want, base).attached = Desired(read.attached)
    BY <1>2, <2>1 DEF Accesses
  <2>3. QED
    BY <1>3, <2>2 DEF AccessReturned
<1>4. CASE want.module = "policy" /\ want.state = "present"
  <2>1. Goal(want, base) = [base EXCEPT !.document = want.document]
    BY <1>4, PolicyGoalIs
  <2>2. Goal(want, base).document = want.document
    BY <1>2, <2>1 DEF Accesses
  <2>3. QED
    BY <1>4, <2>2 DEF AccessReturned
<1>5. CASE want.module = "policy" /\ want.state # "present"
  BY <1>5 DEF AccessReturned
<1>6. QED
  BY <1>1, <1>3, <1>4, <1>5

LEMMA IdentitySays ==
  ASSUME TypeInv, ReadAt, Attainable(want, base), srv.kind \notin {"bucket", "access"}
  PROVE  \A field \in DOMAIN IdentityReturned : IdentityReturned[field] = Goal(want, base)[field]
<1>1. want.module \in {"user", "group", "service_account"}
  <2>1. want.module \in DOMAIN Steps /\ About(want.module) \notin {"bucket", "access"}
    BY DEF TypeInv, TypeOK, Steps, Wants, BucketWants, AccessWants, IdentityWants
  <2>2. QED
    BY <2>1 DEF About, Steps
<1>2. CASE want.module = "service_account" /\ want.state = "present" /\ read.exists
  <2>1. read = Goal(want, base)
    BY <1>2, AccountGoalIs DEF ReadAt
  <2>2. IdentityReturned = [status |-> read.status]
    BY <1>2 DEF IdentityReturned
  <2>3. QED
    BY <2>1, <2>2
<1>3. CASE want.module = "user" /\ want.state = "present"
  <2>1. read = base /\ base \in UserRecords /\ (~base.exists => base = NoUser) /\ NoUser.status = "enabled"
    BY <1>3, IdentitiesAtHand, UsersAreRecords DEF ReadAt, NoUser
  <2>2. Goal(want, base).status = Default(want.status, base.status)
    <3>1. \A s : AddedUser(s).status = s
      BY DEF AddedUser
    <3> DEFINE status == Default(want.status, base.status)
    <3>2. ~base.exists => Goal(want, base).status = status
      BY <1>3, <2>1, <3>1, UserGoalIs
    <3>3. base.exists /\ want.update_secret => Goal(want, base).status = status
      BY <1>3, <3>1, UserGoalIs
    <3>4. base.exists /\ ~want.update_secret => Goal(want, base) = [base EXCEPT !.status = status]
      BY <1>3, UserGoalIs
    <3> HIDE DEF status
    <3>5. [base EXCEPT !.status = status].status = status
      BY <2>1 DEF UserRecords
    <3>6. Goal(want, base).status = status
      BY <3>2, <3>3, <3>4, <3>5
    <3>7. QED
      BY <3>6 DEF status
  <2>3. IdentityReturned = [status |-> Default(want.status, read.status)]
    BY <1>3 DEF IdentityReturned
  <2>4. QED
    BY <2>1, <2>2, <2>3
<1>4. CASE want.module = "group" /\ want.state = "present"
  <2>1. read = base /\ base \in GroupRecords
    BY <1>4, IdentitiesAtHand, GroupsAreRecords DEF ReadAt
  <2>2. /\ Goal(want, base) = [Shrunk EXCEPT !.status = Default(want.status, base.status)]
        /\ Shrunk.members = (base.members \cup Added) \ Removed
    <3>1. ~base.exists => base.members = {}
      BY <1>4, IdentitiesAtHand, GroupsAreRecords DEF NoGroup
    <3>2. QED
      BY <1>4, <2>1, <3>1, GroupGoalIs, Stages
  <2>3. Shrunk \in [kind : {"group"}, exists : BOOLEAN, members : SUBSET Users, status : Statuses]
    <3>1. want.members # Unset => want.members \subseteq Users
      BY <1>4, IdentitiesAtHand DEF IdentityWants
    <3>2. Added \subseteq Users
      BY <3>1 DEF Added
    <3>3. QED
      BY <2>1, <3>2 DEF GroupRecords, Shrunk, Grown
  <2>4. /\ Goal(want, base).status = Default(want.status, read.status)
        /\ Goal(want, base).members = (read.members \cup ToAdd) \ ToRemove
    <3> DEFINE status == Default(want.status, base.status)
    <3>1. ToAdd = Added /\ ToRemove = Removed
      BY <2>1 DEF ToAdd, ToRemove, Added, Removed
    <3>2. Goal(want, base) = [Shrunk EXCEPT !.status = status]
      BY <2>2
    <3>3. status = Default(want.status, read.status)
      BY <2>1
    <3> HIDE DEF status
    <3>4. Goal(want, base).status = status /\ Goal(want, base).members = Shrunk.members
      BY <2>3, <3>2
    <3>5. QED
      BY <2>1, <2>2, <3>1, <3>3, <3>4
  <2>5. IdentityReturned = [status |-> Default(want.status, read.status), members |-> (read.members \cup ToAdd) \ ToRemove]
    BY <1>4 DEF IdentityReturned
  <2>6. QED
    BY <2>4, <2>5
<1>5. CASE /\ ~(want.module = "service_account" /\ want.state = "present" /\ read.exists)
           /\ ~(want.module = "user" /\ want.state = "present")
           /\ ~(want.module = "group" /\ want.state = "present")
  BY <1>5 DEF IdentityReturned
<1>6. QED
  BY <1>2, <1>3, <1>4, <1>5

\* For every resource and parameter: what a run returns is what the resource then
\* is, or, in a dry run, what it would be.
THEOREM ReturnedIsTrue == Spec => []ReturnedIsSo
<1>1. GoalInv /\ ReadInv => ReturnedIsSo
  <2> SUFFICES ASSUME GoalInv, ReadInv, Over, Undisturbed, Attainable(want, base)
               PROVE  \A field \in DOMAIN Returned :
                        Returned[field] = (IF dry THEN Goal(want, base) ELSE srv)[field]
    BY DEF ReturnedIsSo
  <2>1. Fulfilled /\ ReadAt /\ TypeInv
    BY DEF GoalInv, ReadInv, Undisturbed
  <2>2. ~dry => srv = Goal(want, base)
    BY <2>1 DEF Fulfilled
  <2>3. \A field \in DOMAIN Returned : Returned[field] = Goal(want, base)[field]
    <3>1. CASE srv.kind = "bucket"
      BY <2>1, <3>1, BucketSays DEF Returned
    <3>2. CASE srv.kind = "access"
      BY <2>1, <3>2, AccessSays DEF Returned
    <3>3. CASE srv.kind \notin {"bucket", "access"}
      BY <2>1, <3>3, IdentitySays DEF Returned
    <3>4. QED
      BY <3>1, <3>2, <3>3
  <2>4. QED
    BY <2>2, <2>3
<1>2. QED
  BY <1>1, GoalInvHolds, ReadInvHolds, PTL
-----------------------------------------------------------------------------
(* What a run that nobody disturbs may fail for.                           *)

\* The calls that may follow another write of the same run.
Later == {"getVersioning", "putVersioning", "removeMembers", "setUserStatus", "setGroupStatus", "readBack"}

\* While every answer got through, a first write has not been carried out yet.
FirstTry == ~unsure /\ pc \notin Later => srv = base

\* A run that fails for none of the reasons the server or the network may have.
FailsForCause == outcome = "failed" /\ ~unsure /\ error \notin {"auth", "broken off"}
EndsBadly     == pc' = "idle" /\ FailsForCause'

FailInv == others = 0 => /\ pc # "idle" => FirstTry
                         /\ FailsForCause => ~Attainable(want, base)

\* A write that ends the run so was answered, with an error.
LEMMA WriteFails ==
  ASSUME NEW l, NEW class, NEW effect, NEW next, Write(l, class, effect, next), outcome = "none", EndsBadly
  PROVE  pc = l /\ class # "ok" /\ ~unsure
<1>1. unsure' # TRUE
  BY DEF EndsBadly, FailsForCause
<1>2. error' # "auth" /\ error' # "broken off" /\ pc' = "idle" /\ outcome' = "failed"
  BY DEF EndsBadly, FailsForCause
<1>3. unsure' = unsure /\ pc = l /\ class # "ok"
  BY <1>1, <1>2 DEF Write, Call, Goto, Exit, FailJson, NetworkError, verdict
<1>4. QED
  BY <1>3 DEF EndsBadly, FailsForCause

LEMMA BucketFails ==
  ASSUME TypeInv, want.module = "bucket", BucketAt, FirstTry, EndsBadly,
         HeadBucket \/ CreateBucket \/ GetVersioning \/ PutVersioning \/ DeleteBucket
  PROVE  ~Attainable(want, base)
<1> USE DEF EndsBadly, FailsForCause
<1>1. want \in BucketWants /\ base \in Buckets /\ outcome = "none"
  BY BucketsAtHand DEF TypeInv, AtHome, HeadBucket, CreateBucket, GetVersioning, PutVersioning, DeleteBucket, Read,
     Write, Call
<1>2. ExistingBucket.exists
  BY DEF ExistingBucket, Fresh, NoBucket
<1>3. ~HeadBucket
  BY <1>1 DEF HeadBucket, Read, Call, Decide, Goto, Exit, FailJson, NetworkError, verdict
<1>4. ~CreateBucket
  BY <1>1, WriteFails DEF CreateBucket
<1>5. ~GetVersioning
  <2> SUFFICES ASSUME GetVersioning PROVE FALSE
    OBVIOUS
  <2>1. srv.exists
    BY <1>2 DEF GetVersioning, Read, Call, BucketAt
  <2>2. QED
    BY <1>1, <2>1 DEF GetVersioning, Read, Call, Decide, Goto, Exit, FailJson, NetworkError, verdict
<1>6. ~PutVersioning
  <2> SUFFICES ASSUME PutVersioning PROVE FALSE
    OBVIOUS
  <2>1. pc = "putVersioning" /\ ~srv.exists
    BY <1>1, WriteFails DEF PutVersioning, IfExists
  <2>2. srv \in {ExistingBucket, [ExistingBucket EXCEPT !.versioning = want.value]}
    BY <2>1 DEF BucketAt, Writing
  <2>3. ExistingBucket \in BucketRecords
    BY <1>1, BucketWrites, BucketsAreRecords DEF ExistingBucket
  <2>4. QED
    BY <1>2, <2>1, <2>2, <2>3 DEF BucketRecords
<1>7. CASE DeleteBucket
  <2>1. pc = "delete" /\ ~unsure
    <3>1. unsure' # TRUE /\ error' \notin {"auth", "broken off"} /\ pc' = "idle" /\ outcome' = "failed"
      OBVIOUS
    <3>2. pc = "delete" /\ unsure' = unsure
      BY <1>1, <1>7, <3>1 DEF DeleteBucket, Call, FailJson, NetworkError, verdict
    <3>3. QED
      BY <3>2
  <2>2. srv = base /\ want.state = "absent" /\ base.exists
    BY <2>1 DEF FirstTry, Later, BucketAt
  <2>3. base.content
    BY <1>1, <1>7, <2>2 DEF DeleteBucket, Call, IfExists, FailJson, NetworkError, Exit, verdict
  <2>4. QED
    BY <1>1, <2>2, <2>3, BucketGoalIs
<1>8. QED
  BY <1>3, <1>4, <1>5, <1>6, <1>7

LEMMA LifecycleFails ==
  ASSUME TypeInv, want.module = "bucket_lifecycle", LifecycleAt, FirstTry, EndsBadly,
         GetRules \/ PutRules \/ DeleteRules
  PROVE  ~Attainable(want, base)
<1> USE DEF EndsBadly, FailsForCause
<1>1. outcome = "none"
  BY DEF TypeInv, AtHome, GetRules, PutRules, DeleteRules, Read, Write, Call
<1>2. /\ want.state \in {"present", "absent"}
      /\ Attainable(want, base) <=> (want.state = "present" => base.exists /\ want.value # NoRules)
      /\ base.rules # NoRules => base.exists
      /\ want.state = "absent" => (Goal(want, base) # base <=> base.rules # NoRules)
  BY BucketsAtHand, LifecycleGoalIs
<1>3. CASE GetRules
  BY <1>1, <1>2, <1>3 DEF GetRules, Read, Call, Decide, Goto, Exit, FailJson, NetworkError, verdict
<1>4. CASE PutRules
  <2>1. pc = "putRules" /\ ~srv.exists /\ ~unsure
    BY <1>1, <1>4, WriteFails DEF PutRules, IfExists
  <2>2. QED
    BY <1>2, <2>1 DEF LifecycleAt, FirstTry, Later
<1>5. CASE DeleteRules
  <2>1. pc = "deleteRules" /\ ~srv.exists /\ ~unsure
    BY <1>1, <1>5, WriteFails DEF DeleteRules, IfExists
  <2>2. QED
    BY <1>2, <2>1 DEF LifecycleAt, FirstTry, Later
<1>6. QED
  BY <1>3, <1>4, <1>5

LEMMA QuotaFails ==
  ASSUME TypeInv, want.module = "bucket_quota", QuotaAt, FirstTry, EndsBadly,
         CheckSize \/ GetQuota \/ SetQuota \/ ClearQuota
  PROVE  ~Attainable(want, base)
<1> USE DEF EndsBadly, FailsForCause
<1>1. outcome = "none"
  BY DEF TypeInv, AtHome, CheckSize, Check, GetQuota, SetQuota, ClearQuota, Read, Write, Call
<1>2. /\ want.state \in {"present", "absent"}
      /\ Attainable(want, base) <=> (want.state = "present" => base.exists /\ want.value # 0)
      /\ base.quota # 0 => base.exists
      /\ want.state = "absent" => (Goal(want, base) # base <=> base.quota # 0)
  BY BucketsAtHand, QuotaGoalIs DEF DesiredQuota
<1>3. CASE CheckSize
  BY <1>1, <1>2, <1>3 DEF CheckSize, Check, Goto, verdict
<1>4. CASE GetQuota
  <2> DEFINE l == IF want.state = "present" THEN "setQuota" ELSE "clearQuota"
  <2>1. l # "idle"
    OBVIOUS
  <2>2. ~Decide(srv.quota # DesiredQuota, l)
    BY <1>1, <2>1 DEF Decide, Goto, Exit
  <2>3. QED
    BY <1>1, <1>4, <2>2 DEF GetQuota, Read, Call, FailJson, NetworkError
<1>5. CASE SetQuota
  <2>1. pc = "setQuota" /\ ~srv.exists /\ ~unsure
    BY <1>1, <1>5, WriteFails DEF SetQuota, IfExists
  <2>2. QED
    BY <1>2, <2>1 DEF QuotaAt, FirstTry, Later
<1>6. CASE ClearQuota
  <2>1. pc = "clearQuota" /\ ~srv.exists /\ ~unsure
    BY <1>1, <1>6, WriteFails DEF ClearQuota, IfExists
  <2>2. QED
    BY <1>2, <2>1 DEF QuotaAt, FirstTry, Later
<1>7. QED
  BY <1>3, <1>4, <1>5, <1>6

LEMMA PolicyFails ==
  ASSUME TypeInv, want.module = "policy", PolicyAt, FirstTry, EndsBadly, GetPolicy \/ PutPolicy \/ DeletePolicy
  PROVE  ~Attainable(want, base)
<1> USE DEF EndsBadly, FailsForCause
<1>1. outcome = "none"
  BY DEF TypeInv, AtHome, GetPolicy, PutPolicy, DeletePolicy, Read, Write, Call
<1>2. ~GetPolicy
  BY <1>1 DEF GetPolicy, Read, Call, Decide, Goto, Exit, FailJson, NetworkError, verdict
<1>3. ~PutPolicy
  BY <1>1, WriteFails DEF PutPolicy
<1>4. CASE DeletePolicy
  <2>1. pc = "deletePolicy" /\ ~unsure /\ (srv.document = NoDocument \/ Policy \in srv.attached)
    BY <1>1, <1>4, WriteFails DEF DeletePolicy
  <2>2. srv = base /\ want.state # "present" /\ Goal(want, base) # base
    BY <2>1 DEF PolicyAt, FirstTry, Later
  <2>3. QED
    BY <2>1, <2>2, PolicyGoalIs
<1>5. QED
  BY <1>2, <1>3, <1>4

LEMMA AttachmentFails ==
  ASSUME TypeInv, want.module = "policy_attachment", AttachmentAt, FirstTry, EndsBadly,
         CheckPolicies \/ GetEntity \/ SetAttached
  PROVE  ~Attainable(want, base)
<1> USE DEF EndsBadly, FailsForCause
<1>1. outcome = "none"
  BY DEF TypeInv, AtHome, CheckPolicies, Check, GetEntity, SetAttached, Read, Write, Call
<1>2. /\ Attainable(want, base) <=>
           want.policies # {} /\ base.entity /\ (Policy \in want.policies => base.document # NoDocument)
      /\ Policy \in base.attached => base.document # NoDocument
  BY AttachmentGoalIs
<1>3. CASE CheckPolicies
  BY <1>1, <1>2, <1>3 DEF CheckPolicies, Check, Goto, verdict
<1>4. CASE GetEntity
  <2>1. srv = base
    BY <1>4 DEF GetEntity, Read, Call, AttachmentAt, Untouched
  <2>2. QED
    BY <1>1, <1>2, <1>4, <2>1 DEF GetEntity, Read, Call, Decide, Goto, Exit, FailJson, NetworkError, verdict
<1>5. CASE SetAttached
  <2>1. /\ pc = "setAttached" /\ ~unsure
        /\ ~srv.entity \/ (Policy \in Desired(read.attached) /\ srv.document = NoDocument)
    BY <1>1, <1>5, WriteFails DEF SetAttached
  <2>2. srv = base /\ read = base
    BY <2>1 DEF AttachmentAt, FirstTry, Later
  <2>3. QED
    BY <1>2, <2>1, <2>2 DEF Desired
<1>6. QED
  BY <1>3, <1>4, <1>5

LEMMA UserFails ==
  ASSUME TypeInv, want.module = "user", UserAt, FirstTry, EndsBadly,
         GetUser \/ AddUser \/ RotateSecret \/ SetUserStatus \/ RemoveUser
  PROVE  ~Attainable(want, base)
<1> USE DEF EndsBadly, FailsForCause
<1>1. outcome = "none" /\ want.state \in {"present", "absent"}
  BY UserGoalIs DEF TypeInv, AtHome, GetUser, AddUser, RotateSecret, SetUserStatus, RemoveUser, Read, Write, Call
<1>2. CASE GetUser
  <2>1. srv = base
    BY <1>2 DEF GetUser, Read, Call, UserAt, Untouched
  <2>2. want.state # "absent" /\ ~base.exists /\ want.secret = Unset
    BY <1>1, <1>2, <2>1 DEF GetUser, Read, Call, Decide, Goto, Exit, FailJson, NetworkError, verdict
  <2>3. QED
    BY <1>1, <2>2, UserGoalIs
<1>3. ~AddUser
  BY <1>1, WriteFails DEF AddUser
<1>4. ~RotateSecret
  BY <1>1, WriteFails DEF RotateSecret
<1>5. ~SetUserStatus
  <2>1. SetUserStatus => pc = "setUserStatus" /\ ~srv.exists
    BY <1>1, WriteFails DEF SetUserStatus, IfExists
  <2>2. QED
    BY <2>1 DEF UserAt, StatusLast
<1>6. ~RemoveUser
  <2>1. RemoveUser => pc = "removeUser" /\ ~srv.exists /\ ~unsure
    BY <1>1, WriteFails DEF RemoveUser, IfExists
  <2>2. QED
    BY <2>1 DEF UserAt, FirstTry, Later
<1>7. QED
  BY <1>2, <1>3, <1>4, <1>5, <1>6

LEMMA AccountFails ==
  ASSUME TypeInv, want.module = "service_account", AccountAt, FirstTry, EndsBadly,
         GetAccount \/ CreateAccount \/ ReadBack \/ DeleteAccount
  PROVE  ~Attainable(want, base)
<1> USE DEF EndsBadly, FailsForCause
<1>1. outcome = "none" /\ want.state \in {"present", "absent"}
  BY AccountGoalIs DEF TypeInv, AtHome, GetAccount, CreateAccount, ReadBack, DeleteAccount, Read, Write, Call
<1>2. CASE GetAccount
  <2>1. srv = base
    BY <1>2 DEF GetAccount, Read, Call, AccountAt, Untouched
  <2>2. want.state # "absent" /\ ~base.exists /\ want.secret = Unset
    BY <1>1, <1>2, <2>1 DEF GetAccount, Read, Call, Decide, Goto, Exit, FailJson, NetworkError, verdict
  <2>3. QED
    BY <1>1, <2>2, AccountGoalIs
<1>3. ~CreateAccount
  <2>1. CreateAccount => pc = "createAccount" /\ srv.exists /\ ~unsure
    BY <1>1, WriteFails DEF CreateAccount
  <2>2. QED
    BY <2>1 DEF AccountAt, FirstTry, Later
<1>4. ~ReadBack
  BY <1>1 DEF ReadBack, Read, Call, Exit, FailJson, NetworkError
<1>5. ~DeleteAccount
  <2>1. DeleteAccount => pc = "deleteAccount" /\ ~srv.exists /\ ~unsure
    BY <1>1, WriteFails DEF DeleteAccount, IfExists
  <2>2. QED
    BY <2>1 DEF AccountAt, FirstTry, Later
<1>6. QED
  BY <1>2, <1>3, <1>4, <1>5

\* With every answer got through, a group has no reason to fail at all.
LEMMA GroupNeverFails ==
  ASSUME TypeInv, want.module = "group", GroupAt, FirstTry, EndsBadly,
         GetGroup \/ CreateGroup \/ AddMembers \/ RemoveMembers \/ SetGroupStatus \/ DeleteGroup
  PROVE  FALSE
<1> USE DEF EndsBadly, FailsForCause
<1>1. outcome = "none"
  BY DEF TypeInv, AtHome, GetGroup, CreateGroup, AddMembers, RemoveMembers, SetGroupStatus, DeleteGroup, Read,
     Write, Call
<1>2. ~GetGroup
  <2>1. AfterRead' # "idle"
    BY DEF AfterRead, AfterAdd, AfterMembers
  <2>2. QED
    BY <1>1, <2>1 DEF GetGroup, Read, Call, Decide, Goto, Exit, FailJson, NetworkError, verdict
<1>3. ~CreateGroup
  <2> SUFFICES ASSUME CreateGroup PROVE FALSE
    OBVIOUS
  <2>1. PICK class \in IF srv.exists THEN {"ok", "conflict"} ELSE {"ok"} :
          Write("createGroup", class, [srv EXCEPT !.exists = TRUE, !.members = @ \cup ToAdd], AfterMembers)
    BY DEF CreateGroup
  <2>2. pc = "createGroup" /\ class # "ok" /\ ~unsure
    BY <1>1, <2>1, WriteFails
  <2>3. QED
    BY <2>1, <2>2 DEF GroupAt, FirstTry, Later
<1>4. ~AddMembers
  <2>1. AddMembers => pc = "addMembers" /\ ~srv.exists /\ ~unsure
    BY <1>1, WriteFails DEF AddMembers, IfExists
  <2>2. QED
    BY <2>1 DEF GroupAt, FirstTry, Later
<1>5. ~RemoveMembers
  <2>1. RemoveMembers => pc = "removeMembers" /\ ~srv.exists
    BY <1>1, WriteFails DEF RemoveMembers, IfExists
  <2>2. Grown.exists /\ Shrunk.exists
    BY IdentitiesAtHand, GroupsAreRecords DEF Grown, Shrunk, GroupRecords
  <2>3. QED
    BY <2>1, <2>2 DEF GroupAt, Writing
<1>6. ~SetGroupStatus
  <2>1. SetGroupStatus => pc = "setGroupStatus" /\ ~srv.exists
    BY <1>1, WriteFails DEF SetGroupStatus, IfExists
  <2>2. QED
    BY <2>1 DEF GroupAt, StatusLast
<1>7. ~DeleteGroup
  <2>1. DeleteGroup => pc = "deleteGroup" /\ ~srv.exists /\ ~unsure
    BY <1>1, WriteFails DEF DeleteGroup, IfExists
  <2>2. QED
    BY <2>1 DEF GroupAt, FirstTry, Later
<1>8. QED
  BY <1>2, <1>3, <1>4, <1>5, <1>6, <1>7

LEMMA StepFails == ASSUME TypeInv, Standing, FirstTry, TaskStep, EndsBadly PROVE ~Attainable(want, base)
<1>1. CASE want.module \in {"bucket", "bucket_lifecycle", "bucket_quota"}
  BY <1>1, OwnSteps, BucketFails, LifecycleFails, QuotaFails DEF Standing
<1>2. CASE want.module \in {"policy", "policy_attachment"}
  BY <1>2, OwnSteps, PolicyFails, AttachmentFails DEF Standing
<1>3. CASE want.module \in {"user", "group", "service_account"}
  BY <1>3, OwnSteps, UserFails, AccountFails, GroupNeverFails DEF Standing
<1>4. QED
  BY <1>1, <1>2, <1>3, OwnSteps

\* After a write comes the end, or a call that may follow one; and these follow
\* each other only.
LEMMA StepTries ==
  ASSUME TypeInv, TaskStep, unsure' # TRUE, pc' # "idle", pc' \notin Later
  PROVE  srv' = srv /\ pc \notin Later
<1> USE DEF Read, Write, Call, Check, Decide, Goto, Exit, FailJson, NetworkError, verdict, Later
<1>1. CASE BucketStep
  BY <1>1 DEF BucketStep, HeadBucket, CreateBucket, GetVersioning, PutVersioning, DeleteBucket,
     GetRules, PutRules, DeleteRules, CheckSize, GetQuota, SetQuota, ClearQuota
<1>2. CASE AccessStep
  BY <1>2 DEF AccessStep, GetPolicy, PutPolicy, DeletePolicy, CheckPolicies, GetEntity, SetAttached
<1>3. CASE IdentityStep
  <2>1. CASE GetGroup
    BY <2>1 DEF GetGroup
  <2>2. CASE CreateGroup \/ AddMembers \/ RemoveMembers
    <3>1. AfterMembers \in {"setGroupStatus", "exit"} /\ AfterAdd \in {"removeMembers", "setGroupStatus", "exit"}
      BY DEF AfterMembers, AfterAdd
    <3>2. QED
      BY <2>2, <3>1 DEF CreateGroup, AddMembers, RemoveMembers
  <2>3. CASE SetGroupStatus \/ DeleteGroup
    BY <2>3 DEF SetGroupStatus, DeleteGroup
  <2>4. CASE GetUser \/ AddUser \/ RotateSecret \/ SetUserStatus \/ RemoveUser
    BY <2>4 DEF GetUser, AddUser, RotateSecret, SetUserStatus, RemoveUser
  <2>5. CASE GetAccount \/ CreateAccount \/ ReadBack \/ DeleteAccount
    BY <2>5 DEF GetAccount, CreateAccount, ReadBack, DeleteAccount
  <2>6. QED
    BY <1>3, <2>1, <2>2, <2>3, <2>4, <2>5 DEF IdentityStep
<1>4. QED
  BY <1>1, <1>2, <1>3 DEF TaskStep

LEMMA FailInvKept == ASSUME GoalInv, FailInv, [Next]_vars PROVE FailInv'
<1> SUFFICES ASSUME others' = 0
             PROVE  (pc # "idle" => FirstTry)' /\ (FailsForCause => ~Attainable(want, base))'
  BY DEF FailInv
<1>1. CASE TaskStep
  <2>1. UNCHANGED <<want, base, others>> /\ pc # "idle" /\ Shaped /\ outcome = "none"
    BY <1>1, StepFramed, BucketStepShaped, AccessStepShaped, IdentityStepShaped
    DEF GoalInv, TypeInv, AtHome, TaskStep, Shaped, Framed, run
  <2>2. FirstTry /\ Standing /\ TypeInv
    BY <2>1 DEF GoalInv, FailInv
  <2>3. (pc # "idle" => FirstTry)'
    <3>1. ~unsure' => unsure' # TRUE /\ ~unsure
      BY <2>1 DEF Shaped, NetworkError
    <3>2. QED
      BY <1>1, <2>1, <2>2, <3>1, StepTries DEF FirstTry
  <2>4. FailsForCause' => pc' = "idle"
    BY <2>1 DEF Shaped, Settled, NetworkError, FailJson, FailsForCause, verdict
  <2>5. FailsForCause' => ~Attainable(want, base)
    BY <1>1, <2>2, <2>4, StepFails DEF EndsBadly
  <2>6. QED
    BY <2>1, <2>3, <2>5
<1>2. CASE Start
  <2>1. UNCHANGED <<base, srv, outcome>> /\ pc = "idle" /\ outcome = "none"
    BY <1>2 DEF Start, Begin, verdict
  <2>2. srv = base
    BY <2>1 DEF GoalInv, Untouched
  <2>3. QED
    BY <2>1, <2>2 DEF FirstTry, FailsForCause
<1>3. CASE Interfere
  BY <1>3 DEF Interfere, GoalInv, TypeInv, TypeOK
<1>4. CASE Forget
  BY <1>4 DEF Forget, FirstTry, FailsForCause
<1>5. CASE UNCHANGED vars
  <2>1. UNCHANGED <<srv, want, base, others, pc, outcome, error, unsure>>
    BY <1>5 DEF vars, run, verdict
  <2>2. QED
    BY <2>1 DEF FailInv, FirstTry, FailsForCause
<1>6. QED
  BY <1>1, <1>2, <1>3, <1>4, <1>5 DEF Next

\* For every resource and parameter: as long as requests and answers get through
\* and the server turns none down, an undisturbed run fails only when what it was
\* asked for cannot be had.
THEOREM FailuresHaveReason == Spec => []FailsWithReason
<1>1. Init => FailInv
  BY DEF Init, Idle, FailInv, FirstTry, FailsForCause
<1>2. GoalInv /\ FailInv /\ [Next]_vars => FailInv'
  BY FailInvKept
<1>3. FailInv => FailsWithReason
  BY DEF FailInv, FailsWithReason, FailsForCause, Undisturbed
<1>4. QED
  BY <1>1, <1>2, <1>3, GoalInvHolds, PTL DEF Spec
=============================================================================
