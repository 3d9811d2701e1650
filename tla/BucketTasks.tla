----------------------------- MODULE BucketTasks -----------------------------
(***************************************************************************)
(* The modules bucket, bucket_lifecycle and bucket_quota, call by call.    *)
(***************************************************************************)
EXTENDS ApiTask

(* bucket                                                                  *)

\* Mutant: a never-configured bucket is compared as it is.
EffectiveRaw(versioning) == versioning
Effective(versioning) == IF versioning = "unconfigured" THEN "suspended" ELSE versioning

\* Existence is decided by this read and never by the create.
HeadBucket ==
  Read("head", IfExists,
       IF want.state = "absent" THEN Decide(srv.exists, "delete")
       ELSE IF srv.exists THEN Goto("getVersioning") /\ UNCHANGED changed
       ELSE Decide(TRUE, "create"))

\* False success for a bucket that exists - as it does on a retry.
\* Mutant: the module is done after the create.
CreateAndExit == Write("create", "ok", IF srv.exists THEN srv ELSE Fresh, "exit")
CreateBucket  == Write("create", "ok", IF srv.exists THEN srv ELSE Fresh, "getVersioning")

\* Of the bucket as last read: a dry run that would create it reads no further.
VersioningDiffers == want.value # Unset /\ Effective(read.versioning) # want.value

\* A bucket gone by now is an error.
GetVersioning ==
  Read("getVersioning", IfExists,
       IF srv.exists THEN Decide(VersioningDiffers', "putVersioning")
       ELSE FailJson("notfound") /\ UNCHANGED changed)

PutVersioning == Write("putVersioning", IfExists, [srv EXCEPT !.versioning = want.value], "exit")

\* Whatever error answers, the message blames the bucket's content (one of the
\* network or of authorization is wrapped alike; Call keeps the two apart).
DeleteBucket ==
  LET class == IF srv.exists /\ srv.content THEN "conflict" ELSE IfExists
  IN  Call("delete", class, NoBucket,
           /\ UNCHANGED <<read, changed>>
           /\ IF class = "ok" THEN Exit ELSE FailJson("must be emptied first"))
-----------------------------------------------------------------------------
(* bucket_lifecycle                                                        *)

\* NoSuchLifecycleConfiguration and NoSuchBucket both read as "no rules".
GetRules ==
  Read("getRules", IF srv.rules # NoRules THEN "ok" ELSE "notfound",
       IF want.state = "absent" THEN Decide(srv.rules # NoRules, "deleteRules")
       ELSE IF want.value = NoRules THEN FailJson("refused") /\ UNCHANGED changed
       ELSE Decide(srv.rules # want.value, "putRules"))

PutRules    == Write("putRules", IfExists, [srv EXCEPT !.rules = want.value], "exit")
DeleteRules == Write("deleteRules", IfExists, [srv EXCEPT !.rules = NoRules], "exit")
-----------------------------------------------------------------------------
(* bucket_quota                                                            *)

DesiredQuota == IF want.state = "absent" THEN 0 ELSE want.value

\* A size that cannot be parsed, or is not positive, is refused unseen.
CheckSize == Check("checkSize", want.state = "present" /\ want.value = 0, "getQuota")

\* No quota, and no bucket, read as 0.
GetQuota ==
  Read("getQuota", IfExists,
       Decide(srv.quota # DesiredQuota, IF want.state = "present" THEN "setQuota" ELSE "clearQuota"))

SetQuota   == Write("setQuota", IfExists, [srv EXCEPT !.quota = DesiredQuota], "exit")
ClearQuota == Write("clearQuota", IfExists, [srv EXCEPT !.quota = 0], "exit")
-----------------------------------------------------------------------------
BucketStep ==
  \/ HeadBucket \/ CreateBucket \/ GetVersioning \/ PutVersioning \/ DeleteBucket
  \/ GetRules \/ PutRules \/ DeleteRules
  \/ CheckSize \/ GetQuota \/ SetQuota \/ ClearQuota
-----------------------------------------------------------------------------
\* What exit_json says of the bucket, its rules or its quota: computed, not read.
BucketReturned ==
  CASE want.module = "bucket" /\ want.state = "absent" -> [exists |-> FALSE]
    [] want.module = "bucket" /\ want.state = "present" ->
         [exists |-> TRUE, versioning |-> IF VersioningDiffers THEN want.value ELSE read.versioning]
    [] want.module = "bucket_lifecycle" ->
         [rules |-> IF want.state = "absent" THEN NoRules ELSE want.value]
    [] want.module = "bucket_quota" -> [quota |-> IF changed THEN DesiredQuota ELSE read.quota]
=============================================================================
