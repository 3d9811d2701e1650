------------------------------ MODULE Resources ------------------------------
(***************************************************************************)
(* What the resource modules manage, one resource at a time: what a server *)
(* can hold, the parameters a module takes, and what they ask for. No      *)
(* state here; ApiTask and the modules that extend it reach for it.        *)
(***************************************************************************)
EXTENDS Integers

CONSTANTS
  Unset,       \* a parameter left out
  Rulesets,    \* canonical non-empty lifecycle rulesets
  NoRules,     \* the empty ruleset
  Sizes,       \* quotas in bytes
  Policy,      \* the name of the canned policy
  Builtins,    \* names of policies the server always has
  Documents,   \* canonical policy documents
  NoDocument,  \* there is no such policy
  Secrets,     \* secret keys
  NoSecret,    \* the secret of nobody
  Users        \* access keys that may be members of a group

ASSUME ResourceAssumption ==
  /\ NoRules \notin Rulesets /\ Sizes \subseteq Nat \ {0}
  /\ Policy \notin Builtins /\ NoDocument \notin Documents
  /\ NoSecret \notin Secrets
  /\ Unset \notin Secrets \cup {"enabled", "suspended", "disabled"}

States == {"present", "absent"}

\* p, or what holds when it is left out.
Default(p, otherwise) == IF p = Unset THEN otherwise ELSE p
-----------------------------------------------------------------------------
(* A bucket with its lifecycle rules and its quota. content: it holds      *)
(* objects, or noncurrent versions of some.                                *)

Versioning == {"unconfigured", "enabled", "suspended"}
NoBucket == [kind |-> "bucket", exists |-> FALSE, content |-> FALSE, versioning |-> "unconfigured",
             rules |-> NoRules, quota |-> 0]
Fresh    == [NoBucket EXCEPT !.exists = TRUE]
Buckets  == {NoBucket} \cup
  [kind : {"bucket"}, exists : {TRUE}, content : BOOLEAN, versioning : Versioning,
   rules : Rulesets \cup {NoRules}, quota : Sizes \cup {0}]

BucketWants ==
  [module : {"bucket"}, state : States, value : {Unset, "enabled", "suspended"}]
  \cup [module : {"bucket_lifecycle"}, state : States, value : Rulesets \cup {NoRules}]
  \cup [module : {"bucket_quota"}, state : States, value : Sizes \cup {0}]

\* What the parameters w ask of bucket b, and whether that can be had: a bucket
\* with content cannot be removed, and only what exists can be configured.
BucketGoal(w, b) ==
  CASE w.module = "bucket" /\ w.state = "absent"  -> NoBucket
    [] w.module = "bucket" /\ w.state = "present" ->
         LET e == IF b.exists THEN b ELSE Fresh
         IN  IF w.value # Unset /\ (e.versioning = "enabled") # (w.value = "enabled")
             THEN [e EXCEPT !.versioning = w.value] ELSE e
    [] w.module = "bucket_lifecycle" ->
         [b EXCEPT !.rules = IF w.state = "absent" THEN NoRules ELSE w.value]
    [] w.module = "bucket_quota"     ->
         [b EXCEPT !.quota = IF w.state = "absent" THEN 0 ELSE w.value]

BucketAttainable(w, b) ==
  CASE w.module = "bucket"           -> w.state = "absent" => ~b.content
    [] w.module = "bucket_lifecycle" -> w.state = "present" => b.exists /\ w.value # NoRules
    [] w.module = "bucket_quota"     -> w.state = "present" => b.exists /\ w.value # 0
-----------------------------------------------------------------------------
(* A canned policy, and a user or group with what is attached to it. A     *)
(* policy exists while it is attached, a missing entity has nothing        *)
(* attached.                                                               *)

Accesses ==
  {s \in [kind : {"access"}, document : Documents \cup {NoDocument}, entity : BOOLEAN,
          attached : SUBSET ({Policy} \cup Builtins)] :
     /\ Policy \in s.attached => s.document # NoDocument
     /\ s.attached # {} => s.entity}

AccessWants ==
  [module : {"policy"}, state : States, document : Documents]
  \cup [module : {"policy_attachment"}, policies : SUBSET ({Policy} \cup Builtins),
        exclusive : BOOLEAN]

\* The additive mode keeps the extras, the exclusive mode drops them.
AccessGoal(w, s) ==
  IF w.module = "policy"
  THEN [s EXCEPT !.document = IF w.state = "absent" THEN NoDocument ELSE w.document]
  ELSE [s EXCEPT !.attached = IF w.exclusive THEN w.policies ELSE s.attached \cup w.policies]

AccessAttainable(w, s) ==
  IF w.module = "policy"
  THEN w.state = "absent" => Policy \notin s.attached
  ELSE /\ w.policies # {} /\ s.entity
       /\ Policy \in w.policies => s.document # NoDocument
-----------------------------------------------------------------------------
(* A user or service account, or a group.                                  *)

Statuses   == {"enabled", "disabled"}
Params     == Statuses \cup {Unset}
Keypair(k) == [kind : {k}, exists : {TRUE}, secret : Secrets, status : Statuses]
NoUser     == [kind |-> "user", exists |-> FALSE, secret |-> NoSecret, status |-> "enabled"]
NoAccount  == [NoUser EXCEPT !.kind = "service_account"]
NoGroup    == [kind |-> "group", exists |-> FALSE, members |-> {}, status |-> "enabled"]
Groups     == [kind : {"group"}, exists : {TRUE}, members : SUBSET Users, status : Statuses]
Identities == {NoUser, NoAccount, NoGroup} \cup Groups
              \cup Keypair("user") \cup Keypair("service_account")
Nobody(k)  == CASE k = "user" -> NoUser [] k = "group" -> NoGroup [] OTHER -> NoAccount

IdentityWants ==
  {w \in [module : {"user"}, state : States, secret : Secrets \cup {Unset},
          status : Params, update_secret : BOOLEAN] : w.update_secret => w.secret # Unset}
  \cup [module : {"group"}, state : States, members : {Unset} \cup SUBSET Users,
        append : BOOLEAN, status : Params]
  \cup [module : {"service_account"}, state : States, secret : Secrets \cup {Unset}]

UserGoal(w, u) ==
  IF u.exists
  THEN [u EXCEPT !.secret = IF w.update_secret THEN w.secret ELSE @,
                 !.status = Default(w.status, @)]
  ELSE [NoUser EXCEPT !.exists = TRUE, !.secret = w.secret,
                      !.status = Default(w.status, "enabled")]
GroupGoal(w, g) ==
  LET listed == Default(w.members, {})
  IN  [g EXCEPT !.exists = TRUE, !.status = Default(w.status, @),
                !.members = IF w.append \/ w.members = Unset THEN @ \cup listed ELSE listed]
AccountGoal(w, a) ==
  IF a.exists THEN a ELSE [a EXCEPT !.exists = TRUE, !.secret = w.secret]

IdentityGoal(w, s) ==
  CASE w.state = "absent"   -> Nobody(s.kind)
    [] w.state = "present" /\ w.module = "user"            -> UserGoal(w, s)
    [] w.state = "present" /\ w.module = "group"           -> GroupGoal(w, s)
    [] w.state = "present" /\ w.module = "service_account" -> AccountGoal(w, s)

\* A key pair has to be given a secret to begin with.
IdentityAttainable(w, s) ==
  w.state = "present" /\ w.module # "group" /\ ~s.exists => w.secret # Unset

\* A rotation counts as a change whatever the secret was.
Rotates(w, s) == w.module = "user" /\ w.state = "present" /\ w.update_secret /\ s.exists
-----------------------------------------------------------------------------
Kinds   == {"bucket", "access", "user", "group", "service_account"}
Servers == Buckets \cup Accesses \cup Identities
Wants   == BucketWants \cup AccessWants \cup IdentityWants

\* Which resource a module is about.
About(module) ==
  CASE module \in {"bucket", "bucket_lifecycle", "bucket_quota"} -> "bucket"
    [] module \in {"policy", "policy_attachment"}                -> "access"
    [] OTHER                                                     -> module

OfKind  == [k \in Kinds |-> {s \in Servers : s.kind = k}]
AnyWant == [k \in Kinds |-> CHOOSE w \in Wants : About(w.module) = k]

Goal(w, s) ==
  CASE s.kind = "bucket" -> BucketGoal(w, s)
    [] s.kind = "access" -> AccessGoal(w, s)
    [] OTHER             -> IdentityGoal(w, s)

Attainable(w, s) ==
  CASE s.kind = "bucket" -> BucketAttainable(w, s)
    [] s.kind = "access" -> AccessAttainable(w, s)
    [] OTHER             -> IdentityAttainable(w, s)

\* The parts of what w asks for, and those that s satisfies. Only a group is
\* brought about in parts: each member, and the status.
IsGroup(w) == w.module = "group" /\ w.state = "present"
Parts(w)   == IF IsGroup(w) THEN {"status"} \cup Users ELSE {"all"}
AsAsked(w, s) ==
  IF ~IsGroup(w) THEN {x \in {"all"} : Goal(w, s) = s}
  ELSE {x \in {"status"} : s.exists /\ s.status = Default(w.status, s.status)}
       \cup {u \in Users : u \in s.members <=> u \in GroupGoal(w, s).members}
=============================================================================
