---------------------------- MODULE DesiredState ----------------------------
(***************************************************************************)
(* The vocabulary of the rustfs_state role: what a RustFS server holds,    *)
(* what a per-host spec asks of it, and the two questions the role answers *)
(* about the pair - which changes are pending, and what the server looks   *)
(* like once they are made.                                                *)
(*                                                                         *)
(* Policy documents and lifecycle rulesets are canonical already (module   *)
(* Canonical is about that); a partial function maps the names that exist  *)
(* to what they hold, so "exists" is membership in its DOMAIN.             *)
(***************************************************************************)
EXTENDS FiniteSets

CONSTANTS
  Policies, Buckets, Users,  \* names
  Docs,                      \* canonical policy documents
  Rules,                     \* canonical non-empty lifecycle rulesets
  NoRules,                   \* the empty ruleset
  Secrets,                   \* secret keys
  Unset,                     \* a key the spec omits
  Grants,                    \* [Docs -> SUBSET Buckets]: what a document lets one list
  Builtin,                   \* rustfs_state_builtin_policies
  SpecPolicy,                \* rustfs_state_policies, by name
  SpecBucket,                \* rustfs_state_buckets, by name
  SpecUser                   \* rustfs_state_users, by name

BucketState == [versioning : {"unconfigured", "enabled", "suspended"}, rules : Rules \cup {NoRules}]
UserState   == [secret : Secrets, enabled : BOOLEAN, attached : SUBSET Policies]

BucketSpec == [versioning : {Unset, "enabled", "suspended"}, rules : Rules \cup {NoRules, Unset}]
UserSpec   == [secret : Secrets \cup {Unset}, policies : SUBSET Policies,
               liveness : Buckets \cup {Unset}]

\* The functions from a subset of S to T.
PartialFn(S, T) == UNION {[D -> T] : D \in SUBSET S}

\* f with k mapped to v, whether or not k was in its domain.
Put(f, k, v) == [x \in DOMAIN f \cup {k} |-> IF x = k THEN v ELSE f[x]]

ASSUME SpecAssumption ==
  /\ SpecPolicy \in PartialFn(Policies, Docs)
  /\ SpecBucket \in PartialFn(Buckets, BucketSpec)
  /\ SpecUser \in PartialFn(Users, UserSpec)
  /\ Grants \in [Docs -> SUBSET Buckets]
  /\ Builtin \subseteq Policies
  /\ NoRules \notin Rules
  /\ Unset \notin Rules \cup {NoRules} \cup Secrets \cup Buckets
               \cup {"unconfigured", "enabled", "suspended"}

\* A bucket as CreateBucket leaves it, a user as add-user leaves it.
NewBucket  == [versioning |-> "unconfigured", rules |-> NoRules]
NewUser(s) == [secret |-> s, enabled |-> TRUE, attached |-> {}]

-----------------------------------------------------------------------------
(* A server s is a record of the three partial functions.                  *)

\* The pair a liveness check uses authenticates and may list the bucket.
Usable(s, u) ==
  /\ u \in DOMAIN s.user
  /\ s.user[u].secret = SpecUser[u].secret
  /\ s.user[u].enabled
  /\ SpecUser[u].liveness \in DOMAIN s.bucket
  /\ \E p \in s.user[u].attached \cap DOMAIN s.policy :
        SpecUser[u].liveness \in Grants[s.policy[p]]

\* The two versioning states a spec can ask for differ in one bit; a bucket
\* nobody ever configured keeps no versions, like a suspended one.
KeepsVersions(versioning) == versioning = "enabled"
VersioningDiffers(b, now) ==
  /\ SpecBucket[b].versioning # Unset
  /\ KeepsVersions(now) # KeepsVersions(SpecBucket[b].versioning)

Ruled == {b \in DOMAIN SpecBucket : SpecBucket[b].rules # Unset}

BucketOr(s, b) == IF b \in DOMAIN s.bucket THEN s.bucket[b] ELSE NewBucket
AttachedTo(s, u) == IF u \in DOMAIN s.user THEN s.user[u].attached ELSE {}
Missing(s, u) == SpecUser[u].policies \ AttachedTo(s, u)

\* Every difference between the spec and server s, as the role reports them.
Pending(s) ==
  {<<"policy", p, "create">> : p \in DOMAIN SpecPolicy \ DOMAIN s.policy}
  \cup {<<"policy", p, "update">> : p \in {q \in DOMAIN SpecPolicy \cap DOMAIN s.policy :
                                             s.policy[q] # SpecPolicy[q]}}
  \cup {<<"bucket", b, "create">> : b \in DOMAIN SpecBucket \ DOMAIN s.bucket}
  \cup {<<"bucket", b, "versioning">> :
          b \in {c \in DOMAIN SpecBucket : VersioningDiffers(c, BucketOr(s, c).versioning)}}
  \cup {<<"bucket", b, "lifecycle">> : b \in {c \in Ruled : BucketOr(s, c).rules # SpecBucket[c].rules}}
  \cup {<<"user", u, "create">> : u \in DOMAIN SpecUser \ DOMAIN s.user}
  \cup {<<"user", u, "attach", Missing(s, u)>> : u \in {v \in DOMAIN SpecUser : Missing(s, v) # {}}}

\* What server s holds that the spec does not speak of.
Unmanaged(s) ==
  {<<"policy", p, "unmanaged">> : p \in (DOMAIN s.policy \ Builtin) \ DOMAIN SpecPolicy}
  \cup {<<"bucket", b, "unmanaged">> : b \in DOMAIN s.bucket \ DOMAIN SpecBucket}
  \cup {<<"user", u, "unmanaged">> : u \in DOMAIN s.user \ DOMAIN SpecUser}
  \cup {<<"user", u, "extra", AttachedTo(s, u) \ SpecUser[u].policies>> :
          u \in {v \in DOMAIN SpecUser : ~ AttachedTo(s, v) \subseteq SpecUser[v].policies}}

\* Server s with everything the spec asks for merged in and nothing else moved:
\* what is not in the spec stays, and so do secrets, status, extra attachments
\* and a versioning state that already means what the spec asks for.
Merged(s) ==
  [policy |-> [p \in DOMAIN s.policy \cup DOMAIN SpecPolicy |->
                 IF p \in DOMAIN SpecPolicy THEN SpecPolicy[p] ELSE s.policy[p]],
   bucket |-> [b \in DOMAIN s.bucket \cup DOMAIN SpecBucket |->
                 [versioning |-> IF b \in DOMAIN SpecBucket /\ VersioningDiffers(b, BucketOr(s, b).versioning)
                                 THEN SpecBucket[b].versioning ELSE BucketOr(s, b).versioning,
                  rules      |-> IF b \in Ruled THEN SpecBucket[b].rules ELSE BucketOr(s, b).rules]],
   user   |-> [u \in DOMAIN s.user \cup DOMAIN SpecUser |->
                 LET now == IF u \in DOMAIN s.user THEN s.user[u] ELSE NewUser(SpecUser[u].secret)
                 IN  IF u \in DOMAIN SpecUser
                     THEN [now EXCEPT !.attached = @ \cup SpecUser[u].policies] ELSE now]]
=============================================================================
