----------------------------- MODULE RoleProofs -----------------------------
(***************************************************************************)
(* Theorems about RoleReconcile, for every spec, every server and every    *)
(* operator: what no step of the role may do, and, when the operator keeps *)
(* out of the runs, that every step of the role is an atomic merge. The    *)
(* invariant behind them has three parts: TypeOK, what a module has in     *)
(* hand when a call goes out (InHand), and, while nobody interferes, that  *)
(* what it read is still so when it writes (StillSo).                      *)
(***************************************************************************)
EXTENDS RoleReconcile, TLAPS

(* PartialFn and Put of DesiredState, the two operators every state of the *)
(* server is built with.                                                   *)

\* Membership, unfolded: the domain is in S and every value is in T.
LEMMA PartialFnElim ==
  ASSUME NEW S, NEW T, NEW f \in PartialFn(S, T)
  PROVE  /\ DOMAIN f \subseteq S
         /\ \A x \in DOMAIN f : f[x] \in T
         /\ f = [x \in DOMAIN f |-> f[x]]
  BY DEF PartialFn

LEMMA PartialFnIntro ==
  ASSUME NEW S, NEW T, NEW D \in SUBSET S, NEW f \in [D -> T]
  PROVE  f \in PartialFn(S, T)
  BY DEF PartialFn

\* Put stays in the type, and changes the function at k only.
LEMMA PutType ==
  ASSUME NEW S, NEW T, NEW f \in PartialFn(S, T), NEW k \in S, NEW v \in T
  PROVE  /\ Put(f, k, v) \in PartialFn(S, T)
         /\ DOMAIN Put(f, k, v) = DOMAIN f \cup {k}
         /\ Put(f, k, v)[k] = v
         /\ \A x \in DOMAIN f : x # k => Put(f, k, v)[x] = f[x]
<1> DEFINE D == DOMAIN f \cup {k}
<1>1. D \in SUBSET S
  BY PartialFnElim
<1>2. Put(f, k, v) \in [D -> T]
  BY PartialFnElim DEF Put
<1>3. Put(f, k, v) \in PartialFn(S, T)
  BY <1>1, <1>2, PartialFnIntro
<1>4. QED
  BY <1>3 DEF Put

\* So does an update in place.
LEMMA UpdateType ==
  ASSUME NEW S, NEW T, NEW f \in PartialFn(S, T), NEW k \in DOMAIN f, NEW v \in T
  PROVE  [f EXCEPT ![k] = v] \in PartialFn(S, T)
<1>1. DOMAIN f \in SUBSET S
  BY PartialFnElim
<1>2. [f EXCEPT ![k] = v] \in [DOMAIN f -> T]
  BY PartialFnElim
<1>3. QED
  BY <1>1, <1>2, PartialFnIntro

\* So does taking one name away.
LEMMA RemoveType ==
  ASSUME NEW S, NEW T, NEW f \in PartialFn(S, T), NEW k
  PROVE  [x \in DOMAIN f \ {k} |-> f[x]] \in PartialFn(S, T)
<1> DEFINE D == DOMAIN f \ {k}
<1>1. D \in SUBSET S
  BY PartialFnElim
<1>2. [x \in D |-> f[x]] \in [D -> T]
  BY PartialFnElim
<1>3. QED
  BY <1>1, <1>2, PartialFnIntro

\* What the assumption on the spec says of one item of it.
LEMMA SpecItems ==
  /\ \A p \in DOMAIN SpecPolicy : p \in Policies /\ SpecPolicy[p] \in Docs
  /\ \A b \in DOMAIN SpecBucket : b \in Buckets /\ SpecBucket[b] \in BucketSpec
  /\ \A u \in DOMAIN SpecUser : u \in Users /\ SpecUser[u] \in UserSpec
<1>1. \A p \in DOMAIN SpecPolicy : p \in Policies /\ SpecPolicy[p] \in Docs
  BY SpecAssumption, PartialFnElim
<1>2. \A b \in DOMAIN SpecBucket : b \in Buckets /\ SpecBucket[b] \in BucketSpec
  BY SpecAssumption, PartialFnElim
<1>3. \A u \in DOMAIN SpecUser : u \in Users /\ SpecUser[u] \in UserSpec
  BY SpecAssumption, PartialFnElim
<1>4. QED
  BY <1>1, <1>2, <1>3

\* What add-user and CreateBucket leave is of the right type.
LEMMA NewTypes ==
  /\ NewBucket \in BucketState
  /\ \A s \in Secrets : NewUser(s) \in UserState
  BY DEF NewBucket, BucketState, NewUser, UserState
-----------------------------------------------------------------------------
(* The types.                                                              *)

ServerTypeOK ==
  /\ policy \in PartialFn(Policies, Docs)
  /\ bucket \in PartialFn(Buckets, BucketState)
  /\ user \in PartialFn(Users, UserState)

\* The six calls that change the server.
WriteCalls == PutPolicy \/ CreateBucket \/ PutVersioning \/ PutRules \/ AddUser \/ SetAttached

\* Every other step of the role leaves the server alone.
LEMMA OnlyWritesWrite ==
  ASSUME RoleStep, ~WriteCalls
  PROVE  UNCHANGED server
<1> USE DEF server, Quiet
<1>1. CASE Preflight \/ ProbeAdmin \/ AssertKnownPolicies \/ NextLoop \/ RecordUnmanaged
           \/ Gates \/ CallFails
  BY <1>1 DEF Preflight, ProbeAdmin, AssertKnownPolicies, NextLoop, RecordUnmanaged, Gates, CallFails
<1>2. CASE ReadBuckets \/ ReadPolicies \/ ReadUsers
  BY <1>2 DEF ReadBuckets, ReadPolicies, ReadUsers
<1>3. CASE \E p \in DOMAIN SpecPolicy : GetPolicy(p)
  BY <1>3 DEF GetPolicy
<1>4. CASE (\E b \in DOMAIN SpecBucket : HeadBucket(b)) \/ GetVersioning \/ RecordBucket \/ GetRules
  BY <1>4 DEF HeadBucket, GetVersioning, RecordBucket, GetRules
<1>5. CASE (\E u \in DOMAIN SpecUser : GetUser(u)) \/ RecordUser \/ GetAttached \/ RecordExtra
  BY <1>5 DEF GetUser, RecordUser, GetAttached, RecordExtra
<1>6. CASE \E u \in DOMAIN SpecUser : ProbeUser(u) \/ ProbeFails(u)
  BY <1>6 DEF ProbeUser, ProbeFails
<1>7. QED
  BY <1>1, <1>2, <1>3, <1>4, <1>5, <1>6 DEF RoleStep, WriteCalls

-----------------------------------------------------------------------------
(* The invariant: InHand.                                                  *)

LEMMA InHandInit == Init => InHand
  BY DEF Init, InHand, BucketSteps, UserSteps, WriteSteps

\* The steps that stand between items, or outside the loops, hand nothing on.
Idling == {"idle", "preflight", "known", "policies", "buckets", "users", "liveness",
           "record", "gates", "probe", "readBuckets", "readPolicies", "readUsers"}

LEMMA NothingInHand == ASSUME pc' \in Idling PROVE InHand'
  BY DEF Idling, InHand, BucketSteps, UserSteps, WriteSteps

LEMMA InHandStep ==
  ASSUME mode \in {"check", "converge"}, InHand, [Next]_vars
  PROVE  InHand'
<1> USE DEF Quiet, Writes, cursor, Goto, Fail, Lost, ItemDone, Dry
<1>1. CASE Preflight \/ ProbeAdmin \/ ReadBuckets \/ ReadPolicies \/ ReadUsers
           \/ AssertKnownPolicies \/ NextLoop
  <2>1. pc' \in Idling
    BY <1>1 DEF Idling, Preflight, ProbeAdmin, ReadBuckets, ReadPolicies, ReadUsers,
                AssertKnownPolicies, NextLoop
  <2>2. QED
    BY <2>1, NothingInHand
<1>2. CASE \E p \in DOMAIN SpecPolicy : GetPolicy(p)
  BY <1>2 DEF GetPolicy, InHand, BucketSteps, UserSteps, WriteSteps
<1>3. CASE PutPolicy \/ PutRules \/ RecordExtra \/ RecordUnmanaged \/ Gates \/ CallFails
  <2>1. pc' \in Idling
    BY <1>3 DEF Idling, PutPolicy, PutRules, RecordExtra, RecordUnmanaged, Gates, CallFails
  <2>2. QED
    BY <2>1, NothingInHand
<1>4. CASE \E b \in DOMAIN SpecBucket : HeadBucket(b)
  BY <1>4 DEF HeadBucket, InHand, BucketSteps, UserSteps, WriteSteps
<1>5. CASE CreateBucket
  BY <1>5 DEF CreateBucket, InHand, BucketSteps, UserSteps, WriteSteps
<1>6. CASE GetVersioning
  BY <1>6 DEF GetVersioning, MustMove, InHand, BucketSteps, UserSteps, WriteSteps
<1>7. CASE PutVersioning
  BY <1>7 DEF PutVersioning, InHand, BucketSteps, UserSteps, WriteSteps
<1>8. CASE RecordBucket
  BY <1>8 DEF RecordBucket, InHand, BucketSteps, UserSteps, WriteSteps
<1>9. CASE GetRules
  BY <1>9 DEF GetRules, InHand, BucketSteps, UserSteps, WriteSteps
<1>10. CASE \E u \in DOMAIN SpecUser : GetUser(u)
  BY <1>10 DEF GetUser, InHand, BucketSteps, UserSteps, WriteSteps
<1>11. CASE AddUser
  BY <1>11 DEF AddUser, InHand, BucketSteps, UserSteps, WriteSteps
<1>12. CASE RecordUser
  BY <1>12 DEF RecordUser, InHand, BucketSteps, UserSteps, WriteSteps
<1>13. CASE GetAttached
  BY <1>13 DEF GetAttached, InHand, BucketSteps, UserSteps, WriteSteps
<1>14. CASE SetAttached
  BY <1>14 DEF SetAttached, InHand, BucketSteps, UserSteps, WriteSteps
<1>15. CASE \E u \in DOMAIN SpecUser : ProbeUser(u) \/ ProbeFails(u)
  <2>1. pc' \in Idling
    BY <1>15 DEF Idling, ProbeUser, ProbeFails
  <2>2. QED
    BY <2>1, NothingInHand
<1>16. CASE \E m \in {"check", "converge"} : StartRun(m)
  <2>1. pc' \in Idling
    BY <1>16 DEF Idling, StartRun
  <2>2. QED
    BY <2>1, NothingInHand
<1>17. CASE Operator
  BY <1>17 DEF Operator, InHand
<1>18. CASE UNCHANGED vars
  BY <1>18 DEF vars, InHand
<1>19. QED
  BY <1>1, <1>2, <1>3, <1>4, <1>5, <1>6, <1>7, <1>8, <1>9, <1>10, <1>11, <1>12, <1>13,
     <1>14, <1>15, <1>16, <1>17, <1>18 DEF Next, RoleStep

-----------------------------------------------------------------------------
(* Type correctness.                                                       *)

\* Whatever the role writes, the server's state stays in its type.
LEMMA WriteType ==
  ASSUME TypeOK, InHand, WriteCalls
  PROVE  ServerTypeOK'
<1> USE SpecItems, NewTypes DEF TypeOK, ServerTypeOK, InHand, BucketSteps, UserSteps
<1>1. CASE PutPolicy
  <2>1. policy' \in PartialFn(Policies, Docs)
    BY <1>1, PutType DEF PutPolicy
  <2>2. QED
    BY <1>1, <2>1 DEF PutPolicy
<1>2. CASE CreateBucket
  <2>1. bucket' \in PartialFn(Buckets, BucketState)
    BY <1>2, PutType DEF CreateBucket
  <2>2. QED
    BY <1>2, <2>1 DEF CreateBucket
<1>3. CASE PutVersioning
  <2>1. CASE item \in DOMAIN bucket
    <3>1. bucket[item] \in BucketState
      BY <2>1, PartialFnElim
    <3>2. [bucket[item] EXCEPT !.versioning = SpecBucket[item].versioning] \in BucketState
      BY <1>3, <3>1 DEF PutVersioning, BucketState, BucketSpec
    <3>3. bucket' = [bucket EXCEPT ![item] =
                       [bucket[item] EXCEPT !.versioning = SpecBucket[item].versioning]]
      BY <1>3, <2>1 DEF PutVersioning
    <3>4. bucket' \in PartialFn(Buckets, BucketState)
      BY <2>1, <3>2, <3>3, UpdateType
    <3>5. QED
      BY <1>3, <3>4 DEF PutVersioning
  <2>2. CASE item \notin DOMAIN bucket
    BY <1>3, <2>2 DEF PutVersioning
  <2>3. QED
    BY <2>1, <2>2
<1>4. CASE PutRules
  <2>1. CASE item \in DOMAIN bucket
    <3>1. bucket[item] \in BucketState
      BY <2>1, PartialFnElim
    <3>2. [bucket[item] EXCEPT !.rules = SpecBucket[item].rules] \in BucketState
      BY <1>4, <3>1 DEF PutRules, BucketState, BucketSpec
    <3>3. bucket' = [bucket EXCEPT ![item] = [bucket[item] EXCEPT !.rules = SpecBucket[item].rules]]
      BY <1>4, <2>1 DEF PutRules
    <3>4. bucket' \in PartialFn(Buckets, BucketState)
      BY <2>1, <3>2, <3>3, UpdateType
    <3>5. QED
      BY <1>4, <3>4 DEF PutRules
  <2>2. CASE item \notin DOMAIN bucket
    BY <1>4, <2>2 DEF PutRules
  <2>3. QED
    BY <2>1, <2>2
<1>5. CASE AddUser
  <2>1. item \in Users /\ SpecUser[item].secret \in Secrets
    BY <1>5 DEF AddUser, UserSpec
  <2>2. CASE item \in DOMAIN user
    <3>1. user[item] \in UserState
      BY <2>2, PartialFnElim
    <3> DEFINE account == [user[item] EXCEPT !.secret = SpecUser[item].secret, !.enabled = TRUE]
    <3>2. account \in UserState
      BY <2>1, <3>1 DEF UserState
    <3>3. user' = [user EXCEPT ![item] = account]
      BY <1>5, <2>2 DEF AddUser
    <3>4. user' \in PartialFn(Users, UserState)
      BY <2>2, <3>2, <3>3, UpdateType
    <3>5. QED
      BY <1>5, <3>4 DEF AddUser
  <2>3. CASE item \notin DOMAIN user
    <3>1. user' = Put(user, item, NewUser(SpecUser[item].secret))
      BY <1>5, <2>3 DEF AddUser
    <3>2. user' \in PartialFn(Users, UserState)
      BY <2>1, <3>1, PutType
    <3>3. QED
      BY <1>5, <3>2 DEF AddUser
  <2>4. QED
    BY <2>2, <2>3
<1>6. CASE SetAttached
  <2>1. CASE user' = user
    BY <1>6, <2>1 DEF SetAttached
  <2>2. CASE item \in DOMAIN user /\ user' = [user EXCEPT ![item].attached = held]
    <3>1. user[item] \in UserState
      BY <2>2, PartialFnElim
    <3> DEFINE account == [user[item] EXCEPT !.attached = held]
    <3>2. account \in UserState
      BY <3>1 DEF UserState
    <3>3. user' = [user EXCEPT ![item] = account]
      BY <2>2
    <3> HIDE DEF account
    <3>4. user \in PartialFn(Users, UserState) /\ item \in DOMAIN user
      BY <2>2
    <3>6. user' \in PartialFn(Users, UserState)
      BY <3>2, <3>3, <3>4, UpdateType
    <3>5. QED
      BY <1>6, <3>6 DEF SetAttached
  <2>3. QED
    BY <1>6, <2>1, <2>2 DEF SetAttached
<1>7. QED
  BY <1>1, <1>2, <1>3, <1>4, <1>5, <1>6 DEF WriteCalls

\* Neither does the operator break it.
LEMMA OperatorType ==
  ASSUME TypeOK, Operator
  PROVE  ServerTypeOK'
<1> USE SpecAssumption, NewTypes DEF TypeOK, ServerTypeOK
<1>1. CASE OperatorPolicy
  <2>1. PICK p \in Policies : \/ \E d \in Docs : policy' = Put(policy, p, d)
                             \/ policy' = [q \in DOMAIN policy \ {p} |-> policy[q]]
    BY <1>1, PartialFnElim DEF OperatorPolicy
  <2>2. policy \in PartialFn(Policies, Docs)
    OBVIOUS
  <2>3. policy' \in PartialFn(Policies, Docs)
    <3>1. CASE \E d \in Docs : policy' = Put(policy, p, d)
      <4>1. PICK d \in Docs : policy' = Put(policy, p, d)
        BY <3>1
      <4>2. QED
        BY <2>2, <4>1, PutType
    <3>2. CASE policy' = [q \in DOMAIN policy \ {p} |-> policy[q]]
      BY <2>2, <3>2, RemoveType
    <3>3. QED
      BY <2>1, <3>1, <3>2
  <2>4. QED
    BY <1>1, <2>3 DEF OperatorPolicy
<1>2. CASE OperatorBucket
  <2>1. CASE \E b \in Buckets \ DOMAIN bucket : bucket' = Put(bucket, b, NewBucket)
    <3> PICK b \in Buckets : bucket' = Put(bucket, b, NewBucket)
      BY <2>1
    <3>0. bucket \in PartialFn(Buckets, BucketState) /\ NewBucket \in BucketState
      OBVIOUS
    <3>1. bucket' \in PartialFn(Buckets, BucketState)
      BY <3>0, PutType
    <3>2. QED
      BY <1>2, <3>1 DEF OperatorBucket
  <2>2. ASSUME NEW b \in DOMAIN bucket, bucket' = [c \in DOMAIN bucket \ {b} |-> bucket[c]]
        PROVE  ServerTypeOK'
    BY <1>2, <2>2, RemoveType DEF OperatorBucket
  <2>3. ASSUME NEW b \in DOMAIN bucket, NEW v \in {"enabled", "suspended"},
               bucket' = [bucket EXCEPT ![b].versioning = v]
        PROVE  ServerTypeOK'
    <3> DEFINE new == [bucket[b] EXCEPT !.versioning = v]
    <3>0. bucket[b] \in BucketState
      BY PartialFnElim
    <3>1. new \in BucketState
      BY <3>0 DEF BucketState
    <3>2. bucket' = [bucket EXCEPT ![b] = new]
      BY <2>3
    <3> HIDE DEF new
    <3>3. bucket' \in PartialFn(Buckets, BucketState)
      BY <3>1, <3>2, UpdateType
    <3>4. QED
      BY <1>2, <3>3 DEF OperatorBucket
  <2>4. ASSUME NEW b \in DOMAIN bucket, NEW r \in Rules \cup {NoRules},
               bucket' = [bucket EXCEPT ![b].rules = r]
        PROVE  ServerTypeOK'
    <3> DEFINE new == [bucket[b] EXCEPT !.rules = r]
    <3>0. bucket[b] \in BucketState
      BY PartialFnElim
    <3>1. new \in BucketState
      BY <3>0 DEF BucketState
    <3>2. bucket' = [bucket EXCEPT ![b] = new]
      BY <2>4
    <3> HIDE DEF new
    <3>3. bucket' \in PartialFn(Buckets, BucketState)
      BY <3>1, <3>2, UpdateType
    <3>4. QED
      BY <1>2, <3>3 DEF OperatorBucket
  <2>5. QED
    BY <1>2, <2>1, <2>2, <2>3, <2>4 DEF OperatorBucket
<1>3. CASE OperatorUser
  <2>1. CASE \E u \in Users \ DOMAIN user, s \in Secrets : user' = Put(user, u, NewUser(s))
    <3> PICK u \in Users, s \in Secrets : user' = Put(user, u, NewUser(s))
      BY <2>1
    <3> DEFINE account == NewUser(s)
    <3>0. user \in PartialFn(Users, UserState) /\ account \in UserState
      OBVIOUS
    <3> HIDE DEF account
    <3>1. Put(user, u, account) \in PartialFn(Users, UserState)
      BY <3>0, PutType
    <3>2. QED
      BY <1>3, <3>1 DEF OperatorUser, account
  <2>2. ASSUME NEW u \in DOMAIN user, user' = [v \in DOMAIN user \ {u} |-> user[v]]
        PROVE  ServerTypeOK'
    BY <1>3, <2>2, RemoveType DEF OperatorUser
  <2>3. ASSUME NEW u \in DOMAIN user, NEW account \in UserState,
               user' = [user EXCEPT ![u] = account]
        PROVE  ServerTypeOK'
    <3>1. user' \in PartialFn(Users, UserState)
      BY <2>3, UpdateType
    <3>2. QED
      BY <1>3, <3>1 DEF OperatorUser
  <2>4. ASSUME NEW u \in DOMAIN user, NEW s \in Secrets, user' = [user EXCEPT ![u].secret = s]
        PROVE  ServerTypeOK'
    <3>5. user[u] \in UserState
      BY PartialFnElim
    <3>1. [user[u] EXCEPT !.secret = s] \in UserState
      BY <3>5 DEF UserState
    <3>2. user' = [user EXCEPT ![u] = [user[u] EXCEPT !.secret = s]]
      BY <2>4
    <3>3. QED
      BY <2>3, <3>1, <3>2
  <2>5. ASSUME NEW u \in DOMAIN user, user' = [user EXCEPT ![u].enabled = ~@]
        PROVE  ServerTypeOK'
    <3>1. user[u] \in UserState
      BY PartialFnElim
    <3>2. (~user[u].enabled) \in BOOLEAN
      OBVIOUS
    <3>3. [user[u] EXCEPT !.enabled = ~user[u].enabled] \in UserState
      BY <3>1, <3>2, Zenon DEF UserState
    <3>4. user' = [user EXCEPT ![u] = [user[u] EXCEPT !.enabled = ~user[u].enabled]]
      BY <2>5, Zenon
    <3>5. QED
      BY <2>3, <3>3, <3>4
  <2>6. ASSUME NEW u \in DOMAIN user, NEW S \in SUBSET Attachable,
               user' = [user EXCEPT ![u].attached = S]
        PROVE  ServerTypeOK'
    <3>1. Attachable \subseteq Policies
      BY PartialFnElim DEF Attachable
    <3>5. user[u] \in UserState
      BY PartialFnElim
    <3>2. [user[u] EXCEPT !.attached = S] \in UserState
      BY <3>1, <3>5 DEF UserState
    <3>3. user' = [user EXCEPT ![u] = [user[u] EXCEPT !.attached = S]]
      BY <2>6
    <3>4. QED
      BY <2>3, <3>2, <3>3
  <2>7. QED
    BY <1>3, <2>1, <2>2, <2>4, <2>5, <2>6 DEF OperatorUser
<1>4. QED
  BY <1>1, <1>2, <1>3 DEF Operator

\* What TypeOK says of the run beside the server.
RunTypeOK ==
  /\ pc \in OtherSteps \cup ReadSteps \cup WriteSteps
  /\ mode \in {"check", "converge"}
  /\ snap \in [policies : SUBSET Policies, buckets : SUBSET Buckets,
              users : PartialFn(Users, SUBSET Policies)]
  /\ todo \subseteq LoopItems /\ item \in LoopItems \cup {Unset}
  /\ held \subseteq Policies /\ moved \in BOOLEAN
  /\ dead \subseteq DOMAIN SpecUser
  /\ outcome \in {"none", "failed", "dead", "unmanaged", "drift", "ok"}
  /\ calm \in BOOLEAN /\ ops \in Nat /\ faults \in Nat

LEMMA TypeParts == TypeOK <=> ServerTypeOK /\ RunTypeOK
  BY DEF TypeOK, ServerTypeOK, RunTypeOK

LEMMA TypeInit == Init => TypeOK
<1> SUFFICES ASSUME Init PROVE TypeOK
  OBVIOUS
<1>1. ServerTypeOK
  BY RunAssumption DEF Init, ServerTypeOK
<1>2. NoSnapshot.users \in PartialFn(Users, SUBSET Policies)
  <2>1. [u \in {} |-> {}] \in [{} -> SUBSET Policies]
    OBVIOUS
  <2>2. QED
    BY <2>1, PartialFnIntro DEF NoSnapshot
<1>3. RunTypeOK
  BY <1>2 DEF Init, RunTypeOK, OtherSteps, NoSnapshot
<1>4. QED
  BY <1>1, <1>3, TypeParts

\* The snapshot's users, read off the server.
LEMMA SnapshotUsers ==
  ASSUME ServerTypeOK
  PROVE  [u \in DOMAIN user |-> user[u].attached] \in PartialFn(Users, SUBSET Policies)
<1> DEFINE D == DOMAIN user
<1>1. D \in SUBSET Users /\ \A u \in D : user[u] \in UserState
  BY PartialFnElim DEF ServerTypeOK
<1>2. [u \in D |-> user[u].attached] \in [D -> SUBSET Policies]
  BY <1>1 DEF UserState
<1>3. QED
  BY <1>1, <1>2, PartialFnIntro

LEMMA RunTypeStep ==
  ASSUME TypeOK, InHand, [Next]_vars
  PROVE  RunTypeOK'
<1> USE SpecItems DEF TypeOK, RunTypeOK, Quiet, Writes, cursor, report, hist, Goto, Fail, Lost,
        ItemDone, OtherSteps, ReadSteps, WriteSteps
<1>1. CASE Preflight \/ ProbeAdmin \/ CallFails
  BY <1>1 DEF Preflight, ProbeAdmin, CallFails
<1>2. CASE ReadBuckets
  BY <1>2, PartialFnElim DEF ReadBuckets
<1>3. CASE ReadPolicies
  BY <1>3, PartialFnElim DEF ReadPolicies
<1>4. CASE ReadUsers
  <2>1. snap'.users \in PartialFn(Users, SUBSET Policies)
    BY <1>4, SnapshotUsers DEF ReadUsers, ServerTypeOK
  <2>2. QED
    BY <1>4, <2>1 DEF ReadUsers
<1>5. CASE AssertKnownPolicies
  BY <1>5 DEF AssertKnownPolicies, LoopItems
<1>6. CASE NextLoop
  BY <1>6 DEF NextLoop, Probed, LoopItems
<1>7. CASE \E p \in DOMAIN SpecPolicy : GetPolicy(p)
  BY <1>7 DEF GetPolicy, RecordPolicy, LoopItems
<1>8. CASE PutPolicy
  BY <1>8 DEF PutPolicy, RecordPolicy
<1>9. CASE \E b \in DOMAIN SpecBucket : HeadBucket(b)
  BY <1>9 DEF HeadBucket, MustMove, LoopItems
<1>10. CASE CreateBucket
  BY <1>10 DEF CreateBucket
<1>11. CASE GetVersioning
  BY <1>11 DEF GetVersioning, MustMove
<1>12. CASE PutVersioning
  BY <1>12 DEF PutVersioning
<1>13. CASE RecordBucket
  BY <1>13 DEF RecordBucket
<1>14. CASE GetRules \/ PutRules
  BY <1>14 DEF GetRules, PutRules, RecordRules
<1>15. CASE \E u \in DOMAIN SpecUser : GetUser(u)
  BY <1>15 DEF GetUser, LoopItems
<1>16. CASE AddUser \/ RecordUser
  BY <1>16 DEF AddUser, RecordUser
<1>17. CASE GetAttached
  <2>1. ASSUME item \in DOMAIN user
        PROVE  user[item].attached \cup SpecUser[item].policies \subseteq Policies
    <3>1. user[item] \in UserState
      BY <2>1, PartialFnElim
    <3>2. item \in DOMAIN SpecUser
      BY <1>17 DEF GetAttached, InHand, UserSteps
    <3>3. QED
      BY <3>1, <3>2 DEF UserState, UserSpec
  <2>2. held' \subseteq Policies
    BY <1>17, <2>1 DEF GetAttached, DesiredAttachment
  <2>3. QED
    BY <1>17, <2>2 DEF GetAttached
<1>18. CASE SetAttached
  BY <1>18 DEF SetAttached
<1>19. CASE RecordExtra
  BY <1>19 DEF RecordExtra
<1>20. CASE \E u \in DOMAIN SpecUser : ProbeUser(u) \/ ProbeFails(u)
  BY <1>20 DEF ProbeUser, ProbeFails, RecordDead
<1>21. CASE RecordUnmanaged
  BY <1>21 DEF RecordUnmanaged
<1>22. CASE Gates
  BY <1>22 DEF Gates, Verdict
<1>23. CASE \E m \in {"check", "converge"} : StartRun(m)
  <2>1. [u \in {} |-> {}] \in PartialFn(Users, SUBSET Policies)
    <3>1. [u \in {} |-> {}] \in [{} -> SUBSET Policies]
      OBVIOUS
    <3>2. QED
      BY <3>1, PartialFnIntro
  <2>2. QED
    <3>1. calm' \in BOOLEAN /\ moved' \in BOOLEAN
      BY <1>23, Zenon DEF StartRun
    <3>2. /\ pc' = "preflight" /\ mode' \in {"check", "converge"} /\ outcome' = "none"
          /\ todo' = {} /\ held' = {} /\ dead' = {}
          /\ UNCHANGED <<item, ops, faults>>
      BY <1>23 DEF StartRun
    <3>3. snap' = NoSnapshot
      BY <1>23 DEF StartRun
    <3>4. NoSnapshot \in [policies : SUBSET Policies, buckets : SUBSET Buckets,
                          users : PartialFn(Users, SUBSET Policies)]
      BY <2>1 DEF NoSnapshot
    <3>5. QED
      BY <3>1, <3>2, <3>3, <3>4
<1>24. CASE Operator
  <2>1. calm' \in BOOLEAN
    BY <1>24, Zenon DEF Operator
  <2>2. UNCHANGED <<pc, mode, snap, todo, item, held, moved, dead, outcome, faults>>
    BY <1>24 DEF Operator
  <2>3. ops' \in Nat
    BY <1>24 DEF Operator
  <2>4. QED
    BY <2>1, <2>2, <2>3
<1>25. CASE UNCHANGED vars
  BY <1>25 DEF vars
<1>26. QED
  BY <1>1, <1>2, <1>3, <1>4, <1>5, <1>6, <1>7, <1>8, <1>9, <1>10, <1>11, <1>12, <1>13, <1>14,
     <1>15, <1>16, <1>17, <1>18, <1>19, <1>20, <1>21, <1>22, <1>23, <1>24, <1>25
     DEF Next, RoleStep

LEMMA TypeStep ==
  ASSUME TypeOK, InHand, [Next]_vars
  PROVE  TypeOK'
<1>1. ServerTypeOK'
  <2>1. CASE UNCHANGED server
    BY <2>1 DEF server, TypeOK, ServerTypeOK
  <2>2. CASE RoleStep
    BY <2>1, <2>2, OnlyWritesWrite, WriteType
  <2>3. CASE \E m \in {"check", "converge"} : StartRun(m)
    BY <2>1, <2>3 DEF StartRun
  <2>4. CASE Operator
    BY <2>4, OperatorType
  <2>5. CASE UNCHANGED vars
    BY <2>1, <2>5 DEF vars
  <2>6. QED
    BY <2>2, <2>3, <2>4, <2>5 DEF Next
<1>2. RunTypeOK'
  BY RunTypeStep
<1>3. TypeOK' <=> ServerTypeOK' /\ RunTypeOK'
  BY DEF TypeOK, ServerTypeOK, RunTypeOK
<1>4. QED
  BY <1>1, <1>2, <1>3

\* Types are right in every run, and every call goes out for an item of the
\* spec that asks for it - a write never in check mode.
THEOREM TypeCorrect == Spec => [](TypeOK /\ InHand)
<1>1. Init => TypeOK /\ InHand
  BY TypeInit, InHandInit
<1>2. TypeOK /\ InHand /\ [Next]_vars => (TypeOK /\ InHand)'
  <2> SUFFICES ASSUME TypeOK, InHand, [Next]_vars PROVE TypeOK' /\ InHand'
    OBVIOUS
  <2>1. mode \in {"check", "converge"}
    BY DEF TypeOK
  <2>2. QED
    BY <2>1, TypeStep, InHandStep
<1>3. QED
  BY <1>1, <1>2, PTL DEF Spec
-----------------------------------------------------------------------------
\* A step that leaves ops alone is one of the role, the start of a run or a
\* stutter; the last two leave the server alone.
LEMMA RolesOwnSteps ==
  ASSUME TypeOK, [Next]_vars, ByRole
  PROVE  WriteCalls \/ UNCHANGED server
<1>1. CASE RoleStep
  BY <1>1, OnlyWritesWrite
<1>2. CASE \E m \in {"check", "converge"} : StartRun(m)
  BY <1>2 DEF StartRun
<1>3. CASE Operator
  <2>1. ops \in Nat /\ ops' = ops + 1 /\ ops' = ops
    BY <1>3 DEF Operator, ByRole, TypeOK
  <2>2. QED
    BY <2>1
<1>4. CASE UNCHANGED vars
  BY <1>4 DEF vars
<1>5. QED
  BY <1>1, <1>2, <1>3, <1>4 DEF Next

LEMMA WritesAreHanded ==
  ASSUME InHand, WriteCalls
  PROVE  mode = "converge"
  BY DEF InHand, WriteCalls, WriteSteps, PutPolicy, CreateBucket, PutVersioning, PutRules,
         AddUser, SetAttached

\* In check mode no step of the role changes the server, whatever an operator
\* does meanwhile: every module returns before its first write.
THEOREM CheckModePure == Spec => CheckModeIsPure
<1>1. TypeOK /\ InHand /\ [Next]_vars => (ByRole /\ mode = "check" => UNCHANGED server)
  <2> SUFFICES ASSUME TypeOK, InHand, [Next]_vars, ByRole, mode = "check"
               PROVE  UNCHANGED server
    OBVIOUS
  <2>1. CASE WriteCalls
    <3>1. mode = "converge"
      BY <2>1, WritesAreHanded
    <3>2. QED
      BY <3>1
  <2>2. QED
    BY <2>1, RolesOwnSteps
<1>2. QED
  BY <1>1, TypeCorrect, PTL DEF Spec, CheckModeIsPure

-----------------------------------------------------------------------------
(* Nothing is deleted, and nothing outside the spec is touched.            *)

\* What one write may do to one map of the server.
Spares(old, new, named) ==
  \A x \in DOMAIN old : x \in DOMAIN new /\ (x \notin named => new[x] = old[x])

LEMMA PutSpares ==
  ASSUME NEW f, NEW k, NEW v, NEW named, k \in named
  PROVE  Spares(f, Put(f, k, v), named)
  BY DEF Spares, Put

LEMMA UpdateSpares ==
  ASSUME NEW S, NEW T, NEW f \in PartialFn(S, T), NEW k, NEW v, NEW named, k \in named
  PROVE  Spares(f, [f EXCEPT ![k] = v], named)
<1>1. f = [x \in DOMAIN f |-> f[x]]
  BY PartialFnElim
<1>2. QED
  BY <1>1 DEF Spares

LEMMA WritesSpare ==
  ASSUME TypeOK, InHand, WriteCalls
  PROVE  /\ Spares(policy, policy', DOMAIN SpecPolicy)
         /\ Spares(bucket, bucket', DOMAIN SpecBucket)
         /\ Spares(user, user', DOMAIN SpecUser)
<1> USE DEF InHand, BucketSteps, UserSteps
<1>0. /\ policy \in PartialFn(Policies, Docs)
      /\ bucket \in PartialFn(Buckets, BucketState)
      /\ user \in PartialFn(Users, UserState)
  BY DEF TypeOK
<1>1. CASE PutPolicy
  <2>1. Spares(policy, policy', DOMAIN SpecPolicy)
    BY <1>1, PutSpares DEF PutPolicy
  <2>2. QED
    BY <1>1, <2>1 DEF PutPolicy, Spares
<1>2. CASE CreateBucket
  <2>1. Spares(bucket, bucket', DOMAIN SpecBucket)
    <3>1. CASE item \in DOMAIN bucket
      BY <1>2, <3>1 DEF CreateBucket, Spares
    <3>2. CASE item \notin DOMAIN bucket
      BY <1>2, <3>2, PutSpares DEF CreateBucket
    <3>3. QED
      BY <3>1, <3>2
  <2>2. QED
    BY <1>2, <2>1 DEF CreateBucket, Spares
<1>3. CASE PutVersioning
  <2>1. Spares(bucket, bucket', DOMAIN SpecBucket)
    <3>1. CASE bucket' = bucket
      BY <3>1 DEF Spares
    <3>2. CASE bucket' = [bucket EXCEPT ![item].versioning = SpecBucket[item].versioning]
      <4> DEFINE new == [bucket[item] EXCEPT !.versioning = SpecBucket[item].versioning]
      <4>1. bucket' = [bucket EXCEPT ![item] = new] /\ item \in DOMAIN SpecBucket
        BY <1>3, <3>2 DEF PutVersioning
      <4> HIDE DEF new
      <4>2. QED
        BY <1>0, <4>1, UpdateSpares
    <3>3. QED
      BY <1>3, <3>1, <3>2 DEF PutVersioning
  <2>2. QED
    BY <1>3, <2>1 DEF PutVersioning, Spares
<1>4. CASE PutRules
  <2>1. Spares(bucket, bucket', DOMAIN SpecBucket)
    <3>1. CASE bucket' = bucket
      BY <3>1 DEF Spares
    <3>2. CASE bucket' = [bucket EXCEPT ![item].rules = SpecBucket[item].rules]
      <4> DEFINE new == [bucket[item] EXCEPT !.rules = SpecBucket[item].rules]
      <4>1. bucket' = [bucket EXCEPT ![item] = new] /\ item \in DOMAIN SpecBucket
        BY <1>4, <3>2 DEF PutRules
      <4> HIDE DEF new
      <4>2. QED
        BY <1>0, <4>1, UpdateSpares
    <3>3. QED
      BY <1>4, <3>1, <3>2 DEF PutRules
  <2>2. QED
    BY <1>4, <2>1 DEF PutRules, Spares
<1>5. CASE AddUser
  <2>1. Spares(user, user', DOMAIN SpecUser)
    <3>1. CASE item \in DOMAIN user
      <4> DEFINE new == [user[item] EXCEPT !.secret = SpecUser[item].secret, !.enabled = TRUE]
      <4>1. user' = [user EXCEPT ![item] = new] /\ item \in DOMAIN SpecUser
        BY <1>5, <3>1 DEF AddUser
      <4> HIDE DEF new
      <4>2. QED
        BY <1>0, <4>1, UpdateSpares
    <3>2. CASE item \notin DOMAIN user
      BY <1>5, <3>2, PutSpares DEF AddUser
    <3>3. QED
      BY <3>1, <3>2
  <2>2. QED
    BY <1>5, <2>1 DEF AddUser, Spares
<1>6. CASE SetAttached
  <2>1. Spares(user, user', DOMAIN SpecUser)
    <3>1. CASE user' = user
      BY <3>1 DEF Spares
    <3>2. CASE user' = [user EXCEPT ![item].attached = held]
      <4> DEFINE new == [user[item] EXCEPT !.attached = held]
      <4>1. user' = [user EXCEPT ![item] = new] /\ item \in DOMAIN SpecUser
        BY <1>6, <3>2 DEF SetAttached
      <4> HIDE DEF new
      <4>2. QED
        BY <1>0, <4>1, UpdateSpares
    <3>3. QED
      BY <1>6, <3>1, <3>2 DEF SetAttached
  <2>2. QED
    BY <1>6, <2>1 DEF SetAttached, Spares
<1>7. QED
  BY <1>1, <1>2, <1>3, <1>4, <1>5, <1>6 DEF WriteCalls

\* No step of the role removes a policy, a bucket or a user, or changes one
\* the spec does not name, whatever an operator does between its calls.
THEOREM NothingDeleted == Spec => DeletesNothing
<1> DEFINE Kept ==
      /\ \A p \in DOMAIN policy : /\ p \in DOMAIN policy'
                                  /\ p \notin DOMAIN SpecPolicy => policy'[p] = policy[p]
      /\ \A b \in DOMAIN bucket : /\ b \in DOMAIN bucket'
                                  /\ b \notin DOMAIN SpecBucket => bucket'[b] = bucket[b]
      /\ \A u \in DOMAIN user :   /\ u \in DOMAIN user'
                                  /\ u \notin DOMAIN SpecUser => user'[u] = user[u]
<1>1. TypeOK /\ InHand /\ [Next]_vars => (ByRole => Kept)
  <2> SUFFICES ASSUME TypeOK, InHand, [Next]_vars, ByRole PROVE Kept
    OBVIOUS
  <2>1. CASE WriteCalls
    BY <2>1, WritesSpare DEF Spares
  <2>2. CASE UNCHANGED server
    BY <2>2 DEF server
  <2>3. QED
    BY <2>1, <2>2, RolesOwnSteps
<1>2. QED
  BY <1>1, TypeCorrect, PTL DEF Spec, DeletesNothing

-----------------------------------------------------------------------------
(* While nobody interferes, what a module read is still so when it writes. *)

\* The two readings of "the versioning must move" - the module compares the
\* effective state, DesiredState what the states do - are the same.
LEMMA MovesWhatDiffers ==
  ASSUME NEW b \in DOMAIN SpecBucket, NEW v \in {"unconfigured", "enabled", "suspended"}
  PROVE  MustMove(b, v) => VersioningDiffers(b, v)
<1>1. SpecBucket[b].versioning \in {Unset, "enabled", "suspended"}
  BY SpecItems DEF BucketSpec
<1>2. QED
  BY <1>1 DEF MustMove, VersioningDiffers, Effective, KeepsVersions

\* The writes that rest on a read.
Resting == {"createBucket", "putVersioning", "addUser", "setAttached"}

LEMMA NothingRests == ASSUME pc' \notin Resting PROVE StillSo'
  BY DEF Resting, StillSo

LEMMA StillSoStep ==
  ASSUME TypeOK, InHand, StillSo, [Next]_vars
  PROVE  StillSo'
<1> USE DEF Quiet, Writes, cursor, server, hist, Goto, Fail, Lost, ItemDone, Dry
<1>1. CASE \E b \in DOMAIN SpecBucket : HeadBucket(b)
  BY <1>1 DEF HeadBucket, StillSo
<1>2. CASE GetVersioning
  <2>1. item \in DOMAIN SpecBucket
    BY <1>2 DEF GetVersioning, InHand, BucketSteps
  <2>2. CASE item \in DOMAIN bucket
    <3>1. bucket[item].versioning \in {"unconfigured", "enabled", "suspended"}
      <4>1. bucket[item] \in BucketState
        BY <2>2, PartialFnElim DEF TypeOK
      <4>2. QED
        BY <4>1 DEF BucketState
    <3>2. MustMove(item, bucket[item].versioning) => VersioningDiffers(item, bucket[item].versioning)
      BY <2>1, <3>1, MovesWhatDiffers
    <3>3. /\ pc' \in {"putVersioning", "recordBucket"}
          /\ pc' = "putVersioning" => MustMove(item, bucket[item].versioning)
          /\ item' = item /\ bucket' = bucket
      BY <1>2, <2>2 DEF GetVersioning
    <3>4. VersioningDiffers(item, bucket[item].versioning)
            => VersioningDiffers(item, bucket[item].versioning)'
      BY <3>3 DEF VersioningDiffers, KeepsVersions
    <3>5. QED
      BY <2>2, <3>2, <3>3, <3>4 DEF StillSo
  <2>3. CASE item \notin DOMAIN bucket
    BY <1>2, <2>3, NothingRests DEF GetVersioning, Resting
  <2>4. QED
    BY <2>2, <2>3
<1>3. CASE \E u \in DOMAIN SpecUser : GetUser(u)
  BY <1>3 DEF GetUser, StillSo
<1>4. CASE GetAttached
  BY <1>4 DEF GetAttached, DesiredAttachment, StillSo
<1>5. CASE Operator
  BY <1>5 DEF Operator, StillSo
<1>6. CASE UNCHANGED vars
  BY <1>6 DEF vars, StillSo, VersioningDiffers, KeepsVersions
<1>7. CASE Preflight \/ ProbeAdmin \/ ReadBuckets \/ ReadPolicies \/ ReadUsers
           \/ AssertKnownPolicies \/ NextLoop
  BY <1>7, NothingRests DEF Preflight, ProbeAdmin, ReadBuckets, ReadPolicies, ReadUsers,
     AssertKnownPolicies, NextLoop, Resting
<1>8. CASE \E p \in DOMAIN SpecPolicy : GetPolicy(p)
  BY <1>8, NothingRests DEF GetPolicy, Resting
<1>9. CASE WriteCalls
  BY <1>9, NothingRests DEF WriteCalls, PutPolicy, CreateBucket, PutVersioning, PutRules,
     AddUser, SetAttached, Resting
<1>10. CASE RecordBucket \/ GetRules \/ RecordUser \/ RecordExtra
  BY <1>10, NothingRests DEF RecordBucket, GetRules, RecordUser, RecordExtra, Resting
<1>11. CASE \E u \in DOMAIN SpecUser : ProbeUser(u) \/ ProbeFails(u)
  BY <1>11, NothingRests DEF ProbeUser, ProbeFails, Resting
<1>12. CASE RecordUnmanaged \/ Gates \/ CallFails
  BY <1>12, NothingRests DEF RecordUnmanaged, Gates, CallFails, Resting
<1>13. CASE \E m \in {"check", "converge"} : StartRun(m)
  BY <1>13, NothingRests DEF StartRun, Resting
<1>14. QED
  BY <1>1, <1>2, <1>3, <1>4, <1>5, <1>6, <1>7, <1>8, <1>9, <1>10, <1>11, <1>12, <1>13
     DEF Next, RoleStep, WriteCalls

\* Between the read a module decides on and the write it decides to make, what
\* it read stays so, unless an operator acted since the run started.
THEOREM ReadsStillHold == Spec => []StillSo
<1>1. Init => StillSo
  BY NothingRests DEF Init, StillSo
<1>2. TypeOK /\ InHand /\ StillSo /\ [Next]_vars => StillSo'
  BY StillSoStep
<1>3. QED
  BY <1>1, <1>2, TypeCorrect, PTL DEF Spec

-----------------------------------------------------------------------------
(* Users keep what they have.                                              *)

Keeps(old, new) ==
  \A u \in DOMAIN old : /\ new[u].secret = old[u].secret
                        /\ new[u].enabled = old[u].enabled
                        /\ old[u].attached \subseteq new[u].attached

LEMMA WritesKeepUsers ==
  ASSUME TypeOK, InHand, StillSo, calm, WriteCalls
  PROVE  Keeps(user, user')
<1>1. CASE user' = user
  BY <1>1 DEF Keeps
<1>2. CASE AddUser
  <2>1. item \notin DOMAIN user
    BY <1>2 DEF AddUser, StillSo
  <2>2. user' = Put(user, item, NewUser(SpecUser[item].secret))
    BY <1>2, <2>1 DEF AddUser
  <2>3. \A u \in DOMAIN user : user'[u] = user[u]
    BY <2>1, <2>2 DEF Put
  <2>4. QED
    BY <2>3 DEF Keeps
<1>3. CASE SetAttached /\ user' # user
  <2>1. item \in DOMAIN user /\ held = user[item].attached \cup SpecUser[item].policies
    BY <1>3 DEF SetAttached, StillSo
  <2>2. user' = [user EXCEPT ![item].attached = held]
    BY <1>3 DEF SetAttached
  <2>3. user[item] \in UserState
    BY <2>1, PartialFnElim DEF TypeOK
  <2> DEFINE new == [user[item] EXCEPT !.attached = held]
  <2>4. /\ new.secret = user[item].secret /\ new.enabled = user[item].enabled
        /\ new.attached = held
    BY <2>3 DEF UserState
  <2>5. user' = [user EXCEPT ![item] = new]
    BY <2>2
  <2> HIDE DEF new
  <2>6. \A u \in DOMAIN user : user'[u] = IF u = item THEN new ELSE user[u]
    <3>1. user = [u \in DOMAIN user |-> user[u]]
      BY PartialFnElim DEF TypeOK
    <3>2. QED
      BY <2>5, <3>1
  <2>7. QED
    BY <2>1, <2>4, <2>6 DEF Keeps
<1>4. QED
  BY <1>1, <1>2, <1>3 DEF WriteCalls, PutPolicy, CreateBucket, PutVersioning, PutRules

\* A user that exists keeps its secret and its status, and nothing is detached
\* from it, in any run until an operator acts in it.
THEOREM UsersKept == Spec => UsersKeepWhatTheyHave
<1> DEFINE Kept == \A u \in DOMAIN user :
                     /\ user'[u].secret = user[u].secret
                     /\ user'[u].enabled = user[u].enabled
                     /\ user[u].attached \subseteq user'[u].attached
<1>1. TypeOK /\ InHand /\ StillSo /\ [Next]_vars => (ByRole /\ calm => Kept)
  <2> SUFFICES ASSUME TypeOK, InHand, StillSo, [Next]_vars, ByRole, calm PROVE Kept
    OBVIOUS
  <2>1. CASE WriteCalls
    BY <2>1, WritesKeepUsers DEF Keeps
  <2>2. CASE UNCHANGED server
    BY <2>2 DEF server
  <2>3. QED
    BY <2>1, <2>2, RolesOwnSteps
<1>2. QED
  BY <1>1, TypeCorrect, ReadsStillHold, PTL DEF Spec, UsersKeepWhatTheyHave

-----------------------------------------------------------------------------
(* Refinement.                                                             *)

\* An operator that keeps out of the runs leaves every run under way calm.
RunsAreCalm == pc # "idle" => calm

LEMMA CalmStep ==
  ASSUME ~Concurrent, RunsAreCalm, [Next]_vars
  PROVE  RunsAreCalm'
<1> USE DEF RunsAreCalm
<1>1. CASE \E m \in {"check", "converge"} : StartRun(m)
  BY <1>1 DEF StartRun
<1>2. CASE Operator
  BY <1>2 DEF Operator
<1>3. CASE UNCHANGED vars
  BY <1>3 DEF vars, hist
<1>4. CASE RoleStep
  <2>1. calm' = calm
    BY <1>4 DEF RoleStep, Quiet, Writes, hist, Preflight, ProbeAdmin, ReadBuckets, ReadPolicies,
       ReadUsers, AssertKnownPolicies, NextLoop, GetPolicy, PutPolicy, HeadBucket, CreateBucket,
       GetVersioning, PutVersioning, RecordBucket, GetRules, PutRules, GetUser, AddUser,
       RecordUser, GetAttached, SetAttached, RecordExtra, ProbeUser, ProbeFails,
       RecordUnmanaged, Gates, CallFails
  <2>2. pc # "idle"
    BY <1>4 DEF RoleStep, Preflight, ProbeAdmin, ReadBuckets, ReadPolicies,
       ReadUsers, AssertKnownPolicies, NextLoop, GetPolicy, PutPolicy, HeadBucket, CreateBucket,
       GetVersioning, PutVersioning, RecordBucket, GetRules, PutRules, GetUser, AddUser,
       RecordUser, GetAttached, SetAttached, RecordExtra, ProbeUser, ProbeFails,
       RecordUnmanaged, Gates, CallFails, ReadSteps, WriteSteps
  <2>3. QED
    BY <2>1, <2>2
<1>5. QED
  BY <1>1, <1>2, <1>3, <1>4 DEF Next

LEMMA WritesAreMerges ==
  ASSUME TypeOK, InHand, StillSo, RunsAreCalm, WriteCalls
  PROVE  [Atomic!Next]_(Atomic!vars)
<1> USE DEF InHand, BucketSteps, UserSteps, Writes, hist, StillSo, RunsAreCalm, Atomic!vars
<1>1. CASE PutPolicy
  <2>1. item \in DOMAIN SpecPolicy /\ Atomic!FixPolicy(item)
    BY <1>1 DEF PutPolicy, Put, Atomic!FixPolicy, Atomic!Put
  <2>2. QED
    BY <2>1 DEF Atomic!Next
<1>2. CASE CreateBucket
  <2>1. item \in DOMAIN SpecBucket /\ Atomic!AddBucket(item)
    BY <1>2 DEF CreateBucket, Put, NewBucket, Atomic!AddBucket, Atomic!Put,
                   Atomic!NewBucket
  <2>2. QED
    BY <2>1 DEF Atomic!Next
<1>3. CASE PutVersioning
  <2>1. item \in DOMAIN SpecBucket /\ Atomic!FixVersioning(item)
    BY <1>3 DEF PutVersioning, VersioningDiffers, KeepsVersions, Atomic!FixVersioning,
                   Atomic!VersioningDiffers, Atomic!KeepsVersions
  <2>2. QED
    BY <2>1 DEF Atomic!Next
<1>4. CASE PutRules
  <2>1. CASE item \in DOMAIN bucket
    <3>1. item \in DOMAIN SpecBucket /\ Atomic!FixRules(item)
      BY <1>4, <2>1 DEF PutRules, Atomic!FixRules, Atomic!Ruled
    <3>2. QED
      BY <3>1 DEF Atomic!Next
  <2>2. CASE item \notin DOMAIN bucket
    BY <1>4, <2>2 DEF PutRules
  <2>3. QED
    BY <2>1, <2>2
<1>5. CASE AddUser
  <2>1. item \in DOMAIN SpecUser /\ Atomic!AddUser(item)
    BY <1>5 DEF AddUser, Put, NewUser, Atomic!AddUser, Atomic!Put, Atomic!NewUser
  <2>2. QED
    BY <2>1 DEF Atomic!Next
<1>6. CASE SetAttached
  <2>1. CASE user' = user
    BY <1>6, <2>1 DEF SetAttached
  <2>2. CASE user' = [user EXCEPT ![item].attached = held]
    <3>1. /\ item \in DOMAIN SpecUser /\ item \in DOMAIN user
          /\ held = user[item].attached \cup SpecUser[item].policies
          /\ UNCHANGED <<policy, bucket, ops>>
      BY <1>6 DEF SetAttached
    <3>2. Atomic!Attach(item)
      BY <2>2, <3>1 DEF Atomic!Attach
    <3>3. QED
      BY <3>1, <3>2 DEF Atomic!Next
  <2>3. QED
    BY <1>6, <2>1, <2>2 DEF SetAttached
<1>7. QED
  BY <1>1, <1>2, <1>3, <1>4, <1>5, <1>6 DEF WriteCalls

\* The role implements the atomic reconcile when the operator acts between the
\* runs only: whatever interleaving of reads and writes the modules make, and
\* wherever a run fails, each step on the server is one atomic, additive merge.
THEOREM ImplementsAtomic ==
  ASSUME ~Concurrent
  PROVE  Spec => ImplementsAtomicReconcile
<1>1. Init => RunsAreCalm /\ ops = 0
  BY DEF Init, RunsAreCalm
<1>2. RunsAreCalm /\ [Next]_vars => RunsAreCalm'
  BY CalmStep
<1>3. TypeOK /\ InHand /\ StillSo /\ RunsAreCalm /\ [Next]_vars => [Atomic!Next]_(Atomic!vars)
  <2> SUFFICES ASSUME TypeOK, InHand, StillSo, RunsAreCalm, [Next]_vars
               PROVE  [Atomic!Next]_(Atomic!vars)
    OBVIOUS
  <2>1. CASE WriteCalls
    BY <2>1, WritesAreMerges
  <2>2. CASE Operator
    BY <2>2 DEF Operator, Atomic!Next, Atomic!OutOfBand
  <2>3. CASE UNCHANGED server /\ UNCHANGED ops
    BY <2>3 DEF server, Atomic!vars
  <2>4. UNCHANGED ops \/ Operator
    <3>1. CASE RoleStep
      BY <3>1 DEF RoleStep, Quiet, Writes, hist, Preflight, ProbeAdmin, ReadBuckets, ReadPolicies,
         ReadUsers, AssertKnownPolicies, NextLoop, GetPolicy, PutPolicy, HeadBucket, CreateBucket,
         GetVersioning, PutVersioning, RecordBucket, GetRules, PutRules, GetUser, AddUser,
         RecordUser, GetAttached, SetAttached, RecordExtra, ProbeUser, ProbeFails,
         RecordUnmanaged, Gates, CallFails
    <3>2. CASE \E m \in {"check", "converge"} : StartRun(m)
      BY <3>2 DEF StartRun
    <3>3. CASE UNCHANGED vars
      BY <3>3 DEF vars, hist
    <3>4. QED
      BY <3>1, <3>2, <3>3 DEF Next
  <2>5. QED
    BY <2>1, <2>2, <2>3, <2>4, RolesOwnSteps DEF ByRole
<1>4. QED
  BY <1>1, <1>2, <1>3, TypeCorrect, ReadsStillHold, PTL DEF Spec, ImplementsAtomicReconcile, Atomic!Spec

-----------------------------------------------------------------------------
(* A spec that is refused is not applied in part.                          *)

\* The steps before the loops, and what the run knows in them.
Early == {"idle", "preflight", "probe", "readBuckets", "readPolicies", "readUsers", "known"}

RefusedEarly == calm /\ Refused(base) =>
  /\ Server = base
  /\ pc \in Early /\ outcome \in {"none", "failed"}
  /\ ~PreflightOk => pc \in {"idle", "preflight"}
  /\ pc \in {"readUsers", "known"} => snap.policies = DOMAIN policy

\* The asserts turn a refused spec down: the preflight if it is at fault by
\* itself, the other one if it names a policy neither managed, builtin nor there.
LEMMA AssertsRefuse ==
  ASSUME Refused(base), Server = base, PreflightOk, snap.policies = DOMAIN policy
  PROVE  ~ \A u \in DOMAIN SpecUser : SpecUser[u].policies \subseteq KnownPolicies
<1>1. PICK u \in DOMAIN SpecUser :
        ~ SpecUser[u].policies \subseteq DOMAIN SpecPolicy \cup Builtin \cup DOMAIN base.policy
  BY DEF Refused, PreflightOk
<1>2. base.policy = policy
  BY DEF Server
<1>3. QED
  BY <1>1, <1>2 DEF KnownPolicies

LEMMA RefusedEarlyStep ==
  ASSUME TypeOK, RefusedEarly, [Next]_vars
  PROVE  RefusedEarly'
<1> USE DEF Quiet, hist, server, cursor, Goto, Fail, Lost
<1>1. CASE \E m \in {"check", "converge"} : StartRun(m)
  BY <1>1 DEF StartRun, RefusedEarly, Server, Early
<1>2. CASE Operator
  BY <1>2 DEF Operator, RefusedEarly
<1>3. CASE UNCHANGED vars
  BY <1>3 DEF vars, RefusedEarly, Server, Refused, PreflightOk
<1>4. CASE RoleStep
  <2> SUFFICES ASSUME calm', Refused(base)' PROVE RefusedEarly'
    BY DEF RefusedEarly
  <2>1. calm /\ UNCHANGED base
    BY <1>4 DEF RoleStep, Writes, Preflight, ProbeAdmin, ReadBuckets, ReadPolicies,
       ReadUsers, AssertKnownPolicies, NextLoop, GetPolicy, PutPolicy, HeadBucket, CreateBucket,
       GetVersioning, PutVersioning, RecordBucket, GetRules, PutRules, GetUser, AddUser,
       RecordUser, GetAttached, SetAttached, RecordExtra, ProbeUser, ProbeFails,
       RecordUnmanaged, Gates, CallFails
  <2>2. Refused(base)
    BY <2>1 DEF Refused
  <2>3. /\ Server = base
        /\ pc \in Early /\ outcome \in {"none", "failed"}
        /\ ~PreflightOk => pc \in {"idle", "preflight"}
        /\ pc \in {"readUsers", "known"} => snap.policies = DOMAIN policy
    BY <2>1, <2>2 DEF RefusedEarly
  <2>4. CASE Preflight
    BY <2>1, <2>3, <2>4 DEF Preflight, RefusedEarly, Server, Early, PreflightOk
  <2>5. CASE ProbeAdmin
    BY <2>1, <2>3, <2>5 DEF ProbeAdmin, RefusedEarly, Server, Early, PreflightOk
  <2>6. CASE ReadBuckets
    BY <2>1, <2>3, <2>6 DEF ReadBuckets, RefusedEarly, Server, Early, PreflightOk
  <2>7. CASE ReadPolicies
    <3>1. snap'.policies = DOMAIN policy
      BY <2>7 DEF ReadPolicies, TypeOK
    <3>2. QED
      BY <2>1, <2>3, <2>7, <3>1 DEF ReadPolicies, RefusedEarly, Server, Early, PreflightOk
  <2>8. CASE ReadUsers
    <3>1. snap'.policies = snap.policies
      BY <2>8 DEF ReadUsers, TypeOK
    <3>2. QED
      BY <2>1, <2>3, <2>8, <3>1 DEF ReadUsers, RefusedEarly, Server, Early, PreflightOk
  <2>9. CASE AssertKnownPolicies
    <3>1. pc = "known"
      BY <2>9 DEF AssertKnownPolicies
    <3>2. ~ \A u \in DOMAIN SpecUser : SpecUser[u].policies \subseteq KnownPolicies
      BY <2>2, <2>3, <3>1, AssertsRefuse
    <3>3. Fail /\ Quiet
      BY <2>9, <3>2 DEF AssertKnownPolicies
    <3>4. QED
      BY <2>1, <2>3, <3>3 DEF RefusedEarly, Server, Early
  <2>10. CASE CallFails
    BY <2>1, <2>3, <2>10 DEF CallFails, RefusedEarly, Server, Early
  <2>11. Preflight \/ ProbeAdmin \/ ReadBuckets \/ ReadPolicies \/ ReadUsers
           \/ AssertKnownPolicies \/ CallFails
    BY <1>4, <2>3 DEF Early, RoleStep, NextLoop, GetPolicy, PutPolicy, HeadBucket,
       CreateBucket, GetVersioning, PutVersioning, RecordBucket, GetRules, PutRules, GetUser,
       AddUser, RecordUser, GetAttached, SetAttached, RecordExtra, ProbeUser, ProbeFails,
       RecordUnmanaged, Gates
  <2>12. QED
    BY <2>4, <2>5, <2>6, <2>7, <2>8, <2>9, <2>10, <2>11
<1>5. QED
  BY <1>1, <1>2, <1>3, <1>4 DEF Next

\* A liveness check without a secret, an empty ruleset or a policy nobody knows
\* stops the run before its first write; the rest of the spec is not applied.
THEOREM RefusalIsTotal == Spec => []RefusedSpecTouchesNothing
<1>1. Init => RefusedEarly
  BY DEF Init, RefusedEarly, Early
<1>2. TypeOK /\ RefusedEarly /\ [Next]_vars => RefusedEarly'
  BY RefusedEarlyStep
<1>3. RefusedEarly => RefusedSpecTouchesNothing
  BY DEF RefusedEarly, RefusedSpecTouchesNothing, Complete
<1>4. QED
  BY <1>1, <1>2, <1>3, TypeCorrect, PTL DEF Spec
=============================================================================
