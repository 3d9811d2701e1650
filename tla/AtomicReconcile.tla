--------------------------- MODULE AtomicReconcile ---------------------------
(***************************************************************************)
(* What a reconcile run promises of the server, everything the role does   *)
(* to get there forgotten: it makes one missing thing present at a time,   *)
(* each by an atomic step that looks at the server as it is, and nothing   *)
(* else. Whatever an operator does out of band is counted in ops.          *)
(***************************************************************************)
EXTENDS DesiredState, Naturals

VARIABLES policy, bucket, user, ops

vars == <<policy, bucket, user, ops>>

FixPolicy(p) ==
  /\ policy' = Put(policy, p, SpecPolicy[p])
  /\ UNCHANGED <<bucket, user, ops>>

AddBucket(b) ==
  /\ b \notin DOMAIN bucket
  /\ bucket' = Put(bucket, b, NewBucket)
  /\ UNCHANGED <<policy, user, ops>>

\* Only a bucket that does not do what the spec asks is touched.
FixVersioning(b) ==
  /\ b \in DOMAIN bucket
  /\ VersioningDiffers(b, bucket[b].versioning)
  /\ bucket' = [bucket EXCEPT ![b].versioning = SpecBucket[b].versioning]
  /\ UNCHANGED <<policy, user, ops>>

FixRules(b) ==
  /\ b \in Ruled \cap DOMAIN bucket
  /\ bucket' = [bucket EXCEPT ![b].rules = SpecBucket[b].rules]
  /\ UNCHANGED <<policy, user, ops>>

\* Only a user that does not exist gets a secret.
AddUser(u) ==
  /\ u \notin DOMAIN user
  /\ SpecUser[u].secret # Unset
  /\ user' = Put(user, u, NewUser(SpecUser[u].secret))
  /\ UNCHANGED <<policy, bucket, ops>>

\* Attaching adds to what is attached and detaches nothing.
Attach(u) ==
  /\ u \in DOMAIN user
  /\ user' = [user EXCEPT ![u].attached = @ \cup SpecUser[u].policies]
  /\ UNCHANGED <<policy, bucket, ops>>

OutOfBand == ops' = ops + 1

Next ==
  \/ \E p \in DOMAIN SpecPolicy : FixPolicy(p)
  \/ \E b \in DOMAIN SpecBucket : AddBucket(b) \/ FixVersioning(b) \/ FixRules(b)
  \/ \E u \in DOMAIN SpecUser : AddUser(u) \/ Attach(u)
  \/ OutOfBand

Spec == ops = 0 /\ [][Next]_vars
=============================================================================
