------------------------------- MODULE MCRole -------------------------------
(***************************************************************************)
(* A small instance of RoleReconcile: one managed and one other policy,    *)
(* bucket and user. The managed user wants the managed policy, whose first *)
(* document lets it list the managed bucket.                               *)
(***************************************************************************)
EXTENDS RoleReconcile, TLC

CONSTANTS p1, px, b1, bx, u1, ux, d1, d2, r1, s1, s2, none, unset

MCPolicies == {p1, px}
MCBuckets  == {b1, bx}
MCUsers    == {u1, ux}
MCDocs     == {d1, d2}
MCRules    == {r1}
MCSecrets  == {s1, s2}
MCGrants   == d1 :> {b1} @@ d2 :> {}

MCSpecPolicy == p1 :> d1
MCSpecBucket == b1 :> [versioning |-> "enabled", rules |-> r1]
MCSpecUser   == u1 :> [secret |-> s1, policies |-> {p1}, liveness |-> b1]

\* Keys left out: a user without a secret that wants a policy the role does not
\* manage, a bucket with suspended versioning and no say on lifecycle.
SparseBucket == b1 :> [versioning |-> "suspended", rules |-> unset]
SparseUser   == u1 :> [secret |-> unset, policies |-> {px}, liveness |-> unset]

Other == {<<"bucket", bx, "unmanaged">>, <<"policy", px, "unmanaged">>}

Record(v, r) == [versioning |-> v, rules |-> r]
Account(s, e, a) == [secret |-> s, enabled |-> e, attached |-> a]
Nothing == [x \in {} |-> x]

\* Any state of the managed resources, beside another policy and bucket.
SomePolicies == {p \in PartialFn(MCPolicies, MCDocs) : px \in DOMAIN p /\ p[px] = d2}
SomeBuckets  == {b \in PartialFn(MCBuckets, [versioning : {"unconfigured", "enabled", "suspended"},
                                             rules : {none, r1}]) :
                   bx \in DOMAIN b /\ b[bx] = Record("suspended", none)}
SomeUsers    == {u \in PartialFn(MCUsers, [secret : MCSecrets, enabled : BOOLEAN,
                                           attached : SUBSET MCPolicies]) :
                   ux \in DOMAIN u => u[ux] = Account(s2, TRUE, {})}

\* ... or with the other policy missing.
LoosePolicies == {p \in PartialFn(MCPolicies, MCDocs) : px \in DOMAIN p => p[px] = d2}

\* A converged server, an empty one, and one that has drifted.
FewPolicies == {p1 :> d1 @@ px :> d2, Nothing}
FewBuckets  == {b1 :> Record("enabled", r1), Nothing}
FewUsers    == {u1 :> Account(s1, TRUE, {p1}), u1 :> Account(s2, TRUE, {}), Nothing}
=============================================================================
