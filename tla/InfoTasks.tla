------------------------------ MODULE InfoTasks ------------------------------
(***************************************************************************)
(* The modules that only read, run after run, while others change what     *)
(* they look at - and what their reports are worth. No module reads in a   *)
(* transaction, and some need several calls.                               *)
(***************************************************************************)
EXTENDS InfoModules, CredentialProbe

SameKind(s) == IF s.kind = "credential" THEN Credentials ELSE Resource(s.kind)

Init ==
  /\ srv \in Credentials \cup UNION {Resource(k) : k \in InfoKinds}
  /\ pc = "idle" /\ outcome = "none" /\ past = <<>>
  /\ want = [kind |-> "none"] /\ report = Nothing

Others == Operate(SameKind(srv) \ {srv})

Next == StartInfo \/ StartProbe \/ InfoStep \/ ProbeStep \/ Unreachable \/ Others

Spec == Init /\ [][Next]_vars
-----------------------------------------------------------------------------
TypeOK ==
  /\ srv \in SameKind(srv) /\ past \in Seq(SameKind(srv)) /\ Len(past) <= MaxMoves + 1
  /\ pc \in {"idle", "head", "versioning", "rules", "quota", "get", "list", "listBuckets",
             "listBucket"}
  /\ outcome \in {"none", "ok", "failed", "network"} \cup PermanentClasses
  /\ want.kind = "credential" =>
       /\ report \in [DOMAIN Blank -> Tri]
       /\ pc = "listBucket" => want.bucket

\* The calls of a run do not see one moment, but each field of the report is true
\* of a moment, and they are told in the order of the moments: nothing is made up,
\* by reading a field left out as well, and nothing is older than what came before.
\* For an empty user name this does not hold: it lists everybody's accounts.
ReportWasTrue == outcome = "ok" /\ want.kind \in InfoKinds /\ want.user # EmptyName =>
  \E moment \in [DOMAIN ReadTogether -> DOMAIN past] :
    /\ \A i, j \in DOMAIN moment : i < j => moment[i] <= moment[j]
    /\ \A i \in DOMAIN moment : \A field \in ReadTogether[i] \cap DOMAIN report :
         LET then == Truth(past[moment[i]])
         IN  field \in DOMAIN then /\ report[field] = then[field]

\* Asked for a resource that is not there, a module reports that it is missing; it
\* gives up on "not found" only when a bucket is removed under its eyes.
NotFoundHasACause == outcome \in PermanentClasses \ {"auth"} =>
  /\ want.kind = "bucket" /\ outcome = "notfound"
  /\ \E i, j \in DOMAIN past : i < j /\ past[i].entry # Missing /\ past[j].entry = Missing

\* Two reads do not make a snapshot, and yet the verdict on a credential is one
\* that was right at some moment of the run: nothing ever unusable is called
\* usable, and nothing usable throughout is called dead. And "authorized" is null
\* exactly when the pair itself was refused.
VerdictWasRight == outcome = "ok" /\ want.kind = "credential" =>
  /\ \E i \in DOMAIN past : Usable(past[i]) <=> report.usable = "true"
  /\ \E i \in DOMAIN past : Alive(past[i]) <=> report.authenticated = "true"
  /\ report.authorized = "null" <=> report.authenticated = "false"
=============================================================================
