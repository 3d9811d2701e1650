----------------------------- MODULE InfoProofs -----------------------------
(***************************************************************************)
(* Theorems about the modules that only read, whatever others do meanwhile *)
(* and however often: the verdict on a credential was right, so was every  *)
(* field of a report, and not found has its cause; before that the types.  *)
(***************************************************************************)
EXTENDS InfoTasks, TLAPS

\* What the first call heard of the pair still has its witness in the past.
Heard ==
  \/ report = [Blank EXCEPT !.authenticated = "true", !.authorized = "true"]
     /\ \E i \in DOMAIN past : past[i].pair = "valid"
  \/ report = [Blank EXCEPT !.authenticated = "true", !.authorized = "false"]
     /\ \E i \in DOMAIN past : past[i].pair = "denied"

\* The server as a probe knows it: what it is now is the last it has been.
Probing ==
  /\ want \in ProbeWants /\ srv \in Credentials /\ past \in Seq(Credentials)
  /\ pc # "idle" => outcome = "none" /\ past # <<>> /\ past[Len(past)] = srv

\* The invariant: where a probe stands, and what it knows by then.
ProbeInv == want.kind = "credential" =>
  /\ Probing
  /\ pc \in {"idle", "listBuckets", "listBucket"}
  /\ pc = "listBuckets" => report = Blank
  /\ pc = "listBucket"  => want.bucket /\ Heard
  /\ VerdictWasRight

\* The two kinds of module look at different things.
LEMMA NoCredentialHere == "credential" \notin InfoKinds
  BY DEF InfoKinds, Entries

\* A probe is begun against a credential, and nothing is known yet.
LEMMA StartKeeps == ASSUME StartInfo \/ StartProbe, srv \in SameKind(srv) PROVE ProbeInv'
<1>1. CASE StartInfo
  <2>1. want'.kind \in InfoKinds
    BY <1>1 DEF StartInfo, Begin, InfoWants, InfoKinds, Entries
  <2>2. QED
    BY <2>1, NoCredentialHere DEF ProbeInv
<1>2. CASE StartProbe
  <2>1. srv.kind = "credential" /\ srv \in Credentials
    BY <1>2 DEF StartProbe, SameKind
  <2>2. PICK w \in ProbeWants : Begin(w, "listBuckets", Blank)
    BY <1>2 DEF StartProbe
  <2>3. want' \in ProbeWants /\ srv' = srv /\ past' = <<srv>> /\ report' = Blank
        /\ outcome' = "none" /\ pc' = "listBuckets"
    BY <2>2 DEF Begin
  <2>4. QED
    BY <2>1, <2>3 DEF ProbeInv, Probing, VerdictWasRight
<1>3. QED
  BY <1>1, <1>2

\* Others are no probe: it knows what it knew.
LEMMA OthersKeep == ASSUME ProbeInv, srv \in SameKind(srv), Others PROVE ProbeInv'
<1> SUFFICES ASSUME want.kind = "credential" PROVE ProbeInv'
  BY DEF Others, Operate, ProbeInv
<1>1. Probing /\ pc # "idle" /\ UNCHANGED <<want, pc, report, outcome>> /\ past' = Append(past, srv')
  BY DEF Others, Operate, ProbeInv
<1>2. srv' \in Credentials
  BY <1>1 DEF Others, Operate, SameKind, Probing, Credentials
<1>3. past' \in Seq(Credentials) /\ past' # <<>> /\ past'[Len(past')] = srv'
  BY <1>1, <1>2 DEF Probing
<1>4. Heard => Heard'
  <2>1. \A i \in DOMAIN past : i \in DOMAIN past' /\ past'[i] = past[i]
    BY <1>1, <1>2 DEF Probing
  <2>2. QED
    BY <1>1, <2>1 DEF Heard
<1>5. outcome' = "none"
  BY <1>1 DEF Probing
<1>6. QED
  BY <1>1, <1>2, <1>3, <1>4, <1>5 DEF ProbeInv, Probing, VerdictWasRight

\* What the server says to the first call, and when it says "ok" to the second.
LEMMA FirstAnswer ==
  ASSUME srv \in Credentials
  PROVE  /\ srv.pair \in Pairs
         /\ srv.pair = "valid"    => Class(ListBucketsAnswer) = "ok"
         /\ srv.pair = "denied"   => Class(ListBucketsAnswer) = "auth" /\ ~IsBadCredential(ListBucketsAnswer)
         /\ srv.pair \in {"unknown", "wrong"} =>
              Class(ListBucketsAnswer) = "auth" /\ IsBadCredential(ListBucketsAnswer)
         /\ srv.pair \in {"disabled", "invalid"} =>
              /\ Class(ListBucketsAnswer) = "permanent"
              /\ IsDisabledAccount(ListBucketsAnswer) <=> srv.pair = "disabled"
  BY DEF Credentials, Pairs, Class, ListBucketsAnswer, PairAnswer, Answer, S3Class, BadCredentialCodes,
     AccessDeniedCodes, S3NotFoundCodes, S3RetryableCodes, GatewayStatuses, IsBadCredential,
     IsDisabledAccount

LEMMA SecondAnswer ==
  ASSUME srv \in Credentials
  PROVE  Class(ListBucketAnswer) = "ok" <=> srv.pair \in {"denied", "valid"} /\ srv.bucket = "listable"
  BY DEF Credentials, Pairs, Class, ListBucketAnswer, PairAnswer, Answer, S3Class, BadCredentialCodes,
     AccessDeniedCodes, S3NotFoundCodes, S3RetryableCodes, GatewayStatuses

\* The first call: what it hears is of the server as it is now.
LEMMA FirstCallKeeps ==
  ASSUME ProbeInv, want.kind = "credential", ListBuckets
  PROVE  ProbeInv'
<1>1. Probing /\ pc = "listBuckets" /\ report = Blank /\ UNCHANGED <<srv, want, past>>
  BY DEF ProbeInv, ListBuckets, Read
<1>2. Len(past) \in DOMAIN past /\ past[Len(past)] = srv /\ outcome = "none"
  BY <1>1 DEF Probing
<1>3. want.bucket \in BOOLEAN /\ srv \in Credentials
  BY <1>1 DEF Probing, ProbeWants
<1>4. \/ GoOn(Known("true"))  /\ srv.pair = "valid"
      \/ GoOn(Known("false")) /\ srv.pair = "denied"
      \/ Exit(report)         /\ srv.pair \in {"unknown", "wrong"}
      \/ Exit(Known("false")) /\ srv.pair = "disabled"
      \/ FailJson("failed")   /\ srv.pair = "invalid"
  BY <1>3, FirstAnswer DEF ListBuckets, Read, Pairs
<1>5. CASE GoOn(Known("true")) /\ srv.pair = "valid"
  BY <1>1, <1>2, <1>3, <1>5 DEF GoOn, Known, Conclude, Goto, Exit, Blank, ProbeInv, Probing, Heard,
     VerdictWasRight, Usable, Alive
<1>6. CASE GoOn(Known("false")) /\ srv.pair = "denied"
  BY <1>1, <1>2, <1>3, <1>6 DEF GoOn, Known, Conclude, Goto, Exit, Blank, ProbeInv, Probing, Heard,
     VerdictWasRight, Usable, Alive
<1>7. CASE Exit(report) /\ srv.pair \in {"unknown", "wrong"}
  BY <1>1, <1>2, <1>3, <1>7 DEF Exit, Blank, ProbeInv, Probing, VerdictWasRight, Usable, Alive
<1>8. CASE Exit(Known("false")) /\ srv.pair = "disabled"
  BY <1>1, <1>2, <1>3, <1>8 DEF Exit, Known, Blank, ProbeInv, Probing, VerdictWasRight, Usable, Alive
<1>9. CASE FailJson("failed")
  BY <1>1, <1>9 DEF FailJson, ProbeInv, Probing, VerdictWasRight
<1>10. QED
  BY <1>4, <1>5, <1>6, <1>7, <1>8, <1>9

\* The second call: usable is of the server as it is now, authenticated of the
\* moment the first call was answered.
LEMMA SecondCallKeeps ==
  ASSUME ProbeInv, want.kind = "credential", ListBucket
  PROVE  ProbeInv'
<1> DEFINE listable == srv.pair \in {"denied", "valid"} /\ srv.bucket = "listable"
           Said(x)  == Conclude([report EXCEPT !.bucket_listable = x, !.authorized = x])
<1>1. Probing /\ pc = "listBucket" /\ want.bucket /\ Heard /\ UNCHANGED <<srv, want, past>>
  BY DEF ProbeInv, ListBucket, Read
<1>2. Len(past) \in DOMAIN past /\ past[Len(past)] = srv /\ srv \in Credentials
  BY <1>1 DEF Probing
<1>3. PICK x \in {"true", "false"}, i \in DOMAIN past :
        /\ report = [Blank EXCEPT !.authenticated = "true", !.authorized = x]
        /\ past[i].pair \in {"valid", "denied"}
  BY <1>1 DEF Heard
<1>4. Alive(past[i])
  BY <1>3 DEF Alive
<1>5. (listable /\ Said("true")) \/ (~listable /\ Said("false")) \/ FailJson("failed")
  BY <1>2, SecondAnswer DEF ListBucket, Read
<1>6. CASE FailJson("failed")
  BY <1>1, <1>6 DEF FailJson, ProbeInv, Probing, VerdictWasRight
<1>7. CASE listable /\ Said("true")
  <2>1. /\ pc' = "idle" /\ report'.usable = "true" /\ report'.authenticated = "true"
        /\ report'.authorized = "true"
    BY <1>1, <1>3, <1>7 DEF Conclude, Exit, Blank
  <2>2. Usable(srv)
    BY <1>1, <1>7 DEF Usable
  <2>3. QED
    BY <1>1, <1>2, <1>3, <1>4, <2>1, <2>2 DEF ProbeInv, Probing, VerdictWasRight, Usable, Alive
<1>8. CASE ~listable /\ Said("false")
  <2>1. /\ pc' = "idle" /\ report'.usable = "false" /\ report'.authenticated = "true"
        /\ report'.authorized = "false"
    BY <1>1, <1>3, <1>8 DEF Conclude, Exit, Blank
  <2>2. ~Usable(srv)
    BY <1>1, <1>8 DEF Usable
  <2>3. QED
    BY <1>1, <1>2, <1>3, <1>4, <2>1, <2>2 DEF ProbeInv, Probing, VerdictWasRight, Usable, Alive
<1>9. QED
  BY <1>5, <1>6, <1>7, <1>8

\* The other modules are not at work while a probe is.
LEMMA InfoStepKeeps == ASSUME ProbeInv, InfoStep PROVE ProbeInv'
<1>1. want.kind # "credential"
  <2> SUFFICES ASSUME want.kind = "credential" PROVE FALSE
    OBVIOUS
  <2>1. pc \in {"idle", "listBuckets", "listBucket"} /\ srv.kind \notin InfoKinds
    BY NoCredentialHere DEF ProbeInv, Probing, Credentials
  <2>2. QED
    BY <2>1 DEF InfoStep, HeadBucket, GetVersioning, GetRules, GetQuota, Get, List, Refused, Read
<1>2. want' = want
  BY DEF InfoStep, HeadBucket, GetVersioning, GetRules, GetQuota, Get, List, Refused, Turned, Read
<1>3. QED
  BY <1>1, <1>2 DEF ProbeInv

\* The server stays of the kind it is.
LEMMA KindKept == ASSUME srv \in SameKind(srv), [Next]_vars PROVE (srv \in SameKind(srv))'
<1>1. CASE Others
  <2>1. srv' \in SameKind(srv)
    BY <1>1 DEF Others, Operate
  <2>2. QED
    BY <2>1, NoCredentialHere DEF SameKind, Credentials, Resource
<1>2. CASE UNCHANGED srv
  BY <1>2 DEF SameKind
<1>3. QED
  BY <1>1, <1>2 DEF Next, StartInfo, StartProbe, Begin, InfoStep, HeadBucket, GetVersioning, GetRules,
     GetQuota, Get, List, Refused, ProbeStep, ListBuckets, ListBucket, Unreachable, Turned, Read, vars

\* The invariant of the probe, beside the server staying of its kind.
LEMMA ProbeInvariant == Spec => [](ProbeInv /\ srv \in SameKind(srv))
<1>1. Init => ProbeInv /\ srv \in SameKind(srv)
  BY NoCredentialHere DEF Init, ProbeInv, SameKind, Credentials, Resource
<1>2. ProbeInv /\ srv \in SameKind(srv) /\ [Next]_vars => ProbeInv' /\ (srv \in SameKind(srv))'
  <2> SUFFICES ASSUME ProbeInv, srv \in SameKind(srv), [Next]_vars PROVE ProbeInv'
    BY KindKept
  <2>1. CASE StartInfo \/ StartProbe
    BY <2>1, StartKeeps
  <2>2. CASE InfoStep
    BY <2>2, InfoStepKeeps
  <2>3. CASE ProbeStep
    <3>1. want' = want
      BY <2>3 DEF ProbeStep, ListBuckets, ListBucket, Read
    <3>2. CASE want.kind = "credential"
      BY <2>3, <3>2, FirstCallKeeps, SecondCallKeeps DEF ProbeStep
    <3>3. CASE want.kind # "credential"
      BY <3>1, <3>3 DEF ProbeInv
    <3>4. QED
      BY <3>2, <3>3
  <2>4. CASE Unreachable
    BY <2>4 DEF Unreachable, Turned, FailJson, ProbeInv, Probing, VerdictWasRight
  <2>5. CASE Others
    BY <2>5, OthersKeep
  <2>6. CASE UNCHANGED vars
    BY <2>6 DEF vars, ProbeInv, Probing, Heard, VerdictWasRight, Usable
  <2>7. QED
    BY <2>1, <2>2, <2>3, <2>4, <2>5, <2>6 DEF Next
<1>3. QED
  BY <1>1, <1>2, PTL DEF Spec

\* Whatever account and bucket do between the two calls of a probe, its verdict
\* was right at a moment of the run.
THEOREM VerdictsWereRight == Spec => []VerdictWasRight
<1>1. ProbeInv => VerdictWasRight
  BY DEF ProbeInv, VerdictWasRight
<1>2. QED
  BY <1>1, ProbeInvariant, PTL
-----------------------------------------------------------------------------
(* The reports of the info modules.                                        *)

\* Moments of the past, in the order of the calls, at which the fields of r were so.
Moments(moment) ==
  /\ moment \in [DOMAIN ReadTogether -> DOMAIN past]
  /\ \A i, j \in DOMAIN moment : i < j => moment[i] <= moment[j]
SoAt(s, fields, r) ==
  \A field \in fields \cap DOMAIN r : field \in DOMAIN Truth(s) /\ r[field] = Truth(s)[field]
Told == \E moment : Moments(moment) /\ \A i \in DOMAIN moment : SoAt(past[moment[i]], ReadTogether[i], report)

\* The calls of a run, and the fields that have been read when they come next.
Before ==
  [head |-> {}, versioning |-> {"exists"}, rules |-> {"exists", "versioning"},
   quota |-> {"exists", "versioning", "rules"}, get |-> {}, list |-> {}]

Reporting ==
  /\ want \in InfoWants /\ srv \in Resource(want.kind) /\ past \in Seq(Resource(want.kind))
  /\ pc # "idle" => past # <<>> /\ past[Len(past)] = srv

\* The invariant: what is in a report was so, at every point of its making.
ReportInv == want.kind \in InfoKinds =>
  /\ Reporting
  /\ pc \in DOMAIN Before \cup {"idle"}
  /\ pc \in {"head", "versioning", "rules", "quota"} => want.name /\ want.kind = "bucket"
  /\ pc = "get"  => want.name /\ want.kind # "bucket"
  /\ pc = "list" => ~want.name
  /\ pc # "idle" => DOMAIN report = Before[pc]
  /\ pc # "idle" \/ (outcome = "ok" /\ want.user # EmptyName) => Told

\* The property is the invariant where a run ends well.
LEMMA ToldIsTrue == ReportInv => ReportWasTrue
  BY DEF ReportInv, ReportWasTrue, Told, Moments, SoAt

\* Every entry of a kind has the same fields, so a field left out is the default.
LEMMA ParsedIsEntry ==
  ASSUME NEW k \in InfoKinds, NEW e \in Entries[k], NEW a \in Answers(e)
  PROVE  Parsed(k, a) = e
<1>1. /\ e = [x \in DOMAIN e |-> e[x]]
      /\ \A d \in Entries[k] : DOMAIN d = DOMAIN e
  <2>1. k \in {"bucket", "policy", "user", "group", "service_account"}
    BY DEF InfoKinds, Entries
  <2>2. CASE k = "bucket"
    BY <2>2 DEF Entries
  <2>3. CASE k = "policy"
    BY <2>3 DEF Entries
  <2>4. CASE k = "user"
    BY <2>4 DEF Entries
  <2>5. CASE k = "group"
    BY <2>5 DEF Entries
  <2>6. CASE k = "service_account"
    BY <2>6 DEF Entries
  <2>7. QED
    BY <2>1, <2>2, <2>3, <2>4, <2>5, <2>6
<1>2. DOMAIN e = UNION {DOMAIN d : d \in Entries[k]}
  BY <1>1
<1>3. PICK omitted \in SUBSET {x \in DOMAIN e \cap DOMAIN LeftOut : e[x] = LeftOut[x]} :
        a = [x \in DOMAIN e \ omitted |-> e[x]]
  BY DEF Answers
<1>4. \A x \in DOMAIN e : (IF x \in DOMAIN a THEN a[x] ELSE LeftOut[x]) = e[x]
  BY <1>3
<1>5. Parsed(k, a) = [x \in DOMAIN e |-> IF x \in DOMAIN a THEN a[x] ELSE LeftOut[x]]
  BY <1>2 DEF Parsed
<1>6. QED
  BY <1>1, <1>4, <1>5

\* A call adds the fields of its group, as they are now, to those read before.
LEMMA CallTells ==
  ASSUME Told, Reporting, pc # "idle", UNCHANGED <<want, past>>,
         NEW n \in DOMAIN ReadTogether,
         \A i \in DOMAIN ReadTogether : i < n =>
           \A field \in ReadTogether[i] \cap DOMAIN report' :
             field \in DOMAIN report /\ report'[field] = report[field],
         SoAt(srv, ReadTogether[n], report'),
         \A i \in DOMAIN ReadTogether : i > n => ReadTogether[i] \cap DOMAIN report' = {}
  PROVE  Told'
<1>1. PICK m : Moments(m) /\ \A i \in DOMAIN m : SoAt(past[m[i]], ReadTogether[i], report)
  BY DEF Told
<1>0. PICK mm : mm = [i \in DOMAIN ReadTogether |-> IF i < n THEN m[i] ELSE Len(past)]
  OBVIOUS
<1>2. DOMAIN ReadTogether \subseteq Nat /\ DOMAIN past = 1..Len(past) /\ Len(past) \in DOMAIN past
  BY DEF ReadTogether, Reporting
<1>3. Moments(mm)
  BY <1>0, <1>1, <1>2 DEF Moments
<1>4. ASSUME NEW i \in DOMAIN mm PROVE SoAt(past[mm[i]], ReadTogether[i], report')
  <2>1. CASE i < n
    BY <1>0, <1>1, <2>1 DEF SoAt, Moments
  <2>2. CASE i = n
    BY <1>0, <1>2, <2>2 DEF Reporting
  <2>3. CASE i > n
    BY <1>0, <2>3 DEF SoAt
  <2>4. QED
    BY <1>0, <1>2, <2>1, <2>2, <2>3
<1>5. ReadTogether' = ReadTogether /\ \A t : Truth(t)' = Truth(t)
  BY DEF ReadTogether, Truth, Asked
<1>6. ASSUME NEW i \in DOMAIN mm PROVE SoAt(past[mm[i]], ReadTogether[i], report)'
  BY <1>4, <1>5 DEF SoAt
<1>7. Moments(mm)'
  BY <1>3, <1>5 DEF Moments
<1>8. QED
  BY <1>6, <1>7 DEF Told

\* A run that begins has told nothing, and looks at a resource of the kind asked for.
LEMMA StartReports ==
  ASSUME StartInfo \/ StartProbe, srv \in SameKind(srv)
  PROVE  ReportInv'
<1>1. CASE StartProbe
  <2>1. want'.kind = "credential"
    BY <1>1 DEF StartProbe, Begin, ProbeWants
  <2>2. QED
    BY <2>1, NoCredentialHere DEF ReportInv, InfoKinds
<1>2. CASE StartInfo
  <2>1. PICK w \in InfoWants :
          /\ srv.kind = w.kind
          /\ Begin(w, IF ~w.name THEN "list" ELSE IF w.kind = "bucket" THEN "head" ELSE "get", Nothing)
    BY <1>2 DEF StartInfo
  <2>2. w.kind \in InfoKinds /\ w.name \in BOOLEAN /\ srv \in Resource(w.kind)
    BY <2>1, NoCredentialHere DEF InfoWants, SameKind, InfoKinds, Entries
  <2>3. /\ want' = w /\ srv' = srv /\ past' = <<srv>> /\ DOMAIN report' = {} /\ outcome' = "none"
        /\ pc' = IF ~w.name THEN "list" ELSE IF w.kind = "bucket" THEN "head" ELSE "get"
    BY <2>1 DEF Begin, Nothing
  <2>4. Told'
    <3>1. PICK m : m = [i \in DOMAIN ReadTogether' |-> 1]
      OBVIOUS
    <3>2. Moments(m)'
      BY <2>3, <3>1 DEF Moments
    <3>3. \A i \in DOMAIN m : SoAt(past[m[i]], ReadTogether[i], report)'
      BY <2>3 DEF SoAt
    <3>4. QED
      BY <3>2, <3>3 DEF Told
  <2>5. Reporting'
    BY <2>1, <2>2, <2>3 DEF Reporting, Resource
  <2>6. QED
    BY <2>1, <2>2, <2>3, <2>4, <2>5 DEF ReportInv, Before
<1>3. QED
  BY <1>1, <1>2

\* What was told of the past is told of it still when there is more of it.
LEMMA OthersLeaveReports == ASSUME ReportInv, srv \in SameKind(srv), Others PROVE ReportInv'
<1> SUFFICES ASSUME want.kind \in InfoKinds PROVE ReportInv'
  BY DEF Others, Operate, ReportInv
<1>1. Reporting /\ pc # "idle" /\ Told /\ UNCHANGED <<want, pc, report, outcome>>
      /\ past' = Append(past, srv')
  BY DEF Others, Operate, ReportInv
<1>2. srv' \in Resource(want.kind)
  BY <1>1, NoCredentialHere DEF Others, Operate, SameKind, Reporting, Resource
<1>3. Reporting'
  BY <1>1, <1>2 DEF Reporting
<1>4. Told'
  <2>1. PICK m : Moments(m) /\ \A i \in DOMAIN m : SoAt(past[m[i]], ReadTogether[i], report)
    BY <1>1 DEF Told
  <2>2. ReadTogether' = ReadTogether /\ \A t : Truth(t)' = Truth(t)
    BY <1>1 DEF ReadTogether, Truth, Asked
  <2>3. \A i \in DOMAIN past : i \in DOMAIN past' /\ past'[i] = past[i]
    BY <1>1, <1>2 DEF Reporting
  <2>4. Moments(m)'
    BY <2>1, <2>2, <2>3 DEF Moments
  <2>5. ASSUME NEW i \in DOMAIN m PROVE SoAt(past[m[i]], ReadTogether[i], report)'
    BY <1>1, <2>1, <2>2, <2>3 DEF SoAt, Moments
  <2>6. QED
    BY <2>4, <2>5 DEF Told
<1>5. QED
  BY <1>1, <1>3, <1>4 DEF ReportInv, Before

\* The calls of bucket_info: one group of fields each.
LEMMA BucketCallTells ==
  ASSUME ReportInv, want.kind \in InfoKinds,
         HeadBucket \/ GetVersioning \/ GetRules \/ GetQuota
  PROVE  pc' # "idle" \/ outcome' = "ok" => Told'
<1> SUFFICES ASSUME pc' # "idle" \/ outcome' = "ok" PROVE Told'
  OBVIOUS
<1>1. /\ Reporting /\ Told /\ pc # "idle" /\ want.name /\ want.kind = "bucket"
      /\ DOMAIN report = Before[pc] /\ UNCHANGED <<srv, want, past>>
  <2>1. pc \in {"head", "versioning", "rules", "quota"} /\ UNCHANGED <<srv, want, past>>
    BY DEF HeadBucket, GetVersioning, GetRules, GetQuota, Read
  <2>2. QED
    BY <2>1 DEF ReportInv
<1>2. ReadTogether = <<{"exists"}, {"versioning"}, {"rules"}, {"quota"}>>
  BY <1>1 DEF ReadTogether
<1>3. Exists => /\ DOMAIN srv.entry = {"versioning", "rules", "quota"}
                /\ \A a \in Answers(srv.entry) : Parsed("bucket", a) = srv.entry
  <2>1. Exists => srv.entry \in Entries["bucket"]
    BY <1>1 DEF Exists, Reporting, Resource
  <2>2. "bucket" \in InfoKinds
    BY DEF InfoKinds, Entries
  <2>3. \A e \in Entries["bucket"] : DOMAIN e = {"versioning", "rules", "quota"}
    BY DEF Entries
  <2>4. QED
    BY <2>1, <2>2, <2>3, ParsedIsEntry
<1>4. /\ {"exists", "rules", "quota"} \subseteq DOMAIN Truth(srv)
      /\ Truth(srv).exists = IF Exists THEN TRUE ELSE FALSE
      /\ Exists => /\ "versioning" \in DOMAIN Truth(srv)
                   /\ \A field \in DOMAIN srv.entry : Truth(srv)[field] = srv.entry[field]
      /\ ~Exists => Truth(srv).rules = NoRules /\ Truth(srv).quota = 0
  <2>1. Truth(srv) = IF Exists THEN Also([exists |-> TRUE], srv.entry)
                     ELSE [exists |-> FALSE, rules |-> NoRules, quota |-> 0]
    BY <1>1 DEF Truth, Exists, Reporting, Resource
  <2>2. CASE Exists
    BY <1>3, <2>1, <2>2 DEF Also
  <2>3. CASE ~Exists
    BY <2>1, <2>3
  <2>4. QED
    BY <2>2, <2>3
<1>5. CASE HeadBucket
  <2>1. DOMAIN report' = {"exists"} /\ report'.exists = Truth(srv).exists
    <3>1. report' = IF Exists THEN [exists |-> TRUE] ELSE [exists |-> FALSE]
      BY <1>5 DEF HeadBucket, Read, Goto, Exit
    <3>2. QED
      BY <1>4, <3>1
  <2>2. SoAt(srv, ReadTogether[1], report')
    BY <1>2, <1>4, <2>1 DEF SoAt
  <2>3. QED
    BY <1>1, <1>2, <2>1, <2>2, CallTells
<1>6. CASE GetVersioning
  <2>1. Exists /\ report' = Also(report, [versioning |-> srv.entry.versioning])
        /\ DOMAIN report = {"exists"}
    BY <1>1, <1>3, <1>6 DEF GetVersioning, Read, Goto, FailJson, Before
  <2>2. SoAt(srv, ReadTogether[2], report')
    BY <1>2, <1>3, <1>4, <2>1 DEF SoAt, Also
  <2>3. DOMAIN report' = {"exists", "versioning"} /\ report'.exists = report.exists
    BY <2>1 DEF Also
  <2>4. QED
    BY <1>1, <1>2, <2>1, <2>2, <2>3, CallTells
<1>7. CASE GetRules
  <2>1. DOMAIN report = {"exists", "versioning"}
    BY <1>1, <1>7 DEF GetRules, Read, Before
  <2>2. report' = Also(report, [rules |-> Truth(srv).rules])
    BY <1>3, <1>4, <1>7 DEF GetRules, Read, Goto
  <2>3. SoAt(srv, ReadTogether[3], report')
    BY <1>2, <1>4, <2>1, <2>2 DEF SoAt, Also
  <2>4. DOMAIN report' = {"exists", "versioning", "rules"}
        /\ report'.exists = report.exists /\ report'.versioning = report.versioning
    BY <2>1, <2>2 DEF Also
  <2>5. QED
    BY <1>1, <1>2, <2>1, <2>3, <2>4, CallTells
<1>8. CASE GetQuota
  <2>1. DOMAIN report = {"exists", "versioning", "rules"}
    BY <1>1, <1>8 DEF GetQuota, Read, Before
  <2>2. report' = Also(report, [quota |-> Truth(srv).quota])
    BY <1>3, <1>4, <1>8 DEF GetQuota, Read, Exit
  <2>3. SoAt(srv, ReadTogether[4], report')
    BY <1>2, <1>4, <2>1, <2>2 DEF SoAt, Also
  <2>4. /\ DOMAIN report' = {"exists", "versioning", "rules", "quota"}
        /\ report'.exists = report.exists /\ report'.versioning = report.versioning
        /\ report'.rules = report.rules
    BY <2>1, <2>2 DEF Also
  <2>5. QED
    BY <1>1, <1>2, <2>1, <2>3, <2>4, CallTells
<1>9. QED
  BY <1>5, <1>6, <1>7, <1>8

\* The other calls report the resource as it is, all at once.
LEMMA OneCallTells ==
  ASSUME ReportInv, want.kind \in InfoKinds, Get \/ List
  PROVE  outcome' = "ok" /\ want.user # EmptyName => Told'
<1> SUFFICES ASSUME outcome' = "ok", want.user # EmptyName PROVE Told'
  OBVIOUS
<1>1. /\ Reporting /\ Told /\ pc # "idle" /\ UNCHANGED <<srv, want, past>>
      /\ srv.kind = want.kind /\ ~(want.kind = "bucket" /\ want.name)
  BY DEF ReportInv, Get, List, Read, Reporting, Resource
<1>2. Exists => /\ srv.entry \in Entries[srv.kind]
                /\ \A a \in Answers(srv.entry) : Parsed(srv.kind, a) = srv.entry
  BY <1>1, ParsedIsEntry DEF Exists, Reporting, Resource
<1>3. report' = Truth(srv)
  <2>1. CASE Get
    <3>1. want.name
      BY <2>1 DEF ReportInv, Get, Read
    <3>2. \A status \in {404, 500} : HttpClass(status) # "ok" /\ ReadsAsMissing(HttpClass(status), status = 500)
      BY DEF HttpClass, ReadsAsMissing, PermanentClasses, GatewayStatuses
    <3>3. QED
      BY <1>1, <1>2, <2>1, <3>1, <3>2 DEF Get, Read, Exit, FailJson, Truth, Exists
  <2>2. CASE List
    <3>1. ~want.name
      BY <2>2 DEF ReportInv, List, Read
    <3>2. QED
      BY <1>1, <1>2, <2>2, <3>1 DEF List, Read, Exit, Truth, Selected, Asked, Exists
  <2>3. QED
    BY <2>1, <2>2
<1>4. DOMAIN ReadTogether = {1}
  BY <1>1 DEF ReadTogether
<1>5. SoAt(srv, ReadTogether[1], report')
  BY <1>3 DEF SoAt
<1>6. QED
  BY <1>1, <1>4, <1>5, CallTells

\* Whatever call is answered, or not, what the report holds so far was so.
LEMMA InfoStepReports ==
  ASSUME ReportInv, want.kind \in InfoKinds, InfoStep \/ Unreachable
  PROVE  ReportInv'
<1>1. Reporting /\ UNCHANGED <<srv, want, past>>
  BY DEF ReportInv, InfoStep, HeadBucket, GetVersioning, GetRules, GetQuota, Get, List, Refused,
     Unreachable, Turned, Read
<1>2. CASE Refused \/ Unreachable
  BY <1>1, <1>2 DEF Refused, Unreachable, Turned, FailJson, ReportInv, Reporting
<1>3. CASE HeadBucket \/ GetVersioning \/ GetRules \/ GetQuota
  <2>1. pc \in {"head", "versioning", "rules", "quota"} /\ DOMAIN report = Before[pc]
        /\ want.name /\ want.kind = "bucket"
    BY <1>3 DEF ReportInv, HeadBucket, GetVersioning, GetRules, GetQuota, Read
  <2>2. /\ pc' \in {"idle", "versioning", "rules", "quota"}
        /\ pc' # "idle" => DOMAIN report' = Before[pc']
    <3>1. CASE HeadBucket
      BY <3>1 DEF HeadBucket, Read, Goto, Exit, Before
    <3>2. CASE GetVersioning
      <4>1. DOMAIN report = {"exists"}
        BY <2>1, <3>2 DEF GetVersioning, Read, Before
      <4>2. CASE Exists
        <5>1. PICK a \in Answers(srv.entry) :
                pc' = "rules" /\ report' = Also(report, [versioning |-> Parsed("bucket", a).versioning])
          BY <3>2, <4>2 DEF GetVersioning, Read, Goto
        <5>2. DOMAIN report' = {"exists", "versioning"}
          BY <4>1, <5>1 DEF Also
        <5>3. QED
          BY <5>1, <5>2 DEF Before
      <4>3. CASE ~Exists
        BY <3>2, <4>3 DEF GetVersioning, Read, FailJson
      <4>4. QED
        BY <4>2, <4>3
    <3>3. CASE GetRules
      <4>1. DOMAIN report = {"exists", "versioning"}
        BY <2>1, <3>3 DEF GetRules, Read, Before
      <4>2. PICK x : pc' = "quota" /\ report' = Also(report, [rules |-> x])
        BY <3>3 DEF GetRules, Read, Goto
      <4>3. DOMAIN report' = {"exists", "versioning", "rules"}
        BY <4>1, <4>2 DEF Also
      <4>4. QED
        BY <4>2, <4>3 DEF Before
    <3>4. CASE GetQuota
      BY <3>4 DEF GetQuota, Read, Exit
    <3>5. QED
      BY <1>3, <3>1, <3>2, <3>3, <3>4
  <2>3. pc' # "idle" \/ outcome' = "ok" => Told'
    BY <1>3, BucketCallTells
  <2>4. Reporting'
    BY <1>1, <2>1 DEF Reporting
  <2>5. QED
    BY <1>1, <2>1, <2>2, <2>3, <2>4 DEF ReportInv, Before
<1>4. CASE Get \/ List
  <2>1. pc' = "idle"
    BY <1>4 DEF Get, List, Read, Exit, FailJson
  <2>2. QED
    BY <1>1, <1>4, <2>1, OneCallTells DEF ReportInv, Reporting
<1>5. QED
  BY <1>2, <1>3, <1>4 DEF InfoStep

\* The invariant of the reports, beside the server staying of its kind.
LEMMA ReportInvariant == Spec => [](ReportInv /\ srv \in SameKind(srv))
<1>1. Init => ReportInv /\ srv \in SameKind(srv)
  BY NoCredentialHere DEF Init, ReportInv, InfoKinds, Entries, SameKind, Credentials, Resource
<1>2. ReportInv /\ srv \in SameKind(srv) /\ [Next]_vars => ReportInv' /\ (srv \in SameKind(srv))'
  <2> SUFFICES ASSUME ReportInv, srv \in SameKind(srv), [Next]_vars PROVE ReportInv'
    BY KindKept
  <2>1. CASE StartInfo \/ StartProbe
    BY <2>1, StartReports
  <2>2. CASE InfoStep \/ Unreachable
    <3>1. CASE want.kind \in InfoKinds
      BY <2>2, <3>1, InfoStepReports
    <3>2. CASE want.kind \notin InfoKinds
      BY <2>2, <3>2 DEF InfoStep, HeadBucket, GetVersioning, GetRules, GetQuota, Get, List, Refused,
         Unreachable, Turned, Read, ReportInv
    <3>3. QED
      BY <3>1, <3>2
  <2>3. CASE ProbeStep
    BY <2>3 DEF ProbeStep, ListBuckets, ListBucket, Read, ReportInv, Before
  <2>4. CASE Others
    BY <2>4, OthersLeaveReports
  <2>5. CASE UNCHANGED vars
    <3>1. ReadTogether' = ReadTogether /\ \A t : Truth(t)' = Truth(t)
      BY <2>5 DEF vars, ReadTogether, Truth, Asked
    <3>2. Told => Told'
      BY <2>5, <3>1 DEF vars, Told, Moments, SoAt
    <3>3. QED
      BY <2>5, <3>2 DEF vars, ReportInv, Reporting, Before
  <2>6. QED
    BY <2>1, <2>2, <2>3, <2>4, <2>5 DEF Next
<1>3. QED
  BY <1>1, <1>2, PTL DEF Spec

\* Whoever changes the server, and however often: every field of a report was
\* true at some moment of the run, and the moments are in the order of the calls.
THEOREM ReportsWereTrue == Spec => []ReportWasTrue
  BY ReportInvariant, ToldIsTrue, PTL
-----------------------------------------------------------------------------
(* Types, and the one error a reader's report may end in.                  *)

\* Where a probe stands, and with which parameters: what the types need to know.
Placed ==
  /\ want.kind = "credential" =>
       pc \in {"idle", "listBuckets", "listBucket"} /\ (pc = "listBucket" => want.bucket)

LEMMA ProbePlaced == ProbeInv => Placed
  BY DEF ProbeInv, Placed

\* Resources of one kind are all of the kind of any of them.
LEMMA OneKind == ASSUME srv \in SameKind(srv), NEW s \in SameKind(srv) PROVE SameKind(s) = SameKind(srv)
  BY NoCredentialHere DEF SameKind, Credentials, Resource

\* A run that begins has seen the server once.
LEMMA StartTypes == ASSUME TypeOK, StartInfo \/ StartProbe PROVE TypeOK'
<1>1. CASE StartInfo
  <2>1. PICK w \in InfoWants :
          Begin(w, IF ~w.name THEN "list" ELSE IF w.kind = "bucket" THEN "head" ELSE "get", Nothing)
    BY <1>1 DEF StartInfo
  <2>2. w.kind # "credential"
    BY DEF InfoWants, InfoKinds, Entries
  <2>3. past' = <<srv>> /\ srv' = srv /\ want' = w /\ outcome' = "none"
        /\ pc' \in {"list", "head", "get"}
    BY <2>1 DEF Begin
  <2>4. (past \in Seq(SameKind(srv)) /\ srv \in SameKind(srv))' /\ Len(past') <= MaxMoves + 1
    <3>1. srv \in SameKind(srv) /\ Len(<<srv>>) = 1 /\ 1 <= MaxMoves + 1
      BY MaxMovesAssumption DEF TypeOK
    <3>2. <<srv>> \in Seq(SameKind(srv))
      BY <3>1
    <3>3. SameKind(srv)' = SameKind(srv)
      BY <2>3 DEF SameKind
    <3>4. QED
      BY <2>3, <3>1, <3>2, <3>3
  <2>5. QED
    BY <2>2, <2>3, <2>4 DEF TypeOK
<1>2. CASE StartProbe
  <2>1. PICK w \in ProbeWants : Begin(w, "listBuckets", Blank)
    BY <1>2 DEF StartProbe
  <2>2. past' = <<srv>> /\ srv' = srv /\ outcome' = "none" /\ pc' = "listBuckets" /\ report' = Blank
    BY <2>1 DEF Begin
  <2>3. (past \in Seq(SameKind(srv)) /\ srv \in SameKind(srv))' /\ Len(past') <= MaxMoves + 1
    <3>1. srv \in SameKind(srv) /\ Len(<<srv>>) = 1 /\ 1 <= MaxMoves + 1
      BY MaxMovesAssumption DEF TypeOK
    <3>2. <<srv>> \in Seq(SameKind(srv))
      BY <3>1
    <3>3. SameKind(srv)' = SameKind(srv)
      BY <2>2 DEF SameKind
    <3>4. QED
      BY <2>2, <3>1, <3>2, <3>3
  <2>4. report' \in [DOMAIN Blank -> Tri]
    BY <2>2 DEF Blank, Tri
  <2>5. QED
    BY <2>2, <2>3, <2>4 DEF TypeOK
<1>3. QED
  BY <1>1, <1>2

\* Others leave everything but the server, and the bound holds.
LEMMA OthersType == ASSUME TypeOK, Others PROVE TypeOK'
<1>1. /\ srv' \in SameKind(srv) /\ past' = Append(past, srv') /\ Len(past) <= MaxMoves
      /\ UNCHANGED <<want, pc, report, outcome>>
  BY DEF Others, Operate
<1>2. SameKind(srv') = SameKind(srv)
  BY <1>1, OneKind DEF TypeOK
<1>3. past' \in Seq(SameKind(srv)) /\ Len(past') = Len(past) + 1
  BY <1>1 DEF TypeOK
<1>4. (srv \in SameKind(srv) /\ past \in Seq(SameKind(srv)))'
  BY <1>1, <1>2, <1>3 DEF SameKind
<1>5. QED
  BY <1>1, <1>3, <1>4, MaxMovesAssumption DEF TypeOK

\* The calls of the info modules: the report is a record of the kind asked for.
LEMMA InfoStepTypes == ASSUME TypeOK, Placed, InfoStep PROVE TypeOK'
<1>1. UNCHANGED <<srv, want, past>>
  BY DEF InfoStep, HeadBucket, GetVersioning, GetRules, GetQuota, Get, List, Refused, Turned, Read
<1>2. (srv \in SameKind(srv) /\ past \in Seq(SameKind(srv)) /\ Len(past) <= MaxMoves + 1)'
  BY <1>1 DEF TypeOK, SameKind
<1>3. /\ pc' \in {"idle", "versioning", "rules", "quota"}
      /\ outcome' \in {outcome, "ok"} \cup PermanentClasses
  <2>1. HttpClass(404) \in PermanentClasses /\ HttpClass(500) \in PermanentClasses
    BY DEF HttpClass, PermanentClasses, GatewayStatuses
  <2>2. CASE HeadBucket \/ GetVersioning \/ GetRules \/ GetQuota \/ List \/ Refused
    BY <2>2 DEF HeadBucket, GetVersioning, GetRules, GetQuota, List, Refused, Turned, Read, Goto,
       Exit, FailJson, PermanentClasses
  <2>3. CASE Get
    BY <2>1, <2>3 DEF Get, Read, Exit, FailJson
  <2>4. QED
    BY <2>2, <2>3 DEF InfoStep
<1>4. want.kind = "credential" => UNCHANGED report /\ pc' # "listBucket"
  BY <1>3 DEF Placed, InfoStep, HeadBucket, GetVersioning, GetRules, GetQuota, Get, List, Refused,
     Turned, FailJson, Read
<1>5. QED
  BY <1>1, <1>2, <1>3, <1>4 DEF TypeOK

\* The two calls of a probe fill in fields of the blank verdict.
LEMMA ProbeStepTypes == ASSUME TypeOK, Placed, ProbeStep PROVE TypeOK'
<1>1. UNCHANGED <<srv, want, past>>
  BY DEF ProbeStep, ListBuckets, ListBucket, Read
<1>2. (srv \in SameKind(srv) /\ past \in Seq(SameKind(srv)) /\ Len(past) <= MaxMoves + 1)'
  BY <1>1 DEF TypeOK, SameKind
<1> DEFINE Verdict == [DOMAIN Blank -> Tri]
<1>3. \A c : c \in Verdict => \A x \in Tri :
        /\ [c EXCEPT !.authenticated = "true", !.authorized = x] \in Verdict
        /\ [c EXCEPT !.bucket_listable = x, !.authorized = x] \in Verdict
        /\ [c EXCEPT !.usable = x] \in Verdict
  BY DEF Blank, Tri
<1>4. "true" \in Tri /\ "false" \in Tri
  BY DEF Tri
<1>5. ASSUME NEW c, c \in Verdict, Conclude(c)
      PROVE  report' \in Verdict /\ pc' = "idle" /\ outcome' = "ok"
  BY <1>3, <1>4, <1>5 DEF Conclude, Exit
<1>6. want.kind = "credential" => report \in Verdict
  BY DEF TypeOK
<1>7. /\ want.kind = "credential" => report' \in Verdict
      /\ pc' = "idle" \/ (pc' = "listBucket" /\ want.bucket)
      /\ outcome' \in {outcome, "ok", "failed"}
  <2>1. CASE ListBuckets
    <3>1. \/ \E x \in {"true", "false"} : GoOn(Known(x)) \/ Exit(Known(x))
          \/ Exit(report)
          \/ FailJson("failed")
      BY <2>1 DEF ListBuckets, Read
    <3>2. CASE \E x \in {"true", "false"} : GoOn(Known(x)) \/ Exit(Known(x))
      <4>1. PICK x \in {"true", "false"} : GoOn(Known(x)) \/ Exit(Known(x))
        BY <3>2
      <4>2. want.kind = "credential" => Known(x) \in Verdict
        BY <1>3, <1>4, <1>6 DEF Known
      <4>3. QED
        BY <1>5, <4>1, <4>2 DEF GoOn, Goto, Exit, Conclude
    <3>3. QED
      BY <1>6, <3>1, <3>2 DEF Exit, FailJson
  <2>2. CASE ListBucket
    <3>1. \/ \E x \in {"true", "false"} :
               Conclude([report EXCEPT !.bucket_listable = x, !.authorized = x])
          \/ FailJson("failed")
      BY <2>2 DEF ListBucket, Read
    <3>2. CASE FailJson("failed")
      BY <1>6, <3>2 DEF FailJson
    <3>3. ASSUME NEW x \in {"true", "false"},
                 Conclude([report EXCEPT !.bucket_listable = x, !.authorized = x])
          PROVE  /\ want.kind = "credential" => report' \in Verdict
                 /\ pc' = "idle" /\ outcome' = "ok"
      <4>1. want.kind = "credential" =>
              [report EXCEPT !.bucket_listable = x, !.authorized = x] \in Verdict
        BY <1>3, <1>4, <1>6, <3>3
      <4>2. QED
        BY <1>5, <3>3, <4>1 DEF Conclude, Exit
    <3>4. QED
      BY <3>1, <3>2, <3>3
  <2>3. QED
    BY <2>1, <2>2 DEF ProbeStep
<1>8. QED
  BY <1>1, <1>2, <1>7 DEF TypeOK

\* However the server changes and whatever it answers, the variables have their types.
THEOREM TypeCorrect == Spec => []TypeOK
<1>1. Init => TypeOK
  BY NoCredentialHere, MaxMovesAssumption DEF Init, TypeOK, SameKind, Credentials, Resource
<1>2. TypeOK /\ Placed /\ [Next]_vars => TypeOK'
  <2> SUFFICES ASSUME TypeOK, Placed, [Next]_vars PROVE TypeOK'
    OBVIOUS
  <2>1. CASE Unreachable
    <3>1. UNCHANGED <<srv, want, past, report>> /\ pc' = "idle" /\ outcome' = "network"
      BY <2>1 DEF Unreachable, Turned, FailJson
    <3>2. QED
      BY <3>1 DEF TypeOK, SameKind
  <2>2. CASE UNCHANGED vars
    BY <2>2 DEF vars, TypeOK, SameKind
  <2>3. QED
    BY <2>1, <2>2, StartTypes, InfoStepTypes, ProbeStepTypes, OthersType DEF Next
<1>3. QED
  BY <1>1, <1>2, ProbeInvariant, ProbePlaced, PTL DEF Spec
-----------------------------------------------------------------------------
\* What a run under way has seen: the server as it is now is the last of it, and
\* before bucket_info reads the versioning the bucket has been there.
Witnessed ==
  /\ pc # "idle" =>
       /\ want.kind \in InfoKinds \cup {"credential"} /\ outcome = "none"
       /\ past \in Seq(SameKind(srv)) /\ past # <<>> /\ past[Len(past)] = srv
  /\ pc = "versioning" => \E i \in DOMAIN past : past[i].entry # Missing

\* The invariant: an error has its cause in the past of the run it ended.
CauseInv == NotFoundHasACause /\ Witnessed

\* Where the calls of bucket_info are made, a bucket is asked for.
LEMMA BucketAsked == ASSUME CauseInv, ReportInv, Placed, pc = "versioning" PROVE want.kind = "bucket"
  BY DEF CauseInv, Witnessed, ReportInv, Placed

\* A missing resource is told by the answers to a reader, by the 500 as well.
LEMMA MissingIsNoError ==
  ASSUME NEW status \in {404, 500} PROVE ReadsAsMissing(HttpClass(status), status = 500)
  BY DEF ReadsAsMissing, HttpClass, PermanentClasses, GatewayStatuses

\* A run that begins has seen the server as it is.
LEMMA StartWitnesses ==
  ASSUME TypeOK, StartInfo \/ StartProbe PROVE CauseInv'
<1>1. PICK l \in {"list", "head", "get", "listBuckets"}, w \in InfoWants \cup ProbeWants,
           blank \in {Nothing, Blank} : Begin(w, l, blank)
  BY DEF StartInfo, StartProbe
<1>2. w.kind \in InfoKinds \cup {"credential"}
  BY DEF InfoWants, ProbeWants, InfoKinds, Entries
<1>3. /\ past' = <<srv>> /\ srv' = srv /\ want' = w /\ outcome' = "none" /\ pc' = l
  BY <1>1 DEF Begin
<1>4. past' \in Seq(SameKind(srv)) /\ past' # <<>> /\ past'[Len(past')] = srv
  BY <1>3 DEF TypeOK
<1>5. SameKind(srv)' = SameKind(srv)
  BY <1>3 DEF SameKind
<1>6. QED
  BY <1>2, <1>3, <1>4, <1>5 DEF CauseInv, Witnessed, NotFoundHasACause, PermanentClasses

\* What has been seen stays seen.
LEMMA OthersWitness == ASSUME TypeOK, CauseInv, Others PROVE CauseInv'
<1>1. /\ srv' \in SameKind(srv) /\ past' = Append(past, srv') /\ pc # "idle"
      /\ UNCHANGED <<want, pc, report, outcome>>
  BY DEF Others, Operate
<1>2. SameKind(srv)' = SameKind(srv)
  BY <1>1, OneKind DEF TypeOK, SameKind
<1>3. past' \in Seq(SameKind(srv)) /\ past' # <<>> /\ past'[Len(past')] = srv'
      /\ \A i \in DOMAIN past : i \in DOMAIN past' /\ past'[i] = past[i]
  BY <1>1 DEF TypeOK
<1>4. outcome' = "none"
  BY <1>1 DEF CauseInv, Witnessed
<1>5. pc = "versioning" => \E i \in DOMAIN past' : past'[i].entry # Missing
  BY <1>3 DEF CauseInv, Witnessed
<1>6. QED
  BY <1>1, <1>2, <1>3, <1>4, <1>5 DEF CauseInv, Witnessed, NotFoundHasACause, PermanentClasses,
     Missing, Nothing

\* A call of which the module makes no error of this kind.
LEMMA HarmlessCall ==
  ASSUME CauseInv, UNCHANGED <<srv, want, past>>, pc # "idle",
         outcome' \in {"none", "ok", "failed", "network", "auth"},
         pc' # "idle" => outcome' = "none",
         pc' = "versioning" => \E i \in DOMAIN past : past[i].entry # Missing
  PROVE  CauseInv'
<1>1. SameKind(srv)' = SameKind(srv)
  BY DEF SameKind
<1>2. NotFoundHasACause'
  BY DEF NotFoundHasACause, PermanentClasses
<1>3. Witnessed'
  BY <1>1 DEF CauseInv, Witnessed, Missing, Nothing
<1>4. QED
  BY <1>2, <1>3 DEF CauseInv

\* The calls of the info modules: only the second one of bucket_info has an error
\* to report, and then the bucket it has seen is gone.
LEMMA InfoStepWitnesses ==
  ASSUME TypeOK, Placed, ReportInv, CauseInv, InfoStep PROVE CauseInv'
<1>1. UNCHANGED <<srv, want, past>> /\ pc # "idle"
  BY DEF InfoStep, HeadBucket, GetVersioning, GetRules, GetQuota, Get, List, Refused, Turned, Read
<1>2. /\ outcome = "none" /\ past \in Seq(SameKind(srv)) /\ past # <<>> /\ past[Len(past)] = srv
      /\ Len(past) \in DOMAIN past
  BY <1>1 DEF CauseInv, Witnessed
<1>3. CASE HeadBucket
  <2>1. /\ outcome' \in {"none", "ok"} /\ pc' \in {"idle", "versioning"}
        /\ pc' # "idle" => outcome' = "none"
        /\ pc' = "versioning" => srv.entry # Missing
    BY <1>2, <1>3 DEF HeadBucket, Read, Goto, Exit, Exists
  <2>2. QED
    BY <1>1, <1>2, <2>1, HarmlessCall
<1>4. CASE GetVersioning
  <2>1. pc = "versioning"
    BY <1>4 DEF GetVersioning, Read
  <2>2. CASE Exists
    <3>1. outcome' = "none" /\ pc' = "rules"
      BY <1>2, <1>4, <2>2 DEF GetVersioning, Read, Goto
    <3>2. QED
      BY <1>1, <3>1, HarmlessCall
  <2>3. CASE ~Exists
    <3>1. outcome' = "notfound" /\ pc' = "idle"
      BY <1>4, <2>3 DEF GetVersioning, Read, FailJson
    <3>2. PICK i \in DOMAIN past : past[i].entry # Missing
      BY <2>1 DEF CauseInv, Witnessed
    <3>3. past[Len(past)].entry = Missing
      BY <1>2, <2>3 DEF Exists
    <3>4. i < Len(past)
      BY <1>2, <3>2, <3>3
    <3>5. want'.kind = "bucket"
      BY <1>1, <2>1, BucketAsked
    <3>6. Missing' = Missing
      BY DEF Missing, Nothing
    <3>7. QED
      BY <1>1, <1>2, <3>1, <3>2, <3>3, <3>4, <3>5, <3>6 DEF CauseInv, Witnessed, NotFoundHasACause
  <2>4. QED
    BY <2>2, <2>3
<1>5. CASE GetRules \/ GetQuota \/ List
  <2>1. outcome' \in {"none", "ok"} /\ pc' \in {"idle", "quota"} /\ (pc' # "idle" => outcome' = "none")
    BY <1>2, <1>5 DEF GetRules, GetQuota, List, Read, Goto, Exit
  <2>2. QED
    BY <1>1, <2>1, HarmlessCall
<1>6. CASE Get
  <2>1. outcome' = "ok" /\ pc' = "idle"
    BY <1>6, MissingIsNoError DEF Get, Read, Exit
  <2>2. QED
    BY <1>1, <2>1, HarmlessCall
<1>7. CASE Refused
  <2>1. outcome' = "auth" /\ pc' = "idle"
    BY <1>7 DEF Refused, Turned, FailJson
  <2>2. QED
    BY <1>1, <2>1, HarmlessCall
<1>8. QED
  BY <1>3, <1>4, <1>5, <1>6, <1>7 DEF InfoStep

\* A probe ends in a verdict or "failed", and no call of it is one of bucket_info.
LEMMA ProbeStepWitnesses == ASSUME CauseInv, ProbeStep PROVE CauseInv'
<1>1. UNCHANGED <<srv, want, past>> /\ pc # "idle"
  BY DEF ProbeStep, ListBuckets, ListBucket, Read
<1>2. outcome = "none"
  BY <1>1 DEF CauseInv, Witnessed
<1>3. /\ outcome' \in {"none", "ok", "failed"} /\ pc' \in {"idle", "listBucket"}
      /\ pc' # "idle" => outcome' = "none"
  BY <1>2 DEF ProbeStep, ListBuckets, ListBucket, Read, GoOn, Conclude, Goto, Exit, FailJson
<1>4. QED
  BY <1>1, <1>3, HarmlessCall

\* Whatever others do: a reader gives up on "not found" only when it asked for a
\* bucket that was there at one of its calls and gone at a later one, and on no
\* other error of the resource at all - what was missing from the start, by the
\* status or by the message of the server, is reported as missing.
THEOREM NotFoundIsExplained == Spec => []NotFoundHasACause
<1>1. Init => CauseInv
  BY DEF Init, CauseInv, Witnessed, NotFoundHasACause, PermanentClasses
<1>2. CauseInv /\ TypeOK /\ Placed /\ ReportInv /\ [Next]_vars => CauseInv'
  <2> SUFFICES ASSUME CauseInv, TypeOK, Placed, ReportInv, [Next]_vars PROVE CauseInv'
    OBVIOUS
  <2>1. CASE Unreachable
    <3>1. UNCHANGED <<srv, want, past>> /\ pc # "idle" /\ pc' = "idle" /\ outcome' = "network"
      BY <2>1 DEF Unreachable, Turned, FailJson
    <3>2. QED
      BY <3>1, HarmlessCall
  <2>2. CASE UNCHANGED vars
    BY <2>2 DEF vars, CauseInv, Witnessed, NotFoundHasACause, SameKind, Missing, Nothing
  <2>3. QED
    BY <2>1, <2>2, StartWitnesses, OthersWitness, InfoStepWitnesses, ProbeStepWitnesses DEF Next
<1>3. CauseInv => NotFoundHasACause
  BY DEF CauseInv
<1>4. QED
  BY <1>1, <1>2, <1>3, TypeCorrect, ProbeInvariant, ProbePlaced, ReportInvariant, PTL DEF Spec
=============================================================================
