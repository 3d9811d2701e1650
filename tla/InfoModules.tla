----------------------------- MODULE InfoModules -----------------------------
(***************************************************************************)
(* The modules bucket_info, policy_info, user_info, group_info and         *)
(* service_account_info: the list of all resources of a kind, looked at    *)
(* for one of them, or the details of that one.                            *)
(***************************************************************************)
EXTENDS InfoTask

CONSTANT Owners    \* users that service accounts belong to

\* A missing resource has no fields.
Missing == Nothing

\* What there is to know of one resource, by kind, and what a field means that
\* the server leaves out.
Entries ==
  [bucket |-> [versioning : Versioning, rules : Rulesets \cup {NoRules}, quota : Sizes \cup {0}],
   policy |-> [document : Documents],
   user   |-> [status : Statuses, policies : SUBSET Builtins, member_of : SUBSET {"group"}],
   group  |-> [status : Statuses, policies : SUBSET Builtins, members : SUBSET Users],
   service_account |-> [parent_user : Owners, expiration : {"none", "date"}]]
LeftOut ==
  [versioning |-> "unconfigured", rules |-> NoRules, quota |-> 0, status |-> "enabled",
   policies |-> {}, member_of |-> {}, members |-> {}, expiration |-> "none"]

InfoKinds   == DOMAIN Entries
Resource(k) == [kind : {k}, entry : Entries[k] \cup {Missing}]
Exists      == srv.entry # Missing

\* The user name "" is given, and yet none.
EmptyName == ""

InfoWants ==
  [kind : InfoKinds, name : BOOLEAN, user : {Unset}]
  \cup [kind : {"service_account"}, name : {FALSE}, user : Owners \cup {EmptyName}]

\* The server may leave out a field that holds what leaving it out means.
Answers(entry) ==
  {[f \in DOMAIN entry \ omitted |-> entry[f]] :
     omitted \in SUBSET {f \in DOMAIN entry \cap DOMAIN LeftOut : entry[f] = LeftOut[f]}}

\* Mutant: a status left out is none.
ParsedEmpty(k, answer) ==
  [f \in UNION {DOMAIN e : e \in Entries[k]} |-> IF f \in DOMAIN answer THEN answer[f] ELSE "none"]
Parsed(k, answer) ==
  [f \in UNION {DOMAIN e : e \in Entries[k]} |-> IF f \in DOMAIN answer THEN answer[f] ELSE LeftOut[f]]
-----------------------------------------------------------------------------
(* bucket_info of one bucket: four calls.                                  *)

HeadBucket ==
  Read("head", IF Exists THEN Goto("versioning", [exists |-> TRUE]) ELSE Exit([exists |-> FALSE]))

\* A bucket gone by now is an error ...
GetVersioning ==
  Read("versioning",
       IF ~Exists THEN FailJson("notfound")
       ELSE \E a \in Answers(srv.entry) :
              Goto("rules", Also(report, [versioning |-> Parsed("bucket", a).versioning])))

\* ... and from here on one without rules, and without a quota.
GetRules ==
  Read("rules",
       IF ~Exists THEN Goto("quota", Also(report, [rules |-> NoRules]))
       ELSE \E a \in Answers(srv.entry) :
              Goto("quota", Also(report, [rules |-> Parsed("bucket", a).rules])))

GetQuota ==
  Read("quota",
       IF ~Exists THEN Exit(Also(report, [quota |-> 0]))
       ELSE \E a \in Answers(srv.entry) :
              Exit(Also(report, [quota |-> Parsed("bucket", a).quota])))
-----------------------------------------------------------------------------
\* The other kinds: one call. That the resource is missing is told by the status,
\* or, the policy's way, by a 500 that says "does not exist".
\* Mutant: only a 404 is a missing resource.
GetByStatus ==
  \E status \in {404, 500} :
    Read("get",
         IF Exists
         THEN \E a \in Answers(srv.entry) : Exit(Also([exists |-> TRUE], Parsed(srv.kind, a)))
         ELSE IF ReadsByStatus(HttpClass(status), status = 500) THEN Exit([exists |-> FALSE])
         ELSE FailJson(HttpClass(status)))
Get ==
  \E status \in {404, 500} :
    Read("get",
         IF Exists
         THEN \E a \in Answers(srv.entry) : Exit(Also([exists |-> TRUE], Parsed(srv.kind, a)))
         ELSE IF ReadsAsMissing(HttpClass(status), status = 500) THEN Exit([exists |-> FALSE])
         ELSE FailJson(HttpClass(status)))

\* All resources of the kind. Users and service accounts come with their
\* details, the latter of one user or, without a name, of all.
Selected(s) ==
  /\ s.entry # Missing
  /\ want.user \notin {Unset, EmptyName} => s.entry.parent_user = want.user
List ==
  Read("list",
       IF ~Selected(srv) THEN Exit([listed |-> FALSE])
       ELSE IF srv.kind \notin {"user", "service_account"} THEN Exit([listed |-> TRUE])
       ELSE \E a \in Answers(srv.entry) : Exit(Also([listed |-> TRUE], Parsed(srv.kind, a))))
-----------------------------------------------------------------------------
StartInfo == \E w \in InfoWants :
  /\ srv.kind = w.kind
  /\ Begin(w, IF ~w.name THEN "list" ELSE IF w.kind = "bucket" THEN "head" ELSE "get", Nothing)

\* Any error but the one that says "missing" ends the module, which looks no closer
\* at it: one class stands for all.
Refused == srv.kind \in InfoKinds /\ Turned("auth")

InfoStep == HeadBucket \/ GetVersioning \/ GetRules \/ GetQuota \/ Get \/ List \/ Refused
-----------------------------------------------------------------------------
\* What a listing is documented to be of: all resources, or those of the user given.
Asked(s) == s.entry # Missing /\ (want.user # Unset => s.entry.parent_user = want.user)

\* What a report that sees s all at once says. A bucket that is gone has neither
\* rules nor a quota.
Truth(s) ==
  IF ~want.name
  THEN IF ~Asked(s) THEN [listed |-> FALSE]
       ELSE IF s.kind \notin {"user", "service_account"} THEN [listed |-> TRUE]
       ELSE Also([listed |-> TRUE], s.entry)
  ELSE IF s.entry # Missing THEN Also([exists |-> TRUE], s.entry)
  ELSE IF s.kind = "bucket" THEN [exists |-> FALSE, rules |-> NoRules, quota |-> 0]
  ELSE [exists |-> FALSE]

\* The fields of a report, call by call.
ReadTogether ==
  IF want.kind = "bucket" /\ want.name
  THEN <<{"exists"}, {"versioning"}, {"rules"}, {"quota"}>>
  ELSE <<{"exists", "listed"} \cup UNION {DOMAIN e : e \in Entries[want.kind]}>>
=============================================================================
