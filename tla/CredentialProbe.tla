--------------------------- MODULE CredentialProbe ---------------------------
(***************************************************************************)
(* The module credential_info: two reads with the probed key pair - list   *)
(* all buckets, then list one of them - combined into one verdict. Account *)
(* and bucket may change between the two.                                  *)
(***************************************************************************)
EXTENDS InfoTask

\* denied: may not list all buckets. disabled: the account is switched off. invalid:
\* the server takes its requests for invalid for another reason.
Pairs       == {"unknown", "wrong", "disabled", "invalid", "denied", "valid"}
Credentials == [kind : {"credential"}, pair : Pairs, bucket : {"missing", "denied", "listable"}]

\* Whether a bucket is given.
ProbeWants == [kind : {"credential"}, bucket : BOOLEAN]

Tri   == {"null", "true", "false"}
Blank == [authenticated |-> "false", authorized |-> "null", bucket_listable |-> "null",
          usable |-> "false"]

\* What the server says to a pair before it looks at the request.
Answer(code, status, text) == [code |-> code, status |-> status, text |-> text]
PairAnswer ==
  CASE srv.pair = "unknown"  -> Answer("InvalidAccessKeyId", 403, "")
    [] srv.pair = "wrong"    -> Answer("SignatureDoesNotMatch", 403, "")
    [] srv.pair = "disabled" -> Answer("InvalidRequest", 400, "AccessKeyDisabled")
    [] srv.pair = "invalid"  -> Answer("InvalidRequest", 400, "something else")
    [] OTHER                 -> Answer("", 200, "")
ListBucketsAnswer ==
  IF srv.pair = "denied" THEN Answer("AccessDenied", 403, "") ELSE PairAnswer
ListBucketAnswer ==
  IF PairAnswer.status # 200 THEN PairAnswer
  ELSE CASE srv.bucket = "missing"  -> Answer("NoSuchBucket", 404, "")
         [] srv.bucket = "denied"   -> Answer("AccessDenied", 403, "")
         [] srv.bucket = "listable" -> PairAnswer

Class(a) == IF a.status = 200 THEN "ok" ELSE S3Class(a.code, a.status)

IsBadCredential(a)   == a.code \in BadCredentialCodes
IsDisabledAccount(a) == a.text = "AccessKeyDisabled"
-----------------------------------------------------------------------------
StartProbe == \E w \in ProbeWants :
  srv.kind = "credential" /\ Begin(w, "listBuckets", Blank)

\* The last line of the verdict, where the module gets there.
Conclude(c) ==
  Exit([c EXCEPT !.usable = IF c.authenticated = "true" /\ c.authorized = "true"
                               /\ (want.bucket => c.bucket_listable = "true")
                            THEN "true" ELSE "false"])
\* Mutant: without a bucket the second call is made as well.
GoOnAnyway(c) == Goto("listBucket", c)
GoOn(c) == IF want.bucket THEN Goto("listBucket", c) ELSE Conclude(c)

\* Mutant: a refusal leaves "authorized" null.
KnownPair(x) == [report EXCEPT !.authenticated = "true",
                               !.authorized = IF x = "true" THEN x ELSE "null"]
Known(x) == [report EXCEPT !.authenticated = "true", !.authorized = x]

ListBuckets ==
  LET a == ListBucketsAnswer
  IN  Read("listBuckets",
           CASE Class(a) = "ok"                              -> GoOn(Known("true"))
             [] Class(a) = "auth" /\ IsBadCredential(a)      -> Exit(report)
             [] Class(a) = "auth" /\ ~IsBadCredential(a)     -> GoOn(Known("false"))
             [] Class(a) \notin {"ok", "auth"} /\ IsDisabledAccount(a) -> Exit(Known("false"))
             [] OTHER                                        -> FailJson("failed"))

\* A listed bucket overrides the refusal to list them all.
\* Mutant: a listed bucket leaves the first call's "authorized" alone.
ListBucketKeeps ==
  Read("listBucket",
       IF Class(ListBucketAnswer) = "ok"
       THEN Conclude([report EXCEPT !.bucket_listable = "true"])
       ELSE Conclude([report EXCEPT !.bucket_listable = "false", !.authorized = "false"]))
ListBucket ==
  LET class   == Class(ListBucketAnswer)
      said(x) == [report EXCEPT !.bucket_listable = x, !.authorized = x]
  IN  Read("listBucket",
           CASE class = "ok"                   -> Conclude(said("true"))
             [] class \in {"auth", "notfound"} -> Conclude(said("false"))
             [] OTHER                          -> FailJson("failed"))

ProbeStep == ListBuckets \/ ListBucket
-----------------------------------------------------------------------------
\* What the probe is after, of the state s.
Alive(s)  == s.pair \notin {"unknown", "wrong"}
Usable(s) == IF want.bucket THEN s.pair \in {"denied", "valid"} /\ s.bucket = "listable"
                            ELSE s.pair = "valid"
=============================================================================
