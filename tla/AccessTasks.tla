----------------------------- MODULE AccessTasks -----------------------------
(***************************************************************************)
(* The modules policy and policy_attachment, call by call, for one canned  *)
(* policy and one user or group.                                           *)
(***************************************************************************)
EXTENDS ApiTask

(* policy                                                                  *)

\* The server answers a missing policy with HTTP 500 and "does not exist".
MissingPolicy == HttpClass(500)

\* The document is compared for state=present only.
GetPolicy ==
  Read("getPolicy", IF srv.document = NoDocument THEN MissingPolicy ELSE "ok",
       LET missing == srv.document = NoDocument
                      /\ ReadsAsMissing(MissingPolicy, TRUE)
       IN  IF want.state = "absent" THEN Decide(~missing, "deletePolicy")
           ELSE Decide(missing \/ srv.document # want.document, "putPolicy"))

PutPolicy == Write("putPolicy", "ok", [srv EXCEPT !.document = want.document], "exit")

\* A policy still attached is not deleted; a missing one is an error too.
DeletePolicy ==
  Write("deletePolicy",
        IF srv.document = NoDocument \/ Policy \in srv.attached THEN "permanent" ELSE "ok",
        [srv EXCEPT !.document = NoDocument], "exit")
-----------------------------------------------------------------------------
(* policy_attachment                                                       *)

\* An empty list is refused before anything is sent.
CheckPolicies == Check("checkPolicies", want.policies = {}, "getEntity")

Desired(current) == IF want.exclusive THEN want.policies ELSE current \cup want.policies

GetEntity ==
  Read("getEntity", IF srv.entity THEN "ok" ELSE "notfound",
       IF ~srv.entity THEN FailJson("missing") /\ UNCHANGED changed
       ELSE Decide(Desired(srv.attached) # srv.attached, "setAttached"))

\* The full replace, computed from what was read.
SetAttached ==
  LET new == Desired(read.attached)
  IN  Write("setAttached",
            IF ~srv.entity THEN "notfound"
            ELSE IF Policy \in new /\ srv.document = NoDocument THEN "permanent" ELSE "ok",
            [srv EXCEPT !.attached = new], "exit")
-----------------------------------------------------------------------------
AccessStep ==
  \/ GetPolicy \/ PutPolicy \/ DeletePolicy
  \/ CheckPolicies \/ GetEntity \/ SetAttached
-----------------------------------------------------------------------------
\* What exit_json says of the document or the attached set.
AccessReturned ==
  CASE want.module = "policy_attachment" -> [attached |-> Desired(read.attached)]
    [] want.module = "policy" /\ want.state = "present" -> [document |-> want.document]
    [] OTHER -> [x \in {} |-> x]
=============================================================================
