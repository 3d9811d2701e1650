---------------------------- MODULE IdentityTasks ----------------------------
(***************************************************************************)
(* The modules user, group and service_account, call by call, for one      *)
(* identity.                                                               *)
(***************************************************************************)
EXTENDS ApiTask

\* The status is left alone when the parameter is left out, and a status that was
\* read is not read again before it is compared.
StatusDiffers == want.status # Unset /\ want.status # read.status
-----------------------------------------------------------------------------
(* user                                                                    *)

\* Mutant: whoever brings a secret has it written.
GetUserAlwaysAdds ==
  Read("getUser", IfExists,
       IF want.state = "absent" THEN Decide(srv.exists, "removeUser")
       ELSE IF want.secret # Unset THEN Decide(TRUE, "addUser")
       ELSE Decide(StatusDiffers', "setUserStatus"))
GetUser ==
  Read("getUser", IfExists,
       IF want.state = "absent" THEN Decide(srv.exists, "removeUser")
       ELSE IF ~srv.exists /\ want.secret = Unset THEN FailJson("no secret") /\ UNCHANGED changed
       ELSE IF ~srv.exists     THEN Decide(TRUE, "addUser")
       ELSE IF want.update_secret THEN Decide(TRUE, "rotateSecret")
       ELSE Decide(StatusDiffers', "setUserStatus"))

\* add-user creates, or overwrites secret and status in place.
AddedUser(status) ==
  [kind |-> "user", exists |-> TRUE, secret |-> want.secret, status |-> status]
AddUser == Write("addUser", "ok", AddedUser(Default(want.status, "enabled")), "exit")

\* Mutant: the status is not carried over.
RotateEnables ==
  Write("rotateSecret", "ok", AddedUser(Default(want.status, "enabled")), "exit")
RotateSecret ==
  Write("rotateSecret", "ok", AddedUser(Default(want.status, read.status)),
        IF StatusDiffers THEN "setUserStatus" ELSE "exit")

SetUserStatus == Write("setUserStatus", IfExists, [srv EXCEPT !.status = want.status], "exit")
RemoveUser    == Write("removeUser", IfExists, Nobody(srv.kind), "exit")
-----------------------------------------------------------------------------
(* group                                                                   *)

ToAdd == IF want.members = Unset THEN {} ELSE want.members \ read.members
ToRemove == IF want.members = Unset \/ want.append THEN {} ELSE read.members \ want.members

\* Which write comes after the membership, after the additions, and first.
AfterMembers == IF StatusDiffers THEN "setGroupStatus" ELSE "exit"
AfterAdd     == IF ToRemove # {} THEN "removeMembers" ELSE AfterMembers
AfterRead    == IF ToAdd # {} THEN "addMembers" ELSE AfterAdd

GetGroup ==
  Read("getGroup", IfExists,
       IF want.state = "absent" THEN Decide(srv.exists, "deleteGroup")
       ELSE IF ~srv.exists      THEN Decide(TRUE, "createGroup")
       ELSE Decide(AfterRead' # "exit", AfterRead'))

\* The server makes a group enabled. What it makes of a second create - a retry,
\* or somebody else was faster - is not known: it refuses, or adds the members.
CreateGroup ==
  /\ pc = "createGroup"
  /\ \E class \in IF srv.exists THEN {"ok", "conflict"} ELSE {"ok"} :
       Write("createGroup", class,
             [srv EXCEPT !.exists = TRUE, !.members = @ \cup ToAdd], AfterMembers)

\* These say groupStatus "enabled" as well; the server is taken to leave the
\* status of an existing group alone.
AddMembers ==
  Write("addMembers", IfExists, [srv EXCEPT !.members = @ \cup ToAdd], AfterAdd)
RemoveMembers ==
  Write("removeMembers", IfExists, [srv EXCEPT !.members = @ \ ToRemove], AfterMembers)

SetGroupStatus == Write("setGroupStatus", IfExists, [srv EXCEPT !.status = want.status], "exit")
DeleteGroup    == Write("deleteGroup", IfExists, Nobody(srv.kind), "exit")
-----------------------------------------------------------------------------
(* service_account                                                         *)

GetAccount ==
  Read("getAccount", IfExists,
       IF want.state = "absent" THEN Decide(srv.exists, "deleteAccount")
       ELSE IF srv.exists THEN Exit /\ UNCHANGED changed
       ELSE IF want.secret = Unset THEN FailJson("no secret") /\ UNCHANGED changed
       ELSE Decide(TRUE, "createAccount"))

CreateAccount ==
  Write("createAccount", IF srv.exists THEN "conflict" ELSE "ok",
        [NoAccount EXCEPT !.exists = TRUE, !.secret = want.secret], "readBack")

\* The account is read for the result; that it reads as missing is no error.
ReadBack == Read("readBack", IfExists, Exit /\ UNCHANGED changed)

DeleteAccount == Write("deleteAccount", IfExists, Nobody(srv.kind), "exit")
-----------------------------------------------------------------------------
IdentityStep ==
  \/ GetUser \/ AddUser \/ RotateSecret \/ SetUserStatus \/ RemoveUser
  \/ GetGroup \/ CreateGroup \/ AddMembers \/ RemoveMembers \/ SetGroupStatus \/ DeleteGroup
  \/ GetAccount \/ CreateAccount \/ ReadBack \/ DeleteAccount
-----------------------------------------------------------------------------
\* What exit_json says of the identity. An account just created is read back; one
\* that is not there (yet) is named and nothing more.
IdentityReturned ==
  CASE want.module = "service_account" /\ want.state = "present" /\ read.exists ->
         [status |-> read.status]
    [] want.module = "user" /\ want.state = "present" ->
         [status |-> Default(want.status, read.status)]
    [] want.module = "group" /\ want.state = "present" ->
         [status |-> Default(want.status, read.status),
          members |-> (read.members \cup ToAdd) \ ToRemove]
    [] OTHER -> [x \in {} |-> x]
=============================================================================
