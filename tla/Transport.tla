------------------------------ MODULE Transport ------------------------------
(***************************************************************************)
(* The vocabulary every call of the collection shares                      *)
(* (plugins/module_utils/rustfs.py): the retry budget, the error taxonomy  *)
(* and how the two API planes put a server's answer into it.               *)
(*                                                                         *)
(* An error message is abstracted to one bit, whether it carries the       *)
(* phrase "does not exist" - all the code ever looks for in one.           *)
(***************************************************************************)
EXTENDS Integers

CONSTANT Retries        \* the "retries" connection option, any integer

ASSUME RetriesAssumption == Retries \in Int

\* How often retry_call runs its function before it lets go.
MaxAttempts == IF Retries > 1 THEN Retries ELSE 1

\* The exception classes; "permanent" is the bare RustfsError.
PermanentClasses == {"auth", "notfound", "conflict", "permanent"}
ErrorClasses     == PermanentClasses \cup {"network"}
\* How a call ends; "crash" is an exception of no class of the collection.
CallResults      == ErrorClasses \cup {"ok", "crash"}

GatewayStatuses == {502, 503, 504}

\* Admin plane: the HTTP status decides alone.
HttpClass(status) ==
  CASE status \in {401, 403}         -> "auth"
    [] status = 404                  -> "notfound"
    [] status = 409                  -> "conflict"
    [] status \in GatewayStatuses    -> "network"
    [] OTHER                         -> "permanent"

BadCredentialCodes == {"InvalidAccessKeyId", "SignatureDoesNotMatch", "InvalidToken", "ExpiredToken"}
AccessDeniedCodes  == {"AccessDenied", "AllAccessDisabled"}
S3NotFoundCodes    == {"NoSuchBucket", "NoSuchKey", "NoSuchLifecycleConfiguration", "404", "NotFound"}
S3RetryableCodes   == {"SlowDown", "ServiceUnavailable", "RequestTimeout", "503"}

\* S3 plane: the error code first, the HTTP status behind it.
S3Class(code, status) ==
  IF code \in BadCredentialCodes \cup AccessDeniedCodes THEN "auth"
  ELSE IF code \in S3NotFoundCodes \/ status = 404      THEN "notfound"
  ELSE IF status = 409                                  THEN "conflict"
  ELSE IF code \in S3RetryableCodes \/ status \in GatewayStatuses THEN "network"
  ELSE "permanent"

\* What the admin get_* readers take for "no such resource": they re-raise a
\* network error first, then look at the class or at the message of any other.
\* Mutant: by the status alone.
ReadsByStatus(class, saysDoesNotExist) == class = "notfound"
ReadsAsMissing(class, saysDoesNotExist) ==
  /\ class \in PermanentClasses
  /\ class = "notfound" \/ saysDoesNotExist
=============================================================================
