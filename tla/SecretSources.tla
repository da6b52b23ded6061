--------------------------- MODULE SecretSources ----------------------------
(***************************************************************************)
(* internal/agent/config/secret and its users: which secrets the storages  *)
(* (CreateController) and the authentication methods (createAuthMethod)    *)
(* resolve, in which order, and what becomes of them when the files the    *)
(* secrets come from change between two of the reads.                      *)
(*                                                                         *)
(* Simplifications                                                         *)
(*   - Of a value only counts whether it is empty.                         *)
(*   - Environment variables do not change: a process has its own.         *)
(***************************************************************************)
EXTENDS Sequences, Naturals

CONSTANT Files  \* the files that hold secrets

VARIABLES
  setup,  \* .source: for the secrets that are not given literally, a file
          \* with a relative or absolute path, "unset", "noEnv" or "emptyEnv"
  files,  \* of each file: one of FileStates
  job     \* the client being created, see NewJob

secretVars == <<setup, files, job>>

\* "present" is a file with something in it, "empty" one with nothing.
FileStates == {"present", "empty", "absent", "unreadable"}

\* The files that secrets come from; no other is ever read.
NamedFiles == {setup.source[use].file : use \in DOMAIN setup.source} \cap Files

-----------------------------------------------------------------------------
(* secret.go                                                               *)

(***************************************************************************)
(* ResolveFilePaths anchors the relative paths of all fields of the type   *)
(* Secret at the directory of the configuration file; the token's type is  *)
(* another one.                                                            *)
(***************************************************************************)
Anchored(use) == use # <<"token", "token">>

(***************************************************************************)
(* A literal that is "unset" and a variable that is there but empty are    *)
(* empty values like that of an empty file; a variable that is not there   *)
(* counts like a file that is absent.  A relative path that is not         *)
(* anchored leads to the working directory, where there is no such file.   *)
(***************************************************************************)
SourceState(use) ==
  IF use \notin DOMAIN setup.source THEN "present"
  ELSE LET s == setup.source[use]
       IN  CASE s.file \in {"unset", "emptyEnv"} -> "empty"
             [] s.file = "noEnv" -> "absent"
             [] s.file \in Files ->
                  IF s.relative /\ ~Anchored(use) THEN "absent" ELSE files[s.file]

\* What if: required is not looked at.
ResolveOptional(use, required) ==
  CASE SourceState(use) = "present"    -> "value"
    [] SourceState(use) = "unreadable" -> "error"
    [] OTHER -> ""

\* required is about the source being there: an empty one is no error.
Resolve(use, required) ==
  CASE SourceState(use) = "present"            -> "value"
    [] SourceState(use) = "unreadable"         -> "error"
    [] SourceState(use) = "absent" /\ required -> "error"
    [] OTHER -> ""

-----------------------------------------------------------------------------
(* The users.  Each is a sequence of reads, [secret, how]: "optional" and  *)
(* "required" are Resolve(false) and Resolve(true), "withKey" is           *)
(* Resolve(accessKeyId != ""), and "printed" is String().                  *)

Read(secret, how) == [secret |-> secret, how |-> how]
Both(first, second) == <<Read(first, "required"), Read(second, "required")>>

S3Reads ==
  <<Read("accessKeyId", "optional"), Read("accessKey", "withKey"),
    Read("sessionToken", "optional"), Read("region", "optional")>>

AwsReads == S3Reads \o <<Read("endpoint", "optional")>>

\* The account's name is formatted into the service's address.
AzureReads ==
  Both("accountName", "accountKey") \o <<Read("accountName", "printed")>>

SwiftReads == Both("userName", "apiKey") \o <<Read("region", "optional")>>

\* The client library finds its credentials, or there are none.
NoReads == <<>>

AppRoleReads == Both("role", "secret")

\* A nonce that is not set is not read, which comes to the same.
AwsAuthReads == <<Read("ec2Nonce", "required"), Read("region", "optional")>>

LdapReads == Both("username", "password")
UserPassReads == Both("username", "password")
KubernetesReads == <<Read("jwtToken", "required")>>
TokenReads == <<Read("token", "required")>>

Reads ==
  [aws |-> AwsReads, s3 |-> S3Reads, azure |-> AzureReads, swift |-> SwiftReads,
   gcp |-> NoReads, local |-> NoReads,
   approle |-> AppRoleReads, awsAuth |-> AwsAuthReads, azureAuth |-> NoReads,
   gcpAuth |-> NoReads, kubernetes |-> KubernetesReads, ldap |-> LdapReads,
   userpass |-> UserPassReads, token |-> TokenReads]

\* CreateVaultAuth: of the configured methods the first in this order.
AuthMethods ==
  <<"approle", "awsAuth", "azureAuth", "gcpAuth", "kubernetes", "ldap",
    "userpass", "token">>

IsFirst(method, order, configured) ==
  \E i \in DOMAIN order :
    /\ method = order[i]
    /\ method \in configured
    /\ \A j \in 1..(i - 1) : order[j] \notin configured

IsChosen(method, configured) == IsFirst(method, AuthMethods, configured)

-----------------------------------------------------------------------------
(* A job is one client on its way: what it has yet to read, the secrets    *)
(* that had a value, and how far it is: "create", "created" or "failed".   *)
(* blank is history: the secrets that were there, but empty, when read.    *)

NewJob(kind) ==
  [kind |-> kind, phase |-> "create", reads |-> Reads[kind], got |-> {},
   blank |-> {}]

NoJob ==
  [kind |-> "none", phase |-> "none", reads |-> <<>>, got |-> {}, blank |-> {}]

NextRead == Head(job.reads)
NextUse == <<job.kind, NextRead.secret>>

Value ==
  Resolve(NextUse,
          \/ NextRead.how = "required"
          \/ NextRead.how = "withKey" /\ "accessKeyId" \in job.got)

(***************************************************************************)
(* String() panics where Resolve returns an error; fmt recovers it and     *)
(* prints a note in the value's place: the client is created all the same. *)
(***************************************************************************)
ReadSecret ==
  /\ job.reads # <<>>
  /\ LET thisIf(holds) == IF holds THEN {NextRead.secret} ELSE {}
     IN  job' = IF Value = "error" /\ NextRead.how # "printed"
                THEN [job EXCEPT !.phase = "failed", !.reads = <<>>]
                ELSE [job EXCEPT !.reads = Tail(@),
                                 !.got = @ \cup thisIf(Value = "value"),
                                 !.blank = @ \cup thisIf(SourceState(NextUse) = "empty")]
  /\ UNCHANGED <<setup, files>>

\* Every secret is read: the client library or the service accepts them or
\* does not.  A local directory is not looked at.
CreateClient ==
  /\ job.phase = "create"
  /\ job.reads = <<>>
  /\ \E p \in {"created"} \cup IF job.kind = "local" THEN {} ELSE {"failed"} :
       job' = [job EXCEPT !.phase = p]
  /\ UNCHANGED <<setup, files>>

\* Secrets are rotated, emptied, lost, or change hands.
ChangeSecret(f) ==
  /\ f \in NamedFiles
  /\ \E s \in FileStates \ {files[f]} :
       files' = [files EXCEPT ![f] = s]
  /\ UNCHANGED <<setup, job>>

-----------------------------------------------------------------------------
(* Properties                                                              *)

SecretsTypeOK ==
  /\ files \in [NamedFiles -> FileStates]
  /\ job.phase \in {"none", "create", "created", "failed"}
  /\ job.phase \in {"none", "created", "failed"} => job.reads = <<>>

\* What the tables of the storages and the authentication methods require
\* (README.md:395,451,562,590-591,654-655,685).
Required(kind, got) ==
  CASE kind \in {"aws", "s3"} ->
         IF "accessKeyId" \in got THEN {"accessKey"} ELSE {}
    [] kind = "azure"      -> {"accountName", "accountKey"}
    [] kind = "swift"      -> {"userName", "apiKey"}
    [] kind = "approle"    -> {"role", "secret"}
    [] kind = "kubernetes" -> {"jwtToken"}
    [] kind = "token"      -> {"token"}
    [] kind \in {"ldap", "userpass"} -> {"username", "password"}
    [] OTHER -> {}

(***************************************************************************)
(* README.md:174-176, "if e.g. you delete the source-file for a property   *)
(* required to authenticate [...] the next login to vault or upload to     *)
(* that storage will fail": a client that gets created found the source of *)
(* every secret it requires, the access key's if it has a key id,          *)
(* whichever files come and go between two of its reads.                   *)
(***************************************************************************)
MissingSecretsFail ==
  job.phase = "created" =>
    Required(job.kind, job.got) \subseteq job.got \cup job.blank

(***************************************************************************)
(* README.md:395,562,590-591,654-655,685, "must resolve to non-empty       *)
(* value": ... and the source was not empty.                               *)
(***************************************************************************)
CredentialsAreComplete ==
  job.phase = "created" => Required(job.kind, job.got) \subseteq job.got

(***************************************************************************)
(* README.md:171-172, <file-path> may be "a path relative to the           *)
(* configuration file": a secret whose file is there is found, wherever    *)
(* the agent was started.                                                  *)
(***************************************************************************)
FilesAreFound ==
  (/\ job.reads # <<>>
   /\ NextUse \in DOMAIN setup.source
   /\ setup.source[NextUse].file \in NamedFiles
   /\ files[setup.source[NextUse].file] = "present")
    => Value = "value"

=============================================================================
