---------------------------- MODULE MCAgentLife -----------------------------
(***************************************************************************)
(* Agents that differ in their storages, their authentication, the secrets *)
(* that come from files, and the configurations that publish metrics.      *)
(***************************************************************************)
EXTENDS AgentLife, TLC

CONSTANTS f1, f2

From(f) == [file |-> f, relative |-> FALSE]
Beside(f) == [file |-> f, relative |-> TRUE]

MCSetups == {
  [storages |-> <<"aws", "local">>, auths |-> {"token"}, metrics |-> {},
   source |-> <<"aws", "endpoint">> :> From("noEnv") @@
              <<"token", "token">> :> Beside(f2)],
  [storages |-> <<"azure">>, auths |-> {"token", "approle"}, metrics |-> {},
   source |-> <<"azure", "accountName">> :> From(f1)],
  [storages |-> <<"s3">>, auths |-> {"azureAuth"}, metrics |-> {},
   source |-> <<"s3", "accessKeyId">> :> From(f1) @@
              <<"s3", "accessKey">> :> From(f2) @@
              <<"s3", "sessionToken">> :> From("emptyEnv") @@
              <<"s3", "region">> :> From("unset")],
  [storages |-> <<"gcp", "swift">>, auths |-> {"ldap", "awsAuth"}, metrics |-> {},
   source |-> <<"awsAuth", "ec2Nonce">> :> From("unset") @@
              <<"swift", "apiKey">> :> Beside(f2) @@
              <<"swift", "region">> :> From("noEnv")],
  [storages |-> <<"local">>, auths |-> {"kubernetes", "userpass"}, metrics |-> {},
   source |-> <<"kubernetes", "jwtToken">> :> From(f1)],
  [storages |-> <<"local">>, auths |-> {"gcpAuth", "azureAuth"},
   metrics |-> {1, 2, 3}, source |-> <<>>],
  [storages |-> <<"gcp">>, auths |-> {"userpass"},
   metrics |-> {2, 3},
   source |-> <<"userpass", "username">> :> From("emptyEnv") @@
              <<"userpass", "password">> :> From(f1)]}

\* An access key from a file, which may be empty.
MCSetupsAccessKey == {
  [storages |-> <<"aws">>, auths |-> {"gcpAuth"}, metrics |-> {},
   source |-> <<"aws", "accessKey">> :> From(f1)]}

=============================================================================
