--------------------------- MODULE AgentLifeProofs ---------------------------
(***************************************************************************)
(* Proofs about AgentLife for any set of agents and any files: any         *)
(* locations in any order, any methods of authentication, any secrets from *)
(* files or the environment, and metrics in any of the configurations.     *)
(***************************************************************************)
EXTENDS AgentLife, TLAPS

-----------------------------------------------------------------------------
(* The invariant                                                           *)

\* Whoever holds the lock is where the code takes it.
LockInv ==
  /\ lock = "none" <=> work = "none"
  /\ work \in {"login", "vault", "upload"} => lock = "main" /\ main = "ready"
  /\ work \in {"shutdown", "schedule"} =>
       \/ lock = "main" /\ main = "start"
       \/ lock = "watcher" /\ watcher = "update"
  /\ main = "start" <=> watcher = "off"

\* One collector from the start, and one for each result, the one in the
\* channel, the one that waits for room, and the one that is in the making.
CountInv ==
  /\ watcher = "off" => collector = (IF work = "schedule" THEN 1 ELSE 0)
  /\ watcher = "idle" => collector <= 1 + results
  /\ watcher = "update" =>
       collector <= 1 + results + (IF work = "schedule" /\ lock = "watcher" THEN 1 ELSE 0)
  /\ watcher = "send" => collector <= 2 + results

\* No server, or one that was shut down and never serves again.
Retired(c) == server[c] = "none" \/ (down[c] /\ server[c] # "serving")

\* Every collector but the current one is retired, or not there yet.
ServersInv ==
  /\ \A c \in Collectors : c < collector => Retired(c)
  /\ work = "shutdown" /\ collector > 0 => Retired(collector)
  /\ \A c \in Collectors : c > collector =>
       /\ ~down[c]
       /\ \/ server[c] = "none"
          \/ server[c] = "new" /\ work = "shutdown" /\ c = collector + 1
  /\ work = "schedule" => server[collector] \in {"none", "new"} /\ ~down[collector]

ControlTypeOK ==
  /\ main \in {"start", "ready", "select"}
  /\ watcher \in {"off", "idle", "update", "send"}
  /\ changed \in BOOLEAN
  /\ results \in 0..1
  /\ lock \in {"none", "main", "watcher"}
  /\ work \in {"none", "shutdown", "schedule", "login", "vault", "upload"}
  /\ todo \in Seq(StorageKinds)
  /\ cancelled \in BOOLEAN
  /\ ended \in {"no", "error", "stopped"}

SecretNames ==
  {"accessKeyId", "accessKey", "sessionToken", "region", "endpoint",
   "accountName", "accountKey", "userName", "apiKey", "role", "secret",
   "ec2Nonce", "username", "password", "jwtToken", "token"}

ReadType ==
  [secret : SecretNames, how : {"optional", "required", "withKey", "printed"}]

\* The secrets the job has behind it.
Behind == Len(Reads[job.kind]) - Len(job.reads)

\* The secrets whose source was there when it was read.
Found == job.got \cup job.blank

\* What the client requires and has read was found; the rest is still ahead.
ProgressInv ==
  /\ Len(job.reads) <= Len(Reads[job.kind])
  /\ \A i \in 1..Len(job.reads) : job.reads[i] = Reads[job.kind][Behind + i]
  /\ \A i \in 1..Behind :
       LET read == Reads[job.kind][i]
       IN  /\ read.how = "required" => read.secret \in Found
           /\ read.how = "withKey" /\ "accessKeyId" \in job.got
                => read.secret \in Found

JobType ==
  [kind : DOMAIN Reads, phase : {"create", "created", "failed"},
   reads : Seq(ReadType), got : SUBSET SecretNames, blank : SUBSET SecretNames]

JobInv ==
  \/ job = NoJob
  \/ /\ job \in JobType
     /\ job.phase \in {"created", "failed"} => job.reads = <<>>
     /\ job.phase # "failed" => ProgressInv

SecretsInv ==
  /\ setup \in Setups
  /\ files \in [NamedFiles -> FileStates]
  /\ JobInv

IInv ==
  /\ ControlTypeOK
  /\ ServersTypeOK
  /\ LockInv
  /\ CountInv
  /\ ServersInv
  /\ SecretsInv

-----------------------------------------------------------------------------
(* What the clients read                                                   *)

LEMMA TwoReads ==
  ASSUME NEW r1 \in ReadType, NEW r2 \in ReadType
  PROVE  /\ <<r1, r2>> \in Seq(ReadType)
         /\ Len(<<r1, r2>>) = 2
         /\ <<r1, r2>>[1] = r1
         /\ <<r1, r2>>[2] = r2
  OBVIOUS

LEMMA FourReads ==
  ASSUME NEW r1 \in ReadType, NEW r2 \in ReadType,
         NEW r3 \in ReadType, NEW r4 \in ReadType
  PROVE  /\ <<r1, r2, r3, r4>> \in Seq(ReadType)
         /\ Len(<<r1, r2, r3, r4>>) = 4
         /\ <<r1, r2, r3, r4>>[1] = r1
         /\ <<r1, r2, r3, r4>>[2] = r2
         /\ <<r1, r2, r3, r4>>[3] = r3
         /\ <<r1, r2, r3, r4>>[4] = r4
  OBVIOUS

LEMMA BothIsSequence ==
  ASSUME NEW a \in SecretNames, NEW b \in SecretNames
  PROVE  /\ Both(a, b) \in Seq(ReadType)
         /\ Len(Both(a, b)) = 2
         /\ Both(a, b)[1] = Read(a, "required")
         /\ Both(a, b)[2] = Read(b, "required")
  <1>1. /\ Read(a, "required") \in ReadType
        /\ Read(b, "required") \in ReadType
    BY DEF Read, ReadType
  <1>2. QED
    BY <1>1, TwoReads DEF Both

LEMMA S3ReadsAre ==
  /\ S3Reads \in Seq(ReadType)
  /\ Len(S3Reads) = 4
  /\ S3Reads[1] = Read("accessKeyId", "optional")
  /\ S3Reads[2] = Read("accessKey", "withKey")
  /\ S3Reads[3] = Read("sessionToken", "optional")
  /\ S3Reads[4] = Read("region", "optional")
  <1>1. /\ Read("accessKeyId", "optional") \in ReadType
        /\ Read("accessKey", "withKey") \in ReadType
        /\ Read("sessionToken", "optional") \in ReadType
        /\ Read("region", "optional") \in ReadType
    BY DEF Read, ReadType, SecretNames
  <1>2. QED
    BY <1>1, FourReads DEF S3Reads

\* A list with one more read at its end.
LEMMA OneMore ==
  ASSUME NEW s \in Seq(ReadType), NEW r \in ReadType
  PROVE  /\ s \o <<r>> \in Seq(ReadType)
         /\ Len(s \o <<r>>) = Len(s) + 1
         /\ \A i \in 1..Len(s) : (s \o <<r>>)[i] = s[i]
         /\ (s \o <<r>>)[Len(s) + 1] = r
  OBVIOUS

LEMMA AwsReadsAre ==
  /\ AwsReads \in Seq(ReadType)
  /\ Len(AwsReads) = 5
  /\ \A i \in 1..4 : AwsReads[i] = S3Reads[i]
  /\ AwsReads[5] = Read("endpoint", "optional")
  <1>1. Read("endpoint", "optional") \in ReadType
    BY DEF Read, ReadType, SecretNames
  <1>2. QED
    <2> DEFINE r == Read("endpoint", "optional")
    <2>1. S3Reads \in Seq(ReadType) /\ Len(S3Reads) = 4
      BY S3ReadsAre
    <2> HIDE DEF r
    <2>2. AwsReads = S3Reads \o <<r>>
      BY DEF AwsReads, r
    <2>3. r \in ReadType
      BY <1>1 DEF r
    <2>4. /\ S3Reads \o <<r>> \in Seq(ReadType)
          /\ Len(S3Reads \o <<r>>) = Len(S3Reads) + 1
          /\ \A i \in 1..Len(S3Reads) : (S3Reads \o <<r>>)[i] = S3Reads[i]
          /\ (S3Reads \o <<r>>)[Len(S3Reads) + 1] = r
      BY <2>1, <2>3, OneMore, Zenon
    <2>5. \A i \in 1..4 : AwsReads[i] = S3Reads[i]
      BY <2>1, <2>2, <2>4
    <2>6. QED
      BY <2>1, <2>2, <2>4, <2>5 DEF r

LEMMA AzureReadsAre ==
  /\ AzureReads \in Seq(ReadType)
  /\ Len(AzureReads) = 3
  /\ AzureReads[1] = Read("accountName", "required")
  /\ AzureReads[2] = Read("accountKey", "required")
  /\ AzureReads[3] = Read("accountName", "printed")
  <1>1. Read("accountName", "printed") \in ReadType
    BY DEF Read, ReadType, SecretNames
  <1>2. {"accountName", "accountKey"} \subseteq SecretNames
    BY DEF SecretNames
  <1> DEFINE two == Both("accountName", "accountKey")
  <1>3. /\ two \in Seq(ReadType) /\ Len(two) = 2
        /\ two[1] = Read("accountName", "required")
        /\ two[2] = Read("accountKey", "required")
    BY <1>2, BothIsSequence
  <1> DEFINE r == Read("accountName", "printed")
  <1>4. AzureReads = two \o <<r>>
    BY DEF AzureReads
  <1> HIDE DEF two, r
  <1>5. /\ AzureReads \in Seq(ReadType)
        /\ Len(AzureReads) = 3
        /\ AzureReads[3] = r
        /\ \A i \in 1..2 : AzureReads[i] = two[i]
    <2>1. r \in ReadType
      BY <1>1 DEF r
    <2>2. /\ two \o <<r>> \in Seq(ReadType)
          /\ Len(two \o <<r>>) = Len(two) + 1
          /\ \A i \in 1..Len(two) : (two \o <<r>>)[i] = two[i]
          /\ (two \o <<r>>)[Len(two) + 1] = r
      BY <1>3, <2>1, OneMore, Zenon
    <2>3. QED
      BY <1>3, <1>4, <2>2
  <1>6. AzureReads[1] = two[1] /\ AzureReads[2] = two[2]
    BY <1>5
  <1>7. QED
    BY <1>3, <1>5, <1>6 DEF r

LEMMA SwiftReadsAre ==
  /\ SwiftReads \in Seq(ReadType)
  /\ Len(SwiftReads) = 3
  /\ SwiftReads[1] = Read("userName", "required")
  /\ SwiftReads[2] = Read("apiKey", "required")
  /\ SwiftReads[3] = Read("region", "optional")
  <1>1. Read("region", "optional") \in ReadType
    BY DEF Read, ReadType, SecretNames
  <1>2. {"userName", "apiKey"} \subseteq SecretNames
    BY DEF SecretNames
  <1> DEFINE two == Both("userName", "apiKey")
  <1>3. /\ two \in Seq(ReadType) /\ Len(two) = 2
        /\ two[1] = Read("userName", "required")
        /\ two[2] = Read("apiKey", "required")
    BY <1>2, BothIsSequence
  <1> DEFINE r == Read("region", "optional")
  <1>4. SwiftReads = two \o <<r>>
    BY DEF SwiftReads
  <1> HIDE DEF two, r
  <1>5. /\ SwiftReads \in Seq(ReadType)
        /\ Len(SwiftReads) = 3
        /\ SwiftReads[3] = r
        /\ \A i \in 1..2 : SwiftReads[i] = two[i]
    <2>1. r \in ReadType
      BY <1>1 DEF r
    <2>2. /\ two \o <<r>> \in Seq(ReadType)
          /\ Len(two \o <<r>>) = Len(two) + 1
          /\ \A i \in 1..Len(two) : (two \o <<r>>)[i] = two[i]
          /\ (two \o <<r>>)[Len(two) + 1] = r
      BY <1>3, <2>1, OneMore, Zenon
    <2>3. QED
      BY <1>3, <1>4, <2>2
  <1>6. SwiftReads[1] = two[1] /\ SwiftReads[2] = two[2]
    BY <1>5
  <1>7. QED
    BY <1>3, <1>5, <1>6 DEF r

\* A key id is read first or not at all.
KeyIdFirst(reads) ==
  \A i \in 2..Len(reads) : reads[i].secret # "accessKeyId"

LEMMA ReadsAreSequences ==
  ASSUME NEW kind \in DOMAIN Reads
  PROVE  Reads[kind] \in Seq(ReadType) /\ KeyIdFirst(Reads[kind])
  <1>1. KeyIdFirst(S3Reads)
    <2>1. \A i \in 2..4 : i = 2 \/ i = 3 \/ i = 4
      OBVIOUS
    <2>2. QED
      BY <2>1, S3ReadsAre DEF KeyIdFirst, Read
  <1>2. KeyIdFirst(AwsReads)
    <2>1. \A i \in 2..5 : i = 2 \/ i = 3 \/ i = 4 \/ i = 5
      OBVIOUS
    <2>2. QED
      BY <2>1, AwsReadsAre, S3ReadsAre DEF KeyIdFirst, Read
  <1>3. KeyIdFirst(AzureReads)
    BY AzureReadsAre DEF KeyIdFirst, Read
  <1>4. KeyIdFirst(SwiftReads)
    BY SwiftReadsAre DEF KeyIdFirst, Read
  <1>5. \A a, b \in SecretNames \ {"accessKeyId"} :
          Both(a, b) \in Seq(ReadType) /\ KeyIdFirst(Both(a, b))
    <2>1. TAKE a, b \in SecretNames \ {"accessKeyId"}
    <2>2. \A i \in 2..2 : i = 2
      OBVIOUS
    <2>3. Len(Both(a, b)) = 2 /\ Both(a, b)[2] = Read(b, "required")
      BY BothIsSequence
    <2>4. Read(b, "required").secret # "accessKeyId"
      BY DEF Read
    <2>5. KeyIdFirst(Both(a, b))
      BY <2>2, <2>3, <2>4 DEF KeyIdFirst
    <2>6. QED
      BY <2>5, BothIsSequence
  <1>6. CASE kind \in {"aws", "s3", "azure", "swift"}
    BY <1>1, <1>2, <1>3, <1>4, <1>6, AwsReadsAre, S3ReadsAre, AzureReadsAre,
       SwiftReadsAre
    DEF Reads
  <1>7. CASE kind \in {"gcp", "local", "azureAuth", "gcpAuth"}
    <2>1. Reads[kind] = <<>>
      BY <1>7 DEF Reads, NoReads
    <2>2. QED
      BY <2>1 DEF KeyIdFirst
  <1>8. CASE kind \in {"approle", "ldap", "userpass"}
    BY <1>5, <1>8 DEF Reads, AppRoleReads, LdapReads, UserPassReads, SecretNames
  <1>9. CASE kind \in {"kubernetes", "token"}
    <2>1. /\ Read("jwtToken", "required") \in ReadType
          /\ Read("token", "required") \in ReadType
      BY DEF Read, ReadType, SecretNames
    <2>2. ASSUME NEW r \in ReadType
          PROVE  <<r>> \in Seq(ReadType) /\ KeyIdFirst(<<r>>)
      <3>1. <<r>> \in Seq(ReadType) /\ Len(<<r>>) = 1
        OBVIOUS
      <3>2. 2..1 = {}
        OBVIOUS
      <3>3. QED
        BY <3>1, <3>2 DEF KeyIdFirst
    <2>3. CASE kind = "kubernetes"
      <3>1. Reads[kind] = <<Read("jwtToken", "required")>>
        BY <2>3 DEF Reads, KubernetesReads
      <3>2. QED
        BY <2>1, <2>2, <3>1, Zenon
    <2>4. CASE kind = "token"
      <3>1. Reads[kind] = <<Read("token", "required")>>
        BY <2>4 DEF Reads, TokenReads
      <3>2. QED
        BY <2>1, <2>2, <3>1, Zenon
    <2>5. QED
      BY <1>9, <2>3, <2>4
  <1>10. CASE kind = "awsAuth"
    <2>1. /\ Read("ec2Nonce", "required") \in ReadType
          /\ Read("region", "optional") \in ReadType
      BY DEF Read, ReadType, SecretNames
    <2>2. Reads[kind] = AwsAuthReads
      BY <1>10 DEF Reads
    <2>3. QED
      BY <2>1, <2>2, TwoReads DEF AwsAuthReads, KeyIdFirst, Read
  <1>11. QED
    BY <1>6, <1>7, <1>8, <1>9, <1>10 DEF Reads

-----------------------------------------------------------------------------
(* Jobs                                                                    *)

\* The source of a secret that is required is there, with or without a value,
\* or its reader is told.
LEMMA RequiredOrError ==
  ASSUME SecretsInv, NEW use
  PROVE  \/ Resolve(use, TRUE) \in {"value", "error"}
         \/ SourceState(use) = "empty"
  <1> DEFINE s == setup.source[use]
  <1>1. CASE use \notin DOMAIN setup.source
    BY <1>1 DEF Resolve, SourceState
  <1>2. CASE use \in DOMAIN setup.source
    <2>1. /\ s.file \in Files \cup {"unset", "noEnv", "emptyEnv"}
          /\ {"unset", "noEnv", "emptyEnv"} \cap Files = {}
      BY <1>2, SetupsAssumption DEF SecretsInv
    <2>2. s.file \in Files => s.file \in NamedFiles
      BY <1>2 DEF NamedFiles
    <2>3. s.file \in Files => files[s.file] \in FileStates
      BY <2>2 DEF SecretsInv
    <2>4. SourceState(use) \in FileStates
      BY <1>2, <2>1, <2>3 DEF SourceState, FileStates
    <2>5. QED
      BY <2>4 DEF Resolve, FileStates
  <1>3. QED
    BY <1>1, <1>2

LEMMA NewJobInv ==
  ASSUME NEW kind \in DOMAIN Reads, job' = NewJob(kind)
  PROVE  JobInv'
  <1>1. /\ job'.kind = kind
        /\ job'.phase = "create"
        /\ job'.reads = Reads[kind]
        /\ job'.got = {}
        /\ job'.blank = {}
    BY DEF NewJob
  <1>2. Reads[kind] \in Seq(ReadType)
    BY ReadsAreSequences
  <1>3. job' \in JobType
    BY <1>2 DEF NewJob, JobType
  <1>4. Behind' = 0
    BY <1>1, <1>2 DEF Behind
  <1>5. ProgressInv'
    BY <1>1, <1>2, <1>4 DEF ProgressInv
  <1>6. QED
    BY <1>1, <1>3, <1>5 DEF JobInv

LEMMA ReadSecretInv ==
  ASSUME SecretsInv, ReadSecret
  PROVE  JobInv'
  <1> DEFINE R == Reads[job.kind]
             r == NextRead
             n == Behind
  <1>1. /\ job \in JobType
        /\ job.phase = "create"
        /\ ProgressInv
        /\ job.reads # <<>>
    BY DEF SecretsInv, JobInv, ReadSecret, NoJob, JobType
  <1>2. /\ R \in Seq(ReadType)
        /\ KeyIdFirst(R)
    BY <1>1, ReadsAreSequences DEF JobType
  <1>3. /\ Len(job.reads) \in Nat \ {0}
        /\ Len(R) \in Nat
        /\ Len(job.reads) <= Len(R)
        /\ n \in Nat
        /\ n = Len(R) - Len(job.reads)
    BY <1>1, <1>2 DEF ProgressInv, Behind, JobType
  <1>4. /\ r \in ReadType
        /\ r = R[n + 1]
        /\ n + 1 \in DOMAIN R
    BY <1>1, <1>2, <1>3 DEF ProgressInv, NextRead, JobType
  <1>5. CASE Value = "error" /\ r.how # "printed"
    <2>1. job' = [job EXCEPT !.phase = "failed", !.reads = <<>>]
      BY <1>5 DEF ReadSecret
    <2>2. <<>> \in Seq(ReadType)
      OBVIOUS
    <2>3. QED
      BY <1>1, <2>1, <2>2 DEF JobInv, JobType
  <1>6. CASE ~(Value = "error" /\ r.how # "printed")
    <2> DEFINE this(holds) == IF holds THEN {r.secret} ELSE {}
    <2>1. job' = [job EXCEPT !.reads = Tail(@),
                             !.got = @ \cup this(Value = "value"),
                             !.blank = @ \cup this(SourceState(NextUse) = "empty")]
      BY <1>6 DEF ReadSecret
    <2>2. /\ job'.kind = job.kind
          /\ job'.phase = "create"
          /\ job'.reads = Tail(job.reads)
          /\ job'.got = job.got \cup this(Value = "value")
          /\ job'.blank = job.blank \cup this(SourceState(NextUse) = "empty")
      BY <1>1, <2>1 DEF JobType
    <2>3. /\ Tail(job.reads) \in Seq(ReadType)
          /\ Len(Tail(job.reads)) = Len(job.reads) - 1
          /\ \A i \in 1..(Len(job.reads) - 1) : Tail(job.reads)[i] = job.reads[i + 1]
      BY <1>1 DEF JobType
    <2>4. r.secret \in SecretNames
      BY <1>4 DEF ReadType
    <2>5. job' \in JobType
      BY <1>1, <2>1, <2>3, <2>4 DEF JobType
    <2>6. Behind' = n + 1
      <3>1. Behind' = Len(R) - Len(Tail(job.reads))
        BY <2>2 DEF Behind
      <3>2. Len(Tail(job.reads)) = Len(job.reads) - 1
        BY <2>3
      <3>3. \A a, b \in Nat : b - (a - 1) = (b - a) + 1
        OBVIOUS
      <3>4. QED
        BY <1>3, <3>1, <3>2, <3>3
    <2>7. Len(job'.reads) <= Len(R)
      BY <1>3, <2>2, <2>3
    <2>8. ASSUME NEW i \in 1..Len(job'.reads)
          PROVE  job'.reads[i] = R[Behind' + i]
      <3>1. job'.reads[i] = job.reads[i + 1] /\ i + 1 \in 1..Len(job.reads)
        BY <1>3, <2>2, <2>3
      <3>2. job.reads[i + 1] = R[n + (i + 1)]
        BY <1>1, <3>1 DEF ProgressInv
      <3>3. n + (i + 1) = (n + 1) + i
        <4>1. \A a, b \in Nat : a + (b + 1) = (a + 1) + b
          OBVIOUS
        <4>2. i \in Nat
          OBVIOUS
        <4>3. QED
          BY <1>3, <4>1, <4>2
      <3>4. QED
        BY <2>6, <3>1, <3>2, <3>3
    <2>9. ASSUME NEW i \in 1..(n + 1)
          PROVE  /\ R[i].how = "required" => R[i].secret \in Found'
                 /\ R[i].how = "withKey" /\ "accessKeyId" \in job'.got
                      => R[i].secret \in Found'
      <3>1. CASE i = n + 1
        <4>1. ASSUME \/ r.how = "required"
                     \/ r.how = "withKey" /\ "accessKeyId" \in job.got
              PROVE  Value = "value" \/ SourceState(NextUse) = "empty"
          <5>1. Value = Resolve(NextUse, TRUE)
            BY <4>1 DEF Value, Resolve
          <5>2. Value # "error"
            BY <1>6, <4>1
          <5>3. QED
            BY <5>1, <5>2, RequiredOrError
        <4>2. QED
          BY <1>4, <2>2, <3>1, <4>1 DEF Found
      <3>2. CASE i \in 1..n
        <4>1. /\ R[i].how = "required" => R[i].secret \in Found
              /\ R[i].how = "withKey" /\ "accessKeyId" \in job.got
                   => R[i].secret \in Found
          BY <1>1, <2>9, <3>2 DEF ProgressInv
        <4>2. r.secret # "accessKeyId"
          <5>1. n + 1 \in 2..Len(R)
            <6>1. \A a \in Nat : i \in 1..a => a >= 1
              OBVIOUS
            <6>2. n >= 1 /\ n + 1 <= Len(R)
              BY <1>3, <3>2, <6>1
            <6>3. \A a, b \in Nat : a >= 1 /\ a + 1 <= b => a + 1 \in 2..b
              OBVIOUS
            <6>4. QED
              BY <1>3, <6>2, <6>3
          <5>2. QED
            BY <1>2, <1>4, <5>1 DEF KeyIdFirst
        <4>3. QED
          BY <2>2, <4>1, <4>2 DEF Found
      <3>3. i = n + 1 \/ i \in 1..n
        <4>1. \A a \in Nat : i \in 1..(a + 1) => i = a + 1 \/ i \in 1..a
          OBVIOUS
        <4>2. QED
          BY <1>3, <2>9, <4>1
      <3>4. QED
        BY <3>1, <3>2, <3>3
    <2>10. ProgressInv'
      BY <2>2, <2>6, <2>7, <2>8, <2>9 DEF ProgressInv
    <2>11. QED
      BY <2>2, <2>5, <2>10 DEF JobInv
  <1>7. QED
    BY <1>5, <1>6

LEMMA CreateClientInv ==
  ASSUME SecretsInv, CreateClient
  PROVE  JobInv'
  <1>1. /\ job \in JobType
        /\ job.phase = "create"
        /\ job.reads = <<>>
        /\ ProgressInv
    BY DEF SecretsInv, JobInv, CreateClient, NoJob, JobType
  <1>2. PICK p \in {"created", "failed"} : job' = [job EXCEPT !.phase = p]
    BY DEF CreateClient
  <1>3. ProgressInv'
    BY <1>1, <1>2 DEF ProgressInv, Behind, Found, JobType
  <1>4. QED
    BY <1>1, <1>2, <1>3 DEF JobInv, JobType

LEMMA CompletedJobs ==
  ASSUME SecretsInv
  PROVE  MissingSecretsFail
  <1> SUFFICES ASSUME job.phase = "created"
               PROVE  MissingSecretsFail
    BY DEF MissingSecretsFail
  <1> DEFINE R == Reads[job.kind]
  <1>1. /\ job.kind \in DOMAIN Reads
        /\ job.reads = <<>>
        /\ ProgressInv
    BY DEF SecretsInv, JobInv, NoJob, JobType
  <1>2. R \in Seq(ReadType) /\ Behind = Len(R)
    BY <1>1, ReadsAreSequences DEF Behind
  <1>3. ASSUME NEW i \in 1..Len(R)
        PROVE  /\ R[i].how = "required" => R[i].secret \in Found
               /\ R[i].how = "withKey" /\ "accessKeyId" \in job.got
                    => R[i].secret \in Found
    BY <1>1, <1>2, <1>3 DEF ProgressInv
  <1>4. CASE job.kind = "aws"
    <2>1. R = AwsReads
      BY <1>4 DEF Reads
    <2>2. Len(R) = 5 /\ R[2] = Read("accessKey", "withKey")
      BY <2>1, AwsReadsAre, S3ReadsAre
    <2>3. QED
      BY <1>3, <1>4, <2>2 DEF MissingSecretsFail, Required, Found, Required, Found, Read
  <1>5. CASE job.kind = "s3"
    <2>1. R = S3Reads
      BY <1>5 DEF Reads
    <2>2. Len(R) = 4 /\ R[2] = Read("accessKey", "withKey")
      BY <2>1, S3ReadsAre
    <2>3. QED
      BY <1>3, <1>5, <2>2 DEF MissingSecretsFail, Required, Found, Required, Found, Read
  <1>6. CASE job.kind = "azure"
    <2>1. R = AzureReads
      BY <1>6 DEF Reads
    <2>2. /\ Len(R) = 3
          /\ R[1] = Read("accountName", "required")
          /\ R[2] = Read("accountKey", "required")
      BY <2>1, AzureReadsAre
    <2>3. QED
      BY <1>3, <1>6, <2>2 DEF MissingSecretsFail, Required, Found, Required, Found, Read
  <1>7. CASE job.kind = "swift"
    <2>1. R = SwiftReads
      BY <1>7 DEF Reads
    <2>2. /\ Len(R) = 3
          /\ R[1] = Read("userName", "required")
          /\ R[2] = Read("apiKey", "required")
      BY <2>1, SwiftReadsAre
    <2>3. QED
      BY <1>3, <1>7, <2>2 DEF MissingSecretsFail, Required, Found, Required, Found, Read
  <1>8. ASSUME NEW a \in SecretNames, NEW b \in SecretNames, R = Both(a, b)
        PROVE  {a, b} \subseteq Found
    <2>1. /\ Len(R) = 2
          /\ R[1] = Read(a, "required")
          /\ R[2] = Read(b, "required")
      BY <1>8, BothIsSequence
    <2>2. QED
      BY <1>3, <1>8, <2>1 DEF Read
  <1>9. CASE job.kind = "approle"
    <2>1. R = Both("role", "secret")
      BY <1>9 DEF Reads, AppRoleReads
    <2>2. {"role", "secret"} \subseteq Found
      BY <1>8, <1>9, <2>1 DEF SecretNames
    <2>3. QED
      BY <1>9, <2>2 DEF MissingSecretsFail, Required, Found
  <1>10. CASE job.kind \in {"ldap", "userpass"}
    <2>1. R = Both("username", "password")
      BY <1>10 DEF Reads, LdapReads, UserPassReads
    <2>2. {"username", "password"} \subseteq Found
      BY <1>8, <1>10, <2>1 DEF SecretNames
    <2>3. QED
      BY <1>10, <2>2 DEF MissingSecretsFail, Required, Found
  <1>11. CASE job.kind = "kubernetes"
    <2>1. R = <<Read("jwtToken", "required")>>
      BY <1>11 DEF Reads, KubernetesReads
    <2>2. QED
      BY <1>3, <1>11, <2>1 DEF MissingSecretsFail, Required, Found, Read
  <1>12. CASE job.kind = "token"
    <2>1. R = <<Read("token", "required")>>
      BY <1>12 DEF Reads, TokenReads
    <2>2. QED
      BY <1>3, <1>12, <2>1 DEF MissingSecretsFail, Required, Found, Read
  <1>13. CASE job.kind \in {"gcp", "local", "azureAuth", "gcpAuth", "awsAuth"}
    BY <1>13 DEF MissingSecretsFail, Required
  <1>14. QED
    BY <1>1, <1>4, <1>5, <1>6, <1>7, <1>9, <1>10, <1>11, <1>12, <1>13 DEF Reads

-----------------------------------------------------------------------------
(* Every step preserves the invariant                                      *)

LEMMA SecretsStep ==
  ASSUME ControlTypeOK, SecretsInv, [Next]_vars
  PROVE  SecretsInv'
  <1>1. ASSUME UNCHANGED job
        PROVE  JobInv'
    <2>1. Behind' = Behind
      BY <1>1 DEF Behind
    <2>2. ProgressInv => ProgressInv'
      BY <1>1, <2>1, Zenon DEF ProgressInv, Found
    <2>3. QED
      BY <1>1, <2>2 DEF SecretsInv, JobInv, NoJob
  <1>2. ASSUME JobInv', UNCHANGED <<setup, files>>
        PROVE  SecretsInv'
    BY <1>2 DEF SecretsInv, NamedFiles
  <1>3. CASE UNCHANGED secretVars
    BY <1>1, <1>2, <1>3 DEF secretVars
  <1>4. ASSUME job' = NoJob
        PROVE  JobInv'
    BY <1>4 DEF JobInv, NoJob
  <1>5. CASE NextLocation
    <2>1. Head(todo) \in DOMAIN Reads
      BY <1>5 DEF NextLocation, ControlTypeOK, StorageKinds, Reads
    <2>2. QED
      BY <1>2, <1>5, <2>1, NewJobInv DEF NextLocation
  <1>6. CASE WorkOnJob
    <2>1. JobInv'
      BY <1>6, ReadSecretInv, CreateClientInv DEF WorkOnJob
    <2>2. QED
      BY <1>2, <1>6, <2>1 DEF WorkOnJob, ReadSecret, CreateClient
  <1>7. CASE VisitLocation \/ LoggedIn \/ LoginFails
    BY <1>2, <1>4, <1>7 DEF VisitLocation, LoggedIn, LoginFails
  <1>8. CASE BeginSnapshot
    <2>1. PICK method \in setup.auths :
            /\ IsChosen(method, setup.auths)
            /\ job' = NewJob(method) \/ UNCHANGED job
      BY <1>8 DEF BeginSnapshot
    <2>2. method \in DOMAIN Reads
      BY <2>1 DEF IsChosen, IsFirst, AuthMethods, Reads
    <2>3. UNCHANGED <<setup, files>>
      BY <1>8 DEF BeginSnapshot
    <2>4. CASE job' = NewJob(method)
      BY <1>2, <2>2, <2>3, <2>4, NewJobInv
    <2>5. CASE UNCHANGED job
      BY <1>1, <1>2, <2>3, <2>5
    <2>6. QED
      BY <2>1, <2>4, <2>5
  <1>9. ASSUME NEW f \in Files, LoseSecret(f)
        PROVE  SecretsInv'
    <2>1. /\ files' \in [NamedFiles -> FileStates]
          /\ UNCHANGED <<setup, job>>
      BY <1>9 DEF LoseSecret, ChangeSecret, SecretsInv
    <2>2. QED
      BY <1>1, <2>1 DEF SecretsInv, NamedFiles
  <1>10. CASE Assign \/ EndUpdate \/ SnapshotTaken \/ EndSnapshot
    BY <1>3, <1>10 DEF Assign, EndUpdate, SnapshotTaken, EndSnapshot
  <1>11. CASE Starts \/ BeginUpdate("watcher") \/ SnapshotRefused
    BY <1>3, <1>11 DEF Starts, StartFails, End, BeginUpdate, SnapshotRefused
  <1>12. CASE SelectTick \/ SelectDone \/ Signal \/ ChangeFile \/ ReadChange
                \/ SendResult
    BY <1>3, <1>12
    DEF SelectTick, SelectDone, End, Signal, ChangeFile, ReadChange, SendResult
  <1>13. ASSUME NEW c \in Collectors, Server(c) \/ Scrape(c) \/ EndScrape(c)
         PROVE  SecretsInv'
    BY <1>3, <1>13 DEF Server, Scrape, EndScrape
  <1>14. CASE UNCHANGED vars
    BY <1>3, <1>14 DEF vars
  <1>15. QED
    BY <1>5, <1>6, <1>7, <1>8, <1>9, <1>10, <1>11, <1>12, <1>13, <1>14
    DEF Next, Holder, Snapshots

\* The lock, the loops, and the number of collectors.
LEMMA ControlStep ==
  ASSUME ControlTypeOK, ServersTypeOK, LockInv, CountInv, setup \in Setups,
         [Next]_vars
  PROVE  ControlTypeOK' /\ LockInv' /\ CountInv'
  <1> USE DEF ControlTypeOK, LockInv, CountInv
  <1>1. collector \in Nat /\ results \in Nat
    BY DEF ServersTypeOK
  <1>2. setup.storages \in Seq(StorageKinds)
    BY SetupsAssumption
  <1>3. ASSUME NEW t \in {"main", "watcher"}, BeginUpdate(t)
        PROVE  ControlTypeOK' /\ LockInv' /\ CountInv'
    BY <1>1, <1>3 DEF BeginUpdate, Reconfigures
  <1>4. CASE Assign
    BY <1>1, <1>2, <1>4 DEF Assign
  <1>5. CASE EndUpdate
    BY <1>1, <1>5 DEF EndUpdate, Leave
  <1>6. CASE NextLocation
    <2>1. Tail(todo) \in Seq(StorageKinds)
      BY <1>6 DEF NextLocation
    <2>2. QED
      BY <1>1, <1>6, <2>1 DEF NextLocation, serverVars
  <1>7. CASE WorkOnJob \/ VisitLocation
    BY <1>7 DEF WorkOnJob, VisitLocation, ownVars, serverVars
  <1>8. CASE LoggedIn \/ LoginFails \/ SnapshotTaken \/ EndSnapshot
    <2>1. CASE LoggedIn
      BY <1>1, <2>1 DEF LoggedIn, serverVars
    <2>2. CASE LoginFails
      BY <1>1, <2>2 DEF LoginFails, ReturnTicker, serverVars
    <2>3. CASE SnapshotTaken
      BY <1>1, <1>2, <2>3 DEF SnapshotTaken, serverVars
    <2>4. CASE EndSnapshot
      <3>1. <<>> \in Seq(StorageKinds)
        OBVIOUS
      <3>2. QED
        BY <1>1, <2>4, <3>1 DEF EndSnapshot, ReturnTicker, serverVars
    <2>5. QED
      BY <1>8, <2>1, <2>2, <2>3, <2>4
  <1>9. CASE StartFails
    BY <1>9 DEF StartFails, End, serverVars
  <1>10. CASE Snapshots
    BY <1>1, <1>10 DEF Snapshots, BeginSnapshot, SnapshotRefused, serverVars
  <1>11. CASE SelectTick \/ SelectDone \/ Signal
    <2>1. CASE SelectTick
      BY <1>1, <2>1 DEF SelectTick, serverVars
    <2>2. CASE SelectDone
      BY <2>2 DEF SelectDone, End, serverVars
    <2>3. CASE Signal
      BY <2>3 DEF Signal, serverVars
    <2>4. QED
      BY <1>11, <2>1, <2>2, <2>3
  <1>12. CASE ChangeFile \/ ReadChange \/ SendResult
    <2>1. CASE ChangeFile
      BY <2>1 DEF ChangeFile, serverVars
    <2>2. CASE ReadChange
      <3>1. changed' \in BOOLEAN
        BY <2>2, Zenon DEF ReadChange
      <3>2. \/ watcher' = "update"
            \/ watcher' = "send"
        BY <2>2 DEF ReadChange
      <3>3. watcher = "idle" /\ collector' = collector
            /\ UNCHANGED <<main, results, lock, work, todo, cancelled, ended>>
        BY <2>2 DEF ReadChange, serverVars
      <3>4. QED
        BY <1>1, <3>1, <3>2, <3>3
    <2>3. CASE SendResult
      BY <1>1, <2>3 DEF SendResult, serverVars
    <2>4. QED
      BY <1>12, <2>1, <2>2, <2>3
  <1>13. ASSUME NEW c \in Collectors, Server(c) \/ Scrape(c) \/ EndScrape(c)
         PROVE  ControlTypeOK' /\ LockInv' /\ CountInv'
    BY <1>13
    DEF Server, ServerStep, CheckShutdown, Listen, Serve, Moves, Scrape,
        ScrapeBegins, EndScrape, ScrapeEnds, ownVars
  <1>14. ASSUME NEW f \in Files, LoseSecret(f)
         PROVE  ControlTypeOK' /\ LockInv' /\ CountInv'
    BY <1>14 DEF LoseSecret, ownVars, serverVars
  <1>15. CASE UNCHANGED vars
    BY <1>15 DEF vars, ownVars, serverVars
  <1>16. QED
    BY <1>3, <1>4, <1>5, <1>6, <1>7, <1>8, <1>9, <1>10, <1>11, <1>12, <1>13,
       <1>14, <1>15
    DEF Next, Holder, Starts

\* What a goroutine does to its server leaves the others alone.
LEMMA GoroutineMoves ==
  ASSUME ServersTypeOK, NEW c \in Collectors, ServerStep(c)
  PROVE  /\ ServersTypeOK'
         /\ UNCHANGED <<collector, down>>
         /\ \A d \in Collectors \ {c} : server'[d] = server[d]
         /\ server[c] \in {"spawned", "checked", "bound"}
         /\ server'[c] \in {"checked", "bound", "serving", "closed"}
         /\ down[c] => server'[c] # "serving"
  BY DEF ServersTypeOK, ServerStep, CheckShutdown, Listen, Serve, Moves

LEMMA ServersStep ==
  ASSUME IInv, [Next]_vars
  PROVE  ServersTypeOK' /\ ServersInv'
  <1> USE DEF IInv
  <1>1. /\ collector \in Nat
        /\ Collectors = 1..3
        /\ collector <= 3
    BY CollectorsAssumption DEF ServersTypeOK, Collectors
  <1>2. ASSUME NEW t \in {"main", "watcher"}, BeginUpdate(t)
        PROVE  ServersTypeOK' /\ ServersInv'
    <2> DEFINE created == CreateCollector(collector + 1 \in setup.metrics)
    <2>1. work # "schedule" /\ work # "shutdown" /\ work' = "shutdown"
      BY <1>2 DEF BeginUpdate, LockInv
    <2>2. collector + 1 \in Collectors
      BY <1>1, <1>2
      DEF BeginUpdate, Reconfigures, LockInv, CountInv, ControlTypeOK
    <2>3. /\ created[collector + 1] \in {"none", "new"}
          /\ \A c \in Collectors \ {collector + 1} : created[c] = server[c]
          /\ created \in [Collectors -> {"none", "new", "spawned", "checked",
                                         "bound", "serving", "closed"}]
      BY <1>1, <2>1, <2>2 DEF CreateCollector, ServersTypeOK, ServersInv
    <2>4. CASE collector = 0
      BY <1>1, <1>2, <2>1, <2>2, <2>3, <2>4
      DEF BeginUpdate, ServersTypeOK, ServersInv, Retired
    <2>5. CASE collector # 0
      <3>1. /\ down' = [down EXCEPT ![collector] = server[collector] # "none"]
            /\ server' = [created EXCEPT ![collector] =
                            IF @ = "serving" THEN "closed" ELSE @]
            /\ UNCHANGED <<collector, scraped, portLost>>
        BY <1>2, <2>5 DEF BeginUpdate, BeginShutdown
      <3>2. collector \in Collectors /\ collector # collector + 1
        BY <1>1, <2>5
      <3>3. ServersTypeOK'
        BY <2>3, <3>1, <3>2 DEF ServersTypeOK
      <3>4. Retired(collector)'
        BY <2>3, <3>1, <3>2 DEF ServersTypeOK, Retired
      <3>5. \A c \in Collectors \ {collector} :
              down'[c] = down[c] /\ server'[c] = created[c]
        BY <2>3, <3>1 DEF ServersTypeOK
      <3>6. \A c \in Collectors : c < collector => Retired(c)'
        BY <1>1, <2>3, <3>1, <3>5 DEF ServersInv, Retired
      <3>7. \A c \in Collectors : c > collector =>
              /\ ~down'[c]
              /\ server'[c] = "none" \/ (server'[c] = "new" /\ c = collector + 1)
        BY <1>1, <2>1, <2>3, <3>5 DEF ServersInv
      <3>8. QED
        BY <2>1, <3>1, <3>3, <3>4, <3>6, <3>7 DEF ServersInv
    <2>6. QED
      BY <2>4, <2>5
  <1>3. CASE Assign
    <2>1. /\ work = "shutdown" /\ work' = "schedule"
          /\ collector' = collector + 1
          /\ UNCHANGED <<server, down, scraped, portLost>>
      BY <1>3 DEF Assign
    <2>2. collector + 1 \in Collectors
      BY <1>1, <2>1 DEF LockInv, CountInv, ControlTypeOK
    <2>3. ServersTypeOK'
      BY <1>1, <2>1, <2>2, CollectorsAssumption DEF ServersTypeOK
    <2>4. QED
      BY <1>1, <2>1, <2>2, <2>3 DEF ServersInv, Retired
  <1>4. CASE EndUpdate
    <2>1. /\ work = "schedule" /\ work' = "none"
          /\ server' = [server EXCEPT ![collector] = IF @ = "new" THEN "spawned" ELSE @]
          /\ UNCHANGED <<collector, down, scraped, portLost>>
      BY <1>4 DEF EndUpdate, StartServer
    <2>2. ServersTypeOK'
      BY <2>1 DEF ServersTypeOK
    <2>3. \A c \in Collectors : c # collector => server'[c] = server[c]
      BY <2>1 DEF ServersTypeOK
    <2>4. QED
      BY <1>1, <2>1, <2>2, <2>3 DEF ServersInv, Retired
  <1>5. ASSUME NEW c \in Collectors, Server(c)
        PROVE  ServersTypeOK' /\ ServersInv'
    <2>1. UNCHANGED work /\ ServerStep(c)
      BY <1>5 DEF Server
    <2>2. QED
      BY <1>1, <2>1, GoroutineMoves DEF ServersInv, Retired
  <1>6. ASSUME NEW c \in Collectors, Scrape(c) \/ EndScrape(c)
        PROVE  ServersTypeOK' /\ ServersInv'
    BY <1>6
    DEF Scrape, ScrapeBegins, EndScrape, ScrapeEnds, ownVars, ServersTypeOK,
        ServersInv, Retired
  <1>7. ASSUME UNCHANGED serverVars,
               work' = work \/ work' \notin {"shutdown", "schedule"},
               work = "shutdown" => work' = "shutdown"
        PROVE  ServersTypeOK' /\ ServersInv'
    BY <1>7 DEF serverVars, ServersTypeOK, ServersInv, Retired
  <1>8. CASE NextLocation \/ WorkOnJob \/ VisitLocation
    BY <1>7, <1>8 DEF NextLocation, WorkOnJob, VisitLocation, ownVars
  <1>9. CASE LoggedIn \/ LoginFails \/ SnapshotTaken \/ EndSnapshot
    BY <1>7, <1>9
    DEF LoggedIn, LoginFails, SnapshotTaken, EndSnapshot, ReturnTicker
  <1>10. CASE StartFails \/ SelectDone
    BY <1>7, <1>10 DEF StartFails, SelectDone, End
  <1>11. CASE Snapshots
    BY <1>7, <1>11 DEF Snapshots, BeginSnapshot, SnapshotRefused, LockInv
  <1>12. CASE SelectTick \/ Signal \/ ChangeFile \/ ReadChange \/ SendResult
    BY <1>7, <1>12 DEF SelectTick, Signal, ChangeFile, ReadChange, SendResult
  <1>13. ASSUME NEW f \in Files, LoseSecret(f)
         PROVE  ServersTypeOK' /\ ServersInv'
    BY <1>7, <1>13 DEF LoseSecret, ownVars
  <1>14. CASE UNCHANGED vars
    BY <1>7, <1>14 DEF vars, ownVars
  <1>15. QED
    BY <1>2, <1>3, <1>4, <1>5, <1>6, <1>8, <1>9, <1>10, <1>11, <1>12, <1>13,
       <1>14
    DEF Next, Holder, Starts

LEMMA InitialIInv ==
  ASSUME Init
  PROVE  IInv
  <1> USE DEF Init
  <1>1. ControlTypeOK /\ LockInv /\ CountInv
    <2>1. <<>> \in Seq(StorageKinds)
      OBVIOUS
    <2>2. /\ main = "start" /\ watcher = "off" /\ changed = FALSE
          /\ results = 0 /\ lock = "none" /\ work = "none" /\ todo = <<>>
          /\ cancelled = FALSE /\ ended = "no" /\ collector = 0
      BY DEF ServersInit
    <2> HIDE DEF Init
    <2>3. changed \in BOOLEAN /\ cancelled \in BOOLEAN
      BY <2>2, Zenon
    <2>4. ControlTypeOK
      BY <2>1, <2>2, <2>3 DEF ControlTypeOK
    <2>5. LockInv /\ CountInv
      BY <2>2 DEF LockInv, CountInv
    <2>6. QED
      BY <2>4, <2>5
  <1>2. ServersTypeOK /\ ServersInv
    <2>1. ServersInit /\ work = "none"
      OBVIOUS
    <2> HIDE DEF Init
    <2>2. 0 \in 0..MaxCollectors
      BY MaxCollectorsAssumption
    <2>3. ServersTypeOK
      BY <2>1, <2>2 DEF ServersInit, ServersTypeOK
    <2>4. ServersInv
      BY <2>1 DEF ServersInit, ServersInv, Collectors
    <2>5. QED
      BY <2>3, <2>4
  <1>3. SecretsInv
    BY DEF SecretsInv, JobInv
  <1>4. QED
    BY <1>1, <1>2, <1>3 DEF IInv

LEMMA Inductive == Spec => []IInv
  <1>1. IInv /\ [Next]_vars => IInv'
    BY SecretsStep, ControlStep, ServersStep DEF IInv, SecretsInv
  <1>2. QED
    BY <1>1, InitialIInv, PTL DEF Spec

-----------------------------------------------------------------------------
(* The theorems                                                            *)

(***************************************************************************)
(* Every variable has its type, and the bound on the collectors is no      *)
(* restriction: an agent whose results nobody takes installs at most three.*)
(***************************************************************************)
THEOREM TypeCorrect == Spec => []TypeOK
  <1>1. IInv => TypeOK
    BY DEF IInv, TypeOK, ControlTypeOK, LockInv, SecretsInv, SecretsTypeOK,
           JobInv, JobType, NoJob
  <1>2. QED
    BY <1>1, Inductive, PTL

\* No server but that of the current collector answers a new scrape.
THEOREM OldServersAreQuiet == Spec => []OnlyCurrentServes
  <1>1. IInv => OnlyCurrentServes
    <2> SUFFICES ASSUME IInv, NEW c \in Collectors, server[c] = "serving"
                 PROVE  c = collector
      BY DEF OnlyCurrentServes
    <2>1. collector \in Nat /\ c \in Nat
      BY DEF IInv, ServersTypeOK, Collectors
    <2>2. ~(c < collector) /\ ~(c > collector)
      BY DEF IInv, ServersInv, Retired
    <2>3. QED
      BY <2>1, <2>2
  <1>2. QED
    BY <1>1, Inductive, PTL

\* A client that gets created has found the sources of all the secrets it
\* requires, whatever happens to the files meanwhile.
THEOREM ClientsFindTheirSecrets == Spec => []MissingSecretsFail
  <1>1. IInv => MissingSecretsFail
    BY CompletedJobs DEF IInv
  <1>2. QED
    BY <1>1, Inductive, PTL

(***************************************************************************)
(* What the documentation asks for beyond that, a value for each of them,  *)
(* is then missing for one reason only: a source that was there and empty. *)
(***************************************************************************)
THEOREM OnlyEmptySourcesAreMissed ==
  Spec => [](job.blank = {} => CredentialsAreComplete)
  <1>1. IInv => (job.blank = {} => CredentialsAreComplete)
    BY CompletedJobs DEF IInv, MissingSecretsFail, CredentialsAreComplete
  <1>2. QED
    BY <1>1, Inductive, PTL

\* The port is never lost to a server that serves, or by one that nobody
\* has shut down to another such.
THEOREM PortNeverContested == Spec => PortIsHandedOver
  <1> DEFINE Contested == \E c \in Collectors : down[c] /\ server[c] \in {"checked", "bound"}
  <1>1. IInv /\ [Next]_vars => [~portLost /\ portLost' => Contested]_serverVars
    <2> SUFFICES ASSUME IInv, Next, ~portLost, portLost'
                 PROVE  Contested
      BY DEF vars, serverVars
    <2>1. PICK c \in Collectors : Server(c)
      <3>1. CASE \E c \in Collectors : Scrape(c) \/ EndScrape(c)
        BY <3>1 DEF Scrape, ScrapeBegins, EndScrape, ScrapeEnds
      <3>2. CASE Holder
        BY <3>2
        DEF Holder, Assign, EndUpdate, NextLocation, WorkOnJob, VisitLocation,
            LoggedIn, LoginFails, SnapshotTaken, EndSnapshot, serverVars
      <3>3. CASE Starts \/ BeginUpdate("watcher") \/ Snapshots
        BY <3>3
        DEF Starts, StartFails, End, BeginUpdate, Snapshots, BeginSnapshot,
            SnapshotRefused, serverVars
      <3>4. CASE SelectTick \/ SelectDone \/ Signal \/ ChangeFile \/ ReadChange
                 \/ SendResult \/ \E f \in Files : LoseSecret(f)
        BY <3>4
        DEF SelectTick, SelectDone, End, Signal, ChangeFile, ReadChange,
            SendResult, LoseSecret, serverVars
      <3>5. QED
        BY <3>1, <3>2, <3>3, <3>4 DEF Next
    <2>2. PICK d \in Collectors : server[c] = "checked" /\ HoldsPort(d)
      BY <2>1
      DEF Server, ServerStep, CheckShutdown, Listen, Serve, Moves
    <2>3. c # d /\ c \in Nat /\ d \in Nat /\ collector \in Nat
      BY <2>2 DEF HoldsPort, IInv, ServersTypeOK, Collectors
    <2>4. c <= collector /\ d <= collector
      BY <2>2, <2>3 DEF HoldsPort, IInv, ServersInv
    <2>5. c < collector \/ d < collector
      BY <2>3, <2>4
    <2>6. QED
      BY <2>2, <2>5 DEF HoldsPort, IInv, ServersInv, Retired
  <1>2. QED
    BY <1>1, Inductive, PTL DEF Spec, PortIsHandedOver


=============================================================================
