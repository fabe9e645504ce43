-------------------------- MODULE AdminToolProofs --------------------------
(***************************************************************************)
(* Proofs about keys, certificates and tokens, for any number of commands  *)
(* and publications at the same time, any numbers of keys and tokens and   *)
(* any time.                                                               *)
(***************************************************************************)
EXTENDS AdminTool, TLAPS

-----------------------------------------------------------------------------
(* Files and commands as values *)

LEMMA PEMFields ==
  ASSUME NEW f \in PEM
  PROVE  f.key \in Key
BY DEF PEM

LEMMA PrivateKeyFields ==
  ASSUME NEW k \in Key
  PROVE  /\ PrivateKey(k) \in PEM
         /\ PrivateKey(k).type = "RSA PRIVATE KEY" /\ PrivateKey(k).key = k
BY DEF PEM, PrivateKey

LEMMA CertificateFields ==
  ASSUME NEW k \in Key, NEW by \in Key, NEW chain \in Key \cup {None}
  PROVE  LET c == Certificate(k, by, chain) IN
         /\ c \in PEM /\ c.type = "CERTIFICATE"
         /\ c.key = k /\ c.by = by /\ c.chain = chain
BY DEF PEM, Certificate

\* A truncated file holds neither a key nor a certificate.
LEMMA TornHoldsNothing ==
  ~Holds(Torn, "RSA PRIVATE KEY") /\ ~Holds(Torn, "CERTIFICATE")
BY DEF Torn, Holds

LEMMA IdleFields ==
  Idle \in CommandStates /\ Idle.pc = "idle" /\ ~Idle.alone
BY DEF Idle, CommandStates, CommandPCs

LEMMA CommandFields ==
  ASSUME NEW c \in CommandStates
  PROVE  /\ c.pc \in CommandPCs /\ c.op \in {None, "init", "tls-cert"}
         /\ c.key \in Key \cup {None} /\ c.ca \in Key \cup {None}
         /\ c.by \in Key \cup {None} /\ c.alone \in BOOLEAN
BY DEF CommandStates

\* A command goes to its next step.
LEMMA GoesOn ==
  ASSUME NEW c \in CommandStates, NEW l \in CommandPCs
  PROVE  LET d == [c EXCEPT !.pc = l] IN
         /\ d \in CommandStates /\ d.pc = l
         /\ d.op = c.op /\ d.key = c.key /\ d.ca = c.ca /\ d.by = c.by /\ d.alone = c.alone
BY DEF CommandStates

LEMMA ReadsCA ==
  ASSUME NEW c \in CommandStates, NEW k \in Key
  PROVE  LET d == [c EXCEPT !.pc = "readCAKey", !.ca = k] IN
         /\ d \in CommandStates /\ d.pc = "readCAKey" /\ d.ca = k
         /\ d.op = c.op /\ d.key = c.key /\ d.by = c.by /\ d.alone = c.alone
BY DEF CommandStates, CommandPCs

LEMMA ReadsCAKey ==
  ASSUME NEW c \in CommandStates, NEW k \in Key
  PROVE  LET d == [c EXCEPT !.pc = "openKey", !.by = k] IN
         /\ d \in CommandStates /\ d.pc = "openKey" /\ d.by = k
         /\ d.op = c.op /\ d.key = c.key /\ d.ca = c.ca /\ d.alone = c.alone
BY DEF CommandStates, CommandPCs

LEMMA LosesAlone ==
  ASSUME NEW c \in CommandStates, NEW b \in BOOLEAN
  PROVE  LET d == [c EXCEPT !.alone = @ /\ b] IN
         /\ d \in CommandStates /\ d.alone = (c.alone /\ b)
         /\ d.pc = c.pc /\ d.op = c.op /\ d.key = c.key /\ d.ca = c.ca /\ d.by = c.by
<1>1. c.alone \in BOOLEAN BY CommandFields
<1> QED BY <1>1 DEF CommandStates

-----------------------------------------------------------------------------
(* Types *)

\* A file that holds a PEM block holds a key that was generated.
Known(f) == f # None /\ f # Torn => f \in PEM /\ f.key <= keys

Saving == {"openKey", "writeKey", "openCert", "writeCert"}

\* What a command in state c has established where it is, with n keys.
Progress(c, n) ==
  c.pc # "idle" =>
    /\ c.op \in {"init", "tls-cert"}
    /\ c.key \in 1..n
    /\ c.op = "init" => c.pc \in Saving /\ c.ca = None /\ c.by = c.key
    /\ c.op = "tls-cert" /\ c.pc = "readCAKey" => c.ca \in Key
    /\ c.op = "tls-cert" /\ c.pc \in Saving => c.by \in Key /\ c.ca = c.by

\* The types, made inductive.
TInv ==
  /\ TypeOK
  /\ \A f \in FileNames : Known(files[f])
  /\ Known(mounted) /\ \A d \in Deploys : Known(publishing[d])
  /\ \A p \in Commands : Progress(cmd[p], keys)
  /\ publicKey # None => publicKey <= keys
  /\ served <= keys

LEMMA KeyWithin ==
  ASSUME keys \in 0..MaxKeys, NEW k \in Key, k <= keys
  PROVE  k \in 1..keys
BY AdminAssumption DEF Key

LEMMA HoldsKnown ==
  ASSUME NEW f \in FileStates, Known(f),
         Holds(f, "RSA PRIVATE KEY") \/ Holds(f, "CERTIFICATE"), keys \in 0..MaxKeys
  PROVE  f \in PEM /\ f.key \in Key /\ f.key \in 1..keys
<1>1. f # None BY DEF Holds
<1>2. f # Torn BY TornHoldsNothing
<1>3. f \in PEM /\ f.key <= keys BY <1>1, <1>2 DEF Known
<1>4. f.key \in Key BY <1>3, PEMFields
<1> QED BY <1>3, <1>4, KeyWithin

\* What a command writes is known.
LEMMA ContentKnown ==
  ASSUME TInv, NEW p \in Commands, cmd[p].pc \in {"writeKey", "writeCert"}
  PROVE  /\ Content(p) \in PEM /\ Content(p).key = cmd[p].key
         /\ cmd[p].key \in 1..keys /\ cmd[p].key \in Key
         /\ cmd[p].by \in Key /\ cmd[p].ca \in Key \cup {None}
         /\ cmd[p].pc = "writeKey" => Content(p) = PrivateKey(cmd[p].key)
         /\ cmd[p].pc = "writeCert" => Content(p) = Certificate(cmd[p].key, cmd[p].by, cmd[p].ca)
<1>1. Progress(cmd[p], keys) /\ cmd[p] \in CommandStates /\ keys \in 0..MaxKeys
  BY DEF TInv, TypeOK
<1>2. cmd[p].key \in 1..keys /\ (cmd[p].by \in Key \/ cmd[p].by = cmd[p].key)
  BY <1>1 DEF Progress, Saving
<1>3. cmd[p].key \in Key
  BY <1>1, <1>2, AdminAssumption DEF Key
<1>4. cmd[p].ca \in Key \cup {None}
  BY <1>1, CommandFields
<1>5. cmd[p].pc = "writeKey" => Content(p) = PrivateKey(cmd[p].key)
  BY DEF Content
<1>6. cmd[p].pc = "writeCert" => Content(p) = Certificate(cmd[p].key, cmd[p].by, cmd[p].ca)
  BY DEF Content
<1>7. cmd[p].by \in Key
  BY <1>2, <1>3
<1>8. Content(p) \in PEM /\ Content(p).key = cmd[p].key
  <2>1. CASE cmd[p].pc = "writeKey"
    BY <2>1, <1>3, <1>5, PrivateKeyFields
  <2>2. CASE cmd[p].pc = "writeCert"
    BY <2>2, <1>3, <1>4, <1>6, <1>7, CertificateFields
  <2> QED BY <2>1, <2>2
<1> QED BY <1>2, <1>3, <1>4, <1>5, <1>6, <1>7, <1>8

LEMMA TypeInit ==
  ASSUME Init
  PROVE  TInv
<1>1. \A p \in Commands : Progress(cmd[p], keys)
  BY IdleFields DEF Init, Progress
<1>2. /\ files \in [FileNames -> FileStates] /\ mounted \in FileStates
      /\ publishing \in [Deploys -> FileStates]
      /\ cmd \in [Commands -> CommandStates]
  BY IdleFields DEF Init, FileStates
<1>3. keys \in 0..MaxKeys /\ now \in 0..MaxTime /\ served \in 0..MaxKeys
  BY AdminAssumption DEF Init
<1>4. TypeOK
  BY <1>2, <1>3 DEF Init, TypeOK
<1> QED BY <1>1, <1>4 DEF Init, TInv, Known

\* Known files stay known while keys are generated.
LEMMA KnownGrows ==
  ASSUME TInv, keys' \in Nat, keys <= keys',
         UNCHANGED <<files, publishing, mounted>>
  PROVE  /\ \A f \in FileNames : Known(files[f])'
         /\ Known(mounted)' /\ \A d \in Deploys : Known(publishing[d])'
<1>1. keys \in Nat BY AdminAssumption DEF TInv, TypeOK
<1>2. \A f \in PEM : f.key \in Nat BY PEMFields DEF Key
<1> QED BY <1>1, <1>2 DEF TInv, Known

\* A command starts.
LEMMA BeginTypes ==
  ASSUME TInv, NEW p \in Commands,
         Begin(p, "init", "openKey") \/ Begin(p, "tls-cert", "readCA")
  PROVE  TInv'
<1>1. keys' = keys + 1 /\ keys' \in 0..MaxKeys /\ keys \in Nat
  BY AdminAssumption DEF Begin, TInv, TypeOK
<1>2. UNCHANGED <<files, tokens, publishing, mounted, publicKey, served, now, clean>>
  BY DEF Begin, serverVars
<1>3. keys' \in Key
  BY <1>1, AdminAssumption DEF Key
<1>4. ASSUME NEW q \in Commands
      PROVE  cmd'[q] \in CommandStates /\ Progress(cmd'[q], keys')
  <2>0. cmd[q] \in CommandStates /\ Progress(cmd[q], keys)
    BY DEF TInv, TypeOK
  <2>1. CASE q # p
    <3>1. \E b \in BOOLEAN : cmd'[q] = [cmd[q] EXCEPT !.alone = @ /\ b]
      BY <2>1 DEF Begin
    <3>2. PICK b \in BOOLEAN : cmd'[q] = [cmd[q] EXCEPT !.alone = @ /\ b]
      BY <3>1
    <3>3. /\ cmd'[q] \in CommandStates
          /\ cmd'[q].pc = cmd[q].pc /\ cmd'[q].op = cmd[q].op /\ cmd'[q].key = cmd[q].key
          /\ cmd'[q].ca = cmd[q].ca /\ cmd'[q].by = cmd[q].by
      BY <2>0, <3>2, LosesAlone
    <3>4. cmd[q].pc # "idle" => cmd[q].key \in 1..keys'
      BY <2>0, <1>1 DEF Progress
    <3> QED BY <2>0, <3>3, <3>4 DEF Progress
  <2>2. CASE q = p /\ Begin(p, "init", "openKey")
    <3>1. \E b \in BOOLEAN :
            cmd'[p] = [pc |-> "openKey", op |-> "init", key |-> keys', ca |-> None,
                       by |-> keys', alone |-> b]
      BY <2>2 DEF Begin
    <3> QED BY <2>2, <3>1, <1>3, <1>1 DEF CommandStates, CommandPCs, Progress, Saving
  <2>3. CASE q = p /\ Begin(p, "tls-cert", "readCA")
    <3>1. cmd'[p] = [pc |-> "readCA", op |-> "tls-cert", key |-> keys', ca |-> None,
                     by |-> None, alone |-> FALSE]
      BY <2>3 DEF Begin
    <3> QED BY <2>3, <3>1, <1>3, <1>1 DEF CommandStates, CommandPCs, Progress, Saving
  <2> QED BY <2>1, <2>2, <2>3
<1>5. cmd' = [q \in Commands |-> cmd'[q]]
  BY DEF Begin
<1>6. cmd' \in [Commands -> CommandStates]
  BY <1>4, <1>5
<1>7. overlapped' \in BOOLEAN
  BY DEF Begin, TInv, TypeOK
<1>8. /\ \A f \in FileNames : Known(files[f])'
      /\ Known(mounted)' /\ \A d \in Deploys : Known(publishing[d])'
  BY <1>1, <1>2, KnownGrows
<1>9. /\ \A t \in tokens' : t.key \in 1..keys' /\ t.iat \in 0..now'
      /\ served' <= keys' /\ (publicKey' # None => publicKey' <= keys')
  BY <1>1, <1>2, AdminAssumption DEF TInv, TypeOK, Key
<1> QED BY <1>1, <1>2, <1>4, <1>6, <1>7, <1>8, <1>9 DEF TInv, TypeOK

\* A command goes on without touching a file.
LEMMA CommandTypes ==
  ASSUME TInv, NEW p \in Commands, NEW c \in CommandStates, Progress(c, keys),
         cmd' = [cmd EXCEPT ![p] = c],
         UNCHANGED <<keys, tokens, serverVars, now, files, clean, overlapped>>
  PROVE  TInv'
<1>1. cmd' \in [Commands -> CommandStates]
  BY DEF TInv, TypeOK
<1>2. \A q \in Commands : Progress(cmd'[q], keys)
  BY DEF TInv, TypeOK
<1> QED BY <1>1, <1>2 DEF TInv, TypeOK, Known, serverVars

\* A command goes on and changes a file.
LEMMA FileTypes ==
  ASSUME TInv, NEW p \in Commands, NEW c \in CommandStates, Progress(c, keys),
         cmd' = [cmd EXCEPT ![p] = c],
         NEW f \in FileNames, NEW x \in FileStates, Known(x),
         files' = [files EXCEPT ![f] = x], clean' \in BOOLEAN,
         UNCHANGED <<keys, tokens, serverVars, now, overlapped>>
  PROVE  TInv'
<1>1. cmd' \in [Commands -> CommandStates] /\ files' \in [FileNames -> FileStates]
  BY DEF TInv, TypeOK
<1>2. \A q \in Commands : Progress(cmd'[q], keys)
  BY DEF TInv, TypeOK
<1>3. \A g \in FileNames : files'[g] = x \/ files'[g] = files[g]
  BY DEF TInv, TypeOK
<1>4. /\ \A g \in FileNames : Known(files[g])'
      /\ Known(mounted)' /\ \A d \in Deploys : Known(publishing[d])'
  BY <1>3 DEF TInv, Known, serverVars
<1> QED BY <1>1, <1>2, <1>4 DEF TInv, TypeOK, serverVars

LEMMA TargetIsFile ==
  ASSUME NEW p \in Commands
  PROVE  Target(p) \in FileNames
BY DEF Target, PrivateKeyOutPath, CertOutPath, FileNames

LEMMA ReadCATypes ==
  ASSUME TInv, NEW p \in Commands, ReadCA(p)
  PROVE  TInv'
<1> DEFINE f == files["llm-d-ca"]
           next == [cmd[p] EXCEPT !.pc = "readCAKey", !.ca = f.key]
<1>1. f \in FileStates /\ Known(f) /\ keys \in 0..MaxKeys
      /\ cmd[p] \in CommandStates /\ Progress(cmd[p], keys)
  BY DEF TInv, TypeOK, FileNames
<1>2. /\ cmd' = [cmd EXCEPT ![p] = Idle] \/ (Holds(f, "CERTIFICATE") /\ cmd' = [cmd EXCEPT ![p] = next])
      /\ UNCHANGED <<keys, tokens, serverVars, now, files, clean, overlapped>>
  BY DEF ReadCA, Proceed, serverVars
<1>3. CASE cmd' = [cmd EXCEPT ![p] = Idle]
  BY <1>2, <1>3, IdleFields, CommandTypes DEF Progress
<1>4. CASE Holds(f, "CERTIFICATE") /\ cmd' = [cmd EXCEPT ![p] = next]
  <2>1. f.key \in Key
    BY <1>1, <1>4, HoldsKnown
  <2>2. /\ next \in CommandStates /\ next.pc = "readCAKey" /\ next.ca \in Key
        /\ next.op = cmd[p].op /\ next.key = cmd[p].key
    BY <1>1, <2>1, ReadsCA
  <2>3. cmd[p].pc = "readCA"
    BY DEF ReadCA
  <2> HIDE DEF next
  <2>4. Progress(next, keys)
    BY <1>1, <2>2, <2>3 DEF Progress, Saving
  <2> QED BY <1>2, <1>4, <2>2, <2>4, CommandTypes
<1> QED BY <1>2, <1>3, <1>4

\* The certificate is signed only if the key read is that of the CA read.
LEMMA ReadCAKeyTypes ==
  ASSUME TInv, NEW p \in Commands, ReadCAKey(p)
  PROVE  TInv'
<1> DEFINE f == files["llm-d-key"]
           next == [cmd[p] EXCEPT !.pc = "openKey", !.by = f.key]
<1>1. f \in FileStates /\ Known(f) /\ keys \in 0..MaxKeys
      /\ cmd[p] \in CommandStates /\ Progress(cmd[p], keys)
  BY DEF TInv, TypeOK, FileNames
<1>2. /\ \/ cmd' = [cmd EXCEPT ![p] = Idle]
         \/ /\ Holds(f, "RSA PRIVATE KEY") /\ cmd[p].ca = f.key
            /\ cmd' = [cmd EXCEPT ![p] = next]
      /\ UNCHANGED <<keys, tokens, serverVars, now, files, clean, overlapped>>
  BY DEF ReadCAKey, SignerMatches, Proceed, serverVars
<1>3. CASE cmd' = [cmd EXCEPT ![p] = Idle]
  BY <1>2, <1>3, IdleFields, CommandTypes DEF Progress
<1>4. CASE /\ Holds(f, "RSA PRIVATE KEY") /\ cmd[p].ca = f.key
           /\ cmd' = [cmd EXCEPT ![p] = next]
  <2>1. f.key \in Key
    BY <1>1, <1>4, HoldsKnown
  <2>2. /\ next \in CommandStates /\ next.pc = "openKey" /\ next.by = f.key
        /\ next.op = cmd[p].op /\ next.key = cmd[p].key /\ next.ca = cmd[p].ca
    BY <1>1, <2>1, ReadsCAKey
  <2>3. cmd[p].pc = "readCAKey"
    BY DEF ReadCAKey
  <2> HIDE DEF next
  <2>4. Progress(next, keys)
    BY <1>1, <1>4, <2>1, <2>2, <2>3 DEF Progress, Saving
  <2> QED BY <1>2, <1>4, <2>2, <2>4, CommandTypes
<1> QED BY <1>2, <1>3, <1>4

LEMMA OpenTypes ==
  ASSUME TInv, NEW p \in Commands, Open(p)
  PROVE  TInv'
<1>1. cmd[p] \in CommandStates /\ Progress(cmd[p], keys) /\ cmd \in [Commands -> CommandStates]
  BY DEF TInv, TypeOK
<1>2. PICK l \in {"writeKey", "writeCert"} : cmd' = [cmd EXCEPT ![p] = [cmd[p] EXCEPT !.pc = l]]
  BY <1>1 DEF Open
<1> DEFINE next == [cmd[p] EXCEPT !.pc = l]
<1>0. l \in CommandPCs BY DEF CommandPCs
<1>3. /\ next \in CommandStates /\ next.pc = l /\ next.op = cmd[p].op
      /\ next.key = cmd[p].key /\ next.ca = cmd[p].ca /\ next.by = cmd[p].by
  BY <1>0, <1>1, GoesOn
<1>4. /\ cmd[p].pc \in {"openKey", "openCert"}
      /\ files' = [files EXCEPT ![Target(p)] = Torn] /\ clean' \in BOOLEAN
      /\ UNCHANGED <<keys, tokens, serverVars, now, overlapped>>
  BY DEF Open, TInv, TypeOK, serverVars
<1> HIDE DEF next
<1>5. Progress(next, keys)
  BY <1>1, <1>3, <1>4 DEF Progress, Saving
<1>6. Torn \in FileStates /\ Known(Torn)
  BY DEF FileStates, Known
<1>7. cmd' = [cmd EXCEPT ![p] = next]
  BY <1>2 DEF next
<1> QED BY <1>3, <1>4, <1>5, <1>6, <1>7, TargetIsFile, FileTypes

LEMMA WriteFileTypes ==
  ASSUME TInv, NEW p \in Commands, WriteFile(p)
  PROVE  TInv'
<1>1. cmd[p] \in CommandStates /\ Progress(cmd[p], keys) /\ cmd \in [Commands -> CommandStates]
  BY DEF TInv, TypeOK
<1>2. /\ cmd[p].pc \in {"writeKey", "writeCert"}
      /\ files' = [files EXCEPT ![Target(p)] = Content(p)]
      /\ UNCHANGED <<keys, tokens, serverVars, now, overlapped>>
  BY DEF WriteFile, serverVars
<1>3. clean' \in BOOLEAN
  BY <1>1, CommandFields DEF WriteFile, TInv, TypeOK
<1>4. Content(p) \in FileStates /\ Known(Content(p))
  <2>1. Content(p) \in PEM /\ Content(p).key = cmd[p].key /\ cmd[p].key \in 1..keys
    BY <1>2, ContentKnown
  <2>2. keys \in Nat BY AdminAssumption DEF TInv, TypeOK
  <2>3. \A k \in 1..keys : k <= keys BY <2>2
  <2> QED BY <2>1, <2>3 DEF FileStates, Known
<1>5. CASE cmd[p].pc = "writeCert"
  <2>1. cmd' = [cmd EXCEPT ![p] = Idle]
    BY <1>1, <1>5 DEF WriteFile
  <2>2. Progress(Idle, keys) BY IdleFields DEF Progress
  <2> QED BY <1>2, <1>3, <1>4, <2>1, <2>2, IdleFields, TargetIsFile, FileTypes
<1>6. CASE cmd[p].pc = "writeKey"
  <2> DEFINE next == [cmd[p] EXCEPT !.pc = "openCert"]
  <2>1. cmd' = [cmd EXCEPT ![p] = next]
    BY <1>1, <1>6 DEF WriteFile
  <2>2. /\ next \in CommandStates /\ next.pc = "openCert" /\ next.op = cmd[p].op
        /\ next.key = cmd[p].key /\ next.ca = cmd[p].ca /\ next.by = cmd[p].by
    BY <1>1, GoesOn DEF CommandPCs
  <2> HIDE DEF next
  <2>3. Progress(next, keys)
    BY <1>1, <1>6, <2>2 DEF Progress, Saving
  <2> QED BY <1>2, <1>3, <1>4, <2>1, <2>2, <2>3, TargetIsFile, FileTypes
<1> QED BY <1>2, <1>5, <1>6

\* The claims of a token.
LEMMA TokenFields ==
  ASSUME NEW k, NEW name
  PROVE  LET t == GenerateJWT(k, name) IN
         /\ t.key = k /\ t.iat = now /\ t.exp = now + Lifetime
         /\ t.method = "RSA" /\ t.issuer = ServerName
BY DEF GenerateJWT

LEMMA CreateTypes ==
  ASSUME TInv, NEW name \in Usernames, Create(name)
  PROVE  TInv'
<1> DEFINE f == files["llm-d-key"]
           t == GenerateJWT(f.key, name)
<1>1. f \in FileStates /\ Known(f) /\ keys \in 0..MaxKeys
  BY DEF TInv, TypeOK, FileNames
<1>2. f.key \in 1..keys
  BY <1>1, HoldsKnown DEF Create
<1>3. t.key = f.key /\ t.iat = now
  BY TokenFields
<1>4. now \in 0..now
  BY AdminAssumption DEF TInv, TypeOK
<1> HIDE DEF t
<1>5. tokens' = tokens \cup {t}
  BY DEF Create, t
<1>6. UNCHANGED <<files, cmd, keys, clean, overlapped, publishing, mounted, publicKey, served,
                  now>>
  BY DEF Create, toolVars, serverVars
<1>7. \A u \in tokens' : u.key \in 1..keys' /\ u.iat \in 0..now'
  BY <1>2, <1>3, <1>4, <1>5, <1>6 DEF TInv, TypeOK
<1> QED BY <1>6, <1>7 DEF TInv, TypeOK, Known

LEMMA PublishTypes ==
  ASSUME TInv, NEW d \in Deploys, ReadCertificate(d) \/ ApplySecret(d) \/ ApplyFails(d)
  PROVE  TInv'
<1>1. /\ publishing \in [Deploys -> FileStates] /\ mounted \in FileStates
      /\ files["llm-d-ca"] \in FileStates /\ Known(files["llm-d-ca"])
      /\ Known(mounted) /\ \A e \in Deploys : Known(publishing[e])
  BY DEF TInv, TypeOK, FileNames
<1>2. UNCHANGED <<files, cmd, keys, clean, tokens, publicKey, served, now>>
  BY DEF ReadCertificate, ApplySecret, ApplyFails, toolVars
<1>3. overlapped' \in BOOLEAN
  BY DEF ReadCertificate, ApplySecret, ApplyFails, toolVars, TInv, TypeOK
<1>4. PICK x \in {None, files["llm-d-ca"]} : publishing' = [publishing EXCEPT ![d] = x]
  BY DEF ReadCertificate, ApplySecret, ApplyFails
<1>5. /\ publishing' \in [Deploys -> FileStates]
      /\ \A e \in Deploys : Known(publishing'[e])
  BY <1>1, <1>4 DEF FileStates, Known
<1>6. mounted' \in FileStates /\ Known(mounted')
  BY <1>1 DEF ReadCertificate, ApplySecret, ApplyFails
<1>7. /\ \A f \in FileNames : Known(files[f])'
      /\ Known(mounted)' /\ \A e \in Deploys : Known(publishing[e])'
  BY <1>2, <1>5, <1>6 DEF Known, TInv
<1> QED BY <1>2, <1>3, <1>5, <1>6, <1>7 DEF TInv, TypeOK

LEMMA StartServerTypes ==
  ASSUME TInv, StartServer
  PROVE  TInv'
<1>1. mounted \in FileStates /\ Known(mounted) /\ keys \in 0..MaxKeys
  BY DEF TInv, TypeOK
<1>2. mounted.key \in Key /\ mounted.key \in 1..keys
  BY <1>1, HoldsKnown DEF StartServer
<1>3. publicKey' = mounted.key /\ (served' = mounted.key \/ served' = served)
  BY DEF StartServer
<1>4. /\ publicKey' \in Key /\ publicKey' <= keys
      /\ served' \in 0..MaxKeys /\ served' <= keys
  BY <1>1, <1>2, <1>3, AdminAssumption DEF TInv, TypeOK, Key
<1>5. UNCHANGED <<files, cmd, keys, clean, overlapped, tokens, publishing, mounted, now>>
  BY DEF StartServer, toolVars
<1> QED BY <1>4, <1>5 DEF TInv, TypeOK, Known

LEMMA TickTypes ==
  ASSUME TInv, Tick
  PROVE  TInv'
<1>1. UNCHANGED <<files, cmd, keys, clean, overlapped, tokens, publishing, mounted, publicKey,
                  served>>
  BY DEF Tick, toolVars, serverVars
<1>2. now \in Nat /\ now' = now + 1 /\ now' \in 0..MaxTime
  BY AdminAssumption DEF Tick, TInv, TypeOK
<1>3. \A t \in tokens : t.iat \in 0..now'
  BY <1>2 DEF TInv, TypeOK
<1> QED BY <1>1, <1>2, <1>3 DEF TInv, TypeOK, Known

LEMMA TypeStep ==
  ASSUME TInv, [Next]_vars
  PROVE  TInv'
<1>1. CASE \E p \in Commands : RunInit(p) \/ RunTLSCert(p)
  BY <1>1, BeginTypes DEF RunInit, RunTLSCert
<1>2. CASE \E p \in Commands : ReadCA(p)
  BY <1>2, ReadCATypes
<1>3. CASE \E p \in Commands : ReadCAKey(p)
  BY <1>3, ReadCAKeyTypes
<1>4. CASE \E p \in Commands : Open(p)
  BY <1>4, OpenTypes
<1>5. CASE \E p \in Commands : WriteFile(p)
  BY <1>5, WriteFileTypes
<1>6. CASE \E p \in Commands : Stop(p)
  <2>1. PICK p \in Commands : Stop(p) BY <1>6
  <2>2. /\ cmd' = [cmd EXCEPT ![p] = Idle]
        /\ UNCHANGED <<keys, tokens, serverVars, now, files, clean, overlapped>>
    BY <2>1 DEF Stop, Proceed, serverVars
  <2>3. Progress(Idle, keys) BY IdleFields DEF Progress
  <2> QED BY <2>2, <2>3, IdleFields, CommandTypes
<1>7. CASE \E name \in Usernames : Create(name)
  BY <1>7, CreateTypes
<1>8. CASE \E d \in Deploys : ReadCertificate(d) \/ ApplySecret(d) \/ ApplyFails(d)
  BY <1>8, PublishTypes
<1>9. CASE StartServer
  BY <1>9, StartServerTypes
<1>10. CASE StopServer
  BY <1>10 DEF StopServer, toolVars, TInv, TypeOK, Known
<1>11. CASE Tick
  BY <1>11, TickTypes
<1>12. CASE UNCHANGED vars
  BY <1>12 DEF vars, TInv, TypeOK, Known
<1> QED BY <1>1, <1>2, <1>3, <1>4, <1>5, <1>6, <1>7, <1>8, <1>9, <1>10, <1>11, <1>12 DEF Next

\* The files, the commands and the server keep their types: what is read
\* back from a file is a key that was generated (cert.go: CreateCertificate;
\* keys.go: LoadPublicKey).
THEOREM AdminTypeCorrect == Spec => []TypeOK
<1>1. TInv => TypeOK BY DEF TInv
<1> QED BY <1>1, TypeInit, TypeStep, PTL DEF Spec

-----------------------------------------------------------------------------
(* The certificate chain *)

\* Files change only when a command opens or writes one.
LEMMA FilesFrame ==
  ASSUME [Next]_vars, ~\E p \in Commands : Open(p) \/ WriteFile(p)
  PROVE  UNCHANGED files
BY DEF Next, vars, RunInit, RunTLSCert, Begin, ReadCA, ReadCAKey, Stop, Proceed, Create,
       ReadCertificate, ApplySecret, ApplyFails, StartServer, StopServer, Tick, toolVars

LEMMA ChainStep ==
  ASSUME TInv, TLSChainVerifies, [Next]_vars
  PROVE  TLSChainVerifies'
<1>1. files \in [FileNames -> FileStates] /\ "tls-cert" \in FileNames
  BY DEF TInv, TypeOK, FileNames
<1>2. CASE UNCHANGED files
  BY <1>2 DEF TLSChainVerifies
<1>3. ASSUME NEW p \in Commands, Open(p)
      PROVE  TLSChainVerifies'
  <2>1. files'["tls-cert"] = Torn \/ files'["tls-cert"] = files["tls-cert"]
    BY <1>1, <1>3 DEF Open
  <2> QED BY <2>1, TornHoldsNothing DEF TLSChainVerifies
<1>4. ASSUME NEW p \in Commands, WriteFile(p)
      PROVE  TLSChainVerifies'
  <2>1. /\ cmd[p].pc \in {"writeKey", "writeCert"}
        /\ files' = [files EXCEPT ![Target(p)] = Content(p)]
    BY <1>4 DEF WriteFile
  <2>2. CASE Target(p) # "tls-cert"
    BY <1>1, <2>1, <2>2 DEF TLSChainVerifies
  <2>3. CASE Target(p) = "tls-cert"
    <3>1. cmd[p].pc = "writeCert" /\ cmd[p].op # "init"
      BY <2>1, <2>3 DEF Target, PrivateKeyOutPath, CertOutPath
    <3>2. cmd[p].ca = cmd[p].by
      BY <3>1 DEF TInv, Progress, Saving
    <3>3. /\ Content(p) = Certificate(cmd[p].key, cmd[p].by, cmd[p].ca)
          /\ cmd[p].key \in Key /\ cmd[p].by \in Key /\ cmd[p].ca \in Key \cup {None}
      BY <2>1, <3>1, ContentKnown
    <3>4. Content(p).by = Content(p).chain
      BY <3>2, <3>3, CertificateFields
    <3>5. files'["tls-cert"] = Content(p)
      BY <1>1, <2>1, <2>3
    <3> QED BY <3>4, <3>5 DEF TLSChainVerifies
  <2> QED BY <2>2, <2>3
<1> QED BY <1>2, <1>3, <1>4, FilesFrame

\* Every certificate tls-cert saves is signed by the CA appended to it,
\* whatever inits replace while it runs (cert.go: CreateCertificate).
THEOREM ChainsVerify == Spec => []TLSChainVerifies
<1>1. Init => TLSChainVerifies
  BY DEF Init, TLSChainVerifies, Holds, FileNames
<1> QED BY <1>1, TypeInit, TypeStep, ChainStep, PTL DEF Spec

-----------------------------------------------------------------------------
(* Tokens *)

\* Every token is one that GenerateJWT made, at some time until now.
TokensGenerated ==
  \A t \in tokens :
    /\ t.iat \in Nat /\ t.exp = t.iat + Lifetime
    /\ t.method = "RSA" /\ t.issuer = ServerName

LEMMA TokensStep ==
  ASSUME TInv, TokensGenerated, [Next]_vars
  PROVE  TokensGenerated'
<1>1. CASE \E name \in Usernames : Create(name)
  <2>1. PICK name \in Usernames : Create(name) BY <1>1
  <2> DEFINE t == GenerateJWT(files["llm-d-key"].key, name)
  <2>2. /\ t.iat = now /\ t.exp = now + Lifetime
        /\ t.method = "RSA" /\ t.issuer = ServerName
    BY TokenFields
  <2> HIDE DEF t
  <2>3. tokens' = tokens \cup {t}
    BY <2>1 DEF Create, t
  <2>4. now \in Nat
    BY AdminAssumption DEF TInv, TypeOK
  <2> QED BY <2>2, <2>3, <2>4 DEF TokensGenerated
<1>2. CASE ~\E name \in Usernames : Create(name)
  <2>1. UNCHANGED tokens
    BY <1>2 DEF Next, vars, RunInit, RunTLSCert, Begin, ReadCA, ReadCAKey, Open, WriteFile,
                Stop, Proceed, ReadCertificate, ApplySecret, ApplyFails, StartServer, StopServer,
                Tick
  <2> QED BY <2>1 DEF TokensGenerated
<1> QED BY <1>1, <1>2

\* No token is accepted past its lifetime, through any rotations and restarts
\* (admin/jwt.go: GenerateJWT; keys.go: ValidateJWTWithKey).
THEOREM TokensExpire == Spec => []NoTokenOutlivesItsLifetime
<1>1. Init => TokensGenerated
  BY DEF Init, TokensGenerated
<1>2. TInv /\ TokensGenerated => NoTokenOutlivesItsLifetime
  <2>1. SUFFICES ASSUME TokensGenerated, NEW t \in tokens, Accepts(t)
                 PROVE  now < t.iat + Lifetime
    BY DEF NoTokenOutlivesItsLifetime
  <2>2. t.exp \in Nat /\ t.exp = t.iat + Lifetime
    BY <2>1, AdminAssumption DEF TokensGenerated
  <2>3. t.exp = None \/ now < t.exp
    BY <2>1 DEF Accepts, ValidateJWTWithKey, NotExpired
  <2> QED BY <2>2, <2>3, AdminAssumption
<1> QED BY <1>1, <1>2, TypeInit, TypeStep, TokensStep, PTL DEF Spec

-----------------------------------------------------------------------------
(* A complete init repairs the files *)

\* Between the files of the CA: if the last init that wrote ran alone, key and
\* certificate belong together; an init that has opened a file has ended
\* that; one that is still alone is the only one, and has its key in place
\* when it comes to the certificate.
CleanInv ==
  /\ clean => files["llm-d-key"].key = files["llm-d-ca"].key
  /\ \A p \in Commands : Initializing(p) /\ cmd[p].pc # "openKey" => ~clean
  /\ \A p, q \in Commands : Initializing(p) /\ cmd[p].alone /\ Initializing(q) => p = q
  /\ \A p \in Commands :
       Initializing(p) /\ cmd[p].alone /\ cmd[p].pc \in {"openCert", "writeCert"} =>
         files["llm-d-key"].key = cmd[p].key

\* Which file a command has in hand.
LEMMA TargetOf ==
  ASSUME TInv, NEW p \in Commands, cmd[p].pc \in Saving
  PROVE  /\ cmd[p].op # "init" => Target(p) \in {"tls-key", "tls-cert"}
         /\ cmd[p].op = "init" /\ cmd[p].pc \in {"openKey", "writeKey"} => Target(p) = "llm-d-key"
         /\ cmd[p].op = "init" /\ cmd[p].pc \in {"openCert", "writeCert"} => Target(p) = "llm-d-ca"
BY DEF Target, PrivateKeyOutPath, CertOutPath

\* A command that starts: it is alone if no other init runs, and no other
\* init is alone any more if it is one.
LEMMA BeginEffect ==
  ASSUME TInv, NEW p \in Commands, NEW op \in {"init", "tls-cert"}, NEW l, Begin(p, op, l)
  PROVE  /\ UNCHANGED <<files, clean, publishing, mounted, publicKey, served>>
         /\ cmd'[p].op = op /\ cmd'[p].pc = l /\ cmd'[p].key = keys + 1
         /\ cmd'[p].alone => \A q \in Commands : ~Initializing(q)
         /\ overlapped' = (overlapped \/ (op = "init" /\ \E q \in Commands : Initializing(q)))
         /\ \A q \in Commands : q # p =>
              /\ cmd'[q].op = cmd[q].op /\ cmd'[q].pc = cmd[q].pc /\ cmd'[q].key = cmd[q].key
              /\ cmd'[q].alone => cmd[q].alone /\ op # "init"
<1>1. /\ UNCHANGED <<files, clean, publishing, mounted, publicKey, served>>
      /\ overlapped' = (overlapped \/ (op = "init" /\ \E q \in Commands : Initializing(q)))
  BY DEF Begin, serverVars
<1>2. PICK b \in BOOLEAN, k \in {None, keys + 1} :
        /\ cmd'[p] = [pc |-> l, op |-> op, key |-> keys + 1, ca |-> None, by |-> k, alone |-> b]
        /\ b => \A q \in Commands : ~Initializing(q)
  BY DEF Begin
<1>3. ASSUME NEW q \in Commands, q # p
      PROVE  /\ cmd'[q].op = cmd[q].op /\ cmd'[q].pc = cmd[q].pc /\ cmd'[q].key = cmd[q].key
             /\ cmd'[q].alone => cmd[q].alone /\ op # "init"
  <2> DEFINE c == op # "init"
  <2>1. cmd[q] \in CommandStates /\ c \in BOOLEAN BY DEF TInv, TypeOK
  <2>2. cmd'[q] = [cmd[q] EXCEPT !.alone = @ /\ c]
    BY <1>3 DEF Begin
  <2>3. cmd[q].alone \in BOOLEAN BY <2>1, CommandFields
  <2> HIDE DEF c
  <2>4. /\ cmd'[q].op = cmd[q].op /\ cmd'[q].pc = cmd[q].pc /\ cmd'[q].key = cmd[q].key
        /\ cmd'[q].alone = (cmd[q].alone /\ c)
    BY <2>1, <2>2, LosesAlone
  <2> QED BY <2>3, <2>4 DEF c
<1> QED BY <1>1, <1>2, <1>3

\* A command opens a file.
LEMMA OpenEffect ==
  ASSUME TInv, NEW p \in Commands, Open(p)
  PROVE  /\ cmd[p].pc \in {"openKey", "openCert"}
         /\ cmd'[p].pc = IF cmd[p].pc = "openKey" THEN "writeKey" ELSE "writeCert"
         /\ cmd'[p].op = cmd[p].op /\ cmd'[p].key = cmd[p].key /\ cmd'[p].alone = cmd[p].alone
         /\ \A q \in Commands : q # p => cmd'[q] = cmd[q]
         /\ files'[Target(p)] = Torn
         /\ \A f \in FileNames : f # Target(p) => files'[f] = files[f]
         /\ clean' = (clean /\ cmd[p].op # "init")
         /\ UNCHANGED <<overlapped, publishing, mounted, publicKey, served>>
<1>1. cmd \in [Commands -> CommandStates] /\ files \in [FileNames -> FileStates]
  BY DEF TInv, TypeOK
<1>2. cmd[p] \in CommandStates BY <1>1
<1>3. PICK l \in {"writeKey", "writeCert"} :
        /\ cmd' = [cmd EXCEPT ![p] = [cmd[p] EXCEPT !.pc = l]]
        /\ l = IF cmd[p].pc = "openKey" THEN "writeKey" ELSE "writeCert"
  BY <1>1 DEF Open
<1>4. l \in CommandPCs BY DEF CommandPCs
<1>5. cmd'[p] = [cmd[p] EXCEPT !.pc = l] /\ \A q \in Commands : q # p => cmd'[q] = cmd[q]
  BY <1>1, <1>3
<1>6. cmd'[p].pc = l /\ cmd'[p].op = cmd[p].op /\ cmd'[p].key = cmd[p].key /\ cmd'[p].alone = cmd[p].alone
  BY <1>2, <1>4, <1>5, GoesOn
<1>7. /\ files'[Target(p)] = Torn
      /\ \A f \in FileNames : f # Target(p) => files'[f] = files[f]
  BY <1>1, TargetIsFile DEF Open
<1> QED BY <1>3, <1>5, <1>6, <1>7 DEF Open, serverVars

\* A command writes a file.
LEMMA WriteEffect ==
  ASSUME TInv, NEW p \in Commands, WriteFile(p)
  PROVE  /\ cmd[p].pc \in {"writeKey", "writeCert"}
         /\ cmd[p].pc = "writeKey" =>
              /\ cmd'[p].pc = "openCert" /\ cmd'[p].op = cmd[p].op
              /\ cmd'[p].key = cmd[p].key /\ cmd'[p].alone = cmd[p].alone
         /\ cmd[p].pc = "writeCert" => cmd'[p].pc = "idle"
         /\ \A q \in Commands : q # p => cmd'[q] = cmd[q]
         /\ files'[Target(p)].key = cmd[p].key
         /\ \A f \in FileNames : f # Target(p) => files'[f] = files[f]
         /\ clean' = IF cmd[p].pc = "writeCert" /\ cmd[p].op = "init" THEN cmd[p].alone ELSE clean
         /\ UNCHANGED <<overlapped, publishing, mounted, publicKey, served>>
<1>1. cmd \in [Commands -> CommandStates] /\ files \in [FileNames -> FileStates]
  BY DEF TInv, TypeOK
<1>2. cmd[p] \in CommandStates /\ "openCert" \in CommandPCs BY <1>1 DEF CommandPCs
<1>3. cmd[p].pc \in {"writeKey", "writeCert"} BY DEF WriteFile
<1>4. \A q \in Commands : q # p => cmd'[q] = cmd[q]
  BY <1>1 DEF WriteFile
<1>5. cmd[p].pc = "writeKey" => cmd'[p] = [cmd[p] EXCEPT !.pc = "openCert"]
  BY <1>1 DEF WriteFile
<1>6. cmd[p].pc = "writeCert" => cmd'[p] = Idle
  BY <1>1 DEF WriteFile
<1>7. files'[Target(p)] = Content(p) /\ \A f \in FileNames : f # Target(p) => files'[f] = files[f]
  BY <1>1, TargetIsFile DEF WriteFile
<1>8. Content(p).key = cmd[p].key
  BY <1>3, ContentKnown
<1>9. cmd[p].pc = "writeKey" =>
        /\ cmd'[p].pc = "openCert" /\ cmd'[p].op = cmd[p].op
        /\ cmd'[p].key = cmd[p].key /\ cmd'[p].alone = cmd[p].alone
  <2> DEFINE d == [cmd[p] EXCEPT !.pc = "openCert"]
  <2>1. /\ d.pc = "openCert" /\ d.op = cmd[p].op
        /\ d.key = cmd[p].key /\ d.alone = cmd[p].alone
    BY <1>2, GoesOn
  <2> HIDE DEF d
  <2>2. cmd[p].pc = "writeKey" => cmd'[p] = d
    BY <1>5 DEF d
  <2> QED BY <2>1, <2>2
<1>10. cmd[p].pc = "writeCert" => cmd'[p].pc = "idle"
  BY <1>6, IdleFields
<1>11. /\ clean' = IF cmd[p].pc = "writeCert" /\ cmd[p].op = "init" THEN cmd[p].alone ELSE clean
       /\ UNCHANGED <<overlapped, publishing, mounted, publicKey, served>>
  BY DEF WriteFile, serverVars
<1> QED BY <1>3, <1>4, <1>7, <1>8, <1>9, <1>10, <1>11

\* A command reads the CA, or stops: an init only stops.
LEMMA ReadEffect ==
  ASSUME TInv, NEW p \in Commands, ReadCA(p) \/ ReadCAKey(p) \/ Stop(p)
  PROVE  /\ ~Initializing(p)'
         /\ \A q \in Commands : q # p => cmd'[q] = cmd[q]
         /\ UNCHANGED <<files, clean, overlapped, publishing, mounted, publicKey, served>>
<1>1. cmd \in [Commands -> CommandStates] /\ cmd[p] \in CommandStates /\ Progress(cmd[p], keys)
  BY DEF TInv, TypeOK
<1>2. /\ \A q \in Commands : q # p => cmd'[q] = cmd[q]
      /\ UNCHANGED <<files, clean, overlapped, publishing, mounted, publicKey, served>>
  BY <1>1 DEF ReadCA, ReadCAKey, Stop, Proceed, serverVars
<1>3. CASE cmd'[p] = Idle
  BY <1>2, <1>3, IdleFields DEF Initializing, Running
<1>4. CASE cmd'[p] # Idle
  <2>1. cmd[p].pc \in {"readCA", "readCAKey"}
    BY <1>1, <1>4 DEF ReadCA, ReadCAKey, Stop, Proceed
  <2>2. cmd[p].op # "init"
    BY <1>1, <2>1 DEF Progress, Saving
  <2>3. cmd'[p].op = cmd[p].op
    <3>1. CASE ReadCA(p)
      <4>1. cmd'[p] = [cmd[p] EXCEPT !.pc = "readCAKey", !.ca = files["llm-d-ca"].key]
        BY <1>1, <1>4, <3>1 DEF ReadCA, Proceed
      <4> QED BY <1>1, <4>1 DEF CommandStates
    <3>2. CASE ReadCAKey(p)
      <4>1. cmd'[p] = [cmd[p] EXCEPT !.pc = "openKey", !.by = files["llm-d-key"].key]
        BY <1>1, <1>4, <3>2 DEF ReadCAKey, Proceed
      <4> QED BY <1>1, <4>1 DEF CommandStates
    <3>3. CASE Stop(p)
      BY <1>1, <1>4, <3>3 DEF Stop, Proceed
    <3> QED BY <3>1, <3>2, <3>3
  <2> QED BY <1>2, <2>2, <2>3 DEF Initializing
<1> QED BY <1>3, <1>4

\* The rest leaves the files and the commands alone.
LEMMA ClusterEffect ==
  ASSUME \/ \E name \in Usernames : Create(name)
         \/ \E d \in Deploys : ReadCertificate(d) \/ ApplySecret(d) \/ ApplyFails(d)
         \/ StartServer \/ StopServer \/ Tick \/ UNCHANGED vars
  PROVE  UNCHANGED <<files, cmd, keys, clean>>
BY DEF Create, ReadCertificate, ApplySecret, ApplyFails, StartServer, StopServer, Tick, vars,
       toolVars

LEMMA CleanStep ==
  ASSUME TInv, CleanInv, [Next]_vars
  PROVE  CleanInv'
<1> USE DEF Initializing, Running
<1>f. {"llm-d-ca", "llm-d-key", "tls-cert", "tls-key"} \subseteq FileNames
  BY DEF FileNames
<1>1. ASSUME NEW p \in Commands, RunInit(p)
      PROVE  CleanInv'
  BY <1>1, BeginEffect DEF RunInit, CleanInv
<1>2. ASSUME NEW p \in Commands, RunTLSCert(p)
      PROVE  CleanInv'
  BY <1>2, BeginEffect DEF RunTLSCert, CleanInv
<1>3. ASSUME NEW p \in Commands, ReadCA(p) \/ ReadCAKey(p) \/ Stop(p)
      PROVE  CleanInv'
  BY <1>3, ReadEffect DEF CleanInv
<1>4. ASSUME NEW p \in Commands, Open(p)
      PROVE  CleanInv'
  <2>1. cmd[p].pc \in Saving /\ cmd[p].pc # "idle"
    BY <1>4 DEF Open, Saving
  <2>2. CASE cmd[p].op # "init"
    <3>1. UNCHANGED clean /\ files'["llm-d-key"] = files["llm-d-key"]
          /\ files'["llm-d-ca"] = files["llm-d-ca"]
      BY <1>f, <1>4, <2>1, <2>2, OpenEffect, TargetOf DEF TInv, TypeOK
    <3> QED BY <1>4, <2>2, <3>1, OpenEffect DEF CleanInv
  <2>3. CASE cmd[p].op = "init"
    <3>1. ~clean'
      BY <1>4, <2>3, OpenEffect
    <3>2. /\ cmd'[p].pc \in {"writeKey", "writeCert"} /\ cmd'[p].op = "init"
          /\ cmd'[p].alone = cmd[p].alone /\ cmd'[p].key = cmd[p].key
          /\ cmd'[p].pc = "writeCert" => cmd[p].pc = "openCert"
          /\ \A q \in Commands : q # p => cmd'[q] = cmd[q]
      BY <1>4, <2>3, OpenEffect
    <3>3. \A q, r \in Commands :
            Initializing(q)' /\ cmd'[q].alone /\ Initializing(r)' => q = r
      BY <2>1, <2>3, <3>2 DEF CleanInv
    <3>4. cmd[p].pc = "openCert" => files'["llm-d-key"] = files["llm-d-key"]
      BY <1>f, <1>4, <2>1, <2>3, OpenEffect, TargetOf
    <3>5. ASSUME NEW q \in Commands, Initializing(q)', cmd'[q].alone,
                 cmd'[q].pc \in {"openCert", "writeCert"}
          PROVE  files'["llm-d-key"].key = cmd'[q].key
      <4>1. q = p
        BY <2>1, <2>3, <3>2, <3>5 DEF CleanInv
      <4>2. cmd[p].pc = "openCert" /\ cmd[p].alone
        BY <3>2, <3>5, <4>1
      <4> QED BY <2>1, <2>3, <3>2, <3>4, <4>1, <4>2 DEF CleanInv
    <3> QED BY <3>1, <3>3, <3>5 DEF CleanInv
  <2> QED BY <2>2, <2>3
<1>5. ASSUME NEW p \in Commands, WriteFile(p)
      PROVE  CleanInv'
  <2>1. cmd[p].pc \in Saving /\ cmd[p].pc # "idle" /\ cmd[p].pc \in {"writeKey", "writeCert"}
    BY <1>5 DEF WriteFile, Saving
  <2>2. CASE cmd[p].op # "init"
    <3>1. UNCHANGED clean /\ files'["llm-d-key"] = files["llm-d-key"]
          /\ files'["llm-d-ca"] = files["llm-d-ca"]
      BY <1>f, <1>5, <2>1, <2>2, WriteEffect, TargetOf
    <3>2. ~Initializing(p)' /\ \A q \in Commands : q # p => cmd'[q] = cmd[q]
      BY <1>5, <2>1, <2>2, WriteEffect
    <3> QED BY <3>1, <3>2 DEF CleanInv
  <2>3. CASE cmd[p].op = "init" /\ cmd[p].pc = "writeKey"
    <3>1. ~clean /\ ~clean'
      BY <1>5, <2>3, WriteEffect DEF CleanInv
    <3>2. /\ cmd'[p].pc = "openCert" /\ cmd'[p].op = "init"
          /\ cmd'[p].alone = cmd[p].alone /\ cmd'[p].key = cmd[p].key
          /\ \A q \in Commands : q # p => cmd'[q] = cmd[q]
      BY <1>5, <2>3, WriteEffect
    <3>3. \A q, r \in Commands :
            Initializing(q)' /\ cmd'[q].alone /\ Initializing(r)' => q = r
      BY <2>3, <3>2 DEF CleanInv
    <3>4. files'["llm-d-key"].key = cmd[p].key
      BY <1>5, <2>1, <2>3, WriteEffect, TargetOf
    <3>5. ASSUME NEW q \in Commands, Initializing(q)', cmd'[q].alone,
                 cmd'[q].pc \in {"openCert", "writeCert"}
          PROVE  files'["llm-d-key"].key = cmd'[q].key
      BY <2>3, <3>2, <3>4, <3>5 DEF CleanInv
    <3> QED BY <3>1, <3>3, <3>5 DEF CleanInv
  <2>4. CASE cmd[p].op = "init" /\ cmd[p].pc = "writeCert"
    <3>1. clean' = cmd[p].alone /\ cmd'[p].pc = "idle" /\ \A q \in Commands : q # p => cmd'[q] = cmd[q]
      BY <1>5, <2>4, WriteEffect
    <3>2. /\ files'["llm-d-ca"].key = cmd[p].key
          /\ files'["llm-d-key"] = files["llm-d-key"]
      BY <1>f, <1>5, <2>1, <2>4, WriteEffect, TargetOf
    <3>3. cmd[p].alone => files["llm-d-key"].key = cmd[p].key
      BY <2>4 DEF CleanInv
    <3>4. cmd[p].alone => \A q \in Commands : ~Initializing(q)'
      BY <2>4, <3>1 DEF CleanInv
    <3> QED BY <3>1, <3>2, <3>3, <3>4 DEF CleanInv
  <2> QED BY <2>1, <2>2, <2>3, <2>4
<1>6. CASE UNCHANGED <<files, cmd, keys, clean>>
  BY <1>6 DEF CleanInv
<1> QED BY <1>1, <1>2, <1>3, <1>4, <1>5, <1>6, ClusterEffect DEF Next

\* After an init that ran alone to its end, with the server on the certificate
\* it wrote, every token made since is accepted until it expires (cert.go:
\* CreateCertificate; admin.go: CreateAdminCerts).
THEOREM CompleteInitRepairs == Spec => []FreshTokensWork
<1>1. Init => CleanInv /\ TokensGenerated
  BY IdleFields DEF Init, CleanInv, TokensGenerated, Initializing, Running
<1>2. TInv /\ CleanInv /\ TokensGenerated => FreshTokensWork
  <2>1. SUFFICES ASSUME TInv, CleanInv, TokensGenerated, clean,
                        Holds(files["llm-d-ca"], "CERTIFICATE"),
                        publicKey = files["llm-d-ca"].key,
                        NEW t \in tokens, t.key = files["llm-d-key"].key, NotExpired(t, now)
                 PROVE  Accepts(t)
    BY DEF FreshTokensWork
  <2>2. publicKey \in Key
    BY <2>1, HoldsKnown DEF TInv, TypeOK, FileNames
  <2>3. publicKey # None
    BY <2>2, AdminAssumption DEF Key
  <2>4. t.key = publicKey
    BY <2>1 DEF CleanInv
  <2> QED BY <2>1, <2>3, <2>4 DEF Accepts, ValidateJWTWithKey, SignatureVerifies, TokensGenerated
<1> QED BY <1>1, <1>2, TypeInit, TypeStep, CleanStep, TokensStep, PTL DEF Spec

-----------------------------------------------------------------------------
(* Rotation *)

IsCert(f) == Holds(f, "CERTIFICATE")

\* No certificate that a server has loaded, or may load before another is
\* read from the file, is newer than n.
NotNewer(n) ==
  /\ served <= n
  /\ IsCert(mounted) => mounted.key <= n
  /\ \A d \in Deploys : IsCert(publishing[d]) => publishing[d].key <= n

\* What a publication has read is not older than what it will replace, nor
\* than what a server has loaded.
NotOlder(f) == served <= f.key /\ (IsCert(mounted) => mounted.key <= f.key)

\* While no two inits and no two publications overlap, certificates move from
\* an init to the file, to a publication, to the Secret and to the server in
\* the order of their keys.
RotationInv ==
  ~overlapped =>
    /\ publicKey # None => publicKey = served
    /\ IsCert(mounted) => served <= mounted.key
    /\ \A d \in Deploys : IsCert(publishing[d]) => NotOlder(publishing[d])
    /\ \A d, e \in Deploys : publishing[d] # None /\ publishing[e] # None => d = e
    /\ IsCert(files["llm-d-ca"]) => NotNewer(files["llm-d-ca"].key)
    /\ \A p \in Commands : Initializing(p) =>
         /\ NotNewer(cmd[p].key)
         /\ IsCert(files["llm-d-ca"]) => files["llm-d-ca"].key <= cmd[p].key
    /\ \A p, q \in Commands : Initializing(p) /\ Initializing(q) => p = q

\* No certificate is newer than the next key.
LEMMA NextKeyIsNewest ==
  ASSUME TInv
  PROVE  /\ NotNewer(keys + 1)
         /\ IsCert(files["llm-d-ca"]) => files["llm-d-ca"].key <= keys + 1
<1>1. keys \in 0..MaxKeys /\ served \in 0..MaxKeys /\ served <= keys
  BY DEF TInv, TypeOK
<1>2. IsCert(mounted) => mounted.key \in 1..keys
  BY <1>1, HoldsKnown DEF TInv, TypeOK, IsCert
<1>3. IsCert(files["llm-d-ca"]) => files["llm-d-ca"].key \in 1..keys
  BY <1>1, HoldsKnown DEF TInv, TypeOK, IsCert, FileNames
<1>4. \A k \in 1..keys : k <= keys + 1
  BY <1>1, AdminAssumption
<1>5. served <= keys + 1
  BY <1>1, AdminAssumption
<1>6. \A d \in Deploys : IsCert(publishing[d]) => publishing[d].key \in 1..keys
  BY <1>1, HoldsKnown DEF TInv, TypeOK, IsCert
<1> QED BY <1>2, <1>3, <1>4, <1>5, <1>6 DEF NotNewer

LEMMA CertKeys ==
  ASSUME TInv
  PROVE  /\ served \in Nat
         /\ IsCert(mounted) => mounted.key \in Nat
         /\ IsCert(files["llm-d-ca"]) => files["llm-d-ca"].key \in Nat
         /\ \A d \in Deploys : IsCert(publishing[d]) => publishing[d].key \in Nat
<1>1. keys \in 0..MaxKeys /\ served \in 0..MaxKeys
  BY DEF TInv, TypeOK
<1>2. IsCert(mounted) => mounted.key \in Key
  BY <1>1, HoldsKnown DEF TInv, TypeOK, IsCert
<1>3. IsCert(files["llm-d-ca"]) => files["llm-d-ca"].key \in Key
  BY <1>1, HoldsKnown DEF TInv, TypeOK, IsCert, FileNames
<1>4. Key \subseteq Nat /\ served \in Nat
  BY <1>1, AdminAssumption DEF Key
<1>5. \A d \in Deploys : IsCert(publishing[d]) => publishing[d].key \in Key
  BY <1>1, HoldsKnown DEF TInv, TypeOK, IsCert
<1> QED BY <1>2, <1>3, <1>4, <1>5

LEMMA RotationStep ==
  ASSUME TInv, RotationInv, [Next]_vars
  PROVE  RotationInv'
<1>0. SUFFICES ASSUME ~overlapped' PROVE RotationInv'
  BY DEF RotationInv
<1>f. {"llm-d-ca", "llm-d-key", "tls-cert", "tls-key"} \subseteq FileNames
  BY DEF FileNames
<1> USE DEF Initializing, Running
<1>1. ASSUME NEW p \in Commands, RunInit(p)
      PROVE  RotationInv'
  <2>1. /\ UNCHANGED <<files, publishing, mounted, publicKey, served>> /\ ~overlapped
        /\ cmd'[p].key = keys + 1
        /\ \A q \in Commands : ~Initializing(q)
        /\ \A q \in Commands : q # p =>
             cmd'[q].op = cmd[q].op /\ cmd'[q].pc = cmd[q].pc /\ cmd'[q].key = cmd[q].key
    BY <1>0, <1>1, BeginEffect DEF RunInit
  <2>2. \A n : (NotNewer(n)' <=> NotNewer(n)) /\ (NotOlder(n)' <=> NotOlder(n))
    BY <2>1 DEF NotNewer, NotOlder
  <2> QED BY <2>1, <2>2, NextKeyIsNewest DEF RotationInv
<1>2. ASSUME NEW p \in Commands, RunTLSCert(p)
      PROVE  RotationInv'
  <2>1. /\ UNCHANGED <<files, publishing, mounted, publicKey, served>> /\ ~overlapped
        /\ cmd'[p].op = "tls-cert"
        /\ \A q \in Commands : q # p =>
             cmd'[q].op = cmd[q].op /\ cmd'[q].pc = cmd[q].pc /\ cmd'[q].key = cmd[q].key
    <3>1. Begin(p, "tls-cert", "readCA") BY <1>2 DEF RunTLSCert
    <3>2. overlapped' = overlapped BY <3>1 DEF Begin, TInv, TypeOK
    <3> QED BY <1>0, <3>1, <3>2, BeginEffect
  <2>2. \A n : (NotNewer(n)' <=> NotNewer(n)) /\ (NotOlder(n)' <=> NotOlder(n))
    BY <2>1 DEF NotNewer, NotOlder
  <2> QED BY <2>1, <2>2 DEF RotationInv
<1>3. ASSUME NEW p \in Commands, ReadCA(p) \/ ReadCAKey(p) \/ Stop(p)
      PROVE  RotationInv'
  <2>1. /\ ~Initializing(p)' /\ ~overlapped
        /\ \A q \in Commands : q # p => cmd'[q] = cmd[q]
        /\ UNCHANGED <<files, publishing, mounted, publicKey, served>>
    BY <1>0, <1>3, ReadEffect
  <2>2. \A n : (NotNewer(n)' <=> NotNewer(n)) /\ (NotOlder(n)' <=> NotOlder(n))
    BY <2>1 DEF NotNewer, NotOlder
  <2> QED BY <2>1, <2>2 DEF RotationInv
<1>4. ASSUME NEW p \in Commands, Open(p)
      PROVE  RotationInv'
  <2>1. /\ ~overlapped /\ UNCHANGED <<publishing, mounted, publicKey, served>>
        /\ cmd[p].pc # "idle"
        /\ cmd'[p].op = cmd[p].op /\ cmd'[p].key = cmd[p].key
        /\ \A q \in Commands : q # p => cmd'[q] = cmd[q]
    BY <1>0, <1>4, OpenEffect
  <2>2. files'["llm-d-ca"] = Torn \/ files'["llm-d-ca"] = files["llm-d-ca"]
    BY <1>f, <1>4, OpenEffect
  <2>3. IsCert(files["llm-d-ca"])' => files'["llm-d-ca"] = files["llm-d-ca"]
    BY <2>2, TornHoldsNothing DEF IsCert
  <2>4. \A n : (NotNewer(n)' <=> NotNewer(n)) /\ (NotOlder(n)' <=> NotOlder(n))
    BY <2>1 DEF NotNewer, NotOlder
  <2> QED BY <2>1, <2>3, <2>4 DEF RotationInv
<1>5. ASSUME NEW p \in Commands, WriteFile(p)
      PROVE  RotationInv'
  <2>1. /\ ~overlapped /\ UNCHANGED <<publishing, mounted, publicKey, served>>
        /\ cmd[p].pc # "idle" /\ cmd[p].pc \in Saving
        /\ cmd'[p].pc # "idle" => cmd'[p].op = cmd[p].op /\ cmd'[p].key = cmd[p].key
        /\ \A q \in Commands : q # p => cmd'[q] = cmd[q]
    BY <1>0, <1>5, WriteEffect DEF Saving
  <2>2. \A n : (NotNewer(n)' <=> NotNewer(n)) /\ (NotOlder(n)' <=> NotOlder(n))
    BY <2>1 DEF NotNewer, NotOlder
  <2>3. CASE Target(p) # "llm-d-ca"
    <3>1. files'["llm-d-ca"] = files["llm-d-ca"]
      BY <1>f, <1>5, <2>3, WriteEffect
    <3> QED BY <2>1, <2>2, <3>1 DEF RotationInv
  <2>4. CASE Target(p) = "llm-d-ca"
    <3>1. files'["llm-d-ca"].key = cmd[p].key
      BY <1>5, <2>4, WriteEffect
    <3>2. Initializing(p) /\ cmd[p].pc = "writeCert"
      BY <1>5, <2>1, <2>4, TargetOf, WriteEffect
    <3>3. cmd'[p].pc = "idle"
      BY <1>5, <3>2, WriteEffect
    <3>4. \A q \in Commands : ~Initializing(q)'
      BY <2>1, <3>2, <3>3 DEF RotationInv
    <3>5. NotNewer(cmd[p].key)
      BY <2>1, <3>2 DEF RotationInv
    <3> QED BY <2>1, <2>2, <3>1, <3>4, <3>5 DEF RotationInv
  <2> QED BY <2>3, <2>4
<1>6. ASSUME NEW d \in Deploys, ReadCertificate(d) \/ ApplySecret(d) \/ ApplyFails(d)
      PROVE  RotationInv'
  <2>1. /\ UNCHANGED <<files, cmd, publicKey, served>> /\ ~overlapped
        /\ publishing \in [Deploys -> FileStates]
    BY <1>0, <1>6 DEF ReadCertificate, ApplySecret, ApplyFails, toolVars, TInv, TypeOK
  <2>2. ~IsCert(None)
    BY DEF IsCert, Holds
  <2>3. CASE ReadCertificate(d)
    <3>1. /\ UNCHANGED mounted
          /\ publishing' = [publishing EXCEPT ![d] = files["llm-d-ca"]]
          /\ \A e \in Deploys : publishing[e] = None
      BY <1>0, <2>3 DEF ReadCertificate
    <3>2. publishing'[d] = files["llm-d-ca"] /\ \A e \in Deploys : e # d => publishing'[e] = None
      BY <2>1, <3>1
    <3>3. IsCert(files["llm-d-ca"]) =>
            NotNewer(files["llm-d-ca"].key) /\ files["llm-d-ca"].key \in Nat
      BY <2>1, CertKeys DEF RotationInv
    <3>4. IsCert(files["llm-d-ca"]) =>
            NotOlder(files["llm-d-ca"])' /\ NotNewer(files["llm-d-ca"].key)'
      BY <2>1, <2>2, <3>1, <3>2, <3>3 DEF NotOlder, NotNewer
    <3>5. ASSUME NEW p \in Commands, Initializing(p)
          PROVE  NotNewer(cmd[p].key)'
      BY <2>1, <2>2, <3>1, <3>2, <3>5 DEF RotationInv, NotNewer
    <3> QED BY <2>1, <2>2, <3>1, <3>2, <3>4, <3>5 DEF RotationInv
  <2>4. CASE ApplySecret(d)
    <3>1. /\ publishing[d] # None /\ mounted' = publishing[d]
          /\ publishing' = [publishing EXCEPT ![d] = None]
      BY <2>4 DEF ApplySecret
    <3>2. \A e \in Deploys : publishing'[e] = None
      BY <2>1, <3>1 DEF RotationInv
    <3>3. \A n : NotNewer(n) => NotNewer(n)'
      BY <2>1, <2>2, <3>1, <3>2 DEF NotNewer
    <3>4. IsCert(mounted)' => served <= mounted'.key
      BY <2>1, <3>1 DEF RotationInv, NotOlder
    <3> QED BY <2>1, <2>2, <3>2, <3>3, <3>4 DEF RotationInv
  <2>5. CASE ApplyFails(d)
    <3>1. UNCHANGED mounted /\ publishing' = [publishing EXCEPT ![d] = None]
      BY <2>5 DEF ApplyFails
    <3>2. \A e \in Deploys : publishing'[e] = None \/ publishing'[e] = publishing[e]
      BY <2>1, <3>1
    <3>3. \A n : (NotNewer(n) => NotNewer(n)') /\ (NotOlder(n)' <=> NotOlder(n))
      BY <2>1, <2>2, <3>1, <3>2 DEF NotNewer, NotOlder
    <3> QED BY <2>1, <2>2, <3>1, <3>2, <3>3 DEF RotationInv
  <2> QED BY <1>6, <2>3, <2>4, <2>5
<1>7. CASE StartServer
  <2>1. /\ UNCHANGED <<files, cmd, publishing, mounted, overlapped>>
        /\ IsCert(mounted) /\ publicKey' = mounted.key
        /\ served' = IF mounted.key > served THEN mounted.key ELSE served
    BY <1>7 DEF StartServer, toolVars, IsCert
  <2>2. mounted.key \in Nat /\ served \in Nat
    BY <2>1, CertKeys
  <2>3. served <= mounted.key
    BY <1>0, <2>1 DEF RotationInv
  <2>4. served' = mounted.key
    BY <2>1, <2>2, <2>3
  <2>5. \A n : NotNewer(n) => NotNewer(n)'
    BY <2>1, <2>4 DEF NotNewer
  <2>6. \A d \in Deploys : IsCert(publishing[d]) => NotOlder(publishing[d])'
    BY <1>0, <2>1, <2>4 DEF RotationInv, NotOlder
  <2> QED BY <1>0, <2>1, <2>2, <2>4, <2>5, <2>6 DEF RotationInv
<1>8. CASE StopServer \/ Tick \/ (\E name \in Usernames : Create(name)) \/ UNCHANGED vars
  <2>1. /\ UNCHANGED <<files, cmd, publishing, mounted, served, overlapped>>
        /\ publicKey' \in {None, publicKey}
    BY <1>8 DEF StopServer, Tick, Create, toolVars, serverVars, vars
  <2>2. \A n : (NotNewer(n)' <=> NotNewer(n)) /\ (NotOlder(n)' <=> NotOlder(n))
    BY <2>1 DEF NotNewer, NotOlder
  <2> QED BY <1>0, <2>1, <2>2 DEF RotationInv
<1> QED BY <1>1, <1>2, <1>3, <1>4, <1>5, <1>6, <1>7, <1>8 DEF Next

\* As long as no two inits and no two publications overlap, a key that a
\* server has left behind is never accepted again, however late a publication
\* applies what it read (Makefile: deploy; keys.go: LoadPublicKey; cert.go:
\* CreateCertificate).
THEOREM RotationRevokes == Spec => []RetiredKeysStayRetired
<1>1. Init => RotationInv
  <2>1. Init => /\ mounted = None /\ files["llm-d-ca"] = None /\ publicKey = None
                /\ \A d \in Deploys : publishing[d] = None
                /\ \A p \in Commands : ~Initializing(p)
    BY IdleFields DEF Init, FileNames, Initializing, Running
  <2> QED BY <2>1 DEF RotationInv, IsCert, Holds
<1>2. RotationInv => RetiredKeysStayRetired
  BY DEF RotationInv, RetiredKeysStayRetired, Accepts, ValidateJWTWithKey, SignatureVerifies
<1> QED BY <1>1, <1>2, TypeInit, TypeStep, RotationStep, PTL DEF Spec

=============================================================================
