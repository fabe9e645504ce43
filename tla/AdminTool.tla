------------------------------ MODULE AdminTool ------------------------------
(***************************************************************************)
(* Keys, certificates and tokens: the commands of llmd-admin over the      *)
(* files of the certs directory, the publication of the CA certificate to  *)
(* the cluster, and the server that loads it once when it starts.          *)
(*                                                                         *)
(* A command is a process of its own.  It may overlap with others and may  *)
(* stop at any point, with an error or because it is killed; os.WriteFile  *)
(* truncates the file and then writes it, so a stop in between leaves a    *)
(* file without a PEM block.  Keys are numbered as they are generated.     *)
(* "create" reads one file and is one step; so is the failure of any       *)
(* command before it has touched a file, which changes nothing.            *)
(*                                                                         *)
(* A publication is a pipeline of two processes: the first reads the       *)
(* certificate file, the second changes the Secret when it gets to it, and *)
(* commands, restarts and other publications may come in between.          *)
(***************************************************************************)
EXTENDS JWTAuth, FiniteSets

CONSTANTS
  Commands,     \* invocations of llmd-admin that may run at the same time
  Deploys,      \* publications that may be under way at the same time
  Usernames,    \* values of create's --name
  Lifetime,     \* the 24 hours of a token, in ticks of the clock
  MaxKeys,      \* bound on generated keys
  MaxTokens,    \* bound on tokens
  MaxTime       \* bound on the clock

ASSUME AdminAssumption ==
  /\ Lifetime \in Nat \ {0}
  /\ MaxKeys \in Nat /\ MaxTokens \in Nat /\ MaxTime \in Nat
  /\ None \notin Nat

VARIABLES
  files,        \* the certs directory
  cmd,          \* the commands that run
  keys,         \* how many keys were generated
  tokens,       \* the tokens "create" has printed
  publishing,   \* the file a publication has read and not applied yet, or None
  mounted,      \* the Secret with the CA certificate, as the pod sees it
  publicKey,    \* the running server's Authenticator.publicKey, or None
  now,          \* the time
  clean,        \* history: the last init that wrote ran alone to its end
  overlapped,   \* history: two inits, or two publications, ran at the same time
  served        \* history: the newest key a server has loaded, 0 for none

vars == <<files, cmd, keys, tokens, publishing, mounted, publicKey, now, clean, overlapped,
          served>>
toolVars == <<files, cmd, keys, clean, overlapped>>
serverVars == <<publishing, mounted, publicKey, served>>

-----------------------------------------------------------------------------
(* Files *)

Key == 1..MaxKeys

PEM == [type : {"RSA PRIVATE KEY"}, key : Key]
         \cup [type : {"CERTIFICATE"}, key : Key, by : Key, chain : Key \cup {None}]

\* A truncated file: pem.Decode finds no block.
Torn == [type |-> "none"]

PrivateKey(k) == [type |-> "RSA PRIVATE KEY", key |-> k]

\* A certificate for key k, signed with key by, followed by the certificate
\* of the CA chain unless it signs itself.
Certificate(k, by, chain) ==
  [type |-> "CERTIFICATE", key |-> k, by |-> by, chain |-> chain]

FileNames == {"llm-d-ca", "llm-d-key", "tls-cert", "tls-key"}

Holds(f, type) == f # None /\ f.type = type

\* x509.CreateCertificate refuses a signing key that is not the parent's.
SignerMatches(ca, caKey) == ca = caKey

PrivateKeyOutPath(op) == IF op = "init" THEN "llm-d-key" ELSE "tls-key"

\* Mutant: tls-cert saves its certificate in the place of the CA's.
CertOutPath_ca(op) == "llm-d-ca"

CertOutPath(op) == IF op = "init" THEN "llm-d-ca" ELSE "tls-cert"

-----------------------------------------------------------------------------
(* llmd-admin *)

\* What a command has in hand: the key it generated, the keys of the CA
\* certificate and of the private key it signs with, and whether an init has
\* had the files to itself so far (history).
Idle == [pc |-> "idle", op |-> None, key |-> None, ca |-> None, by |-> None,
         alone |-> FALSE]

Running(p) == cmd[p].pc # "idle"
Initializing(p) == Running(p) /\ cmd[p].op = "init"

\* CreateCertificate begins: a key pair is generated.
Begin(p, op, pc) ==
  LET others == {q \in Commands : Initializing(q)} IN
  /\ ~Running(p)
  /\ keys < MaxKeys
  /\ keys' = keys + 1
  /\ cmd' = [q \in Commands |->
               IF q = p
                 THEN [pc |-> pc, op |-> op, key |-> keys + 1, ca |-> None,
                       by |-> IF op = "init" THEN keys + 1 ELSE None,
                       alone |-> op = "init" /\ others = {}]
                 ELSE [cmd[q] EXCEPT !.alone = @ /\ op # "init"]]
  /\ overlapped' = (overlapped \/ (op = "init" /\ others # {}))
  /\ UNCHANGED <<files, clean, tokens, serverVars, now>>

\* "init": the CA certificate signs itself, no file is read.
RunInit(p) == Begin(p, "init", "openKey")

\* "tls-cert": the CA is loaded first.
RunTLSCert(p) == Begin(p, "tls-cert", "readCA")

\* A command goes on, or returns its error.
Proceed(p, ok, next) ==
  /\ cmd' = [cmd EXCEPT ![p] = IF ok THEN next ELSE Idle]
  /\ UNCHANGED <<files, keys, clean, overlapped, tokens, serverVars, now>>

ReadCA(p) ==
  LET f == files["llm-d-ca"] IN
  /\ cmd[p].pc = "readCA"
  /\ Proceed(p, Holds(f, "CERTIFICATE"),
             [cmd[p] EXCEPT !.pc = "readCAKey", !.ca = f.key])

\* The CA's key is read, maybe after an init has replaced both, and signs.
ReadCAKey(p) ==
  LET f == files["llm-d-key"] IN
  /\ cmd[p].pc = "readCAKey"
  /\ Proceed(p, Holds(f, "RSA PRIVATE KEY") /\ SignerMatches(cmd[p].ca, f.key),
             [cmd[p] EXCEPT !.pc = "openKey", !.by = f.key])

\* What the command saves: the key first, the certificate after it.
Target(p) == IF cmd[p].pc \in {"openKey", "writeKey"}
               THEN PrivateKeyOutPath(cmd[p].op) ELSE CertOutPath(cmd[p].op)

\* Mutant: the CA certificate to append is read again when it is needed.
Content_rereads(p) ==
  IF cmd[p].pc = "writeKey"
    THEN PrivateKey(cmd[p].key)
    ELSE Certificate(cmd[p].key, cmd[p].by,
                     IF Holds(files["llm-d-ca"], "CERTIFICATE") /\ cmd[p].op = "tls-cert"
                       THEN files["llm-d-ca"].key ELSE cmd[p].ca)

Content(p) ==
  IF cmd[p].pc = "writeKey"
    THEN PrivateKey(cmd[p].key)
    ELSE Certificate(cmd[p].key, cmd[p].by, cmd[p].ca)

\* os.WriteFile opens the file and truncates it ...
Open(p) ==
  /\ cmd[p].pc \in {"openKey", "openCert"}
  /\ files' = [files EXCEPT ![Target(p)] = Torn]
  /\ cmd' = [cmd EXCEPT ![p].pc = IF @ = "openKey" THEN "writeKey" ELSE "writeCert"]
  /\ clean' = (clean /\ cmd[p].op # "init")
  /\ UNCHANGED <<keys, overlapped, tokens, serverVars, now>>

\* Mutant: a private key that is there already is kept.
WriteFile_keepsKey(p) ==
  /\ cmd[p].pc \in {"writeKey", "writeCert"}
  /\ files' = [files EXCEPT ![Target(p)] =
                 IF cmd[p].pc = "writeKey" /\ cmd[p].op = "init" /\ cmd[p].key > 1
                   THEN PrivateKey(1) ELSE Content(p)]
  /\ cmd' = [cmd EXCEPT ![p] = IF @.pc = "writeKey" THEN [@ EXCEPT !.pc = "openCert"] ELSE Idle]
  /\ clean' = IF cmd[p].pc = "writeCert" /\ cmd[p].op = "init" THEN cmd[p].alone ELSE clean
  /\ UNCHANGED <<keys, overlapped, tokens, serverVars, now>>

\* ... and writes it.
WriteFile(p) ==
  /\ cmd[p].pc \in {"writeKey", "writeCert"}
  /\ files' = [files EXCEPT ![Target(p)] = Content(p)]
  /\ cmd' = [cmd EXCEPT ![p] = IF @.pc = "writeKey" THEN [@ EXCEPT !.pc = "openCert"] ELSE Idle]
  /\ clean' = IF cmd[p].pc = "writeCert" /\ cmd[p].op = "init" THEN cmd[p].alone ELSE clean
  /\ UNCHANGED <<keys, overlapped, tokens, serverVars, now>>

\* A command is killed or fails; init exits with status 0 all the same.
Stop(p) == Running(p) /\ Proceed(p, FALSE, Idle)

\* Mutant: the time of issue is rounded up.
GenerateJWT_rounded(k, name) ==
  [method |-> "RSA", key |-> k, issuer |-> ServerName, iat |-> now + 1,
   exp |-> now + Lifetime, username |-> name]

\* Mutant: the token has no expiry claim.
GenerateJWT_forever(k, name) ==
  [method |-> "RSA", key |-> k, issuer |-> ServerName, iat |-> now, exp |-> None,
   username |-> name]

GenerateJWT(k, name) ==
  [method |-> "RSA", key |-> k, issuer |-> ServerName, iat |-> now, exp |-> now + Lifetime,
   username |-> name]

\* "create": nothing is printed when there is no private key in the file.
Create(name) ==
  /\ Cardinality(tokens) < MaxTokens
  /\ Holds(files["llm-d-key"], "RSA PRIVATE KEY")
  /\ tokens' = tokens \cup {GenerateJWT(files["llm-d-key"].key, name)}
  /\ UNCHANGED <<toolVars, serverVars, now>>

-----------------------------------------------------------------------------
(* The cluster and the server *)

\* make deploy: "kubectl create --dry-run" reads the certificate file, whatever
\* it holds ...
ReadCertificate(d) ==
  /\ publishing[d] = None
  /\ files["llm-d-ca"] # None
  /\ publishing' = [publishing EXCEPT ![d] = files["llm-d-ca"]]
  /\ overlapped' = (overlapped \/ \E e \in Deploys : publishing[e] # None)
  /\ UNCHANGED <<files, cmd, keys, clean, tokens, mounted, publicKey, served, now>>

\* ... "kubectl apply" puts what was read in the Secret ...
ApplySecret(d) ==
  /\ publishing[d] # None
  /\ mounted' = publishing[d]
  /\ publishing' = [publishing EXCEPT ![d] = None]
  /\ UNCHANGED <<toolVars, tokens, publicKey, served, now>>

\* ... or it fails, or is killed.
ApplyFails(d) ==
  /\ publishing[d] # None
  /\ publishing' = [publishing EXCEPT ![d] = None]
  /\ UNCHANGED <<toolVars, tokens, mounted, publicKey, served, now>>

\* jwt.New: LoadPublicKey, once.  Without a certificate the process exits.
StartServer ==
  /\ publicKey = None
  /\ Holds(mounted, "CERTIFICATE")
  /\ publicKey' = mounted.key
  /\ served' = IF mounted.key > served THEN mounted.key ELSE served
  /\ UNCHANGED <<toolVars, tokens, publishing, mounted, now>>

StopServer ==
  /\ publicKey # None
  /\ publicKey' = None
  /\ UNCHANGED <<toolVars, tokens, publishing, mounted, served, now>>

Tick ==
  /\ now < MaxTime
  /\ now' = now + 1
  /\ UNCHANGED <<toolVars, tokens, serverVars>>

Init ==
  /\ files = [f \in FileNames |-> None]
  /\ cmd = [p \in Commands |-> Idle]
  /\ keys = 0
  /\ tokens = {}
  /\ publishing = [d \in Deploys |-> None]
  /\ mounted = None
  /\ publicKey = None
  /\ now = 0
  /\ clean = FALSE
  /\ overlapped = FALSE
  /\ served = 0

Next ==
  \/ \E p \in Commands :
       \/ RunInit(p) \/ RunTLSCert(p)
       \/ ReadCA(p) \/ ReadCAKey(p)
       \/ Open(p) \/ WriteFile(p) \/ Stop(p)
  \/ \E name \in Usernames : Create(name)
  \/ \E d \in Deploys : ReadCertificate(d) \/ ApplySecret(d) \/ ApplyFails(d)
  \/ StartServer \/ StopServer
  \/ Tick

Spec == Init /\ [][Next]_vars

-----------------------------------------------------------------------------
(* Properties *)

CommandPCs == {"idle", "readCA", "readCAKey", "openKey", "writeKey", "openCert", "writeCert"}
CommandStates ==
  [pc : CommandPCs, op : {None, "init", "tls-cert"}, key : Key \cup {None},
   ca : Key \cup {None}, by : Key \cup {None}, alone : BOOLEAN]
FileStates == PEM \cup {None, Torn}

TypeOK ==
  /\ files \in [FileNames -> FileStates]
  /\ cmd \in [Commands -> CommandStates]
  /\ keys \in 0..MaxKeys
  /\ \A t \in tokens : t.key \in 1..keys /\ t.iat \in 0..now
  /\ publishing \in [Deploys -> FileStates] /\ mounted \in FileStates
  /\ publicKey \in Key \cup {None}
  /\ now \in 0..MaxTime
  /\ clean \in BOOLEAN /\ overlapped \in BOOLEAN
  /\ served \in 0..MaxKeys

\* The server lets the bearer of t in.
Accepts(t) == publicKey # None /\ ValidateJWTWithKey(t, publicKey, now)

\* Once an init has run alone to its end, whatever state earlier, overlapping
\* or interrupted commands had left the files in, and the server runs with
\* the certificate it wrote, every token that create then makes is accepted
\* until it expires (cert.go: the key and the certificate are separate files,
\* written one after the other; admin.go: CreateAdminCerts).
FreshTokensWork ==
  /\ clean
  /\ Holds(files["llm-d-key"], "RSA PRIVATE KEY")
  /\ Holds(files["llm-d-ca"], "CERTIFICATE") /\ publicKey = files["llm-d-ca"].key
  => \A t \in tokens :
       t.key = files["llm-d-key"].key /\ NotExpired(t, now) => Accepts(t)

\* The certificate tls-cert saves is signed by the very CA whose certificate
\* is appended to it, although the CA's certificate and key are read one
\* after the other and an init may replace both in between, or have left
\* them torn (cert.go: the CA branch of CreateCertificate).
TLSChainVerifies ==
  Holds(files["tls-cert"], "CERTIFICATE") =>
    files["tls-cert"].by = files["tls-cert"].chain

\* Rotation revokes: when a server has loaded a key, no later one accepts
\* tokens of an older key.  Commands may be interrupted, servers restarted, and
\* a publication may apply what it read before any number of inits and restarts;
\* but no two inits and no two publications may be under way at the same time,
\* or the older one may come last (Makefile: deploy; keys.go: LoadPublicKey;
\* cert.go: CreateCertificate).
RetiredKeysStayRetired ==
  ~overlapped => \A t \in tokens : Accepts(t) => t.key = served

\* No token is accepted longer than a lifetime after it was made, however
\* often keys are rotated and servers restarted (admin/jwt.go: GenerateJWT;
\* keys.go: ValidateJWTWithKey).
NoTokenOutlivesItsLifetime ==
  \A t \in tokens : Accepts(t) => now < t.iat + Lifetime

=============================================================================
