-------------------------- MODULE AlertmanagerClient -------------------------
(***************************************************************************)
(* A client of an AlertManager (internal/alertmanager/client.go) and the   *)
(* credentials it works with.  The local cluster's client has a path to    *)
(* the token the kubelet keeps fresh, a spoke's has the token of its       *)
(* Secret.  Both have the CA certificates read when the client was made.   *)
(* Credentials are rotated in order: the new token or CA is at the client's *)
(* side before the AlertManager stops taking the old one.                  *)
(***************************************************************************)
EXTENDS Naturals, FiniteSets

CONSTANTS
  Tokens, CAs,
  LocalCARotates,  \* may the service CA be replaced while the process runs?
  MaxRotations,    \* bound: new tokens and new CAs
  MaxFaults        \* bound: failed reads and calls

None == "none"

ASSUME ClientAssumption ==
  /\ None \notin Tokens \cup CAs
  /\ LocalCARotates \in BOOLEAN
  /\ MaxRotations \in Nat /\ MaxFaults \in Nat

VARIABLES
  kind,       \* "local" or "spoke"
  source,     \* what the mounted files, or the Secret, hold: [url, token, ca]
  server,     \* the AlertManager: the tokens it takes and the CA of its certificate
  client,     \* none or one: [token, ca], token = None: read from the path
  call,       \* the GetAlerts under way, none or one: its token and its CAs
  result,     \* of the last GetAlerts
  rotations,  \* rotations so far
  faults      \* faults so far

vars == <<kind, source, server, client, call, result, rotations, faults>>

Init ==
  /\ kind \in {"local", "spoke"}
  /\ \E t \in Tokens, c \in CAs, url \in {"https", "other"} :
       /\ server = [tokens |-> {t}, ca |-> c]
       /\ \E bundle \in {{}, {c}} : source = [url |-> url, token |-> t, ca |-> bundle]
  /\ client = {} /\ call = {} /\ result = "none"
  /\ rotations = 0 /\ faults = 0

Fault == faults < MaxFaults /\ faults' = faults + 1
------------------------------------------------------------------------------
(* New and GetAlerts *)

\* Mutant: the token file is read once.
setDefaults_ReadToken(credentials) == credentials.token

\* A local client has no token of its own, but the path of the token file.
setDefaults(credentials) == IF kind = "local" THEN None ELSE credentials.token

\* The URL has to be one with https and the CA certificates readable.
New(credentials) ==
  IF credentials.url # "https" \/ credentials.ca = {} THEN {}
  ELSE {[token |-> setDefaults(credentials), ca |-> credentials.ca]}

\* newTargets makes the local client, once in a process; a restart ends its call.
Start ==
  /\ kind = "local"
  /\ IF client = {} THEN UNCHANGED faults ELSE Fault
  /\ client' = New(source) /\ call' = {}
  /\ UNCHANGED <<kind, source, server, result, rotations>>

\* Mutant: a spoke that is there is kept.
SetSpoke_Kept ==
  /\ kind = "spoke"
  /\ client' = IF client = {} THEN New(source) ELSE client
  /\ UNCHANGED <<kind, source, server, call, result, rotations, faults>>

\* Every Reconcile makes the spoke's client again, or removes it; a call under
\* way goes on with the client it has.
SetSpoke ==
  /\ kind = "spoke"
  /\ client' = New(source)
  /\ UNCHANGED <<kind, source, server, call, result, rotations, faults>>

\* The token of this call: the client's own, or what the file holds now.
BeginGetAlerts ==
  /\ call = {}
  /\ \E c \in client :
       call' = {[token |-> IF c.token # None THEN c.token ELSE source.token, ca |-> c.ca]}
  /\ UNCHANGED <<kind, source, server, client, result, rotations, faults>>

\* The token file cannot be read.
TokenUnread ==
  /\ call = {} /\ Fault
  /\ \E c \in client : c.token = None
  /\ result' = "unread"
  /\ UNCHANGED <<kind, source, server, client, call, rotations>>

\* The certificate is verified first, then AlertManager looks at the token.
EndGetAlerts ==
  /\ \E c \in call :
       result' = IF server.ca \notin c.ca THEN "untrusted"
                 ELSE IF c.token \notin server.tokens THEN "rejected" ELSE "ok"
  /\ call' = {}
  /\ UNCHANGED <<kind, source, server, client, rotations, faults>>

CallFails ==
  /\ call # {} /\ Fault
  /\ result' = "failed"
  /\ call' = {}
  /\ UNCHANGED <<kind, source, server, client, rotations>>
------------------------------------------------------------------------------
(* Rotation (external) *)

Rotate == rotations < MaxRotations /\ rotations' = rotations + 1

\* A new token is issued, and written to the file or the Secret.
IssueToken(t) ==
  /\ Rotate /\ t \notin server.tokens
  /\ source' = [source EXCEPT !.token = t]
  /\ server' = [server EXCEPT !.tokens = @ \cup {t}]
  /\ UNCHANGED <<kind, client, call, result, faults>>

\* Old tokens expire, long after the new one is in place: no call has one that
\* it read from the file.
ExpireTokens ==
  /\ server.tokens # {source.token}
  /\ kind = "local" => \A c \in call : c.token = source.token
  /\ server' = [server EXCEPT !.tokens = {source.token}]
  /\ UNCHANGED <<kind, source, client, call, result, rotations, faults>>

\* A new CA certificate joins the bundle.
IssueCA(c) ==
  /\ Rotate /\ source.ca # {} /\ c \notin source.ca
  /\ kind = "local" => LocalCARotates
  /\ source' = [source EXCEPT !.ca = @ \cup {c}]
  /\ UNCHANGED <<kind, server, client, call, result, faults>>

\* AlertManager gets a certificate of a CA in the bundle.
ReissueCertificate(c) ==
  /\ c \in source.ca /\ c # server.ca
  /\ server' = [server EXCEPT !.ca = c]
  /\ UNCHANGED <<kind, source, client, call, result, rotations, faults>>

\* Somebody corrects an unusable Secret.
Repair ==
  /\ source.url # "https" \/ source.ca = {}
  /\ source' = [source EXCEPT !.url = "https", !.ca = @ \cup {server.ca}]
  /\ UNCHANGED <<kind, server, client, call, result, rotations, faults>>
------------------------------------------------------------------------------
Rotation == \/ ExpireTokens \/ Repair
            \/ \E t \in Tokens : IssueToken(t)
            \/ \E c \in CAs : IssueCA(c) \/ ReissueCertificate(c)

Next == \/ Start \/ SetSpoke
        \/ BeginGetAlerts \/ TokenUnread \/ EndGetAlerts \/ CallFails
        \/ Rotation

Spec == Init /\ [][Next]_vars

\* The loop polls and AlertManager answers; a pod without a client is restarted,
\* a spoke is reconciled when its SpokeCluster changes and at every resync.
PollingSpec ==
  /\ Spec
  /\ WF_vars(BeginGetAlerts) /\ WF_vars(EndGetAlerts)
  /\ WF_vars(client = {} /\ Start) /\ WF_vars(SetSpoke)
  /\ WF_vars(Repair)
------------------------------------------------------------------------------
(* Properties *)

\* The local AlertManager never refuses a token, through any number of
\* rotations, though calls and rotations overlap (GetAlerts reads the file each
\* time), as long as no call outlives the token it has read (ExpireTokens).
LocalTokenFresh == kind = "local" => result # "rejected"

\* Whatever retrieval failed of (a rotated token or CA, an unusable Secret, a
\* file or call that failed), it succeeds again without a restart.
RetrievalHeals == result \in {"rejected", "untrusted", "unread", "failed"} ~> result = "ok"
==============================================================================
