---------------------- MODULE AlertmanagerClientProofs -----------------------
(* A theorem about the AlertManager client, for any number of rotations and faults. *)
EXTENDS AlertmanagerClient, TLAPS

\* The records have the fields of their Go counterparts.
TypeOK ==
  /\ kind \in {"local", "spoke"}
  /\ source \in [url : {"https", "other"}, token : Tokens, ca : SUBSET CAs]
  /\ server \in [tokens : SUBSET Tokens, ca : CAs]
  /\ client \subseteq [token : Tokens \cup {None}, ca : SUBSET CAs]
  /\ call \subseteq [token : Tokens, ca : SUBSET CAs]

\* The local client has no token of its own.  What the file holds is taken, and a
\* call under way has a token that is still taken.
TokensTaken ==
  /\ kind = "local" => \A c \in client : c.token = None
  /\ kind = "local" => \A c \in call : c.token \in server.tokens
  /\ source.token \in server.tokens

Inv == TypeOK /\ TokensTaken /\ LocalTokenFresh

LEMMA InitInv == Init => Inv
<1>. SUFFICES ASSUME Init PROVE Inv
  OBVIOUS
<1>1. PICK t \in Tokens, c \in CAs, url \in {"https", "other"}, bundle \in SUBSET CAs :
        server = [tokens |-> {t}, ca |-> c] /\ source = [url |-> url, token |-> t, ca |-> bundle]
  BY DEF Init
<1>2. /\ source \in [url : {"https", "other"}, token : Tokens, ca : SUBSET CAs]
      /\ server \in [tokens : SUBSET Tokens, ca : CAs]
      /\ source.token \in server.tokens
  BY <1>1
<1>. QED BY <1>2 DEF Init, Inv, TypeOK, TokensTaken, LocalTokenFresh

\* A client made of what the source holds.
LEMMA NewClient ==
  ASSUME TypeOK
  PROVE  /\ New(source) \subseteq [token : Tokens \cup {None}, ca : SUBSET CAs]
         /\ kind = "local" => \A c \in New(source) : c.token = None
BY DEF TypeOK, New, setDefaults

\* The steps of the client and its process.
LEMMA ClientStep ==
  ASSUME Inv, \/ Start \/ SetSpoke \/ BeginGetAlerts \/ TokenUnread \/ EndGetAlerts \/ CallFails
  PROVE  Inv'
<1>1. CASE Start
  BY <1>1, NewClient DEF Start, Inv, TypeOK, TokensTaken, LocalTokenFresh
<1>2. CASE SetSpoke
  BY <1>2, NewClient DEF SetSpoke, Inv, TypeOK, TokensTaken, LocalTokenFresh
<1>3. CASE BeginGetAlerts
  <2>1. PICK c \in client :
          call' = {[token |-> IF c.token # None THEN c.token ELSE source.token, ca |-> c.ca]}
    BY <1>3 DEF BeginGetAlerts
  <2>2. call' \subseteq [token : Tokens, ca : SUBSET CAs]
    BY <2>1 DEF Inv, TypeOK
  <2>3. kind = "local" => \A d \in call' : d.token = source.token
    BY <2>1 DEF Inv, TokensTaken
  <2>. QED BY <1>3, <2>2, <2>3 DEF BeginGetAlerts, Inv, TypeOK, TokensTaken, LocalTokenFresh
<1>4. CASE TokenUnread
  BY <1>4 DEF TokenUnread, Inv, TypeOK, TokensTaken, LocalTokenFresh
<1>5. CASE EndGetAlerts
  <2>1. kind = "local" => result' # "rejected"
    BY <1>5 DEF EndGetAlerts, Inv, TokensTaken
  <2>. QED BY <1>5, <2>1 DEF EndGetAlerts, Inv, TypeOK, TokensTaken, LocalTokenFresh
<1>6. CASE CallFails
  BY <1>6 DEF CallFails, Inv, TypeOK, TokensTaken, LocalTokenFresh
<1>. QED BY <1>1, <1>2, <1>3, <1>4, <1>5, <1>6

\* The steps of those who rotate tokens and certificates.
LEMMA RotationStep == Inv /\ Rotation => Inv'
<1>. SUFFICES ASSUME Inv, Rotation PROVE Inv'
  OBVIOUS
<1>. USE DEF Inv, TypeOK, TokensTaken, LocalTokenFresh
<1>1. CASE ExpireTokens
  BY <1>1 DEF ExpireTokens
<1>2. CASE Repair
  BY <1>2 DEF Repair
<1>3. ASSUME NEW t \in Tokens, IssueToken(t) PROVE Inv'
  BY <1>3 DEF IssueToken
<1>4. ASSUME NEW c \in CAs, IssueCA(c) PROVE Inv'
  BY <1>4 DEF IssueCA
<1>5. ASSUME NEW c \in CAs, ReissueCertificate(c) PROVE Inv'
  BY <1>5 DEF ReissueCertificate
<1>. QED BY <1>1, <1>2, <1>3, <1>4, <1>5 DEF Rotation

\* The local AlertManager never refuses the adapter's token, however often tokens
\* are rotated and wherever in a call that happens: every call reads the file, and
\* what it has read is taken until it ends (GetAlerts, setDefaults).
THEOREM TokenIsFresh == Spec => []LocalTokenFresh
<1>1. Inv /\ UNCHANGED vars => Inv'
  BY DEF vars, Inv, TypeOK, TokensTaken, LocalTokenFresh
<1>2. Inv /\ [Next]_vars => Inv'
  BY <1>1, ClientStep, RotationStep DEF Next
<1>3. Inv => LocalTokenFresh
  BY DEF Inv
<1>. QED BY <1>2, <1>3, InitInv, PTL DEF Spec
==============================================================================
