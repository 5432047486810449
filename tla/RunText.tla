------------------------------- MODULE RunText -------------------------------
(***************************************************************************)
(* The texts the adapter writes into an AgenticRun (internal/agenticrun,   *)
(* build.go and client.go), character by character: names and labels       *)
(* within their limits, target identities, the values in the prompt, and   *)
(* the alert's group.  RunNaming keeps a name apart into its parts; here   *)
(* the parts share the characters the limit leaves.  A text is a sequence  *)
(* of characters, the limits are constants, and a digest is injective.     *)
(***************************************************************************)
EXTENDS StableFingerprint

CONSTANTS
  MaxLabel,      \* maxLabelValueLen and targetIDMaxLen, 63
  HashLen,       \* startsAtHashLen, 8
  TargetHashLen, \* 12
  Digest(_, _),  \* the first n characters of the hex digest of a value
  Itoa(_),       \* a number as text, fmt's %d
  Alerts,        \* [alertname, namespace, severity, description, startsAt], and labels, all of them as bytes
  SpokeNames,    \* names of SpokeClusters
  MaxStops       \* bound: emergency stops

ASSUME TextAssumption ==
  /\ {MaxLabel, HashLen, TargetHashLen, MaxStops} \subseteq Nat \ {0}
  /\ HashLen + 3 <= MaxLabel /\ TargetHashLen + 3 <= MaxLabel
  /\ \A a \in Alerts :
       {a.alertname, a.namespace, a.severity, a.description} \subseteq Seq(STRING)

VARIABLES
  alert,   \* the alert
  spoke,   \* the name of the SpokeCluster it fires on; <<>> is the local cluster
  run,     \* the run built for it, none or one: [name, labels, request]
  taken    \* the names of its emergency-stopped runs

vars == <<alert, spoke, run, taken>>
------------------------------------------------------------------------------
(* Characters and pieces of text *)

Upper == {"A", "B"}
ToLower(s) ==
  [i \in DOMAIN s |-> CASE s[i] = "A" -> "a" [] s[i] = "B" -> "b" [] OTHER -> s[i]]

Punctuation == {"-", "_", "."}
invalidLabelChars == {" ", ":", "backtick", "zero-width", "control", "newline"}
invalidDNSChars == invalidLabelChars \cup Upper \cup {"_", "."}

ReplaceAllString(invalid, s) ==
  [i \in DOMAIN s |-> IF s[i] \in invalid THEN "-" ELSE s[i]]

Cut(s, n) == SubSeq(s, 1, IF Len(s) < n THEN Len(s) ELSE n)

\* strings.TrimLeft and TrimRight with "-_."
TrimRight(s) == SubSeq(s, 1, Max({0} \cup {i \in DOMAIN s : s[i] \notin Punctuation}))
TrimLeft(s)  == SubSeq(s, Min({Len(s) + 1} \cup {i \in DOMAIN s : s[i] \notin Punctuation}), Len(s))

truncateDNS(s, maxLen) == IF Len(s) <= maxLen THEN s ELSE TrimRight(Cut(s, maxLen))
------------------------------------------------------------------------------
(* Names *)

\* Mutant: the target identity is not hashed.
startsAtHash_TimeOnly(startsAt, targetID) == Digest(<<startsAt, <<>>>>, HashLen)

startsAtHash(startsAt, targetID) == Digest(<<startsAt, targetID>>, HashLen)

\* Mutant: one of the two hyphens is forgotten.
available_OneHyphen(ns) == Max({MaxLabel - Len(ns) - HashLen - 1, 1})

\* The characters left for the alert name; at least one, however long ns is.
available(ns) ==
  LET hyphens == IF ns = <<>> THEN 1 ELSE 2
      room    == MaxLabel - HashLen - hyphens
  IN  IF Len(ns) < room THEN room - Len(ns) ELSE 1

buildName(alertName, namespace, hash) ==
  LET name == ReplaceAllString(invalidDNSChars, ToLower(alertName))
      ns   == ReplaceAllString(invalidDNSChars, ToLower(namespace))
      tail == IF ns = <<>> THEN <<"-">> \o hash ELSE <<"-">> \o ns \o <<"-">> \o hash
  IN  IF Len(name \o tail) <= MaxLabel THEN name \o tail
      ELSE truncateDNS(name, available(ns)) \o tail

\* "-retry-" and i; "retry" is one character here.
suffix(i) == <<"-", "r", "-">> \o Itoa(i)

candidate(baseName, i) ==
  IF i = 0 THEN baseName
  ELSE truncateDNS(baseName, MaxLabel - Len(suffix(i))) \o suffix(i)

NextAvailableName(baseName, existingNames) ==
  candidate(baseName,
    CHOOSE i \in 0 .. Cardinality(existingNames) :
      /\ candidate(baseName, i) \notin existingNames
      /\ \A j \in 0 .. (i - 1) : candidate(baseName, j) \in existingNames)

\* "spoke-", two characters here.
spokeTargetPrefix == <<"s", "-">>

\* Mutant: what is hashed is what is kept of the name.
SpokeTargetID_HashOfCut(name) ==
  IF Len(spokeTargetPrefix) + Len(name) <= MaxLabel THEN spokeTargetPrefix \o name
  ELSE LET kept == Cut(name, MaxLabel - Len(spokeTargetPrefix) - TargetHashLen - 1)
       IN  spokeTargetPrefix \o kept \o <<"-">> \o Digest(kept, TargetHashLen)

\* What stands for a name that is too long.
shortened(name) ==
  Cut(name, MaxLabel - Len(spokeTargetPrefix) - TargetHashLen - 1)
    \o <<"-">> \o Digest(name, TargetHashLen)

SpokeTargetID(name) ==
  spokeTargetPrefix \o IF Len(spokeTargetPrefix) + Len(name) <= MaxLabel THEN name
                       ELSE shortened(name)

TargetIDs == {<<>>} \cup {SpokeTargetID(name) : name \in SpokeNames}

IsAlnum(c) == c \notin Punctuation \cup invalidLabelChars
IsLowerAlnum(c) == c \notin Punctuation \cup invalidDNSChars

\* n hex digits, other ones for every other value.
DigestsOf(values, n) ==
  \A v \in values :
    /\ Digest(v, n) \in Seq(STRING) /\ Len(Digest(v, n)) = n
    /\ \A i \in 1 .. n : IsLowerAlnum(Digest(v, n)[i])
    /\ \A w \in values : Digest(w, n) = Digest(v, n) => w = v

ASSUME DigestAssumption ==
  /\ DigestsOf(SpokeNames, TargetHashLen)
  /\ DigestsOf(({1, 2} \cup {a.startsAt : a \in Alerts}) \X TargetIDs, HashLen)

\* Digits, fewer than the hash has: runs are stopped less than ten million times.
ASSUME NumberAssumption ==
  \A i \in 1 .. MaxStops :
    /\ Itoa(i) \in Seq(STRING) /\ Len(Itoa(i)) \in 1 .. HashLen - 1
    /\ \A k \in 1 .. Len(Itoa(i)) : IsLowerAlnum(Itoa(i)[k])
    /\ \A j \in 1 .. MaxStops : Itoa(j) = Itoa(i) => j = i

\* Kubernetes has checked the names of SpokeClusters; and none is another's, shortened.
ASSUME SpokeAssumption ==
  \A name \in SpokeNames :
    /\ name \in Seq(STRING) /\ name # <<>> /\ IsAlnum(name[1]) /\ IsAlnum(Last(name))
    /\ \A i \in 1 .. Len(name) : name[i] \notin invalidLabelChars
    /\ \A other \in SpokeNames : name # shortened(other)
------------------------------------------------------------------------------
(* Labels and prompt *)

\* Mutant: the value is trimmed before it is cut.
sanitizeLabelValue_TrimFirst(s) ==
  Cut(TrimRight(TrimLeft(ReplaceAllString(invalidLabelChars, s))), MaxLabel)

sanitizeLabelValue(s) ==
  TrimRight(TrimLeft(Cut(ReplaceAllString(invalidLabelChars, s), MaxLabel)))

\* Position i is in a run of three or more backticks.
InFence(s, i) ==
  \E a \in 1 .. i, b \in i .. Len(s) : b - a >= 2 /\ \A k \in a .. b : s[k] = "backtick"

\* The j-th of a set of positions, and the characters of s at these positions.
Nth(kept, j) == CHOOSE i \in kept : Cardinality(kept \cap (1 .. i)) = j
Keep(s, kept) == [j \in 1 .. Cardinality(kept) |-> s[Nth(kept, j)]]

\* backtickRun.ReplaceAllString(s, "")
RemoveFences(s) == Keep(s, {i \in DOMAIN s : ~InFence(s, i)})

stripped(s) == Keep(s, {i \in DOMAIN s : s[i] \notin {"control", "zero-width"}})

\* Mutant: backticks first, invisible characters after.
sanitizePromptValue_Swapped(s) == stripped(RemoveFences(s))

sanitizePromptValue(s) == RemoveFences(stripped(s))

\* The labels made of the alert's; the others are hex digits and a constant.
buildLabels(a, stableFingerprint) ==
  [dedupFingerprint |-> stableFingerprint,
   alertName        |-> sanitizeLabelValue(ToLower(a.alertname)),
   severity         |-> sanitizeLabelValue(a.severity)]

\* The alert's values in the request; the summary and the runbook URL are
\* treated as the description is.
buildRequest(a) == {sanitizePromptValue(s) :
                      s \in {a.alertname, a.severity, a.namespace, a.description}}

targetID == IF spoke = <<>> THEN <<>> ELSE SpokeTargetID(spoke)

BuildForTarget(a, id, order) ==
  [name    |-> buildName(a.alertname, a.namespace, startsAtHash(a.startsAt, id)),
   labels  |-> buildLabels(a, StableFingerprint(a.labels, order)),
   request |-> buildRequest(a)]
------------------------------------------------------------------------------
Init ==
  /\ alert \in Alerts
  /\ spoke \in SpokeNames \cup {<<>>}
  /\ run = {}
  /\ taken = {}

Build ==
  /\ run = {}
  /\ \E order \in RangeOrders(alert.labels) : run' = {BuildForTarget(alert, targetID, order)}
  /\ UNCHANGED <<alert, spoke, taken>>

\* The run is emergency-stopped and the alert still fires: the next run is the
\* same but for its name.
Replace ==
  /\ Cardinality(taken) < MaxStops
  /\ \E p \in run, order \in RangeOrders(alert.labels) :
       LET base == BuildForTarget(alert, targetID, order) IN
         /\ taken' = taken \cup {p.name}
         /\ run' = {[base EXCEPT !.name = NextAvailableName(base.name, taken')]}
  /\ UNCHANGED <<alert, spoke>>

Next == Build \/ Replace

Spec == Init /\ [][Next]_vars
------------------------------------------------------------------------------
(* Properties *)

\* A value Kubernetes accepts as a label, and with lower case only as a name.
LabelValue(s) ==
  /\ Len(s) <= MaxLabel
  /\ \A i \in DOMAIN s : s[i] \notin invalidLabelChars
  /\ s # <<>> => IsAlnum(s[1]) /\ IsAlnum(Last(s))
DNSName(s) ==
  /\ s # <<>> /\ IsAlnum(s[1]) /\ IsAlnum(Last(s))
  /\ \A i \in DOMAIN s : s[i] \notin invalidDNSChars

ShortNamespace == Len(alert.namespace) + HashLen + 3 <= MaxLabel
PlainAlertName == alert.alertname # <<>> /\ IsAlnum(alert.alertname[1])

\* The name of a run, and of each replacement, is a DNS name within the limit,
\* whatever has to be cut, if the alert's name begins with a letter or a digit
\* and the namespace leaves it a character (buildName, NextAvailableName).
NameUsable ==
  ShortNamespace /\ PlainAlertName =>
    \A p \in run : DNSName(p.name) /\ Len(p.name) <= MaxLabel /\ p.name \notin taken

\* Before any replacement the same alert on another target, or at another time,
\* has another name: the digest is never cut (buildName).
NameTellsApart ==
  taken = {} => \A p \in run : \A other \in SpokeNames \cup {<<>>}, time \in {1, 2} :
    LET id == IF other = <<>> THEN <<>> ELSE SpokeTargetID(other)
    IN  p.name = buildName(alert.alertname, alert.namespace, startsAtHash(time, id))
          => other = spoke /\ time = alert.startsAt

\* The identity of a spoke is a label value, is not "local", and no two spokes
\* share it, long names included (SpokeTargetID).
TargetIDUnique ==
  spoke # <<>> =>
    /\ LabelValue(targetID) /\ targetID # <<"l", "o", "c", "a", "l">>
    /\ \A other \in SpokeNames : SpokeTargetID(other) = targetID => other = spoke

\* The labels made of an alert's texts are accepted, whatever those hold
\* (sanitizeLabelValue cuts before it trims).
LabelsAccepted == \A p \in run : LabelValue(p.labels.alertName) /\ LabelValue(p.labels.severity)

\* No text of an alert brings an invisible character or a code fence into the
\* prompt, not even one that invisible characters kept apart
\* (sanitizePromptValue).
PromptClean ==
  \A p \in run : \A s \in p.request : \A i \in DOMAIN s :
    s[i] \notin {"control", "zero-width"} /\ ~InFence(s, i)

Visible(labels) == [k \in DOMAIN labels \ ignoredLabels |-> labels[k]]

\* An alert's group, its labels read in some order.
GroupOf == [labels \in {a.labels : a \in Alerts} |->
              StableFingerprint(labels, CHOOSE order \in RangeOrders(labels) : TRUE)]

\* An alert's group is the same for every run built for it, whatever order the
\* range over its labels has each time (sort.Strings in StableFingerprint).
GroupIsStable == \A p \in run : p.labels.dedupFingerprint = GroupOf[alert.labels]

\* Two alerts are in one group exactly if they have the same labels besides the
\* ignored ones: no key and value can be read as another key and value (the
\* length before each in StableFingerprint).
GroupIsExact ==
  \A p \in run : \A other \in DOMAIN GroupOf :
    GroupOf[other] = p.labels.dedupFingerprint <=> Visible(other) = Visible(alert.labels)
==============================================================================
