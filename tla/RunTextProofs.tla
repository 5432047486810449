---------------------------- MODULE RunTextProofs ----------------------------
(***************************************************************************)
(* Theorems about the texts the adapter writes, for alerts and spokes with *)
(* texts of any length and for any limit.                                  *)
(***************************************************************************)
EXTENDS RunText, SequenceTheorems, FiniteSetTheorems, WellFoundedInduction, TLAPS

\* Characters are strings.  The ones the code writes are named for the provers.
Char == STRING \cup {"-", "a", "b", "r", "s"}

Text == Seq(Char)
------------------------------------------------------------------------------
(* Greatest and least positions *)

\* A non-empty set of natural numbers has a least element.
LEMMA LeastNatural ==
  ASSUME NEW S \in SUBSET Nat, S # {}
  PROVE  \E i \in S : \A j \in S : i <= j
<1>. DEFINE R == {ss \in Nat \X Nat : ss[1] < ss[2]}
<1>1. IsWellFoundedOn(R, Nat)
  BY NatLessThanWellFounded, Zenon DEF OpToRel
<1>2. PICK i \in S : \A j \in S : ~ (<<j, i>> \in R)
  <2>. HIDE DEF R
  <2>. QED BY <1>1, WFMin
<1>3. ASSUME NEW j \in S PROVE i <= j
  <2>1. <<j, i>> \in Nat \X Nat /\ <<j, i>>[1] = j /\ <<j, i>>[2] = i
    OBVIOUS
  <2>2. ~ (j < i)
    BY <1>2, <2>1
  <2>. QED BY <2>2
<1>. QED BY <1>3

LEMMA MinIsLeast ==
  ASSUME NEW S \in SUBSET Nat, S # {}
  PROVE  Min(S) \in S /\ \A i \in S : Min(S) <= i
BY LeastNatural DEF Min

LEMMA MaxIsGreatest ==
  ASSUME NEW n \in Nat, NEW S \in SUBSET (0 .. n), S # {}
  PROVE  Max(S) \in S /\ \A i \in S : i <= Max(S)
<1>. DEFINE D == {d \in 0 .. n : n - d \in S}
<1>1. PICK i \in S : TRUE
  OBVIOUS
<1>2. D \in SUBSET Nat /\ n - i \in D
  OBVIOUS
<1>3. PICK k \in D : \A d \in D : k <= d
  <2>1. D # {}
    BY <1>2
  <2>. QED BY <1>2, <2>1, LeastNatural
<1>4. \A y \in S : n - y \in D
  OBVIOUS
<1>5. n - k \in S /\ \A y \in S : n - k >= y
  BY <1>3, <1>4
<1>6. \E x \in S : \A y \in S : x >= y
  BY <1>5
<1>. QED BY <1>6 DEF Max
------------------------------------------------------------------------------
(* Pieces of text *)

\* A function on the first n positions is a text of n characters.
LEMMA FunctionText ==
  ASSUME NEW n \in Nat, NEW f \in [1 .. n -> Char]
  PROVE  f \in Text /\ Len(f) = n
<1>1. f \in Seq(Char)
  BY SeqDef
<1>. QED BY <1>1, LenProperties DEF Text

LEMMA CutText ==
  ASSUME NEW s \in Text, NEW n \in Int
  PROVE  /\ Cut(s, n) \in Text
         /\ Len(Cut(s, n)) = IF n < 0 THEN 0 ELSE IF Len(s) < n THEN Len(s) ELSE n
         /\ \A i \in 1 .. Len(Cut(s, n)) : i \in 1 .. Len(s) /\ Cut(s, n)[i] = s[i]
<1>. DEFINE m == IF Len(s) < n THEN Len(s) ELSE n
<1>1. Len(s) \in Nat /\ \A i \in 1 .. Len(s) : s[i] \in Char
  BY DEF Text
<1>2. m \in Int /\ m <= Len(s) /\ 1 \in Int
  BY <1>1
<1>3. \A i \in 1 .. m : s[i] \in Char
  BY <1>1, <1>2
<1>4. /\ SubSeq(s, 1, m) \in Text
      /\ Len(SubSeq(s, 1, m)) = IF 1 <= m THEN m - 1 + 1 ELSE 0
      /\ \A i \in 1 .. m - 1 + 1 : SubSeq(s, 1, m)[i] = s[1 + i - 1]
  <2>. HIDE DEF m
  <2>. QED BY <1>2, <1>3, SubSeqProperties DEF Text
<1>. QED BY <1>1, <1>2, <1>4 DEF Cut

LEMMA ReplacedText ==
  ASSUME NEW s \in Text, NEW invalid, "-" \notin invalid
  PROVE  /\ ReplaceAllString(invalid, s) \in Text
         /\ Len(ReplaceAllString(invalid, s)) = Len(s)
         /\ \A i \in 1 .. Len(s) : ReplaceAllString(invalid, s)[i] \notin invalid
         /\ \A i \in 1 .. Len(s) : s[i] \notin invalid => ReplaceAllString(invalid, s)[i] = s[i]
<1>1. Len(s) \in Nat /\ DOMAIN s = 1 .. Len(s) /\ \A i \in 1 .. Len(s) : s[i] \in Char
  BY DEF Text
<1>2. ReplaceAllString(invalid, s) \in [1 .. Len(s) -> Char]
  <2>1. "-" \in Char
    BY DEF Char
  <2>2. \A i \in 1 .. Len(s) : (IF s[i] \in invalid THEN "-" ELSE s[i]) \in Char
    BY <1>1, <2>1
  <2>. QED BY <1>1, <2>2 DEF ReplaceAllString
<1>. QED BY <1>1, <1>2, FunctionText DEF ReplaceAllString

LEMMA LowerText ==
  ASSUME NEW s \in Text
  PROVE  ToLower(s) \in Text /\ Len(ToLower(s)) = Len(s)
<1>1. Len(s) \in Nat /\ DOMAIN s = 1 .. Len(s) /\ \A i \in 1 .. Len(s) : s[i] \in Char
  BY DEF Text
<1>2. ToLower(s) \in [1 .. Len(s) -> Char]
  <2>1. "a" \in Char /\ "b" \in Char
    BY DEF Char
  <2>2. \A i \in 1 .. Len(s) :
          (CASE s[i] = "A" -> "a" [] s[i] = "B" -> "b" [] OTHER -> s[i]) \in Char
    BY <1>1, <2>1
  <2>. QED BY <1>1, <2>2 DEF ToLower
<1>. QED BY <1>1, <1>2, FunctionText

\* TrimRight keeps a beginning of the text, which ends in no punctuation.
LEMMA TrimmedRight ==
  ASSUME NEW s \in Text
  PROVE  /\ TrimRight(s) \in Text /\ Len(TrimRight(s)) <= Len(s)
         /\ \A i \in 1 .. Len(TrimRight(s)) : TrimRight(s)[i] = s[i]
         /\ TrimRight(s) # <<>> => TrimRight(s)[Len(TrimRight(s))] \notin Punctuation
         /\ Len(s) >= 1 /\ s[1] \notin Punctuation => Len(TrimRight(s)) >= 1
<1>. DEFINE S == {0} \cup {i \in DOMAIN s : s[i] \notin Punctuation}
            m == Max(S)
<1>1. Len(s) \in Nat /\ DOMAIN s = 1 .. Len(s) /\ \A i \in 1 .. Len(s) : s[i] \in Char
  BY DEF Text
<1>2. m \in S /\ \A i \in S : i <= m
  <2>1. S \in SUBSET (0 .. Len(s)) /\ S # {}
    BY <1>1
  <2>. QED BY <1>1, <2>1, MaxIsGreatest
<1>3. /\ m \in 0 .. Len(s) /\ (m # 0 => s[m] \notin Punctuation)
      /\ Len(s) >= 1 /\ s[1] \notin Punctuation => 1 <= m
  <2>. HIDE DEF m
  <2>. QED BY <1>1, <1>2
<1>4. \A i \in 1 .. m : s[i] \in Char
  BY <1>1, <1>3
<1>5. /\ SubSeq(s, 1, m) \in Text
      /\ Len(SubSeq(s, 1, m)) = IF 1 <= m THEN m - 1 + 1 ELSE 0
      /\ \A i \in 1 .. m - 1 + 1 : SubSeq(s, 1, m)[i] = s[1 + i - 1]
  <2>. HIDE DEF m
  <2>. QED BY <1>3, <1>4, SubSeqProperties DEF Text
<1>6. TrimRight(s) = SubSeq(s, 1, m)
  BY DEF TrimRight
<1>. QED
  <2>. HIDE DEF m
  <2>. QED BY <1>1, <1>3, <1>5, <1>6, EmptySeq DEF Text

\* TrimLeft keeps an end of the text, which begins with no punctuation.
LEMMA TrimmedLeft ==
  ASSUME NEW s \in Text
  PROVE  /\ TrimLeft(s) \in Text /\ Len(TrimLeft(s)) <= Len(s)
         /\ \A i \in 1 .. Len(TrimLeft(s)) : \E k \in 1 .. Len(s) : TrimLeft(s)[i] = s[k]
         /\ TrimLeft(s) # <<>> => TrimLeft(s)[1] \notin Punctuation
<1>. DEFINE S == {Len(s) + 1} \cup {i \in DOMAIN s : s[i] \notin Punctuation}
            m == Min(S)
            n == Len(s)
<1>1. n \in Nat /\ DOMAIN s = 1 .. n /\ \A i \in 1 .. n : s[i] \in Char
  BY DEF Text
<1>2. m \in S
  <2>1. S \in SUBSET Nat /\ S # {}
    BY <1>1
  <2>. QED BY <2>1, MinIsLeast
<1>3. m \in 1 .. n + 1 /\ (m # n + 1 => s[m] \notin Punctuation)
  <2>. HIDE DEF m
  <2>. QED BY <1>1, <1>2
<1>4. \A i \in m .. n : s[i] \in Char
  BY <1>1, <1>3
<1>5. /\ SubSeq(s, m, n) \in Text
      /\ Len(SubSeq(s, m, n)) = IF m <= n THEN n - m + 1 ELSE 0
      /\ \A i \in 1 .. n - m + 1 : SubSeq(s, m, n)[i] = s[m + i - 1]
  <2>1. m \in Int /\ n \in Int
    BY <1>1, <1>3
  <2>. HIDE DEF m, n
  <2>. QED BY <1>4, <2>1, SubSeqProperties DEF Text
<1>6. TrimLeft(s) = SubSeq(s, m, n)
  BY DEF TrimLeft
<1>7. /\ Len(TrimLeft(s)) <= n
      /\ \A i \in 1 .. Len(TrimLeft(s)) : m + i - 1 \in 1 .. n /\ TrimLeft(s)[i] = s[m + i - 1]
      /\ TrimLeft(s) # <<>> => TrimLeft(s)[1] = s[m] /\ m <= n
  <2>. HIDE DEF m, n
  <2>. QED BY <1>1, <1>3, <1>5, <1>6, EmptySeq DEF Text
<1>. QED
  <2>1. \A i \in 1 .. Len(TrimLeft(s)) : \E k \in 1 .. n : TrimLeft(s)[i] = s[k]
    <3>. HIDE DEF m, n
    <3>. QED BY <1>7
  <2>2. TrimLeft(s) # <<>> => TrimLeft(s)[1] \notin Punctuation
    <3>. HIDE DEF m, n
    <3>. QED BY <1>1, <1>3, <1>7
  <2>3. TrimLeft(s) \in Text
    BY <1>5, <1>6
  <2>. QED BY <1>7, <2>1, <2>2, <2>3
------------------------------------------------------------------------------
(* Labels *)

\* Whatever an alert says, sanitizeLabelValue makes a label value of it.
LEMMA SanitizedLabel ==
  ASSUME NEW s \in Text
  PROVE  LabelValue(sanitizeLabelValue(s))
<1>. DEFINE r == ReplaceAllString(invalidLabelChars, s)
            c == Cut(r, MaxLabel)
            u == TrimLeft(c)
            v == TrimRight(u)
<1>1. r \in Text /\ \A i \in 1 .. Len(r) : r[i] \notin invalidLabelChars
  BY ReplacedText DEF invalidLabelChars
<1>2. /\ c \in Text /\ Len(c) <= MaxLabel
      /\ \A i \in 1 .. Len(c) : c[i] \notin invalidLabelChars
  <2>1. MaxLabel \in Nat
    BY TextAssumption
  <2>2. Len(r) \in Nat
    BY <1>1 DEF Text
  <2>. HIDE DEF r
  <2>. QED BY <1>1, <2>1, <2>2, CutText
<1>3. /\ u \in Text /\ Len(u) <= Len(c)
      /\ \A i \in 1 .. Len(u) : u[i] \notin invalidLabelChars
      /\ u # <<>> => u[1] \notin Punctuation
  <2>. HIDE DEF c
  <2>. QED BY <1>2, TrimmedLeft
<1>4. /\ v \in Text /\ Len(v) <= Len(u)
      /\ \A i \in 1 .. Len(v) : v[i] = u[i]
      /\ v # <<>> => v[Len(v)] \notin Punctuation
  <2>. HIDE DEF u
  <2>. QED BY <1>3, TrimmedRight
<1>5. /\ Len(v) \in Nat /\ Len(u) \in Nat /\ Len(c) \in Nat /\ MaxLabel \in Nat
      /\ DOMAIN v = 1 .. Len(v)
      /\ v # <<>> => Len(v) >= 1 /\ u # <<>>
  <2>1. Len(v) \in Nat /\ Len(u) \in Nat /\ Len(c) \in Nat /\ DOMAIN v = 1 .. Len(v)
    <3>. HIDE DEF v, u, c
    <3>. QED BY <1>2, <1>3, <1>4 DEF Text
  <2>2. v # <<>> => Len(v) >= 1
    <3>. HIDE DEF v
    <3>. QED BY <1>4, EmptySeq DEF Text
  <2>3. u = <<>> => Len(u) = 0
    OBVIOUS
  <2>. HIDE DEF v, u, c
  <2>. QED BY <1>4, <2>1, <2>2, <2>3, TextAssumption
<1>6. LabelValue(v)
  <2>. HIDE DEF v, u, c
  <2>. QED BY <1>2, <1>3, <1>4, <1>5 DEF LabelValue, IsAlnum, Last
<1>. QED BY <1>6 DEF sanitizeLabelValue

\* A run is made of its alert and target; before any stop it has their name.
BuiltInv ==
  /\ alert \in Alerts /\ spoke \in SpokeNames \cup {<<>>}
  /\ \A p \in run :
       /\ p.labels.alertName = sanitizeLabelValue(ToLower(alert.alertname))
       /\ p.labels.severity = sanitizeLabelValue(alert.severity)
       /\ p.request = buildRequest(alert)
       /\ taken = {} => p.name = buildName(alert.alertname, alert.namespace,
                                           startsAtHash(alert.startsAt, targetID))

LEMMA BuiltInvariant == Spec => []BuiltInv
<1>1. Init => BuiltInv
  BY DEF Init, BuiltInv
<1>2. BuiltInv /\ [Next]_vars => BuiltInv'
  <2>. SUFFICES ASSUME BuiltInv, [Next]_vars PROVE BuiltInv'
    OBVIOUS
  <2>1. CASE Build
    BY <2>1 DEF Build, BuildForTarget, buildLabels, BuiltInv, targetID
  <2>2. CASE Replace
    <3>1. taken' # {} /\ UNCHANGED <<alert, spoke>>
      BY <2>2 DEF Replace
    <3>2. PICK order \in RangeOrders(alert.labels) : \E name :
            run' = {[BuildForTarget(alert, targetID, order) EXCEPT !.name = name]}
      BY <2>2 DEF Replace
    <3>. QED BY <3>1, <3>2 DEF BuildForTarget, buildLabels, BuiltInv
  <2>3. CASE UNCHANGED vars
    BY <2>3 DEF vars, BuiltInv, targetID
  <2>. QED BY <2>1, <2>2, <2>3 DEF Next
<1>. QED BY <1>1, <1>2, PTL DEF Spec

\* What an alert says is text.
LEMMA AlertText ==
  ASSUME NEW a \in Alerts
  PROVE  {a.alertname, a.namespace, a.severity, a.description} \subseteq Text
<1>1. STRING \subseteq Char
  BY DEF Char
<1>. QED BY <1>1, TextAssumption, SeqMonotonic DEF Text

\* The API server accepts the labels of every run and every replacement, whatever
\* characters and however many of them the alert's name and severity have
\* (sanitizeLabelValue cuts before it trims).
THEOREM LabelsAreAccepted == Spec => []LabelsAccepted
<1>1. BuiltInv => LabelsAccepted
  <2>. SUFFICES ASSUME BuiltInv, NEW p \in run
                PROVE  LabelValue(p.labels.alertName) /\ LabelValue(p.labels.severity)
    BY DEF LabelsAccepted
  <2>1. alert.alertname \in Text /\ alert.severity \in Text
    BY AlertText DEF BuiltInv
  <2>2. ToLower(alert.alertname) \in Text
    BY <2>1, LowerText
  <2>. QED BY <2>1, <2>2, SanitizedLabel DEF BuiltInv
<1>. QED BY <1>1, BuiltInvariant, PTL
------------------------------------------------------------------------------
(* Target identities *)

LEMMA JoinedText ==
  ASSUME NEW a \in Text, NEW b \in Text
  PROVE  /\ a \o b \in Text /\ Len(a) \in Nat /\ Len(b) \in Nat /\ Len(a \o b) = Len(a) + Len(b)
         /\ \A i \in 1 .. Len(a) : (a \o b)[i] = a[i]
         /\ \A i \in 1 .. Len(b) : (a \o b)[Len(a) + i] = b[i]
<1>1. Len(a) \in Nat /\ Len(b) \in Nat
  BY DEF Text
<1>2. /\ a \o b \in Text /\ Len(a \o b) = Len(a) + Len(b)
      /\ \A i \in 1 .. Len(a) + Len(b) :
           (a \o b)[i] = IF i <= Len(a) THEN a[i] ELSE b[i - Len(a)]
  BY ConcatProperties DEF Text
<1>3. ASSUME NEW i \in 1 .. Len(b) PROVE (a \o b)[Len(a) + i] = b[i]
  <2>1. Len(a) + i \in 1 .. Len(a) + Len(b) /\ ~ (Len(a) + i <= Len(a)) /\ Len(a) + i - Len(a) = i
    BY <1>1
  <2>. QED BY <1>2, <2>1
<1>. QED BY <1>1, <1>2, <1>3

\* Texts that are equal after beginnings of one length are equal.
LEMMA SameEnd ==
  ASSUME NEW a \in Text, NEW b \in Text, NEW c \in Text, NEW d \in Text,
         Len(a) = Len(c), a \o b = c \o d
  PROVE  b = d
<1>1. /\ Len(a) \in Nat /\ Len(b) \in Nat /\ Len(a \o b) = Len(a) + Len(b)
      /\ \A i \in 1 .. Len(b) : (a \o b)[Len(a) + i] = b[i]
  BY JoinedText
<1>2. /\ Len(d) \in Nat /\ Len(c \o d) = Len(c) + Len(d)
      /\ \A i \in 1 .. Len(d) : (c \o d)[Len(c) + i] = d[i]
  BY JoinedText
<1>3. Len(b) = Len(d)
  BY <1>1, <1>2
<1>4. \A i \in 1 .. Len(b) : b[i] = d[i]
  BY <1>1, <1>2, <1>3
<1>. QED BY <1>3, <1>4, SeqEqual DEF Text

\* The names of SpokeClusters and their digests.
LEMMA SpokeText ==
  ASSUME NEW name \in SpokeNames
  PROVE  /\ name \in Text /\ Len(name) \in Nat \ {0}
         /\ IsAlnum(name[1]) /\ IsAlnum(name[Len(name)])
         /\ \A i \in 1 .. Len(name) : name[i] \notin invalidLabelChars
         /\ Digest(name, TargetHashLen) \in Text
         /\ Len(Digest(name, TargetHashLen)) = TargetHashLen
         /\ \A i \in 1 .. TargetHashLen : IsAlnum(Digest(name, TargetHashLen)[i])
         /\ \A other \in SpokeNames :
              Digest(other, TargetHashLen) = Digest(name, TargetHashLen) => other = name
<1>1. STRING \subseteq Char
  BY DEF Char
<1>2. /\ name \in Seq(STRING) /\ name # <<>> /\ IsAlnum(name[1]) /\ IsAlnum(name[Len(name)])
      /\ \A i \in 1 .. Len(name) : name[i] \notin invalidLabelChars
  BY SpokeAssumption DEF Last
<1>3. name \in Text /\ Len(name) \in Nat \ {0}
  BY <1>1, <1>2, SeqMonotonic, EmptySeq DEF Text
<1>4. /\ Digest(name, TargetHashLen) \in Seq(STRING)
      /\ Len(Digest(name, TargetHashLen)) = TargetHashLen
      /\ \A i \in 1 .. TargetHashLen : IsAlnum(Digest(name, TargetHashLen)[i])
      /\ \A other \in SpokeNames :
           Digest(other, TargetHashLen) = Digest(name, TargetHashLen) => other = name
  BY DigestAssumption DEF DigestsOf, IsAlnum, IsLowerAlnum, invalidDNSChars
<1>5. Digest(name, TargetHashLen) \in Text
  BY <1>1, <1>4, SeqMonotonic DEF Text
<1>. QED BY <1>2, <1>3, <1>4, <1>5

Long(name) == Len(spokeTargetPrefix) + Len(name) > MaxLabel

\* What comes before the digest of a long name, which it leaves room for.
keptOf(name) == Cut(name, MaxLabel - Len(spokeTargetPrefix) - TargetHashLen - 1) \o <<"-">>

\* A long name is shortened to the characters an identity may still have.
LEMMA ShortenedText ==
  ASSUME NEW name \in SpokeNames, Long(name)
  PROVE  /\ shortened(name) = keptOf(name) \o Digest(name, TargetHashLen)
         /\ keptOf(name) \in Text /\ Len(keptOf(name)) = MaxLabel - TargetHashLen - 2
         /\ shortened(name) \in Text /\ Len(shortened(name)) = MaxLabel - 2
         /\ \A i \in 1 .. Len(shortened(name)) : shortened(name)[i] \notin invalidLabelChars
         /\ IsAlnum(shortened(name)[Len(shortened(name))])
<1>. DEFINE n == MaxLabel - Len(spokeTargetPrefix) - TargetHashLen - 1
            c == Cut(name, n)
            h == <<"-">>
            d == Digest(name, TargetHashLen)
            e == c \o h
<1>1. Len(spokeTargetPrefix) = 2
  BY DEF spokeTargetPrefix
<1>2. /\ MaxLabel \in Nat /\ TargetHashLen \in Nat \ {0} /\ n \in Nat
      /\ n = MaxLabel - TargetHashLen - 3
  BY <1>1, TextAssumption
<1>3. name \in Text /\ Len(name) \in Nat /\ n <= Len(name)
  BY <1>1, <1>2, SpokeText DEF Long
<1>4. /\ c \in Text /\ Len(c) = n
      /\ \A i \in 1 .. n : c[i] \notin invalidLabelChars
  <2>. HIDE DEF n
  <2>. QED BY <1>2, <1>3, CutText, SpokeText
<1>5. h \in Text /\ Len(h) = 1 /\ h[1] = "-" /\ "-" \notin invalidLabelChars
  BY DEF Text, Char, invalidLabelChars
<1>6. /\ e \in Text /\ Len(e) = n + 1
      /\ \A i \in 1 .. n + 1 : e[i] \notin invalidLabelChars
  <2>. HIDE DEF n, c, h
  <2>1. /\ e \in Text /\ Len(e) = n + 1
        /\ \A i \in 1 .. n : e[i] = c[i]
        /\ e[n + 1] = h[1]
    <3>1. /\ c \o h \in Text /\ Len(c \o h) = Len(c) + Len(h)
          /\ \A i \in 1 .. Len(c) : (c \o h)[i] = c[i]
          /\ \A i \in 1 .. Len(h) : (c \o h)[Len(c) + i] = h[i]
      BY <1>4, <1>5, JoinedText
    <3>. QED BY <1>2, <1>4, <1>5, <3>1
  <2>2. \A i \in 1 .. n + 1 : i \in 1 .. n \/ i = n + 1
    BY <1>2
  <2>. HIDE DEF e
  <2>. QED BY <1>2, <1>4, <1>5, <2>1, <2>2
<1>7. /\ d \in Text /\ Len(d) = TargetHashLen
      /\ \A i \in 1 .. TargetHashLen : IsAlnum(d[i]) /\ d[i] \notin invalidLabelChars
  BY SpokeText DEF IsAlnum
<1>8. keptOf(name) = e /\ shortened(name) = e \o d
  BY DEF keptOf, shortened
<1>. DEFINE t == e \o d
<1>9. /\ t \in Text /\ Len(t) = n + 1 + TargetHashLen
      /\ \A i \in 1 .. n + 1 : t[i] = e[i]
      /\ \A i \in 1 .. TargetHashLen : t[n + 1 + i] = d[i]
  <2>. HIDE DEF n, e, d
  <2>1. /\ e \o d \in Text /\ Len(e \o d) = Len(e) + Len(d)
        /\ \A i \in 1 .. Len(e) : (e \o d)[i] = e[i]
        /\ \A i \in 1 .. Len(d) : (e \o d)[Len(e) + i] = d[i]
    BY <1>6, <1>7, JoinedText
  <2>. QED BY <1>6, <1>7, <2>1
<1>10. /\ \A i \in 1 .. n + 1 + TargetHashLen : t[i] \notin invalidLabelChars
       /\ IsAlnum(t[n + 1 + TargetHashLen])
  <2>. HIDE DEF n, e, d, t
  <2>1. \A i \in 1 .. n + 1 + TargetHashLen :
          \/ i \in 1 .. n + 1
          \/ i - (n + 1) \in 1 .. TargetHashLen /\ i = n + 1 + (i - (n + 1))
    BY <1>2
  <2>2. TargetHashLen \in 1 .. TargetHashLen
    BY <1>2
  <2>. QED BY <1>6, <1>7, <1>9, <2>1, <2>2
<1>. QED
  <2>1. n + 1 + TargetHashLen = MaxLabel - 2 /\ n + 1 = MaxLabel - TargetHashLen - 2
    <3>. HIDE DEF n
    <3>. QED BY <1>2
  <2>2. shortened(name) = t
    BY <1>8
  <2>3. shortened(name) = keptOf(name) \o d
    BY <1>8
  <2>. HIDE DEF n, e, t
  <2>. QED BY <1>6, <1>8, <1>9, <1>10, <2>1, <2>2, <2>3

\* What follows the prefix in an identity.
body(name) == IF Long(name) THEN shortened(name) ELSE name

LEMMA IdentityBody ==
  ASSUME NEW name \in SpokeNames
  PROVE  /\ SpokeTargetID(name) = spokeTargetPrefix \o body(name)
         /\ body(name) \in Text /\ Len(body(name)) \in 1 .. MaxLabel - 2
         /\ \A i \in 1 .. Len(body(name)) : body(name)[i] \notin invalidLabelChars
         /\ IsAlnum(body(name)[Len(body(name))])
<1>1. Len(spokeTargetPrefix) = 2 /\ MaxLabel \in Nat /\ MaxLabel >= 3
  BY TextAssumption DEF spokeTargetPrefix
<1>2. name \in Text /\ Len(name) \in Nat \ {0}
  BY SpokeText
<1>3. Len(spokeTargetPrefix) + Len(name) <= MaxLabel <=> ~ Long(name)
  BY <1>1, <1>2 DEF Long
<1>4. SpokeTargetID(name) = spokeTargetPrefix \o body(name)
  BY <1>3 DEF SpokeTargetID, body
<1>5. CASE Long(name)
  <2>1. body(name) = shortened(name)
    BY <1>5 DEF body
  <2>. QED BY <1>1, <1>4, <1>5, <2>1, ShortenedText
<1>6. CASE ~ Long(name)
  <2>1. body(name) = name /\ Len(name) <= MaxLabel - 2
    BY <1>1, <1>2, <1>6 DEF body, Long
  <2>. QED BY <1>1, <1>2, <1>4, <2>1, SpokeText
<1>. QED BY <1>5, <1>6

LEMMA PrefixText ==
  /\ spokeTargetPrefix \in Text /\ Len(spokeTargetPrefix) = 2
  /\ spokeTargetPrefix[1] = "s" /\ spokeTargetPrefix[2] = "-"
  /\ "s" \notin invalidLabelChars /\ "-" \notin invalidLabelChars /\ IsAlnum("s")
BY DEF spokeTargetPrefix, Text, Char, invalidLabelChars, IsAlnum, Punctuation

\* An identity is a label value, and neither empty nor "local", which stand for
\* the local cluster.
LEMMA IdentityText ==
  ASSUME NEW name \in SpokeNames
  PROVE  /\ SpokeTargetID(name) \in Text /\ LabelValue(SpokeTargetID(name))
         /\ SpokeTargetID(name) # <<>> /\ SpokeTargetID(name) # <<"l", "o", "c", "a", "l">>
<1>. DEFINE b == body(name)
            t == spokeTargetPrefix \o b
<1>1. /\ SpokeTargetID(name) = t
      /\ b \in Text /\ Len(b) \in 1 .. MaxLabel - 2 /\ MaxLabel \in Nat
      /\ \A i \in 1 .. Len(b) : b[i] \notin invalidLabelChars
      /\ IsAlnum(b[Len(b)])
  BY IdentityBody, TextAssumption
<1>. HIDE DEF b
<1>2. /\ t \in Text /\ Len(t) = 2 + Len(b)
      /\ \A i \in 1 .. 2 : t[i] = spokeTargetPrefix[i]
      /\ \A i \in 1 .. Len(b) : t[2 + i] = b[i]
  <2>1. /\ spokeTargetPrefix \o b \in Text
        /\ Len(spokeTargetPrefix \o b) = Len(spokeTargetPrefix) + Len(b)
        /\ \A i \in 1 .. Len(spokeTargetPrefix) : (spokeTargetPrefix \o b)[i] = spokeTargetPrefix[i]
        /\ \A i \in 1 .. Len(b) : (spokeTargetPrefix \o b)[Len(spokeTargetPrefix) + i] = b[i]
    BY <1>1, PrefixText, JoinedText
  <2>. QED BY <2>1, PrefixText
<1>. HIDE DEF t
<1>3. t[1] = "s" /\ t[2] = "-"
  BY <1>2, PrefixText
<1>4. \A i \in 1 .. Len(t) : i = 1 \/ i = 2 \/ (i - 2 \in 1 .. Len(b) /\ i = 2 + (i - 2))
  BY <1>1, <1>2
<1>5. \A i \in 1 .. Len(t) : t[i] \notin invalidLabelChars
  BY <1>1, <1>2, <1>3, <1>4, PrefixText
<1>6. IsAlnum(t[1]) /\ IsAlnum(t[Len(t)])
  <2>1. Len(b) \in 1 .. Len(b)
    BY <1>1
  <2>. QED BY <1>1, <1>2, <1>3, <2>1, PrefixText
<1>7. DOMAIN t = 1 .. Len(t) /\ Len(t) <= MaxLabel /\ Len(t) # 0
  BY <1>1, <1>2 DEF Text
<1>8. LabelValue(t)
  BY <1>5, <1>6, <1>7 DEF LabelValue, Last
<1>9. t # <<>> /\ t # <<"l", "o", "c", "a", "l">>
  BY <1>3, <1>7
<1>. QED BY <1>1, <1>2, <1>8, <1>9

\* Two spokes have two identities: names that both fit are kept whole, those
\* that do not are told apart by their digests.
LEMMA DistinctIdentities ==
  ASSUME NEW name \in SpokeNames, NEW other \in SpokeNames,
         SpokeTargetID(other) = SpokeTargetID(name)
  PROVE  other = name
<1>1. body(other) = body(name)
  BY IdentityBody, PrefixText, SameEnd
<1>2. CASE Long(name) /\ Long(other)
  <2>1. keptOf(other) \o Digest(other, TargetHashLen) = keptOf(name) \o Digest(name, TargetHashLen)
    BY <1>1, <1>2, ShortenedText DEF body
  <2>2. Len(keptOf(other)) = Len(keptOf(name)) /\ keptOf(other) \in Text /\ keptOf(name) \in Text
    BY <1>2, ShortenedText
  <2>3. Digest(other, TargetHashLen) \in Text /\ Digest(name, TargetHashLen) \in Text
    BY SpokeText
  <2>4. Digest(other, TargetHashLen) = Digest(name, TargetHashLen)
    BY <2>1, <2>2, <2>3, SameEnd
  <2>. QED BY <2>4, SpokeText
<1>3. CASE ~ (Long(name) /\ Long(other))
  BY <1>1, <1>3, SpokeAssumption DEF body
<1>. QED BY <1>2, <1>3

\* A spoke's identity is a label value other than "local", and no other spoke has
\* it, long names included (SpokeTargetID).
THEOREM TargetIDsUnique == Spec => []TargetIDUnique
<1>1. BuiltInv => TargetIDUnique
  <2>. SUFFICES ASSUME BuiltInv, spoke # <<>>
                PROVE  /\ LabelValue(targetID) /\ targetID # <<"l", "o", "c", "a", "l">>
                       /\ \A other \in SpokeNames : SpokeTargetID(other) = targetID => other = spoke
    BY DEF TargetIDUnique
  <2>1. spoke \in SpokeNames /\ targetID = SpokeTargetID(spoke)
    BY DEF BuiltInv, targetID
  <2>. QED BY <2>1, IdentityText, DistinctIdentities
<1>. QED BY <1>1, BuiltInvariant, PTL
------------------------------------------------------------------------------
(* Names *)

\* A name of its own spares the provers a search through all ways to join texts.
JoinedEitherWay(a, b, c) == a \o (b \o c) = (a \o b) \o c

LEMMA JoinedTwice ==
  ASSUME NEW a \in Text, NEW b \in Text, NEW c \in Text
  PROVE  JoinedEitherWay(a, b, c)
BY ConcatAssociative DEF Text, JoinedEitherWay

dnsOf(s) == ReplaceAllString(invalidDNSChars, ToLower(s))

hyphenated(ns) == IF ns = <<>> THEN <<"-">> ELSE <<"-">> \o ns \o <<"-">>

\* What a name has before its digest of n characters.
beginOf(alertName, namespace, n) ==
  (IF Len(dnsOf(alertName)) + Len(hyphenated(dnsOf(namespace))) + n <= MaxLabel
   THEN dnsOf(alertName) ELSE truncateDNS(dnsOf(alertName), available(dnsOf(namespace))))
    \o hyphenated(dnsOf(namespace))

LEMMA DnsText ==
  ASSUME NEW s \in Text
  PROVE  dnsOf(s) \in Text
<1>1. "-" \notin invalidDNSChars
  BY DEF invalidDNSChars, invalidLabelChars, Upper
<1>. QED BY <1>1, LowerText, ReplacedText DEF dnsOf

LEMMA HyphenatedText ==
  ASSUME NEW ns \in Text
  PROVE  hyphenated(ns) \in Text
<1>1. <<"-">> \in Text
  BY DEF Text, Char
<1>. QED BY <1>1, JoinedText DEF hyphenated

LEMMA TruncatedText ==
  ASSUME NEW s \in Text, NEW ns \in Text
  PROVE  truncateDNS(s, available(ns)) \in Text
<1>1. Len(ns) \in Nat
  BY DEF Text
<1>2. available(ns) \in Nat
  BY <1>1, TextAssumption DEF available
<1>3. Cut(s, available(ns)) \in Text
  BY <1>2, CutText
<1>. QED BY <1>3, TrimmedRight DEF truncateDNS

\* The digest ends the name, whole.
LEMMA NameEndsInDigest ==
  ASSUME NEW x \in Text, NEW y \in Text, NEW hash \in Text
  PROVE  /\ buildName(x, y, hash) = beginOf(x, y, Len(hash)) \o hash
         /\ beginOf(x, y, Len(hash)) \in Text
<1>. DEFINE name  == dnsOf(x)
            ns    == dnsOf(y)
            mid   == hyphenated(ns)
            short == truncateDNS(name, available(ns))
<1>1. name \in Text /\ ns \in Text
  BY DnsText
<1>2. mid \in Text /\ short \in Text
  <2>. HIDE DEF name, ns
  <2>. QED BY <1>1, HyphenatedText, TruncatedText
<1>3. (IF ns = <<>> THEN <<"-">> \o hash ELSE <<"-">> \o ns \o <<"-">> \o hash) = mid \o hash
  BY DEF hyphenated
<1>4. buildName(x, y, hash) = IF Len(name \o (mid \o hash)) <= MaxLabel THEN name \o (mid \o hash)
                              ELSE short \o (mid \o hash)
  BY <1>3 DEF buildName, dnsOf
<1>5. beginOf(x, y, Len(hash)) = (IF Len(name) + Len(mid) + Len(hash) <= MaxLabel
                                  THEN name ELSE short) \o mid
  BY DEF beginOf
<1>. HIDE DEF name, mid, short, ns
<1>6. mid \o hash \in Text /\ Len(mid \o hash) = Len(mid) + Len(hash)
  BY <1>2, JoinedText
<1>7. Len(name \o (mid \o hash)) = Len(name) + Len(mid \o hash)
  BY <1>1, <1>6, JoinedText
<1>8. Len(name) \in Nat /\ Len(mid) \in Nat /\ Len(hash) \in Nat
  BY <1>1, <1>2 DEF Text
<1>9. Len(name \o (mid \o hash)) = Len(name) + Len(mid) + Len(hash)
  BY <1>6, <1>7, <1>8
<1>10. name \o (mid \o hash) = (name \o mid) \o hash
  <2>1. JoinedEitherWay(name, mid, hash)
    BY <1>1, <1>2, JoinedTwice
  <2>. QED BY <2>1, Zenon DEF JoinedEitherWay
<1>11. short \o (mid \o hash) = (short \o mid) \o hash
  <2>1. JoinedEitherWay(short, mid, hash)
    BY <1>2, JoinedTwice
  <2>. QED BY <2>1, Zenon DEF JoinedEitherWay
<1>12. name \o mid \in Text /\ short \o mid \in Text
  BY <1>1, <1>2, JoinedText
<1>. QED BY <1>4, <1>5, <1>9, <1>10, <1>11, <1>12

\* Names with the same alert's name and namespace differ if their digests do.
LEMMA DistinctDigests ==
  ASSUME NEW x \in Text, NEW y \in Text, NEW h1 \in Text, NEW h2 \in Text, Len(h1) = Len(h2),
         buildName(x, y, h1) = buildName(x, y, h2)
  PROVE  h1 = h2
<1>. DEFINE b == beginOf(x, y, Len(h1))
<1>1. buildName(x, y, h1) = b \o h1 /\ b \in Text
  BY NameEndsInDigest
<1>2. buildName(x, y, h2) = b \o h2
  <2>1. buildName(x, y, h2) = beginOf(x, y, Len(h2)) \o h2
    BY NameEndsInDigest
  <2>. QED BY <2>1, Zenon
<1>3. b \o h1 = b \o h2 /\ Len(b) = Len(b)
  BY <1>1, <1>2, Zenon
<1>. HIDE DEF b
<1>. QED BY <1>1, <1>3, SameEnd

\* Until a run is stopped, the same alert on another target or at another time
\* has a run of another name (the digest of both is never cut, buildName).
THEOREM NamesTellApart == Spec => []NameTellsApart
<1>1. BuiltInv => NameTellsApart
  <2>. SUFFICES ASSUME BuiltInv, taken = {}, NEW p \in run,
                       NEW other \in SpokeNames \cup {<<>>}, NEW time \in {1, 2},
                       p.name = buildName(alert.alertname, alert.namespace, startsAtHash(time,
                                  IF other = <<>> THEN <<>> ELSE SpokeTargetID(other)))
                PROVE  other = spoke /\ time = alert.startsAt
    BY DEF NameTellsApart
  <2>. DEFINE id  == IF other = <<>> THEN <<>> ELSE SpokeTargetID(other)
              all == ({1, 2} \cup {a.startsAt : a \in Alerts}) \X TargetIDs
              v   == <<alert.startsAt, targetID>>
              w   == <<time, id>>
  <2>1. alert \in Alerts /\ spoke \in SpokeNames \cup {<<>>}
    BY DEF BuiltInv
  <2>2. targetID \in TargetIDs /\ id \in TargetIDs
    BY <2>1 DEF TargetIDs, targetID
  <2>3. v \in all /\ w \in all
    BY <2>1, <2>2
  <2>4. /\ Digest(v, HashLen) \in Text /\ Digest(w, HashLen) \in Text
        /\ Len(Digest(v, HashLen)) = Len(Digest(w, HashLen))
        /\ Digest(w, HashLen) = Digest(v, HashLen) => w = v
    <3>1. STRING \subseteq Char
      BY DEF Char
    <3>2. DigestsOf(all, HashLen)
      BY DigestAssumption
    <3>. HIDE DEF all, v, w
    <3>3. Digest(v, HashLen) \in Seq(STRING) /\ Digest(w, HashLen) \in Seq(STRING)
      BY <2>3, <3>2 DEF DigestsOf
    <3>4. /\ Len(Digest(v, HashLen)) = Len(Digest(w, HashLen))
          /\ Digest(w, HashLen) = Digest(v, HashLen) => w = v
      BY <2>3, <3>2 DEF DigestsOf
    <3>. QED BY <3>1, <3>3, <3>4, SeqMonotonic DEF Text
  <2>5. alert.alertname \in Text /\ alert.namespace \in Text
    BY <2>1, AlertText
  <2>6. buildName(alert.alertname, alert.namespace, Digest(v, HashLen))
          = buildName(alert.alertname, alert.namespace, Digest(w, HashLen))
    BY DEF BuiltInv, startsAtHash
  <2>7. w = v
    <3>. HIDE DEF v, w
    <3>. QED BY <2>4, <2>5, <2>6, DistinctDigests
  <2>8. id = targetID /\ time = alert.startsAt
    BY <2>7
  <2>9. other = spoke
    BY <2>1, <2>8, IdentityText, DistinctIdentities DEF targetID
  <2>. QED BY <2>8, <2>9
<1>. QED BY <1>1, BuiltInvariant, PTL
------------------------------------------------------------------------------
(* Usable names *)

Clean(s) == \A i \in 1 .. Len(s) : s[i] \notin invalidDNSChars

\* Texts a name may begin with, and texts it may end in.
Begins(s) == s \in Text /\ Len(s) >= 1 /\ IsLowerAlnum(s[1]) /\ Clean(s)
Ends(s) == s \in Text /\ Len(s) >= 1 /\ \A i \in 1 .. Len(s) : IsLowerAlnum(s[i])

\* A text that ends in a hyphen.
Hyphen(s) == s \in Text /\ Len(s) >= 1 /\ s[Len(s)] = "-"

LEMMA HyphenClean == "-" \notin invalidDNSChars /\ ~ IsLowerAlnum("-")
BY DEF invalidDNSChars, invalidLabelChars, Upper, IsLowerAlnum, Punctuation

LEMMA EndsClean ==
  ASSUME NEW s, Ends(s)
  PROVE  Clean(s)
BY DEF Ends, Clean, IsLowerAlnum

LEMMA JoinedClean ==
  ASSUME NEW a \in Text, NEW b \in Text, Clean(a), Clean(b)
  PROVE  Clean(a \o b)
<1>. DEFINE t == a \o b
<1>1. /\ Len(a) \in Nat /\ Len(b) \in Nat /\ Len(t) = Len(a) + Len(b)
      /\ \A i \in 1 .. Len(a) : t[i] = a[i]
      /\ \A i \in 1 .. Len(b) : t[Len(a) + i] = b[i]
  BY JoinedText
<1>. HIDE DEF t
<1>2. \A i \in 1 .. Len(t) :
        i \in 1 .. Len(a) \/ (i - Len(a) \in 1 .. Len(b) /\ i = Len(a) + (i - Len(a)))
  BY <1>1
<1>3. Clean(t)
  BY <1>1, <1>2 DEF Clean
<1>. QED BY <1>3 DEF t

\* What follows does not change how a name begins.
LEMMA JoinedBegins ==
  ASSUME NEW a, Begins(a), NEW b \in Text, Clean(b)
  PROVE  Begins(a \o b)
<1>1. a \in Text /\ Clean(a) /\ Len(a) >= 1 /\ IsLowerAlnum(a[1])
  BY DEF Begins
<1>. DEFINE t == a \o b
<1>2. /\ t \in Text /\ Len(a) \in Nat /\ Len(b) \in Nat /\ Len(t) = Len(a) + Len(b)
      /\ \A i \in 1 .. Len(a) : t[i] = a[i]
  BY <1>1, JoinedText
<1>3. Clean(t)
  BY <1>1, JoinedClean
<1>. HIDE DEF t
<1>4. t[1] = a[1] /\ Len(t) >= 1
  BY <1>1, <1>2
<1>5. Begins(t)
  BY <1>1, <1>2, <1>3, <1>4 DEF Begins
<1>. QED BY <1>5 DEF t

\* Nor does what comes before change how it ends.
LEMMA JoinedHyphen ==
  ASSUME NEW a \in Text, NEW b, Hyphen(b)
  PROVE  Hyphen(a \o b)
<1>1. b \in Text /\ Len(b) >= 1 /\ b[Len(b)] = "-"
  BY DEF Hyphen
<1>. DEFINE t == a \o b
<1>2. /\ t \in Text /\ Len(a) \in Nat /\ Len(b) \in Nat /\ Len(t) = Len(a) + Len(b)
      /\ \A i \in 1 .. Len(b) : t[Len(a) + i] = b[i]
  BY <1>1, JoinedText
<1>. HIDE DEF t
<1>3. t[Len(t)] = "-" /\ Len(t) >= 1
  BY <1>1, <1>2
<1>4. Hyphen(t)
  BY <1>2, <1>3 DEF Hyphen
<1>. QED BY <1>4 DEF t

\* The last hyphen of a name shows where its digest or its retry number begins.
LEMMA SplitAtHyphen ==
  ASSUME NEW u, Hyphen(u), NEW v, Hyphen(v), NEW d, Ends(d), NEW e, Ends(e), u \o d = v \o e
  PROVE  d = e
<1>1. /\ u \in Text /\ Len(u) >= 1 /\ u[Len(u)] = "-"
      /\ v \in Text /\ Len(v) >= 1 /\ v[Len(v)] = "-"
      /\ d \in Text /\ e \in Text
      /\ \A i \in 1 .. Len(d) : d[i] # "-"
      /\ \A i \in 1 .. Len(e) : e[i] # "-"
  BY HyphenClean DEF Hyphen, Ends
<1>. DEFINE t == u \o d
<1>2. /\ Len(u) \in Nat /\ Len(d) \in Nat /\ Len(t) = Len(u) + Len(d)
      /\ \A i \in 1 .. Len(u) : t[i] = u[i]
      /\ \A i \in 1 .. Len(d) : t[Len(u) + i] = d[i]
  BY <1>1, JoinedText
<1>3. /\ Len(v) \in Nat /\ Len(e) \in Nat /\ Len(t) = Len(v) + Len(e)
      /\ \A i \in 1 .. Len(v) : t[i] = v[i]
      /\ \A i \in 1 .. Len(e) : t[Len(v) + i] = e[i]
  <2>1. /\ Len(v) \in Nat /\ Len(e) \in Nat /\ Len(v \o e) = Len(v) + Len(e)
        /\ \A i \in 1 .. Len(v) : (v \o e)[i] = v[i]
        /\ \A i \in 1 .. Len(e) : (v \o e)[Len(v) + i] = e[i]
    BY <1>1, JoinedText
  <2>2. t = v \o e
    OBVIOUS
  <2>. QED BY <2>1, <2>2, Zenon
<1>4. Len(u) = Len(v)
  <2>. HIDE DEF t
  <2>1. ASSUME Len(u) < Len(v) PROVE FALSE
    <3>1. Len(v) - Len(u) \in 1 .. Len(d) /\ Len(u) + (Len(v) - Len(u)) = Len(v)
      BY <1>2, <1>3, <2>1
    <3>2. t[Len(v)] = d[Len(v) - Len(u)]
      BY <1>2, <3>1
    <3>3. t[Len(v)] = "-"
      BY <1>1, <1>3
    <3>. QED BY <1>1, <3>1, <3>2, <3>3
  <2>2. ASSUME Len(v) < Len(u) PROVE FALSE
    <3>1. Len(u) - Len(v) \in 1 .. Len(e) /\ Len(v) + (Len(u) - Len(v)) = Len(u)
      BY <1>2, <1>3, <2>2
    <3>2. t[Len(u)] = e[Len(u) - Len(v)]
      BY <1>3, <3>1
    <3>3. t[Len(u)] = "-"
      BY <1>1, <1>2
    <3>. QED BY <1>1, <3>1, <3>2, <3>3
  <2>. QED BY <1>2, <1>3, <2>1, <2>2
<1>. QED BY <1>1, <1>4, SameEnd

\* A name that is cut keeps its beginning, its first character at least.
LEMMA TruncatedBegins ==
  ASSUME NEW s, Begins(s), NEW n \in Nat \ {0}
  PROVE  Begins(truncateDNS(s, n)) /\ Len(truncateDNS(s, n)) <= n
<1>1. s \in Text /\ Len(s) \in Nat /\ Len(s) >= 1 /\ IsLowerAlnum(s[1]) /\ Clean(s)
  BY DEF Begins, Text
<1>2. CASE Len(s) <= n
  BY <1>2 DEF truncateDNS
<1>3. CASE ~ (Len(s) <= n)
  <2>. DEFINE c == Cut(s, n)
              r == TrimRight(c)
  <2>1. c \in Text /\ Len(c) = n /\ \A i \in 1 .. n : c[i] = s[i]
    BY <1>1, <1>3, CutText
  <2>2. c[1] \notin Punctuation /\ Len(c) >= 1
    BY <1>1, <2>1 DEF IsLowerAlnum
  <2>. HIDE DEF c
  <2>3. /\ r \in Text /\ Len(r) <= Len(c) /\ Len(r) >= 1
        /\ \A i \in 1 .. Len(r) : r[i] = c[i]
    BY <2>1, <2>2, TrimmedRight
  <2>. HIDE DEF r
  <2>4. Len(r) \in Nat
    BY <2>3 DEF Text
  <2>5. \A i \in 1 .. Len(r) : r[i] = s[i] /\ i \in 1 .. Len(s)
    BY <1>1, <1>3, <2>1, <2>3, <2>4
  <2>6. Begins(r) /\ Len(r) <= n
    BY <1>1, <2>1, <2>3, <2>4, <2>5 DEF Begins, Clean
  <2>7. truncateDNS(s, n) = r
    BY <1>3 DEF truncateDNS, r, c
  <2>. QED BY <2>6, <2>7
<1>. QED BY <1>2, <1>3

LEMMA DnsClean ==
  ASSUME NEW s \in Text
  PROVE  /\ dnsOf(s) \in Text /\ Len(dnsOf(s)) = Len(s) /\ Clean(dnsOf(s))
         /\ Len(s) >= 1 /\ IsAlnum(s[1]) => Begins(dnsOf(s))
<1>. DEFINE l == ToLower(s)
            r == ReplaceAllString(invalidDNSChars, l)
<1>1. l \in Text /\ Len(l) = Len(s) /\ Len(s) \in Nat /\ DOMAIN s = 1 .. Len(s)
  BY LowerText DEF Text
<1>2. Len(s) >= 1 /\ IsAlnum(s[1]) => IsLowerAlnum(l[1])
  <2>. SUFFICES ASSUME Len(s) >= 1, IsAlnum(s[1]) PROVE IsLowerAlnum(l[1])
    OBVIOUS
  <2>1. l[1] = CASE s[1] = "A" -> "a" [] s[1] = "B" -> "b" [] OTHER -> s[1]
    BY <1>1 DEF ToLower
  <2>2. IsLowerAlnum("a") /\ IsLowerAlnum("b")
    BY DEF IsLowerAlnum, Punctuation, invalidDNSChars, invalidLabelChars, Upper
  <2>3. s[1] # "A" /\ s[1] # "B" => IsLowerAlnum(s[1])
    BY DEF IsAlnum, IsLowerAlnum, Punctuation, invalidDNSChars, Upper
  <2>. QED BY <2>1, <2>2, <2>3
<1>. HIDE DEF l
<1>3. /\ r \in Text /\ Len(r) = Len(l)
      /\ \A i \in 1 .. Len(l) : r[i] \notin invalidDNSChars
      /\ \A i \in 1 .. Len(l) : l[i] \notin invalidDNSChars => r[i] = l[i]
  BY <1>1, HyphenClean, ReplacedText
<1>4. dnsOf(s) = r
  BY DEF dnsOf, l
<1>. HIDE DEF r
<1>5. Clean(r)
  BY <1>1, <1>3 DEF Clean
<1>6. Len(s) >= 1 /\ IsAlnum(s[1]) => r[1] = l[1]
  BY <1>1, <1>2, <1>3 DEF IsLowerAlnum
<1>. QED BY <1>1, <1>2, <1>3, <1>4, <1>5, <1>6 DEF Begins

\* The hyphens around a namespace, or the one in its place.
LEMMA HyphenatedLength ==
  ASSUME NEW ns \in Text, Clean(ns)
  PROVE  /\ hyphenated(ns) \in Text /\ Clean(hyphenated(ns)) /\ Hyphen(hyphenated(ns))
         /\ Len(ns) \in Nat
         /\ Len(hyphenated(ns)) = Len(ns) + (IF ns = <<>> THEN 1 ELSE 2)
<1>. DEFINE h == <<"-">>
<1>1. h \in Text /\ Len(h) = 1 /\ h[1] = "-" /\ Len(ns) \in Nat
  BY DEF Text, Char
<1>2. Clean(h) /\ Hyphen(h)
  <2>1. \A i \in 1 .. 1 : i = 1
    OBVIOUS
  <2>. HIDE DEF h
  <2>. QED BY <1>1, <2>1, HyphenClean DEF Clean, Hyphen
<1>3. CASE ns = <<>>
  <2>1. hyphenated(ns) = h /\ Len(ns) = 0
    BY <1>3 DEF hyphenated
  <2>. HIDE DEF h
  <2>. QED BY <1>1, <1>2, <1>3, <2>1
<1>4. CASE ns # <<>>
  <2>. DEFINE t == h \o ns
  <2>1. hyphenated(ns) = t \o h
    BY <1>4 DEF hyphenated
  <2>. HIDE DEF h
  <2>2. t \in Text /\ Len(t) = 1 + Len(ns)
    <3>1. h \o ns \in Text /\ Len(h \o ns) = Len(h) + Len(ns)
      BY <1>1, JoinedText
    <3>. QED BY <1>1, <3>1
  <2>3. Clean(t)
    BY <1>1, <1>2, JoinedClean
  <2>. HIDE DEF t
  <2>4. t \o h \in Text /\ Len(t \o h) = Len(t) + 1
    BY <1>1, <2>2, JoinedText
  <2>5. Clean(t \o h) /\ Hyphen(t \o h)
    BY <1>1, <1>2, <2>2, <2>3, JoinedClean, JoinedHyphen
  <2>. QED BY <1>1, <1>4, <2>1, <2>2, <2>4, <2>5
<1>. QED BY <1>3, <1>4

\* A name whose namespace leaves room has a beginning and keeps the limit,
\* whatever is cut off the alert's name to make it so.
LEMMA BeginsInLimit ==
  ASSUME NEW x \in Text, NEW y \in Text, Len(x) >= 1, IsAlnum(x[1]),
         Len(y) + HashLen + 3 <= MaxLabel
  PROVE  /\ Begins(beginOf(x, y, HashLen)) /\ Hyphen(beginOf(x, y, HashLen))
         /\ Len(beginOf(x, y, HashLen)) + HashLen <= MaxLabel
<1>. DEFINE name  == dnsOf(x)
            ns    == dnsOf(y)
            mid   == hyphenated(ns)
            short == truncateDNS(name, available(ns))
            head  == IF Len(name) + Len(mid) + HashLen <= MaxLabel THEN name ELSE short
<1>1. /\ Begins(name) /\ ns \in Text /\ Clean(ns) /\ Len(ns) = Len(y)
      /\ MaxLabel \in Nat /\ HashLen \in Nat
  BY DnsClean, TextAssumption
<1>2. beginOf(x, y, HashLen) = head \o mid
  BY DEF beginOf
<1>. HIDE DEF ns
<1>3. /\ mid \in Text /\ Clean(mid) /\ Hyphen(mid) /\ Len(ns) \in Nat
      /\ Len(mid) = Len(ns) + (IF ns = <<>> THEN 1 ELSE 2)
  BY <1>1, HyphenatedLength
<1>4. available(ns) = MaxLabel - HashLen - Len(mid) /\ available(ns) \in Nat \ {0}
  <2>. HIDE DEF mid
  <2>1. Len(ns) + HashLen + 3 <= MaxLabel
    BY <1>1
  <2>2. CASE ns = <<>>
    <3>1. available(ns) = IF Len(ns) < MaxLabel - HashLen - 1
                          THEN MaxLabel - HashLen - 1 - Len(ns) ELSE 1
      BY <2>2 DEF available
    <3>2. Len(mid) = Len(ns) + 1
      BY <1>3, <2>2
    <3>3. Len(ns) < MaxLabel - HashLen - 1
      BY <1>1, <1>3, <2>1
    <3>4. available(ns) = MaxLabel - HashLen - 1 - Len(ns)
      BY <3>1, <3>3
    <3>. QED BY <1>1, <1>3, <2>1, <3>2, <3>4
  <2>3. CASE ns # <<>>
    <3>1. available(ns) = IF Len(ns) < MaxLabel - HashLen - 2
                          THEN MaxLabel - HashLen - 2 - Len(ns) ELSE 1
      BY <2>3 DEF available
    <3>2. Len(mid) = Len(ns) + 2
      BY <1>3, <2>3
    <3>3. Len(ns) < MaxLabel - HashLen - 2
      BY <1>1, <1>3, <2>1
    <3>4. available(ns) = MaxLabel - HashLen - 2 - Len(ns)
      BY <3>1, <3>3
    <3>. QED BY <1>1, <1>3, <2>1, <3>2, <3>4
  <2>. QED BY <2>2, <2>3
<1>. HIDE DEF mid, name
<1>5. Begins(short) /\ Len(short) <= available(ns)
  BY <1>1, <1>4, TruncatedBegins
<1>. HIDE DEF short
<1>6. /\ Len(name) \in Nat /\ Len(short) \in Nat /\ Len(mid) \in Nat
      /\ name \in Text /\ short \in Text
  BY <1>1, <1>3, <1>5 DEF Begins, Text
<1>7. Begins(head) /\ Len(head) + Len(mid) + HashLen <= MaxLabel /\ head \in Text
  BY <1>1, <1>4, <1>5, <1>6
<1>. HIDE DEF head
<1>8. Begins(head \o mid) /\ Hyphen(head \o mid)
  BY <1>3, <1>7, JoinedBegins, JoinedHyphen
<1>9. Len(head \o mid) = Len(head) + Len(mid) /\ Len(head) \in Nat
  BY <1>3, <1>7, JoinedText
<1>. QED BY <1>1, <1>2, <1>6, <1>7, <1>8, <1>9

\* The name s has d after its last hyphen.
EndsIn(s, d) == \E u : Hyphen(u) /\ s = u \o d

LEMMA UsableName ==
  ASSUME NEW s, Begins(s), NEW d, Ends(d), EndsIn(s, d)
  PROVE  DNSName(s)
<1>1. PICK u : Hyphen(u) /\ s = u \o d
  BY DEF EndsIn
<1>2. u \in Text /\ d \in Text /\ Len(d) >= 1
  BY <1>1 DEF Hyphen, Ends
<1>3. /\ s \in Text /\ Len(u) \in Nat /\ Len(d) \in Nat /\ Len(s) = Len(u) + Len(d)
      /\ \A i \in 1 .. Len(d) : s[Len(u) + i] = d[i]
  BY <1>1, <1>2, JoinedText
<1>4. s[Len(s)] = d[Len(d)] /\ Len(d) \in 1 .. Len(d)
  BY <1>2, <1>3
<1>5. IsLowerAlnum(s[Len(s)]) /\ IsLowerAlnum(s[1])
  BY <1>4 DEF Ends, Begins
<1>6. \A c : IsLowerAlnum(c) => IsAlnum(c)
  BY DEF IsLowerAlnum, IsAlnum, invalidDNSChars
<1>7. s # <<>> /\ DOMAIN s = 1 .. Len(s)
  <2>1. Len(s) # 0 /\ DOMAIN s = 1 .. Len(s)
    BY <1>2, <1>3 DEF Text
  <2>. QED BY <2>1
<1>8. \A i \in DOMAIN s : s[i] \notin invalidDNSChars
  BY <1>7 DEF Begins, Clean
<1>. QED BY <1>5, <1>6, <1>7, <1>8 DEF DNSName, Last

\* The name a run has before it is stopped.
LEMMA BaseName ==
  ASSUME NEW x \in Text, NEW y \in Text, Len(x) >= 1, IsAlnum(x[1]),
         Len(y) + HashLen + 3 <= MaxLabel, NEW hash, Ends(hash), Len(hash) = HashLen
  PROVE  /\ Begins(buildName(x, y, hash)) /\ EndsIn(buildName(x, y, hash), hash)
         /\ Len(buildName(x, y, hash)) <= MaxLabel
<1>. DEFINE b == beginOf(x, y, HashLen)
<1>1. hash \in Text /\ Clean(hash)
  BY EndsClean DEF Ends
<1>2. buildName(x, y, hash) = b \o hash
  <2>1. buildName(x, y, hash) = beginOf(x, y, Len(hash)) \o hash
    BY <1>1, NameEndsInDigest
  <2>. QED BY <2>1, Zenon
<1>3. Begins(b) /\ Hyphen(b) /\ Len(b) + HashLen <= MaxLabel
  BY BeginsInLimit
<1>. HIDE DEF b
<1>4. b \in Text
  BY <1>3 DEF Begins
<1>5. Len(b \o hash) = Len(b) + Len(hash)
  BY <1>1, <1>4, JoinedText
<1>6. Len(b \o hash) <= MaxLabel
  BY <1>3, <1>5
<1>7. Begins(b \o hash)
  BY <1>1, <1>3, JoinedBegins
<1>. QED BY <1>2, <1>3, <1>6, <1>7 DEF EndsIn

LEMMA NumberText ==
  ASSUME NEW i \in 1 .. MaxStops
  PROVE  /\ Ends(Itoa(i)) /\ Len(Itoa(i)) \in 1 .. HashLen - 1
         /\ \A j \in 1 .. MaxStops : Itoa(j) = Itoa(i) => j = i
<1>1. STRING \subseteq Char
  BY DEF Char
<1>2. /\ Itoa(i) \in Seq(STRING) /\ Len(Itoa(i)) \in 1 .. HashLen - 1
      /\ \A k \in 1 .. Len(Itoa(i)) : IsLowerAlnum(Itoa(i)[k])
      /\ \A j \in 1 .. MaxStops : Itoa(j) = Itoa(i) => j = i
  BY NumberAssumption
<1>3. Itoa(i) \in Text
  BY <1>1, <1>2, SeqMonotonic DEF Text
<1>. QED BY <1>2, <1>3 DEF Ends

\* The name a replacement may have.
LEMMA RetryName ==
  ASSUME NEW base, Begins(base), NEW i \in 1 .. MaxStops
  PROVE  /\ Begins(candidate(base, i)) /\ EndsIn(candidate(base, i), Itoa(i))
         /\ Len(candidate(base, i)) <= MaxLabel
<1>. DEFINE sep == <<"-", "r", "-">>
            d   == Itoa(i)
            x   == suffix(i)
            t   == truncateDNS(base, MaxLabel - Len(x))
<1>1. /\ Ends(d) /\ d \in Text /\ Clean(d) /\ Len(d) \in 1 .. HashLen - 1
      /\ MaxLabel \in Nat /\ HashLen \in Nat /\ HashLen + 3 <= MaxLabel
  <2>1. Ends(d) /\ Len(d) \in 1 .. HashLen - 1
    BY NumberText
  <2>2. d \in Text /\ Clean(d)
    BY <2>1, EndsClean DEF Ends
  <2>. QED BY <2>1, <2>2, TextAssumption
<1>2. sep \in Text /\ Len(sep) = 3 /\ sep[1] = "-" /\ sep[2] = "r" /\ sep[3] = "-"
  BY DEF Text, Char
<1>3. x = sep \o d
  BY DEF suffix
<1>4. candidate(base, i) = t \o x
  BY DEF candidate
<1>. HIDE DEF sep, d
<1>5. Clean(sep) /\ Hyphen(sep)
  <2>1. \A k \in 1 .. 3 : k = 1 \/ k = 2 \/ k = 3
    OBVIOUS
  <2>2. "r" \notin invalidDNSChars
    BY DEF invalidDNSChars, invalidLabelChars, Upper
  <2>. QED BY <1>2, <2>1, <2>2, HyphenClean DEF Clean, Hyphen
<1>. HIDE DEF x
<1>6. x \in Text /\ Clean(x) /\ Len(x) = 3 + Len(d)
  <2>1. sep \o d \in Text /\ Len(sep \o d) = Len(sep) + Len(d) /\ Clean(sep \o d)
    BY <1>1, <1>2, <1>5, JoinedText, JoinedClean
  <2>. QED BY <1>2, <1>3, <2>1
<1>7. MaxLabel - Len(x) \in Nat \ {0}
  BY <1>1, <1>6
<1>8. Begins(t) /\ Len(t) <= MaxLabel - Len(x)
  BY <1>7, TruncatedBegins
<1>. HIDE DEF t
<1>9. t \in Text /\ Len(t) \in Nat
  BY <1>8 DEF Begins, Text
<1>10. Begins(t \o x)
  BY <1>6, <1>8, JoinedBegins
<1>11. Len(t \o x) = Len(t) + Len(x)
  BY <1>6, <1>9, JoinedText
<1>12. Len(t \o x) <= MaxLabel
  BY <1>1, <1>6, <1>8, <1>9, <1>11
<1>13. EndsIn(t \o x, d)
  <2>1. JoinedEitherWay(t, sep, d)
    BY <1>1, <1>2, <1>9, JoinedTwice
  <2>2. t \o x = (t \o sep) \o d
    BY <1>3, <2>1, Zenon DEF JoinedEitherWay
  <2>3. Hyphen(t \o sep)
    BY <1>5, <1>9, JoinedHyphen
  <2>. QED BY <2>2, <2>3, Zenon DEF EndsIn
<1>. QED BY <1>4, <1>10, <1>12, <1>13 DEF d

\* Names that end in different digests or numbers are different.
LEMMA DistinctEnds ==
  ASSUME NEW s, NEW d, Ends(d), EndsIn(s, d), NEW e, Ends(e), EndsIn(s, e)
  PROVE  d = e
<1>1. PICK u : Hyphen(u) /\ s = u \o d
  BY DEF EndsIn
<1>2. PICK v : Hyphen(v) /\ s = v \o e
  BY DEF EndsIn
<1>3. u \o d = v \o e
  BY <1>1, <1>2, Zenon
<1>. QED BY <1>1, <1>2, <1>3, SplitAtHyphen

\* A usable name of a run; its candidates are usable, too.
UsableBase(base, hash) ==
  /\ Begins(base) /\ EndsIn(base, hash) /\ Len(base) <= MaxLabel
  /\ Ends(hash) /\ Len(hash) = HashLen

LEMMA CandidatesUsable ==
  ASSUME NEW base, NEW hash, UsableBase(base, hash), NEW i \in 0 .. MaxStops
  PROVE  DNSName(candidate(base, i)) /\ Len(candidate(base, i)) <= MaxLabel
<1>1. CASE i = 0
  BY <1>1, UsableName DEF UsableBase, candidate
<1>2. CASE i # 0
  <2>1. i \in 1 .. MaxStops
    BY <1>2
  <2>. QED BY <2>1, RetryName, NumberText, UsableName DEF UsableBase
<1>. QED BY <1>1, <1>2

LEMMA CandidatesDiffer ==
  ASSUME NEW base, NEW hash, UsableBase(base, hash), NEW i \in 0 .. MaxStops, NEW j \in 0 .. MaxStops,
         candidate(base, i) = candidate(base, j)
  PROVE  i = j
<1>. DEFINE tail(k) == IF k = 0 THEN hash ELSE Itoa(k)
<1>1. \A k \in 0 .. MaxStops : k = 0 \/ k \in 1 .. MaxStops
  OBVIOUS
<1>2. ASSUME NEW k \in 0 .. MaxStops PROVE Ends(tail(k)) /\ EndsIn(candidate(base, k), tail(k))
  <2>1. CASE k = 0
    BY <2>1 DEF UsableBase, candidate
  <2>2. CASE k # 0
    <3>1. k \in 1 .. MaxStops /\ tail(k) = Itoa(k)
      BY <1>1, <2>2
    <3>. HIDE DEF tail
    <3>. QED BY <3>1, RetryName, NumberText DEF UsableBase
  <2>. QED BY <2>1, <2>2
<1>3. tail(i) = tail(j)
  <2>. HIDE DEF tail
  <2>. QED BY <1>2, DistinctEnds
<1>4. HashLen \in Nat /\ \A k \in 1 .. MaxStops : Itoa(k) # hash
  <2>1. \A k \in 1 .. MaxStops : Len(Itoa(k)) \in 1 .. HashLen - 1
    BY NumberText
  <2>2. HashLen \in Nat /\ Len(hash) = HashLen
    BY TextAssumption DEF UsableBase
  <2>3. HashLen \notin 1 .. HashLen - 1
    BY <2>2
  <2>. QED BY <2>1, <2>2, <2>3
<1>. QED BY <1>1, <1>3, <1>4, NumberText

\* The search for a name ends: the names in use are fewer than the candidates.
LEMMA NextNameFree ==
  ASSUME NEW base, NEW hash, UsableBase(base, hash), NEW names, IsFiniteSet(names),
         Cardinality(names) <= MaxStops
  PROVE  \E i \in 0 .. MaxStops : /\ NextAvailableName(base, names) = candidate(base, i)
                                  /\ candidate(base, i) \notin names
<1>. DEFINE n     == Cardinality(names)
            Tries == 0 .. n
            name  == [i \in Tries |-> candidate(base, i)]
            Free  == {i \in Tries : candidate(base, i) \notin names}
<1>1. n \in Nat /\ MaxStops \in Nat /\ n <= MaxStops
  BY FS_CardinalityType, TextAssumption
<1>2. Free # {}
  <2>. SUFFICES ASSUME \A i \in Tries : candidate(base, i) \in names PROVE FALSE
    OBVIOUS
  <2>1. IsFiniteSet(Tries) /\ Cardinality(Tries) = n + 1
    BY <1>1, FS_Interval
  <2>2. name \in [Tries -> names]
    OBVIOUS
  <2>3. \E i, j \in Tries : i # j /\ name[i] = name[j]
    <3>. HIDE DEF Tries, name
    <3>. QED BY <1>1, <2>1, <2>2, FS_PigeonHole
  <2>4. \A i, j \in Tries : name[i] = name[j] => i = j
    <3>1. \A i \in Tries : i \in 0 .. MaxStops
      BY <1>1
    <3>. QED BY <3>1, CandidatesDiffer
  <2>. QED BY <2>3, <2>4
<1>3. PICK i \in Free : \A j \in Free : i <= j
  <2>1. Free \in SUBSET Nat
    BY <1>1
  <2>. QED BY <1>2, <2>1, LeastNatural
<1>4. \A j \in 0 .. (i - 1) : candidate(base, j) \in names
  BY <1>1, <1>3
<1>5. \E k \in 0 .. Cardinality(names) :
        /\ candidate(base, k) \notin names
        /\ \A j \in 0 .. (k - 1) : candidate(base, j) \in names
  BY <1>3, <1>4
<1>6. PICK k \in 0 .. Cardinality(names) :
        NextAvailableName(base, names) = candidate(base, k) /\ candidate(base, k) \notin names
  BY <1>5 DEF NextAvailableName
<1>7. k \in 0 .. MaxStops
  BY <1>1, <1>6
<1>. QED BY <1>6, <1>7

LEMMA RunHash ==
  ASSUME NEW a \in Alerts, NEW id \in TargetIDs
  PROVE  Ends(startsAtHash(a.startsAt, id)) /\ Len(startsAtHash(a.startsAt, id)) = HashLen
<1>. DEFINE all == ({1, 2} \cup {b.startsAt : b \in Alerts}) \X TargetIDs
            v   == <<a.startsAt, id>>
            h   == Digest(v, HashLen)
<1>1. v \in all /\ DigestsOf(all, HashLen) /\ startsAtHash(a.startsAt, id) = h
  BY DigestAssumption DEF startsAtHash
<1>. HIDE DEF all, v
<1>2. h \in Seq(STRING) /\ Len(h) = HashLen /\ \A i \in 1 .. HashLen : IsLowerAlnum(h[i])
  BY <1>1 DEF DigestsOf
<1>. HIDE DEF h
<1>3. h \in Text
  <2>1. STRING \subseteq Char
    BY DEF Char
  <2>. QED BY <1>2, <2>1, SeqMonotonic DEF Text
<1>4. HashLen >= 1
  BY TextAssumption
<1>. QED BY <1>1, <1>2, <1>3, <1>4 DEF Ends

baseName == buildName(alert.alertname, alert.namespace, startsAtHash(alert.startsAt, targetID))

\* A run has its alert's name, or once runs were stopped the next free one.
StopsInv ==
  /\ IsFiniteSet(taken) /\ Cardinality(taken) <= MaxStops
  /\ run = {} => taken = {}
  /\ \A p \in run : p.name = IF taken = {} THEN baseName ELSE NextAvailableName(baseName, taken)

LEMMA StopsInvariant == Spec => []StopsInv
<1>1. Init => StopsInv
  <2>1. IsFiniteSet({}) /\ Cardinality({}) = 0 /\ 0 <= MaxStops
    BY FS_EmptySet, TextAssumption
  <2>. QED BY <2>1 DEF Init, StopsInv
<1>2. StopsInv /\ [Next]_vars => StopsInv'
  <2>. SUFFICES ASSUME StopsInv, [Next]_vars PROVE StopsInv'
    OBVIOUS
  <2>1. CASE Build
    <3>1. taken = {} /\ UNCHANGED <<alert, spoke, taken>>
      BY <2>1 DEF Build, StopsInv
    <3>2. baseName' = baseName
      BY <3>1 DEF baseName, targetID
    <3>3. \A p \in run' : p.name = baseName
      BY <2>1 DEF Build, BuildForTarget, baseName
    <3>4. run' # {}
      BY <2>1 DEF Build
    <3>. QED BY <3>1, <3>2, <3>3, <3>4 DEF StopsInv
  <2>2. CASE Replace
    <3>1. Cardinality(taken) < MaxStops /\ UNCHANGED <<alert, spoke>>
      BY <2>2 DEF Replace
    <3>2. baseName' = baseName
      BY <3>1 DEF baseName, targetID
    <3>3. PICK p \in run : taken' = taken \cup {p.name}
      BY <2>2 DEF Replace
    <3>4. IsFiniteSet(taken') /\ Cardinality(taken') <= MaxStops
      <4>1. IsFiniteSet(taken) /\ Cardinality(taken) \in Nat /\ MaxStops \in Nat
        BY FS_CardinalityType, TextAssumption DEF StopsInv
      <4>2. /\ IsFiniteSet(taken')
            /\ Cardinality(taken') = Cardinality(taken) \/ Cardinality(taken') = Cardinality(taken) + 1
        BY <3>3, <4>1, FS_AddElement
      <4>. QED BY <3>1, <4>1, <4>2
    <3>5. run' # {} /\ \A q \in run' : q.name = NextAvailableName(baseName, taken')
      <4>1. PICK order \in RangeOrders(alert.labels) :
              run' = {[BuildForTarget(alert, targetID, order) EXCEPT
                         !.name = NextAvailableName(BuildForTarget(alert, targetID, order).name, taken')]}
        BY <2>2 DEF Replace
      <4>2. BuildForTarget(alert, targetID, order).name = baseName
        BY DEF BuildForTarget, baseName
      <4>. QED BY <4>1, <4>2 DEF BuildForTarget
    <3>. QED BY <3>2, <3>3, <3>4, <3>5 DEF StopsInv
  <2>3. CASE UNCHANGED vars
    BY <2>3 DEF vars, StopsInv, baseName, targetID
  <2>. QED BY <2>1, <2>2, <2>3 DEF Next
<1>. QED BY <1>1, <1>2, PTL DEF Spec

\* A run, and every run that replaces a stopped one, has a free name that is a
\* DNS name within the limit, for alert names of any length that begin with a
\* letter or a digit (buildName, truncateDNS, NextAvailableName).
THEOREM NamesAreUsable == Spec => []NameUsable
<1>1. BuiltInv /\ StopsInv => NameUsable
  <2>. SUFFICES ASSUME BuiltInv, StopsInv, ShortNamespace, PlainAlertName, NEW p \in run
                PROVE  DNSName(p.name) /\ Len(p.name) <= MaxLabel /\ p.name \notin taken
    BY DEF NameUsable
  <2>. DEFINE hash == startsAtHash(alert.startsAt, targetID)
  <2>1. alert \in Alerts /\ targetID \in TargetIDs
    BY DEF BuiltInv, targetID, TargetIDs
  <2>2. Ends(hash) /\ Len(hash) = HashLen
    BY <2>1, RunHash
  <2>3. alert.alertname \in Text /\ alert.namespace \in Text
    BY <2>1, AlertText
  <2>4. Len(alert.alertname) >= 1 /\ IsAlnum(alert.alertname[1])
    BY <2>3, EmptySeq DEF PlainAlertName, Text
  <2>5. UsableBase(baseName, hash)
    <3>1. baseName = buildName(alert.alertname, alert.namespace, hash)
      BY DEF baseName
    <3>. HIDE DEF hash
    <3>2. /\ Begins(baseName) /\ EndsIn(baseName, hash) /\ Len(baseName) <= MaxLabel
      BY <2>2, <2>3, <2>4, <3>1, BaseName DEF ShortNamespace
    <3>. QED BY <2>2, <3>2 DEF UsableBase
  <2>. HIDE DEF hash
  <2>6. PICK i \in 0 .. MaxStops : p.name = candidate(baseName, i) /\ candidate(baseName, i) \notin taken
    <3>1. CASE taken = {}
      <4>1. p.name = candidate(baseName, 0) /\ 0 \in 0 .. MaxStops
        BY <3>1, TextAssumption DEF StopsInv, candidate
      <4>. QED BY <3>1, <4>1
    <3>2. CASE taken # {}
      <4>1. p.name = NextAvailableName(baseName, taken)
        BY <3>2 DEF StopsInv
      <4>2. IsFiniteSet(taken) /\ Cardinality(taken) <= MaxStops
        BY DEF StopsInv
      <4>. QED BY <2>5, <4>1, <4>2, NextNameFree
    <3>. QED BY <3>1, <3>2
  <2>. QED BY <2>5, <2>6, CandidatesUsable
<1>. QED BY <1>1, BuiltInvariant, StopsInvariant, PTL
------------------------------------------------------------------------------
(* The prompt *)

\* The positions of a set that are not after i.
UpTo(kept, i) == Cardinality(kept \cap (1 .. i))

LEMMA UpToFinite ==
  ASSUME NEW n \in Nat, NEW kept \in SUBSET (1 .. n), NEW i \in Nat
  PROVE  IsFiniteSet(kept \cap (1 .. i)) /\ UpTo(kept, i) \in Nat
<1>1. IsFiniteSet(1 .. i)
  BY FS_Interval
<1>2. kept \cap (1 .. i) \subseteq 1 .. i
  OBVIOUS
<1>3. IsFiniteSet(kept \cap (1 .. i))
  BY <1>1, <1>2, FS_Subset
<1>. QED BY <1>3, FS_CardinalityType DEF UpTo

\* One position more counts one more if it is in the set.
LEMMA UpToNext ==
  ASSUME NEW n \in Nat, NEW kept \in SUBSET (1 .. n), NEW i \in Nat
  PROVE  UpTo(kept, i + 1) = UpTo(kept, i) + (IF i + 1 \in kept THEN 1 ELSE 0)
<1>. DEFINE K == kept \cap (1 .. i)
<1>1. IsFiniteSet(K) /\ Cardinality(K) \in Nat
  BY UpToFinite DEF UpTo
<1>2. CASE i + 1 \in kept
  <2>1. kept \cap (1 .. i + 1) = K \cup {i + 1} /\ i + 1 \notin K
    BY <1>2
  <2>. HIDE DEF K
  <2>2. Cardinality(K \cup {i + 1}) = Cardinality(K) + 1
    BY <1>1, <2>1, FS_AddElement
  <2>. QED BY <1>2, <2>1, <2>2 DEF UpTo, K
<1>3. CASE i + 1 \notin kept
  <2>1. kept \cap (1 .. i + 1) = K
    BY <1>3
  <2>2. UpTo(kept, i + 1) = Cardinality(K) /\ UpTo(kept, i) = Cardinality(K)
    BY <2>1, Zenon DEF UpTo
  <2>. HIDE DEF K
  <2>. QED BY <1>1, <1>3, <2>2
<1>. QED BY <1>2, <1>3

LEMMA UpToGrows ==
  ASSUME NEW n \in Nat, NEW kept \in SUBSET (1 .. n), NEW i \in Nat, NEW k \in Nat, i <= k
  PROVE  UpTo(kept, i) <= UpTo(kept, k)
<1>1. IsFiniteSet(kept \cap (1 .. k))
  BY UpToFinite
<1>2. kept \cap (1 .. i) \subseteq kept \cap (1 .. k)
  OBVIOUS
<1>. QED BY <1>1, <1>2, FS_Subset DEF UpTo

\* Every number up to the size of the set is the number of a position in it.
LEMMA NthPosition ==
  ASSUME NEW n \in Nat, NEW kept \in SUBSET (1 .. n), NEW j \in 1 .. Cardinality(kept)
  PROVE  Nth(kept, j) \in kept /\ UpTo(kept, Nth(kept, j)) = j
<1>. DEFINE S == {i \in 0 .. n : UpTo(kept, i) >= j}
<1>1. kept \cap (1 .. n) = kept /\ kept \cap (1 .. 0) = {}
  <2>1. kept \cap (1 .. n) = kept
    OBVIOUS
  <2>2. 1 .. 0 = {}
    OBVIOUS
  <2>. QED BY <2>1, <2>2
<1>2. Cardinality(kept) \in Nat /\ UpTo(kept, n) = Cardinality(kept) /\ UpTo(kept, 0) = 0
  BY <1>1, UpToFinite, FS_EmptySet DEF UpTo
<1>3. S \in SUBSET Nat /\ S # {}
  <2>1. n \in S
    BY <1>2
  <2>. QED BY <2>1
<1>4. PICK i \in S : \A k \in S : i <= k
  BY <1>3, LeastNatural
<1>5. i \in 0 .. n /\ UpTo(kept, i) >= j /\ i # 0
  BY <1>2, <1>4
<1>6. i - 1 \in 0 .. n /\ i - 1 \in Nat /\ (i - 1) + 1 = i
  BY <1>5
<1>7. ~ (UpTo(kept, i - 1) >= j)
  BY <1>4, <1>5, <1>6
<1>8. UpTo(kept, i - 1) \in Nat /\ UpTo(kept, i) \in Nat
  <2>1. i \in Nat
    BY <1>5
  <2>2. UpTo(kept, i) \in Nat
    BY <2>1, UpToFinite
  <2>3. UpTo(kept, i - 1) \in Nat
    BY <1>6, UpToFinite
  <2>. QED BY <2>2, <2>3
<1>9. UpTo(kept, i) = UpTo(kept, i - 1) + (IF i \in kept THEN 1 ELSE 0)
  <2>. DEFINE k == i - 1
  <2>1. k \in Nat /\ k + 1 = i
    BY <1>6
  <2>. HIDE DEF k
  <2>2. UpTo(kept, k + 1) = UpTo(kept, k) + (IF k + 1 \in kept THEN 1 ELSE 0)
    BY <2>1, UpToNext
  <2>3. UpTo(kept, i) = UpTo(kept, k) + (IF i \in kept THEN 1 ELSE 0)
    BY <2>1, <2>2, Zenon
  <2>. QED BY <2>3 DEF k
<1>10. i \in kept /\ UpTo(kept, i) = j
  BY <1>5, <1>7, <1>8, <1>9
<1>11. \E k \in kept : Cardinality(kept \cap (1 .. k)) = j
  BY <1>10 DEF UpTo
<1>. QED BY <1>11 DEF Nth, UpTo

\* The next of a set of positions is later, and none of them is between.
LEMMA NthNext ==
  ASSUME NEW n \in Nat, NEW kept \in SUBSET (1 .. n),
         NEW j \in 1 .. Cardinality(kept), j + 1 \in 1 .. Cardinality(kept)
  PROVE  /\ Nth(kept, j) < Nth(kept, j + 1)
         /\ \A m \in kept : ~ (Nth(kept, j) < m /\ m < Nth(kept, j + 1))
<1>. DEFINE p == Nth(kept, j)
            q == Nth(kept, j + 1)
<1>1. p \in kept /\ q \in kept /\ UpTo(kept, p) = j /\ UpTo(kept, q) = j + 1
  BY NthPosition
<1>2. \A m \in kept : m \in Nat /\ m - 1 \in Nat /\ (m - 1) + 1 = m
  OBVIOUS
<1>3. ASSUME NEW m \in kept PROVE UpTo(kept, m) = UpTo(kept, m - 1) + 1
  <2>. DEFINE k == m - 1
  <2>1. k \in Nat /\ k + 1 = m
    BY <1>2
  <2>. HIDE DEF k
  <2>2. UpTo(kept, k + 1) = UpTo(kept, k) + (IF k + 1 \in kept THEN 1 ELSE 0)
    BY <2>1, UpToNext
  <2>3. UpTo(kept, m) = UpTo(kept, k) + (IF m \in kept THEN 1 ELSE 0)
    BY <2>1, <2>2, Zenon
  <2>. QED BY <2>3 DEF k
<1>4. \A m \in kept : UpTo(kept, m - 1) \in Nat
  BY <1>2, UpToFinite
<1>. HIDE DEF p, q
<1>5. p < q
  <2>1. ASSUME q <= p PROVE FALSE
    <3>1. UpTo(kept, q) <= UpTo(kept, p)
      BY <1>1, <1>2, <2>1, UpToGrows
    <3>. QED BY <1>1, <3>1
  <2>. QED BY <1>1, <1>2, <2>1
<1>6. ASSUME NEW m \in kept, p < m, m < q PROVE FALSE
  <2>1. UpTo(kept, p) <= UpTo(kept, m - 1)
    <3>1. p \in Nat /\ m - 1 \in Nat /\ p <= m - 1
      BY <1>1, <1>2, <1>6
    <3>. QED BY <3>1, UpToGrows
  <2>2. UpTo(kept, m) <= UpTo(kept, q - 1)
    <3>1. m \in Nat /\ q - 1 \in Nat /\ m <= q - 1
      BY <1>1, <1>2, <1>6
    <3>. QED BY <3>1, UpToGrows
  <2>. QED BY <1>1, <1>3, <1>4, <1>6, <2>1, <2>2
<1>. QED BY <1>5, <1>6 DEF p, q

\* What is kept of a text is a text of its characters.
LEMMA KeptText ==
  ASSUME NEW s \in Text, NEW kept \in SUBSET (1 .. Len(s))
  PROVE  /\ Keep(s, kept) \in Text /\ Len(Keep(s, kept)) = Cardinality(kept)
         /\ Cardinality(kept) \in Nat
         /\ \A j \in 1 .. Cardinality(kept) :
              /\ Nth(kept, j) \in kept
              /\ Keep(s, kept)[j] = s[Nth(kept, j)]
<1>1. Len(s) \in Nat /\ \A i \in 1 .. Len(s) : s[i] \in Char
  BY DEF Text
<1>2. Cardinality(kept) \in Nat
  <2>1. IsFiniteSet(1 .. Len(s))
    BY <1>1, FS_Interval
  <2>2. IsFiniteSet(kept)
    BY <2>1, FS_Subset
  <2>. QED BY <2>2, FS_CardinalityType
<1>3. \A j \in 1 .. Cardinality(kept) : Nth(kept, j) \in kept
  BY <1>1, NthPosition
<1>4. Keep(s, kept) \in [1 .. Cardinality(kept) -> Char]
  BY <1>1, <1>3 DEF Keep
<1>. QED BY <1>2, <1>3, <1>4, FunctionText DEF Keep

LEMMA StrippedText ==
  ASSUME NEW s \in Text
  PROVE  /\ stripped(s) \in Text
         /\ \A i \in 1 .. Len(stripped(s)) : stripped(s)[i] \notin {"control", "zero-width"}
<1>. DEFINE kept == {i \in DOMAIN s : s[i] \notin {"control", "zero-width"}}
<1>1. kept \in SUBSET (1 .. Len(s)) /\ \A i \in kept : s[i] \notin {"control", "zero-width"}
  BY DEF Text
<1>2. stripped(s) = Keep(s, kept)
  BY DEF stripped
<1>. HIDE DEF kept
<1>3. /\ Keep(s, kept) \in Text /\ Len(Keep(s, kept)) = Cardinality(kept)
      /\ \A j \in 1 .. Cardinality(kept) :
           Nth(kept, j) \in kept /\ Keep(s, kept)[j] = s[Nth(kept, j)]
  BY <1>1, KeptText
<1>4. \A j \in 1 .. Cardinality(kept) : Keep(s, kept)[j] \notin {"control", "zero-width"}
  BY <1>1, <1>3
<1>. QED BY <1>2, <1>3, <1>4

\* A backtick next to a fence is in the fence.
LEMMA FenceSpreads ==
  ASSUME NEW s \in Text, NEW i \in 1 .. Len(s), NEW k \in 1 .. Len(s),
         i = k + 1 \/ k = i + 1, InFence(s, i), s[k] = "backtick"
  PROVE  InFence(s, k)
<1>1. Len(s) \in Nat
  BY DEF Text
<1>2. PICK a \in 1 .. i, b \in i .. Len(s) : b - a >= 2 /\ \A l \in a .. b : s[l] = "backtick"
  BY DEF InFence
<1>3. CASE k \in a .. b
  <2>1. a \in 1 .. k /\ b \in k .. Len(s)
    BY <1>1, <1>3
  <2>. QED BY <1>2, <2>1 DEF InFence
<1>4. CASE k < a
  <2>1. k \in 1 .. k /\ b \in k .. Len(s) /\ b - k >= 2 /\ \A l \in k .. b : l = k \/ l \in a .. b
    BY <1>1, <1>2, <1>4
  <2>2. \A l \in k .. b : s[l] = "backtick"
    BY <1>2, <2>1
  <2>. QED BY <2>1, <2>2 DEF InFence
<1>5. CASE k > b
  <2>1. a \in 1 .. k /\ k \in k .. Len(s) /\ k - a >= 2 /\ \A l \in a .. k : l = k \/ l \in a .. b
    BY <1>1, <1>2, <1>5
  <2>2. \A l \in a .. k : s[l] = "backtick"
    BY <1>2, <2>1
  <2>. QED BY <2>1, <2>2 DEF InFence
<1>. QED BY <1>1, <1>3, <1>4, <1>5

\* Removing fences makes no new one: where one was removed, no backtick is on
\* either side.
LEMMA UnfencedText ==
  ASSUME NEW s \in Text
  PROVE  /\ RemoveFences(s) \in Text
         /\ \A j \in 1 .. Len(RemoveFences(s)) :
              /\ \E i \in 1 .. Len(s) : RemoveFences(s)[j] = s[i]
              /\ ~ InFence(RemoveFences(s), j)
<1>. DEFINE kept == {i \in DOMAIN s : ~ InFence(s, i)}
            t    == RemoveFences(s)
            N(j) == Nth(kept, j)
<1>1. /\ Len(s) \in Nat /\ kept \in SUBSET (1 .. Len(s))
      /\ \A i \in 1 .. Len(s) : i \in kept <=> ~ InFence(s, i)
  BY DEF Text
<1>2. t = Keep(s, kept)
  BY DEF RemoveFences
<1>. HIDE DEF kept, t
<1>3. /\ t \in Text /\ Len(t) = Cardinality(kept) /\ Cardinality(kept) \in Nat
      /\ \A j \in 1 .. Len(t) : N(j) \in kept /\ t[j] = s[N(j)]
  BY <1>1, <1>2, KeptText
<1>4. ASSUME NEW j \in 1 .. Len(t), j + 1 \in 1 .. Len(t),
             t[j] = "backtick", t[j + 1] = "backtick"
      PROVE  N(j + 1) = N(j) + 1
  <2>1. N(j) < N(j + 1) /\ \A m \in kept : ~ (N(j) < m /\ m < N(j + 1))
    BY <1>1, <1>3, <1>4, NthNext
  <2>2. /\ N(j) \in 1 .. Len(s) /\ N(j + 1) \in 1 .. Len(s)
        /\ N(j) \in kept /\ s[N(j)] = "backtick"
    BY <1>1, <1>3, <1>4
  <2>. HIDE DEF N
  <2>3. ASSUME N(j) + 1 < N(j + 1) PROVE FALSE
    <3>1. N(j) + 1 \in 1 .. Len(s) /\ N(j) < N(j) + 1
      BY <1>1, <2>2, <2>3
    <3>2. N(j) + 1 \notin kept
      BY <2>1, <2>3, <3>1
    <3>3. InFence(s, N(j) + 1)
      BY <1>1, <3>1, <3>2
    <3>4. InFence(s, N(j))
      BY <2>2, <3>1, <3>3, FenceSpreads
    <3>. QED BY <1>1, <2>2, <3>4
  <2>. QED BY <2>1, <2>2, <2>3
<1>5. ASSUME NEW j \in 1 .. Len(t), InFence(t, j) PROVE FALSE
  <2>1. PICK a \in 1 .. j, b \in j .. Len(t) : b - a >= 2 /\ \A l \in a .. b : t[l] = "backtick"
    BY <1>5 DEF InFence
  <2>2. /\ a \in 1 .. Len(t) /\ a + 1 \in 1 .. Len(t) /\ (a + 1) + 1 \in 1 .. Len(t)
        /\ t[a] = "backtick" /\ t[a + 1] = "backtick" /\ t[(a + 1) + 1] = "backtick"
    <3>1. a \in a .. b /\ a + 1 \in a .. b /\ (a + 1) + 1 \in a .. b /\ Len(t) \in Nat
      BY <1>3, <2>1
    <3>. QED BY <2>1, <3>1
  <2>3. N(a + 1) = N(a) + 1 /\ N((a + 1) + 1) = N(a + 1) + 1
    BY <1>4, <2>2
  <2>4. /\ N(a) \in 1 .. Len(s) /\ N((a + 1) + 1) \in 1 .. Len(s) /\ ~ InFence(s, N(a))
        /\ s[N(a)] = "backtick" /\ s[N(a + 1)] = "backtick" /\ s[N((a + 1) + 1)] = "backtick"
    BY <1>1, <1>3, <2>2
  <2>. DEFINE i == N(a)
  <2>5. i \in 1 .. Len(s) /\ i + 2 \in 1 .. Len(s) /\ ~ InFence(s, i)
        /\ s[i] = "backtick" /\ s[i + 1] = "backtick" /\ s[i + 2] = "backtick"
    <3>1. N((a + 1) + 1) = N(a) + 2
      <4>1. N(a) \in Nat
        BY <1>1, <2>4
      <4>. HIDE DEF N
      <4>. QED BY <2>3, <4>1
    <3>. HIDE DEF N
    <3>. QED BY <2>3, <2>4, <3>1
  <2>. HIDE DEF i
  <2>6. i \in 1 .. i /\ i + 2 \in i .. Len(s) /\ (i + 2) - i >= 2
    BY <1>1, <2>5
  <2>7. \A l \in i .. i + 2 : s[l] = "backtick"
    <3>1. \A l \in i .. i + 2 : l = i \/ l = i + 1 \/ l = i + 2
      BY <2>5
    <3>. QED BY <2>5, <3>1
  <2>8. InFence(s, i)
    BY <2>6, <2>7 DEF InFence
  <2>. QED BY <2>5, <2>8
<1>. QED
  <2>1. \A j \in 1 .. Len(t) : \E i \in 1 .. Len(s) : t[j] = s[i]
    BY <1>1, <1>3
  <2>. QED BY <1>3, <1>5, <2>1 DEF t

\* No text of an alert brings an invisible character or a code fence into the
\* prompt, not even one that invisible characters or other fences kept apart
\* (sanitizePromptValue).
THEOREM PromptIsClean == Spec => []PromptClean
<1>1. ASSUME NEW s \in Text
      PROVE  \A i \in DOMAIN sanitizePromptValue(s) :
               /\ sanitizePromptValue(s)[i] \notin {"control", "zero-width"}
               /\ ~ InFence(sanitizePromptValue(s), i)
  <2>. DEFINE u == stripped(s)
              t == RemoveFences(u)
  <2>1. u \in Text /\ \A i \in 1 .. Len(u) : u[i] \notin {"control", "zero-width"}
    BY StrippedText
  <2>. HIDE DEF u
  <2>2. /\ t \in Text
        /\ \A j \in 1 .. Len(t) : (\E i \in 1 .. Len(u) : t[j] = u[i]) /\ ~ InFence(t, j)
    BY <2>1, UnfencedText
  <2>. HIDE DEF t
  <2>3. DOMAIN t = 1 .. Len(t)
    BY <2>2 DEF Text
  <2>4. \A i \in DOMAIN t : t[i] \notin {"control", "zero-width"} /\ ~ InFence(t, i)
    BY <2>1, <2>2, <2>3
  <2>. QED BY <2>4 DEF sanitizePromptValue, u, t
<1>2. BuiltInv => PromptClean
  <2>. SUFFICES ASSUME BuiltInv, NEW p \in run, NEW v \in p.request
                PROVE  \A i \in DOMAIN v : v[i] \notin {"control", "zero-width"} /\ ~ InFence(v, i)
    BY DEF PromptClean
  <2>1. alert \in Alerts /\ p.request = buildRequest(alert)
    BY DEF BuiltInv
  <2>2. \E s \in Text : v = sanitizePromptValue(s)
    BY <2>1, AlertText DEF buildRequest
  <2>. QED BY <1>1, <2>2
<1>. QED BY <1>2, BuiltInvariant, PTL
==============================================================================
