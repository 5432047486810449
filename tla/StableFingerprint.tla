-------------------------- MODULE StableFingerprint --------------------------
(***************************************************************************)
(* What StableFingerprint (internal/agenticrun/build.go) hashes: the       *)
(* alert's labels without the ignored ones, in the order of their keys,    *)
(* each key and value after its length.  Go ranges over a map in any       *)
(* order, which is a parameter here.  Keys and values are sequences of     *)
(* bytes, and the digest of the bytes is taken to be injective.            *)
(***************************************************************************)
EXTENDS Naturals, SequencesExt

CONSTANTS
  ignoredLabels,  \* cfg.IgnoredLabels
  Base            \* of a varint's digits, 128

ASSUME BaseAssumption == Base \in Nat \ {0, 1}

\* binary.PutUvarint: the low digits first, each but the last marked by Base.
uvarint[n \in Nat] ==
  IF n < Base THEN <<n>> ELSE <<(n % Base) + Base>> \o uvarint[n \div Base]
PutUvarint(n) == uvarint[n]

\* Mutant: values have no length.
entry_KeyOnly(key, value) == PutUvarint(Len(key)) \o key \o value

\* What is hashed for a label.
entry(key, value) == PutUvarint(Len(key)) \o key \o PutUvarint(Len(value)) \o value

\* The order of strings.
Precedes(s, t) ==
  \E n \in 0 .. Len(s) :
    /\ n <= Len(t) /\ SubSeq(s, 1, n) = SubSeq(t, 1, n)
    /\ \/ n = Len(s) /\ n < Len(t)
       \/ n < Len(s) /\ n < Len(t) /\ s[n + 1] < t[n + 1]

\* The orders in which a range may give the keys of a map.
RangeOrders(labels) == SetToSeqs(DOMAIN labels)

\* Mutant: the keys are hashed in the order the range had.
sortKeys_Skipped(order) == SelectSeq(order, LAMBDA k : k \notin ignoredLabels)

sortKeys(order) == SortSeq(SelectSeq(order, LAMBDA k : k \notin ignoredLabels), Precedes)

StableFingerprint(labels, order) ==
  FoldLeft(LAMBDA bytes, k : bytes \o entry(k, labels[k]), <<>>, sortKeys(order))
==============================================================================
