------------------------------ MODULE RunNaming ------------------------------
(***************************************************************************)
(* Target identities and AgenticRun names (internal/agenticrun: build.go   *)
(* and client.go; internal/multicluster/target.go; cmd newTargets).        *)
(*                                                                         *)
(* A name is the text "{stem}-{hash}" or "{stem}-{hash}-retry-{n}": stem   *)
(* is the sanitized "{alertname}-{namespace}", hash the digest of the      *)
(* start time and the target identity.  Names are kept apart into these    *)
(* parts; the digest is taken to be injective.                             *)
(***************************************************************************)
EXTENDS Integers, Sequences, FiniteSets

CONSTANT LongStems
  \* The stems so long that "{stem}-{hash}" takes all of the 63 characters.

\* The empty target identity, and the absent hub.openshift.io/spoke-cluster label.
NoID == <<>>

SpokeTargetID(name) == <<"spoke", name>>

\* The local cluster has no identity of its own; its runs carry a target label
\* only when the adapter runs with --multicluster.
LocalTarget(multicluster) ==
  [name |-> "local", id |-> NoID,
   label |-> IF multicluster THEN <<"local">> ELSE NoID]

SpokeTarget(name) ==
  [name |-> name, id |-> SpokeTargetID(name), label |-> SpokeTargetID(name)]

\* The start time and the target identity, hashed together.
startsAtHash(startsAt, targetID) == <<startsAt, targetID>>

buildName(stem, startsAt, targetID) ==
  [stem |-> stem, hash |-> startsAtHash(startsAt, targetID), retry |-> 0]

\* base with the suffix "-retry-i", within 63 characters: the suffix takes the
\* place of the last eight characters of a full-length name, which are its hash.
retryName(base, i) ==
  [stem  |-> base.stem,
   hash  |-> IF base.stem \in LongStems THEN <<>> ELSE base.hash,
   retry |-> i]

candidateName(base, i) == IF i = 0 THEN base ELSE retryName(base, i)

\* The first of base, base-retry-1, base-retry-2, ... that is not taken.  Among
\* one candidate more than there are names, one is free.
NextAvailableName(base, existingNames) ==
  candidateName(base,
    CHOOSE i \in 0 .. Cardinality(existingNames) :
      /\ candidateName(base, i) \notin existingNames
      /\ \A j \in 0 .. (i - 1) : candidateName(base, j) \in existingNames)
==============================================================================
