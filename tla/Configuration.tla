---------------------------- MODULE Configuration ----------------------------
(***************************************************************************)
(* What a process makes of the mounted file (internal/config/config.go)    *)
(* and of its environment (cmd/alerts-adapter/main.go).  A value of the    *)
(* file is what YAML makes of the text: a duration is unset, invalid or a  *)
(* number, an optional list is none or one list.                           *)
(***************************************************************************)
EXTENDS Integers, Sequences

CONSTANTS
  PollDefault, PostRunDefault, MaxTargetsDefault,
  IgnoredDefault \* DefaultIgnoredLabels

\* A duration or number as it is written.
Unset   == [kind |-> "unset", value |-> 0]
Invalid == [kind |-> "invalid", value |-> 0]
Set(n)  == [kind |-> "set", value |-> n]

Setting == [kind : {"unset", "invalid", "set"}, value : Int]

Receiver == [word : STRING, case : {"lower", "upper"}]

\* None, or one set of them: a pointer to a slice.
Optional(S) == {lists \in SUBSET SUBSET S : \A a, b \in lists : a = b}

Agent == [default : STRING, analysis : STRING, execution : STRING, verification : STRING]

\* What configFile takes up, and what becomes of reading and parsing the whole.
ConfigFile ==
  [content : {"missing", "unreadable", "garbled", "fields"},
   pollInterval : Setting, preRunDelay : Setting, postRunDelay : Setting,
   allowedReceivers : Optional(Receiver), filtering : Optional(Receiver),
   deduplication : Optional(STRING),
   skills : Seq([image : STRING, paths : Seq(STRING)]),
   agent : Agent]

Env == [multicluster : BOOLEAN, maxTargets : Setting, skillsImage : STRING,
        alertmanagerURL : {"unset", "empty", "http", "https"}, podNamespace : STRING]

ASSUME ConfigurationAssumption ==
  /\ PollDefault \in Nat \ {0} /\ PostRunDefault \in Nat
  /\ MaxTargetsDefault \in Nat \ {0}
------------------------------------------------------------------------------
(* LoadFromFile *)

Default ==
  [pollInterval |-> PollDefault, preRunDelay |-> 0, postRunDelay |-> PostRunDefault,
   allowedReceivers |-> {}, ignoredLabels |-> IgnoredDefault, skills |-> <<>>,
   agent |-> [default |-> "", analysis |-> "", execution |-> "", verification |-> ""]]

\* Unmarshal fails: no YAML, or a duration ParseDuration does not take.
cannotParse(f) ==
  \/ f.content = "garbled"
  \/ \E d \in {f.pollInterval, f.preRunDelay, f.postRunDelay} : d.kind = "invalid"

positive(d, otherwise) == IF d.value > 0 THEN d.value ELSE otherwise

\* Mutant: a poll interval that is set is used.
pollIntervalOf_AsSet(d) == IF d.kind = "set" THEN d.value ELSE PollDefault

pollIntervalOf(d) == IF d.kind = "set" THEN positive(d, PollDefault) ELSE PollDefault

delayOf(d, default) == IF d.kind = "set" THEN positive(d, 0) ELSE default

ToLower(receiver) == [receiver EXCEPT !.case = "lower"]

\* Mutant: an empty list counts as none.
rawReceivers_NonEmpty(f) ==
  IF UNION f.filtering # {} THEN f.filtering ELSE f.allowedReceivers

\* filtering.allowedReceivers wins over the old field if it is there at all.
rawReceivers(f) == IF f.filtering # {} THEN f.filtering ELSE f.allowedReceivers

resolvedImage(e, defaultImage) == IF e.image = "" THEN defaultImage ELSE e.image

\* A filtered list keeps its elements' positions, which give its order.
pathsOf(e) == [j \in {j \in DOMAIN e.paths : e.paths[j] # ""} |-> e.paths[j]]

\* Mutant: the first entry without an image or paths ends the list.
parseSkills_Stops(entries, defaultImage) ==
  LET bad(i) == resolvedImage(entries[i], defaultImage) = "" \/ DOMAIN pathsOf(entries[i]) = {}
  IN  [i \in {i \in DOMAIN entries : \A j \in 1..i : ~bad(j)} |->
         [image |-> resolvedImage(entries[i], defaultImage), paths |-> pathsOf(entries[i])]]

\* Entries without an image or without paths are skipped.
parseSkills(entries, defaultImage) ==
  LET usable(e) == resolvedImage(e, defaultImage) # "" /\ DOMAIN pathsOf(e) # {}
  IN  [i \in {i \in DOMAIN entries : usable(entries[i])} |->
         [image |-> resolvedImage(entries[i], defaultImage), paths |-> pathsOf(entries[i])]]

parsed(f, skillsImage) ==
  [pollInterval     |-> pollIntervalOf(f.pollInterval),
   preRunDelay      |-> delayOf(f.preRunDelay, 0),
   postRunDelay     |-> delayOf(f.postRunDelay, PostRunDefault),
   allowedReceivers |-> {ToLower(r) : r \in UNION rawReceivers(f)},
   ignoredLabels    |-> IF f.deduplication # {} THEN UNION f.deduplication ELSE IgnoredDefault,
   skills           |-> parseSkills(f.skills, skillsImage),
   agent            |-> f.agent]

\* Mutant: what cannot be read or parsed leaves the defaults.
LoadFromFile_Lenient(f, skillsImage) ==
  IF f.content \in {"missing", "unreadable"} \/ cannotParse(f) THEN {Default} ELSE {parsed(f, skillsImage)}

\* The configuration, or none for an error.
LoadFromFile(f, skillsImage) ==
  IF f.content = "missing" THEN {Default}
  ELSE IF f.content = "unreadable" \/ cannotParse(f) THEN {} ELSE {parsed(f, skillsImage)}
------------------------------------------------------------------------------
(* main *)

\* The limit, or none for an error.
multiclusterMaxConcurrentTargets(env) ==
  IF ~env.multicluster THEN {1}
  ELSE IF env.maxTargets.kind = "unset" THEN {MaxTargetsDefault}
  ELSE IF env.maxTargets.kind = "invalid" \/ env.maxTargets.value < 1 THEN {}
  ELSE {env.maxTargets.value}

\* newTargets' local target: none if ALERTMANAGER_URL is set and empty; an
\* unset one is the default URL.
localTargets(env) ==
  IF env.alertmanagerURL = "empty" THEN {}
  ELSE {IF env.multicluster THEN "labelled" ELSE "unlabelled"}

\* A URL that is not https, or no target at all and none to come.
cannotTarget(env) ==
  \/ env.alertmanagerURL = "http"
  \/ localTargets(env) = {} /\ ~env.multicluster

namespace(env) == IF env.podNamespace = "" THEN "openshift-lightspeed" ELSE env.podNamespace

defaultAgent == "default"

resolveAgent(perStep, global) ==
  IF perStep # "" THEN perStep ELSE IF global # "" THEN global ELSE defaultAgent
==============================================================================
