----------------------------- MODULE MCLifecycle -----------------------------
(* Instances of Lifecycle for TLC: files that differ in a part from Empty. *)
EXTENDS Lifecycle, SequencesExt

receiver(w, c) == [word |-> w, case |-> c]
ops   == receiver("ops", "upper")
other == receiver("other", "lower")

Empty == [content |-> "fields",
          pollInterval |-> Unset, preRunDelay |-> Unset, postRunDelay |-> Unset,
          allowedReceivers |-> {}, filtering |-> {}, deduplication |-> {}, skills |-> <<>>,
          agent |-> Default.agent]

Durations == {Unset, Invalid, Set(-1), Set(0), Set(5)}
Lists == {{}, {{}}, {{ops}}, {{ops, other}}}
Entries == [image : {"", "own"}, paths : {<<>>, <<"">>, <<"p">>, <<"", "q">>}]

DurationFiles == {[Empty EXCEPT !.pollInterval = a, !.preRunDelay = b, !.postRunDelay = c] :
                    a, b, c \in Durations}
ListFiles == {[Empty EXCEPT !.allowedReceivers = a, !.filtering = b, !.deduplication = c] :
                a, b \in Lists, c \in {{}, {{}}, {{"pod"}}}}
SkillFiles == {[Empty EXCEPT !.skills = s] : s \in BoundedSeq(Entries, 2)}
AgentFiles == {[Empty EXCEPT !.agent = [default |-> d, analysis |-> a, execution |-> "",
                                        verification |-> "v"]] :
                 d \in {"", "d"}, a \in {"", "a"}}
NoFiles == {[Empty EXCEPT !.content = c] : c \in {"missing", "unreadable", "garbled"}}

MCFiles == DurationFiles \cup ListFiles \cup SkillFiles \cup AgentFiles \cup NoFiles

MCEdits == {Empty, [Empty EXCEPT !.content = "missing"], [Empty EXCEPT !.preRunDelay = Invalid]}

plain == [multicluster |-> FALSE, maxTargets |-> Unset, skillsImage |-> "",
          alertmanagerURL |-> "unset", podNamespace |-> ""]

Environments ==
  {[plain EXCEPT !.multicluster = m, !.maxTargets = n, !.alertmanagerURL = u, !.podNamespace = p] :
     m \in BOOLEAN, n \in {Unset, Invalid, Set(-1), Set(0), Set(2)},
     u \in {"unset", "empty", "http", "https"}, p \in {"", "ns"}}

\* The file and the environment have only the image of skills to do with each other.
MCStarts ==
  [file : {Empty}, env : Environments] \cup [file : MCFiles, env : {plain}]
    \cup [file : SkillFiles, env : {[plain EXCEPT !.skillsImage = "shared"]}]
==============================================================================
