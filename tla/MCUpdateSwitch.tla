---------------------------- MODULE MCUpdateSwitch ----------------------------
(* Instances of UpdateSwitch for TLC. *)
EXTENDS UpdateSwitch, TLC

\* Releases and texts are interchangeable.
Symmetry == Permutations(Rel) \cup Permutations(Texts)

\* The properties say nothing of a command that goes by an old state.json; one
\* that has read an old one and still waits either gives up or becomes such.
InTime ==
    /\ ~raced
    /\ asked.enable \in {None, state}
    /\ asked.disable \in {None, UndoSource}
\* WayBack says nothing once enable began without the record of an entry, or a switch was
\* recorded without the enable record.
Recorded == ~forgot /\ ~bare

\* A behaviour has a death or a loss of the store, not both.
OneUpset == spent["death"] + spent["loss"] <= 1
=============================================================================
