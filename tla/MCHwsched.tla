----------------------------- MODULE MCHwsched -----------------------------
(* Instances of Hwsched for TLC.                                           *)
EXTENDS Hwsched

Two == 1 .. 2

\* What the contexts queue, and how many accidents may happen
Scene(kinds, accidents) == [kinds |-> kinds, accidents |-> accidents]

\* A marker behind a command in one context; large submissions in both; a
\* sync object for the GMU before two commands.
AllScenes == {Scene(<< <<"cmd", "marker", "cmd">>, <<>> >>, 2),
              Scene(<< <<"big", "marker">>, <<"big">> >>, 1),
              Scene(<< <<"hwsync", "cmd", "cmd">>, <<>> >>, 1)}

OneEach == {Scene(<< <<"cmd">>, <<"cmd">> >>, 1)}

\* How the GPU comes out of a recovery
HardOrSoft == {"hard", "soft"}
Unreset == {"none"}
=============================================================================
