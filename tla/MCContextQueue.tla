---------------------------- MODULE MCContextQueue ----------------------------
(* Small instances of ContextQueue for TLC. *)
EXTENDS ContextQueue

CommandBatches == {<<"cmd">>, <<"marker">>, <<"sync", "cmd">>}
BindBatches == {<<"cmd">>, <<"tssync", "bind">>, <<"timeline", "marker">>}
=============================================================================
