------------------------------ MODULE MCEngine ------------------------------
(* The proxy engine alone, with one service and two plugins: what a client *)
(* meets once a reload is over.                                            *)
EXTENDS Engine

MCServiceOrder == <<"http">>
MCPluginOrder == <<"admission", "bypass">>
=============================================================================
