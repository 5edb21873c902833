------------------------------ MODULE MCRpcCall ------------------------------
(* RpcCall with both systems and a misdirected client.                     *)
EXTENDS RpcCall

EachToItsOwnAndOneStray == {<<"file", "file">>, <<"info", "info">>, <<"info", "file">>}

=============================================================================
