---------------------------- MODULE MCRpcServer ----------------------------
(***************************************************************************)
(* A small instance of RpcServer for TLC.  Keys and values are sequences   *)
(* of bytes; the key of the deletion begins with the bytes of the other.   *)
(* Of three requests the first is a put, the second is anything and the    *)
(* third is a get.                                                         *)
(***************************************************************************)
EXTENDS RpcServer

Put == [rpc |-> "put", key |-> <<1>>, value |-> <<>>]
Update == [rpc |-> "update", key |-> <<1>>, value |-> <<2, 1>>]
Delete == [rpc |-> "delete", key |-> <<1, 1>>]
Get == [rpc |-> "get", key |-> <<1>>]
Cache == [rpc |-> "cache"]
Info == [rpc |-> "info"]

Calls == {Put, Update, Delete, Get, Cache, Info}
PutAnyGet == <<{Put}, {Update, Delete, Get, Cache, Info}, {Get}>>
=============================================================================
