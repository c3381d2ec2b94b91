------------------------------- MODULE MCNet -------------------------------
(***************************************************************************)
(* The shell's ping and tcp commands on a network with the gateway, a      *)
(* server on the subnet and a host outside it.                             *)
(***************************************************************************)
EXTENDS Tcp

CONSTANTS gw, srv, far

MCHost == {gw, srv, far}
MCLocal == {gw, srv}
=============================================================================
