---------------------------- MODULE MCLocalhost -----------------------------
(* A small instance of Localhost, with the Daemon and its Pipeline, for TLC. *)
EXTENDS Localhost, TLC

CONSTANTS f1, f2, u1, u2, poll, c1, devtool

MCFields == {f1, f2}
MCUsers == {u1, u2}
MCClients == {poll, c1}
MCDevtools == {devtool}
=============================================================================
