----------------------------- MODULE MCStateBag -----------------------------
(* StateBag for TLC: the cfgs give its constants values directly. *)
EXTENDS StateBag
=============================================================================
