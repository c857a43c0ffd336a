------------------------------- MODULE MCBoot -------------------------------
(* Boot for TLC, at the constants of the build: conf.h, proc.h, spinlock.h. *)
EXTENDS Boot
=============================================================================
