--------------------------- MODULE MCConcurrency ---------------------------
(***************************************************************************)
(* Concurrency for TLC.                                                    *)
(***************************************************************************)
EXTENDS Concurrency

\* What an application must keep apart for the code to be correct.
NeededApart ==
  {{"receive"}, {"destroy"}, {"destroy", "post_recv"}, {"destroy", "receive"}}
=============================================================================
