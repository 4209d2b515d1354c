--------------------------- MODULE MCRcRequester ---------------------------
(* Instances of RcRequester for TLC. *)
EXTENDS RcRequester

Req(op, len, sig, fault) ==
  [op |-> op, len |-> len, va |-> 1, sig |-> sig, fault |-> fault]

\* One packet, a message longer than the window, a WR that fails, a local one,
\* and one whose list cannot be mapped, which ends the process.
MixedRequests == {Req("SEND", 1, TRUE, "none"), Req("SEND_IMM", 7, FALSE, "none"),
                  Req("WRITE", 5, TRUE, "mrs"), Req("LOCAL", 1, TRUE, "none"),
                  Req("WRITE", 1, TRUE, "map")}
NearWrap == {PsnMod - 2}
=============================================================================
