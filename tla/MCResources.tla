---------------------------- MODULE MCResources ----------------------------
(***************************************************************************)
(* Instances of Resources: scatter lists over two MRs, one of them naming  *)
(* both.                                                                   *)
(***************************************************************************)
EXTENDS Resources

TwoMrs == {<<0, 1>>, <<1>>}

\* At most two WRs in all queues together, and three PDs, CQs and AHs.
WrPlaces == UNION {{q} \X (1 .. Len(HeldByQp(qps[q]))) : q \in DOMAIN qps}

FewObjects ==
  /\ Cardinality(DOMAIN pds) + Cardinality(DOMAIN cqs) + Cardinality(DOMAIN ahs) <= 3
  /\ Cardinality(WrPlaces) <= 2
=============================================================================
