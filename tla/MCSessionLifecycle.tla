------------------------- MODULE MCSessionLifecycle -------------------------
(***************************************************************************)
(* SessionLifecycle for TLC.  Requests of one kind are interchangeable: no *)
(* action and no safety property tells two of them apart.  The runs that   *)
(* check temporal properties do not use the symmetry.                      *)
(***************************************************************************)
EXTENDS SessionLifecycle, TLC

Symmetry ==
    UNION {Permutations(K) : K \in {Inbounds, Continues, Stops, Closes,
                                    Results, Fatals, McpFailures}}
=============================================================================
