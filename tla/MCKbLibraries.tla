---------------------------- MODULE MCKbLibraries ----------------------------
(* Two ids of libraries, one of them given to a library without a dataset, two *)
(* datasets and two requests at a time.                                        *)
EXTENDS KbLibraries

CONSTANTS l1, l2, d1, d2, r1, r2

MCLibraries == {l1, l2}
MCUnbound == {l2}
MCDatasets == {d1, d2}
MCRequests == {r1, r2}
=============================================================================
