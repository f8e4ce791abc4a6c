------------------------------ MODULE MCRxRates ------------------------------
(* Two RDMA senders, which share a pool, and one of the kernel's classes.        *)
EXTENDS RxRates

CONSTANTS f1, f2, f3

MCFlowSets == {f1, f2, f3}
MCRdma == {f1, f2}
MCSteady == {f3}
==============================================================================
