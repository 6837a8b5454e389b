---------------------------- MODULE MCPoolMatch ----------------------------
(***************************************************************************)
(* Instances of PoolMatch for TLC.                                         *)
(***************************************************************************)
EXTENDS PoolMatch, TLC

CONSTANTS general, batch, ssd, p1, p2   \* values of labels; pods

\* A pool of at most one node for the pods that ask for workload=batch.  Its
\* node_labels say that, and with the label "pool" or without it.
Pool(labels) ==
  [name |-> general, selector |-> "workload" :> {batch}, labels |-> labels,
   min |-> 0, max |-> 1]

SomeConfigs ==
  { <<Pool("workload" :> batch @@ "pool" :> general)>>, <<Pool("workload" :> batch)>> }

\* One pod asks for the workload's nodes, the other for an SSD as well.
Selectors ==
  p1 :> ("workload" :> batch) @@ p2 :> ("workload" :> batch @@ "disk" :> ssd)

=============================================================================
