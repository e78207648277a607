---------------------------- MODULE MCClassifier ----------------------------
EXTENDS Classifier

(* Two KNI ports on one link and one on the other, all for one GTP port.   *)
ThreePorts == <<[link |-> 0, ip |-> "NGu0", port_no |-> 2152],
                [link |-> 0, ip |-> "NGu1", port_no |-> 2152],
                [link |-> 1, ip |-> "F1u0", port_no |-> 2152]>>
=============================================================================
