---------------------------- MODULE MC_HalcsAcq ----------------------------
(***************************************************************************)
(* Instances of HalcsAcq for TLC.  A block holds NMax = 4 \div 2 = 2       *)
(* samples.  Request ReqEven asks 1 + 1 samples: get_curve's loop bound    *)
(* 2 \div 2 = 1 makes it fetch a second, empty block (the spec's scenario  *)
(* B).  ReqOdd asks 1 + 2 samples: a full block and a half one.  Buffer    *)
(* size 3 is too small for either curve, so the clamp of line 1198 acts;   *)
(* 8 is the roomy buffer of examples/acq_trigger.c.                        *)
(***************************************************************************)
EXTENDS HalcsAcq

ReqEven == [pre |-> 1, post |-> 1, shots |-> 1]
ReqOdd  == [pre |-> 1, post |-> 2, shots |-> 1]

MCRequests == {ReqEven, ReqOdd}
\* The server accepts every start.
MCAcceptedAll == MCRequests
\* The server rejects the odd request (say, too few samples for a trigger).
MCAcceptedEven == {ReqEven}
MCCapacities == {3, 8}
\* 1000 ms is the library's default; -1 waits "forever".
MCTimeouts == {-1, 1000}
MCTimeoutsZero == {0, 1000}
\* Stands for 2^32: larger than every number the instances reach.
MCWord == 1073741824
=============================================================================
