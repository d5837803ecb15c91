------------------------------ MODULE MCWifiAp ------------------------------
(* WifiAp for TLC.  The callers of the concurrent runs are interchangeable;  *)
(* objects and pthreads are not, since Fresh chooses among them.             *)
EXTENDS WifiApPromise, TLC

CallerSymmetry == Permutations(Caller)

(* Bound of the concurrent run: nothing is promised once freed memory was used, *)
(* so its behaviours are followed up to the step that uses it.                  *)
UntilFault == fault = {}
=============================================================================
