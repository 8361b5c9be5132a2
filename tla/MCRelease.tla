----------------------------- MODULE MCRelease -----------------------------
(* A root module and a nested one; two kills, one fault and one move by    *)
(* others suffice to kill a release and its recovery, and to race both.    *)
EXTENDS Release
=============================================================================
