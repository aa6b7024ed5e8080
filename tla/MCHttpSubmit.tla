---------------------------- MODULE MCHttpSubmit ----------------------------
(***************************************************************************)
(* Instances of HttpSubmit for TLC: which call carries which key and which *)
(* request, and what may be wrong with the requests.                       *)
(***************************************************************************)
EXTENDS HttpSubmit

CONSTANTS k1, k2, a, b, s1, s2, s3, s4

(* Three calls race under a key, the third with another request; the fourth *)
(* has a key of its own, which evicts theirs when only one key is kept.     *)
ThreeAndOne == [c \in Calls |-> IF c = s4 THEN k2 ELSE k1]
OneDiffers == [c \in Calls |-> IF c = s3 THEN b ELSE a]

(* Nothing or one thing.                                                    *)
UpToOne == {{}} \cup {{f} : f \in Flaw}

=============================================================================
