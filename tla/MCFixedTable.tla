----------------------------- MODULE MCFixedTable ------------------------------
EXTENDS FixedTable

CONSTANTS m1, m2

(* The smaller keys meet in one bucket, 4 and 5 in the other.               *)
MCBucketOf == [k \in Keys |-> IF k > 3 THEN m2 ELSE m1]

(* m1 has an extra bucket, and m2 needs one for its next key.               *)
MCLoad == <<1, 2, 4>>
================================================================================
