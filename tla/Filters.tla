------------------------------ MODULE Filters ------------------------------
(* What a list comprehension of the source leaves of a list, and what its   *)
(* sum of one is.  They are recursive functions, of which the proofs know   *)
(* what they are; they know nothing of SelectSeq, and of no fold.           *)
LOCAL INSTANCE Naturals
LOCAL INSTANCE Sequences

(* s without what is in S. *)
Without(s, S) ==
    LET left[n \in 0..Len(s)] ==
            IF n = 0 THEN << >>
            ELSE IF s[n] \in S THEN left[n - 1] ELSE Append(left[n - 1], s[n])
    IN left[Len(s)]

(* The numbers of s together. *)
SumOf(s) ==
    LET upTo[n \in 0..Len(s)] == IF n = 0 THEN 0 ELSE upTo[n - 1] + s[n]
    IN upTo[Len(s)]
=============================================================================
