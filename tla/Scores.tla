------------------------------- MODULE Scores -------------------------------
(***************************************************************************)
(* The f64 scores of sorted sets in the order encode_score gives their     *)
(* bytes (src/cmd/zset.rs).  A score of sign and magnitude m is the number *)
(* m if positive and -m - 1, the complement of m, if negative: the two     *)
(* zeros are 0 and -1, equal as scores and different as bytes.  Magnitudes *)
(* above MaxScore are infinite.                                            *)
(***************************************************************************)
EXTENDS Integers

CONSTANT MaxScore

ASSUME MaxScoreAssumption == MaxScore \in Nat

PosInf == MaxScore + 1
NegInf == -MaxScore - 2
NegZero == -1

ScoreCodes == NegInf..PosInf

\* encode_score of a number, +0 for zero
Code(value) == IF value >= 0 THEN value ELSE value - 1

\* The number decode_score returns, as comparisons see it
Value(code) == IF code >= 0 THEN code ELSE code + 1

IsFinite(code) == NegInf < code /\ code < PosInf

\* a + b is finite.  inf - inf, a NaN, is not.
SumIsFinite(a, b) ==
    /\ IsFinite(a) /\ IsFinite(b)
    /\ LET sum == Value(a) + Value(b) IN -MaxScore <= sum /\ sum <= MaxScore

Plus(a, b) == IF a = NegZero /\ b = NegZero THEN NegZero ELSE Code(Value(a) + Value(b))
=============================================================================
