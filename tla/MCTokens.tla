------------------------------- MODULE MCTokens -------------------------------
(* Four ids, a negative one among them; arrays of up to three, with          *)
(* duplicates and in any order, and every set of ids as the operand.         *)
EXTENDS Tokens, SequencesExt

MCIDs == {-1, 2, 3, 5}
MCArrays == BoundedSeq({-1, 2, 3}, 3)
MCOperands == {s \in BoundedSeq(IDs, 4) : Increasing(s)}
===============================================================================
