---------------------------- MODULE BlockBudget ----------------------------
(***************************************************************************)
(* The size of a frame: the bits encode_blk (src/encoder.c) spends on the  *)
(* worst 4x4 block at the finest quantizer, against the buffer of w*h*4    *)
(* bytes encode_frame gives the bit writer.  The writer drops bits without *)
(* telling when its buffer is full, so the encoder is right only if that   *)
(* cannot happen.                                                          *)
(*                                                                         *)
(* A block is built coefficient by coefficient.  Coefficients are grouped  *)
(* in classes: class k is coded in 2k+1 bits (bs_write_se), and the        *)
(* cheapest coefficient of the class is the one counted.  The transform is *)
(* orthonormal, so the energy of the coefficients is that of the residual. *)
(***************************************************************************)
EXTENDS Integers

CONSTANTS
    Coefs,          \* 16 coefficients of a block
    MaxResidual,    \* 255: largest difference of two samples
    StepNum, StepDen,   \* get_qstep(0) = 2^(-4/6), as a fraction from below
    LowClass, HighClass \* classes looked at; see Energy

\* 2^n
Doubling[n \in 0..HighClass] == IF n = 0 THEN 1 ELSE 2 * Doubling[n - 1]

\* Smallest |level| of class k: 2|level| + 1 (the code number of -level, plus
\* one) has k + 1 bits.
LevelOf(k) == IF k = 0 THEN 0 ELSE Doubling[k - 1]

\* Smallest |coefficient| that quant4x4 turns into that level: it adds 1/2 to
\* the quotient and truncates.
CoefOf(k) == IF k = 0 THEN 0
             ELSE ((2 * LevelOf(k) - 1) * StepNum + 2 * StepDen - 1) \div (2 * StepDen)

CodeBits(k) == 2 * k + 1

\* sqrt(16) * 255 bounds the norm of the exact transform; fdct4x4 rounds every
\* coefficient, which adds at most sqrt(16)/2 to the norm.  Coefficients below
\* LowClass are counted as of LowClass, and their energy is granted on top.
SqrtCoefs == CHOOSE r \in 0..Coefs : r * r = Coefs
Norm == SqrtCoefs * MaxResidual + (SqrtCoefs + 1) \div 2
Energy == Norm * Norm + Coefs * CoefOf(LowClass) * CoefOf(LowClass)

\* encode_blk: the nonzero flag and the code of last_sig (at most 15)
BlockOverhead == 1 + 9

\* encode_mb_inter: region, skip flag, two vector components within 32 samples
\* (2 + 1 + 13 + 13); encode_mb_intra needs less.
MbOverhead == 2 + 1 + 13 + 13
BlocksPerMb == 16 + 8
FrameHeader == 1 + 6
\* A faulty variant: one byte of buffer for each luma sample.
BufferBytePerSample == 16 * 16 * 8

BufferBitsPerMb == 16 * 16 * 4 * 8

\* The numbers of the code, and bounds on the classes looked at.
ASSUME BudgetAssumption ==
    /\ Coefs = 16 /\ MaxResidual \in 0..255 /\ StepNum = 62996 /\ StepDen = 100000
    /\ LowClass \in 0..5 /\ HighClass \in Nat /\ LowClass <= HighClass

\* No coefficient is large enough for a class beyond those looked at.
ASSUME ClassesCover == CoefOf(HighClass + 1) > Norm

VARIABLES
    left,       \* coefficients of the block still to choose
    class,      \* class of the last one; they are chosen from large to small
    energy,     \* energy left
    spent       \* bits spent on coefficients

budgetVars == <<left, class, energy, spent>>

BudgetInit ==
    /\ left = Coefs
    /\ class = HighClass
    /\ energy = Energy
    /\ spent = 0

AddCoef ==
    /\ left > 0
    /\ \E k \in LowClass..class :
        /\ CoefOf(k) * CoefOf(k) <= energy
        /\ energy' = energy - CoefOf(k) * CoefOf(k)
        /\ class' = k
        /\ spent' = spent + CodeBits(k)
    /\ left' = left - 1

BudgetSpec == BudgetInit /\ [][AddCoef]_budgetVars

MbBits(b) == MbOverhead + BlocksPerMb * (BlockOverhead + b)

\* A frame of any number of macroblocks, all of them the worst, fits into the
\* buffer with its header: no bit is ever dropped by the encoder's writer.
FrameFits == FrameHeader + MbBits(spent) <= BufferBitsPerMb

=============================================================================
