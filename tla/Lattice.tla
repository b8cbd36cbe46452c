--------------------------------- MODULE Lattice --------------------------------
(***************************************************************************)
(* The lattice of lattice.h for integers, control and tuples, and what     *)
(* peep_int.h computes on it.  An integer is a range and the bits known to *)
(* be zero and one (sets of bit positions); widen counts the steps a phi   *)
(* has taken.  Words have WORD bits, 64 in the code.                       *)
(***************************************************************************)
EXTENDS Integers, Sequences, FiniteSetsExt

CONSTANTS WORD, INT_WIDEN_LIMIT

ASSUME LatticeAssumption == WORD \in Nat \ {0} /\ INT_WIDEN_LIMIT \in Nat

Top  == [tag |-> "top"]
Bot  == [tag |-> "bot"]
Live == [tag |-> "live"]
Dead == [tag |-> "dead"]
Int_(min, max, zeros, ones, widen) ==
    [tag |-> "int", min |-> min, max |-> max, zeros |-> zeros, ones |-> ones, widen |-> widen]
Tuple(elems) == [tag |-> "tuple", elems |-> elems]

\* Data types by their number of bits.
Ctrl == 0
TupleType == -1

-----------------------------------------------------------------------------
(* Words                                                                    *)

AllBits == 0 .. WORD - 1
Mask(bits) == 0 .. bits - 1
\* The bits of a word that is read as a signed number, and the way back.
BitsOf(x) == {i \in AllBits : (x \div 2^i) % 2 = 1}
SignExtend(x, bits) == ((x + 2^(bits - 1)) % 2^bits) - 2^(bits - 1)
NumberOf(b) == SignExtend(SumSet({2^i : i \in b}), WORD)
\* What is left of x under the mask, read as a signed word.
Masked(x, bits) == SignExtend(x % 2^bits, WORD)

IntMin(bits) == -(2^(bits - 1))
IntMax(bits) == 2^(bits - 1) - 1
\* The sign bit and everything above it.
SignBits(bits) == BitsOf(IntMin(bits))

-----------------------------------------------------------------------------
(* Elements                                                                 *)

IntConst(x) == Int_(x, x, AllBits \ BitsOf(x), BitsOf(x), 0)
\* value_int: a constant of the graph; what is above its width counts as zero.
ValueInt(x, bits) ==
    LET v == SignExtend(x, bits)
    IN  Int_(v, v, (AllBits \ BitsOf(v)) \cup (AllBits \ Mask(bits)), BitsOf(v) \cap Mask(bits), 0)
Bool == Int_(-1, 0, {}, {}, 0)
FullRange(bits, widen) == Int_(IntMin(bits), IntMax(bits), AllBits \ Mask(bits), {}, widen)
FromDt(bits) ==
    CASE bits = Ctrl -> Live
      [] bits = 1    -> Bool
      [] bits > 1    -> FullRange(bits, 0)
      [] OTHER       -> Bot

IsConst(l) == l.tag = "int" /\ l.min = l.max
IsUnsigned(l) == l.tag = "int" /\ l.min % 2^WORD <= l.max % 2^WORD

MinOf(x, y) == IF x < y THEN x ELSE y
MaxOf(x, y) == IF x > y THEN x ELSE y

MeetInt(a, b) ==
    Int_(MinOf(a.min, b.min), MaxOf(a.max, b.max), a.zeros \cap b.zeros, a.ones \cap b.ones, MaxOf(a.widen, b.widen))
\* All but tuples.
MeetFlat(a, b) ==
    CASE a = b                              -> a
      [] a = Top                            -> b
      [] b = Top                            -> a
      [] a.tag = "int" /\ b.tag = "int"     -> MeetInt(a, b)
      [] {a, b} = {Live, Dead}              -> Live
      [] OTHER                              -> Bot
\* lattice_meet; the elements of a tuple are no tuples.
Meet(a, b) ==
    IF a.tag = "tuple" /\ b.tag = "tuple" /\ Len(a.elems) = Len(b.elems)
    THEN Tuple([i \in DOMAIN a.elems |-> MeetFlat(a.elems[i], b.elems[i])])
    ELSE MeetFlat(a, b)

\* The values an element of the lattice stands for.
Has(l, v, bits) ==
    \/ l = Bot
    \/ /\ l.tag = "int" /\ l.min <= v /\ v <= l.max
       /\ l.zeros \cap BitsOf(v) \cap Mask(bits) = {}
       /\ l.ones \cap Mask(bits) \subseteq BitsOf(v)

-----------------------------------------------------------------------------
(* Arithmetic                                                               *)

\* The bits of a sum or difference whose carries are known.
KnownCarries(a, b, min, max) ==
    LET xor(x, y) == (x \ y) \cup (y \ x)
        ones == AllBits \ xor(xor(BitsOf(max), a.zeros), b.zeros)
        zeros == xor(xor(BitsOf(min), a.ones), b.ones)
    IN  (a.zeros \cup a.ones) \cap (b.zeros \cup b.ones) \cap (zeros \cup ones)

\* A range that ends where it starts is a constant; otherwise its ends, moved by d for the
\* carry that comes in, say which bits are known.
Range_(a, b, bits, min, max, d, overflow) ==
    IF min = max THEN IntConst(min)
    ELSE LET lo == IF d = 0 THEN min ELSE Masked(min + d, bits)
             hi == IF d = 0 THEN max ELSE Masked(max + d, bits)
             known == IF overflow THEN {} ELSE KnownCarries(a, b, lo, hi)
         IN  Int_(min, max, (known \ BitsOf(hi)) \cup (AllBits \ Mask(bits)), known \cap BitsOf(lo) \cap Mask(bits), 0)

ValueAdd(a, b, bits) ==
    LET min == Masked(a.min + b.min, bits)
        max == Masked(a.max + b.max, bits)
        u == (BitsOf(a.min) \cap BitsOf(b.min)) \ BitsOf(min)
        v == BitsOf(max) \ (BitsOf(a.max) \cup BitsOf(b.max))
        overflow == ~(IsConst(a) /\ IsConst(b)) /\ (u \cup v) \cap SignBits(bits) # {}
    IN  IF overflow THEN Range_(a, b, bits, IntMin(bits), IntMax(bits), 0, TRUE)
        ELSE Range_(a, b, bits, SignExtend(min, bits), SignExtend(max, bits), 0, FALSE)

\* The overflow flag of the subtraction is a variable of its own and does not reach the
\* known bits.
ValueSub(a, b, bits) ==
    LET min == Masked(a.min - b.max, bits)
        max == Masked(a.max - b.min, bits)
        differ(x, y) == (BitsOf(x) \ BitsOf(y)) \cup (BitsOf(y) \ BitsOf(x))
        u == differ(a.min, b.max) \cup differ(a.min, min)
        v == differ(a.max, b.min) \cup differ(a.max, max)
        overflow == ~(IsConst(a) /\ IsConst(b)) /\ SignBits(bits) \ (u \cap v) # {}
    IN  IF overflow THEN Range_(a, b, bits, IntMin(bits), IntMax(bits), 1, FALSE)
        ELSE Range_(a, b, bits, SignExtend(min, bits), SignExtend(max, bits), 1, FALSE)

\* lattice_int_lt, _le, _gt, _ge ask both ends: a difference that wrapped may end below
\* where it starts.
BothEnds(c) == {c.min, c.max}
\* value_cmp: what the sign of the difference says, as a boolean; otherwise the type's own.
ValueCmp(op, a, b, bits) ==
    LET c == ValueSub(a, b, bits)
        unsigned == IsUnsigned(a) /\ IsUnsigned(b)
        yes == CASE op = "eq"  -> IsConst(c) /\ c.min = 0
                 [] op = "ne"  -> IsConst(c) /\ c.min # 0
                 [] op = "slt" -> \A e \in BothEnds(c) : e < 0
                 [] op = "sle" -> \A e \in BothEnds(c) : e <= 0
                 [] op = "ult" -> unsigned /\ (\A e \in BothEnds(c) : e < 0)
                 [] op = "ule" -> unsigned /\ (\A e \in BothEnds(c) : e <= 0)
        no ==  CASE op = "eq"  -> IsConst(c) /\ c.min # 0
                 [] op = "ne"  -> IsConst(c) /\ c.min = 0
                 [] op = "slt" -> \A e \in BothEnds(c) : e >= 0
                 [] op = "sle" -> \A e \in BothEnds(c) : e > 0
                 [] op = "ult" -> unsigned /\ (\A e \in BothEnds(c) : e >= 0)
                 [] op = "ule" -> unsigned /\ (\A e \in BothEnds(c) : e > 0)
    IN  IF yes THEN IntConst(-1) ELSE IF no THEN IntConst(0) ELSE FromDt(1)
===============================================================================
