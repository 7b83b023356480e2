--------------------------------- MODULE Bits ---------------------------------
(***************************************************************************)
(* Exercise 13: the bit functions on unsigned words of BITS bits (8 in the *)
(* byte functions, 32 in the others), with one more function on numbers:   *)
(* write_int of exercise 23.                                               *)
(*                                                                         *)
(* A register is set, cleared and toggled bit by bit, next to the set of   *)
(* positions that should be on; whatever value it has reached, each        *)
(* function of it is compared with its definition over that set.           *)
(***************************************************************************)
EXTENDS Integers, Sequences, FiniteSets, FiniteSetsExt, SequencesExt

CONSTANT BITS      \* word size

SIZE == 2^BITS
Positions == 0 .. BITS - 1

VARIABLES flags,   \* the register
          on       \* bits that were set last and not cleared since

vars == <<flags, on>>

Init == flags = 0 /\ on = {}

\* The operators of C on words, bit by bit.
Bit(x, n) == (x \div 2^n) % 2
x & y == MapThenSumSet(LAMBDA n : Bit(x, n) * Bit(y, n) * 2^n, Positions)
x | y == MapThenSumSet(LAMBDA n : Max({Bit(x, n), Bit(y, n)}) * 2^n, Positions)
x ^^ y == MapThenSumSet(LAMBDA n : ((Bit(x, n) + Bit(y, n)) % 2) * 2^n, Positions)
shiftR(x, n) == x \div 2^n
Complement(x) == SIZE - 1 - x

bit_set(n) == flags' = (flags | 2^n) /\ on' = on \cup {n}
bit_clear(n) == flags' = (flags & Complement(2^n)) /\ on' = on \ {n}
bit_toggle(n) ==
    /\ flags' = (flags ^^ (2^n))
    /\ on' = IF n \in on THEN on \ {n} ELSE on \cup {n}

Next == \E n \in Positions : bit_set(n) \/ bit_clear(n) \/ bit_toggle(n)

Spec == Init /\ [][Next]_vars

-----------------------------------------------------------------------------
(* The functions *)

bit_test(x, n) == shiftR(x, n) & 1

\* -x wraps around.
lowest_set_bit(x) == x & ((SIZE - x) % SIZE)

popcount[x \in 0 .. SIZE - 1] == IF x = 0 THEN 0 ELSE 1 + popcount[x & (x - 1)]

\* Round i of the loop: the low bit of what is left of x enters r from below.
reverse_bits(x) ==
    LET r[i \in 0 .. BITS] ==
            IF i = 0 THEN 0
            ELSE ((2 * r[i - 1]) | (shiftR(x, i - 1) & 1)) % SIZE
    IN r[BITS]

is_power_of_two(x) == x # 0 /\ (x & (x - 1)) = 0

fits(x) == x <= SIZE \div 2

\* x |= x >> 1, 2, 4 .. as far as half a word: every bit below the top one.
next_power_of_two(x) ==
    IF x = 0 THEN 1
    ELSE IF ~fits(x) THEN 0
    ELSE FoldLeft(LAMBDA w, shift : w | shiftR(w, shift), x - 1, <<1, 2, 4, 8, 16>>) + 1

\* p ^= q; q ^= p; p ^= q, on two objects.
xor_swap(p, q) ==
    LET p1 == p ^^ q
        q1 == q ^^ p1
    IN <<p1 ^^ q1, q1>>

\* Fields of W[1], W[2] and W[3] bits (5, 6 and 5), each masked to its width.
rgb565_pack(W, r, g, b) ==
    ((r & (2^W[1] - 1)) * 2^(W[2] + W[3])) | ((g & (2^W[2] - 1)) * 2^W[3]) | (b & (2^W[3] - 1))
rgb565_r(W, c) == shiftR(c, W[2] + W[3]) & (2^W[1] - 1)
rgb565_g(W, c) == shiftR(c, W[3]) & (2^W[2] - 1)
rgb565_b(W, c) == c & (2^W[3] - 1)

\* The digits of an int, the last first, and whether a minus sign is written
\* (INT_MIN, which has no negation, is not a count the handler reaches).
write_int(n) ==
    LET digits[m \in Nat] == IF m < 10 THEN <<m>> ELSE <<m % 10>> \o digits[m \div 10]
    IN [neg |-> n < 0, digits |-> digits[IF n < 0 THEN 0 - n ELSE n]]

-----------------------------------------------------------------------------
Value(S) == MapThenSumSet(LAMBDA n : 2^n, S)
PowersOfTwo == {2^n : n \in Positions}

\* The register holds exactly the bits that are on, whatever the sequence of
\* calls, and bit_test reads each of them.
RegisterExact ==
    /\ flags = Value(on)
    /\ \A n \in Positions : bit_test(flags, n) = IF n \in on THEN 1 ELSE 0

\* Counting, isolating and reversing bits agree with the set of bits.
CountsRight ==
    /\ popcount[flags] = Cardinality(on)
    /\ lowest_set_bit(flags) = IF on = {} THEN 0 ELSE 2^Min(on)
    /\ reverse_bits(flags) = Value({BITS - 1 - n : n \in on})

\* The least power of two not below the word, or 0 where none fits in a word.
RoundsUp ==
    LET above == {p \in PowersOfTwo : p >= flags}
    IN /\ next_power_of_two(flags) = IF above = {} THEN 0 ELSE Min(above)
       /\ is_power_of_two(flags) <=> flags \in PowersOfTwo

\* Swapping exchanges, and a packed colour has the low bits of each channel.
RoundTrips ==
    /\ \A q \in 0 .. 15 : xor_swap(flags, q) = <<q, flags>>
    /\ \A g \in 0 .. 15, b \in 0 .. 7 :
         LET W == <<2, 3, 2>>
             c == rgb565_pack(W, flags, g, b)
         IN <<rgb565_r(W, c), rgb565_g(W, c), rgb565_b(W, c)>> = <<flags % 4, g % 8, b % 4>>

\* The digits are the number's, the last one first.
DigitsRight ==
    \A n \in {flags, -flags} :
      LET w == write_int(n)
      IN /\ w.neg <=> n < 0
         /\ n = (IF w.neg THEN -1 ELSE 1)
                * MapThenSumSet(LAMBDA k : w.digits[k] * 10^(k - 1), DOMAIN w.digits)
         /\ Len(w.digits) > 1 => Last(w.digits) # 0
===============================================================================
