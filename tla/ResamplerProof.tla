---------------------------- MODULE ResamplerProof ----------------------------
(***************************************************************************)
(* Theorems about Resampler, for every number of channels, table of        *)
(* qualities, sequence of changes and length of buffers.                   *)
(***************************************************************************)
EXTENDS Resampler, WellFoundedInduction, TLAPS

Heard == Int \X Int \X Int

(* The state with m as its memory.                                         *)
States(m) ==
    [rates : Ratios, num_rate : Nat \ {0}, den_rate : Nat \ {0},
     quality : Qualities, started : BOOLEAN,
     resampler : {"direct", "interpolate", "zero"},
     int_advance : Nat, frac_advance : Nat, oversample : Nat,
     filt_len : Nat, mem_alloc_size : Nat, sinc_table_length : Nat,
     last_sample : [Channels -> Nat], samp_frac_num : [Channels -> Nat],
     magic_samples : [Channels -> Nat], mem : {m}]

(* A filter is a whole number of samples to both sides of its middle, and  *)
(* fits in the memory with the magic samples and with the next chunk.      *)
LayoutOK(s) ==
    /\ s \in States(s.mem)
    /\ s.filt_len \in Nat \ {0} /\ s.filt_len % 2 = 0
    /\ s.mem \in [0..(NbChannels * s.mem_alloc_size - 1) -> Heard]
    /\ \A c \in Channels :
          s.filt_len + 2 * s.magic_samples[c] - 1 + BufferSize <= s.mem_alloc_size
    /\ ~s.started => \A c \in Channels : s.magic_samples[c] = 0

Reduced == {<<r[1] \div Gcd(r[1], r[2]), r[2] \div Gcd(r[1], r[2])>> : r \in Ratios}

RatioOK(s) == <<s.num_rate, s.den_rate>> \in Reduced

(* The steps are those of the rates, and the table was filled for them.    *)
StepsOK(s) ==
    /\ s.int_advance = s.num_rate \div s.den_rate
    /\ s.frac_advance = s.num_rate % s.den_rate
    /\ s.resampler = "direct" => s.filt_len * s.den_rate <= s.sinc_table_length
    /\ s.resampler = "interpolate" =>
          /\ s.oversample \in 1..Oversample[s.quality]
          /\ s.filt_len * s.oversample + 8 <= s.sinc_table_length

(* The call that is running: what it has used and made it was given, and   *)
(* the magic samples go first.                                             *)
CallOK ==
    call = Idle \/
       /\ call \in [pc : {"begin", "run", "rest", "end"}, kind : {"float", "int"},
                    chan : Channels, ilen : Nat, olen : Nat, in : Nat, out : Nat,
                    n : Nat, room : Nat, made : Nat, magic : BOOLEAN]
       /\ call.ilen <= call.in /\ call.olen <= call.out
       /\ call.pc \in {"run", "rest"} => st.started /\ call.room <= call.olen
       /\ call.pc = "rest" => st.magic_samples[call.chan] = 0
       /\ call.pc = "run" =>
             /\ call.made <= call.room
             /\ IF call.magic THEN call.n = st.magic_samples[call.chan]
                ELSE /\ st.magic_samples[call.chan] = 0 /\ call.n <= call.ilen
                     /\ call.n <= st.mem_alloc_size - (st.filt_len - 1)

(* How much of the memory of a channel is in use.                          *)
Extent(c) ==
    st.filt_len + st.magic_samples[c] - 1
        + (IF call.pc = "run" /\ ~call.magic /\ call.chan = c THEN call.n ELSE 0)

(* Which sample belongs at place j of the memory of a channel that has     *)
(* taken tk, and that its first e places hold them: what was before lo may *)
(* have been forgotten.                                                    *)
Place(s, c, tk, j) == tk - s.magic_samples[c] + j - s.filt_len + 2

Holds(s, c, e, tk, lo, str) ==
    \A j \in 0..(e - 1) :
       \/ Entry(s, c, j) = Silence /\ Place(s, c, tk, j) <= lo
       \/ Entry(s, c, j) = <<str, c, Place(s, c, tk, j)>> /\ Place(s, c, tk, j) >= 1

Remembered(c) == Holds(st, c, Extent(c), taken[c], lost[c], stream)

IInv ==
    /\ LayoutOK(st) /\ RatioOK(st) /\ CallOK
    /\ taken \in [Channels -> Nat] /\ lost \in [Channels -> Nat]
    /\ stream \in Nat \ {0} /\ overflowed \in BOOLEAN
    /\ ~st.started => \A c \in Channels : taken[c] = 0
    /\ ~overflowed => /\ StepsOK(st)
                      /\ \A c \in Channels : st.samp_frac_num[c] < st.den_rate
    /\ \A c \in Channels : c = 0 \/ stream = 1 => Remembered(c)

(* The larger of two is one of them.                                       *)
LEMMA MaxOfTwo ==
    ASSUME NEW a \in Int, NEW b \in Int
    PROVE  /\ Max({a, b}) \in {a, b}
           /\ Max({a, b}) >= a /\ Max({a, b}) >= b
<1>1. \E x \in {a, b} : \A y \in {a, b} : x >= y
    <2>1. CASE a >= b
        BY <2>1
    <2>2. CASE ~(a >= b)
        BY <2>2
    <2> QED
        BY <2>1, <2>2
<1> QED
    BY <1>1 DEF Max

(* Of numbers that are not above a bound one is the greatest.              *)
LEMMA MaxExists ==
    ASSUME NEW S, NEW b \in Nat, S \subseteq 0..b, S # {}
    PROVE  Max(S) \in S /\ \A y \in S : Max(S) >= y
<1> DEFINE T == {b - x : x \in S}
<1>1. T \subseteq Nat /\ T # {}
    OBVIOUS
<1>2. PICK t \in T : \A u \in T : ~(<<u, t>> \in OpToRel(<, Nat))
    BY <1>1, WFMin, NatLessThanWellFounded
<1>3. \A u \in T : ~(u < t)
    BY <1>1, <1>2 DEF OpToRel
<1>4. PICK x \in S : t = b - x
    OBVIOUS
<1>5. \A y \in S : x >= y
    <2> SUFFICES ASSUME NEW y \in S PROVE x >= y
        OBVIOUS
    <2>1. b - y \in T
        OBVIOUS
    <2> QED
        BY <1>3, <1>4, <2>1
<1>6. \E z \in S : \A y \in S : z >= y
    BY <1>5
<1> QED
    BY <1>6 DEF Max

(* Products, quotients and remainders of naturals.                         *)
LEMMA TimesNat ==
    ASSUME NEW a \in Nat, NEW b \in Nat
    PROVE  a * b \in Nat
OBVIOUS

(* A product with the same factor keeps order.                             *)
LEMMA TimesMono ==
    ASSUME NEW a \in Int, NEW b \in Int, NEW c \in Nat, a <= b
    PROVE  a * c <= b * c
OBVIOUS

(* What is less as a product with the same factor is less.                 *)
LEMMA TimesLess ==
    ASSUME NEW a \in Int, NEW b \in Int, NEW c \in Nat \ {0}, a * c < b * c
    PROVE  a < b
OBVIOUS

(* A number is its quotient times the divisor, and the remainder.          *)
LEMMA DivMod ==
    ASSUME NEW a \in Nat, NEW b \in Nat \ {0}
    PROVE  /\ a \div b \in Nat /\ a % b \in Nat /\ a % b < b
           /\ a = (a \div b) * b + (a % b)
           /\ (a \div b) * b <= a /\ a \div b <= a
OBVIOUS

(* There is one quotient and one remainder.                                *)
LEMMA DivModIs ==
    ASSUME NEW b \in Nat \ {0}, NEW q \in Nat, NEW m \in Nat, m < b
    PROVE  (q * b + m) \div b = q /\ (q * b + m) % b = m
OBVIOUS

(* An even number is twice its half.                                       *)
LEMMA Halves ==
    ASSUME NEW n \in Nat, n % 2 = 0
    PROVE  n \div 2 \in Nat /\ n = 2 * (n \div 2)
OBVIOUS

(* The part of a product that is asked for.                                *)
LEMMA MultiplyFracNat ==
    ASSUME NEW v \in Nat, NEW num \in Nat, NEW den \in Nat \ {0}
    PROVE  /\ MultiplyFrac(v, num, den) \in Nat
           /\ v > 0 /\ num > den => MultiplyFrac(v, num, den) > 0
           /\ v < den => MultiplyFrac(v, num, den) = (v * num) \div den
<1> DEFINE q == v \div den
           m == v % den
           p == (m * num) \div den
<1>1. q \in Nat /\ m \in Nat /\ v = q * den + m /\ m < den
    BY DivMod
<1>2. m * num \in Nat /\ q * num \in Nat
    BY <1>1, TimesNat
<1>3. p \in Nat /\ m * num < p * den + den
    <2> HIDE DEF q, m
    <2> DEFINE b == m * num
    <2>2. b \in Nat
        BY <1>2
    <2> HIDE DEF b
    <2>3. b \div den \in Nat /\ b = (b \div den) * den + (b % den) /\ b % den < den
        BY <2>2, DivMod
    <2>4. (b \div den) * den \in Nat /\ b % den \in Nat
        BY <2>2, <2>3, DivMod, TimesNat
    <2> QED
        BY <2>2, <2>3, <2>4 DEF b
<1>4. MultiplyFrac(v, num, den) = p + q * num
    BY DEF MultiplyFrac
<1>5. v < den => q = 0 /\ m = v
    OBVIOUS
<1>6. ASSUME v > 0, num > den PROVE p + q * num > 0
    <2> HIDE DEF q, m, p
    <2>1. CASE q = 0
        <3>1. m >= 1
            BY <1>1, <1>6, <2>1
        <3>2. 1 * num <= m * num
            BY <1>1, <3>1, TimesMono
        <3>3. p # 0
            BY <1>2, <1>3, <1>6, <3>2
        <3> QED
            BY <1>2, <1>3, <3>3
    <2>2. CASE q # 0
        <3>1. 1 * num <= q * num
            BY <1>1, <2>2, TimesMono
        <3> QED
            BY <1>2, <1>3, <1>6, <3>1
    <2> QED
        BY <2>1, <2>2
<1>7. v < den => p = (v * num) \div den
    BY <1>5
<1> HIDE DEF q, m, p
<1>8. v < den => q * num = 0
    BY <1>5
<1> QED
    BY <1>2, <1>3, <1>4, <1>6, <1>7, <1>8

(* A part of a whole, in other units, is less than the whole.               *)
LEMMA QuotientLess ==
    ASSUME NEW v \in Nat, NEW num \in Nat \ {0}, NEW den \in Nat \ {0}, v < den
    PROVE  (v * num) \div den < num
<1> DEFINE p == v * num
           q == p \div den
<1>1. p \in Nat /\ num * den \in Nat
    BY TimesNat
<1> HIDE DEF p
<1>2. q \in Nat /\ q * den <= p
    BY <1>1, DivMod
<1> HIDE DEF q
<1>3. p < num * den
    <2>1. (v + 1) * num <= den * num
        BY TimesMono
    <2>2. (v + 1) * num = v * num + num /\ den * num = num * den
        OBVIOUS
    <2> QED
        BY <1>1, <2>1, <2>2 DEF p
<1>4. q * den \in Nat
    BY <1>2, TimesNat
<1>5. q * den < num * den
    BY <1>1, <1>2, <1>3, <1>4
<1>6. q < num
    BY <1>2, <1>5, TimesLess
<1> QED
    BY <1>6 DEF q, p

(* Lengths are rounded up to an even number, above nothing.                *)
LEMMA RoundUpEven ==
    ASSUME NEW n \in Nat \ {0}
    PROVE  RoundUp(n) \in Nat \ {0} /\ RoundUp(n) % 2 = 0
<1> DEFINE q == (n - 1) \div Multiple
           h == Multiple \div 2
<1>1. Multiple \in Nat \ {0} /\ Multiple % 2 = 0
    BY ResamplerAssumption
<1>2. q \in Nat
    <2>1. n - 1 \in Nat
        OBVIOUS
    <2> QED
        BY <1>1, <2>1, DivMod
<1>3. h \in Nat /\ Multiple = 2 * h
    BY <1>1, Halves
<1>4. RoundUp(n) = q * Multiple + Multiple
    BY DEF RoundUp
<1> HIDE DEF q, h
<1>5. q * h \in Nat /\ q * Multiple = 2 * (q * h)
    BY <1>2, <1>3, TimesNat
<1>6. RoundUp(n) = 2 * (q * h + h)
    BY <1>3, <1>4, <1>5
<1>7. RoundUp(n) \in Nat \ {0}
    BY <1>1, <1>4, <1>3, <1>5
<1> QED
    BY <1>3, <1>5, <1>6, <1>7

(* A greatest common divisor divides, and what is left is not nothing.     *)
LEMMA GcdDivides ==
    ASSUME NEW a \in Nat \ {0}, NEW b \in Nat \ {0}
    PROVE  /\ Gcd(a, b) \in Nat \ {0}
           /\ a \div Gcd(a, b) \in Nat \ {0} /\ b \div Gcd(a, b) \in Nat \ {0}
           /\ b \div Gcd(a, b) <= b
<1> DEFINE D == {d \in 1..a : a % d = 0 /\ b % d = 0}
           g == Gcd(a, b)
<1>1. D \subseteq 0..a
    OBVIOUS
<1>2. 1 \in D
    OBVIOUS
<1>3. g \in D
    BY <1>1, <1>2, MaxExists DEF Gcd
<1>4. g \in Nat \ {0} /\ g <= a /\ a % g = 0 /\ b % g = 0
    BY <1>3
<1> HIDE DEF D, g
<1>5. /\ a \div g \in Nat /\ a = (a \div g) * g + 0
      /\ b \div g \in Nat /\ b = (b \div g) * g + 0 /\ b \div g <= b
    BY <1>4, DivMod
<1>6. a \div g # 0 /\ b \div g # 0
    <2>1. 0 * g = 0
        BY <1>4
    <2> QED
        BY <1>5, <2>1
<1> QED
    BY <1>4, <1>5, <1>6 DEF g

(* What a reduced ratio is.                                                *)
LEMMA ReducedRatio ==
    ASSUME NEW r \in Reduced
    PROVE  /\ r = <<r[1], r[2]>> /\ r[1] \in Nat \ {0} /\ r[2] \in Nat \ {0}
           /\ \A q \in Qualities : r[2] * Oversample[q] <= MaxWord
<1>1. PICK p \in Ratios : r = <<p[1] \div Gcd(p[1], p[2]), p[2] \div Gcd(p[1], p[2])>>
    BY DEF Reduced
<1>2. p[1] \in Nat \ {0} /\ p[2] \in Nat \ {0}
    BY ResamplerAssumption
<1>3. r[1] \in Nat \ {0} /\ r[2] \in Nat \ {0} /\ r[2] <= p[2]
    BY <1>1, <1>2, GcdDivides
<1>4. ASSUME NEW q \in Qualities PROVE r[2] * Oversample[q] <= MaxWord
    <2>1. p[2] * Oversample[q] <= MaxWord /\ Oversample[q] \in Nat /\ MaxWord \in Nat
        BY ResamplerAssumption
    <2>2. r[2] * Oversample[q] <= p[2] * Oversample[q]
        BY <1>2, <1>3, <2>1, TimesMono
    <2>3. r[2] * Oversample[q] \in Nat /\ p[2] * Oversample[q] \in Nat
        BY <1>2, <1>3, <2>1, TimesNat
    <2> QED
        BY <2>1, <2>2, <2>3
<1> QED
    BY <1>1, <1>3, <1>4

-----------------------------------------------------------------------------
(* What update_filter computes.                                            *)

(* What is known of the fields that it computes from.                      *)
Rated(s) == s.num_rate \in Nat \ {0} /\ s.den_rate \in Nat \ {0} /\ s.quality \in Qualities

(* The length of a filter is even.                                         *)
LEMMA NewLengthEven ==
    ASSUME NEW s, Rated(s)
    PROVE  NewLength(s) \in Nat \ {0} /\ NewLength(s) % 2 = 0
<1> DEFINE base == BaseLength[s.quality]
           longer == MultiplyFrac(base, s.num_rate, s.den_rate)
<1>1. base \in Nat \ {0} /\ base % 2 = 0
    BY ResamplerAssumption DEF Rated
<1>2. CASE s.num_rate > s.den_rate
    <2>1. longer \in Nat \ {0}
        <3> DEFINE a == s.num_rate
                   b == s.den_rate
        <3>1. a \in Nat /\ b \in Nat \ {0} /\ a > b /\ base \in Nat /\ base > 0
            BY <1>1, <1>2 DEF Rated
        <3> HIDE DEF base, a, b
        <3>2. MultiplyFrac(base, a, b) \in Nat /\ MultiplyFrac(base, a, b) > 0
            BY <3>1, MultiplyFracNat
        <3> QED
            BY <3>2 DEF a, b
    <2>2. RoundUp(longer) \in Nat \ {0} /\ RoundUp(longer) % 2 = 0
        BY <2>1, RoundUpEven
    <2>3. NewLength(s) = RoundUp(longer)
        BY <1>2 DEF NewLength
    <2> QED
        BY <2>2, <2>3
<1>3. CASE ~(s.num_rate > s.den_rate)
    BY <1>1, <1>3 DEF NewLength
<1> QED
    BY <1>2, <1>3

(* The table never has more positions than the quality says.               *)
LEMMA NewOversampleLess ==
    ASSUME NEW s, Rated(s)
    PROVE  NewOversample(s) \in 1..Oversample[s.quality]
<1> DEFINE o == Oversample[s.quality]
           half(n, k) == IF k * s.den_rate < s.num_rate THEN n \div 2 ELSE n
<1>1. o \in Nat \ {0}
    BY ResamplerAssumption DEF Rated
<1>2. ASSUME NEW n \in 0..o, NEW k \in Nat PROVE half(n, k) \in 0..o
    <2>1. n \div 2 \in 0..o
        BY <1>1
    <2> QED
        BY <2>1
<1> DEFINE a == half(o, 2)
           b == half(a, 4)
           c == half(b, 8)
           d == half(c, 16)
<1>3. NewOversample(s) = Max({1, d})
    BY DEF NewOversample
<1> HIDE DEF half, o
<1>4. a \in 0..o
    BY <1>1, <1>2
<1> HIDE DEF a
<1>5. b \in 0..o
    BY <1>2, <1>4
<1> HIDE DEF b
<1>6. c \in 0..o
    BY <1>2, <1>5
<1> HIDE DEF c
<1>7. d \in 0..o
    BY <1>2, <1>6
<1> HIDE DEF d
<1>8. Max({1, d}) \in {1, d} /\ Max({1, d}) >= 1
    BY <1>1, <1>7, MaxOfTwo
<1>9. Max({1, d}) \in 1..o
    BY <1>1, <1>7, <1>8
<1> QED
    BY <1>3, <1>9 DEF o

(* What the coefficients need.                                            *)
LEMMA TableLengthNat ==
    ASSUME NEW s, Rated(s)
    PROVE  /\ TableLength(s, NewLength(s)) \in Nat
           /\ TableLength(s, NewLength(s)) =
                 IF UseDirect(s, NewLength(s)) THEN NewLength(s) * s.den_rate
                 ELSE NewLength(s) * NewOversample(s) + 8
<1>1. NewLength(s) \in Nat /\ NewOversample(s) \in Nat
    <2>1. Oversample[s.quality] \in Nat
        BY ResamplerAssumption DEF Rated
    <2> QED
        BY <2>1, NewLengthEven, NewOversampleLess
<1>2. NewLength(s) * s.den_rate \in Nat /\ NewLength(s) * NewOversample(s) \in Nat
    BY <1>1, TimesNat DEF Rated
<1>3. TableLength(s, NewLength(s)) =
                 IF UseDirect(s, NewLength(s)) THEN NewLength(s) * s.den_rate
                 ELSE NewLength(s) * NewOversample(s) + 8
    BY DEF TableLength
<1> HIDE DEF UseDirect
<1>4. NewLength(s) * NewOversample(s) + 8 \in Nat
    BY <1>2
<1> QED
    BY <1>2, <1>3, <1>4

(* Where sample j of the new memory of a channel was in the old one.       *)
Before(s, n, m, c, j) == j + (s.filt_len + s.magic_samples[c]) - (n + m)

(* A channel's part of a new layout: it fits, its middle is where it was,  *)
(* and it holds what it held, and silence in front of that.                *)
PartOK(s, n, c, p) ==
    /\ p.magic \in Nat /\ p.last \in Nat
    /\ \A alloc \in Nat : s.mem_alloc_size <= alloc /\ AllocSize(n) <= alloc =>
          n + 2 * p.magic - 1 + BufferSize <= alloc
    /\ p.last - p.magic - n \div 2 =
          s.last_sample[c] - s.magic_samples[c] - s.filt_len \div 2
    /\ DOMAIN p.mem = 0..(n + p.magic - 2)
    /\ \A j \in 0..(n + p.magic - 2) :
          LET i == Before(s, n, p.magic, c, j) IN
          /\ i <= s.filt_len + s.magic_samples[c] - 2
          /\ i < 0 => n > s.filt_len
          /\ p.mem[j] = IF i < 0 THEN Silence ELSE Entry(s, c, i)

(* The numbers in a layout.                                                *)
LEMMA LayoutTypes ==
    ASSUME NEW s, LayoutOK(s), NEW c \in Channels
    PROVE  /\ s.filt_len \in Nat \ {0} /\ s.magic_samples[c] \in Nat
           /\ s.last_sample[c] \in Nat /\ s.samp_frac_num[c] \in Nat
           /\ s.mem_alloc_size \in Nat /\ BufferSize \in Nat \ {0}
           /\ s.filt_len + 2 * s.magic_samples[c] - 1 + BufferSize <= s.mem_alloc_size
           /\ \E h \in Nat : s.filt_len = 2 * h /\ s.filt_len \div 2 = h
<1>1. s \in States(s.mem) /\ s.filt_len \in Nat \ {0} /\ s.filt_len % 2 = 0
    BY DEF LayoutOK
<1>2. /\ s.magic_samples \in [Channels -> Nat] /\ s.last_sample \in [Channels -> Nat]
      /\ s.samp_frac_num \in [Channels -> Nat] /\ s.mem_alloc_size \in Nat
    BY <1>1 DEF States
<1>3. s.filt_len + 2 * s.magic_samples[c] - 1 + BufferSize <= s.mem_alloc_size
    BY DEF LayoutOK
<1>4. s.filt_len \div 2 \in Nat /\ s.filt_len = 2 * (s.filt_len \div 2)
    BY <1>1, Halves
<1> QED
    BY <1>1, <1>2, <1>3, <1>4, ResamplerAssumption

(* A filter that grows: the magic samples go back into the memory.         *)
LEMMA GrownPart ==
    ASSUME NEW s, LayoutOK(s), NEW n \in Nat, n % 2 = 0, n > s.filt_len, NEW c \in Channels
    PROVE  PartOK(s, n, c, Grown(s, n, c))
<1> DEFINE F == s.filt_len
           M == s.magic_samples[c]
           L == s.last_sample[c]
           A == s.mem_alloc_size
           olen == F + 2 * M
           put(j) == IF j < M THEN Silence ELSE Entry(s, c, j - M)
           p == Grown(s, n, c)
           back == (olen - n) \div 2
           k == n \div 2
<1>1. /\ F \in Nat \ {0} /\ M \in Nat /\ L \in Nat /\ A \in Nat /\ BufferSize \in Nat \ {0}
      /\ F + 2 * M - 1 + BufferSize <= A
    BY LayoutTypes
<1>2. PICK h \in Nat : F = 2 * h /\ F \div 2 = h
    BY LayoutTypes
<1>3. k \in Nat /\ n = 2 * k
    BY Halves
<1>4. F < n
    OBVIOUS
<1>5. n > olen =>
         p = [magic |-> 0, last |-> L + Shift(s, n, olen),
              mem |-> [j \in 0..(n - 2) |-> IF j < n - olen THEN Silence
                                            ELSE put(j - (n - olen))]]
    BY DEF Grown
<1>6. ~(n > olen) =>
         p = [magic |-> back, last |-> L,
              mem |-> [j \in 0..(n + back - 2) |-> put(j + back)]]
    BY DEF Grown
<1>7. SUFFICES
         /\ p.magic \in Nat /\ p.last \in Nat
         /\ \A alloc \in Nat : A <= alloc /\ AllocSize(n) <= alloc =>
               n + 2 * p.magic - 1 + BufferSize <= alloc
         /\ p.last - p.magic - k = L - M - h
         /\ DOMAIN p.mem = 0..(n + p.magic - 2)
         /\ \A j \in 0..(n + p.magic - 2) :
               LET i == j + (F + M) - (n + p.magic) IN
               /\ i <= F + M - 2
               /\ p.mem[j] = IF i < 0 THEN Silence ELSE Entry(s, c, i)
    BY <1>2, <1>4 DEF PartOK, Before
<1>8. CASE n > olen
    <2>1. Shift(s, n, olen) = k - (h + M) /\ Shift(s, n, olen) \in Nat
        <3>1. Shift(s, n, olen) = (n - olen) \div 2
            BY DEF Shift
        <3>2. n - olen = 2 * (k - (h + M)) /\ k - (h + M) \in Nat
            <4> HIDE DEF F, M, k
            <4> QED
                BY <1>1, <1>2, <1>3, <1>8
        <3> HIDE DEF F, M, k, olen
        <3> QED
            BY <3>1, <3>2
    <2>2. p.magic = 0 /\ p.last = L + (k - (h + M))
        BY <1>5, <1>8, <2>1
    <2>7. /\ DOMAIN p.mem = 0..(n - 2)
          /\ \A j \in 0..(n - 2) : p.mem[j] = IF j < n - olen THEN Silence
                                              ELSE put(j - (n - olen))
        BY <1>5, <1>8
    <2> HIDE DEF p, F, M, L, A, k
    <2>3. p.last \in Nat /\ p.last - p.magic - k = L - M - h
        <3>1. (L + (k - (h + M))) - 0 - k = L - M - h
            BY <1>1, <1>3
        <3>2. L + (k - (h + M)) \in Nat
            BY <1>1, <2>1
        <3> QED
            BY <2>2, <3>1, <3>2
    <2>4. ASSUME NEW j \in 0..(n - 2)
          PROVE  LET i == j + (F + M) - (n + 0) IN
                 /\ i <= F + M - 2
                 /\ p.mem[j] = IF i < 0 THEN Silence ELSE Entry(s, c, i)
        <3> DEFINE i == j + (F + M) - (n + 0)
        <3> SUFFICES /\ i <= F + M - 2
                     /\ p.mem[j] = IF i < 0 THEN Silence ELSE Entry(s, c, i)
            OBVIOUS
        <3>1. i <= F + M - 2 /\ i \in Int
            BY <1>1
        <3>2. CASE j < n - olen
            <4>1. i < 0
                BY <1>1, <3>2
            <4> QED
                BY <2>7, <3>1, <3>2, <4>1
        <3>3. CASE ~(j < n - olen)
            <4>1. j - (n - olen) - M = i /\ (j - (n - olen) < M <=> i < 0)
                BY <1>1
            <4>2. p.mem[j] = put(j - (n - olen))
                BY <2>7, <3>3
            <4> DEFINE e == j - (n - olen)
            <4>3. p.mem[j] = put(e) /\ e - M = i /\ (e < M <=> i < 0)
                BY <4>1, <4>2
            <4> HIDE DEF i, e
            <4>4. p.mem[j] = IF e < M THEN Silence ELSE Entry(s, c, e - M)
                BY <4>3
            <4> QED
                BY <3>1, <4>3, <4>4
        <3> QED
            BY <3>2, <3>3
    <2>5. ASSUME NEW alloc \in Nat, AllocSize(n) <= alloc
          PROVE  n + 2 * p.magic - 1 + BufferSize <= alloc
        BY <1>1, <2>2, <2>5 DEF AllocSize
    <2>6. n + p.magic - 2 = n - 2
        BY <2>2
    <2> QED
        BY <2>2, <2>3, <2>4, <2>5, <2>6, <2>7
<1>9. CASE ~(n > olen)
    <2>1. back \in Nat /\ back = h + M - k
        <3>1. olen - n = 2 * (h + M - k) /\ h + M - k \in Nat
            <4> HIDE DEF F, M, k
            <4> QED
                BY <1>1, <1>2, <1>3, <1>9
        <3> HIDE DEF F, M, k, olen
        <3> QED
            BY <3>1
    <2>2. p.magic = back /\ p.last = L
        BY <1>6, <1>9
    <2>6. /\ DOMAIN p.mem = 0..(n + back - 2)
          /\ \A j \in 0..(n + back - 2) : p.mem[j] = put(j + back)
        <3>1. p = [magic |-> back, last |-> L,
                   mem |-> [j \in 0..(n + back - 2) |-> put(j + back)]]
            BY <1>6, <1>9
        <3> DEFINE mem == [j \in 0..(n + back - 2) |-> put(j + back)]
        <3>2. p.mem = mem
            BY <3>1
        <3> HIDE DEF p, back, F, M, L, olen, put
        <3>3. /\ DOMAIN mem = 0..(n + back - 2)
              /\ \A j \in 0..(n + back - 2) : mem[j] = put(j + back)
            OBVIOUS
        <3> QED
            BY <3>2, <3>3
    <2> HIDE DEF p, F, M, L, A, k, back
    <2>3. p.last \in Nat /\ p.last - p.magic - k = L - M - h
        BY <1>1, <1>2, <1>3, <2>1, <2>2
    <2>4. ASSUME NEW j \in 0..(n + back - 2)
          PROVE  LET i == j + (F + M) - (n + back) IN
                 /\ i <= F + M - 2
                 /\ p.mem[j] = IF i < 0 THEN Silence ELSE Entry(s, c, i)
        <3> DEFINE i == j + (F + M) - (n + back)
        <3> SUFFICES /\ i <= F + M - 2
                     /\ p.mem[j] = IF i < 0 THEN Silence ELSE Entry(s, c, i)
            OBVIOUS
        <3>1. i <= F + M - 2 /\ i \in Int
            BY <1>1, <2>1
        <3>2. j + back - M = i /\ (j + back < M <=> i < 0)
            BY <1>1, <1>2, <1>3, <2>1
        <3> DEFINE e == j + back
        <3>3. p.mem[j] = put(e)
            BY <2>6
        <3>4. e - M = i /\ (e < M <=> i < 0)
            <4>1. (j + back) - M = j + back - M
                BY <1>1, <2>1
            <4> QED
                BY <3>2, <4>1
        <3> HIDE DEF i, e
        <3>5. p.mem[j] = IF e < M THEN Silence ELSE Entry(s, c, e - M)
            BY <3>3
        <3> QED
            BY <3>1, <3>4, <3>5
    <2>5. ASSUME NEW alloc \in Nat, A <= alloc
          PROVE  n + 2 * p.magic - 1 + BufferSize <= alloc
        <3>1. n + 2 * p.magic = olen
            BY <1>1, <1>2, <1>3, <2>1, <2>2
        <3>2. olen - 1 + BufferSize <= A /\ olen \in Nat
            BY <1>1
        <3>3. p.magic \in Nat
            BY <2>1, <2>2
        <3> HIDE DEF olen
        <3> QED
            BY <1>1, <2>5, <3>1, <3>2, <3>3
    <2> QED
        BY <2>1, <2>2, <2>3, <2>4, <2>5, <2>6
<1> QED
    BY <1>8, <1>9

(* A filter that shrinks: what was after its middle becomes magic.         *)
LEMMA ShrunkPart ==
    ASSUME NEW s, LayoutOK(s), NEW n \in Nat, n % 2 = 0, n <= s.filt_len, NEW c \in Channels
    PROVE  PartOK(s, n, c, Shrunk(s, n, c))
<1> DEFINE F == s.filt_len
           M == s.magic_samples[c]
           L == s.last_sample[c]
           A == s.mem_alloc_size
           more == (F - n) \div 2
           p == Shrunk(s, n, c)
           k == n \div 2
<1>1. /\ F \in Nat \ {0} /\ M \in Nat /\ L \in Nat /\ A \in Nat /\ BufferSize \in Nat \ {0}
      /\ F + 2 * M - 1 + BufferSize <= A
    BY LayoutTypes
<1>2. PICK h \in Nat : F = 2 * h /\ F \div 2 = h
    BY LayoutTypes
<1>3. k \in Nat /\ n = 2 * k
    BY Halves
<1>4. n <= F
    OBVIOUS
<1>5. more = h - k /\ more \in Nat
    <2>1. F - n = 2 * (h - k) /\ h - k \in Nat
        <3> HIDE DEF F, k
        <3> QED
            BY <1>1, <1>2, <1>3, <1>4
    <2> HIDE DEF F, k
    <2> QED
        BY <2>1
<1>6. p.magic = M + more /\ p.last = L
    BY DEF Shrunk
<1>12. /\ DOMAIN p.mem = 0..(n + p.magic - 2)
      /\ \A j \in 0..(n + p.magic - 2) : p.mem[j] = Entry(s, c, j + more)
    BY DEF Shrunk
<1>7. SUFFICES
         /\ p.magic \in Nat /\ p.last \in Nat
         /\ \A alloc \in Nat : A <= alloc /\ AllocSize(n) <= alloc =>
               n + 2 * p.magic - 1 + BufferSize <= alloc
         /\ p.last - p.magic - k = L - M - h
         /\ DOMAIN p.mem = 0..(n + p.magic - 2)
         /\ \A j \in 0..(n + p.magic - 2) :
               LET i == j + (F + M) - (n + p.magic) IN
               /\ i <= F + M - 2 /\ ~(i < 0)
               /\ p.mem[j] = Entry(s, c, i)
    BY <1>2 DEF PartOK, Before
<1> HIDE DEF p, F, M, L, A, k, more
<1>8. p.magic \in Nat /\ p.last \in Nat
    BY <1>1, <1>5, <1>6
<1>9. p.last - p.magic - k = L - M - h
    <2>1. L - (M + (h - k)) - k = L - M - h
        BY <1>1, <1>3
    <2> QED
        BY <1>5, <1>6, <2>1
<1>10. ASSUME NEW alloc \in Nat, A <= alloc
       PROVE  n + 2 * p.magic - 1 + BufferSize <= alloc
    <2>1. n + 2 * p.magic = F + 2 * M
        BY <1>1, <1>2, <1>3, <1>5, <1>6
    <2> QED
        BY <1>1, <1>8, <1>10, <2>1
<1>11. ASSUME NEW j \in 0..(n + p.magic - 2)
       PROVE  LET i == j + (F + M) - (n + p.magic) IN
              /\ i <= F + M - 2 /\ ~(i < 0)
              /\ p.mem[j] = Entry(s, c, i)
    <2> DEFINE i == j + (F + M) - (n + p.magic)
    <2>1. i = j + more
        BY <1>1, <1>2, <1>3, <1>5, <1>6
    <2>2. i <= F + M - 2 /\ ~(i < 0)
        BY <1>1, <1>5, <1>8, <2>1
    <2> QED
        BY <1>12, <2>1, <2>2
<1> QED
    BY <1>12, <1>8, <1>9, <1>10, <1>11

(* The places of the channels in the memory.                               *)
LEMMA Places ==
    ASSUME NEW A \in Nat \ {0}
    PROVE  /\ \A c \in Channels, i \in 0..(A - 1) :
                 /\ c * A + i \in 0..(NbChannels * A - 1)
                 /\ (c * A + i) \div A = c /\ (c * A + i) % A = i
           /\ \A k \in 0..(NbChannels * A - 1) :
                 /\ k \div A \in Channels /\ k % A \in 0..(A - 1)
                 /\ k = (k \div A) * A + (k % A)
<1>1. NbChannels \in Nat \ {0} /\ NbChannels * A \in Nat
    BY ResamplerAssumption, TimesNat
<1>2. ASSUME NEW c \in Channels, NEW i \in 0..(A - 1)
      PROVE  /\ c * A + i \in 0..(NbChannels * A - 1)
             /\ (c * A + i) \div A = c /\ (c * A + i) % A = i
    <2>1. c \in Nat /\ c + 1 <= NbChannels /\ i \in Nat /\ i < A
        BY <1>1 DEF Channels
    <2>2. c * A \in Nat /\ (c + 1) * A <= NbChannels * A
        BY <1>1, <2>1, TimesNat, TimesMono
    <2>3. (c + 1) * A = c * A + A
        BY <2>1
    <2>4. (c * A + i) \div A = c /\ (c * A + i) % A = i
        BY <2>1, DivModIs
    <2> QED
        BY <1>1, <2>1, <2>2, <2>3, <2>4
<1>3. ASSUME NEW k \in 0..(NbChannels * A - 1)
      PROVE  /\ k \div A \in Channels /\ k % A \in 0..(A - 1)
             /\ k = (k \div A) * A + (k % A)
    <2>1. k \in Nat /\ k < NbChannels * A
        BY <1>1
    <2> DEFINE q == k \div A
    <2>2. /\ q \in Nat /\ k % A \in Nat /\ k % A < A
          /\ k = q * A + (k % A) /\ q * A <= k
        BY <2>1, DivMod
    <2> HIDE DEF q
    <2>3. q * A \in Nat
        BY <2>2, TimesNat
    <2>4. q * A < NbChannels * A
        BY <1>1, <2>1, <2>2, <2>3
    <2>5. q < NbChannels
        BY <1>1, <2>2, <2>4, TimesLess
    <2> QED
        BY <1>1, <2>2, <2>5 DEF Channels, q
<1> QED
    BY <1>2, <1>3

(* What a channel holds is in the memory.                                  *)
LEMMA EntryHeard ==
    ASSUME NEW s, LayoutOK(s), NEW c \in Channels, NEW i \in 0..(s.mem_alloc_size - 1)
    PROVE  Entry(s, c, i) \in Heard
<1>1. s.mem_alloc_size \in Nat \ {0}
    BY LayoutTypes
<1>2. c * s.mem_alloc_size + i \in 0..(NbChannels * s.mem_alloc_size - 1)
    BY <1>1, Places
<1>3. s.mem \in [0..(NbChannels * s.mem_alloc_size - 1) -> Heard]
    BY DEF LayoutOK
<1> QED
    BY <1>2, <1>3 DEF Entry

(* A new layout keeps the middles and what is held.                        *)
Moved(s, t) ==
    \A c \in Channels :
       /\ t.last_sample[c] - t.magic_samples[c] - t.filt_len \div 2 =
             s.last_sample[c] - s.magic_samples[c] - s.filt_len \div 2
       /\ \A j \in 0..(t.filt_len + t.magic_samples[c] - 2) :
             LET i == Before(s, t.filt_len, t.magic_samples[c], c, j) IN
             /\ i <= s.filt_len + s.magic_samples[c] - 2
             /\ i < 0 => t.filt_len > s.filt_len
             /\ Entry(t, c, j) = IF i < 0 THEN Silence ELSE Entry(s, c, i)

(* What a new layout leaves alone.                                         *)
SameRates(s, t) ==
    /\ t.rates = s.rates /\ t.num_rate = s.num_rate /\ t.den_rate = s.den_rate
    /\ t.quality = s.quality /\ t.started = s.started
    /\ t.samp_frac_num = s.samp_frac_num

SameSteps(s, t) ==
    /\ t.resampler = s.resampler /\ t.int_advance = s.int_advance
    /\ t.frac_advance = s.frac_advance /\ t.oversample = s.oversample
    /\ t.sinc_table_length = s.sinc_table_length

(* The part of a channel, whether its filter grows or shrinks.             *)
LEMMA PartHolds ==
    ASSUME NEW s, LayoutOK(s), NEW n \in Nat \ {0}, n % 2 = 0, NEW c \in Channels
    PROVE  PartOK(s, n, c, IF n > s.filt_len THEN Grown(s, n, c) ELSE Shrunk(s, n, c))
<1>1. s.filt_len \in Nat
    BY DEF LayoutOK
<1>2. CASE n > s.filt_len
    BY <1>2, GrownPart
<1>3. CASE ~(n > s.filt_len)
    BY <1>1, <1>3, ShrunkPart
<1> QED
    BY <1>2, <1>3

(* The channels one after the other.                                       *)
LEMMA RelayoutHolds ==
    ASSUME NEW s, LayoutOK(s), s.started, NEW n \in Nat \ {0}, n % 2 = 0,
           NEW alloc \in Nat, s.mem_alloc_size <= alloc, AllocSize(n) <= alloc,
           NEW t, t = Relayout(s, n, alloc)
    PROVE  /\ LayoutOK(t) /\ t.filt_len = n /\ Moved(s, t)
           /\ SameRates(s, t) /\ SameSteps(s, t)
<1> DEFINE part == [c \in Channels |->
                      IF n > s.filt_len THEN Grown(s, n, c) ELSE Shrunk(s, n, c)]
           mem == [k \in 0..(NbChannels * alloc - 1) |->
                     LET j == k % alloc
                         m == part[k \div alloc].mem
                     IN  IF j \in DOMAIN m THEN m[j] ELSE Garbage]
           magics == [c \in Channels |-> part[c].magic]
           lasts == [c \in Channels |-> part[c].last]
<1>1. ASSUME NEW c \in Channels PROVE PartOK(s, n, c, part[c])
    <2>1. part[c] = IF n > s.filt_len THEN Grown(s, n, c) ELSE Shrunk(s, n, c)
        OBVIOUS
    <2> HIDE DEF part
    <2>2. PartOK(s, n, c, IF n > s.filt_len THEN Grown(s, n, c) ELSE Shrunk(s, n, c))
        BY PartHolds
    <2> QED
        BY <2>1, <2>2
<1>2. t = [s EXCEPT !.filt_len = n, !.mem_alloc_size = alloc, !.magic_samples = magics,
                    !.last_sample = lasts, !.mem = mem]
    BY DEF Relayout
<1> HIDE DEF part
<1>3. \A c \in Channels : magics[c] = part[c].magic /\ lasts[c] = part[c].last
    OBVIOUS
<1>4. /\ \A c \in Channels : part[c].magic \in Nat /\ part[c].last \in Nat
      /\ \A c \in Channels : n + 2 * part[c].magic - 1 + BufferSize <= alloc
    BY <1>1 DEF PartOK
<1>5. alloc \in Nat \ {0} /\ BufferSize \in Nat \ {0}
    <2>1. AllocSize(n) \in Nat \ {0}
        BY ResamplerAssumption DEF AllocSize
    <2> QED
        BY <2>1, ResamplerAssumption
<1>6. ASSUME NEW c \in Channels, NEW j \in 0..(n + part[c].magic - 2)
      PROVE  /\ j \in 0..(alloc - 1) /\ mem[c * alloc + j] = part[c].mem[j]
             /\ part[c].mem[j] \in Heard
    <2>1. j \in 0..(alloc - 1)
        BY <1>4, <1>5
    <2>2. /\ c * alloc + j \in 0..(NbChannels * alloc - 1)
          /\ (c * alloc + j) \div alloc = c /\ (c * alloc + j) % alloc = j
        BY <1>5, <2>1, Places
    <2>3. j \in DOMAIN part[c].mem
        BY <1>1 DEF PartOK
    <2>4. mem[c * alloc + j] = part[c].mem[j]
        BY <2>2, <2>3
    <2> DEFINE i == Before(s, n, part[c].magic, c, j)
    <2>5. /\ i <= s.filt_len + s.magic_samples[c] - 2
          /\ part[c].mem[j] = IF i < 0 THEN Silence ELSE Entry(s, c, i)
        BY <1>1 DEF PartOK
    <2>6. i \in Int
        BY <1>4, LayoutTypes DEF Before
    <2> HIDE DEF i
    <2>7. CASE i < 0
        BY <2>1, <2>4, <2>5, <2>7 DEF Silence, Heard
    <2>8. CASE ~(i < 0)
        <3>1. i \in 0..(s.mem_alloc_size - 1)
            BY <2>5, <2>6, <2>8, LayoutTypes
        <3>2. Entry(s, c, i) \in Heard
            BY <3>1, EntryHeard
        <3> QED
            BY <2>1, <2>4, <2>5, <2>8, <3>2
    <2> QED
        BY <2>7, <2>8
<1>7. mem \in [0..(NbChannels * alloc - 1) -> Heard]
    <2> SUFFICES ASSUME NEW k \in 0..(NbChannels * alloc - 1) PROVE mem[k] \in Heard
        OBVIOUS
    <2> DEFINE j == k % alloc
               c == k \div alloc
    <2>1. c \in Channels /\ j \in 0..(alloc - 1) /\ k = c * alloc + j
        BY <1>5, Places
    <2>2. mem[k] = IF j \in DOMAIN part[c].mem THEN part[c].mem[j] ELSE Garbage
        OBVIOUS
    <2> HIDE DEF j, c, mem
    <2>3. CASE j \in DOMAIN part[c].mem
        <3>1. j \in 0..(n + part[c].magic - 2)
            BY <1>1, <2>1, <2>3 DEF PartOK
        <3> QED
            BY <1>6, <2>1, <2>2, <2>3, <3>1
    <2>4. CASE j \notin DOMAIN part[c].mem
        BY <2>2, <2>4 DEF Garbage, Heard
    <2> QED
        BY <2>3, <2>4
<1>8. magics \in [Channels -> Nat] /\ lasts \in [Channels -> Nat]
    BY <1>4
<1> HIDE DEF mem, magics, lasts
<1>9. s \in States(s.mem)
    BY DEF LayoutOK
<1>10. /\ t \in States(mem) /\ t.filt_len = n /\ t.mem_alloc_size = alloc
       /\ t.magic_samples = magics /\ t.last_sample = lasts /\ t.mem = mem
       /\ SameRates(s, t) /\ SameSteps(s, t)
    <2>1. t \in States(mem)
        BY <1>2, <1>8, <1>9 DEF States
    <2>2. /\ t.filt_len = n /\ t.mem_alloc_size = alloc
          /\ t.magic_samples = magics /\ t.last_sample = lasts /\ t.mem = mem
        BY <1>2, <1>9 DEF States
    <2>3. SameRates(s, t)
        BY <1>2, <1>9 DEF States, SameRates
    <2>4. SameSteps(s, t)
        BY <1>2, <1>9 DEF States, SameSteps
    <2> QED
        BY <2>1, <2>2, <2>3, <2>4
<1>11. LayoutOK(t)
    BY <1>3, <1>4, <1>7, <1>10 DEF LayoutOK, SameRates
<1>12. Moved(s, t)
    <2> SUFFICES ASSUME NEW c \in Channels
                 PROVE  /\ lasts[c] - magics[c] - n \div 2 =
                           s.last_sample[c] - s.magic_samples[c] - s.filt_len \div 2
                        /\ \A j \in 0..(n + magics[c] - 2) :
                              LET i == Before(s, n, magics[c], c, j) IN
                              /\ i <= s.filt_len + s.magic_samples[c] - 2
                              /\ i < 0 => n > s.filt_len
                              /\ Entry(t, c, j) = IF i < 0 THEN Silence ELSE Entry(s, c, i)
        BY <1>10 DEF Moved
    <2>1. magics[c] = part[c].magic /\ lasts[c] = part[c].last
        BY <1>3
    <2>2. ASSUME NEW j \in 0..(n + part[c].magic - 2)
          PROVE  Entry(t, c, j) = part[c].mem[j]
        BY <1>6, <1>10 DEF Entry
    <2> QED
        BY <1>1, <2>1, <2>2 DEF PartOK
<1> QED
    BY <1>10, <1>11, <1>12

(* A filter for new rates, in the layout that there was.                   *)
Kept(s, t) ==
    /\ t.filt_len = s.filt_len /\ t.mem_alloc_size = s.mem_alloc_size
    /\ t.magic_samples = s.magic_samples /\ t.last_sample = s.last_sample
    /\ t.mem = s.mem

(* Nothing but silence is in the memory.                                   *)
Quiet(t) == \A k \in DOMAIN t.mem : t.mem[k] = Silence

(* The steps that update_filter sets in every case.                        *)
NewSteps(s, t) ==
    /\ t.int_advance = s.num_rate \div s.den_rate
    /\ t.frac_advance = s.num_rate % s.den_rate
    /\ t.oversample = NewOversample(s)

(* A layout that is kept is a layout, and moves nothing.                   *)
LEMMA KeptHolds ==
    ASSUME NEW s, NEW t, LayoutOK(s), t \in States(t.mem), Kept(s, t), t.started = s.started
    PROVE  LayoutOK(t) /\ Moved(s, t)
<1>1. LayoutOK(t)
    BY DEF LayoutOK, Kept
<1>2. ASSUME NEW c \in Channels,
             NEW j \in 0..(t.filt_len + t.magic_samples[c] - 2)
      PROVE  LET i == Before(s, t.filt_len, t.magic_samples[c], c, j) IN
             /\ i <= s.filt_len + s.magic_samples[c] - 2
             /\ i < 0 => t.filt_len > s.filt_len
             /\ Entry(t, c, j) = IF i < 0 THEN Silence ELSE Entry(s, c, i)
    <2> DEFINE i == Before(s, t.filt_len, t.magic_samples[c], c, j)
    <2>1. s.filt_len \in Nat /\ s.magic_samples[c] \in Nat
        BY LayoutTypes
    <2>2. t.filt_len = s.filt_len /\ t.magic_samples[c] = s.magic_samples[c]
        BY DEF Kept
    <2>3. i = j
        BY <2>1, <2>2 DEF Before
    <2>4. Entry(t, c, j) = Entry(s, c, j)
        BY DEF Entry, Kept
    <2>5. j \in Nat /\ j <= s.filt_len + s.magic_samples[c] - 2
        BY <2>1, <2>2
    <2> SUFFICES /\ i <= s.filt_len + s.magic_samples[c] - 2
                 /\ i < 0 => t.filt_len > s.filt_len
                 /\ Entry(t, c, j) = IF i < 0 THEN Silence ELSE Entry(s, c, i)
        OBVIOUS
    <2> HIDE DEF i
    <2> QED
        BY <2>3, <2>4, <2>5
<1>3. \A c \in Channels :
         t.last_sample[c] - t.magic_samples[c] - t.filt_len \div 2 =
             s.last_sample[c] - s.magic_samples[c] - s.filt_len \div 2
    BY DEF Kept
<1> QED
    BY <1>1, <1>2, <1>3 DEF Moved

(* The table that is filled is long enough for what will be read.          *)
LEMMA TableFilled ==
    ASSUME NEW s, Rated(s), NEW t, SameRates(s, t), NewSteps(s, t),
           t.filt_len = NewLength(s), t.sinc_table_length \in Nat,
           t.sinc_table_length >= TableLength(s, NewLength(s)),
           t.resampler = IF UseDirect(s, NewLength(s)) THEN "direct" ELSE "interpolate"
    PROVE  StepsOK(t)
<1>1. t.oversample \in 1..Oversample[t.quality]
    BY NewOversampleLess DEF SameRates, NewSteps
<1>2. /\ t.resampler = "direct" => TableLength(s, NewLength(s)) = t.filt_len * t.den_rate
      /\ t.resampler = "interpolate" =>
            TableLength(s, NewLength(s)) = t.filt_len * t.oversample + 8
    <2>1. t.den_rate = s.den_rate /\ t.oversample = NewOversample(s)
        BY DEF SameRates, NewSteps
    <2> HIDE DEF UseDirect
    <2> QED
        BY <2>1, TableLengthNat
<1>3. /\ t.resampler = "direct" => t.filt_len * t.den_rate <= t.sinc_table_length
      /\ t.resampler = "interpolate" =>
            t.filt_len * t.oversample + 8 <= t.sinc_table_length
    BY <1>2
<1>4. t.int_advance = t.num_rate \div t.den_rate /\ t.frac_advance = t.num_rate % t.den_rate
    BY DEF SameRates, NewSteps
<1> QED
    BY <1>1, <1>3, <1>4 DEF StepsOK

(* The steps of a resampler that writes zeros.                             *)
LEMMA ZeroSteps ==
    ASSUME NEW s, NEW t, SameRates(s, t), NewSteps(s, t), t.resampler = "zero"
    PROVE  StepsOK(t)
BY DEF StepsOK, SameRates, NewSteps

(* The memory that is needed.                                              *)
LEMMA AllocGrows ==
    ASSUME NEW a \in Nat, NEW n \in Nat \ {0}
    PROVE  /\ Max({a, AllocSize(n)}) \in Nat
           /\ a <= Max({a, AllocSize(n)}) /\ AllocSize(n) <= Max({a, AllocSize(n)})
           /\ n - 1 + BufferSize <= Max({a, AllocSize(n)})
<1>1. AllocSize(n) \in Nat /\ AllocSize(n) = n - 1 + BufferSize
    BY ResamplerAssumption DEF AllocSize
<1> DEFINE b == AllocSize(n)
<1>2. b \in Nat /\ b = n - 1 + BufferSize
    BY <1>1
<1> HIDE DEF b
<1>3. Max({a, b}) \in {a, b} /\ Max({a, b}) >= a /\ Max({a, b}) >= b
    BY <1>2, MaxOfTwo
<1>4. /\ Max({a, b}) \in Nat /\ a <= Max({a, b}) /\ b <= Max({a, b})
      /\ n - 1 + BufferSize <= Max({a, b})
    BY <1>2, <1>3
<1> QED
    BY <1>4 DEF b

(* update_filter: whatever it is refused, the layout stays one, the steps  *)
(* are those of the new rates, and what was resampled stays where it is.   *)
LEMMA UpdateHolds ==
    ASSUME NEW s, s \in States(s.mem), Rated(s), NEW refused, NEW t,
           t = UpdateFilter(s, refused),
           LayoutOK(s) \/ (/\ ~s.started /\ t.resampler # "zero"
                           /\ \A c \in Channels : s.magic_samples[c] = 0)
    PROVE  /\ LayoutOK(t) /\ SameRates(s, t) /\ StepsOK(t)
           /\ s.started => Moved(s, t)
           /\ ~s.started => Quiet(t) \/ Kept(s, t)
<1> DEFINE n == NewLength(s)
           alloc == Max({s.mem_alloc_size, AllocSize(n)})
           int == s.num_rate \div s.den_rate
           frac == s.num_rate % s.den_rate
           over == NewOversample(s)
           kind == IF UseDirect(s, n) THEN "direct" ELSE "interpolate"
           table == Max({s.sinc_table_length, TableLength(s, n)})
           silent == [k \in 0..(NbChannels * alloc - 1) |-> Silence]
           stepped == [s EXCEPT !.int_advance = int, !.frac_advance = frac,
                                !.oversample = over]
           filled == [stepped EXCEPT !.resampler = kind, !.sinc_table_length = table]
           fresh == [filled EXCEPT !.filt_len = n, !.mem_alloc_size = alloc,
                                   !.mem = silent]
<1>1. n \in Nat \ {0} /\ n % 2 = 0
    BY NewLengthEven
<1>2. alloc \in Nat /\ s.mem_alloc_size <= alloc /\ AllocSize(n) <= alloc
      /\ n - 1 + BufferSize <= alloc
    <2>1. s.mem_alloc_size \in Nat
        BY DEF States
    <2> QED
        BY <1>1, <2>1, AllocGrows
<1>3. int \in Nat /\ frac \in Nat
    BY DivMod DEF Rated
<1>4. over \in Nat
    <2>1. Oversample[s.quality] \in Nat
        BY ResamplerAssumption DEF Rated
    <2> QED
        BY <2>1, NewOversampleLess
<1>5. table \in Nat /\ table >= TableLength(s, n)
    <2>1. s.sinc_table_length \in Nat /\ TableLength(s, n) \in Nat
        BY TableLengthNat DEF States
    <2> DEFINE a == s.sinc_table_length
               b == TableLength(s, n)
    <2>2. a \in Nat /\ b \in Nat
        BY <2>1
    <2> HIDE DEF a, b
    <2>3. Max({a, b}) \in Nat /\ Max({a, b}) >= b
        BY <2>2, MaxOfTwo
    <2> QED
        BY <2>3 DEF a, b
<1>6. kind \in {"direct", "interpolate"}
    OBVIOUS
<1>7. \/ t = [stepped EXCEPT !.resampler = "zero"]
      \/ t = [filled EXCEPT !.resampler = "zero"]
      \/ ~s.started /\ t = fresh
      \/ s.started /\ n = s.filt_len /\ t = filled
      \/ s.started /\ t = Relayout(filled, n, alloc)
    BY DEF UpdateFilter
<1>16. kind = IF UseDirect(s, NewLength(s)) THEN "direct" ELSE "interpolate"
    OBVIOUS
<1>17. n = NewLength(s) /\ over = NewOversample(s) /\ int = s.num_rate \div s.den_rate
       /\ frac = s.num_rate % s.den_rate
    OBVIOUS
<1>18. silent \in [0..(NbChannels * alloc - 1) -> Heard]
       /\ \A k \in DOMAIN silent : silent[k] = Silence
    BY DEF Silence, Heard
<1> HIDE DEF n, alloc, int, frac, over, kind, table, silent
<1>8. /\ stepped \in States(s.mem) /\ Kept(s, stepped) /\ SameRates(s, stepped)
      /\ NewSteps(s, stepped)
    BY <1>3, <1>4, <1>17 DEF States, Kept, SameRates, NewSteps
<1>9. /\ filled \in States(s.mem) /\ Kept(s, filled) /\ SameRates(s, filled)
      /\ NewSteps(s, filled) /\ filled.resampler = kind /\ filled.sinc_table_length = table
    BY <1>3, <1>4, <1>5, <1>6, <1>17 DEF States, Kept, SameRates, NewSteps
<1>10. CASE t = [stepped EXCEPT !.resampler = "zero"]
    <2>1. /\ t \in States(s.mem) /\ Kept(s, t) /\ SameRates(s, t) /\ NewSteps(s, t)
          /\ t.resampler = "zero"
        <3>1. t = [stepped EXCEPT !.resampler = "zero"]
            BY <1>10
        <3> HIDE DEF stepped
        <3>2. /\ t \in States(s.mem) /\ t.resampler = "zero"
              /\ Kept(stepped, t) /\ SameRates(stepped, t)
              /\ t.int_advance = stepped.int_advance /\ t.oversample = stepped.oversample
              /\ t.frac_advance = stepped.frac_advance
            BY <1>8, <3>1 DEF States, Kept, SameRates
        <3> QED
            BY <1>8, <3>2 DEF Kept, SameRates, NewSteps
    <2>2. LayoutOK(s) /\ t.mem = s.mem /\ t.started = s.started
        BY <2>1 DEF Kept, SameRates
    <2> QED
        BY <2>1, <2>2, KeptHolds, ZeroSteps
<1>11. CASE t = [filled EXCEPT !.resampler = "zero"]
    <2>1. /\ t \in States(s.mem) /\ Kept(s, t) /\ SameRates(s, t) /\ NewSteps(s, t)
          /\ t.resampler = "zero"
        <3>1. t = [filled EXCEPT !.resampler = "zero"]
            BY <1>11
        <3> HIDE DEF filled
        <3>2. /\ t \in States(s.mem) /\ t.resampler = "zero"
              /\ Kept(filled, t) /\ SameRates(filled, t)
              /\ t.int_advance = filled.int_advance /\ t.oversample = filled.oversample
              /\ t.frac_advance = filled.frac_advance
            BY <1>9, <3>1 DEF States, Kept, SameRates
        <3> QED
            BY <1>9, <3>2 DEF Kept, SameRates, NewSteps
    <2>2. LayoutOK(s) /\ t.mem = s.mem /\ t.started = s.started
        BY <2>1 DEF Kept, SameRates
    <2> QED
        BY <2>1, <2>2, KeptHolds, ZeroSteps
<1>12. CASE ~s.started /\ t = fresh
    <2>1. /\ t \in States(silent) /\ SameRates(s, t) /\ NewSteps(s, t)
          /\ t.filt_len = n /\ t.mem_alloc_size = alloc /\ t.mem = silent
          /\ t.magic_samples = s.magic_samples
          /\ t.resampler = kind /\ t.sinc_table_length = table
        <3>1. t = fresh
            BY <1>12
        <3> HIDE DEF filled
        <3>2. t \in States(silent)
            BY <1>1, <1>2, <1>9, <3>1 DEF States
        <3>3. /\ SameRates(filled, t) /\ SameSteps(filled, t)
              /\ t.filt_len = n /\ t.mem_alloc_size = alloc /\ t.mem = silent
              /\ t.magic_samples = filled.magic_samples
            BY <1>9, <3>1 DEF States, SameRates, SameSteps
        <3> QED
            BY <1>9, <3>2, <3>3 DEF Kept, SameRates, NewSteps, SameSteps
    <2>2. \A c \in Channels : t.magic_samples[c] = 0
        BY <1>12, <2>1 DEF LayoutOK
    <2>3. ASSUME NEW c \in Channels
          PROVE  t.filt_len + 2 * t.magic_samples[c] - 1 + BufferSize <= t.mem_alloc_size
        BY <1>1, <1>2, <2>1, <2>2, ResamplerAssumption
    <2>4. LayoutOK(t)
        BY <1>1, <1>18, <2>1, <2>2, <2>3 DEF LayoutOK
    <2>5. StepsOK(t)
        BY <1>5, <1>16, <1>17, <2>1, TableFilled
    <2>6. Quiet(t)
        BY <1>18, <2>1 DEF Quiet
    <2> QED
        BY <1>12, <2>1, <2>4, <2>5, <2>6
<1>13. CASE s.started /\ n = s.filt_len /\ t = filled
    <2>1. LayoutOK(s) /\ t.mem = s.mem /\ t.started = s.started /\ t.filt_len = n
        BY <1>9, <1>13 DEF Kept, SameRates
    <2>2. LayoutOK(t) /\ Moved(s, t)
        BY <1>9, <1>13, <2>1, KeptHolds
    <2>3. StepsOK(t)
        BY <1>5, <1>9, <1>13, <1>16, <1>17, <2>1, TableFilled
    <2> QED
        BY <1>9, <1>13, <2>2, <2>3
<1>14. CASE s.started /\ t = Relayout(filled, n, alloc)
    <2>1. LayoutOK(s) /\ filled.mem = s.mem /\ filled.started = s.started
          /\ filled.mem_alloc_size = s.mem_alloc_size
        BY <1>9, <1>14 DEF Kept, SameRates
    <2>2. LayoutOK(filled)
        BY <1>9, <2>1, KeptHolds
    <2>3. Kept(s, filled) /\ SameRates(s, filled) /\ NewSteps(s, filled)
          /\ filled.resampler = kind /\ filled.sinc_table_length = table
        BY <1>9
    <2> HIDE DEF filled
    <2>4. /\ LayoutOK(t) /\ t.filt_len = n /\ Moved(filled, t)
          /\ SameRates(filled, t) /\ SameSteps(filled, t)
        BY <1>1, <1>2, <1>14, <2>1, <2>2, RelayoutHolds
    <2>5. SameRates(s, t) /\ NewSteps(s, t)
        BY <2>3, <2>4 DEF SameRates, NewSteps, SameSteps
    <2>6. t.sinc_table_length = table /\ t.resampler = kind
        BY <2>3, <2>4 DEF SameSteps
    <2>7. StepsOK(t)
        BY <1>5, <1>16, <1>17, <2>4, <2>5, <2>6, TableFilled
    <2>8. Moved(s, t)
        <3>1. \A c \in Channels : \A m, j : Before(filled, t.filt_len, m, c, j)
                                        = Before(s, t.filt_len, m, c, j)
            BY <2>3 DEF Before, Kept
        <3>2. \A c \in Channels : \A i : Entry(filled, c, i) = Entry(s, c, i)
            BY <2>3 DEF Entry, Kept
        <3>3. /\ filled.filt_len = s.filt_len /\ filled.magic_samples = s.magic_samples
              /\ filled.last_sample = s.last_sample
            BY <2>3 DEF Kept
        <3> QED
            BY <2>4, <3>1, <3>2, <3>3 DEF Moved
    <2> QED
        BY <1>14, <2>4, <2>5, <2>7, <2>8
<1> QED
    BY <1>7, <1>10, <1>11, <1>12, <1>13, <1>14

-----------------------------------------------------------------------------
(* The steps.                                                              *)

(* What is forgotten, no sample is remembered in place of another.         *)
LEMMA ForgottenNat ==
    ASSUME IInv, NEW t, LayoutOK(t)
    PROVE  /\ Forgotten(st, t) \in [Channels -> Nat]
           /\ \A c \in Channels :
                 /\ Forgotten(st, t)[c] >= lost[c]
                 /\ st.started /\ t.filt_len > st.filt_len =>
                       Forgotten(st, t)[c] >=
                          taken[c] - st.magic_samples[c] - (st.filt_len - 1)
<1> SUFFICES ASSUME NEW c \in Channels
             PROVE  /\ Forgotten(st, t)[c] \in Nat /\ Forgotten(st, t)[c] >= lost[c]
                    /\ st.started /\ t.filt_len > st.filt_len =>
                          Forgotten(st, t)[c] >=
                             taken[c] - st.magic_samples[c] - (st.filt_len - 1)
    BY DEF Forgotten
<1>1. lost[c] \in Nat /\ taken[c] \in Nat
    BY DEF IInv
<1>2. st.filt_len \in Nat /\ st.magic_samples[c] \in Nat
    BY LayoutTypes DEF IInv
<1> DEFINE x == taken[c] - st.magic_samples[c] - (st.filt_len - 1)
<1>3. x \in Int
    BY <1>1, <1>2
<1>4. Forgotten(st, t)[c] =
         IF st.started /\ t.filt_len > st.filt_len THEN Max({lost[c], x}) ELSE lost[c]
    BY DEF Forgotten
<1> DEFINE a == lost[c]
<1>5. a \in Nat /\ x \in Int
    BY <1>1, <1>3
<1> HIDE DEF x, a
<1>6. Max({a, x}) \in {a, x} /\ Max({a, x}) >= a /\ Max({a, x}) >= x
    BY <1>5, MaxOfTwo
<1>7. Max({a, x}) \in Nat
    BY <1>5, <1>6
<1>8. CASE st.started /\ t.filt_len > st.filt_len
    BY <1>4, <1>6, <1>7, <1>8 DEF x, a
<1>9. CASE ~(st.started /\ t.filt_len > st.filt_len)
    BY <1>4, <1>5, <1>9 DEF a
<1> QED
    BY <1>8, <1>9

(* A memory of silence is that of a channel that has taken nothing.        *)
LEMMA QuietHolds ==
    ASSUME NEW t, LayoutOK(t), Quiet(t), NEW c \in Channels, t.magic_samples[c] = 0,
           NEW lo \in Nat, NEW str
    PROVE  Holds(t, c, t.filt_len + t.magic_samples[c] - 1, 0, lo, str)
<1> SUFFICES ASSUME NEW j \in 0..((t.filt_len + t.magic_samples[c] - 1) - 1)
             PROVE  Entry(t, c, j) = Silence /\ Place(t, c, 0, j) <= lo
    BY DEF Holds
<1>1. /\ t.filt_len \in Nat \ {0} /\ t.mem_alloc_size \in Nat
      /\ BufferSize \in Nat \ {0}
      /\ t.filt_len + 2 * 0 - 1 + BufferSize <= t.mem_alloc_size
    BY LayoutTypes
<1>2. j \in 0..(t.mem_alloc_size - 1) /\ t.mem_alloc_size \in Nat \ {0}
    BY <1>1
<1>3. c * t.mem_alloc_size + j \in 0..(NbChannels * t.mem_alloc_size - 1)
    BY <1>2, Places
<1>4. DOMAIN t.mem = 0..(NbChannels * t.mem_alloc_size - 1)
    BY DEF LayoutOK
<1>5. Entry(t, c, j) = Silence
    BY <1>3, <1>4 DEF Quiet, Entry
<1>6. Place(t, c, 0, j) <= lo
    BY <1>1 DEF Place
<1> QED
    BY <1>5, <1>6

(* update_filter on a resampler between two calls.                         *)
LEMMA ChangedHolds ==
    ASSUME IInv, call = Idle, NEW t, LayoutOK(t), t.started = st.started,
           st.started => Moved(st, t),
           ~st.started => Quiet(t) \/ (Moved(st, t) /\ t.filt_len <= st.filt_len),
           NEW c \in Channels, c = 0 \/ stream = 1
    PROVE  Holds(t, c, t.filt_len + t.magic_samples[c] - 1, taken[c],
                 Forgotten(st, t)[c], stream)
<1>1. LayoutOK(st) /\ Remembered(c) /\ lost[c] \in Nat /\ taken[c] \in Nat
    BY DEF IInv
<1>2. /\ Forgotten(st, t)[c] \in Nat /\ Forgotten(st, t)[c] >= lost[c]
      /\ st.started /\ t.filt_len > st.filt_len =>
            Forgotten(st, t)[c] >= taken[c] - st.magic_samples[c] - (st.filt_len - 1)
    BY ForgottenNat
<1>3. Extent(c) = st.filt_len + st.magic_samples[c] - 1
    <2>1. call.pc # "run"
        BY DEF Idle
    <2> QED
        BY <2>1, <1>1, LayoutTypes DEF Extent
<1>4. ASSUME Moved(st, t), st.started \/ t.filt_len <= st.filt_len
      PROVE  Holds(t, c, t.filt_len + t.magic_samples[c] - 1, taken[c],
                   Forgotten(st, t)[c], stream)
    <2> DEFINE lo == Forgotten(st, t)[c]
               i(j) == Before(st, t.filt_len, t.magic_samples[c], c, j)
    <2> SUFFICES ASSUME NEW j \in 0..((t.filt_len + t.magic_samples[c] - 1) - 1)
                 PROVE  \/ Entry(t, c, j) = Silence /\ Place(t, c, taken[c], j) <= lo
                        \/ /\ Entry(t, c, j) = <<stream, c, Place(t, c, taken[c], j)>>
                           /\ Place(t, c, taken[c], j) >= 1
        BY DEF Holds
    <2>1. /\ st.filt_len \in Nat /\ st.magic_samples[c] \in Nat
          /\ t.filt_len \in Nat /\ t.magic_samples[c] \in Nat
        BY <1>1, LayoutTypes
    <2>2. j \in 0..(t.filt_len + t.magic_samples[c] - 2)
        BY <2>1
    <2>3. /\ i(j) <= st.filt_len + st.magic_samples[c] - 2
          /\ i(j) < 0 => t.filt_len > st.filt_len
          /\ Entry(t, c, j) = IF i(j) < 0 THEN Silence ELSE Entry(st, c, i(j))
        BY <1>4, <2>2 DEF Moved
    <2>4. i(j) = j + (st.filt_len + st.magic_samples[c])
                   - (t.filt_len + t.magic_samples[c])
        BY DEF Before
    <2> DEFINE b == i(j)
    <2>5. b \in Int /\ Place(t, c, taken[c], j) = taken[c] - st.magic_samples[c] + b
                                                     - st.filt_len + 2
        BY <1>1, <2>1, <2>4 DEF Place
    <2>6. /\ b <= st.filt_len + st.magic_samples[c] - 2
          /\ b < 0 => t.filt_len > st.filt_len
          /\ Entry(t, c, j) = IF b < 0 THEN Silence ELSE Entry(st, c, b)
        BY <2>3
    <2> HIDE DEF i, b, lo
    <2>7. lo \in Nat /\ lo >= lost[c]
          /\ (st.started /\ t.filt_len > st.filt_len =>
                lo >= taken[c] - st.magic_samples[c] - (st.filt_len - 1))
        BY <1>2 DEF lo
    <2>8. CASE b < 0
        <3>1. lo >= taken[c] - st.magic_samples[c] - (st.filt_len - 1)
            BY <1>4, <2>1, <2>6, <2>7, <2>8
        <3>2. Place(t, c, taken[c], j) <= lo
            BY <1>1, <2>1, <2>5, <2>7, <2>8, <3>1
        <3> QED
            BY <2>6, <2>8, <3>2
    <2>9. CASE ~(b < 0)
        <3>1. b \in 0..(Extent(c) - 1)
            BY <1>3, <2>1, <2>5, <2>6, <2>9
        <3>2. \/ Entry(st, c, b) = Silence /\ Place(st, c, taken[c], b) <= lost[c]
              \/ /\ Entry(st, c, b) = <<stream, c, Place(st, c, taken[c], b)>>
                 /\ Place(st, c, taken[c], b) >= 1
            BY <1>1, <3>1 DEF Remembered, Holds
        <3>3. /\ Place(st, c, taken[c], b) = Place(t, c, taken[c], j)
              /\ Place(t, c, taken[c], j) \in Int
            BY <1>1, <2>1, <2>5 DEF Place
        <3>4. Entry(t, c, j) = Entry(st, c, b)
            BY <2>6, <2>9
        <3>5. Place(t, c, taken[c], j) <= lost[c] => Place(t, c, taken[c], j) <= lo
            BY <1>1, <2>7, <3>3
        <3> QED
            BY <3>2, <3>3, <3>4, <3>5
    <2> QED
        BY <2>8, <2>9, <2>5
<1>5. CASE st.started
    BY <1>4, <1>5
<1>6. CASE ~st.started /\ Quiet(t)
    <2>1. taken[c] = 0 /\ t.magic_samples[c] = 0
        BY <1>6 DEF IInv, LayoutOK
    <2> QED
        BY <1>2, <1>6, <2>1, QuietHolds
<1> QED
    BY <1>4, <1>5, <1>6

(* Between two calls a channel's memory ends with its last magic sample.   *)
LEMMA IdleExtent ==
    ASSUME NEW c \in Channels
    PROVE  /\ LayoutOK(st) /\ call = Idle =>
                 Extent(c) = st.filt_len + st.magic_samples[c] - 1
           /\ LayoutOK(st') /\ call' = Idle =>
                 Extent(c)' = st'.filt_len + st'.magic_samples[c] - 1
<1>1. Idle.pc # "run"
    BY DEF Idle
<1>2. ASSUME LayoutOK(st), call = Idle
      PROVE  Extent(c) = st.filt_len + st.magic_samples[c] - 1
    <2>1. st.filt_len \in Nat /\ st.magic_samples[c] \in Nat
        BY <1>2, LayoutTypes
    <2> QED
        BY <1>1, <1>2, <2>1 DEF Extent
<1>3. ASSUME LayoutOK(st'), call' = Idle
      PROVE  Extent(c)' = st'.filt_len + st'.magic_samples[c] - 1
    <2>1. st'.filt_len \in Nat /\ st'.magic_samples[c] \in Nat
        BY <1>3, LayoutTypes
    <2> QED
        BY <1>1, <1>3, <2>1 DEF Extent
<1> QED
    BY <1>2, <1>3

(* A new resampler holds nothing.                                          *)
LEMMA InitHolds ==
    Init => /\ IInv /\ st.started = FALSE
            /\ \A c \in Channels : st.samp_frac_num[c] = 0
<1> SUFFICES ASSUME Init
             PROVE  /\ IInv /\ st.started = FALSE
                    /\ \A c \in Channels : st.samp_frac_num[c] = 0
    OBVIOUS
<1>1. PICK r \in Ratios, q \in Qualities :
         st = UpdateFilter(Blank(r, q), "none") /\ st.resampler # "zero"
    BY DEF Init
<1> DEFINE b == Blank(r, q)
           g == Gcd(r[1], r[2])
           num == r[1] \div g
           den == r[2] \div g
           none == [c \in Channels |-> 0]
<1>2. num \in Nat \ {0} /\ den \in Nat \ {0} /\ <<num, den>> \in Reduced
    <2>1. r[1] \in Nat \ {0} /\ r[2] \in Nat \ {0}
        BY ResamplerAssumption
    <2> QED
        BY <2>1, GcdDivides DEF Reduced
<1>3. /\ b.rates = r /\ b.num_rate = num /\ b.den_rate = den /\ b.quality = q
      /\ b.started = FALSE /\ b.filt_len = 0
      /\ b.samp_frac_num = none /\ b.magic_samples = none /\ b.mem = <<>>
    BY DEF Blank
<1>4. b \in States(b.mem)
    <2> HIDE DEF num, den
    <2>1. b = [rates |-> r, num_rate |-> num, den_rate |-> den,
               quality |-> q, started |-> FALSE, resampler |-> "zero",
               int_advance |-> 0, frac_advance |-> 0, oversample |-> 1,
               filt_len |-> 0, mem_alloc_size |-> 0, sinc_table_length |-> 0,
               last_sample |-> none, samp_frac_num |-> none,
               magic_samples |-> none, mem |-> <<>>]
        BY DEF Blank, num, den
    <2>2. none \in [Channels -> Nat]
        OBVIOUS
    <2> HIDE DEF none, b
    <2> QED
        BY <1>2, <2>1, <2>2 DEF States
<1>5. Rated(b)
    BY <1>2, <1>3 DEF Rated
<1> HIDE DEF b, num, den
<1>6. /\ LayoutOK(st) /\ SameRates(b, st) /\ StepsOK(st)
      /\ Quiet(st) \/ Kept(b, st)
    <2>1. \A c \in Channels : b.magic_samples[c] = 0
        BY <1>3
    <2>2. st = UpdateFilter(b, "none")
        BY <1>1 DEF b
    <2> QED
        BY <1>1, <1>3, <1>4, <1>5, <2>1, <2>2, UpdateHolds
<1>7. Quiet(st)
    BY <1>3, <1>6 DEF LayoutOK, Kept
<1>8. RatioOK(st) /\ st.started = FALSE /\ st.samp_frac_num = none
    BY <1>2, <1>3, <1>6 DEF RatioOK, SameRates
<1>9. /\ call = Idle /\ taken = none /\ lost = none /\ stream = 1 /\ overflowed = FALSE
    BY DEF Init
<1>10. \A c \in Channels : Remembered(c)
    <2> SUFFICES ASSUME NEW c \in Channels PROVE Remembered(c)
        OBVIOUS
    <2>1. st.magic_samples[c] = 0 /\ taken[c] = 0 /\ lost[c] \in Nat
        BY <1>6, <1>8, <1>9 DEF LayoutOK
    <2>2. Extent(c) = st.filt_len + st.magic_samples[c] - 1
        BY <1>6, <1>9, IdleExtent
    <2>3. Holds(st, c, st.filt_len + st.magic_samples[c] - 1, 0, lost[c], stream)
        BY <1>6, <1>7, <2>1, QuietHolds
    <2> QED
        BY <2>1, <2>2, <2>3 DEF Remembered
<1>11. \A c \in Channels : st.samp_frac_num[c] < st.den_rate
    BY <1>2, <1>3, <1>6, <1>8 DEF SameRates
<1>12. CallOK
    BY <1>9 DEF CallOK
<1>13. /\ taken \in [Channels -> Nat] /\ lost \in [Channels -> Nat]
       /\ \A c \in Channels : taken[c] = 0
    BY <1>9
<1>14. stream \in Nat \ {0} /\ overflowed \in BOOLEAN
    <2>1. stream \in Nat \ {0}
        BY <1>9
    <2>2. overflowed \in BOOLEAN
        BY <1>9, Zenon
    <2> QED
        BY <2>1, <2>2
<1>15. \A c \in Channels : st.samp_frac_num[c] = 0
    BY <1>8
<1> HIDE DEF none
<1>16. IInv
    BY <1>6, <1>8, <1>10, <1>11, <1>12, <1>13, <1>14 DEF IInv
<1> QED
    BY <1>8, <1>15, <1>16

(* The rest of the state after a change between two calls.                 *)
LEMMA ChangeHolds ==
    ASSUME IInv, call = Idle, UNCHANGED <<call, taken, stream>>,
           LayoutOK(st'), RatioOK(st'), st'.started = st.started,
           st.started => Moved(st, st'),
           ~st.started => Quiet(st') \/ (Moved(st, st') /\ st'.filt_len <= st.filt_len),
           lost' = Forgotten(st, st'), overflowed' \in BOOLEAN,
           ~overflowed' => /\ StepsOK(st')
                           /\ \A c \in Channels : st'.samp_frac_num[c] < st'.den_rate
    PROVE  IInv'
<1>1. lost' \in [Channels -> Nat]
    BY ForgottenNat
<1>2. CallOK'
    BY DEF CallOK
<1>3. ASSUME NEW c \in Channels, c = 0 \/ stream' = 1 PROVE Remembered(c)'
    <2>1. Holds(st', c, st'.filt_len + st'.magic_samples[c] - 1, taken[c],
                Forgotten(st, st')[c], stream)
        BY <1>3, ChangedHolds
    <2>2. Extent(c)' = st'.filt_len + st'.magic_samples[c] - 1
        BY IdleExtent
    <2> QED
        BY <2>1, <2>2 DEF Remembered
<1>4. /\ taken' \in [Channels -> Nat] /\ stream' \in Nat \ {0}
      /\ ~st'.started => \A c \in Channels : taken'[c] = 0
    BY DEF IInv
<1> QED
    BY <1>1, <1>2, <1>3, <1>4 DEF IInv

(* A layout whose rates or quality change is moved by that to nowhere.     *)
LEMMA SameLayout ==
    ASSUME NEW s, NEW t, NEW u, Kept(s, t), t.started = s.started,
           s.started => Moved(t, u), ~s.started => Quiet(u) \/ Kept(t, u),
           LayoutOK(s), LayoutOK(t), LayoutOK(u), u.started = s.started
    PROVE  /\ s.started => Moved(s, u)
           /\ ~s.started => Quiet(u) \/ (Moved(s, u) /\ u.filt_len <= s.filt_len)
<1>1. /\ \A c \in Channels : \A n, m, j : Before(t, n, m, c, j) = Before(s, n, m, c, j)
      /\ \A c \in Channels : \A i : Entry(t, c, i) = Entry(s, c, i)
      /\ t.filt_len = s.filt_len /\ t.magic_samples = s.magic_samples
      /\ t.last_sample = s.last_sample
    BY DEF Before, Kept, Entry
<1>2. Moved(t, u) => Moved(s, u)
    BY <1>1 DEF Moved
<1>3. Kept(t, u) => Moved(t, u) /\ u.filt_len <= s.filt_len
    <2>1. u \in States(u.mem)
        BY DEF LayoutOK
    <2>2. Kept(t, u) => Moved(t, u)
        BY <2>1, KeptHolds
    <2>3. Kept(t, u) => u.filt_len = s.filt_len
        BY <1>1 DEF Kept
    <2>4. s.filt_len \in Nat
        BY DEF LayoutOK
    <2> QED
        BY <2>2, <2>3, <2>4
<1> QED
    BY <1>2, <1>3

(* Another quality.                                                        *)
LEMMA SetQualityHolds ==
    ASSUME IInv, NEW q \in Qualities, NEW refused \in Allocations, SetQuality(q, refused)
    PROVE  /\ IInv' /\ st'.started = st.started /\ UNCHANGED <<taken, overflowed>>
           /\ st.started => Moved(st, st')
           /\ st'.num_rate = st.num_rate /\ st'.den_rate = st.den_rate
           /\ st'.samp_frac_num = st.samp_frac_num
<1> DEFINE t == [st EXCEPT !.quality = q]
<1>1. /\ call = Idle /\ st' = UpdateFilter(t, refused)
      /\ lost' = Forgotten(st, st') /\ UNCHANGED <<call, taken, stream, overflowed>>
    BY DEF SetQuality
<1>2. LayoutOK(st) /\ st \in States(st.mem)
    BY DEF IInv, LayoutOK
<1>3. /\ t \in States(st.mem) /\ Kept(st, t) /\ t.started = st.started
      /\ t.num_rate = st.num_rate /\ t.den_rate = st.den_rate /\ t.quality = q
      /\ t.samp_frac_num = st.samp_frac_num
    BY <1>2 DEF States, Kept
<1> HIDE DEF t
<1>4. LayoutOK(t) /\ t \in States(t.mem)
    <2>1. t.mem = st.mem
        BY <1>3 DEF Kept
    <2> QED
        BY <1>2, <1>3, <2>1, KeptHolds
<1>5. Rated(t)
    BY <1>3 DEF States, Rated
<1>6. /\ LayoutOK(st') /\ SameRates(t, st') /\ StepsOK(st')
      /\ t.started => Moved(t, st')
      /\ ~t.started => Quiet(st') \/ Kept(t, st')
    BY <1>1, <1>4, <1>5, UpdateHolds
<1>7. /\ st.started => Moved(st, st')
      /\ ~st.started => Quiet(st') \/ (Moved(st, st') /\ st'.filt_len <= st.filt_len)
      /\ st'.started = st.started
    <2>1. st'.started = st.started
        BY <1>3, <1>6 DEF SameRates
    <2> QED
        BY <1>2, <1>3, <1>4, <1>6, <2>1, SameLayout
<1>8. /\ st'.num_rate = st.num_rate /\ st'.den_rate = st.den_rate
      /\ st'.samp_frac_num = st.samp_frac_num
    BY <1>3, <1>6 DEF SameRates
<1>9. RatioOK(st')
    BY <1>8 DEF RatioOK, IInv
<1>10. /\ overflowed' \in BOOLEAN
       /\ ~overflowed' => /\ StepsOK(st')
                          /\ \A c \in Channels : st'.samp_frac_num[c] < st'.den_rate
    BY <1>1, <1>6, <1>8 DEF IInv
<1>11. IInv'
    BY <1>1, <1>6, <1>7, <1>9, <1>10, ChangeHolds
<1> QED
    BY <1>1, <1>7, <1>8, <1>11

(* Other rates: the part of a sample in the new units stays less than one. *)
LEMMA SetRateHolds ==
    ASSUME IInv, NEW ratio \in Ratios, NEW refused \in Allocations, SetRate(ratio, refused)
    PROVE  /\ IInv' /\ st'.started = st.started /\ UNCHANGED taken
           /\ \/ overflowed'
              \/ /\ overflowed' = overflowed /\ (st.started => Moved(st, st'))
                 /\ \A c \in Channels :
                       st.samp_frac_num[c] < st.den_rate =>
                          st'.samp_frac_num[c] =
                             (st.samp_frac_num[c] * st'.den_rate) \div st.den_rate
<1> DEFINE g == Gcd(ratio[1], ratio[2])
           num == ratio[1] \div g
           den == ratio[2] \div g
           bad == {c \in Channels : Overflows(st.samp_frac_num[c], den, st.den_rate)}
           scaled(c) == Min2(MultiplyFrac(st.samp_frac_num[c], den, st.den_rate), den - 1)
           fracs == [c \in Channels |-> IF \E b \in bad : b <= c THEN st.samp_frac_num[c]
                                        ELSE scaled(c)]
           t == [st EXCEPT !.rates = ratio, !.num_rate = num, !.den_rate = den,
                           !.samp_frac_num = fracs]
<1>1. /\ call = Idle /\ st' = IF bad # {} THEN t ELSE UpdateFilter(t, refused)
      /\ overflowed' = (overflowed \/ bad # {})
      /\ lost' = Forgotten(st, st') /\ UNCHANGED <<call, taken, stream>>
    <2> DEFINE s == [st EXCEPT !.rates = ratio, !.num_rate = num, !.den_rate = den]
               u == [s EXCEPT !.samp_frac_num =
                       [c \in Channels |-> IF \E b \in bad : b <= c THEN @[c] ELSE scaled(c)]]
    <2>1. s.den_rate = den /\ s.samp_frac_num = st.samp_frac_num
        BY DEF IInv, LayoutOK, States
    <2> DEFINE bad2 == {c \in Channels :
                          Overflows(st.samp_frac_num[c], s.den_rate, st.den_rate)}
               scaled2(c) == Min2(MultiplyFrac(st.samp_frac_num[c], s.den_rate, st.den_rate),
                                  s.den_rate - 1)
               v == [s EXCEPT !.samp_frac_num =
                       [c \in Channels |-> IF \E b \in bad2 : b <= c THEN @[c]
                                           ELSE scaled2(c)]]
    <2>2. /\ call = Idle /\ st' = IF bad2 # {} THEN v ELSE UpdateFilter(v, refused)
          /\ overflowed' = (overflowed \/ bad2 # {})
          /\ lost' = Forgotten(st, st') /\ UNCHANGED <<call, taken, stream>>
        BY DEF SetRate
    <2>3. bad2 = bad /\ \A c \in Channels : scaled2(c) = scaled(c)
        BY <2>1
    <2> HIDE DEF bad, bad2, scaled, scaled2
    <2>4. v = [s EXCEPT !.samp_frac_num = fracs]
        BY <2>1, <2>3
    <2>5. [s EXCEPT !.samp_frac_num = fracs] = t
        <3> HIDE DEF fracs
        <3> QED
            BY DEF IInv, LayoutOK, States
    <2> QED
        BY <2>2, <2>3, <2>4, <2>5
<1>2. LayoutOK(st) /\ st \in States(st.mem)
    BY DEF IInv, LayoutOK
<1>3. num \in Nat \ {0} /\ den \in Nat \ {0} /\ <<num, den>> \in Reduced
    <2>1. ratio[1] \in Nat \ {0} /\ ratio[2] \in Nat \ {0}
        BY ResamplerAssumption
    <2> QED
        BY <2>1, GcdDivides DEF Reduced
<1> HIDE DEF num, den
<1>4. ASSUME NEW c \in Channels
      PROVE  /\ scaled(c) \in Nat /\ scaled(c) < den
             /\ st.samp_frac_num[c] < st.den_rate =>
                   scaled(c) = (st.samp_frac_num[c] * den) \div st.den_rate
    <2> DEFINE v == st.samp_frac_num[c]
               d == st.den_rate
    <2>1. v \in Nat /\ d \in Nat \ {0}
        BY <1>2 DEF States
    <2> HIDE DEF v, d
    <2>2. MultiplyFrac(v, den, d) \in Nat
        BY <1>3, <2>1, MultiplyFracNat
    <2> HIDE DEF g
    <2>3. scaled(c) = Min2(MultiplyFrac(v, den, d), den - 1)
        BY DEF v, d
    <2>4. ASSUME v < d
          PROVE  MultiplyFrac(v, den, d) = (v * den) \div d /\ (v * den) \div d < den
        <3>1. (v * den) \div d < den
            BY <1>3, <2>1, <2>4, QuotientLess
        <3>2. den \in Nat
            BY <1>3
        <3>3. MultiplyFrac(v, den, d) = (v * den) \div d
            BY <2>1, <2>4, <3>2, MultiplyFracNat
        <3> QED
            BY <3>1, <3>3
    <2> HIDE DEF scaled
    <2> DEFINE m == MultiplyFrac(v, den, d)
    <2>5. /\ m \in Nat /\ scaled(c) = IF m < den - 1 THEN m ELSE den - 1
          /\ v < d => m = (v * den) \div d /\ m < den
        BY <2>2, <2>3, <2>4 DEF Min2
    <2> HIDE DEF m
    <2>6. scaled(c) \in Nat /\ scaled(c) < den /\ (m < den => scaled(c) = m)
        BY <1>3, <2>5
    <2> QED
        BY <2>5, <2>6 DEF v, d
<1> HIDE DEF scaled
<1>5. /\ fracs \in [Channels -> Nat]
      /\ bad = {} => \A c \in Channels : fracs[c] < den /\ fracs[c] = scaled(c)
    <2>1. st.samp_frac_num \in [Channels -> Nat]
        BY <1>2 DEF States
    <2> HIDE DEF bad
    <2> QED
        BY <1>4, <2>1
<1> HIDE DEF fracs, bad
<1>6. /\ t \in States(st.mem) /\ Kept(st, t) /\ t.started = st.started
      /\ t.num_rate = num /\ t.den_rate = den /\ t.samp_frac_num = fracs
    BY <1>2, <1>3, <1>5 DEF States, Kept
<1> HIDE DEF t
<1>7. LayoutOK(t) /\ Moved(st, t) /\ t \in States(t.mem) /\ t.filt_len = st.filt_len
    <2>1. t.mem = st.mem /\ t.filt_len = st.filt_len
        BY <1>6 DEF Kept
    <2> QED
        BY <1>2, <1>6, <2>1, KeptHolds
<1>8. RatioOK(t)
    BY <1>3, <1>6 DEF RatioOK
<1>9. st.filt_len \in Nat
    BY <1>2 DEF LayoutOK
<1>10. overflowed \in BOOLEAN
    BY DEF IInv
<1>11. CASE bad # {}
    <2>1. st' = t /\ overflowed' = TRUE
        BY <1>1, <1>11
    <2>2. IInv'
        BY <1>1, <1>6, <1>7, <1>8, <1>9, <2>1, ChangeHolds
    <2> QED
        BY <1>1, <1>6, <2>1, <2>2
<1>12. CASE bad = {}
    <2>1. st' = UpdateFilter(t, refused) /\ overflowed' = overflowed
        BY <1>1, <1>10, <1>12
    <2>2. Rated(t)
        BY <1>7 DEF States, Rated
    <2>3. /\ LayoutOK(st') /\ SameRates(t, st') /\ StepsOK(st')
          /\ t.started => Moved(t, st')
          /\ ~t.started => Quiet(st') \/ Kept(t, st')
        BY <1>7, <2>1, <2>2, UpdateHolds
    <2>4. /\ st.started => Moved(st, st')
          /\ ~st.started => Quiet(st') \/ (Moved(st, st') /\ st'.filt_len <= st.filt_len)
          /\ st'.started = st.started
        <3>1. st'.started = st.started
            BY <1>6, <2>3 DEF SameRates
        <3> QED
            BY <1>2, <1>6, <1>7, <2>3, <3>1, SameLayout
    <2>5. /\ st'.num_rate = num /\ st'.den_rate = den /\ st'.samp_frac_num = fracs
        BY <1>6, <2>3 DEF SameRates
    <2>6. RatioOK(st')
        BY <1>3, <2>5 DEF RatioOK
    <2>7. \A c \in Channels : st'.samp_frac_num[c] < st'.den_rate
        BY <1>5, <1>12, <2>5
    <2>8. IInv'
        BY <1>1, <1>10, <2>1, <2>3, <2>4, <2>6, <2>7, ChangeHolds
    <2>9. \A c \in Channels : st.samp_frac_num[c] < st.den_rate =>
             st'.samp_frac_num[c] = (st.samp_frac_num[c] * st'.den_rate) \div st.den_rate
        BY <1>4, <1>5, <1>12, <2>5
    <2> QED
        BY <1>1, <2>1, <2>4, <2>8, <2>9
<1> QED
    BY <1>11, <1>12

(* The first samples are skipped: a position, and nothing else.            *)
LEMMA SkipZerosHolds ==
    ASSUME IInv, SkipZeros
    PROVE  IInv'
<1> DEFINE half == st.filt_len \div 2
           lasts == [c \in Channels |-> half]
<1>1. /\ call = Idle /\ ~st.started /\ st' = [st EXCEPT !.last_sample = lasts]
      /\ UNCHANGED <<call, taken, lost, stream, overflowed>>
    BY DEF SkipZeros
<1>2. LayoutOK(st) /\ st \in States(st.mem)
    BY DEF IInv, LayoutOK
<1>3. lasts \in [Channels -> Nat]
    <2>1. half \in Nat
        BY <1>2, Halves DEF LayoutOK
    <2> HIDE DEF half
    <2> QED
        BY <2>1
<1> HIDE DEF lasts
<1>4. /\ st' \in States(st.mem) /\ st'.mem = st.mem
      /\ st'.filt_len = st.filt_len /\ st'.mem_alloc_size = st.mem_alloc_size
      /\ st'.magic_samples = st.magic_samples
      /\ SameRates(st, st') /\ SameSteps(st, st')
    BY <1>1, <1>2, <1>3 DEF States, SameRates, SameSteps
<1>5. LayoutOK(st')
    BY <1>2, <1>4 DEF LayoutOK, SameRates
<1>6. RatioOK(st')
    BY <1>4 DEF RatioOK, SameRates, IInv
<1>7. ~overflowed' => /\ StepsOK(st')
                      /\ \A c \in Channels : st'.samp_frac_num[c] < st'.den_rate
    BY <1>1, <1>4 DEF IInv, StepsOK, SameRates, SameSteps
<1>8. ASSUME NEW c \in Channels, c = 0 \/ stream' = 1 PROVE Remembered(c)'
    <2>1. Remembered(c)
        BY <1>1, <1>8 DEF IInv
    <2>2. Extent(c)' = Extent(c)
        BY <1>1, <1>2, <1>4, <1>5, IdleExtent
    <2>3. \A e, tk, lo, str :
             Holds(st, c, e, tk, lo, str) => Holds(st', c, e, tk, lo, str)
        BY <1>4 DEF Holds, Place, Entry
    <2> QED
        BY <1>1, <2>1, <2>2, <2>3 DEF Remembered
<1>9. CallOK'
    BY <1>1 DEF CallOK
<1>10. /\ taken' \in [Channels -> Nat] /\ lost' \in [Channels -> Nat]
       /\ stream' \in Nat \ {0} /\ overflowed' \in BOOLEAN
       /\ ~st'.started => \A c \in Channels : taken'[c] = 0
    BY <1>1 DEF IInv
<1> QED
    BY <1>5, <1>6, <1>7, <1>8, <1>9, <1>10 DEF IInv

(* The stream that is forgotten leaves silence in the first channel.       *)
LEMMA ResetMemHolds ==
    ASSUME IInv, ResetMem
    PROVE  IInv'
<1> DEFINE none == [c \in Channels |-> 0]
           mem == [k \in DOMAIN st.mem |-> IF k < NbChannels * (st.filt_len - 1)
                                           THEN Silence ELSE st.mem[k]]
<1>1. /\ call = Idle
      /\ st' = [st EXCEPT !.last_sample = none, !.magic_samples = none,
                          !.samp_frac_num = none, !.mem = mem]
      /\ taken' = none /\ lost' = none /\ stream' = stream + 1
      /\ UNCHANGED <<call, overflowed>>
    BY DEF ResetMem
<1>2. LayoutOK(st) /\ st \in States(st.mem)
    BY DEF IInv, LayoutOK
<1>3. mem \in [0..(NbChannels * st.mem_alloc_size - 1) -> Heard]
    <2>1. st.mem \in [0..(NbChannels * st.mem_alloc_size - 1) -> Heard]
        BY <1>2 DEF LayoutOK
    <2>2. Silence \in Heard
        BY DEF Silence, Heard
    <2> QED
        BY <2>1, <2>2
<1>4. none \in [Channels -> Nat] /\ \A c \in Channels : none[c] = 0
    OBVIOUS
<1>5. DOMAIN mem = 0..(NbChannels * st.mem_alloc_size - 1)
      /\ \A k \in DOMAIN mem : k < NbChannels * (st.filt_len - 1) => mem[k] = Silence
    BY <1>3
<1> HIDE DEF none, mem
<1>6. /\ st' \in States(mem) /\ st'.mem = mem
      /\ st'.filt_len = st.filt_len /\ st'.mem_alloc_size = st.mem_alloc_size
      /\ st'.magic_samples = none /\ st'.samp_frac_num = none
      /\ st'.num_rate = st.num_rate /\ st'.den_rate = st.den_rate
      /\ st'.quality = st.quality /\ st'.started = st.started
      /\ SameSteps(st, st')
    BY <1>1, <1>2, <1>4 DEF States, SameSteps
<1>7. LayoutOK(st')
    <2>1. ASSUME NEW c \in Channels
          PROVE  st'.filt_len + 2 * st'.magic_samples[c] - 1 + BufferSize
                    <= st'.mem_alloc_size
        <3>1. st'.magic_samples[c] = 0
            BY <1>4, <1>6
        <3> QED
            BY <1>2, <1>6, <3>1, LayoutTypes
    <2>2. \A c \in Channels : st'.magic_samples[c] = 0
        BY <1>4, <1>6
    <2>3. st'.filt_len \in Nat \ {0} /\ st'.filt_len % 2 = 0
        BY <1>2, <1>6 DEF LayoutOK
    <2> QED
        BY <1>3, <1>6, <2>1, <2>2, <2>3 DEF LayoutOK
<1>8. RatioOK(st')
    BY <1>6 DEF RatioOK, IInv
<1>9. ~overflowed' => /\ StepsOK(st')
                      /\ \A c \in Channels : st'.samp_frac_num[c] < st'.den_rate
    <2>1. \A c \in Channels : st'.samp_frac_num[c] < st'.den_rate
        BY <1>2, <1>4, <1>6 DEF States
    <2> QED
        BY <1>1, <1>6, <2>1 DEF IInv, StepsOK, SameSteps
<1>10. stream' \in Nat \ {0} /\ stream' # 1
    BY <1>1 DEF IInv
<1>11. Remembered(0)'
    <2> DEFINE F == st.filt_len
               A == st.mem_alloc_size
    <2>1. 0 \in Channels /\ NbChannels \in Nat \ {0}
        BY ResamplerAssumption DEF Channels
    <2>2. /\ F \in Nat \ {0} /\ A \in Nat /\ BufferSize \in Nat \ {0}
          /\ F + 2 * st.magic_samples[0] - 1 + BufferSize <= A /\ st.magic_samples[0] \in Nat
        BY <1>2, <2>1, LayoutTypes
    <2>3. Extent(0)' = F + 0 - 1
        BY <1>1, <1>4, <1>6, <1>7, <2>1, IdleExtent
    <2>4. ASSUME NEW j \in 0..((F + 0 - 1) - 1)
          PROVE  Entry(st', 0, j) = Silence /\ Place(st', 0, 0, j) <= 0
        <3>1. j \in Nat /\ j < F - 1 /\ j \in 0..(A - 1) /\ A \in Nat \ {0}
            BY <2>2
        <3>2. 0 * A + j \in 0..(NbChannels * A - 1)
            BY <2>1, <3>1, Places
        <3>3. 0 * A + j = j
            BY <2>2, <3>1
        <3>4. j < NbChannels * (F - 1)
            <4>1. 1 * (F - 1) <= NbChannels * (F - 1)
                BY <2>1, <2>2, TimesMono
            <4>2. NbChannels * (F - 1) \in Nat
                BY <2>1, <2>2, TimesNat
            <4> QED
                BY <2>2, <3>1, <4>1, <4>2
        <3>5. mem[j] = Silence
            BY <1>5, <3>2, <3>3, <3>4
        <3>6. Entry(st', 0, j) = Silence
            BY <1>6, <3>3, <3>5 DEF Entry
        <3>7. st'.magic_samples[0] = 0
            BY <1>4, <1>6, <2>1
        <3>8. Place(st', 0, 0, j) <= 0
            BY <1>6, <2>2, <3>1, <3>7 DEF Place
        <3> QED
            BY <3>6, <3>8
    <2>5. taken'[0] = 0 /\ lost'[0] = 0
        BY <1>1, <1>4, <2>1
    <2> HIDE DEF F
    <2> QED
        BY <2>3, <2>4, <2>5 DEF Remembered, Holds
<1>12. CallOK'
    BY <1>1 DEF CallOK
<1>13. /\ taken' \in [Channels -> Nat] /\ lost' \in [Channels -> Nat]
       /\ overflowed' \in BOOLEAN
       /\ ~st'.started => \A c \in Channels : taken'[c] = 0
    BY <1>1, <1>4 DEF IInv
<1> QED
    BY <1>7, <1>8, <1>9, <1>10, <1>11, <1>12, <1>13 DEF IInv

(* What a call is, when one runs.                                          *)
Calls == [pc : {"begin", "run", "rest", "end"}, kind : {"float", "int"},
          chan : Channels, ilen : Nat, olen : Nat, in : Nat, out : Nat,
          n : Nat, room : Nat, made : Nat, magic : BOOLEAN]

(* A call that is not idle is a call.                                      *)
LEMMA CallTypes ==
    ASSUME IInv, call.pc # "idle"
    PROVE  /\ call \in Calls /\ call.chan \in Channels /\ call # Idle
           /\ call.ilen <= call.in /\ call.olen <= call.out
           /\ call.pc \in {"run", "rest"} => st.started /\ call.room <= call.olen
           /\ call.pc = "rest" => st.magic_samples[call.chan] = 0
           /\ call.pc = "run" =>
                 /\ call.made <= call.room
                 /\ IF call.magic THEN call.n = st.magic_samples[call.chan]
                    ELSE /\ st.magic_samples[call.chan] = 0 /\ call.n <= call.ilen
                         /\ call.n <= st.mem_alloc_size - (st.filt_len - 1)
<1>1. call # Idle
    BY DEF Idle
<1>2. call \in Calls
    BY <1>1 DEF IInv, CallOK, Calls
<1> QED
    BY <1>1, <1>2 DEF IInv, CallOK, Calls

(* A call begins.                                                          *)
LEMMA ProcessHolds ==
    ASSUME IInv, NEW kind \in {"float", "int"}, NEW ilen \in Chunks, NEW olen \in Chunks,
           Process(kind, ilen, olen)
    PROVE  IInv'
<1>1. /\ call = Idle
      /\ call' = [pc |-> "begin", kind |-> kind, chan |-> 0, ilen |-> ilen, olen |-> olen,
                  in |-> ilen, out |-> olen, n |-> 0, room |-> 0, made |-> 0,
                  magic |-> FALSE]
      /\ UNCHANGED <<st, taken, lost, stream, overflowed>>
    BY DEF Process
<1>2. ilen \in Nat /\ olen \in Nat /\ 0 \in Channels
    <2>1. NbChannels \in Nat \ {0} /\ Chunks \subseteq Nat
        BY ResamplerAssumption
    <2>2. 0 \in Channels
        BY <2>1 DEF Channels
    <2> QED
        BY <2>1, <2>2
<1>3. /\ call' \in Calls /\ call'.pc = "begin"
      /\ call'.ilen = call'.in /\ call'.olen = call'.out
      /\ call'.in \in Nat /\ call'.out \in Nat
    BY <1>1, <1>2 DEF Calls
<1>4. CallOK'
    BY <1>3 DEF CallOK, Calls
<1>5. ASSUME NEW c \in Channels, c = 0 \/ stream' = 1 PROVE Remembered(c)'
    <2>1. Remembered(c)
        BY <1>1, <1>5 DEF IInv
    <2>2. Extent(c)' = Extent(c)
        BY <1>1, <1>3 DEF Extent, Idle
    <2> QED
        BY <1>1, <2>1, <2>2 DEF Remembered
<1>6. /\ LayoutOK(st') /\ RatioOK(st')
      /\ taken' \in [Channels -> Nat] /\ lost' \in [Channels -> Nat]
      /\ stream' \in Nat \ {0} /\ overflowed' \in BOOLEAN
      /\ ~st'.started => \A c \in Channels : taken'[c] = 0
      /\ ~overflowed' => /\ StepsOK(st')
                         /\ \A c \in Channels : st'.samp_frac_num[c] < st'.den_rate
    BY <1>1 DEF IInv
<1> QED
    BY <1>4, <1>5, <1>6 DEF IInv

(* What a step of a call leaves alone.                                     *)
Going(s, t) ==
    /\ t \in States(t.mem) /\ t.started = TRUE
    /\ t.rates = s.rates /\ t.num_rate = s.num_rate /\ t.den_rate = s.den_rate
    /\ t.quality = s.quality /\ SameSteps(s, t)
    /\ t.filt_len = s.filt_len /\ t.mem_alloc_size = s.mem_alloc_size

(* The part of the invariant that such a step cannot disturb.              *)
LEMMA GoingHolds ==
    ASSUME IInv, Going(st, st'), UNCHANGED <<lost, stream, overflowed>>,
           st'.mem \in [0..(NbChannels * st.mem_alloc_size - 1) -> Heard],
           \A c \in Channels : st'.magic_samples[c] <= st.magic_samples[c],
           taken' \in [Channels -> Nat],
           ~overflowed => \A c \in Channels : st'.samp_frac_num[c] < st.den_rate,
           CallOK', \A c \in Channels : c = 0 \/ stream = 1 => Remembered(c)'
    PROVE  IInv'
<1>1. LayoutOK(st')
    <2>1. ASSUME NEW c \in Channels
          PROVE  st'.filt_len + 2 * st'.magic_samples[c] - 1 + BufferSize
                    <= st'.mem_alloc_size
        <3>1. st'.magic_samples[c] \in Nat /\ st'.magic_samples[c] <= st.magic_samples[c]
            BY DEF Going, States
        <3>2. /\ st.filt_len \in Nat /\ st.magic_samples[c] \in Nat
              /\ st.mem_alloc_size \in Nat /\ BufferSize \in Nat
              /\ st.filt_len + 2 * st.magic_samples[c] - 1 + BufferSize
                    <= st.mem_alloc_size
            BY LayoutTypes DEF IInv
        <3>3. st'.filt_len = st.filt_len /\ st'.mem_alloc_size = st.mem_alloc_size
            BY DEF Going
        <3> DEFINE m == st.magic_samples[c]
                   mm == st'.magic_samples[c]
        <3>4. /\ mm \in Nat /\ m \in Nat /\ mm <= m
              /\ st.filt_len + 2 * m - 1 + BufferSize <= st.mem_alloc_size
            BY <3>1, <3>2
        <3> HIDE DEF m, mm
        <3>5. st.filt_len + 2 * mm - 1 + BufferSize <= st.mem_alloc_size
            BY <3>2, <3>4
        <3> QED
            BY <3>3, <3>5 DEF mm
    <2>2. st'.filt_len \in Nat \ {0} /\ st'.filt_len % 2 = 0
        BY DEF IInv, LayoutOK, Going
    <2>3. st'.mem \in [0..(NbChannels * st'.mem_alloc_size - 1) -> Heard]
        BY DEF Going
    <2> QED
        BY <2>1, <2>2, <2>3 DEF LayoutOK, Going
<1>2. RatioOK(st')
    BY DEF IInv, RatioOK, Going
<1>3. ~overflowed' => /\ StepsOK(st')
                      /\ \A c \in Channels : st'.samp_frac_num[c] < st'.den_rate
    BY DEF IInv, StepsOK, Going, SameSteps
<1>4. /\ lost' \in [Channels -> Nat] /\ stream' \in Nat \ {0} /\ overflowed' \in BOOLEAN
    BY DEF IInv
<1>5. st'.started /\ \A c \in Channels : c = 0 \/ stream' = 1 => Remembered(c)'
    BY DEF Going
<1> QED
    BY <1>1, <1>2, <1>3, <1>4, <1>5 DEF IInv

(* The smaller of two lengths.                                             *)
LEMMA MinOfTwo ==
    ASSUME NEW a \in Int, NEW b \in Int
    PROVE  /\ Min2(a, b) \in {a, b} /\ Min2(a, b) <= a /\ Min2(a, b) <= b
           /\ a \in Nat /\ b \in Nat => Min2(a, b) \in Nat
BY DEF Min2

(* The room for the samples that come out.                                 *)
LEMMA RoomHolds ==
    ASSUME NEW olen \in Nat, NEW kind
    PROVE  LET room == IF kind = "int" THEN Min2(olen, StackAlloc) ELSE olen
           IN  room \in Nat /\ room <= olen
BY MinOfTwo, ResamplerAssumption

(* The magic samples become the input.                                     *)
LEMMA RunMagicHolds ==
    ASSUME IInv, RunMagic
    PROVE  IInv'
<1> DEFINE c == call.chan
           room == IF call.kind = "int" THEN Min2(call.olen, StackAlloc) ELSE call.olen
           magic == st.magic_samples[c]
<1>1. /\ call.pc = "begin"
      /\ call' = [call EXCEPT !.pc = "run", !.magic = TRUE, !.made = 0, !.n = magic,
                              !.room = room]
      /\ st' = [st EXCEPT !.started = TRUE]
      /\ UNCHANGED <<taken, lost, stream, overflowed>>
    BY DEF RunMagic
<1>2. /\ call \in Calls /\ c \in Channels
      /\ call.ilen <= call.in /\ call.olen <= call.out
    BY <1>1, CallTypes
<1>3. LayoutOK(st) /\ st \in States(st.mem)
    BY DEF IInv, LayoutOK
<1>4. magic \in Nat
    BY <1>2, <1>3 DEF States
<1>5. room \in Nat /\ room <= call.olen
    BY <1>2, RoomHolds DEF Calls
<1> HIDE DEF room
<1>6. /\ Going(st, st') /\ st'.mem = st.mem
      /\ st'.magic_samples = st.magic_samples /\ st'.samp_frac_num = st.samp_frac_num
    BY <1>1, <1>3 DEF Going, States, SameSteps
<1>7. /\ call' \in Calls /\ call'.pc = "run" /\ call'.magic = TRUE /\ call'.n = magic
      /\ call'.room = room /\ call'.made = 0 /\ call'.chan = c
      /\ call'.ilen = call.ilen /\ call'.in = call.in
      /\ call'.olen = call.olen /\ call'.out = call.out
    <2> HIDE DEF magic, c
    <2>1. c = call.chan
        BY DEF c
    <2> QED
        BY <1>1, <1>2, <1>4, <1>5, <2>1 DEF Calls
<1>8. CallOK'
    <2>1. st'.started /\ st'.magic_samples[c] = magic
        BY <1>6 DEF Going
    <2> HIDE DEF c, magic
    <2> QED
        BY <1>2, <1>5, <1>7, <2>1 DEF CallOK, Calls
<1>9. ASSUME NEW d \in Channels, d = 0 \/ stream = 1 PROVE Remembered(d)'
    <2>1. Remembered(d)
        BY <1>9 DEF IInv
    <2>2. Extent(d)' = Extent(d)
        BY <1>1, <1>6, <1>7 DEF Extent, Going
    <2>3. \A e, tk, lo, str :
             Holds(st, d, e, tk, lo, str) => Holds(st', d, e, tk, lo, str)
        BY <1>6 DEF Holds, Place, Entry, Going
    <2> QED
        BY <1>1, <2>1, <2>2, <2>3 DEF Remembered
<1>10. /\ st'.mem \in [0..(NbChannels * st.mem_alloc_size - 1) -> Heard]
       /\ taken' \in [Channels -> Nat]
       /\ ~overflowed => \A d \in Channels : st'.samp_frac_num[d] < st.den_rate
    BY <1>1, <1>3, <1>6 DEF IInv, LayoutOK
<1>11. \A d \in Channels : st'.magic_samples[d] <= st.magic_samples[d]
    BY <1>3, <1>6 DEF States
<1> QED
    BY <1>1, <1>6, <1>8, <1>9, <1>10, <1>11, GoingHolds

(* One turn of the loop of a resampler function.                           *)
LEMMA EmitHolds ==
    ASSUME IInv, Emit
    PROVE  IInv'
<1> DEFINE c == call.chan
           frac == st.samp_frac_num[c] + st.frac_advance
           carry == frac >= st.den_rate
           last == st.last_sample[c] + st.int_advance + (IF carry THEN 1 ELSE 0)
           part == IF carry THEN frac - st.den_rate ELSE frac
           lasts == [st.last_sample EXCEPT ![c] = last]
           parts == [st.samp_frac_num EXCEPT ![c] = part]
<1>1. /\ call.pc = "run" /\ call.made < call.room
      /\ st' = [st EXCEPT !.last_sample = lasts, !.samp_frac_num = parts]
      /\ call' = [call EXCEPT !.made = call.made + 1]
      /\ UNCHANGED <<taken, lost, stream, overflowed>>
    <2>1. st \in States(st.mem)
        BY DEF IInv, LayoutOK
    <2>2. st' = [st EXCEPT !.last_sample[c] = last, !.samp_frac_num[c] = part]
        BY DEF Emit
    <2>3. st' = [st EXCEPT !.last_sample = lasts, !.samp_frac_num = parts]
        <3> HIDE DEF last, part
        <3> QED
            BY <2>1, <2>2 DEF States
    <2> QED
        BY <2>3 DEF Emit, Running
<1>2. /\ call \in Calls /\ c \in Channels /\ st.started
      /\ call.ilen <= call.in /\ call.olen <= call.out /\ call.room <= call.olen
      /\ IF call.magic THEN call.n = st.magic_samples[c]
         ELSE /\ st.magic_samples[c] = 0 /\ call.n <= call.ilen
              /\ call.n <= st.mem_alloc_size - (st.filt_len - 1)
    BY <1>1, CallTypes
<1>3. LayoutOK(st) /\ st \in States(st.mem)
    BY DEF IInv, LayoutOK
<1>4. last \in Nat /\ part \in Nat
    <2>1. /\ st.samp_frac_num[c] \in Nat /\ st.frac_advance \in Nat
          /\ st.last_sample[c] \in Nat /\ st.int_advance \in Nat /\ st.den_rate \in Nat
        BY <1>2, <1>3 DEF States
    <2> QED
        BY <2>1
<1>5. ASSUME ~overflowed PROVE part < st.den_rate
    <2>1. /\ st.frac_advance = st.num_rate % st.den_rate
          /\ st.samp_frac_num[c] < st.den_rate
        BY <1>2, <1>5 DEF IInv, StepsOK
    <2>2. /\ st.num_rate \in Nat /\ st.den_rate \in Nat \ {0}
          /\ st.samp_frac_num[c] \in Nat
        BY <1>2, <1>3 DEF States
    <2>3. st.num_rate % st.den_rate \in Nat /\ st.num_rate % st.den_rate < st.den_rate
        BY <2>2, DivMod
    <2> QED
        BY <2>1, <2>2, <2>3
<1> HIDE DEF last, part
<1>6. lasts \in [Channels -> Nat] /\ parts \in [Channels -> Nat]
    BY <1>3, <1>4 DEF States
<1>7. ~overflowed => \A d \in Channels : parts[d] < st.den_rate
    BY <1>3, <1>5 DEF States, IInv
<1> HIDE DEF lasts, parts
<1>8. /\ Going(st, st') /\ st'.mem = st.mem
      /\ st'.magic_samples = st.magic_samples /\ st'.samp_frac_num = parts
    BY <1>1, <1>2, <1>3, <1>6 DEF Going, States, SameSteps
<1> HIDE DEF c
<1>9. /\ call' \in Calls /\ call'.pc = "run" /\ call'.magic = call.magic
      /\ call'.n = call.n /\ call'.room = call.room /\ call'.made <= call'.room
      /\ call'.chan = c /\ call'.chan = call.chan
      /\ call'.ilen = call.ilen /\ call'.in = call.in
      /\ call'.olen = call.olen /\ call'.out = call.out
    BY <1>1, <1>2 DEF Calls, c
<1>10. CallOK'
    <2>1. /\ st'.started /\ st'.magic_samples[c] = st.magic_samples[c]
          /\ st'.mem_alloc_size = st.mem_alloc_size /\ st'.filt_len = st.filt_len
        BY <1>8 DEF Going
    <2> QED
        BY <1>2, <1>9, <2>1 DEF CallOK, Calls
<1>11. ASSUME NEW d \in Channels, d = 0 \/ stream = 1 PROVE Remembered(d)'
    <2>1. Remembered(d)
        BY <1>11 DEF IInv
    <2>2. Extent(d)' = Extent(d)
        BY <1>1, <1>8, <1>9 DEF Extent, Going
    <2>3. \A e, tk, lo, str :
             Holds(st, d, e, tk, lo, str) => Holds(st', d, e, tk, lo, str)
        BY <1>8 DEF Holds, Place, Entry, Going
    <2> QED
        BY <1>1, <2>1, <2>2, <2>3 DEF Remembered
<1>12. /\ st'.mem \in [0..(NbChannels * st.mem_alloc_size - 1) -> Heard]
       /\ taken' \in [Channels -> Nat]
       /\ ~overflowed => \A d \in Channels : st'.samp_frac_num[d] < st.den_rate
    BY <1>1, <1>3, <1>7, <1>8 DEF IInv, LayoutOK
<1>13. \A d \in Channels : st'.magic_samples[d] <= st.magic_samples[d]
    BY <1>3, <1>8 DEF States
<1> QED
    BY <1>1, <1>8, <1>10, <1>11, <1>12, <1>13, GoingHolds

(* Places of two channels are never the same.                              *)
LEMMA Apart ==
    ASSUME NEW A \in Nat \ {0}, NEW c \in Channels, NEW d \in Channels, c # d,
           NEW i \in 0..(A - 1), NEW j \in 0..(A - 1)
    PROVE  c * A + i # d * A + j
<1>1. (c * A + i) \div A = c /\ (d * A + j) \div A = d
    BY Places
<1> QED
    BY <1>1

(* Channels that a step leaves alone remember what they did.               *)
LEMMA OtherHolds ==
    ASSUME NEW s, LayoutOK(s), NEW t, t.filt_len = s.filt_len,
           t.mem_alloc_size = s.mem_alloc_size, NEW c \in Channels,
           t.magic_samples[c] = s.magic_samples[c], NEW e \in Int, e <= s.mem_alloc_size,
           \A i \in 0..(s.mem_alloc_size - 1) : Entry(t, c, i) = Entry(s, c, i),
           NEW tk, NEW lo, NEW str, Holds(s, c, e, tk, lo, str)
    PROVE  Holds(t, c, e, tk, lo, str)
<1>1. \A j \in 0..(e - 1) : j \in 0..(s.mem_alloc_size - 1)
    BY LayoutTypes
<1> QED
    BY <1>1 DEF Holds, Place

(* What a channel has in use fits in its memory.                           *)
LEMMA ExtentFits ==
    ASSUME IInv, NEW c \in Channels
    PROVE  Extent(c) \in Nat /\ Extent(c) <= st.mem_alloc_size
<1>1. /\ st.filt_len \in Nat \ {0} /\ st.magic_samples[c] \in Nat
      /\ st.mem_alloc_size \in Nat /\ BufferSize \in Nat
      /\ st.filt_len + 2 * st.magic_samples[c] - 1 + BufferSize <= st.mem_alloc_size
    BY LayoutTypes DEF IInv
<1>2. CASE call.pc = "run" /\ ~call.magic /\ call.chan = c
    <2>1. call.pc # "idle"
        BY <1>2
    <2>2. /\ call.n \in Nat /\ call.n <= st.mem_alloc_size - (st.filt_len - 1)
          /\ st.magic_samples[c] = 0
        BY <1>2, <2>1, CallTypes DEF Calls
    <2>3. Extent(c) = st.filt_len + st.magic_samples[c] - 1 + call.n
        BY <1>2 DEF Extent
    <2> QED
        BY <1>1, <2>2, <2>3
<1>3. CASE ~(call.pc = "run" /\ ~call.magic /\ call.chan = c)
    <2>1. Extent(c) = st.filt_len + st.magic_samples[c] - 1
        BY <1>1, <1>3 DEF Extent
    <2> QED
        BY <1>1, <2>1
<1> QED
    BY <1>2, <1>3

(* A chunk of the input is put behind the memory of its channel.           *)
LEMMA RunChunkHolds ==
    ASSUME IInv, RunChunk
    PROVE  IInv'
<1> DEFINE c == call.chan
           F == st.filt_len
           A == st.mem_alloc_size
           n == Chunk
           first == c * A + F - 1
           mem == [k \in DOMAIN st.mem |->
                     IF k \in first..(first + n - 1)
                     THEN <<stream, c, taken[c] + k - first + 1>> ELSE st.mem[k]]
           room == IF call.pc = "begin"
                   THEN IF call.kind = "int" THEN Min2(call.olen, StackAlloc) ELSE call.olen
                   ELSE call.room
<1>1. /\ call.pc \in {"begin", "rest"} /\ (call.pc = "begin" => ~Magic)
      /\ call' = [call EXCEPT !.pc = "run", !.magic = FALSE, !.made = 0, !.n = n,
                              !.room = room]
      /\ st' = [st EXCEPT !.mem = mem, !.started = TRUE]
      /\ UNCHANGED <<taken, lost, stream, overflowed>>
    <2>1. mem = Copied(Chunk)
        BY DEF Copied, Sample
    <2>2. st' = [st EXCEPT !.mem = Copied(Chunk), !.started = TRUE]
          /\ UNCHANGED <<taken, lost, stream, overflowed>>
        BY DEF RunChunk
    <2>3. \/ /\ call.pc = "begin" /\ ~Magic
             /\ call' = [call EXCEPT !.pc = "run", !.magic = FALSE, !.made = 0, !.n = n,
                            !.room = IF call.kind = "int" THEN Min2(call.olen, StackAlloc)
                                                       ELSE call.olen]
          \/ /\ call.pc = "rest"
             /\ call' = [call EXCEPT !.pc = "run", !.magic = FALSE, !.made = 0, !.n = n]
        BY DEF RunChunk
    <2> HIDE DEF n, mem
    <2>4. call.pc = "rest" => call \in Calls
        BY CallTypes
    <2>5. call.pc = "rest" =>
             [call EXCEPT !.pc = "run", !.magic = FALSE, !.made = 0, !.n = n] =
             [call EXCEPT !.pc = "run", !.magic = FALSE, !.made = 0, !.n = n,
                          !.room = call.room]
        BY <2>4 DEF Calls
    <2> QED
        BY <2>1, <2>2, <2>3, <2>5
<1>2. /\ call \in Calls /\ c \in Channels
      /\ call.ilen <= call.in /\ call.olen <= call.out
      /\ call.pc = "rest" => st.magic_samples[c] = 0 /\ call.room <= call.olen
    BY <1>1, CallTypes
<1>3. LayoutOK(st) /\ st \in States(st.mem)
    BY DEF IInv, LayoutOK
<1>4. /\ F \in Nat \ {0} /\ A \in Nat \ {0} /\ F - 1 <= A
    BY <1>2, <1>3, LayoutTypes
<1>5. st.magic_samples[c] = 0
    <2>1. st.magic_samples[c] \in Nat
        BY <1>2, <1>3 DEF States
    <2> QED
        BY <1>1, <1>2, <2>1 DEF Magic
<1>6. n \in Nat /\ n <= call.ilen /\ n <= A - (F - 1)
    <2>1. call.ilen \in Nat /\ A - (F - 1) \in Nat
        BY <1>2, <1>4 DEF Calls
    <2>2. n = Min2(call.ilen, A - (F - 1))
        BY DEF Chunk
    <2> DEFINE a == call.ilen
               b == A - (F - 1)
    <2>3. a \in Nat /\ b \in Nat /\ n = Min2(a, b)
        BY <2>1, <2>2
    <2> HIDE DEF F, A, n, a, b
    <2>4. n \in Nat /\ n <= a /\ n <= b
        BY <2>3, MinOfTwo
    <2> QED
        BY <2>4 DEF a, b
<1>7. room \in Nat /\ room <= call.olen
    <2>1. call.pc = "begin" => room = IF call.kind = "int" THEN Min2(call.olen, StackAlloc)
                                      ELSE call.olen
        OBVIOUS
    <2>2. call.pc # "begin" => room = call.room
        OBVIOUS
    <2>3. call.olen \in Nat /\ call.room \in Nat
        BY <1>2 DEF Calls
    <2> HIDE DEF room
    <2> QED
        BY <1>1, <1>2, <2>1, <2>2, <2>3, RoomHolds
<1> HIDE DEF room, n
<1>8. DOMAIN st.mem = 0..(NbChannels * A - 1)
      /\ st.mem \in [0..(NbChannels * A - 1) -> Heard]
    BY <1>3 DEF LayoutOK
<1>9. c \in Nat /\ c * A \in Nat /\ taken[c] \in Nat /\ stream \in Nat
    <2>1. c \in Nat
        BY <1>2, ResamplerAssumption DEF Channels
    <2>2. taken[c] \in Nat /\ stream \in Nat
        BY <1>2 DEF IInv
    <2> QED
        BY <1>4, <2>1, <2>2, TimesNat
<1>10. mem \in [0..(NbChannels * A - 1) -> Heard]
    <2>1. ASSUME NEW k \in 0..(NbChannels * A - 1)
          PROVE  <<stream, c, taken[c] + k - first + 1>> \in Heard
        <3>1. k \in Int
            <4> HIDE DEF A
            <4> QED
                BY <1>4, ResamplerAssumption
        <3>2. taken[c] + k - first + 1 \in Int
            <4> HIDE DEF A, c, F
            <4> QED
                BY <1>4, <1>9, <3>1
        <3> QED
            BY <1>9, <3>2 DEF Heard
    <2> QED
        BY <1>8, <2>1
<1>11. \A k \in 0..(NbChannels * A - 1) :
          mem[k] = IF k \in first..(first + n - 1)
                   THEN <<stream, c, taken[c] + k - first + 1>> ELSE st.mem[k]
    BY <1>8
<1> HIDE DEF mem
<1>12. /\ Going(st, st') /\ st'.mem = mem
       /\ st'.magic_samples = st.magic_samples /\ st'.samp_frac_num = st.samp_frac_num
       /\ st'.filt_len = F /\ st'.mem_alloc_size = A
    BY <1>1, <1>3 DEF Going, States, SameSteps
<1>13. /\ call' \in Calls /\ call'.pc = "run" /\ call'.magic = FALSE /\ call'.n = n
       /\ call'.room = room /\ call'.made = 0 /\ call'.chan = c
       /\ call'.ilen = call.ilen /\ call'.in = call.in
       /\ call'.olen = call.olen /\ call'.out = call.out
    <2> HIDE DEF c
    <2>1. c = call.chan
        BY DEF c
    <2> QED
        BY <1>1, <1>2, <1>6, <1>7, <2>1 DEF Calls
<1>14. CallOK'
    <2>1. st'.started /\ st'.magic_samples[c] = 0
        BY <1>5, <1>12 DEF Going
    <2> HIDE DEF c, F, A
    <2> QED
        BY <1>2, <1>6, <1>7, <1>12, <1>13, <2>1 DEF CallOK, Calls
<1>15. ASSUME NEW d \in Channels, d = 0 \/ stream = 1 PROVE Remembered(d)'
    <2>1. Remembered(d)
        BY <1>15 DEF IInv
    <2>2. CASE d # c
        <3>1. Extent(d)' = Extent(d)
            <4>1. call.pc # "run" /\ ~(call'.chan = d)
                BY <1>1, <1>13, <2>2
            <4> QED
                BY <1>12, <4>1 DEF Extent
        <3>2. ASSUME NEW i \in 0..(A - 1) PROVE Entry(st', d, i) = Entry(st, d, i)
            <4>1. d * A + i \in 0..(NbChannels * A - 1)
                BY <1>4, Places
            <4>2. d * A + i \notin first..(first + n - 1)
                <5> SUFFICES ASSUME d * A + i \in first..(first + n - 1) PROVE FALSE
                    OBVIOUS
                <5> DEFINE e == d * A + i - (c * A)
                <5>1. d * A + i \in Int /\ first = c * A + F - 1
                    <6> HIDE DEF A, F
                    <6> QED
                        BY <1>4, <4>1, ResamplerAssumption
                <5> DEFINE k == d * A + i
                           z == c * A
                <5>2. k \in Int /\ z \in Nat /\ first = z + F - 1
                      /\ k \in first..(first + n - 1)
                    BY <1>9, <5>1
                <5>3. k - z \in 0..(A - 1) /\ k = z + (k - z)
                    <6> HIDE DEF A, F, k, z, first
                    <6> QED
                        BY <1>4, <1>6, <5>2
                <5>4. c * A + (k - z) # d * A + i
                    <6> HIDE DEF k, z
                    <6> QED
                        BY <1>2, <1>4, <2>2, <5>3, Apart
                <5> QED
                    BY <5>3, <5>4
            <4> DEFINE k == d * A + i
            <4>3. Entry(st', d, i) = mem[k] /\ Entry(st, d, i) = st.mem[k]
                BY <1>12 DEF Entry
            <4> HIDE DEF first
            <4>4. k \in 0..(NbChannels * A - 1) /\ k \notin first..(first + n - 1)
                BY <4>1, <4>2
            <4> HIDE DEF k
            <4> QED
                BY <1>11, <4>3, <4>4
        <3>3. Extent(d) \in Nat /\ Extent(d) <= A
            BY ExtentFits
        <3>4. Holds(st', d, Extent(d), taken[d], lost[d], stream)
            BY <1>3, <1>12, <2>1, <3>2, <3>3, OtherHolds DEF Remembered
        <3> QED
            BY <1>1, <3>1, <3>4 DEF Remembered
    <2>3. CASE d = c
        <3>1. /\ Extent(d)' = F + 0 - 1 + n /\ Extent(d) = F + 0 - 1
            <4>1. call.pc # "run" /\ call'.pc = "run" /\ ~call'.magic /\ call'.chan = d
                BY <1>1, <1>13, <2>3
            <4>2. /\ st'.magic_samples[d] = 0 /\ st'.filt_len = F
                  /\ st.magic_samples[d] = 0
                BY <1>5, <1>12, <2>3
            <4>3. st.filt_len = F /\ call'.n = n
                BY <1>13
            <4> HIDE DEF c, F
            <4>4. Extent(d)' = F + 0 - 1 + n
                BY <4>1, <4>2, <4>3 DEF Extent
            <4>5. Extent(d) = F + 0 - 1 + 0
                BY <4>1, <4>2, <4>3 DEF Extent
            <4> QED
                BY <1>4, <4>4, <4>5
        <3>2. ASSUME NEW j \in 0..((F + 0 - 1 + n) - 1)
              PROVE  \/ /\ Entry(st', c, j) = Silence
                        /\ Place(st', c, taken[c], j) <= lost[c]
                     \/ /\ Entry(st', c, j) = <<stream, c, Place(st', c, taken[c], j)>>
                        /\ Place(st', c, taken[c], j) >= 1
            <4>1. /\ j \in 0..(A - 1)
                  /\ Place(st', c, taken[c], j) = taken[c] + j - F + 2
                <5>1. st'.magic_samples[c] = 0
                    BY <1>5, <1>12
                <5>2. Place(st', c, taken[c], j) = taken[c] - 0 + j - F + 2
                    BY <1>12, <5>1 DEF Place
                <5> HIDE DEF F, A
                <5> QED
                    BY <1>4, <1>6, <1>9, <5>2
            <4>2. c * A + j \in 0..(NbChannels * A - 1)
                BY <1>2, <1>4, <4>1, Places
            <4>3. Entry(st', c, j) = mem[c * A + j] /\ Entry(st, c, j) = st.mem[c * A + j]
                BY <1>12 DEF Entry
            <4>4. CASE j < F - 1
                <5>1. ~(c * A + j \in first..(first + n - 1))
                    <6> DEFINE z == c * A
                    <6>1. z \in Nat /\ first = z + F - 1
                        BY <1>9
                    <6> HIDE DEF z, first, F
                    <6>2. ~(z + j \in first..(first + n - 1))
                        BY <1>4, <1>6, <4>1, <4>4, <6>1
                    <6> QED
                        BY <6>2 DEF z
                <5>2. Entry(st', c, j) = Entry(st, c, j)
                    BY <1>11, <4>2, <4>3, <5>1
                <5>3. j \in 0..(Extent(d) - 1)
                    BY <1>4, <3>1, <4>4
                <5>4. Place(st', c, taken[c], j) = Place(st, c, taken[c], j)
                    BY <1>12 DEF Place
                <5> QED
                    BY <2>1, <2>3, <5>2, <5>3, <5>4 DEF Remembered, Holds
            <4>5. CASE ~(j < F - 1)
                <5>1. /\ c * A + j \in first..(first + n - 1)
                      /\ taken[c] + (c * A + j) - first + 1 = taken[c] + j - F + 2
                      /\ taken[c] + j - F + 2 >= 1
                    <6> DEFINE z == c * A
                               tk == taken[c]
                    <6>1. z \in Nat /\ first = z + F - 1 /\ tk \in Nat
                        BY <1>9
                    <6> HIDE DEF z, first, F, tk
                    <6>2. /\ z + j \in first..(first + n - 1)
                          /\ tk + (z + j) - first + 1 = tk + j - F + 2
                          /\ tk + j - F + 2 >= 1
                        BY <1>4, <1>6, <3>2, <4>1, <4>5, <6>1
                    <6> QED
                        BY <6>2 DEF z, tk
                <5>2. Entry(st', c, j) = <<stream, c, Place(st', c, taken[c], j)>>
                    BY <1>11, <4>1, <4>2, <4>3, <5>1
                <5> QED
                    BY <4>1, <5>1, <5>2
            <4> QED
                BY <4>4, <4>5
        <3> HIDE DEF F
        <3> QED
            BY <1>1, <2>3, <3>1, <3>2 DEF Remembered, Holds
    <2> QED
        BY <2>2, <2>3
<1>16. taken' \in [Channels -> Nat]
       /\ (~overflowed => \A d \in Channels : st'.samp_frac_num[d] < st.den_rate)
    BY <1>1, <1>12 DEF IInv
<1>17. \A d \in Channels : st'.magic_samples[d] <= st.magic_samples[d]
    BY <1>3, <1>12 DEF States
<1> QED
    BY <1>1, <1>10, <1>12, <1>14, <1>15, <1>16, <1>17, GoingHolds

(* What the filter has passed leaves the memory.                           *)
LEMMA FinishHolds ==
    ASSUME IInv, Finish
    PROVE  IInv'
<1> DEFINE c == call.chan
           F == st.filt_len
           A == st.mem_alloc_size
           M == st.magic_samples[c]
           used == Min2(call.n, st.last_sample[c])
           left == M - used
           first == c * A
           kept == IF call.magic THEN F - 1 + left ELSE F - 1
           now == IF call.magic THEN left ELSE M
           tk == IF call.magic THEN taken[c] ELSE taken[c] + used
           mem == [k \in DOMAIN st.mem |-> IF k \in first..(first + kept - 1)
                                           THEN st.mem[k + used] ELSE st.mem[k]]
           lasts == [st.last_sample EXCEPT ![c] = st.last_sample[c] - used]
           magics == [st.magic_samples EXCEPT ![c] = now]
           pc == IF ~call.magic THEN "begin"
                 ELSE IF left > 0 THEN IF call.kind = "int" THEN "begin" ELSE "end"
                 ELSE IF call.kind = "int" THEN "rest" ELSE "begin"
           ilen == IF call.magic THEN call.ilen ELSE call.ilen - used
           olen == call.olen - call.made
           room == call.room - call.made
<1>1. call.pc = "run" /\ call.pc # "idle"
    BY DEF Finish
<1>2. /\ call \in Calls /\ c \in Channels /\ st.started
      /\ call.ilen <= call.in /\ call.olen <= call.out /\ call.room <= call.olen
      /\ call.made <= call.room
      /\ IF call.magic THEN call.n = M
         ELSE M = 0 /\ call.n <= call.ilen /\ call.n <= A - (F - 1)
    BY <1>1, CallTypes
<1>3. LayoutOK(st) /\ st \in States(st.mem)
    BY DEF IInv, LayoutOK
<1>4. /\ st' = [st EXCEPT !.last_sample = lasts, !.magic_samples = magics, !.mem = mem]
      /\ taken' = IF call.magic THEN taken ELSE [taken EXCEPT ![c] = @ + used]
      /\ call' = [call EXCEPT !.pc = pc, !.ilen = ilen, !.olen = olen, !.room = room]
      /\ UNCHANGED <<lost, stream, overflowed>>
    <2>1. st' = [st EXCEPT !.last_sample[c] = @ - used,
                           !.magic_samples[c] = IF call.magic THEN left ELSE @,
                           !.mem = [k \in DOMAIN @ |-> IF k \in first..(first + kept - 1)
                                                       THEN @[k + used] ELSE @[k]]]
        BY DEF Finish
    <2>2. call' = [call EXCEPT !.pc = pc, !.ilen = IF call.magic THEN @ ELSE @ - used,
                               !.olen = @ - call.made, !.room = @ - call.made]
        BY DEF Finish
    <2>3. taken' = (IF call.magic THEN taken ELSE [taken EXCEPT ![c] = @ + used])
          /\ UNCHANGED <<lost, stream, overflowed>>
        BY DEF Finish
    <2>4. st' = [st EXCEPT !.last_sample = lasts, !.magic_samples = magics, !.mem = mem]
        <3> HIDE DEF used, left, first, kept, c
        <3> QED
            BY <1>3, <2>1 DEF States
    <2>5. call' = [call EXCEPT !.pc = pc, !.ilen = ilen, !.olen = olen, !.room = room]
        <3> HIDE DEF used, left, pc
        <3> QED
            BY <1>2, <2>2 DEF Calls
    <2> QED
        BY <2>3, <2>4, <2>5
<1>5. /\ F \in Nat \ {0} /\ A \in Nat \ {0} /\ M \in Nat /\ F - 1 + M <= A
      /\ st.last_sample[c] \in Nat
    BY <1>2, <1>3, LayoutTypes
<1>6. used \in Nat /\ used <= call.n /\ used <= st.last_sample[c]
    <2> DEFINE a == call.n
               b == st.last_sample[c]
    <2>1. a \in Nat /\ b \in Nat
        BY <1>2, <1>5 DEF Calls
    <2> HIDE DEF a, b
    <2>2. Min2(a, b) \in Nat /\ Min2(a, b) <= a /\ Min2(a, b) <= b
        BY <2>1, MinOfTwo
    <2> QED
        BY <2>2 DEF a, b
<1>7. call.magic \in BOOLEAN /\ call.n \in Nat /\ call.ilen \in Nat /\ call.olen \in Nat
      /\ call.in \in Nat /\ call.out \in Nat /\ call.room \in Nat /\ call.made \in Nat
    BY <1>2 DEF Calls
<1>8. c \in Nat /\ c * A \in Nat /\ taken[c] \in Nat /\ stream \in Nat
    <2>1. c \in Nat
        BY <1>2, ResamplerAssumption DEF Channels
    <2>2. taken[c] \in Nat /\ stream \in Nat
        BY <1>2 DEF IInv
    <2> QED
        BY <1>5, <2>1, <2>2, TimesNat
<1> HIDE DEF used
(* The numbers that both kinds of input have in common.                    *)
<1>9. /\ left \in Int /\ (call.magic => left \in Nat)
      /\ now \in Nat /\ now <= M /\ kept = F - 1 + now /\ kept \in Nat
      /\ tk \in Nat /\ tk - now = (taken[c] - M) + used
    <2> HIDE DEF F, M
    <2>1. CASE call.magic
        <3>1. left = M - used /\ now = left /\ kept = F - 1 + left /\ tk = taken[c]
            BY <2>1
        <3> HIDE DEF left, now, kept, tk
        <3> QED
            BY <1>2, <1>5, <1>6, <1>8, <2>1, <3>1
    <2>2. CASE ~call.magic
        <3>1. left = M - used /\ now = M /\ kept = F - 1 /\ tk = taken[c] + used /\ M = 0
            BY <1>2, <2>2
        <3> HIDE DEF left, now, kept, tk
        <3> QED
            BY <1>5, <1>6, <1>8, <2>2, <3>1
    <2> QED
        BY <2>1, <2>2
<1>10. Extent(c) >= kept + used /\ Extent(c) <= A /\ Extent(c) \in Nat
    <2>1. Extent(c) = F + M - 1 + (IF ~call.magic THEN call.n ELSE 0)
        BY <1>1 DEF Extent
    <2>2. Extent(c) <= A /\ Extent(c) \in Nat
        BY <1>2, ExtentFits
    <2> HIDE DEF F, M, A
    <2>3. CASE call.magic
        BY <1>2, <1>5, <1>6, <1>7, <1>9, <2>1, <2>2, <2>3
    <2>4. CASE ~call.magic
        BY <1>2, <1>5, <1>6, <1>7, <1>9, <2>1, <2>2, <2>4
    <2> QED
        BY <2>3, <2>4
<1>11. /\ ilen \in Nat /\ ilen <= call.in
       /\ olen \in Nat /\ olen <= call.out
       /\ room \in Nat /\ room <= olen
    BY <1>2, <1>6, <1>7
<1>12. /\ pc \in {"begin", "rest", "end"} /\ (pc = "rest" => call.magic /\ ~(left > 0))
    OBVIOUS
<1>13. tk = (IF call.magic THEN taken[c] ELSE taken[c] + used)
       /\ now = (IF call.magic THEN left ELSE M)
    OBVIOUS
<1> HIDE DEF ilen, olen, room, pc, left, now, kept, tk
<1>14. /\ lasts \in [Channels -> Nat] /\ magics \in [Channels -> Nat]
       /\ magics[c] = now
       /\ \A d \in Channels : d # c => magics[d] = st.magic_samples[d]
    <2>1. st.last_sample \in [Channels -> Nat] /\ st.magic_samples \in [Channels -> Nat]
        BY <1>3 DEF States
    <2>2. st.last_sample[c] - used \in Nat
        BY <1>5, <1>6
    <2> HIDE DEF c
    <2> QED
        BY <1>2, <1>9, <2>1, <2>2
<1>15. st.mem \in [0..(NbChannels * A - 1) -> Heard]
    BY <1>3 DEF LayoutOK
<1>16. ASSUME NEW j \in 0..(kept - 1)
       PROVE  /\ j \in 0..(A - 1) /\ j + used \in 0..(A - 1)
              /\ j + used \in 0..(Extent(c) - 1)
              /\ c * A + j \in 0..(NbChannels * A - 1)
              /\ c * A + (j + used) \in 0..(NbChannels * A - 1)
              /\ (c * A + j) + used = c * A + (j + used)
              /\ c * A + j \in first..(first + kept - 1)
    <2> HIDE DEF A, F, M
    <2>1. /\ j \in 0..(A - 1) /\ j + used \in 0..(A - 1)
          /\ j + used \in 0..(Extent(c) - 1)
        BY <1>5, <1>6, <1>9, <1>10
    <2>2. /\ c * A + j \in 0..(NbChannels * A - 1)
          /\ c * A + (j + used) \in 0..(NbChannels * A - 1)
        BY <1>2, <1>5, <2>1, Places
    <2> DEFINE z == c * A
    <2>3. z \in Nat
        BY <1>8
    <2> HIDE DEF z
    <2>4. (z + j) + used = z + (j + used) /\ z + j \in z..(z + kept - 1)
        BY <1>6, <1>9, <2>3
    <2> QED
        BY <2>1, <2>2, <2>4 DEF z
<1>17. \A k \in 0..(NbChannels * A - 1) :
          mem[k] = IF k \in first..(first + kept - 1) THEN st.mem[k + used] ELSE st.mem[k]
    BY <1>15
<1>18. mem \in [0..(NbChannels * A - 1) -> Heard]
    <2>1. DOMAIN mem = 0..(NbChannels * A - 1)
          /\ mem = [k \in DOMAIN mem |-> mem[k]]
        BY <1>15
    <2>2. ASSUME NEW k \in 0..(NbChannels * A - 1) PROVE mem[k] \in Heard
        <3>1. CASE k \in first..(first + kept - 1)
            <4> DEFINE z == c * A
                       j == k - z
            <4>1. z \in Nat /\ k \in z..(z + kept - 1)
                BY <1>8, <3>1
            <4>2. j \in 0..(kept - 1) /\ k = z + j
                <5> HIDE DEF z
                <5> QED
                    BY <1>9, <4>1
            <4> HIDE DEF j
            <4>3. /\ c * A + (j + used) \in 0..(NbChannels * A - 1)
                  /\ (c * A + j) + used = c * A + (j + used)
                BY <1>16, <4>2
            <4>4. k + used \in 0..(NbChannels * A - 1)
                BY <4>2, <4>3
            <4> HIDE DEF A
            <4>5. mem[k] = st.mem[k + used]
                BY <1>17, <3>1
            <4> HIDE DEF mem, z, first
            <4> QED
                BY <1>15, <4>4, <4>5
        <3>2. CASE k \notin first..(first + kept - 1)
            <4>1. mem[k] = st.mem[k]
                BY <1>17, <3>2
            <4> HIDE DEF mem, A
            <4> QED
                BY <1>15, <4>1
        <3> QED
            BY <3>1, <3>2
    <2> HIDE DEF mem, A
    <2> QED
        BY <2>1, <2>2
<1> HIDE DEF mem, lasts, magics
<1>19. /\ Going(st, st') /\ st'.mem = mem /\ st'.magic_samples = magics
       /\ st'.samp_frac_num = st.samp_frac_num
       /\ st'.filt_len = F /\ st'.mem_alloc_size = A
    BY <1>2, <1>3, <1>4, <1>14 DEF Going, States, SameSteps
<1>20. /\ call' \in Calls /\ call'.pc = pc /\ call'.magic = call.magic
       /\ call'.room = room /\ call'.chan = c
       /\ call'.ilen = ilen /\ call'.in = call.in
       /\ call'.olen = olen /\ call'.out = call.out
    <2> HIDE DEF c
    <2>1. c = call.chan
        BY DEF c
    <2>2. pc \in {"begin", "run", "rest", "end"}
        BY <1>12
    <2> QED
        BY <1>2, <1>4, <1>11, <2>1, <2>2 DEF Calls
<1>21. CallOK'
    <2>1. st'.started /\ st'.magic_samples[c] = now
        BY <1>14, <1>19 DEF Going
    <2>2. pc = "rest" => now = 0
        BY <1>9, <1>12, <1>13
    <2>3. pc # "run"
        BY <1>12
    <2> HIDE DEF c
    <2> QED
        BY <1>11, <1>20, <2>1, <2>2, <2>3 DEF CallOK, Calls
<1>22. /\ taken' \in [Channels -> Nat] /\ taken'[c] = tk
       /\ \A d \in Channels : d # c => taken'[d] = taken[d]
    <2>1. taken \in [Channels -> Nat]
        BY DEF IInv
    <2>2. CASE call.magic
        BY <1>4, <1>13, <2>1, <2>2
    <2>3. CASE ~call.magic
        <3>1. taken' = [taken EXCEPT ![c] = tk]
            BY <1>4, <1>13, <2>3
        <3> HIDE DEF c
        <3> QED
            BY <1>2, <1>9, <2>1, <3>1
    <2> QED
        BY <2>2, <2>3
<1>23. \A d \in Channels : Extent(d)' = F + magics[d] - 1
    <2> SUFFICES ASSUME NEW d \in Channels PROVE Extent(d)' = F + magics[d] - 1
        OBVIOUS
    <2>1. call'.pc # "run"
        BY <1>12, <1>20
    <2>2. st'.filt_len = F /\ st'.magic_samples[d] = magics[d]
        BY <1>19
    <2>3. F \in Nat /\ magics[d] \in Nat
        BY <1>5, <1>14
    <2> HIDE DEF F
    <2>4. Extent(d)' = F + magics[d] - 1 + 0
        BY <2>1, <2>2 DEF Extent
    <2> QED
        BY <2>3, <2>4
<1>24. ASSUME NEW d \in Channels, d = 0 \/ stream = 1 PROVE Remembered(d)'
    <2>1. Remembered(d)
        BY <1>24 DEF IInv
    <2>2. CASE d # c
        <3>1. Extent(d)' = Extent(d)
            <4>1. ~(call.chan = d) /\ magics[d] = st.magic_samples[d]
                BY <1>14, <2>2
            <4>2. Extent(d) = F + st.magic_samples[d] - 1 + 0
                BY <4>1 DEF Extent
            <4>3. F \in Nat /\ magics[d] \in Nat
                BY <1>5, <1>14
            <4> HIDE DEF F
            <4> QED
                BY <1>23, <4>1, <4>2, <4>3
        <3>2. ASSUME NEW i \in 0..(A - 1) PROVE Entry(st', d, i) = Entry(st, d, i)
            <4> DEFINE k == d * A + i
                       z == c * A
            <4>1. k \in 0..(NbChannels * A - 1)
                BY <1>5, Places
            <4>2. k \notin first..(first + kept - 1)
                <5> SUFFICES ASSUME k \in first..(first + kept - 1) PROVE FALSE
                    OBVIOUS
                <5>1. k \in z..(z + kept - 1) /\ z \in Nat
                    BY <1>8
                <5>2. k - z \in 0..(kept - 1) /\ k = z + (k - z)
                    <6> HIDE DEF k, z
                    <6> QED
                        BY <1>9, <5>1
                <5>3. k - z \in 0..(A - 1)
                    BY <1>16, <5>2
                <5>4. c * A + (k - z) # d * A + i
                    <6> HIDE DEF k, z, A
                    <6> QED
                        BY <1>2, <1>5, <2>2, <5>3, Apart
                <5> QED
                    BY <5>2, <5>4
            <4>3. Entry(st', d, i) = mem[k] /\ Entry(st, d, i) = st.mem[k]
                BY <1>19 DEF Entry
            <4> HIDE DEF k, first
            <4> QED
                BY <1>17, <4>1, <4>2, <4>3
        <3>3. Extent(d) \in Nat /\ Extent(d) <= A
            BY ExtentFits
        <3>4. st'.magic_samples[d] = st.magic_samples[d] /\ taken'[d] = taken[d]
            BY <1>14, <1>19, <1>22, <2>2
        <3>5. Holds(st', d, Extent(d), taken[d], lost[d], stream)
            BY <1>3, <1>19, <2>1, <3>2, <3>3, <3>4, OtherHolds DEF Remembered
        <3> QED
            BY <1>4, <3>1, <3>4, <3>5 DEF Remembered
    <2>3. CASE d = c
        <3>1. Extent(d)' = kept
            <4>1. magics[d] = now /\ Extent(d)' = F + magics[d] - 1
                BY <1>14, <1>23, <2>3
            <4> HIDE DEF F
            <4> QED
                BY <1>5, <1>9, <4>1
        <3>2. ASSUME NEW j \in 0..(kept - 1)
              PROVE  \/ /\ Entry(st', c, j) = Silence
                        /\ Place(st', c, tk, j) <= lost[c]
                     \/ /\ Entry(st', c, j) = <<stream, c, Place(st', c, tk, j)>>
                        /\ Place(st', c, tk, j) >= 1
            <4>1. Entry(st', c, j) = Entry(st, c, j + used)
                <5> DEFINE k == c * A + j
                <5>1. Entry(st', c, j) = mem[k]
                    BY <1>19 DEF Entry
                <5>2. Entry(st, c, j + used) = st.mem[c * A + (j + used)]
                    BY DEF Entry
                <5>3. /\ k \in 0..(NbChannels * A - 1) /\ k + used = c * A + (j + used)
                      /\ k \in first..(first + kept - 1)
                    BY <1>16
                <5> HIDE DEF k, first
                <5>4. mem[k] = st.mem[k + used]
                    BY <1>17, <5>3
                <5> QED
                    BY <5>1, <5>2, <5>3, <5>4
            <4>2. Place(st', c, tk, j) = Place(st, c, taken[c], j + used)
                <5>1. st'.magic_samples[c] = now /\ st'.filt_len = F
                    BY <1>14, <1>19
                <5>2. Place(st', c, tk, j) = tk - now + j - F + 2
                    BY <5>1 DEF Place
                <5>3. Place(st, c, taken[c], j + used) = taken[c] - M + (j + used) - F + 2
                    BY DEF Place
                <5> DEFINE x == taken[c]
                           u == st.magic_samples[c]
                <5>4. x \in Nat /\ u \in Nat /\ tk - now = (x - u) + used
                      /\ Place(st, c, taken[c], j + used) = x - u + (j + used) - F + 2
                    BY <1>5, <1>8, <1>9, <5>3
                <5> HIDE DEF x, u, F
                <5>5. tk - now + j - F + 2 = x - u + (j + used) - F + 2
                    BY <1>5, <1>6, <1>9, <5>4
                <5> QED
                    BY <5>2, <5>4, <5>5
            <4>3. j + used \in 0..(Extent(d) - 1)
                BY <1>16, <2>3
            <4>4. \/ /\ Entry(st, d, j + used) = Silence
                     /\ Place(st, d, taken[d], j + used) <= lost[d]
                  \/ /\ Entry(st, d, j + used) =
                           <<stream, d, Place(st, d, taken[d], j + used)>>
                     /\ Place(st, d, taken[d], j + used) >= 1
                BY <2>1, <4>3 DEF Remembered, Holds
            <4> HIDE DEF c
            <4> QED
                BY <2>3, <4>1, <4>2, <4>4
        <3>3. taken'[d] = tk /\ lost' = lost /\ stream' = stream
            BY <1>4, <1>22, <2>3
        <3> HIDE DEF c
        <3> QED
            BY <2>3, <3>1, <3>2, <3>3 DEF Remembered, Holds
    <2> QED
        BY <2>2, <2>3
<1>25. \A d \in Channels : st'.magic_samples[d] <= st.magic_samples[d]
    <2> SUFFICES ASSUME NEW d \in Channels
                 PROVE  st'.magic_samples[d] <= st.magic_samples[d]
        OBVIOUS
    <2>1. st.magic_samples[d] \in Nat
        BY <1>3 DEF States
    <2>2. CASE d # c
        BY <1>14, <1>19, <2>1, <2>2
    <2>3. CASE d = c
        BY <1>9, <1>14, <1>19, <2>1, <2>3
    <2> QED
        BY <2>2, <2>3
<1>26. ~overflowed => \A d \in Channels : st'.samp_frac_num[d] < st.den_rate
    BY <1>19 DEF IInv
<1> QED
    BY <1>4, <1>18, <1>19, <1>21, <1>22, <1>24, <1>25, <1>26, GoingHolds

(* The next channel, or the end of the call.                               *)
LEMMA NextChannelHolds ==
    ASSUME IInv, NextChannel
    PROVE  IInv'
<1>1. /\ call.pc \in {"begin", "end"}
      /\ call' = IF call.chan + 1 \in Channels
                 THEN [call EXCEPT !.pc = "begin", !.chan = call.chan + 1,
                                   !.ilen = call.in, !.olen = call.out]
                 ELSE Idle
      /\ UNCHANGED <<st, taken, lost, stream, overflowed>>
    <2>1. call.pc \in {"begin", "end"} /\ UNCHANGED <<st, taken, lost, stream, overflowed>>
        BY DEF NextChannel
    <2>2. call \in Calls
        BY <2>1, CallTypes
    <2>3. call' = IF call.chan + 1 \in Channels
                  THEN [call EXCEPT !.pc = "begin", !.chan = @ + 1,
                                    !.ilen = call.in, !.olen = call.out]
                  ELSE Idle
        BY DEF NextChannel
    <2> QED
        BY <2>1, <2>2, <2>3 DEF Calls
<1>2. call \in Calls
    BY <1>1, CallTypes
<1>3. CallOK' /\ call'.pc # "run"
    <2>1. CASE call.chan + 1 \in Channels
        <3>1. /\ call' \in Calls /\ call'.pc = "begin"
              /\ call'.ilen = call'.in /\ call'.olen = call'.out
              /\ call'.in \in Nat /\ call'.out \in Nat
            BY <1>1, <1>2, <2>1 DEF Calls
        <3> QED
            BY <3>1 DEF CallOK, Calls
    <2>2. CASE call.chan + 1 \notin Channels
        BY <1>1, <2>2 DEF CallOK, Idle
    <2> QED
        BY <2>1, <2>2
<1>4. ASSUME NEW c \in Channels, c = 0 \/ stream' = 1 PROVE Remembered(c)'
    <2>1. Remembered(c)
        BY <1>1, <1>4 DEF IInv
    <2>2. Extent(c)' = Extent(c)
        BY <1>1, <1>3 DEF Extent
    <2> QED
        BY <1>1, <2>1, <2>2 DEF Remembered
<1>5. /\ LayoutOK(st') /\ RatioOK(st')
      /\ taken' \in [Channels -> Nat] /\ lost' \in [Channels -> Nat]
      /\ stream' \in Nat \ {0} /\ overflowed' \in BOOLEAN
      /\ ~st'.started => \A c \in Channels : taken'[c] = 0
      /\ ~overflowed' => /\ StepsOK(st')
                         /\ \A c \in Channels : st'.samp_frac_num[c] < st'.den_rate
    BY <1>1 DEF IInv
<1> QED
    BY <1>3, <1>4, <1>5 DEF IInv

-----------------------------------------------------------------------------
(* What holds of every behaviour.                                          *)

(* Every step keeps the invariant.                                         *)
LEMMA NextIInv == IInv /\ [Next]_vars => IInv'
<1> SUFFICES ASSUME IInv, [Next]_vars PROVE IInv'
    OBVIOUS
<1>1. CASE UNCHANGED vars
    <2>1. \A c \in Channels : Remembered(c)' = Remembered(c)
        BY <1>1 DEF vars, Remembered, Extent
    <2>2. CallOK'
        BY <1>1 DEF vars, IInv, CallOK
    <2> QED
        BY <1>1, <2>1, <2>2 DEF vars, IInv
<1>2. ASSUME NEW kind \in {"float", "int"}, NEW ilen \in Chunks, NEW olen \in Chunks,
             Process(kind, ilen, olen)
      PROVE  IInv'
    BY <1>2, ProcessHolds
<1>3. CASE Step
    BY <1>3, RunMagicHolds, RunChunkHolds, EmitHolds, FinishHolds, NextChannelHolds DEF Step
<1>4. ASSUME NEW ratio \in Ratios, NEW refused \in Allocations, SetRate(ratio, refused)
      PROVE  IInv'
    BY <1>4, SetRateHolds
<1>5. ASSUME NEW q \in Qualities, NEW refused \in Allocations, SetQuality(q, refused)
      PROVE  IInv'
    BY <1>5, SetQualityHolds
<1>6. CASE SkipZeros \/ ResetMem
    BY <1>6, SkipZerosHolds, ResetMemHolds
<1> QED
    BY <1>1, <1>2, <1>3, <1>4, <1>5, <1>6 DEF Next

(* The inductive invariant holds in every state.                           *)
THEOREM Invariance == Spec => []IInv
BY InitHolds, NextIInv, PTL DEF Spec

(* The state of the resampler is well formed: the filter, the samples      *)
(* around it and the next chunk fit in the memory of a channel.            *)
THEOREM TypeCorrect == Spec => []TypeOK
<1>1. IInv => TypeOK
    <2> SUFFICES ASSUME IInv PROVE TypeOK
        OBVIOUS
    <2>1. LayoutOK(st) /\ st \in States(st.mem)
        BY DEF IInv, LayoutOK
    <2>2. /\ st.resampler \in {"direct", "interpolate", "zero"}
          /\ st.quality \in Qualities /\ st.started \in BOOLEAN
        BY <2>1 DEF States
    <2>3. DOMAIN st.mem = 0..(NbChannels * st.mem_alloc_size - 1)
        BY <2>1 DEF LayoutOK
    <2>4. ASSUME NEW c \in Channels
          PROVE  /\ st.last_sample[c] \in Nat /\ st.magic_samples[c] \in Nat
                 /\ st.samp_frac_num[c] \in Nat
                 /\ overflowed \/ st.samp_frac_num[c] < st.den_rate
                 /\ st.filt_len + 2 * st.magic_samples[c] - 1 + BufferSize
                       <= st.mem_alloc_size
        BY <2>1, LayoutTypes DEF IInv
    <2>5. CASE call = Idle
        BY <2>2, <2>3, <2>4, <2>5 DEF TypeOK
    <2>6. CASE call # Idle
        <3>1. /\ call.pc \in {"begin", "run", "rest", "end"} /\ call.chan \in Channels
              /\ call.ilen \in Nat /\ call.in \in Nat /\ call.ilen <= call.in
              /\ call.olen \in Nat /\ call.out \in Nat /\ call.olen <= call.out
            BY <2>6 DEF IInv, CallOK
        <3>2. call.ilen \in 0..call.in /\ call.olen \in 0..call.out
            BY <3>1
        <3> QED
            BY <2>2, <2>3, <2>4, <3>1, <3>2 DEF TypeOK
    <2> QED
        BY <2>5, <2>6
<1> QED
    BY <1>1, Invariance, PTL

(* Every output sample is the filter applied to the consecutive samples    *)
(* that belong there, whatever the buffers, the ratios, the qualities, the *)
(* refused allocations and the number of channels.                         *)
THEOREM WindowsAreRight == Spec => []WindowRight
<1>1. IInv => WindowRight
    <2> SUFFICES ASSUME IInv, Running, call.chan = 0 \/ stream = 1
                 PROVE  Filtered(call.chan)
        BY DEF WindowRight
    <2> DEFINE c == call.chan
    <2>1. call.pc = "run" /\ call.pc # "idle" /\ st.last_sample[c] < call.n
        BY DEF Running
    <2>2. /\ call \in Calls /\ c \in Channels
          /\ IF call.magic THEN call.n = st.magic_samples[c] ELSE st.magic_samples[c] = 0
        BY <2>1, CallTypes
    <2>3. Remembered(c)
        BY <2>2 DEF IInv
    <2>4. /\ st.filt_len \in Nat /\ st.magic_samples[c] \in Nat
          /\ st.last_sample[c] \in Nat /\ taken[c] \in Nat /\ call.n \in Nat
        BY <2>2, LayoutTypes DEF IInv, Calls
    <2>5. Extent(c) = st.filt_len + st.magic_samples[c] - 1
                         + (IF ~call.magic THEN call.n ELSE 0)
        BY <2>1 DEF Extent
    <2> HIDE DEF c
    <2>6. Extent(c) = st.filt_len - 1 + call.n
        <3>1. CASE call.magic
            BY <2>2, <2>4, <2>5, <3>1
        <3>2. CASE ~call.magic
            BY <2>2, <2>4, <2>5, <3>2
        <3> QED
            BY <3>1, <3>2
    <2>7. ASSUME NEW j \in Window
          PROVE  \/ /\ Entry(st, c, st.last_sample[c] + j) = Silence
                    /\ Number(j) <= lost[c]
                 \/ /\ Entry(st, c, st.last_sample[c] + j) = Sample(c, Number(j))
                    /\ Number(j) >= 1
        <3> DEFINE i == st.last_sample[c] + j
        <3>1. j \in Nat /\ j <= st.filt_len - 1
            BY <2>4 DEF Window
        <3>2. i \in 0..(Extent(c) - 1)
            BY <2>1, <2>4, <2>6, <3>1 DEF c
        <3>3. Number(j) = Place(st, c, taken[c], i)
            <4>1. Number(j) = taken[c] - st.magic_samples[c] + st.last_sample[c] + j
                                 - st.filt_len + 2
                BY DEF Number, c
            <4>2. Place(st, c, taken[c], i) =
                     taken[c] - st.magic_samples[c] + (st.last_sample[c] + j)
                        - st.filt_len + 2
                BY DEF Place
            <4> QED
                BY <2>4, <3>1, <4>1, <4>2
        <3>4. \/ Entry(st, c, i) = Silence /\ Place(st, c, taken[c], i) <= lost[c]
              \/ /\ Entry(st, c, i) = <<stream, c, Place(st, c, taken[c], i)>>
                 /\ Place(st, c, taken[c], i) >= 1
            BY <2>3, <3>2 DEF Remembered, Holds
        <3> QED
            BY <3>3, <3>4 DEF Sample
    <2> QED
        BY <2>7 DEF Filtered, c
<1> QED
    BY <1>1, Invariance, PTL

(* The coefficients that an output sample reads are in the table, and the  *)
(* word in which their position is computed does not overflow.             *)
THEOREM TablesSuffice == Spec => []TableInBounds
<1>1. IInv => TableInBounds
    <2> DEFINE c == call.chan
               frac == st.samp_frac_num[c]
               over == st.oversample
               den == st.den_rate
               F == st.filt_len
               table == st.sinc_table_length
               scaled == (frac * over) % (MaxWord + 1)
               offset == scaled \div den
    <2> SUFFICES ASSUME IInv, Running, ~overflowed
                 PROVE  /\ st.resampler = "direct" => (frac + 1) * F <= table
                        /\ st.resampler = "interpolate" =>
                              /\ scaled = frac * over
                              /\ 4 + over - offset - 2 >= 0
                              /\ 4 + F * over - offset + 1 < table
        BY DEF TableInBounds
    <2>1. call.pc = "run" /\ call.pc # "idle"
        BY DEF Running
    <2>2. c \in Channels
        BY <2>1, CallTypes
    <2>3. /\ frac \in Nat /\ den \in Nat \ {0} /\ F \in Nat /\ table \in Nat
          /\ over \in Nat /\ st.quality \in Qualities
        BY <2>2 DEF IInv, LayoutOK, States
    <2>4. /\ frac < den
          /\ st.resampler = "direct" => F * den <= table
          /\ st.resampler = "interpolate" =>
                over \in 1..Oversample[st.quality] /\ F * over + 8 <= table
        BY <2>2 DEF IInv, StepsOK
    <2>5. den * Oversample[st.quality] <= MaxWord /\ Oversample[st.quality] \in Nat
          /\ MaxWord \in Nat
        <3>1. <<st.num_rate, st.den_rate>> \in Reduced
            BY DEF IInv, RatioOK
        <3> DEFINE r == <<st.num_rate, st.den_rate>>
        <3>2. r[2] = den
            OBVIOUS
        <3> HIDE DEF r
        <3>3. \A q \in Qualities : r[2] * Oversample[q] <= MaxWord
            BY <3>1, ReducedRatio DEF r
        <3> HIDE DEF den
        <3> QED
            BY <2>3, <3>2, <3>3, ResamplerAssumption
    <2> HIDE DEF c, frac, den, F, table, over
    <2>6. ASSUME st.resampler = "direct" PROVE (frac + 1) * F <= table
        <3>1. (frac + 1) * F <= den * F
            BY <2>3, <2>4, TimesMono
        <3>2. den * F = F * den /\ F * den \in Nat /\ (frac + 1) * F \in Nat
            BY <2>3, TimesNat
        <3> QED
            BY <2>3, <2>4, <2>6, <3>1, <3>2
    <2>7. ASSUME st.resampler = "interpolate"
          PROVE  /\ scaled = frac * over
                 /\ 4 + over - offset - 2 >= 0
                 /\ 4 + F * over - offset + 1 < table
        <3> DEFINE o == Oversample[st.quality]
                   p == frac * over
        <3>1. o \in Nat /\ over <= o /\ over >= 1 /\ den * o <= MaxWord
            BY <2>4, <2>5, <2>7
        <3> HIDE DEF o
        <3>2. p \in Nat /\ den * over \in Nat /\ den * o \in Nat /\ F * over \in Nat
            BY <2>3, <3>1, TimesNat
        <3>3. p < den * over
            <4>1. (frac + 1) * over <= den * over
                BY <2>3, <2>4, TimesMono
            <4>2. (frac + 1) * over = p + over
                BY <2>3
            <4> HIDE DEF p
            <4> QED
                BY <2>3, <3>1, <3>2, <4>1, <4>2
        <3>4. den * over <= den * o
            <4>1. over * den <= o * den
                BY <2>3, <3>1, TimesMono
            <4>2. over * den = den * over /\ o * den = den * o
                BY <2>3, <3>1
            <4> QED
                BY <4>1, <4>2
        <3> HIDE DEF p
        <3>5. p < MaxWord + 1
            BY <2>5, <3>1, <3>2, <3>3, <3>4
        <3>6. scaled = p
            <4>1. scaled = p % (MaxWord + 1)
                BY DEF p
            <4> HIDE DEF scaled
            <4> QED
                BY <2>5, <3>2, <3>5, <4>1
        <3>7. offset \in Nat /\ offset * den <= p
            <4>1. p \div den \in Nat /\ (p \div den) * den <= p
                BY <2>3, <3>2, DivMod
            <4> HIDE DEF scaled
            <4> QED
                BY <3>6, <4>1
        <3> HIDE DEF scaled, offset
        <3>8. offset < over
            <4>1. offset * den \in Nat /\ over * den = den * over
                BY <2>3, <3>7, TimesNat
            <4>2. offset * den < over * den
                BY <3>2, <3>3, <3>7, <4>1
            <4> QED
                BY <2>3, <3>7, <4>2, TimesLess
        <3>9. 4 + over - offset - 2 >= 0
            BY <2>3, <3>7, <3>8
        <3>10. 4 + F * over - offset + 1 < table
            BY <2>3, <2>4, <2>7, <3>2, <3>7
        <3> QED
            BY <3>6, <3>9, <3>10 DEF p
    <2> QED
        BY <2>6, <2>7
<1> QED
    BY <1>1, Invariance, PTL

-----------------------------------------------------------------------------
(* Time.                                                                   *)

(* The middles of the windows are numbers.                                 *)
LEMMA MiddleInt ==
    ASSUME IInv, NEW c \in Channels
    PROVE  Middle(c) \in Int
<1>1. /\ taken[c] \in Nat /\ st.magic_samples[c] \in Nat /\ st.last_sample[c] \in Nat
      /\ st.filt_len \div 2 \in Nat
    BY LayoutTypes DEF IInv
<1> QED
    BY <1>1 DEF Middle

(* A new layout moves no channel along its stream.                         *)
LEMMA MovedMiddle ==
    ASSUME IInv, IInv', Moved(st, st'), UNCHANGED taken, NEW c \in Channels
    PROVE  Middle(c)' = Middle(c)
<1> DEFINE a == st.last_sample[c]
           b == st.magic_samples[c]
           f == st.filt_len \div 2
           x == st'.last_sample[c]
           y == st'.magic_samples[c]
           g == st'.filt_len \div 2
           k == taken[c]
<1>1. a \in Nat /\ b \in Nat /\ f \in Nat /\ k \in Nat
    BY LayoutTypes DEF IInv
<1>2. x \in Nat /\ y \in Nat /\ g \in Nat
    BY LayoutTypes DEF IInv
<1>3. x - y - g = a - b - f
    BY DEF Moved
<1>4. Middle(c) = k - b + a - f /\ Middle(c)' = k - y + x - g
    BY DEF Middle
<1> HIDE DEF a, b, f, x, y, g, k
<1> QED
    BY <1>1, <1>2, <1>3, <1>4

(* What the sums of the parts of a sample carry.                           *)
LEMMA Carried ==
    ASSUME NEW part \in Nat, NEW num \in Nat, NEW den \in Nat \ {0}, part < den
    PROVE  LET frac == part + (num % den) IN
           /\ (part + num) \div den = num \div den + (IF frac >= den THEN 1 ELSE 0)
           /\ (part + num) % den = IF frac >= den THEN frac - den ELSE frac
<1> DEFINE q == num \div den
           m == num % den
           frac == part + m
<1>1. q \in Nat /\ m \in Nat /\ m < den /\ num = q * den + m
    BY DivMod
<1> HIDE DEF q, m
<1>2. q * den \in Nat /\ (q + 1) * den = q * den + den
    BY <1>1, TimesNat
<1>3. CASE frac >= den
    <2>1. part + num = (q + 1) * den + (frac - den)
        BY <1>1, <1>2
    <2>2. frac - den \in Nat /\ frac - den < den /\ q + 1 \in Nat
        BY <1>1, <1>3
    <2>3. (part + num) \div den = q + 1 /\ (part + num) % den = frac - den
        BY <2>1, <2>2, DivModIs
    <2> QED
        BY <1>3, <2>3 DEF q, m
<1>4. CASE ~(frac >= den)
    <2>1. part + num = q * den + frac
        BY <1>1, <1>2
    <2>2. frac \in Nat /\ frac < den
        BY <1>1, <1>4
    <2>3. (part + num) \div den = q /\ (part + num) % den = frac
        BY <1>1, <2>1, <2>2, DivModIs
    <2> QED
        BY <1>1, <1>4, <2>3 DEF q, m
<1> QED
    BY <1>3, <1>4

(* What the abstract variables are.                                        *)
At == [c \in Channels |-> IF overflowed THEN 0 ELSE Middle(c)]
Part == [c \in Channels |-> IF overflowed THEN 0 ELSE st.samp_frac_num[c]]
Ratio == IF overflowed THEN <<1, 1>> ELSE <<st.num_rate, st.den_rate>>
Time == <<At, Part, Ratio, st.started, overflowed>>

(* A new resampler begins a stream.                                        *)
LEMMA InitStream == Init => Stream!Init
<1> SUFFICES ASSUME Init PROVE Stream!Init
    OBVIOUS
<1>1. IInv /\ st.started = FALSE /\ \A c \in Channels : st.samp_frac_num[c] = 0
    BY InitHolds
<1>2. \A c \in Channels : Middle(c) \in Int
    BY <1>1, MiddleInt
<1>3. overflowed = FALSE
    BY DEF Init
<1>4. Ratio \in Reduced
    BY <1>1, <1>3 DEF IInv, RatioOK, Ratio
<1>5. At \in [Channels -> Int] /\ Part = [c \in Channels |-> 0]
    BY <1>1, <1>2 DEF At, Part
<1> QED
    BY <1>1, <1>3, <1>4, <1>5 DEF Stream!Init, At, Part, Ratio, Reduced

(* A change of the rates is one of the ratio, or is refused half way.      *)
LEMMA SetRateStream ==
    ASSUME IInv, IInv', NEW ratio \in Ratios, NEW refused \in Allocations,
           SetRate(ratio, refused), ~overflowed
    PROVE  Stream!Next
<1>1. /\ st'.started = st.started /\ UNCHANGED taken
      /\ \/ overflowed'
         \/ /\ overflowed' = overflowed /\ (st.started => Moved(st, st'))
            /\ \A c \in Channels :
                  st.samp_frac_num[c] < st.den_rate =>
                     st'.samp_frac_num[c] =
                        (st.samp_frac_num[c] * st'.den_rate) \div st.den_rate
    BY SetRateHolds
<1>2. CASE overflowed'
    <2>1. overflowed' = TRUE
        BY <1>1, <1>2 DEF IInv
    <2> QED
        BY <1>1, <2>1 DEF Stream!Next, Stream!Refuse
<1>3. CASE ~overflowed'
    <2>1. Ratio' \in Reduced /\ overflowed' = overflowed
        BY <1>1, <1>3 DEF IInv, RatioOK, Ratio
    <2>2. ASSUME NEW c \in Channels
          PROVE  st'.samp_frac_num[c] =
                    (st.samp_frac_num[c] * st'.den_rate) \div st.den_rate
        <3>1. st.samp_frac_num[c] < st.den_rate
            BY DEF IInv
        <3> QED
            BY <1>1, <1>3, <3>1
    <2>3. Part' = [c \in Channels |-> (Part[c] * Ratio'[2]) \div Ratio[2]]
        BY <1>3, <2>2 DEF Part, Ratio
    <2>4. st.started => At' = At
        <3> SUFFICES ASSUME st.started PROVE At' = At
            OBVIOUS
        <3>1. Moved(st, st')
            BY <1>1, <1>3
        <3>2. \A c \in Channels : Middle(c)' = Middle(c)
            BY <1>1, <3>1, MovedMiddle
        <3> QED
            BY <1>3, <3>2 DEF At
    <2>5. Stream!ChangeRatio
        BY <1>1, <2>1, <2>3, <2>4 DEF Stream!ChangeRatio, At, Part, Ratio, Reduced
    <2> QED
        BY <2>5 DEF Stream!Next
<1> QED
    BY <1>2, <1>3

(* Another quality moves nothing that has started.                         *)
LEMMA SetQualityStream ==
    ASSUME IInv, IInv', NEW q \in Qualities, NEW refused \in Allocations,
           SetQuality(q, refused), ~overflowed
    PROVE  Stream!Next \/ UNCHANGED Time
<1>1. /\ st'.started = st.started /\ UNCHANGED <<taken, overflowed>>
      /\ st.started => Moved(st, st')
      /\ st'.num_rate = st.num_rate /\ st'.den_rate = st.den_rate
      /\ st'.samp_frac_num = st.samp_frac_num
    BY SetQualityHolds
<1>2. Part' = Part /\ Ratio' = Ratio
    BY <1>1 DEF Part, Ratio
<1>3. CASE st.started
    <2>1. \A c \in Channels : Middle(c)' = Middle(c)
        BY <1>1, <1>3, MovedMiddle
    <2>2. At' = At
        BY <1>1, <2>1 DEF At
    <2> QED
        BY <1>1, <1>2, <2>2 DEF Time
<1>4. CASE ~st.started
    BY <1>1, <1>2, <1>4 DEF Stream!Next, Stream!Place, Part, Ratio
<1> QED
    BY <1>3, <1>4

(* An output sample is one step along the stream.                          *)
LEMMA EmitStream ==
    ASSUME IInv, Emit, ~overflowed
    PROVE  Stream!Next
<1> DEFINE c == call.chan
           frac == st.samp_frac_num[c] + st.frac_advance
           carry == IF frac >= st.den_rate THEN 1 ELSE 0
           last == st.last_sample[c] + st.int_advance + carry
           part == IF frac >= st.den_rate THEN frac - st.den_rate ELSE frac
           lasts == [st.last_sample EXCEPT ![c] = last]
           parts == [st.samp_frac_num EXCEPT ![c] = part]
           sum == st.samp_frac_num[c] + st.num_rate
<1>1. call.pc = "run" /\ call.pc # "idle" /\ UNCHANGED <<taken, overflowed>>
    BY DEF Emit, Running
<1>2. c \in Channels /\ st.started
    BY <1>1, CallTypes
<1>3. LayoutOK(st) /\ st \in States(st.mem)
    BY DEF IInv, LayoutOK
<1>4. st' = [st EXCEPT !.last_sample = lasts, !.samp_frac_num = parts]
    <2>1. st' = [st EXCEPT !.last_sample[c] = last, !.samp_frac_num[c] = part]
        BY DEF Emit
    <2> HIDE DEF last, part
    <2> QED
        BY <1>3, <2>1 DEF States
<1>5. /\ st.samp_frac_num[c] \in Nat /\ st.num_rate \in Nat /\ st.den_rate \in Nat \ {0}
      /\ st.samp_frac_num[c] < st.den_rate
      /\ st.int_advance = st.num_rate \div st.den_rate
      /\ st.frac_advance = st.num_rate % st.den_rate
    BY <1>2, <1>3 DEF States, IInv, StepsOK
<1>6. /\ sum \div st.den_rate = st.int_advance + carry
      /\ sum % st.den_rate = part
    <2> DEFINE p == st.samp_frac_num[c]
               num == st.num_rate
               den == st.den_rate
               f == p + (num % den)
    <2>1. p \in Nat /\ num \in Nat /\ den \in Nat \ {0} /\ p < den /\ frac = f
          /\ st.int_advance = num \div den
        BY <1>5
    <2>2. /\ sum = p + num /\ carry = (IF frac >= den THEN 1 ELSE 0)
          /\ part = (IF frac >= den THEN frac - den ELSE frac)
        OBVIOUS
    <2> HIDE DEF p, num, den, sum, carry, part, frac
    <2>3. /\ (p + num) \div den = num \div den + (IF f >= den THEN 1 ELSE 0)
          /\ (p + num) % den = (IF f >= den THEN f - den ELSE f)
        BY <2>1, Carried
    <2> HIDE DEF f
    <2>4. sum \div den = st.int_advance + carry /\ sum % den = part
        BY <2>1, <2>2, <2>3
    <2> QED
        BY <2>4 DEF den
<1> HIDE DEF last, part, carry, sum, frac
<1>7. /\ st'.last_sample = lasts /\ st'.samp_frac_num = parts
      /\ st'.magic_samples = st.magic_samples /\ st'.filt_len = st.filt_len
      /\ st'.num_rate = st.num_rate /\ st'.den_rate = st.den_rate
      /\ st'.started = st.started
    BY <1>3, <1>4 DEF States
<1>8. /\ lasts[c] = st.last_sample[c] + (st.int_advance + carry) /\ parts[c] = part
      /\ \A d \in Channels : d # c => /\ lasts[d] = st.last_sample[d]
                                      /\ parts[d] = st.samp_frac_num[d]
      /\ carry \in Nat /\ st.int_advance \in Nat
    <2>1. st.last_sample \in [Channels -> Nat] /\ st.samp_frac_num \in [Channels -> Nat]
          /\ st.int_advance \in Nat
        BY <1>3 DEF States
    <2>2. last = st.last_sample[c] + st.int_advance + carry /\ carry \in Nat
        BY DEF last, carry
    <2>3. st.last_sample[c] \in Nat
        BY <1>2, <2>1
    <2>4. last = st.last_sample[c] + (st.int_advance + carry)
        BY <2>1, <2>2, <2>3
    <2>5. lasts[c] = last /\ parts[c] = part
          /\ \A d \in Channels : d # c => /\ lasts[d] = st.last_sample[d]
                                          /\ parts[d] = st.samp_frac_num[d]
        <3> HIDE DEF c
        <3> QED
            BY <1>2, <2>1
    <2> QED
        BY <2>1, <2>2, <2>4, <2>5
<1> HIDE DEF lasts, parts
<1>9. ASSUME NEW d \in Channels
      PROVE  /\ Middle(d)' = IF d = c THEN Middle(d) + sum \div st.den_rate ELSE Middle(d)
             /\ st'.samp_frac_num[d] = IF d = c THEN sum % st.den_rate
                                       ELSE st.samp_frac_num[d]
    <2>1. /\ Middle(d)' = taken[d] - st.magic_samples[d] + lasts[d] - st.filt_len \div 2
          /\ Middle(d) = taken[d] - st.magic_samples[d] + st.last_sample[d]
                            - st.filt_len \div 2
        BY <1>1, <1>7 DEF Middle
    <2>2. /\ taken[d] \in Nat /\ st.magic_samples[d] \in Nat /\ st.last_sample[d] \in Nat
          /\ st.filt_len \div 2 \in Nat
        BY <1>3, LayoutTypes DEF IInv
    <2> DEFINE step == sum \div st.den_rate
    <2>3. step \in Nat /\ (d = c => lasts[d] = st.last_sample[d] + step)
          /\ (d # c => lasts[d] = st.last_sample[d])
        BY <1>6, <1>8
    <2>4. Middle(d)' = IF d = c THEN Middle(d) + step ELSE Middle(d)
        <3> HIDE DEF step, c
        <3>1. CASE d = c
            BY <2>1, <2>2, <2>3, <3>1
        <3>2. CASE d # c
            BY <2>1, <2>2, <2>3, <3>2
        <3> QED
            BY <3>1, <3>2
    <2>5. st'.samp_frac_num[d] = IF d = c THEN sum % st.den_rate ELSE st.samp_frac_num[d]
        BY <1>6, <1>7, <1>8
    <2> QED
        BY <2>4, <2>5
<1>10. Ratio = <<st.num_rate, st.den_rate>> /\ Ratio' = Ratio
    BY <1>1, <1>7 DEF Ratio
<1>11. Part[c] + Ratio[1] = sum /\ Ratio[2] = st.den_rate
    BY <1>2, <1>10 DEF Part, sum
<1> HIDE DEF c
<1>12. PICK d \in Channels : d = c
    BY <1>2
<1>13. At' = [At EXCEPT ![d] = @ + sum \div st.den_rate]
    BY <1>1, <1>9, <1>12 DEF At
<1>14. Part' = [Part EXCEPT ![d] = sum % st.den_rate]
    BY <1>1, <1>9, <1>12 DEF Part
<1>15. Part[d] + Ratio[1] = sum /\ Ratio[2] = st.den_rate
    BY <1>11, <1>12
<1>16. Stream!Emit(d)
    BY <1>1, <1>2, <1>7, <1>10, <1>13, <1>14, <1>15
    DEF Stream!Emit, At, Part, Ratio
<1> QED
    BY <1>16 DEF Stream!Next

(* The end of a loop moves nothing: what has left the memory was taken.    *)
LEMMA FinishStream ==
    ASSUME IInv, Finish
    PROVE  UNCHANGED Time
<1> DEFINE c == call.chan
           used == Min2(call.n, st.last_sample[c])
           M == st.magic_samples[c]
           L == st.last_sample[c]
           now == IF call.magic THEN M - used ELSE M
           lasts == [st.last_sample EXCEPT ![c] = L - used]
           magics == [st.magic_samples EXCEPT ![c] = now]
<1>1. call.pc = "run" /\ call.pc # "idle"
    BY DEF Finish
<1>2. call \in Calls /\ c \in Channels
    BY <1>1, CallTypes
<1>3. LayoutOK(st) /\ st \in States(st.mem)
    BY DEF IInv, LayoutOK
<1>4. /\ st'.last_sample = lasts /\ st'.magic_samples = magics
      /\ st'.filt_len = st.filt_len /\ st'.samp_frac_num = st.samp_frac_num
      /\ st'.num_rate = st.num_rate /\ st'.den_rate = st.den_rate
      /\ st'.started = st.started
      /\ taken' = IF call.magic THEN taken ELSE [taken EXCEPT ![c] = @ + used]
      /\ overflowed' = overflowed
    <2>1. PICK m : st' = [st EXCEPT !.last_sample[c] = @ - used,
                                    !.magic_samples[c] = IF call.magic THEN M - used ELSE @,
                                    !.mem = m]
        BY DEF Finish
    <2>2. /\ taken' = IF call.magic THEN taken ELSE [taken EXCEPT ![c] = @ + used]
          /\ overflowed' = overflowed
        BY DEF Finish
    <2>3. st' = [st EXCEPT !.last_sample = lasts, !.magic_samples = magics, !.mem = m]
        <3> HIDE DEF used, c
        <3> QED
            BY <1>3, <2>1 DEF States
    <2> HIDE DEF lasts, magics, used, c
    <2> QED
        BY <1>3, <2>2, <2>3 DEF States
<1>5. L \in Nat /\ M \in Nat /\ call.n \in Nat
    BY <1>2, <1>3, LayoutTypes DEF Calls
<1>6. used \in Nat
    <2> DEFINE n == call.n
    <2>1. n \in Nat /\ L \in Nat
        BY <1>5
    <2> HIDE DEF n, L
    <2>2. Min2(n, L) \in Nat
        BY <2>1, MinOfTwo
    <2> QED
        BY <2>2 DEF n, L
<1> HIDE DEF used
<1>7. /\ lasts[c] = L - used /\ magics[c] = now
      /\ \A d \in Channels : d # c => /\ lasts[d] = st.last_sample[d]
                                      /\ magics[d] = st.magic_samples[d]
    <2>1. st.last_sample \in [Channels -> Nat] /\ st.magic_samples \in [Channels -> Nat]
        BY <1>3 DEF States
    <2> HIDE DEF L, now, c
    <2> QED
        BY <1>2, <2>1
<1>8. /\ taken'[c] = IF call.magic THEN taken[c] ELSE taken[c] + used
      /\ \A d \in Channels : d # c => taken'[d] = taken[d]
    <2>1. taken \in [Channels -> Nat]
        BY DEF IInv
    <2> HIDE DEF c
    <2>2. CASE call.magic
        BY <1>4, <2>2
    <2>3. CASE ~call.magic
        BY <1>2, <1>4, <2>1, <2>3
    <2> QED
        BY <2>2, <2>3
<1> HIDE DEF lasts, magics
<1>9. ASSUME NEW d \in Channels PROVE Middle(d)' = Middle(d)
    <2> DEFINE f == st.filt_len \div 2
               k == taken[d]
               kk == taken'[d]
               u == magics[d]
               v == st.magic_samples[d]
               x == lasts[d]
               y == st.last_sample[d]
    <2>1. Middle(d)' = kk - u + x - f /\ Middle(d) = k - v + y - f
        BY <1>4 DEF Middle
    <2>2. f \in Nat /\ k \in Nat /\ v \in Nat /\ y \in Nat
        BY <1>3, LayoutTypes DEF IInv
    <2>3. CASE d # c
        <3>1. kk = k /\ u = v /\ x = y
            BY <1>7, <1>8, <2>3
        <3> QED
            BY <2>1, <3>1
    <2>4. CASE d = c
        <3>1. x = y - used
            BY <1>7, <2>4
        <3>2. \/ u = v - used /\ kk = k
              \/ u = v /\ kk = k + used
            BY <1>7, <1>8, <2>4
        <3> HIDE DEF f, k, kk, u, v, x, y
        <3> QED
            BY <1>6, <2>1, <2>2, <3>1, <3>2
    <2> QED
        BY <2>3, <2>4
<1>10. At' = At
    BY <1>4, <1>9 DEF At
<1> QED
    BY <1>4, <1>10 DEF Time, Part, Ratio

(* What the steps that begin to resample set.                              *)
LEMMA CallStarts ==
    ASSUME IInv, RunMagic \/ RunChunk
    PROVE  /\ st'.started = TRUE /\ UNCHANGED <<taken, overflowed>>
           /\ st'.magic_samples = st.magic_samples /\ st'.last_sample = st.last_sample
           /\ st'.filt_len = st.filt_len /\ st'.samp_frac_num = st.samp_frac_num
           /\ st'.num_rate = st.num_rate /\ st'.den_rate = st.den_rate
<1>1. st \in States(st.mem)
    BY DEF IInv, LayoutOK
<1>2. UNCHANGED <<taken, overflowed>>
    BY DEF RunMagic, RunChunk
<1>3. PICK m : st' = [st EXCEPT !.mem = m, !.started = TRUE]
    <2>1. CASE RunMagic
        <3>1. st' = [st EXCEPT !.started = TRUE]
            BY <2>1 DEF RunMagic
        <3>2. st' = [st EXCEPT !.mem = st.mem, !.started = TRUE]
            BY <1>1, <3>1 DEF States
        <3> QED
            BY <3>2
    <2>2. CASE RunChunk
        BY <2>2 DEF RunChunk
    <2> QED
        BY <2>1, <2>2
<1> QED
    BY <1>1, <1>2, <1>3 DEF States

(* A new place before the start.                                           *)
LEMMA SkipZerosStream ==
    ASSUME IInv, SkipZeros
    PROVE  Stream!Next
<1>1. st \in States(st.mem)
    BY DEF IInv, LayoutOK
<1>2. PICK l : st' = [st EXCEPT !.last_sample = l]
    BY DEF SkipZeros
<1>3. /\ st'.samp_frac_num = st.samp_frac_num /\ st'.started = st.started
      /\ st'.num_rate = st.num_rate /\ st'.den_rate = st.den_rate
      /\ ~st.started /\ overflowed' = overflowed
    BY <1>1, <1>2 DEF States, SkipZeros
<1>4. Part' = Part /\ Ratio' = Ratio
    BY <1>3 DEF Part, Ratio
<1> QED
    BY <1>3, <1>4 DEF Stream!Next, Stream!Place, Part, Ratio

(* A new stream.                                                           *)
LEMMA ResetMemStream ==
    ASSUME IInv, ResetMem
    PROVE  Stream!Next
<1> DEFINE none == [c \in Channels |-> 0]
<1>1. st \in States(st.mem)
    BY DEF IInv, LayoutOK
<1>2. PICK m : st' = [st EXCEPT !.last_sample = none, !.magic_samples = none,
                                !.samp_frac_num = none, !.mem = m]
    BY DEF ResetMem
<1>3. /\ st'.samp_frac_num = none /\ st'.started = st.started
      /\ st'.num_rate = st.num_rate /\ st'.den_rate = st.den_rate
      /\ overflowed' = overflowed
    BY <1>1, <1>2 DEF States, ResetMem
<1>4. Part' = [c \in Channels |-> 0] /\ Ratio' = Ratio
    BY <1>3 DEF Part, Ratio
<1> QED
    BY <1>3, <1>4 DEF Stream!Next, Stream!Restart, Part, Ratio

(* A refusal is never undone, and what has started stays so.               *)
LEMMA Onward ==
    ASSUME IInv, Next
    PROVE  (overflowed => overflowed') /\ (st'.started = TRUE \/ st'.started = st.started)
<1> DEFINE G == (overflowed => overflowed') /\ (st'.started = TRUE \/ st'.started = st.started)
<1> SUFFICES G
    OBVIOUS
<1>1. st \in States(st.mem)
    BY DEF IInv, LayoutOK
<1>2. ASSUME NEW kind \in {"float", "int"}, NEW ilen \in Chunks, NEW olen \in Chunks,
             Process(kind, ilen, olen)
      PROVE  G
    <2>1. st' = st /\ overflowed' = overflowed
        BY <1>2 DEF Process
    <2>2. overflowed => overflowed'
        BY <2>1, Zenon
    <2>3. st'.started = st.started
        BY <2>1
    <2> QED
        BY <2>2, <2>3
<1>3. CASE NextChannel
    BY <1>3 DEF NextChannel
<1>4. CASE RunMagic \/ RunChunk
    <2>1. st'.started = TRUE /\ overflowed' = overflowed
        BY <1>4, CallStarts
    <2>2. overflowed => overflowed'
        BY <2>1, Zenon
    <2> QED
        BY <2>1, <2>2
<1>5. CASE Emit
    <2>1. PICK l, f : st' = [st EXCEPT !.last_sample = l, !.samp_frac_num = f]
        <3> DEFINE c == call.chan
        <3>1. PICK last, part :
                 st' = [st EXCEPT !.last_sample[c] = last, !.samp_frac_num[c] = part]
            BY <1>5 DEF Emit
        <3>2. st' = [st EXCEPT !.last_sample = [st.last_sample EXCEPT ![c] = last],
                               !.samp_frac_num = [st.samp_frac_num EXCEPT ![c] = part]]
            BY <1>1, <3>1 DEF States
        <3> QED
            BY <3>2
    <2> QED
        BY <1>1, <1>5, <2>1 DEF States, Emit
<1>6. CASE Finish
    BY <1>6, FinishStream DEF Time
<1>7. ASSUME NEW ratio \in Ratios, NEW refused \in Allocations, SetRate(ratio, refused)
      PROVE  G
    <2>1. st'.started = st.started
        BY <1>7, SetRateHolds
    <2>2. overflowed => overflowed'
        BY <1>7 DEF SetRate
    <2> QED
        BY <2>1, <2>2
<1>8. ASSUME NEW q \in Qualities, NEW refused \in Allocations, SetQuality(q, refused)
      PROVE  G
    BY <1>8, SetQualityHolds
<1>9. CASE SkipZeros
    <2>1. PICK l : st' = [st EXCEPT !.last_sample = l]
        BY <1>9 DEF SkipZeros
    <2> QED
        BY <1>1, <1>9, <2>1 DEF States, SkipZeros
<1>10. CASE ResetMem
    <2>1. PICK l, m, f, h : st' = [st EXCEPT !.last_sample = l, !.magic_samples = m,
                                             !.samp_frac_num = f, !.mem = h]
        BY <1>10 DEF ResetMem
    <2> QED
        BY <1>1, <1>10, <2>1 DEF States, ResetMem
<1>11. CASE Step
    BY <1>3, <1>4, <1>5, <1>6, <1>11 DEF Step
<1>12. CASE SkipZeros \/ ResetMem
    BY <1>9, <1>10, <1>12
<1> HIDE DEF G
<1> QED
    BY <1>2, <1>7, <1>8, <1>11, <1>12 DEF Next

(* A step of a resampler whose rates were refused half way, of which       *)
(* nothing is promised.                                                    *)
LEMMA AstrayStream ==
    ASSUME IInv, IInv', Next, overflowed
    PROVE  Stream!Next \/ UNCHANGED Time
<1>1. overflowed' = TRUE /\ overflowed = TRUE
    <2>1. overflowed'
        BY Onward
    <2>2. overflowed \in BOOLEAN /\ overflowed' \in BOOLEAN
        BY DEF IInv
    <2> QED
        BY <2>1, <2>2, Zenon
<1>2. st'.started = TRUE \/ st'.started = st.started
    BY Onward
<1>3. At' = At /\ Part' = Part /\ Ratio' = Ratio
    BY <1>1 DEF At, Part, Ratio
<1>4. CASE st'.started = TRUE
    BY <1>1, <1>3, <1>4 DEF Stream!Next, Stream!Start, At, Part, Ratio
<1>5. CASE st'.started = st.started
    BY <1>1, <1>3, <1>5 DEF Time
<1> QED
    BY <1>2, <1>4, <1>5

(* Every step is one of the stream, or moves nothing.                      *)
LEMMA NextStream == IInv /\ [Next]_vars => [Stream!Next]_Time
<1> SUFFICES ASSUME IInv, [Next]_vars PROVE Stream!Next \/ UNCHANGED Time
    BY DEF Time
<1>1. IInv'
    BY NextIInv
<1>2. CASE UNCHANGED vars
    BY <1>2 DEF vars, Time, At, Part, Ratio, Middle
<1>3. CASE Next /\ overflowed
    BY <1>1, <1>3, AstrayStream
<1>4. CASE Next /\ ~overflowed
    <2>1. ASSUME NEW kind \in {"float", "int"}, NEW ilen \in Chunks, NEW olen \in Chunks,
                 Process(kind, ilen, olen)
          PROVE  UNCHANGED Time
        BY <2>1 DEF Process, Time, At, Part, Ratio, Middle
    <2>2. CASE NextChannel
        BY <2>2 DEF NextChannel, Time, At, Part, Ratio, Middle
    <2>3. CASE RunMagic \/ RunChunk
        <3>1. /\ st'.started = TRUE /\ UNCHANGED <<taken, overflowed>>
              /\ st'.magic_samples = st.magic_samples /\ st'.last_sample = st.last_sample
              /\ st'.filt_len = st.filt_len /\ st'.samp_frac_num = st.samp_frac_num
              /\ st'.num_rate = st.num_rate /\ st'.den_rate = st.den_rate
            BY <2>3, CallStarts
        <3>2. At' = At /\ Part' = Part /\ Ratio' = Ratio
            BY <3>1 DEF At, Part, Ratio, Middle
        <3> QED
            BY <3>1, <3>2 DEF Stream!Next, Stream!Start, At, Part, Ratio
    <2>4. CASE Emit
        BY <1>4, <2>4, EmitStream
    <2>5. CASE Finish
        BY <2>5, FinishStream
    <2>6. ASSUME NEW ratio \in Ratios, NEW refused \in Allocations, SetRate(ratio, refused)
          PROVE  Stream!Next
        BY <1>1, <1>4, <2>6, SetRateStream
    <2>7. ASSUME NEW q \in Qualities, NEW refused \in Allocations, SetQuality(q, refused)
          PROVE  Stream!Next \/ UNCHANGED Time
        BY <1>1, <1>4, <2>7, SetQualityStream
    <2>8. CASE SkipZeros
        BY <2>8, SkipZerosStream
    <2>9. CASE ResetMem
        BY <2>9, ResetMemStream
    <2> QED
        BY <1>4, <2>1, <2>2, <2>3, <2>4, <2>5, <2>6, <2>7, <2>8, <2>9 DEF Next, Step
<1> QED
    BY <1>2, <1>3, <1>4

(* The place in the stream moves by the ratio for each output sample and by *)
(* nothing else: the resampler implements the stream.                      *)
THEOREM ImplementsStream == Spec => StreamSpec
BY InitStream, NextStream, Invariance, PTL DEF Spec, StreamSpec, Stream!Spec, Stream!vars,
   Time, At, Part, Ratio

-----------------------------------------------------------------------------
(* The channels of a call.                                                 *)

(* Where a channel stands.                                                 *)
Stands(c) == [taken |-> taken[c], last |-> st.last_sample[c],
              part |-> st.samp_frac_num[c], magic |-> st.magic_samples[c]]

(* What the turns of a call depend on beside that, and never change.       *)
Given == [kind |-> call.kind, filt |-> st.filt_len, alloc |-> st.mem_alloc_size,
          int |-> st.int_advance, frac |-> st.frac_advance, den |-> st.den_rate,
          in |-> call.in, out |-> call.out]

(* The channel that is worked on, without what is left of earlier turns.   *)
Local ==
    [pc |-> call.pc, ilen |-> call.ilen, olen |-> call.olen,
     room |-> IF call.pc \in {"run", "rest"} THEN call.room ELSE 0,
     n |-> IF call.pc = "run" THEN call.n ELSE 0,
     made |-> IF call.pc = "run" THEN call.made ELSE 0,
     old |-> IF call.pc = "run" THEN call.magic ELSE FALSE,
     at |-> Stands(call.chan)]

Fresh(g, v) == [pc |-> "begin", ilen |-> g.in, olen |-> g.out,
                room |-> 0, n |-> 0, made |-> 0, old |-> FALSE, at |-> v]

Over(g, x) ==
    \/ x.pc = "end"
    \/ /\ x.pc = "begin" /\ (x.ilen = 0 \/ x.olen = 0)
       /\ x.at.magic > 0 => g.kind = "int"

(* The turn that follows is decided.                                       *)
Limit(g, x) == IF g.kind = "int" THEN Min2(x.olen, StackAlloc) ELSE x.olen

TurnMagic(g, x) ==
    [pc |-> "run", ilen |-> x.ilen, olen |-> x.olen, room |-> Limit(g, x),
     n |-> x.at.magic, made |-> 0, old |-> TRUE, at |-> x.at]

TurnChunk(g, x) ==
    [pc |-> "run", ilen |-> x.ilen, olen |-> x.olen,
     room |-> IF x.pc = "begin" THEN Limit(g, x) ELSE x.room,
     n |-> Min2(x.ilen, g.alloc - (g.filt - 1)), made |-> 0, old |-> FALSE, at |-> x.at]

TurnEmit(g, x) ==
    LET frac == x.at.part + g.frac
        carry == frac >= g.den
    IN  [pc |-> "run", ilen |-> x.ilen, olen |-> x.olen, room |-> x.room,
         n |-> x.n, made |-> x.made + 1, old |-> x.old,
         at |-> [taken |-> x.at.taken,
                 last |-> x.at.last + g.int + (IF carry THEN 1 ELSE 0),
                 part |-> IF carry THEN frac - g.den ELSE frac,
                 magic |-> x.at.magic]]

TurnFinish(g, x) ==
    LET used == Min2(x.n, x.at.last)
        left == x.at.magic - used
        pc == IF ~x.old THEN "begin"
              ELSE IF left > 0 THEN IF g.kind = "int" THEN "begin" ELSE "end"
              ELSE IF g.kind = "int" THEN "rest" ELSE "begin"
    IN  [pc |-> pc, ilen |-> IF x.old THEN x.ilen ELSE x.ilen - used,
         olen |-> x.olen - x.made,
         room |-> IF pc = "rest" THEN x.room - x.made ELSE 0,
         n |-> 0, made |-> 0, old |-> FALSE,
         at |-> [taken |-> IF x.old THEN x.at.taken ELSE x.at.taken + used,
                 last |-> x.at.last - used, part |-> x.at.part,
                 magic |-> IF x.old THEN left ELSE x.at.magic]]

Turn(g, x) ==
    IF x.pc = "run"
    THEN IF x.at.last < x.n /\ x.made < x.room THEN TurnEmit(g, x) ELSE TurnFinish(g, x)
    ELSE IF x.pc = "begin" /\ x.at.magic > 0 THEN TurnMagic(g, x) ELSE TurnChunk(g, x)

(* Turns lead from a to b: b is in every set that has a and is closed.     *)
Closed(g, S) == \A x \in S : ~Over(g, x) => Turn(g, x) \in S
Ahead(g, a, b) == \A S : a \in S /\ Closed(g, S) => b \in S

(* The channels to come stand where this one stood, and those that are     *)
(* done stand where it will.                                               *)
InStep ==
    IF call = Idle THEN \A c, d \in Channels : Stands(c) = Stands(d)
    ELSE /\ \A c, d \in Channels : c > call.chan /\ d > call.chan => Stands(c) = Stands(d)
         /\ \A c \in Channels : c > call.chan => Ahead(Given, Fresh(Given, Stands(c)), Local)
         /\ \A c \in Channels : c < call.chan =>
               \E e : Over(Given, e) /\ e.at = Stands(c) /\ Ahead(Given, Local, e)

(* A place is ahead of itself, and what is ahead stays ahead.              *)
LEMMA AheadSame ==
    ASSUME NEW g, NEW a
    PROVE  Ahead(g, a, a)
BY DEF Ahead

LEMMA AheadTurn ==
    ASSUME NEW g, NEW a, NEW b, Ahead(g, a, b), ~Over(g, b)
    PROVE  Ahead(g, a, Turn(g, b))
BY DEF Ahead, Closed

(* A turn towards the end leaves it ahead, for there is only one turn.     *)
LEMMA AheadLess ==
    ASSUME NEW g, NEW a, NEW e, Ahead(g, a, e), ~Over(g, a), Over(g, e)
    PROVE  Ahead(g, Turn(g, a), e)
<1> SUFFICES ASSUME NEW S, Turn(g, a) \in S, Closed(g, S) PROVE e \in S
    BY DEF Ahead
<1>1. Closed(g, S \cup {a})
    BY DEF Closed
<1>2. e \in S \cup {a}
    BY <1>1 DEF Ahead
<1> QED
    BY <1>2

(* Nothing is ahead of an end but itself.                                  *)
LEMMA AheadOver ==
    ASSUME NEW g, NEW a, NEW e, Ahead(g, a, e), Over(g, a)
    PROVE  e = a
<1>1. Closed(g, {a})
    BY DEF Closed
<1>2. e \in {a}
    BY <1>1 DEF Ahead
<1> QED
    BY <1>2

(* What a turn is, seen from its channel.                                  *)
Turned ==
    /\ ~Over(Given, Local) /\ Local' = Turn(Given, Local) /\ Given' = Given
    /\ call # Idle /\ call' # Idle /\ call'.chan = call.chan
    /\ \A d \in Channels : d # call.chan => Stands(d)' = Stands(d)

(* Such a turn keeps the channels in step.                                 *)
LEMMA TurnKeeps ==
    ASSUME InStep, Turned, call.chan \in Channels
    PROVE  InStep'
<1> DEFINE k == call.chan
           g == Given
           x == Local
           v(c) == Stands(c)
<1>1. /\ \A c, d \in Channels : c > k /\ d > k => v(c) = v(d)
      /\ \A c \in Channels : c > k => Ahead(g, Fresh(g, v(c)), x)
      /\ \A c \in Channels : c < k => \E e : Over(g, e) /\ e.at = v(c) /\ Ahead(g, x, e)
    BY DEF InStep, Turned
<1>2. Channels \subseteq Int
    BY ResamplerAssumption DEF Channels
<1>3. \A d \in Channels : d # k => Stands(d)' = v(d)
    BY DEF Turned
<1>4. Given' = g /\ Local' = Turn(g, x) /\ ~Over(g, x) /\ call' # Idle /\ call'.chan = k
    BY DEF Turned
<1> HIDE DEF g, x, v
<1>5. ASSUME NEW c \in Channels, NEW d \in Channels, c > k, d > k
      PROVE  Stands(c)' = Stands(d)'
    BY <1>1, <1>2, <1>3, <1>5
<1>6. ASSUME NEW c \in Channels, c > k
      PROVE  Ahead(Given, Fresh(Given, Stands(c)), Local)'
    <2>1. Ahead(g, Fresh(g, v(c)), Turn(g, x))
        BY <1>1, <1>4, <1>6, AheadTurn
    <2>2. Stands(c)' = v(c)
        BY <1>2, <1>3, <1>6
    <2> QED
        BY <1>4, <2>1, <2>2 DEF Ahead, Fresh, Closed
<1>7. ASSUME NEW c \in Channels, c < k
      PROVE  \E e : Over(Given', e) /\ e.at = Stands(c)' /\ Ahead(Given', Local', e)
    <2>1. PICK e : Over(g, e) /\ e.at = v(c) /\ Ahead(g, x, e)
        BY <1>1, <1>7
    <2>2. Ahead(g, Turn(g, x), e)
        BY <1>4, <2>1, AheadLess
    <2>3. Stands(c)' = v(c)
        BY <1>2, <1>3, <1>7
    <2> QED
        BY <1>4, <2>1, <2>2, <2>3
<1> QED
    BY <1>4, <1>5, <1>6, <1>7 DEF InStep

(* The functions of the state, at the channel of a call and beside it.     *)
LEMMA StandTypes ==
    ASSUME IInv
    PROVE  /\ st \in States(st.mem) /\ taken \in [Channels -> Nat]
           /\ st.last_sample \in [Channels -> Nat] /\ st.samp_frac_num \in [Channels -> Nat]
           /\ st.magic_samples \in [Channels -> Nat]
<1>1. st \in States(st.mem) /\ taken \in [Channels -> Nat]
    BY DEF IInv, LayoutOK
<1> QED
    BY <1>1 DEF States

(* The magic samples become the input.                                     *)
LEMMA RunMagicTurn ==
    ASSUME IInv, RunMagic
    PROVE  Turned
<1> DEFINE room == IF call.kind = "int" THEN Min2(call.olen, StackAlloc) ELSE call.olen
           magic == st.magic_samples[call.chan]
<1>1. /\ call.pc = "begin" /\ magic > 0
      /\ call.kind = "int" => ~(call.ilen = 0 \/ call.olen = 0)
      /\ call' = [call EXCEPT !.pc = "run", !.magic = TRUE, !.made = 0, !.n = magic,
                              !.room = room]
      /\ st' = [st EXCEPT !.started = TRUE]
      /\ taken' = taken
    BY DEF RunMagic, Magic, Drained
<1>2. call \in Calls /\ call.chan \in Channels /\ call # Idle
    BY <1>1, CallTypes
<1> HIDE DEF room, magic
<1>3. /\ call'.pc = "run" /\ call'.magic = TRUE /\ call'.n = magic
      /\ call'.room = room /\ call'.made = 0 /\ call'.chan = call.chan
      /\ call'.ilen = call.ilen /\ call'.in = call.in /\ call'.kind = call.kind
      /\ call'.olen = call.olen /\ call'.out = call.out
    BY <1>1, <1>2 DEF Calls
<1>4. /\ st'.last_sample = st.last_sample /\ st'.samp_frac_num = st.samp_frac_num
      /\ st'.magic_samples = st.magic_samples /\ st'.filt_len = st.filt_len
      /\ st'.mem_alloc_size = st.mem_alloc_size /\ st'.int_advance = st.int_advance
      /\ st'.frac_advance = st.frac_advance /\ st'.den_rate = st.den_rate
    BY <1>1, StandTypes DEF States
<1>5. Given' = Given /\ \A d \in Channels : Stands(d)' = Stands(d)
    BY <1>1, <1>3, <1>4 DEF Given, Stands
<1>6. ~Over(Given, Local)
    BY <1>1 DEF Over, Given, Local, Stands, magic
<1>7. Local' = TurnMagic(Given, Local)
    BY <1>1, <1>3, <1>4 DEF TurnMagic, Limit, Given, Local, Stands, magic, room
<1>8. Turn(Given, Local) = TurnMagic(Given, Local)
    BY <1>1 DEF Turn, Local, Stands, magic
<1>9. call' # Idle
    BY <1>3 DEF Idle
<1> QED
    BY <1>2, <1>3, <1>5, <1>6, <1>7, <1>8, <1>9 DEF Turned

(* A chunk of the input is worked on.                                      *)
LEMMA RunChunkTurn ==
    ASSUME IInv, RunChunk
    PROVE  Turned
<1> DEFINE n == Chunk
           mem == Copied(Chunk)
           room == IF call.pc = "begin"
                   THEN IF call.kind = "int" THEN Min2(call.olen, StackAlloc) ELSE call.olen
                   ELSE call.room
<1>1. /\ call.pc \in {"begin", "rest"} /\ (call.pc = "begin" => ~Magic /\ ~Drained)
      /\ call' = [call EXCEPT !.pc = "run", !.magic = FALSE, !.made = 0, !.n = n,
                              !.room = room]
      /\ st' = [st EXCEPT !.mem = mem, !.started = TRUE]
      /\ taken' = taken
    <2>1. st' = [st EXCEPT !.mem = Copied(Chunk), !.started = TRUE] /\ taken' = taken
        BY DEF RunChunk
    <2>2. \/ /\ call.pc = "begin" /\ ~Magic /\ ~Drained
             /\ call' = [call EXCEPT !.pc = "run", !.magic = FALSE, !.made = 0, !.n = n,
                            !.room = IF call.kind = "int" THEN Min2(call.olen, StackAlloc)
                                                       ELSE call.olen]
          \/ /\ call.pc = "rest"
             /\ call' = [call EXCEPT !.pc = "run", !.magic = FALSE, !.made = 0, !.n = n]
        BY DEF RunChunk
    <2> HIDE DEF n, mem
    <2>3. call.pc = "rest" => call \in Calls
        BY CallTypes
    <2>4. call.pc = "rest" =>
             [call EXCEPT !.pc = "run", !.magic = FALSE, !.made = 0, !.n = n] =
             [call EXCEPT !.pc = "run", !.magic = FALSE, !.made = 0, !.n = n,
                          !.room = call.room]
        BY <2>3 DEF Calls
    <2> QED
        BY <2>1, <2>2, <2>4 DEF mem
<1>2. call \in Calls /\ call.chan \in Channels /\ call # Idle
    BY <1>1, CallTypes
<1>3. n = Min2(call.ilen, st.mem_alloc_size - (st.filt_len - 1))
    BY DEF Chunk
<1> HIDE DEF room, n, mem
<1>4. /\ call'.pc = "run" /\ call'.magic = FALSE /\ call'.n = n
      /\ call'.room = room /\ call'.made = 0 /\ call'.chan = call.chan
      /\ call'.ilen = call.ilen /\ call'.in = call.in /\ call'.kind = call.kind
      /\ call'.olen = call.olen /\ call'.out = call.out
    BY <1>1, <1>2 DEF Calls
<1>5. /\ st'.last_sample = st.last_sample /\ st'.samp_frac_num = st.samp_frac_num
      /\ st'.magic_samples = st.magic_samples /\ st'.filt_len = st.filt_len
      /\ st'.mem_alloc_size = st.mem_alloc_size /\ st'.int_advance = st.int_advance
      /\ st'.frac_advance = st.frac_advance /\ st'.den_rate = st.den_rate
    BY <1>1, StandTypes DEF States
<1>6. Given' = Given /\ \A d \in Channels : Stands(d)' = Stands(d)
    BY <1>1, <1>4, <1>5 DEF Given, Stands
<1>7. ~Over(Given, Local)
    BY <1>1 DEF Over, Given, Local, Stands, Drained
<1>8. Local' = TurnChunk(Given, Local)
    BY <1>1, <1>3, <1>4, <1>5 DEF TurnChunk, Limit, Given, Local, Stands, room
<1>9. Turn(Given, Local) = TurnChunk(Given, Local)
    BY <1>1 DEF Turn, Local, Stands, Magic
<1>10. call' # Idle
    BY <1>4 DEF Idle
<1> QED
    BY <1>2, <1>4, <1>6, <1>7, <1>8, <1>9, <1>10 DEF Turned

(* An output sample is made.                                               *)
LEMMA EmitTurn ==
    ASSUME IInv, Emit
    PROVE  Turned
<1> DEFINE c == call.chan
           frac == st.samp_frac_num[c] + st.frac_advance
           carry == frac >= st.den_rate
           last == st.last_sample[c] + st.int_advance + (IF carry THEN 1 ELSE 0)
           part == IF carry THEN frac - st.den_rate ELSE frac
           lasts == [st.last_sample EXCEPT ![c] = last]
           parts == [st.samp_frac_num EXCEPT ![c] = part]
<1>1. /\ call.pc = "run" /\ st.last_sample[c] < call.n /\ call.made < call.room
      /\ st' = [st EXCEPT !.last_sample = lasts, !.samp_frac_num = parts]
      /\ call' = [call EXCEPT !.made = call.made + 1]
      /\ taken' = taken
    <2>1. st \in States(st.mem)
        BY DEF IInv, LayoutOK
    <2>2. st' = [st EXCEPT !.last_sample[c] = last, !.samp_frac_num[c] = part]
        BY DEF Emit
    <2>3. st' = [st EXCEPT !.last_sample = lasts, !.samp_frac_num = parts]
        <3> HIDE DEF last, part
        <3> QED
            BY <2>1, <2>2 DEF States
    <2> QED
        BY <2>3 DEF Emit, Running
<1>2. call \in Calls /\ c \in Channels /\ call # Idle
    BY <1>1, CallTypes
<1> HIDE DEF last, part, c
<1>3. /\ lasts[c] = last /\ parts[c] = part
      /\ \A d \in Channels : d # c => /\ lasts[d] = st.last_sample[d]
                                      /\ parts[d] = st.samp_frac_num[d]
    BY <1>2, StandTypes
<1> HIDE DEF lasts, parts
<1>4. /\ call'.pc = "run" /\ call'.magic = call.magic /\ call'.n = call.n
      /\ call'.room = call.room /\ call'.made = call.made + 1 /\ call'.chan = call.chan
      /\ call'.ilen = call.ilen /\ call'.in = call.in /\ call'.kind = call.kind
      /\ call'.olen = call.olen /\ call'.out = call.out
    BY <1>1, <1>2 DEF Calls
<1>5. /\ st'.last_sample = lasts /\ st'.samp_frac_num = parts
      /\ st'.magic_samples = st.magic_samples /\ st'.filt_len = st.filt_len
      /\ st'.mem_alloc_size = st.mem_alloc_size /\ st'.int_advance = st.int_advance
      /\ st'.frac_advance = st.frac_advance /\ st'.den_rate = st.den_rate
    BY <1>1, StandTypes DEF States
<1>6. Given' = Given /\ \A d \in Channels : d # call.chan => Stands(d)' = Stands(d)
    BY <1>1, <1>3, <1>4, <1>5 DEF Given, Stands, c
<1>7. ~Over(Given, Local)
    BY <1>1 DEF Over, Local
<1>8. Local' = TurnEmit(Given, Local)
    <2>1. Stands(call.chan)' = [taken |-> taken[c], last |-> last, part |-> part,
                                magic |-> st.magic_samples[c]]
        BY <1>1, <1>3, <1>4, <1>5 DEF c, Stands
    <2> QED
        BY <1>1, <1>4, <2>1 DEF TurnEmit, Given, Local, Stands, last, part, c
<1>9. Turn(Given, Local) = TurnEmit(Given, Local)
    BY <1>1 DEF Turn, Local, Stands, c
<1>10. call' # Idle
    BY <1>4 DEF Idle
<1> QED
    BY <1>2, <1>4, <1>6, <1>7, <1>8, <1>9, <1>10 DEF Turned

(* What the filter has passed leaves the memory.                           *)
LEMMA FinishTurn ==
    ASSUME IInv, Finish
    PROVE  Turned
<1> DEFINE c == call.chan
           used == Min2(call.n, st.last_sample[c])
           left == st.magic_samples[c] - used
           more == IF call.magic THEN left ELSE st.magic_samples[c]
           lasts == [st.last_sample EXCEPT ![c] = st.last_sample[c] - used]
           magics == [st.magic_samples EXCEPT ![c] = more]
           pc == IF ~call.magic THEN "begin"
                 ELSE IF left > 0 THEN IF call.kind = "int" THEN "begin" ELSE "end"
                 ELSE IF call.kind = "int" THEN "rest" ELSE "begin"
           ilen == IF call.magic THEN call.ilen ELSE call.ilen - used
<1>1. /\ call.pc = "run" /\ ~(st.last_sample[c] < call.n /\ call.made < call.room)
      /\ taken' = IF call.magic THEN taken ELSE [taken EXCEPT ![c] = taken[c] + used]
      /\ call' = [call EXCEPT !.pc = pc, !.ilen = ilen, !.olen = call.olen - call.made,
                              !.room = call.room - call.made]
    BY DEF Finish, Running
<1>2. call \in Calls /\ c \in Channels /\ call # Idle
    BY <1>1, CallTypes
<1>3. \E mem : st' = [st EXCEPT !.last_sample = lasts, !.magic_samples = magics, !.mem = mem]
    <2> DEFINE first == c * st.mem_alloc_size
               kept == IF call.magic THEN st.filt_len - 1 + left ELSE st.filt_len - 1
               mem == [k \in DOMAIN st.mem |-> IF k \in first..(first + kept - 1)
                                               THEN st.mem[k + used] ELSE st.mem[k]]
               less == st.last_sample[c] - used
    <2>1. st' = [st EXCEPT !.last_sample[c] = less, !.magic_samples[c] = more, !.mem = mem]
        BY DEF Finish
    <2> HIDE DEF less, more, mem
    <2>2. st' = [st EXCEPT !.last_sample = [st.last_sample EXCEPT ![c] = less],
                           !.magic_samples = [st.magic_samples EXCEPT ![c] = more],
                           !.mem = mem]
        BY <2>1, StandTypes DEF States
    <2> QED
        BY <2>2 DEF less
<1> HIDE DEF more, used, left, c
<1>4. /\ lasts[c] = st.last_sample[c] - used /\ magics[c] = more
      /\ \A d \in Channels : d # c => /\ lasts[d] = st.last_sample[d]
                                      /\ magics[d] = st.magic_samples[d]
    BY <1>2, StandTypes
<1> HIDE DEF lasts, magics
<1>5. /\ st'.last_sample = lasts /\ st'.samp_frac_num = st.samp_frac_num
      /\ st'.magic_samples = magics /\ st'.filt_len = st.filt_len
      /\ st'.mem_alloc_size = st.mem_alloc_size /\ st'.int_advance = st.int_advance
      /\ st'.frac_advance = st.frac_advance /\ st'.den_rate = st.den_rate
    BY <1>3, StandTypes DEF States
<1>6. /\ taken'[c] = IF call.magic THEN taken[c] ELSE taken[c] + used
      /\ \A d \in Channels : d # c => taken'[d] = taken[d]
    BY <1>1, <1>2, StandTypes
<1> HIDE DEF pc, ilen
<1>7. /\ call'.pc = pc /\ call'.chan = call.chan
      /\ call'.room = call.room - call.made
      /\ call'.ilen = ilen /\ call'.in = call.in /\ call'.kind = call.kind
      /\ call'.olen = call.olen - call.made /\ call'.out = call.out
    BY <1>1, <1>2 DEF Calls
<1>8. Given' = Given /\ \A d \in Channels : d # call.chan => Stands(d)' = Stands(d)
    BY <1>4, <1>5, <1>6, <1>7 DEF Given, Stands, c
<1>9. ~Over(Given, Local)
    BY <1>1 DEF Over, Local
<1>10. pc \in {"begin", "end", "rest"}
    BY DEF pc
<1>11. Local' = TurnFinish(Given, Local)
    <2> DEFINE v == [taken |-> IF call.magic THEN taken[c] ELSE taken[c] + used,
                     last |-> st.last_sample[c] - used, part |-> st.samp_frac_num[c],
                     magic |-> more]
    <2>1. Stands(call.chan)' = v
        BY <1>4, <1>5, <1>6, <1>7 DEF Stands, c
    <2> HIDE DEF v
    <2>2. Local' = [pc |-> pc, ilen |-> ilen, olen |-> call.olen - call.made,
                    room |-> IF pc = "rest" THEN call.room - call.made ELSE 0,
                    n |-> 0, made |-> 0, old |-> FALSE, at |-> v]
        BY <1>7, <1>10, <2>1 DEF Local
    <2>3. /\ Local.pc = "run" /\ Local.ilen = call.ilen /\ Local.olen = call.olen
          /\ Local.room = call.room /\ Local.n = call.n /\ Local.made = call.made
          /\ Local.old = call.magic /\ Local.at = Stands(c) /\ Given.kind = call.kind
        BY <1>1 DEF Local, Given, c
    <2>4. /\ Stands(c).taken = taken[c] /\ Stands(c).last = st.last_sample[c]
          /\ Stands(c).part = st.samp_frac_num[c] /\ Stands(c).magic = st.magic_samples[c]
        BY DEF Stands
    <2>5. Min2(Local.n, Local.at.last) = used
        BY <2>3, <2>4 DEF used
    <2> HIDE DEF Local, Given, Stands
    <2> QED
        BY <2>2, <2>3, <2>4, <2>5 DEF TurnFinish, pc, ilen, left, more, v
<1>12. Turn(Given, Local) = TurnFinish(Given, Local)
    BY <1>1 DEF Turn, Local, Stands, c
<1>13. call' # Idle
    BY <1>7, <1>10 DEF Idle
<1> QED
    BY <1>2, <1>7, <1>8, <1>9, <1>11, <1>12, <1>13 DEF Turned

(* The next channel begins where this one began, and this one is done.     *)
LEMMA NextChannelKeeps ==
    ASSUME IInv, InStep, NextChannel
    PROVE  InStep'
<1> DEFINE k == call.chan
           g == Given
           x == Local
           v(c) == Stands(c)
<1>1. /\ call.pc \in {"begin", "end"}
      /\ UNCHANGED <<st, taken>>
      /\ call' = IF k + 1 \in Channels
                 THEN [call EXCEPT !.pc = "begin", !.chan = k + 1,
                                   !.ilen = call.in, !.olen = call.out]
                 ELSE Idle
    BY DEF NextChannel
<1>2. call \in Calls /\ k \in Channels /\ call # Idle
    BY <1>1, CallTypes
<1>3. Channels = 0..(NbChannels - 1) /\ NbChannels \in Nat \ {0}
    BY ResamplerAssumption DEF Channels
<1>4. Over(g, x) /\ x.at = v(k)
    BY DEF NextChannel, Over, Given, Local, Stands, Drained, Magic
<1>5. /\ \A c, d \in Channels : c > k /\ d > k => v(c) = v(d)
      /\ \A c \in Channels : c > k => Ahead(g, Fresh(g, v(c)), x)
      /\ \A c \in Channels : c < k => \E e : Over(g, e) /\ e.at = v(c) /\ Ahead(g, x, e)
    BY <1>2 DEF InStep
<1>6. \A c \in Channels : c < k => v(c) = v(k)
    <2> SUFFICES ASSUME NEW c \in Channels, c < k PROVE v(c) = v(k)
        OBVIOUS
    <2> HIDE DEF g, x, v
    <2>1. PICK e : Over(g, e) /\ e.at = v(c) /\ Ahead(g, x, e)
        BY <1>5
    <2>2. e = x
        BY <1>4, <2>1, AheadOver
    <2> QED
        BY <1>4, <2>1, <2>2
<1>7. \A c \in Channels : Stands(c)' = v(c)
    BY <1>1 DEF Stands
<1>8. CASE k + 1 \in Channels
    <2>1. /\ call'.pc = "begin" /\ call'.chan = k + 1 /\ call'.kind = call.kind
          /\ call'.ilen = call.in /\ call'.in = call.in
          /\ call'.olen = call.out /\ call'.out = call.out
        <3> HIDE DEF k
        <3> QED
            BY <1>1, <1>2, <1>8 DEF Calls
    <2>2. call' # Idle
        BY <2>1 DEF Idle
    <2>3. Given' = g
        BY <1>1, <2>1 DEF Given
    <2>4. Local' = Fresh(g, v(k + 1))
        BY <1>1, <2>1 DEF Local, Fresh, Given, Stands
    <2> HIDE DEF g, x, v, k
    <2>5. \A c \in Channels : c > k + 1 => c > k
        BY <1>2, <1>3
    <2>6. k + 1 > k /\ k \in Int
        BY <1>2, <1>3
    <2>7. ASSUME NEW c \in Channels, NEW d \in Channels, c > k + 1, d > k + 1
          PROVE  Stands(c)' = Stands(d)'
        BY <1>5, <1>7, <2>5, <2>7
    <2>8. ASSUME NEW c \in Channels, c > k + 1
          PROVE  Ahead(Given', Fresh(Given', Stands(c)'), Local')
        <3>1. v(c) = v(k + 1)
            BY <1>5, <1>8, <2>5, <2>6, <2>8
        <3> QED
            BY <1>7, <2>3, <2>4, <3>1, AheadSame
    <2>9. ASSUME NEW c \in Channels, c < k + 1
          PROVE  \E e : Over(Given', e) /\ e.at = Stands(c)' /\ Ahead(Given', Local', e)
        <3>1. v(c) = v(k)
            <4>1. c < k \/ c = k
                BY <1>2, <1>3, <2>9
            <4> QED
                BY <1>6, <4>1
        <3>2. Ahead(g, Fresh(g, v(k + 1)), x)
            BY <1>5, <1>8, <2>6
        <3> QED
            BY <1>4, <1>7, <2>3, <2>4, <3>1, <3>2
    <2> QED
        BY <2>1, <2>2, <2>7, <2>8, <2>9 DEF InStep, Ahead, Fresh, Closed
<1>9. CASE k + 1 \notin Channels
    <2>1. call' = Idle
        BY <1>1, <1>9
    <2> HIDE DEF g, x, v, k
    <2>2. \A c \in Channels : c < k \/ c = k
        BY <1>2, <1>3, <1>9
    <2>3. \A c \in Channels : v(c) = v(k)
        BY <1>6, <2>2
    <2> QED
        BY <1>7, <2>1, <2>3 DEF InStep
<1> QED
    BY <1>8, <1>9

(* A call begins with the first channel.                                   *)
LEMMA ProcessKeeps ==
    ASSUME IInv, InStep, NEW kind \in {"float", "int"}, NEW ilen \in Chunks, NEW olen \in Chunks,
           Process(kind, ilen, olen)
    PROVE  InStep'
<1>1. /\ call = Idle /\ UNCHANGED <<st, taken>>
      /\ call'.pc = "begin" /\ call'.chan = 0
      /\ call'.ilen = call'.in /\ call'.olen = call'.out
    BY DEF Process
<1>2. call' # Idle
    BY <1>1 DEF Idle
<1>3. Channels = 0..(NbChannels - 1) /\ NbChannels \in Nat \ {0}
    BY ResamplerAssumption DEF Channels
<1>4. 0 \in Channels /\ \A c \in Channels : ~(c < 0)
    BY <1>3
<1>5. \A c, d \in Channels : Stands(c)' = Stands(d)'
    BY <1>1 DEF InStep, Stands
<1>6. Local' = Fresh(Given', Stands(0)')
    BY <1>1 DEF Local, Fresh, Given, Stands
<1>7. \A c \in Channels : Ahead(Given', Fresh(Given', Stands(c)'), Local')
    <2> SUFFICES ASSUME NEW c \in Channels
                 PROVE  Ahead(Given', Fresh(Given', Stands(c)'), Local')
        OBVIOUS
    <2>1. Stands(c)' = Stands(0)'
        BY <1>4, <1>5
    <2> QED
        BY <1>6, <2>1, AheadSame
<1> QED
    BY <1>1, <1>2, <1>4, <1>5, <1>7 DEF InStep, Ahead, Fresh, Closed

-----------------------------------------------------------------------------
(* Between calls.                                                          *)

(* The channels of a state stand at the same place.                        *)
Even(s) ==
    \A c, d \in Channels : /\ s.last_sample[c] = s.last_sample[d]
                           /\ s.samp_frac_num[c] = s.samp_frac_num[d]
                           /\ s.magic_samples[c] = s.magic_samples[d]

(* They do if what they have taken is the same.                            *)
LEMMA InStepIs ==
    ASSUME call = Idle
    PROVE  InStep <=> Even(st) /\ \A c, d \in Channels : taken[c] = taken[d]
BY DEF InStep, Even, Stands

(* It is a state, whatever the values of its fields.                       *)
IsState(s) ==
    s \in [rates : {s.rates}, num_rate : {s.num_rate}, den_rate : {s.den_rate},
           quality : {s.quality}, started : {s.started}, resampler : {s.resampler},
           int_advance : {s.int_advance}, frac_advance : {s.frac_advance},
           oversample : {s.oversample}, filt_len : {s.filt_len},
           mem_alloc_size : {s.mem_alloc_size}, sinc_table_length : {s.sinc_table_length},
           last_sample : {s.last_sample}, samp_frac_num : {s.samp_frac_num},
           magic_samples : {s.magic_samples}, mem : {s.mem}]

(* A new filter moves all channels alike.                                  *)
LEMMA UpdateEven ==
    ASSUME NEW s, IsState(s), Even(s), NEW refused
    PROVE  Even(UpdateFilter(s, refused))
<1> DEFINE n == NewLength(s)
           alloc == Max({s.mem_alloc_size, AllocSize(n)})
           stepped == [s EXCEPT !.int_advance = s.num_rate \div s.den_rate,
                                !.frac_advance = s.num_rate % s.den_rate,
                                !.oversample = NewOversample(s)]
           filled == [stepped EXCEPT
                        !.resampler = IF UseDirect(s, n) THEN "direct" ELSE "interpolate",
                        !.sinc_table_length = Max({@, TableLength(s, n)})]
           quiet == [k \in 0..(NbChannels * alloc - 1) |-> Silence]
           t == UpdateFilter(s, refused)
<1>1. \/ t = [stepped EXCEPT !.resampler = "zero"]
      \/ t = [filled EXCEPT !.resampler = "zero"]
      \/ t = [filled EXCEPT !.filt_len = n, !.mem_alloc_size = alloc, !.mem = quiet]
      \/ t = filled
      \/ t = Relayout(filled, n, alloc)
    BY DEF UpdateFilter
<1> HIDE DEF n, alloc, quiet, t
<1>2. /\ stepped.last_sample = s.last_sample /\ stepped.samp_frac_num = s.samp_frac_num
      /\ stepped.magic_samples = s.magic_samples
      /\ filled.last_sample = s.last_sample /\ filled.samp_frac_num = s.samp_frac_num
      /\ filled.magic_samples = s.magic_samples
    BY DEF IsState
<1>3. ASSUME t = Relayout(filled, n, alloc) PROVE Even(t)
    <2> DEFINE f == filled
               part == [c \in Channels |->
                          IF n > f.filt_len THEN Grown(f, n, c) ELSE Shrunk(f, n, c)]
               mem == [k \in 0..(NbChannels * alloc - 1) |->
                         LET j == k % alloc
                             m == part[k \div alloc].mem
                         IN  IF j \in DOMAIN m THEN m[j] ELSE Garbage]
               magics == [c \in Channels |-> part[c].magic]
               lasts == [c \in Channels |-> part[c].last]
    <2>1. t = [f EXCEPT !.filt_len = n, !.mem_alloc_size = alloc, !.magic_samples = magics,
                        !.last_sample = lasts, !.mem = mem]
        BY <1>3 DEF Relayout
    <2>2. f.samp_frac_num = s.samp_frac_num /\ f.magic_samples = s.magic_samples
          /\ f.last_sample = s.last_sample
        BY <1>2
    <2>3. t.magic_samples = magics /\ t.last_sample = lasts /\ t.samp_frac_num = s.samp_frac_num
        <3> HIDE DEF mem, magics, lasts
        <3> QED
            BY <2>1 DEF IsState
    <2> HIDE DEF f, filled
    <2>4. \A c, d \in Channels : f.magic_samples[c] = f.magic_samples[d]
                                 /\ f.last_sample[c] = f.last_sample[d]
        BY <2>2 DEF Even
    <2>5. ASSUME NEW c \in Channels, NEW d \in Channels
          PROVE  part[c].magic = part[d].magic /\ part[c].last = part[d].last
        BY <2>4 DEF Grown, Shrunk, Shift
    <2>6. \A c, d \in Channels : magics[c] = magics[d] /\ lasts[c] = lasts[d]
        BY <2>5
    <2> QED
        BY <2>3, <2>6 DEF Even
<1>4. ASSUME t # Relayout(filled, n, alloc) PROVE Even(t)
    <2>1. /\ t.last_sample = s.last_sample /\ t.samp_frac_num = s.samp_frac_num
          /\ t.magic_samples = s.magic_samples
        BY <1>1, <1>4 DEF IsState
    <2> QED
        BY <2>1 DEF Even
<1> QED
    BY <1>3, <1>4 DEF t

(* A new resampler begins with all channels at its place.                  *)
LEMMA InitKeeps == Init => InStep
<1> SUFFICES ASSUME Init PROVE InStep
    OBVIOUS
<1>1. PICK r \in Ratios, q \in Qualities : st = UpdateFilter(Blank(r, q), "none")
    BY DEF Init
<1> DEFINE b == Blank(r, q)
           num == r[1] \div Gcd(r[1], r[2])
           den == r[2] \div Gcd(r[1], r[2])
           none == [c \in Channels |-> 0]
<1>2. IsState(b) /\ b.last_sample = none /\ b.samp_frac_num = none /\ b.magic_samples = none
    <2>1. b = [rates |-> r, num_rate |-> num, den_rate |-> den,
               quality |-> q, started |-> FALSE, resampler |-> "zero",
               int_advance |-> 0, frac_advance |-> 0, oversample |-> 1,
               filt_len |-> 0, mem_alloc_size |-> 0, sinc_table_length |-> 0,
               last_sample |-> none, samp_frac_num |-> none,
               magic_samples |-> none, mem |-> <<>>]
        BY DEF Blank
    <2> HIDE DEF b, num, den, none
    <2> QED
        BY <2>1 DEF IsState
<1>3. Even(b)
    BY <1>2 DEF Even
<1> HIDE DEF b
<1>4. Even(st)
    BY <1>1, <1>2, <1>3, UpdateEven DEF b
<1>5. call = Idle /\ taken = none
    BY DEF Init
<1> QED
    BY <1>4, <1>5, InStepIs

(* The parts of a sample are converted alike, or all refused.              *)
LEMMA SetRateKeeps ==
    ASSUME IInv, InStep, NEW ratio \in Ratios, NEW refused \in Allocations,
           SetRate(ratio, refused)
    PROVE  InStep'
<1> DEFINE num == ratio[1] \div Gcd(ratio[1], ratio[2])
           den == ratio[2] \div Gcd(ratio[1], ratio[2])
           s == [st EXCEPT !.rates = ratio, !.num_rate = num, !.den_rate = den]
           bad == {c \in Channels : Overflows(st.samp_frac_num[c], s.den_rate, st.den_rate)}
           scaled(c) == Min2(MultiplyFrac(st.samp_frac_num[c], s.den_rate, st.den_rate),
                             s.den_rate - 1)
           fracs == [c \in Channels |-> IF \E b \in bad : b <= c THEN s.samp_frac_num[c]
                                        ELSE scaled(c)]
           t == [s EXCEPT !.samp_frac_num = fracs]
<1>1. /\ call = Idle /\ UNCHANGED <<call, taken>>
      /\ st' = IF bad # {} THEN t ELSE UpdateFilter(t, refused)
    BY DEF SetRate
<1>2. Even(st) /\ \A c, d \in Channels : taken[c] = taken[d]
    BY <1>1, InStepIs
<1>3. s.samp_frac_num = st.samp_frac_num
    BY StandTypes DEF States
<1>4. \A c, d \in Channels : c \in bad => d \in bad
    BY <1>2 DEF Even
<1>5. \A c, d \in Channels : scaled(c) = scaled(d)
    BY <1>2 DEF Even
<1> HIDE DEF bad, scaled, num, den
<1>6. \A c, d \in Channels : fracs[c] = fracs[d]
    <2>1. CASE bad = {}
        BY <1>5, <2>1
    <2>2. CASE bad # {}
        <3>1. Channels = 0..(NbChannels - 1) /\ NbChannels \in Nat \ {0}
            BY ResamplerAssumption DEF Channels
        <3>2. 0 \in Channels /\ \A c \in Channels : 0 <= c
            BY <3>1
        <3>3. bad \subseteq Channels
            BY DEF bad
        <3>4. 0 \in bad
            BY <1>4, <2>2, <3>2, <3>3
        <3>5. \A c \in Channels : fracs[c] = st.samp_frac_num[c]
            BY <1>3, <3>2, <3>4
        <3> QED
            BY <1>2, <3>5 DEF Even
    <2> QED
        BY <2>1, <2>2
<1> HIDE DEF fracs
<1>7. /\ IsState(t) /\ t.samp_frac_num = fracs
      /\ t.last_sample = st.last_sample /\ t.magic_samples = st.magic_samples
    BY StandTypes DEF States, IsState
<1> HIDE DEF t
<1>8. Even(t)
    BY <1>2, <1>6, <1>7 DEF Even
<1>9. Even(UpdateFilter(t, refused))
    BY <1>7, <1>8, UpdateEven
<1>10. Even(st')
    BY <1>1, <1>8, <1>9
<1> QED
    BY <1>1, <1>2, <1>10 DEF InStep, Even, Stands

(* Another quality is a new filter.                                        *)
LEMMA SetQualityKeeps ==
    ASSUME IInv, InStep, NEW q \in Qualities, NEW refused \in Allocations,
           SetQuality(q, refused)
    PROVE  InStep'
<1> DEFINE s == [st EXCEPT !.quality = q]
<1>1. call = Idle /\ st' = UpdateFilter(s, refused) /\ UNCHANGED <<call, taken>>
    BY DEF SetQuality
<1>2. Even(st) /\ \A c, d \in Channels : taken[c] = taken[d]
    BY <1>1, InStepIs
<1>3. /\ IsState(s) /\ s.samp_frac_num = st.samp_frac_num
      /\ s.last_sample = st.last_sample /\ s.magic_samples = st.magic_samples
    BY StandTypes DEF States, IsState
<1> HIDE DEF s
<1>4. Even(s)
    BY <1>2, <1>3 DEF Even
<1>5. Even(st')
    BY <1>1, <1>3, <1>4, UpdateEven
<1> QED
    BY <1>1, <1>2, <1>5 DEF InStep, Even, Stands

(* Skipping zeros and a reset put all channels to the same place.          *)
LEMMA PlacedKeeps ==
    ASSUME IInv, InStep, SkipZeros \/ ResetMem
    PROVE  InStep'
<1> DEFINE half == st.filt_len \div 2
           halves == [c \in Channels |-> half]
           none == [c \in Channels |-> 0]
<1>1. call = Idle /\ call' = call
    BY DEF SkipZeros, ResetMem
<1>2. Even(st) /\ \A c, d \in Channels : taken[c] = taken[d]
    BY <1>1, InStepIs
<1>3. CASE SkipZeros
    <2>1. st' = [st EXCEPT !.last_sample = halves] /\ taken' = taken
        BY <1>3 DEF SkipZeros
    <2> HIDE DEF half
    <2>2. \A c, d \in Channels : halves[c] = halves[d]
        OBVIOUS
    <2> HIDE DEF halves
    <2>3. /\ st'.last_sample = halves /\ st'.samp_frac_num = st.samp_frac_num
          /\ st'.magic_samples = st.magic_samples
        BY <2>1, StandTypes DEF States
    <2> QED
        BY <1>1, <1>2, <2>1, <2>2, <2>3 DEF InStep, Even, Stands
<1>4. CASE ResetMem
    <2>1. /\ \E mem : st' = [st EXCEPT !.last_sample = none, !.magic_samples = none,
                                       !.samp_frac_num = none, !.mem = mem]
          /\ taken' = none
        BY <1>4 DEF ResetMem
    <2>2. \A c, d \in Channels : none[c] = none[d]
        OBVIOUS
    <2> HIDE DEF none
    <2>3. st'.last_sample = none /\ st'.samp_frac_num = none /\ st'.magic_samples = none
        BY <2>1, StandTypes DEF States
    <2> QED
        BY <1>1, <2>1, <2>2, <2>3 DEF InStep, Stands
<1> QED
    BY <1>3, <1>4

(* Every step keeps the channels in step.                                  *)
LEMMA NextInStep == IInv /\ InStep /\ [Next]_vars => InStep'
<1> SUFFICES ASSUME IInv, InStep, [Next]_vars PROVE InStep'
    OBVIOUS
<1>1. CASE UNCHANGED vars
    <2>1. call' = call /\ Given' = Given /\ Local' = Local /\ \A c \in Channels : Stands(c)' = Stands(c)
        BY <1>1 DEF vars, Given, Local, Stands
    <2> HIDE DEF Given, Local, Stands
    <2> QED
        BY <2>1 DEF InStep, Ahead, Closed, Fresh
<1>2. ASSUME NEW kind \in {"float", "int"}, NEW ilen \in Chunks, NEW olen \in Chunks,
             Process(kind, ilen, olen)
      PROVE  InStep'
    BY <1>2, ProcessKeeps
<1>3. CASE RunMagic \/ RunChunk \/ Emit \/ Finish
    <2>1. Turned
        BY <1>3, RunMagicTurn, RunChunkTurn, EmitTurn, FinishTurn
    <2>2. call.pc # "idle"
        BY <1>3 DEF RunMagic, RunChunk, Emit, Finish, Running
    <2>3. call.chan \in Channels
        BY <2>2, CallTypes
    <2> QED
        BY <2>1, <2>3, TurnKeeps
<1>4. CASE NextChannel
    BY <1>4, NextChannelKeeps
<1>5. ASSUME NEW ratio \in Ratios, NEW refused \in Allocations, SetRate(ratio, refused)
      PROVE  InStep'
    BY <1>5, SetRateKeeps
<1>6. ASSUME NEW q \in Qualities, NEW refused \in Allocations, SetQuality(q, refused)
      PROVE  InStep'
    BY <1>6, SetQualityKeeps
<1>7. CASE SkipZeros \/ ResetMem
    BY <1>7, PlacedKeeps
<1> QED
    BY <1>1, <1>2, <1>3, <1>4, <1>5, <1>6, <1>7 DEF Next, Step

(* The channels of a resampler, which are worked on one after the other    *)
(* with the same buffers, have after each call used as much and stand at   *)
(* the same place, for any number of channels, also after a refused change *)
(* of rates (speex_resampler_process_interleaved_float relies on it,       *)
(* resample.c:1038).                                                       *)
THEOREM ChannelsKeepStep == Spec => []ChannelsInStep
<1>1. InStep => ChannelsInStep
    <2> SUFFICES ASSUME InStep, call = Idle, NEW c \in Channels, NEW d \in Channels
                 PROVE  /\ taken[c] = taken[d]
                        /\ st.last_sample[c] = st.last_sample[d]
                        /\ st.samp_frac_num[c] = st.samp_frac_num[d]
                        /\ st.magic_samples[c] = st.magic_samples[d]
        BY DEF ChannelsInStep
    <2> QED
        BY InStepIs DEF Even
<1>2. Init => InStep
    BY InitKeeps
<1>3. IInv /\ IInv' /\ InStep /\ [Next]_vars => InStep'
    BY NextInStep
<1> QED
    BY <1>1, <1>2, <1>3, Invariance, PTL DEF Spec
=============================================================================
