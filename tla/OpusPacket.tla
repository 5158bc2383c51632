----------------------------- MODULE OpusPacket -----------------------------
(***************************************************************************)
(* What the tools know of the inside of an Opus packet: the parser of      *)
(* diag_range.c, which also reads the self-delimited packets that a        *)
(* multistream packet is made of, the line that save_range makes of it,    *)
(* and the duration that info_opus.c works out.  Packets are sequences of  *)
(* bytes.  Laid(..) is how an encoder lays a packet out.                   *)
(***************************************************************************)
EXTENDS Integers, SequencesExt

Bad == [count |-> -1]

(* The flag bit of weight w of a byte.                                     *)
Bit(byte, w) == (byte \div w) % 2

-----------------------------------------------------------------------------
(* Durations, in samples at 48 kHz.                                        *)

SamplesPerFrame(toc) ==
    LET size == (toc \div 8) % 4 IN
    CASE toc >= 128 -> (48000 * 2^size) \div 400
      [] toc \in 96..127 -> IF Bit(toc, 8) = 1 THEN 960 ELSE 480
      [] OTHER -> IF size = 3 THEN 2880 ELSE (48000 * 2^size) \div 100

NbFrames(data) ==
    CASE data = <<>> -> -1
      [] data # <<>> /\ data[1] % 4 = 0 -> 1
      [] data # <<>> /\ data[1] % 4 \in {1, 2} -> 2
      [] data # <<>> /\ data[1] % 4 = 3 -> IF Len(data) < 2 THEN -4 ELSE data[2] % 64

-----------------------------------------------------------------------------
(* The parser.  p bytes are behind it, and len are thought to be ahead.    *)

(* Fault: a length has one byte.                                           *)
SizeAtOneByte(data, p, len) ==
    IF len < 1 THEN [bytes |-> -1, size |-> -1] ELSE [bytes |-> 1, size |-> data[p + 1]]

(* A length of one byte or of two.                                         *)
SizeAt(data, p, len) ==
    CASE len < 1 -> [bytes |-> -1, size |-> -1]
      [] len >= 1 /\ data[p + 1] < 252 -> [bytes |-> 1, size |-> data[p + 1]]
      [] len = 1 /\ data[p + 1] >= 252 -> [bytes |-> -1, size |-> -1]
      [] len > 1 /\ data[p + 1] >= 252 -> [bytes |-> 2, size |-> 4 * data[p + 2] + data[p + 1]]

(* The padding: each 255 stands for 254 bytes and goes on.                 *)
Padding(data, p, len) ==
    LET Ahead(j) == len - 255 * (j - 1)
        k == CHOOSE j \in 1..(len + 1) :
                /\ Ahead(j) <= 0 \/ data[p + j] # 255
                /\ \A i \in 1..(j - 1) : Ahead(i) > 0 /\ data[p + i] = 255
    IN  IF len <= 0 \/ Ahead(k) <= 0 THEN [bytes |-> 0, pad |-> -1]
        ELSE [bytes |-> k, pad |-> 254 * (k - 1) + data[p + k]]

(* Another length is read: r says where, and what is left for the frames   *)
(* to come.                                                                *)
SizeMore(data, r) ==
    LET s == SizeAt(data, r.p, r.len)
    IN  IF ~r.ok \/ s.size < 0 \/ s.size > r.len - s.bytes THEN [r EXCEPT !.ok = FALSE]
        ELSE [ok |-> TRUE, p |-> r.p + s.bytes, len |-> r.len - s.bytes,
              last |-> r.last - s.bytes - s.size, size |-> Append(r.size, s.size)]

(* n lengths one after the other.                                          *)
Sizes(data, p, len, n) ==
    LET read[i \in 0..n] ==
            IF i = 0 THEN [ok |-> TRUE, p |-> p, len |-> len, last |-> len, size |-> <<>>]
            ELSE SizeMore(data, read[i - 1])
    IN  read[n]

(* What the first bytes say, before the size of the last frame is known:   *)
(* the frames, whether they are of one size, the lengths read, and what is *)
(* left for the last one.                                                  *)
Frames(count, cbr, p, len, last, size, pad) ==
    [count |-> count, cbr |-> cbr, p |-> p, len |-> len, last |-> last,
     size |-> size, pad |-> pad]

(* Frames of one size.                                                     *)
Equal(selfDelimited, count, p, len, pad) ==
    CASE selfDelimited -> Frames(count, TRUE, p, len, len, <<>>, pad)
      [] ~selfDelimited /\ len % count = 0 ->
            Frames(count, TRUE, p, len, len \div count,
                   [i \in 1..(count - 1) |-> len \div count], pad)
      [] OTHER -> Bad

(* Frames of different sizes, after these were read.                       *)
Several(count, s, pad) ==
    IF ~s.ok \/ s.last < 0 THEN Bad
    ELSE Frames(count, FALSE, s.p, s.len, s.last, s.size, pad)

(* A packet that says how many frames it has, and perhaps its padding.     *)
Counted(data, selfDelimited, padding) ==
    LET head == data[2]
        count == head % 64
        p == 2 + padding.bytes
        len == Len(data) - p - padding.pad
    IN  CASE count = 0 \/ SamplesPerFrame(data[1]) * count > 5760 -> Bad
          [] padding.pad < 0 \/ len < 0 -> Bad
          [] OTHER -> IF head >= 128
                      THEN Several(count, Sizes(data, p, len, count - 1), padding.pad)
                      ELSE Equal(selfDelimited, count, p, len, padding.pad)

Layout(data, selfDelimited) ==
    LET len == Len(data) - 1 IN
    CASE data = <<>> -> Bad
      [] data # <<>> /\ data[1] % 4 = 0 -> Frames(1, FALSE, 1, len, len, <<>>, 0)
      [] data # <<>> /\ data[1] % 4 = 1 -> Equal(selfDelimited, 2, 1, len, 0)
      [] data # <<>> /\ data[1] % 4 = 2 -> Several(2, Sizes(data, 1, len, 1), 0)
      [] data # <<>> /\ data[1] % 4 = 3 ->
            IF len < 1 THEN Bad
            ELSE Counted(data, selfDelimited,
                         IF Bit(data[2], 64) = 1 THEN Padding(data, 2, len - 1)
                         ELSE [bytes |-> 0, pad |-> 0])

Sum(size) ==
    LET upTo[i \in 0..Len(size)] == IF i = 0 THEN 0 ELSE upTo[i - 1] + size[i]
    IN  upTo[Len(size)]

Parsed(l, size, payload) ==
    [count |-> l.count, size |-> size, payload |-> payload,
     packet |-> payload + Sum(size) + l.pad]

(* The last frame of a self-delimited packet, or all of one size, has its  *)
(* length before the frames.                                               *)
Delimited(l, own) ==
    IF \/ own.size < 0 \/ own.bytes + own.size > l.len
       \/ l.cbr /\ own.size * l.count > l.len - own.bytes
       \/ ~l.cbr /\ own.bytes + own.size > l.last
    THEN Bad
    ELSE Parsed(l, IF l.cbr THEN [i \in 1..l.count |-> own.size] ELSE Append(l.size, own.size),
                l.p + own.bytes)

(* The last frame of another packet is what is left.                       *)
Undelimited(l) == IF l.last > 1275 THEN Bad ELSE Parsed(l, Append(l.size, l.last), l.p)

Complete(data, selfDelimited, l) ==
    CASE l = Bad -> Bad
      [] l # Bad /\ selfDelimited -> Delimited(l, SizeAt(data, l.p, l.len))
      [] l # Bad /\ ~selfDelimited -> Undelimited(l)

Parse(data, selfDelimited) == Complete(data, selfDelimited, Layout(data, selfDelimited))

(* save_range: the streams of a packet, one after the other.  The next is  *)
(* added to the line r.                                                    *)
LineMore(packet, streams, i, r) ==
    LET d == SubSeq(packet, r.at + 1, Len(packet))
        q == Parse(d, i # streams)
    IN  [at |-> r.at + (IF q = Bad THEN 0 ELSE q.packet),
         line |-> Append(r.line, IF q = Bad THEN <<>> ELSE q.size)]

SaveRange(packet, streams) ==
    LET read[i \in 0..streams] ==
            IF i = 0 THEN [at |-> 0, line |-> <<>>] ELSE LineMore(packet, streams, i, read[i - 1])
    IN  read[streams]

-----------------------------------------------------------------------------
(* How an encoder writes a stream of a packet: its frames have these sizes.*)

LengthBytes(n) ==
    IF n < 252 THEN <<n>> ELSE <<252 + (n % 4), (n - 252 - (n % 4)) \div 4>>

Filled(n, byte) == [i \in 1..n |-> byte]

(* In front of the frames, but for the length of the last one.             *)
Lead(s) ==
    LET toc == 8 * s.config + s.code
        head == Len(s.size) + 64 * (IF s.pad >= 0 THEN 1 ELSE 0) + 128 * (IF s.vbr THEN 1 ELSE 0)
        padding == IF s.pad < 0 THEN <<>>
                   ELSE Append(Filled(s.pad \div 254, 255), s.pad % 254)
        lengths == FlattenSeq([i \in 1..(Len(s.size) - 1) |-> LengthBytes(s.size[i])])
    IN  CASE s.code \in {0, 1} -> <<toc>>
          [] s.code = 2 -> <<toc>> \o lengths
          [] s.code = 3 -> <<toc, head>> \o padding \o (IF s.vbr THEN lengths ELSE <<>>)

(* Behind the frames.                                                      *)
PadOf(s) == IF s.code = 3 /\ s.pad > 0 THEN s.pad ELSE 0

Laid(s, selfDelimited) ==
    Lead(s) \o (IF selfDelimited THEN LengthBytes(s.size[Len(s.size)]) ELSE <<>>)
    \o Filled(Sum(s.size), 255) \o Filled(PadOf(s), 0)

FrameSize == 0..1275

InTime(s) == ~(SamplesPerFrame(8 * s.config + s.code) * Len(s.size) > 5760)

(* What the format allows: frames of these sizes and of 120 ms in all, and *)
(* of one size where they have no lengths of their own.                    *)
Allowed(s) ==
    /\ s.config \in 0..31 /\ s.code \in 0..3 /\ s.vbr \in BOOLEAN /\ s.pad \in Nat \cup {-1}
    /\ s.size \in Seq(FrameSize) /\ Len(s.size) \in 1..48
    /\ InTime(s)
    /\ s.code = 0 => Len(s.size) = 1
    /\ s.code \in {1, 2} => Len(s.size) = 2
    /\ s.code = 1 \/ (s.code = 3 /\ ~s.vbr) =>
          \A i \in 1..Len(s.size) : s.size[i] = s.size[1]

Multistream(streams) ==
    FlattenSeq([i \in 1..Len(streams) |-> Laid(streams[i], i # Len(streams))])
=============================================================================
