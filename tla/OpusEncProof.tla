---------------------------- MODULE OpusEncProof -----------------------------
(***************************************************************************)
(* Theorems about OpusEnc with the readers of AudioIn, for any files,      *)
(* command lines, requests of libFLAC and packets, which its parser reads  *)
(* as they were laid out.  And, at the end, about OpusInfo, which checks   *)
(* Ogg files: what a damaged one lost is warned of.                        *)
(***************************************************************************)
EXTENDS OpusEnc, OpusInfo, SequenceTheorems, WellFoundedInduction, TLAPS

(* What the readers deliver: samples of a file of bytes, or what libFLAC   *)
(* decodes.                                                                *)
PcmInput == command.raw \/ file.kind \in {"wav", "aiff"}
FlacInput == file.kind \in {"flac", "oggflac"}

Run ==
    /\ command \in Commands /\ file \in Files /\ seekable \in BOOLEAN
    /\ command.raw => file.kind = "raw"
    /\ pc \in {"identify", "find", "format", "data", "metadata", "decide", "configure",
               "read", "encode", "drain", "close", "done", "fatal", "refused"}
    /\ pc \notin {"identify", "refused"} => PcmInput \/ FlacInput
    /\ pos \in Nat /\ channels \in Nat

Early == {"identify", "find", "format", "data", "metadata", "refused"}

(* Nothing is opened before the headers have been read.                    *)
NotOpen ==
    pc \in Early =>
        /\ stack = <<>> /\ channels = 0 /\ downmix = 0 /\ freed = <<>>
        /\ wanted = 0 /\ input = <<>> /\ fed = <<>>
        /\ pc = "identify" => pos = 0 /\ ~restarted

(* Which reader there is.                                                  *)
Kinds ==
    /\ reader.kind = "flac" => FlacInput /\ pc \notin {"identify", "refused"}
    /\ reader.kind = "wav" => PcmInput /\ pc \notin Early
    /\ pc = "metadata" => reader.kind = "flac"

(* The reader, and perhaps what mixes down on top of it.                   *)
Base == IF PcmInput THEN "wav" ELSE "flac"

Stacked ==
    pc \notin Early \cup {"done"} =>
        \/ downmix = 0 /\ stack = <<Base>>
        \/ downmix \in Nat \ {0} /\ stack = <<"mix", Base>> /\ pc # "decide"

-----------------------------------------------------------------------------
(* The headers of a file of chunks.                                        *)

AtChunk ==
    /\ found \in 1..Len(file.chunks) /\ file.chunks[found].id = want
    /\ pos = Start(found) + 8 /\ pos <= file.size

HeadRead ==
    \E f \in 1..Len(file.chunks) :
        /\ file.chunks[f].id = FormatChunk /\ head = file.chunks[f]
        /\ FormatAccepted(head, Least(head.len, IF file.kind = "wav" THEN 40 ELSE 22))

Walk ==
    pc \in {"find", "format", "data"} =>
        /\ ~command.raw /\ file.kind \in {"wav", "aiff"} /\ pos \in Nat
        /\ want \in {FormatChunk, DataChunk}
        /\ pc = "format" => want = FormatChunk /\ AtChunk
        /\ pc = "data" => want = DataChunk /\ AtChunk
        /\ want = DataChunk => HeadRead

-----------------------------------------------------------------------------
(* The samples.                                                            *)

Refused24 == command.raw /\ command.bits = 24 /\ command.big
GoodFrames == {k \in 0..Len(file.frames) : \A i \in 1..k : Good(i)}

(* How many samples the source has, and their names.                       *)
Total ==
    IF PcmInput THEN IF Refused24 THEN 0 ELSE Min(Promised \cup {Max(There)})
    ELSE Before(Max(GoodFrames) + 1)

Name(i) == IF PcmInput THEN FirstByte + (i - 1) * SampleBytes ELSE i

(* Samples from one of them on.                                            *)
From(k, n) == [i \in 1..n |-> Name(k + i)]

Taken == Len(fed) + Len(input)

Feeding ==
    pc \notin Early =>
        /\ Len(fed) \in Nat /\ Len(input) \in Nat /\ Total \in Nat /\ Taken <= Total
        /\ fed = From(0, Len(fed)) /\ input = From(Len(fed), Len(input))
        /\ pc \in {"decide", "configure"} => Taken = 0 /\ wanted = 0
        /\ pc = "read" => wanted \in Nat /\ Len(input) + wanted = command.frame
        /\ pc = "encode" => /\ Len(input) <= command.frame
                            /\ Len(input) < command.frame => Taken = Total
        /\ pc \in {"drain", "close", "done"} => Len(input) = 0 /\ Taken = Total
        /\ wanted \in Nat /\ Len(input) + wanted <= command.frame

(* A reader of bytes stands behind the samples that were taken, unless the *)
(* first of them would be past the end.                                    *)
Placed ==
    \/ pos = FirstByte + Taken * SampleBytes
    \/ Taken = 0 /\ pos >= file.size /\ FirstByte > file.size

PcmReading ==
    pc \notin Early /\ PcmInput =>
        /\ DOMAIN reader = {"kind", "bits", "bytes", "total", "read", "big"}
        /\ reader.kind = "wav" /\ reader.bytes = SampleBytes
        /\ SampleBytes \in Nat \ {0} /\ FirstByte \in Nat /\ pos \in Nat
        /\ reader.total \in Nat /\ reader.read \in Nat
        /\ reader.total > 0 => reader.read <= reader.total
        /\ Promised = IF reader.total > 0 THEN {reader.total} ELSE {}
        /\ Unsupported <=> Refused24
        /\ pc = "read" => input = <<>>
        /\ \/ pc \in {"decide", "configure", "read"}
           \/ pc = "encode" /\ Len(input) = command.frame
           => Placed /\ reader.read = Taken

(* libFLAC has been given the file up to where it is read, but for the     *)
(* bytes that identified it.                                               *)
FlacGiven ==
    /\ DOMAIN reader = {"kind", "buflen", "bufpos", "given", "inOrder", "eof", "next",
                        "max", "block", "blockpos"}
    /\ reader.kind = "flac" /\ reader.eof \in BOOLEAN
    /\ reader.buflen \in 1..33 /\ reader.bufpos \in {0, reader.buflen}
    /\ pos \in Nat /\ pos <= file.size
    /\ reader.bufpos = 0 => reader.given = 0 /\ pos = reader.buflen
    /\ reader.bufpos # 0 => reader.given = pos
    /\ reader.inOrder
    /\ reader.eof => reader.bufpos # 0 /\ pos = file.size

FlacReading ==
    FlacInput /\ pc \notin {"identify", "refused"} =>
        /\ FlacGiven
        /\ pc = "metadata" =>
              /\ reader.next = 1 /\ reader.block = <<>> /\ reader.blockpos = 0 /\ reader.max = 0
              /\ reader.eof => reader.given < file.metadata
        /\ pc # "metadata" =>
              /\ reader.max = file.max
              /\ reader.next \in 1..(Len(file.frames) + 1)
              /\ \A i \in 1..(reader.next - 1) : Good(i)
              /\ Len(reader.block) \in Nat /\ Len(reader.block) <= reader.max
              /\ reader.blockpos \in 0..Len(reader.block)
              /\ Before(reader.next) \in Nat
              /\ Len(reader.block) <= Before(reader.next)
              /\ reader.block = [i \in 1..Len(reader.block) |->
                                    Before(reader.next) - Len(reader.block) + i]
              /\ Taken + Len(reader.block) - reader.blockpos = Before(reader.next)

-----------------------------------------------------------------------------
(* A file that can be read is not refused.                                 *)

FormatAt == First(FormatChunk)
DataAt == First(DataChunk)

(* The walk is at a chunk no later than k.                                 *)
Before1(k) == \E i \in 1..k : pos = Start(i)

OnTheWay ==
    /\ pc = "find" /\ want = FormatChunk => Before1(FormatAt)
    /\ pc = "find" /\ want = DataChunk /\ FormatAt < DataAt => \E i \in (FormatAt + 1)..DataAt : pos = Start(i)
    /\ pc = "find" /\ want = DataChunk /\ DataAt < FormatAt =>
          seekable /\ file.kind = "aiff" /\ (restarted => Before1(DataAt))
    /\ pc \in {"find", "format"} /\ want = FormatChunk => ~restarted

NotLost == ~command.raw /\ Readable => pc # "refused" /\ (PcmInput => OnTheWay)

IInv ==
    /\ Run /\ NotOpen /\ Kinds /\ Stacked /\ Walk /\ Feeding /\ PcmReading /\ FlacReading /\ NotLost
    /\ pc = "refused" => ~command.raw
    /\ ClosesAll
-----------------------------------------------------------------------------
(* Recursion.                                                              *)

(* A value for each place, made of the one before by step.                 *)
Runs(T, base, step, n, f) ==
    /\ f \in [0..n -> T] /\ f[0] = base
    /\ \A i \in 1..n : f[i] = step[<<i, f[i - 1]>>]

(* A set of numbers that is not empty has a least one.                     *)
LEMMA Smallest ==
    ASSUME NEW T, T \subseteq Nat, T # {}
    PROVE  \E m \in T : \A n \in T : m <= n
<1>1. PICK m \in T : \A n \in T : <<n, m>> \notin OpToRel(<, Nat)
    BY NatLessThanWellFounded, WFMin
<1>2. ASSUME NEW n \in T PROVE m <= n
    <2>1. n \in Nat /\ m \in Nat
        OBVIOUS
    <2>2. <<n, m>> \notin {ss \in Nat \X Nat : ss[1] < ss[2]}
        BY <1>1 DEF OpToRel
    <2> QED
        BY <2>1, <2>2
<1> QED
    BY <1>2

(* A recursion along the natural numbers has a result: there is no first   *)
(* length for which it has none.                                           *)
LEMMA RunExists ==
    ASSUME NEW T, NEW base \in T, NEW N \in Nat, NEW step \in [(1..N) \X T -> T]
    PROVE  \E f : Runs(T, base, step, N, f)
<1> DEFINE Reached(n) == \E f : Runs(T, base, step, n, f)
           Missed == {n \in 0..N : ~Reached(n)}
<1>1. Reached(0)
    <2>1. Runs(T, base, step, 0, [i \in 0..0 |-> base])
        BY DEF Runs
    <2> QED
        BY <2>1
<1>2. ASSUME NEW n \in 1..N, Reached(n - 1) PROVE Reached(n)
    <2>1. PICK f : Runs(T, base, step, n - 1, f)
        BY <1>2
    <2>2. f \in [0..(n - 1) -> T] /\ f[0] = base /\ \A i \in 1..(n - 1) : f[i] = step[<<i, f[i - 1]>>]
        BY <2>1 DEF Runs
    <2> DEFINE last == step[<<n, f[n - 1]>>]
               g == [i \in 0..n |-> IF i = n THEN last ELSE f[i]]
    <2>3. n - 1 \in 0..(n - 1)
        OBVIOUS
    <2>4. f[n - 1] \in T
        BY <2>2, <2>3
    <2>5. <<n, f[n - 1]>> \in (1..N) \X T
        BY <2>4
    <2>6. last \in T
        BY <2>5
    <2> HIDE DEF last
    <2>7. \A i \in 0..n : i # n => i \in 0..(n - 1)
        OBVIOUS
    <2>8. g \in [0..n -> T]
        BY <2>2, <2>6, <2>7
    <2>9. g[0] = base
        BY <2>2
    <2>10. ASSUME NEW i \in 1..n PROVE g[i] = step[<<i, g[i - 1]>>]
        <3>1. i - 1 \in 0..n /\ i - 1 # n /\ i \in 0..n
            OBVIOUS
        <3>2. g[i - 1] = f[i - 1]
            BY <3>1
        <3>3. CASE i = n
            BY <3>1, <3>2, <3>3 DEF last
        <3>4. CASE i # n
            <4>1. i \in 1..(n - 1)
                BY <3>4
            <4> QED
                BY <3>1, <3>2, <3>4, <4>1, <2>2
        <3> QED
            BY <3>3, <3>4
    <2>11. Runs(T, base, step, n, g)
        BY <2>8, <2>9, <2>10 DEF Runs
    <2> QED
        BY <2>11
<1>3. ASSUME Missed # {} PROVE FALSE
    <2>1. PICK n \in Missed : \A m \in Missed : n <= m
        <3>1. Missed \subseteq Nat
            OBVIOUS
        <3> HIDE DEF Missed
        <3> QED
            BY <1>3, <3>1, Smallest
    <2>2. n \in 0..N /\ ~Reached(n)
        OBVIOUS
    <2> HIDE DEF Reached
    <2>3. n \in 1..N
        BY <1>1, <2>2
    <2>4. n - 1 \in 0..N /\ ~(n <= n - 1)
        BY <2>3
    <2>5. Reached(n - 1)
        BY <2>1, <2>4
    <2> QED
        BY <1>2, <2>2, <2>3, <2>5
<1>4. Reached(N)
    <2> HIDE DEF Reached
    <2> QED
        BY <1>3
<1> QED
    BY <1>4

Agree(T, n, step, other) == \A i \in 1..n, x \in T : step[<<i, x>>] = other[<<i, x>>]

(* Two results are the same as far as the steps are.                       *)
LEMMA RunUnique ==
    ASSUME NEW T, NEW base, NEW m \in Nat, NEW n \in Nat, m <= n,
           NEW step, NEW other, NEW f, NEW g, Agree(T, m, step, other),
           Runs(T, base, step, m, f), Runs(T, base, other, n, g)
    PROVE  \A i \in 0..m : f[i] = g[i]
<1> DEFINE Wrong == {i \in 0..m : f[i] # g[i]}
<1>1. /\ f \in [0..m -> T] /\ f[0] = base /\ \A i \in 1..m : f[i] = step[<<i, f[i - 1]>>]
      /\ g \in [0..n -> T] /\ g[0] = base /\ \A i \in 1..n : g[i] = other[<<i, g[i - 1]>>]
    BY DEF Runs
<1>2. ASSUME Wrong # {} PROVE FALSE
    <2>1. PICK i \in Wrong : \A j \in Wrong : i <= j
        <3>1. Wrong \subseteq Nat
            OBVIOUS
        <3> HIDE DEF Wrong
        <3> QED
            BY <1>2, <3>1, Smallest
    <2>2. i \in 1..m /\ i \in 1..n /\ f[i] # g[i]
        BY <1>1
    <2>3. i - 1 \in 0..m /\ ~(i <= i - 1)
        BY <2>2
    <2>4. f[i - 1] = g[i - 1]
        BY <2>1, <2>3
    <2>5. f[i - 1] \in T
        BY <1>1, <2>3
    <2>6. f[i] = step[<<i, f[i - 1]>>] /\ g[i] = other[<<i, g[i - 1]>>]
        BY <1>1, <2>2
    <2> QED
        BY <2>2, <2>4, <2>5, <2>6 DEF Agree
<1> QED
    BY <1>2

-----------------------------------------------------------------------------
(* Where the chunks of a file are.                                         *)

(* The file has chunks, and their sizes are numbers.                       *)
InChunks == Run /\ file.kind \in {"wav", "aiff"}

LEMMA ChunkTypes ==
    ASSUME InChunks
    PROVE  /\ file.size \in Nat /\ Len(file.chunks) \in Nat
           /\ \A i \in 1..Len(file.chunks) :
                 /\ file.chunks[i].len \in Nat /\ file.chunks[i].body \in Nat
                 /\ Padded(file.chunks[i].len) \in Nat /\ Padded(file.chunks[i].body) \in Nat
                 /\ file.chunks[i].len <= Padded(file.chunks[i].len)
<1>1. /\ file.size \in Nat /\ Len(file.chunks) \in Nat
      /\ \A i \in 1..Len(file.chunks) :
            file.chunks[i].len \in Nat /\ file.chunks[i].body \in Nat
    BY FilesAssumption DEF InChunks, Run
<1>2. \A n \in Nat : Padded(n) \in Nat /\ n <= Padded(n)
    BY DEF Padded
<1> QED
    BY <1>1, <1>2

(* The first chunk is behind the head of the file, and the others follow   *)
(* each other.                                                             *)
LEMMA StartIs ==
    ASSUME InChunks
    PROVE  /\ \A i \in 1..Len(file.chunks) : Start(i) \in Nat
           /\ 1 <= Len(file.chunks) => Start(1) = 12
           /\ \A i \in 1..Len(file.chunks) :
                 i # 1 => Start(i) = Start(i - 1) + 8 + Padded(file.chunks[i - 1].body)
<1> DEFINE N == Len(file.chunks)
           G(t) == [j \in 1..N |->
                       IF j = 1 THEN 12 ELSE t[j - 1] + 8 + Padded(file.chunks[j - 1].body)]
           start == CHOOSE t : t = G(t)
           step == [x \in (1..N) \X Nat |->
                       IF x[1] = 1 THEN 12 ELSE x[2] + 8 + Padded(file.chunks[x[1] - 1].body)]
<1>1. N \in Nat /\ \A i \in 1..N : Padded(file.chunks[i].body) \in Nat
    BY ChunkTypes
<1>2. step \in [(1..N) \X Nat -> Nat]
    <2> SUFFICES ASSUME NEW i \in 1..N, NEW n \in Nat PROVE step[<<i, n>>] \in Nat
        OBVIOUS
    <2>1. i # 1 => i - 1 \in 1..N
        BY <1>1
    <2>2. <<i, n>> \in (1..N) \X Nat
        OBVIOUS
    <2>3. step[<<i, n>>] = IF i = 1 THEN 12 ELSE n + 8 + Padded(file.chunks[i - 1].body)
        BY <2>2
    <2>4. i # 1 => Padded(file.chunks[i - 1].body) \in Nat
        BY <1>1, <2>1
    <2> HIDE DEF step
    <2> QED
        BY <2>3, <2>4
<1>3. PICK f : Runs(Nat, 0, step, N, f)
    <2> HIDE DEF step, N
    <2> QED
        BY <1>1, <1>2, RunExists
<1>4. f \in [0..N -> Nat] /\ \A i \in 1..N : f[i] = step[<<i, f[i - 1]>>]
    BY <1>3 DEF Runs
<1>5. ASSUME NEW i \in 1..N
      PROVE  f[i] = IF i = 1 THEN 12 ELSE f[i - 1] + 8 + Padded(file.chunks[i - 1].body)
    <2>1. i - 1 \in 0..N
        BY <1>1
    <2>2. <<i, f[i - 1]>> \in (1..N) \X Nat
        BY <1>4, <2>1
    <2> QED
        BY <1>4, <2>2
<1> DEFINE g == [j \in 1..N |-> f[j]]
<1>6. g = G(g)
    <2>1. ASSUME NEW i \in 1..N PROVE g[i] = G(g)[i]
        <3>1. i # 1 => i - 1 \in 1..N
            BY <1>1
        <3> QED
            BY <1>5, <3>1
    <2> HIDE DEF G
    <2>2. G(g) = [i \in 1..N |-> G(g)[i]]
        BY DEF G
    <2> QED
        BY <2>1, <2>2
<1>7. start = G(start)
    <2> HIDE DEF G, g
    <2> QED
        BY <1>6
<1>8. \A i : Start(i) = start[i]
    BY DEF Start
<1> HIDE DEF start
<1>9. \A i \in 1..N : start[i] = IF i = 1 THEN 12
                                ELSE start[i - 1] + 8 + Padded(file.chunks[i - 1].body)
    BY <1>7
<1>10. \A i \in 1..N : start[i] \in Nat
    <2> DEFINE Wrong == {i \in 1..N : start[i] \notin Nat}
    <2> SUFFICES ASSUME Wrong # {} PROVE FALSE
        OBVIOUS
    <2>1. PICK i \in Wrong : \A j \in Wrong : i <= j
        <3>1. Wrong \subseteq Nat
            OBVIOUS
        <3> HIDE DEF Wrong
        <3> QED
            BY <3>1, Smallest
    <2>2. i \in 1..N /\ start[i] \notin Nat /\ i # 1
        BY <1>9
    <2>3. i - 1 \in 1..N /\ ~(i <= i - 1)
        BY <1>1, <2>2
    <2>4. start[i - 1] \in Nat
        BY <2>1, <2>3
    <2>5. Padded(file.chunks[i - 1].body) \in Nat
        BY <1>1, <2>3
    <2>6. start[i] = start[i - 1] + 8 + Padded(file.chunks[i - 1].body)
        BY <1>9, <2>2
    <2> QED
        BY <2>2, <2>4, <2>5, <2>6
<1>11. N >= 1 => 1 \in 1..N
    BY <1>1
<1>12. N >= 1 => start[1] = 12
    BY <1>9, <1>11
<1>13. \A i \in 1..N : i # 1 => start[i] = start[i - 1] + 8 + Padded(file.chunks[i - 1].body)
    BY <1>9
<1> QED
    BY <1>8, <1>10, <1>12, <1>13

(* A later chunk is further on, by more than the head of the earlier one.  *)
LEMMA StartGrows ==
    ASSUME InChunks, NEW i \in 1..Len(file.chunks), NEW j \in 1..Len(file.chunks), i < j
    PROVE  Start(i) + 8 + Padded(file.chunks[i].body) <= Start(j)
<1> DEFINE N == Len(file.chunks)
           Wrong == {k \in 1..N : i < k /\ ~(Start(i) + 8 + Padded(file.chunks[i].body) <= Start(k))}
<1>1. /\ N \in Nat /\ \A k \in 1..N : Start(k) \in Nat /\ Padded(file.chunks[k].body) \in Nat
      /\ \A k \in 1..N : k # 1 => Start(k) = Start(k - 1) + 8 + Padded(file.chunks[k - 1].body)
    BY ChunkTypes, StartIs
<1>2. ASSUME Wrong # {} PROVE FALSE
    <2>1. PICK k \in Wrong : \A l \in Wrong : k <= l
        <3>1. Wrong \subseteq Nat
            OBVIOUS
        <3> HIDE DEF Wrong
        <3> QED
            BY <1>2, <3>1, Smallest
    <2>2. k \in 1..N /\ i < k /\ ~(Start(i) + 8 + Padded(file.chunks[i].body) <= Start(k))
        OBVIOUS
    <2>3. k - 1 \in 1..N /\ ~(k <= k - 1) /\ k # 1
        BY <1>1, <2>2
    <2>4. Start(k) = Start(k - 1) + 8 + Padded(file.chunks[k - 1].body)
        BY <1>1, <2>2, <2>3
    <2>5. CASE k - 1 = i
        BY <1>1, <2>2, <2>4, <2>5
    <2>6. CASE k - 1 # i
        <3>1. i < k - 1 /\ k - 1 \notin Wrong
            BY <1>1, <2>1, <2>2, <2>3, <2>6
        <3>2. Start(i) + 8 + Padded(file.chunks[i].body) <= Start(k - 1)
            BY <2>3, <3>1
        <3>3. /\ {Start(i), Start(k - 1), Padded(file.chunks[i].body),
                  Padded(file.chunks[k - 1].body)} \subseteq Nat
            BY <1>1, <2>3
        <3> HIDE DEF Wrong, N
        <3> QED
            BY <2>2, <2>4, <3>2, <3>3
    <2> QED
        BY <2>5, <2>6
<1> QED
    BY <1>2

(* At the start of a chunk there is no other.                              *)
LEMMA HeaderAtStart ==
    ASSUME InChunks, NEW i \in 1..Len(file.chunks)
    PROVE  HeaderAt(Start(i)) = {i}
<1>1. ASSUME NEW j \in 1..Len(file.chunks), Start(j) = Start(i) PROVE j = i
    <2>1. \A k \in 1..Len(file.chunks) : Start(k) \in Nat /\ Padded(file.chunks[k].body) \in Nat
        BY ChunkTypes, StartIs
    <2>2. i \in Nat /\ j \in Nat
        BY ChunkTypes
    <2>3. CASE i < j
        BY <1>1, <2>1, <2>3, StartGrows
    <2>4. CASE j < i
        BY <1>1, <2>1, <2>4, StartGrows
    <2> QED
        BY <2>2, <2>3, <2>4
<1> QED
    BY <1>1 DEF HeaderAt

-----------------------------------------------------------------------------
(* The frames of a FLAC file.                                              *)

InFrames == Run /\ FlacInput

LEMMA FrameTypes ==
    ASSUME InFrames
    PROVE  /\ ~PcmInput /\ file.size \in Nat /\ file.metadata \in Nat
           /\ file.channels \in Nat /\ file.max \in Nat /\ Len(file.frames) \in Nat
           /\ \A i \in 1..Len(file.frames) :
                 /\ file.frames[i].end \in Nat /\ file.frames[i].size \in Nat
                 /\ file.frames[i].bits \in 1..32
<1>1. file \in Files /\ file.kind \in {"flac", "oggflac"} /\ ~command.raw
    BY DEF InFrames, Run, FlacInput
<1> QED
    BY <1>1, FilesAssumption DEF PcmInput

(* The samples before a frame are those of the frames before it.           *)
LEMMA BeforeIs ==
    ASSUME InFrames
    PROVE  /\ \A k \in 1..(Len(file.frames) + 1) : Before(k) \in Nat
           /\ Before(1) = 0
           /\ \A k \in 1..Len(file.frames) : Before(k + 1) = Before(k) + file.frames[k].size
<1> DEFINE N == Len(file.frames)
           G(t) == [i \in 0..N |-> IF i = 0 THEN 0 ELSE t[i - 1] + file.frames[i].size]
           before == CHOOSE t : t = G(t)
           step == [x \in (1..N) \X Nat |-> x[2] + file.frames[x[1]].size]
<1>1. N \in Nat /\ \A i \in 1..N : file.frames[i].size \in Nat
    BY FrameTypes
<1>2. step \in [(1..N) \X Nat -> Nat]
    BY <1>1
<1>3. PICK f : Runs(Nat, 0, step, N, f)
    <2> HIDE DEF step, N
    <2> QED
        BY <1>1, <1>2, RunExists
<1>4. f \in [0..N -> Nat] /\ f[0] = 0 /\ \A i \in 1..N : f[i] = step[<<i, f[i - 1]>>]
    BY <1>3 DEF Runs
<1>5. ASSUME NEW i \in 1..N PROVE f[i] = f[i - 1] + file.frames[i].size
    <2>1. i - 1 \in 0..N
        BY <1>1
    <2>2. <<i, f[i - 1]>> \in (1..N) \X Nat
        BY <1>4, <2>1
    <2> QED
        BY <1>4, <2>2
<1>6. f = G(f)
    <2>1. ASSUME NEW i \in 0..N PROVE f[i] = G(f)[i]
        <3>1. i = 0 \/ i \in 1..N
            BY <1>1
        <3> QED
            BY <1>4, <1>5, <3>1
    <2> HIDE DEF G
    <2>2. G(f) = [i \in 0..N |-> G(f)[i]]
        BY DEF G
    <2> QED
        BY <1>4, <2>1, <2>2
<1>7. before = G(before)
    <2> HIDE DEF G
    <2> QED
        BY <1>6
<1>8. \A k : Before(k) = before[k - 1]
    BY DEF Before
<1> HIDE DEF before
<1>9. before[0] = 0 /\ \A i \in 1..N : before[i] = before[i - 1] + file.frames[i].size
    <2>1. \A i \in 0..N : before[i] = IF i = 0 THEN 0 ELSE before[i - 1] + file.frames[i].size
        BY <1>7
    <2>2. 0 \in 0..N /\ \A i \in 1..N : i \in 0..N /\ i # 0
        BY <1>1
    <2> HIDE DEF G, N
    <2> QED
        BY <2>1, <2>2
<1>10. \A i \in 0..N : before[i] \in Nat
    <2> DEFINE Wrong == {i \in 0..N : before[i] \notin Nat}
    <2> SUFFICES ASSUME Wrong # {} PROVE FALSE
        OBVIOUS
    <2>1. PICK i \in Wrong : \A j \in Wrong : i <= j
        <3>1. Wrong \subseteq Nat
            OBVIOUS
        <3> HIDE DEF Wrong
        <3> QED
            BY <3>1, Smallest
    <2>2. i \in 1..N /\ before[i] \notin Nat
        BY <1>1, <1>9
    <2>3. i - 1 \in 0..N /\ ~(i <= i - 1)
        BY <1>1, <2>2
    <2>4. before[i - 1] \in Nat
        BY <2>1, <2>3
    <2> QED
        BY <1>1, <1>9, <2>2, <2>4, SMTT(30)
<1>11. ASSUME NEW k \in 1..(N + 1) PROVE Before(k) \in Nat
    <2>1. k - 1 \in 0..N
        BY <1>1
    <2> QED
        BY <1>8, <1>10, <2>1
<1>12. Before(1) = 0
    <2>1. 1 - 1 = 0
        OBVIOUS
    <2> QED
        BY <1>8, <1>9, <2>1
<1>13. ASSUME NEW k \in 1..N PROVE Before(k + 1) = Before(k) + file.frames[k].size
    <2>1. (k + 1) - 1 = k
        BY <1>1
    <2> QED
        BY <1>8, <1>9, <2>1
<1> QED
    BY <1>11, <1>12, <1>13

(* A later frame has more samples before it.                               *)
LEMMA BeforeGrows ==
    ASSUME InFrames, NEW i \in 1..(Len(file.frames) + 1), NEW j \in 1..(Len(file.frames) + 1), i <= j
    PROVE  Before(i) <= Before(j)
<1> DEFINE N == Len(file.frames)
           Wrong == {k \in 1..(N + 1) : i <= k /\ ~(Before(i) <= Before(k))}
<1>1. /\ N \in Nat /\ \A k \in 1..(N + 1) : Before(k) \in Nat
      /\ \A k \in 1..N : file.frames[k].size \in Nat
      /\ \A k \in 1..N : Before(k + 1) = Before(k) + file.frames[k].size
    BY FrameTypes, BeforeIs
<1>2. ASSUME Wrong # {} PROVE FALSE
    <2>1. PICK k \in Wrong : \A l \in Wrong : k <= l
        <3>1. Wrong \subseteq Nat
            OBVIOUS
        <3> HIDE DEF Wrong
        <3> QED
            BY <1>2, <3>1, Smallest
    <2>2. k \in 1..(N + 1) /\ i <= k /\ ~(Before(i) <= Before(k))
        OBVIOUS
    <2>3. k # i
        BY <1>1, <2>2
    <2>4. k - 1 \in 1..N /\ k - 1 \in 1..(N + 1) /\ ~(k <= k - 1) /\ i <= k - 1
        BY <1>1, <2>2, <2>3
    <2>5. Before(i) <= Before(k - 1)
        <3>1. k - 1 \notin Wrong
            BY <2>1, <2>4
        <3> QED
            BY <2>4, <3>1
    <2>6. Before(k) = Before(k - 1) + file.frames[k - 1].size
        <3>1. (k - 1) + 1 = k
            BY <1>1, <2>2
        <3> QED
            BY <1>1, <2>4, <3>1
    <2>7. {Before(i), Before(k), Before(k - 1), file.frames[k - 1].size} \subseteq Nat
        BY <1>1, <2>2, <2>4
    <2> HIDE DEF Wrong, N
    <2> QED
        BY <2>2, <2>5, <2>6, <2>7
<1> QED
    BY <1>2

(* The frames that can be decoded, and how many samples they have.         *)
LEMMA LastGood ==
    ASSUME InFrames
    PROVE  \E g \in GoodFrames :
               /\ g \in 0..Len(file.frames) /\ \A i \in 1..g : Good(i)
               /\ g < Len(file.frames) => ~Good(g + 1)
               /\ Max(GoodFrames) = g
<1> DEFINE N == Len(file.frames)
           Wrong == {k \in 1..N : ~Good(k)}
<1>1. N \in Nat
    BY FrameTypes
<1>2. \E g \in 0..N : (\A i \in 1..g : Good(i)) /\ (g < N => ~Good(g + 1))
    <2>1. CASE Wrong = {}
        BY <1>1, <2>1
    <2>2. CASE Wrong # {}
        <3>1. PICK k \in Wrong : \A l \in Wrong : k <= l
            <4>1. Wrong \subseteq Nat
                OBVIOUS
            <4> HIDE DEF Wrong
            <4> QED
                BY <2>2, <4>1, Smallest
        <3>2. k - 1 \in 0..N /\ (k - 1) + 1 = k /\ ~Good(k)
            BY <1>1
        <3>3. \A i \in 1..(k - 1) : Good(i)
            BY <1>1, <3>1
        <3> QED
            BY <3>2, <3>3
    <2> QED
        BY <2>1, <2>2
<1>3. PICK g \in 0..N : (\A i \in 1..g : Good(i)) /\ (g < N => ~Good(g + 1))
    BY <1>2
<1>4. g \in GoodFrames /\ GoodFrames \subseteq Int
    BY <1>3 DEF GoodFrames
<1>5. ASSUME NEW h \in GoodFrames PROVE g >= h
    <2>1. h \in 0..N /\ \A i \in 1..h : Good(i)
        BY DEF GoodFrames
    <2> QED
        BY <1>1, <1>3, <2>1
<1>6. Max(GoodFrames) = g
    <2>1. \A x \in GoodFrames : (\A y \in GoodFrames : x >= y) => x = g
        BY <1>4, <1>5
    <2> QED
        BY <1>4, <1>5, <2>1 DEF Max
<1> QED
    BY <1>3, <1>4, <1>6

-----------------------------------------------------------------------------
(* The samples of the source.                                              *)

(* The whole samples behind the first byte.                                *)
Fits == IF FirstByte <= file.size THEN (file.size - FirstByte) \div SampleBytes ELSE 0

Measured == SampleBytes \in Nat \ {0} /\ FirstByte \in Nat /\ file.size \in Nat

(* A quotient, and what lies below the next multiple.                      *)
LEMMA DivBounds ==
    ASSUME NEW a \in Nat, NEW b \in Nat \ {0}
    PROVE  /\ a \div b \in Nat /\ (a \div b) * b <= a /\ a \div b <= a
           /\ a < (a \div b) * b + b
OBVIOUS

LEMMA TimesLess ==
    ASSUME NEW a \in Int, NEW b \in Int, NEW c \in Nat \ {0}, a * c < b * c
    PROVE  a < b
OBVIOUS

LEMMA Distributes ==
    ASSUME NEW a \in Int, NEW b \in Int, NEW c \in Int
    PROVE  (a + b) * c = a * c + b * c /\ (a - b) * c = a * c - b * c
OBVIOUS

LEMMA TimesNat ==
    ASSUME NEW a \in Nat, NEW b \in Nat
    PROVE  a * b \in Nat
OBVIOUS

(* Dropping whole parts of a number drops as many from its quotient.       *)
LEMMA DivLess ==
    ASSUME NEW a \in Nat, NEW b \in Nat \ {0}, NEW k \in Nat, k * b <= a
    PROVE  (a - k * b) \div b = (a \div b) - k
<1> DEFINE q == a \div b
           r == (a - k * b) \div b
<1>1. k * b \in Nat /\ a - k * b \in Nat
    BY TimesNat
<1>2. q \in Nat /\ q * b <= a /\ a < q * b + b
    BY DivBounds
<1>3. r \in Nat /\ r * b <= a - k * b /\ a - k * b < r * b + b
    <2> HIDE DEF r
    <2> QED
        BY <1>1, DivBounds DEF r
<1> HIDE DEF q, r
<1>4. (r + k) * b = r * b + k * b /\ (q + 1) * b = q * b + b /\ (r + k + 1) * b = (r + k) * b + b
    BY <1>2, <1>3, Distributes
<1>5. {r * b, q * b, k * b, b} \subseteq Nat
    BY <1>1, <1>2, <1>3, TimesNat
<1>6. (r + k) * b < (q + 1) * b /\ q * b < (r + k + 1) * b
    BY <1>1, <1>2, <1>3, <1>4, <1>5
<1>7. r + k < q + 1
    BY <1>2, <1>3, <1>6, TimesLess
<1>8. q < r + k + 1
    BY <1>2, <1>3, <1>6, TimesLess
<1>9. r = q - k
    BY <1>2, <1>3, <1>7, <1>8
<1> QED
    BY <1>9 DEF q, r

(* Fits is the number of samples that are there.                           *)
LEMMA ThereIs ==
    ASSUME Measured
    PROVE  Fits \in Nat /\ Max(There) = Fits /\ (Fits > 0 => FirstByte <= file.size)
<1> DEFINE a == file.size - FirstByte
           B == SampleBytes
<1>1. B \in Nat \ {0} /\ FirstByte \in Nat /\ file.size \in Nat
    BY DEF Measured
<1>2. There = {n \in 0..file.size : n = 0 \/ FirstByte + n * B <= file.size}
    BY DEF There
<1>3. Fits \in Nat /\ Fits \in There /\ \A n \in There : n <= Fits
    <2>1. CASE FirstByte <= file.size
        <3>1. a \in Nat /\ Fits = a \div B
            BY <1>1, <2>1 DEF Fits
        <3> HIDE DEF a, B
        <3>2. Fits \in Nat /\ Fits * B <= a /\ Fits <= a /\ a < Fits * B + B
            BY <1>1, <3>1, DivBounds
        <3>3. a = file.size - FirstByte /\ Fits * B \in Nat
            BY <1>1, <3>2, TimesNat DEF a
        <3>4. Fits \in There
            BY <1>1, <1>2, <3>2, <3>3
        <3>5. ASSUME NEW n \in There PROVE n <= Fits
            <4>1. n \in Nat /\ (n = 0 \/ FirstByte + n * B <= file.size)
                BY <1>1, <1>2
            <4>2. CASE n = 0
                BY <3>2, <4>2
            <4>3. CASE n # 0
                <5>1. n * B \in Nat /\ (Fits + 1) * B = Fits * B + B
                    BY <1>1, <3>2, <4>1, TimesNat, Distributes
                <5>2. n * B < (Fits + 1) * B
                    BY <1>1, <3>2, <3>3, <4>1, <4>3, <5>1
                <5>3. n < Fits + 1
                    BY <1>1, <3>2, <4>1, <5>2, TimesLess
                <5> QED
                    BY <3>2, <4>1, <5>3
            <4> QED
                BY <4>2, <4>3
        <3> QED
            BY <3>2, <3>4, <3>5
    <2>2. CASE FirstByte > file.size
        <3>1. Fits = 0
            BY <1>1, <2>2 DEF Fits
        <3>2. ASSUME NEW n \in There PROVE n = 0
            <4>1. n \in Nat /\ n * B \in Nat
                BY <1>1, <1>2, TimesNat
            <4> HIDE DEF B
            <4> QED
                BY <1>1, <1>2, <2>2, <4>1
        <3> QED
            BY <1>1, <1>2, <3>1, <3>2
    <2> QED
        BY <1>1, <2>1, <2>2
<1>4. \A x \in There : (\A y \in There : x >= y) => x = Fits
    <2>1. There \subseteq Int
        BY <1>2
    <2> QED
        BY <1>3, <2>1
<1>5. Max(There) = Fits
    <2>1. \A y \in There : Fits >= y
        <3>1. There \subseteq Int
            BY <1>2
        <3> QED
            BY <1>3, <3>1
    <2> QED
        BY <1>3, <1>4, <2>1 DEF Max
<1>6. Fits > 0 => FirstByte <= file.size
    BY <1>1 DEF Fits
<1> QED
    BY <1>3, <1>5, <1>6

(* The promise of a header is kept if the file is long enough.             *)
Sought(total) == IF total > 0 THEN Least(total, Fits) ELSE Fits

LEMMA TotalIs ==
    ASSUME Measured, PcmInput, NEW total \in Nat,
           Promised = IF total > 0 THEN {total} ELSE {}
    PROVE  Sought(total) \in Nat /\ Total = IF Refused24 THEN 0 ELSE Sought(total)
<1>1. Fits \in Nat /\ Max(There) = Fits
    BY ThereIs
<1>2. Sought(total) \in Nat
    BY <1>1 DEF Sought, Least
<1>3. Min(Promised \cup {Max(There)}) = Sought(total)
    <2> DEFINE S == IF total > 0 THEN {total, Fits} ELSE {Fits}
    <2>1. Promised \cup {Max(There)} = S
        BY <1>1
    <2>2. Sought(total) \in S /\ \A y \in S : Sought(total) <= y
        BY <1>1 DEF Sought, Least
    <2>3. \A x \in S : (\A y \in S : x <= y) => x = Sought(total)
        BY <1>1, <2>2
    <2>4. Min(S) = Sought(total)
        <3> HIDE DEF S
        <3> QED
            BY <2>2, <2>3 DEF Min
    <2> QED
        BY <2>1, <2>4
<1> QED
    BY <1>2, <1>3 DEF Total

(* What a read finds there is what has not been taken.                     *)
LEMMA StillThere ==
    ASSUME Measured, NEW k \in Nat, k <= Fits, NEW p \in Nat,
           p = FirstByte + k * SampleBytes \/ (k = 0 /\ p >= file.size /\ FirstByte > file.size)
    PROVE  (IF p < file.size THEN (file.size - p) \div SampleBytes ELSE 0) = Fits - k
<1>1. SampleBytes \in Nat \ {0} /\ FirstByte \in Nat /\ file.size \in Nat /\ Fits \in Nat
    BY ThereIs DEF Measured
<1>2. CASE FirstByte > file.size
    <2>1. Fits = 0 /\ k = 0
        BY <1>1, <1>2 DEF Fits
    <2>2. k * SampleBytes = 0
        BY <1>1, <2>1
    <2> QED
        BY <1>1, <1>2, <2>1, <2>2
<1>3. CASE FirstByte <= file.size
    <2> DEFINE a == file.size - FirstByte
               B == SampleBytes
    <2>1. a \in Nat /\ Fits = a \div B /\ p = FirstByte + k * B /\ B \in Nat \ {0}
        BY <1>1, <1>3 DEF Fits
    <2>2. a = file.size - FirstByte
        OBVIOUS
    <2> HIDE DEF a, B
    <2>3. k * B <= a /\ k * B \in Nat /\ Fits * B <= a
        <3>1. Fits * B <= a
            BY <2>1, DivBounds
        <3>2. (Fits - k) * B = Fits * B - k * B /\ (Fits - k) * B \in Nat /\ k * B \in Nat /\ Fits * B \in Nat
            BY <1>1, <2>1, Distributes, TimesNat
        <3> QED
            BY <2>1, <3>1, <3>2
    <2>4. file.size - p = a - k * B
        BY <1>1, <2>1, <2>2, <2>3
    <2>5. (a - k * B) \div B = (a \div B) - k
        BY <2>1, <2>3, DivLess
    <2>6. CASE p < file.size
        BY <2>1, <2>4, <2>5, <2>6 DEF B
    <2>7. CASE ~(p < file.size)
        <3>1. a - k * B = 0
            BY <1>1, <2>1, <2>2, <2>3, <2>7
        <3>2. 0 \div B = 0
            BY <2>1
        <3> QED
            BY <1>1, <2>1, <2>5, <2>7, <3>1, <3>2
    <2> QED
        BY <2>6, <2>7
<1> QED
    BY <1>1, <1>2, <1>3

-----------------------------------------------------------------------------
(* Samples in their order.                                                 *)

LEMMA FromIs ==
    ASSUME NEW k \in Nat, NEW n \in Nat
    PROVE  /\ Len(From(k, n)) = n /\ From(k, 0) = <<>>
           /\ \A i \in 1..n : From(k, n)[i] = Name(k + i)
BY DEF From

(* Samples that go on where others end.                                    *)
LEMMA FromGoesOn ==
    ASSUME NEW k \in Nat, NEW m \in Nat, NEW n \in Nat
    PROVE  From(k, m) \o From(k + m, n) = From(k, m + n)
<1> DEFINE a == From(k, m)
           b == From(k + m, n)
           c == From(k, m + n)
<1>1. /\ a = [i \in 1..m |-> Name(k + i)] /\ b = [i \in 1..n |-> Name((k + m) + i)]
      /\ c = [i \in 1..(m + n) |-> Name(k + i)]
    BY DEF From
<1>2. Len(a) = m /\ Len(b) = n /\ m + n \in Nat
    BY <1>1
<1>3. a \o b = [i \in 1..(Len(a) + Len(b)) |-> IF i <= Len(a) THEN a[i] ELSE b[i - Len(a)]]
    OBVIOUS
<1> HIDE DEF a, b, c
<1>4. ASSUME NEW i \in 1..(m + n)
      PROVE  (IF i <= m THEN a[i] ELSE b[i - m]) = Name(k + i)
    <2>1. CASE i <= m
        <3>1. i \in 1..m
            BY <2>1
        <3> QED
            BY <1>1, <2>1, <3>1
    <2>2. CASE ~(i <= m)
        <3>1. i - m \in 1..n /\ (k + m) + (i - m) = k + i
            BY <2>2
        <3> QED
            BY <1>1, <2>2, <3>1
    <2> QED
        BY <2>1, <2>2
<1>5. a \o b = c
    BY <1>1, <1>2, <1>3, <1>4
<1> QED
    BY <1>5 DEF a, b, c

(* The first of them are a beginning of all.                               *)
LEMMA FromPrefix ==
    ASSUME NEW k \in Nat, NEW n \in Nat, k <= n
    PROVE  IsPrefix(From(0, k), From(0, n))
<1> DEFINE a == From(0, k)
           c == From(0, n)
<1>1. Len(a) = k /\ Len(c) = n /\ a = [i \in 1..k |-> Name(0 + i)] /\ c = [i \in 1..n |-> Name(0 + i)]
    BY FromIs DEF From
<1>2. SubSeq(a, 1, k) = [i \in 1..k |-> a[i]] /\ SubSeq(c, 1, k) = [i \in 1..k |-> c[i]]
    <2> HIDE DEF a, c
    <2>1. SubSeq(a, 1, k) = [i \in 1..(1 + k - 1) |-> a[i + 1 - 1]]
        BY <1>1
    <2>2. SubSeq(c, 1, k) = [i \in 1..(1 + k - 1) |-> c[i + 1 - 1]]
        BY <1>1
    <2> QED
        BY <2>1, <2>2
<1>3. \A i \in 1..k : a[i] = c[i]
    <2>1. \A i \in 1..k : i \in 1..n
        OBVIOUS
    <2> HIDE DEF a, c
    <2> QED
        BY <1>1, <2>1
<1> HIDE DEF a, c
<1> QED
    BY <1>1, <1>2, <1>3 DEF a, c, IsPrefix

(* The source is all samples from the first on.                            *)
LEMMA SourceIs ==
    ASSUME Run, PcmInput \/ FlacInput, Total \in Nat
    PROVE  Source = From(0, Total)
<1>1. CASE PcmInput
    <2>1. Source = PcmSource
        BY <1>1 DEF Source, PcmInput
    <2>2. CASE Refused24
        BY <1>1, <2>1, <2>2, FromIs DEF PcmSource, Refused24, Total
    <2>3. CASE ~Refused24
        <3>1. PcmSource = [i \in 1..Total |-> FirstByte + (i - 1) * SampleBytes]
            BY <1>1, <2>3 DEF PcmSource, Refused24, Total
        <3>2. From(0, Total) = [i \in 1..Total |-> FirstByte + ((0 + i) - 1) * SampleBytes]
            BY <1>1 DEF From, Name
        <3>3. \A i \in 1..Total : 0 + i = i
            OBVIOUS
        <3> QED
            BY <2>1, <3>1, <3>2, <3>3
    <2> QED
        BY <2>2, <2>3
<1>2. CASE FlacInput /\ ~PcmInput
    <2>1. Source = FlacSource
        BY <1>2 DEF Source, PcmInput
    <2>2. FlacSource = [i \in 1..Total |-> i]
        BY <1>2 DEF FlacSource, Total, GoodFrames
    <2>3. From(0, Total) = [i \in 1..Total |-> 0 + i]
        BY <1>2 DEF From, Name
    <2>4. \A i \in 1..Total : 0 + i = i
        OBVIOUS
    <2> QED
        BY <2>1, <2>2, <2>3, <2>4
<1> QED
    BY <1>1, <1>2

(* What the invariant says of the samples is what is promised of them.     *)
LEMMA FedFromSource ==
    ASSUME IInv
    PROVE  EncodesTheSource
<1>1. reader.kind = "flac" => reader.inOrder
    BY DEF IInv, Kinds, FlacReading, FlacGiven
<1>2. CASE pc \in Early
    <2>1. fed = <<>> /\ pc \notin {"drain", "close", "done"}
        BY <1>2 DEF IInv, NotOpen, Early
    <2> QED
        BY <1>1, <2>1 DEF EncodesTheSource
<1>3. CASE pc \notin Early
    <2>1. /\ Len(fed) \in Nat /\ Len(input) \in Nat /\ Total \in Nat
          /\ Len(fed) + Len(input) <= Total /\ fed = From(0, Len(fed))
          /\ pc \in {"drain", "close", "done"} => Len(fed) = Total
        BY <1>3 DEF IInv, Feeding, Taken
    <2>2. Source = From(0, Total)
        BY <1>3, <2>1, SourceIs DEF IInv, Run, Early
    <2>3. Len(fed) <= Total
        BY <2>1
    <2>4. IsPrefix(From(0, Len(fed)), From(0, Total))
        BY <2>1, <2>3, FromPrefix
    <2> QED
        BY <1>1, <2>1, <2>2, <2>4 DEF EncodesTheSource
<1> QED
    BY <1>2, <1>3

(* The invariant has the types.                                            *)
LEMMA InvTypes ==
    ASSUME IInv
    PROVE  TypeOK
<1>1. command.frame \in Nat
    BY CommandsAssumption DEF IInv, Run
<1>2. Run
    BY DEF IInv
<1>3. wanted \in 0..command.frame /\ Len(input) + wanted <= command.frame
    <2>1. CASE pc \in Early
        BY <1>1, <2>1 DEF IInv, NotOpen
    <2>2. CASE pc \notin Early
        BY <1>1, <2>2 DEF IInv, Feeding
    <2> QED
        BY <2>1, <2>2
<1>4. reader.kind = "flac" =>
          Len(reader.block) <= reader.max /\ reader.blockpos \in 0..Len(reader.block)
    BY DEF IInv, Kinds, FlacReading
<1>5. reader.kind = "wav" /\ reader.total > 0 => reader.read <= reader.total
    BY DEF IInv, Kinds, PcmReading
<1> QED
    BY <1>2, <1>3, <1>4, <1>5 DEF TypeOK, Run

-----------------------------------------------------------------------------
(* What depends on the file, the command line and the input only.          *)

Same == UNCHANGED <<command, file, seekable>>

LEMMA SameFile ==
    ASSUME Same
    PROVE  /\ FormatChunk' = FormatChunk /\ DataChunk' = DataChunk
           /\ \A i : Start(i)' = Start(i)
           /\ \A p : HeaderAt(p)' = HeaderAt(p)
           /\ \A id : First(id)' = First(id)
           /\ \A c, n : FormatAccepted(c, n)' = FormatAccepted(c, n)
           /\ \A c : SizeAccepted(c)' = SizeAccepted(c)
           /\ \A k : Before(k)' = Before(k) /\ Good(k)' = Good(k)
           /\ GoodFrames' = GoodFrames
<1>1. /\ command' = command /\ file' = file /\ seekable' = seekable
    BY DEF Same
<1>2. FormatChunk' = FormatChunk /\ DataChunk' = DataChunk
    BY <1>1 DEF FormatChunk, DataChunk
<1>3. \A i : Start(i)' = Start(i)
    BY <1>1 DEF Start
<1>4. \A p : HeaderAt(p)' = HeaderAt(p)
    BY <1>1, <1>3 DEF HeaderAt
<1>5. \A id : First(id)' = First(id)
    BY <1>1 DEF First
<1>6. \A c, n : FormatAccepted(c, n)' = FormatAccepted(c, n)
    BY <1>1 DEF FormatAccepted
<1>7. \A c : SizeAccepted(c)' = SizeAccepted(c)
    BY <1>1 DEF SizeAccepted
<1>8. \A k : Before(k)' = Before(k)
    BY <1>1 DEF Before
<1>9. \A k : Good(k)' = Good(k)
    BY <1>1 DEF Good
<1>10. GoodFrames' = GoodFrames
    BY <1>1, <1>9 DEF GoodFrames
<1> QED
    BY <1>2, <1>3, <1>4, <1>5, <1>6, <1>7, <1>8, <1>9, <1>10

LEMMA SameSource ==
    ASSUME Same
    PROVE  /\ PcmInput' = PcmInput /\ FlacInput' = FlacInput /\ Base' = Base
           /\ Refused24' = Refused24 /\ Promised' = Promised /\ Fits' = Fits
           /\ SampleBytes' = SampleBytes /\ FirstByte' = FirstByte
           /\ Total' = Total /\ Readable' = Readable
           /\ FormatAt' = FormatAt /\ DataAt' = DataAt
           /\ \A k, n : From(k, n)' = From(k, n)
<1>1. /\ command' = command /\ file' = file /\ seekable' = seekable
    BY DEF Same
<1>2. PcmInput' = PcmInput /\ FlacInput' = FlacInput /\ Refused24' = Refused24
    BY <1>1 DEF PcmInput, FlacInput, Refused24
<1>3. Base' = Base
    BY <1>2 DEF Base
<1>4. Promised' = Promised /\ SampleBytes' = SampleBytes
    BY <1>1, SameFile DEF Promised, SampleBytes
<1>5. FirstByte' = FirstByte
    BY <1>1, SameFile DEF FirstByte
<1>6. There' = There /\ Fits' = Fits
    BY <1>1, <1>4, <1>5 DEF There, Fits
<1>7. Total' = Total
    BY <1>2, <1>4, <1>6, SameFile DEF Total
<1>8. FormatAt' = FormatAt /\ DataAt' = DataAt
    BY SameFile DEF FormatAt, DataAt
<1>9. \A k, n : From(k, n)' = From(k, n)
    BY <1>2, <1>4, <1>5 DEF From, Name
<1>10. Readable' = Readable
    BY <1>1, SameFile, ZenonT(60) DEF Readable, Honest
<1> QED
    BY <1>2, <1>3, <1>4, <1>5, <1>6, <1>7, <1>8, <1>9, <1>10

-----------------------------------------------------------------------------
(* The invariant holds at first, and every step keeps it.                  *)

LEMMA InitHolds ==
    ASSUME Init
    PROVE  IInv
<1>1. /\ pc = "identify" /\ pos = 0 /\ restarted = FALSE /\ reader.kind = "none"
      /\ stack = <<>> /\ channels = 0 /\ wanted = 0 /\ input = <<>> /\ downmix = 0
      /\ fed = <<>> /\ freed = <<>>
      /\ command \in Commands /\ file \in Files /\ seekable \in BOOLEAN
      /\ command.raw => file.kind = "raw"
    BY DEF Init, None
<1>2. Run
    BY <1>1 DEF Run
<1>3. NotOpen /\ Kinds /\ Stacked /\ Walk /\ Feeding /\ PcmReading /\ FlacReading
    BY <1>1 DEF NotOpen, Kinds, Stacked, Walk, Feeding, PcmReading, FlacReading, Early
<1>4. NotLost
    BY <1>1 DEF NotLost, OnTheWay
<1> QED
    BY <1>1, <1>2, <1>3, <1>4 DEF IInv, ClosesAll

(* What a file has of samples, once its reader is there.                   *)
LEMMA RawMeasured ==
    ASSUME Run, command.raw
    PROVE  /\ PcmInput /\ Measured /\ Promised = {} /\ FirstByte = 0
           /\ SampleBytes = command.channels * (command.bits \div 8)
           /\ command.channels \in Nat \ {0} /\ command.frame \in Nat \ {0}
           /\ Total \in Nat /\ ~FlacInput
<1>1. /\ command.channels \in Nat \ {0} /\ command.bits \in {8, 16, 24}
      /\ command.frame \in Nat \ {0} /\ file.size \in Nat
    <2>1. command \in Commands /\ file \in Files
        BY DEF Run
    <2>2. file.size \in Nat
        BY <2>1, FilesAssumption
    <2>3. command.channels \in 1..255 /\ command.bits \in {8, 16, 24} /\ command.frame \in Nat \ {0}
        BY <2>1, CommandsAssumption
    <2> QED
        BY <2>2, <2>3
<1>2. PcmInput /\ Promised = {} /\ FirstByte = 0 /\ ~FlacInput
    BY DEF PcmInput, Promised, FirstByte, FlacInput, Run
<1>3. SampleBytes = command.channels * (command.bits \div 8)
    BY DEF SampleBytes
<1>4. command.bits \div 8 \in {1, 2, 3}
    BY <1>1
<1>5. SampleBytes \in Nat \ {0}
    BY <1>1, <1>3, <1>4
<1>6. Measured
    BY <1>1, <1>2, <1>5 DEF Measured
<1>7. Total \in Nat
    <2>1. Promised = IF 0 > 0 THEN {0} ELSE {}
        BY <1>2
    <2> QED
        BY <1>2, <1>6, <2>1, TotalIs
<1> QED
    BY <1>1, <1>2, <1>3, <1>6, <1>7

LEMMA OpenRawKeeps ==
    ASSUME IInv, OpenRaw, UNCHANGED encVars
    PROVE  IInv'
<1>1. /\ pc = "identify" /\ command.raw /\ pc' = "decide" /\ pos' = pos /\ pos = 0
      /\ reader' = [kind |-> "wav", bits |-> command.bits,
                    bytes |-> command.channels * (command.bits \div 8), total |-> 0, read |-> 0,
                    big |-> command.big]
      /\ stack' = <<"wav">> /\ channels' = command.channels
      /\ wanted' = 0 /\ input' = <<>> /\ fed' = <<>> /\ downmix' = 0 /\ freed' = <<>> /\ Same
    BY DEF OpenRaw, Pcm, IInv, NotOpen, Early, encVars, Same
<1>2. Run /\ Run'
    <2>1. command.channels \in Nat
        BY <1>1, RawMeasured DEF IInv
    <2>2. PcmInput'
        BY <1>1, SameSource DEF PcmInput
    <2> QED
        BY <1>1, <2>1, <2>2 DEF IInv, Run, Same
<1>3. /\ PcmInput /\ Measured /\ Promised = {} /\ FirstByte = 0
      /\ SampleBytes = command.channels * (command.bits \div 8)
      /\ command.frame \in Nat \ {0} /\ Total \in Nat /\ ~FlacInput
    BY <1>1, <1>2, RawMeasured
<1>4. /\ PcmInput' /\ Promised' = {} /\ FirstByte' = 0 /\ SampleBytes' = SampleBytes
      /\ Total' = Total /\ ~FlacInput' /\ Refused24' = Refused24 /\ command' = command
      /\ file' = file
    BY <1>1, <1>3, SameSource DEF Same
<1>5. NotOpen' /\ Kinds' /\ Walk' /\ FlacReading' /\ ClosesAll'
    BY <1>1, <1>4 DEF NotOpen, Kinds, Walk, FlacReading, ClosesAll, Early
<1>6. Stacked'
    BY <1>1, <1>4 DEF Stacked, Base
<1>7. Feeding'
    <2>1. <<>> = From(0, 0)'
        BY DEF From
    <2> QED
        BY <1>1, <1>3, <1>4, <2>1 DEF Feeding, Taken
<1>8. PcmReading'
    <2>1. Taken' = 0
        BY <1>1 DEF Taken
    <2>2. 0 * SampleBytes = 0 /\ SampleBytes \in Nat \ {0}
        BY <1>3 DEF Measured
    <2>3. Placed'
        BY <1>1, <1>4, <2>1, <2>2 DEF Placed
    <2>4. Unsupported' <=> Refused24'
        BY <1>1, <1>4 DEF Unsupported, Refused24
    <2>5. DOMAIN reader' = {"kind", "bits", "bytes", "total", "read", "big"}
        BY <1>1
    <2> QED
        BY <1>1, <1>3, <1>4, <2>1, <2>2, <2>3, <2>4, <2>5 DEF PcmReading
<1>9. NotLost'
    BY <1>1 DEF NotLost, OnTheWay
<1> QED
    BY <1>1, <1>2, <1>5, <1>6, <1>7, <1>8, <1>9 DEF IInv

(* A file has at most one chunk that is looked for.                        *)
LEMMA OnlyOne ==
    ASSUME InChunks, NEW i \in 1..Len(file.chunks),
           file.chunks[i].id \in {FormatChunk, DataChunk}
    PROVE  First(file.chunks[i].id) = i
<1> DEFINE id == file.chunks[i].id
<1>1. file \in Files /\ Len(file.chunks) \in Nat
    BY ChunkTypes DEF InChunks, Run
<1>2. id \in {"fmt", "COMM", "data", "SSND"}
    BY DEF FormatChunk, DataChunk
<1>3. \A j \in 1..Len(file.chunks) : file.chunks[j].id = id => i = j
    BY <1>1, <1>2, FilesAssumption DEF InChunks
<1>4. i \in 1..Len(file.chunks) /\ file.chunks[i].id = id /\ \A j \in 1..(i - 1) : file.chunks[j].id # id
    BY <1>1, <1>3
<1> HIDE DEF id
<1>5. First(id) = i
    BY <1>3, <1>4 DEF First
<1> QED
    BY <1>5 DEF id

(* What a file of chunks has that can be read.                             *)
LEMMA ReadableChunks ==
    ASSUME InChunks, Readable
    PROVE  /\ FormatAt \in 1..Len(file.chunks) /\ DataAt \in 1..Len(file.chunks)
           /\ file.chunks[FormatAt].id = FormatChunk /\ file.chunks[DataAt].id = DataChunk
           /\ FormatAt # DataAt
           /\ FormatAt < DataAt \/ (file.kind = "aiff" /\ seekable)
           /\ \A i \in 1..FormatAt : Honest(i)
           /\ \A i \in 1..(DataAt - 1) : Honest(i)
           /\ Start(FormatAt) + 8 + Padded(file.chunks[FormatAt].len) <= file.size
           /\ Start(DataAt) + 16 <= file.size
<1>1. file.kind \in {"wav", "aiff"} /\ file.kind \notin {"flac", "oggflac"}
    BY DEF InChunks
<1>2. /\ {FormatChunk, DataChunk} \subseteq {file.chunks[i].id : i \in 1..Len(file.chunks)}
      /\ FormatAt < DataAt \/ (file.kind = "aiff" /\ seekable)
      /\ \A i \in 1..Max({FormatAt, DataAt}) : i # DataAt => Honest(i)
      /\ FormatAt > DataAt => Honest(DataAt)
      /\ Start(FormatAt) + 8 + Padded(file.chunks[FormatAt].len) <= file.size
      /\ Start(DataAt) + 16 <= file.size
    BY <1>1 DEF Readable, FormatAt, DataAt
<1>3. PICK f \in 1..Len(file.chunks) : file.chunks[f].id = FormatChunk
    BY <1>2
<1>4. PICK d \in 1..Len(file.chunks) : file.chunks[d].id = DataChunk
    BY <1>2
<1>5. FormatAt = f /\ DataAt = d
    BY <1>3, <1>4, OnlyOne DEF FormatAt, DataAt
<1>6. f # d
    BY <1>3, <1>4 DEF FormatChunk, DataChunk
<1>7. f \in Nat /\ d \in Nat
    BY ChunkTypes
<1>8. Max({f, d}) = IF f < d THEN d ELSE f
    <2> DEFINE m == IF f < d THEN d ELSE f
    <2>1. m \in {f, d} /\ \A y \in {f, d} : m >= y
        BY <1>7
    <2>2. \A x \in {f, d} : (\A y \in {f, d} : x >= y) => x = m
        BY <1>7, <2>1
    <2> HIDE DEF m
    <2>3. Max({f, d}) = m
        BY <2>1, <2>2 DEF Max
    <2> QED
        BY <2>3 DEF m
<1>9. \A i \in 1..f : Honest(i)
    <2>1. ASSUME NEW i \in 1..f PROVE Honest(i)
        <3>1. i \in 1..Max({f, d})
            BY <1>7, <1>8
        <3>2. i = d => f > d
            BY <1>6, <1>7
        <3> QED
            BY <1>2, <1>5, <3>1, <3>2
    <2> QED
        BY <2>1
<1>10. \A i \in 1..(d - 1) : Honest(i)
    <2>1. ASSUME NEW i \in 1..(d - 1) PROVE Honest(i)
        <3>1. i \in 1..Max({f, d}) /\ i # d
            BY <1>7, <1>8
        <3> QED
            BY <1>2, <1>5, <3>1
    <2> QED
        BY <2>1
<1> QED
    BY <1>2, <1>3, <1>4, <1>5, <1>6, <1>9, <1>10

LEMMA IdentifyKeeps ==
    ASSUME IInv, Identify, UNCHANGED encVars
    PROVE  IInv'
<1>1. /\ pc = "identify" /\ ~command.raw /\ pos' = Least(IdBytes, file.size) /\ Same
      /\ restarted' = FALSE /\ stack' = <<>> /\ channels' = 0
      /\ wanted' = 0 /\ input' = <<>> /\ fed' = <<>> /\ downmix' = 0 /\ freed' = <<>>
      /\ reader.kind \notin {"wav", "flac"} /\ Run /\ file.size \in Nat
    <2>1. file.size \in Nat
        BY FilesAssumption DEF IInv, Run
    <2> QED
        BY <2>1 DEF Identify, IInv, NotOpen, Kinds, Early, encVars, Same
<1>2. /\ file' = file /\ command' = command /\ seekable' = seekable
      /\ PcmInput' = PcmInput /\ FlacInput' = FlacInput
      /\ FormatChunk' = FormatChunk /\ DataChunk' = DataChunk /\ FormatAt' = FormatAt
      /\ Readable' = Readable /\ \A i : Start(i)' = Start(i)
    BY <1>1, SameFile, SameSource DEF Same
<1>3. pos' \in Nat
    BY <1>1 DEF Least, IdBytes
<1>4. CASE /\ file.kind \in {"wav", "aiff"} /\ file.size >= 12
           /\ pc' = "find" /\ want' = FormatChunk /\ UNCHANGED reader
    <2>1. pos' = 12 /\ PcmInput /\ ~FlacInput
        BY <1>1, <1>4 DEF Least, IdBytes, PcmInput, FlacInput
    <2>2. Run'
        BY <1>1, <1>2, <1>3, <1>4, <2>1 DEF Run
    <2>3. /\ NotOpen' /\ Kinds' /\ Stacked' /\ Feeding' /\ PcmReading' /\ FlacReading' /\ ClosesAll'
        BY <1>1, <1>2, <1>4, <2>1
           DEF NotOpen, Kinds, Stacked, Feeding, PcmReading, FlacReading, ClosesAll, Early
    <2>4. Walk'
        <3>1. FormatChunk # DataChunk
            BY DEF FormatChunk, DataChunk
        <3> QED
            BY <1>1, <1>2, <1>3, <1>4, <3>1 DEF Walk
    <2>5. NotLost'
        <3>1. FormatChunk # DataChunk
            BY DEF FormatChunk, DataChunk
        <3>2. ASSUME Readable PROVE Before1(FormatAt)'
            <4>1. FormatAt \in 1..Len(file.chunks) /\ Len(file.chunks) \in Nat
                BY <1>1, <1>4, <3>2, ReadableChunks, ChunkTypes DEF InChunks
            <4>2. Start(1) = 12 /\ 1 \in 1..FormatAt
                BY <1>1, <1>4, <4>1, StartIs DEF InChunks
            <4> QED
                BY <1>2, <2>1, <4>2 DEF Before1
        <3> QED
            BY <1>1, <1>2, <1>4, <3>1, <3>2 DEF NotLost, OnTheWay
    <2> QED
        BY <1>4, <2>2, <2>3, <2>4, <2>5 DEF IInv
<1>5. CASE /\ file.kind \in {"flac", "oggflac"}
           /\ file.size >= (IF file.kind = "flac" THEN 4 ELSE 33)
           /\ pc' = "metadata" /\ UNCHANGED want
           /\ reader' = [kind |-> "flac", buflen |-> pos', bufpos |-> 0, given |-> 0,
                         inOrder |-> TRUE, eof |-> FALSE, next |-> 1,
                         max |-> 0, block |-> <<>>, blockpos |-> 0]
    <2>1. FlacInput /\ ~PcmInput
        BY <1>1, <1>5 DEF PcmInput, FlacInput
    <2>2. Run'
        BY <1>1, <1>2, <1>3, <1>5, <2>1 DEF Run
    <2>3. /\ NotOpen' /\ Kinds' /\ Stacked' /\ Walk' /\ Feeding' /\ PcmReading' /\ ClosesAll' /\ NotLost'
        BY <1>1, <1>2, <1>5, <2>1
           DEF NotOpen, Kinds, Stacked, Walk, Feeding, PcmReading, ClosesAll, NotLost, Early
    <2>4. pos' \in 1..33 /\ pos' <= file.size
        <3>1. file.size \in Nat /\ file.size >= 4 /\ IdBytes \in {12, 33}
            BY <1>1, <1>5 DEF IdBytes
        <3>2. pos' = IF IdBytes < file.size THEN IdBytes ELSE file.size
            BY <1>1 DEF Least
        <3> QED
            BY <3>1, <3>2
    <2>5. FlacReading'
        <3>1. DOMAIN reader' = {"kind", "buflen", "bufpos", "given", "inOrder", "eof", "next",
                                "max", "block", "blockpos"}
            BY <1>5
        <3> QED
            BY <1>2, <1>3, <1>5, <2>4, <3>1 DEF FlacReading, FlacGiven
    <2> QED
        BY <1>5, <2>2, <2>3, <2>5 DEF IInv
<1>6. CASE /\ ~(file.kind \in {"wav", "aiff"} /\ file.size >= 12)
           /\ ~(/\ file.kind \in {"flac", "oggflac"}
                /\ file.size >= (IF file.kind = "flac" THEN 4 ELSE 33))
           /\ pc' = "refused" /\ UNCHANGED <<want, reader>>
    <2>1. Run'
        BY <1>1, <1>2, <1>3, <1>6 DEF Run
    <2>2. /\ NotOpen' /\ Kinds' /\ Stacked' /\ Walk' /\ Feeding' /\ PcmReading' /\ FlacReading' /\ ClosesAll'
        BY <1>1, <1>2, <1>6
           DEF NotOpen, Kinds, Stacked, Walk, Feeding, PcmReading, FlacReading, ClosesAll, Early
    <2>3. ~Readable
        <3>1. CASE file.kind \in {"wav", "aiff"}
            <4> SUFFICES ASSUME Readable PROVE FALSE
                OBVIOUS
            <4>1. Start(DataAt) \in Nat /\ Start(DataAt) + 16 <= file.size
                BY <1>1, <3>1, ReadableChunks, StartIs DEF InChunks
            <4> QED
                BY <1>1, <1>6, <3>1, <4>1
        <3>2. CASE file.kind \in {"flac", "oggflac"}
            BY <1>1, <1>6, <3>2 DEF Readable
        <3>3. CASE file.kind \notin {"wav", "aiff", "flac", "oggflac"}
            BY <3>3 DEF Readable
        <3> QED
            BY <3>1, <3>2, <3>3
    <2>4. NotLost'
        BY <1>2, <2>3 DEF NotLost
    <2> QED
        BY <1>1, <1>2, <1>6, <2>1, <2>2, <2>4 DEF IInv
<1>7. QED
    BY <1>4, <1>5, <1>6 DEF Identify

(* On the way to a chunk that is looked for, the next one is reached.      *)
LEMMA NextChunk ==
    ASSUME InChunks, Readable, NEW k \in {FormatAt, DataAt}, NEW i \in 1..k, pos = Start(i)
    PROVE  /\ Has(8) /\ HeaderAt(pos) = {i} /\ i \in 1..Len(file.chunks)
           /\ i < k => /\ i + 1 \in 1..k /\ Start(i + 1) = pos + 8 + Skipped(file.chunks[i].len)
                       /\ Start(i + 1) <= file.size
<1>1. /\ FormatAt \in 1..Len(file.chunks) /\ DataAt \in 1..Len(file.chunks)
      /\ \A j \in 1..FormatAt : Honest(j)
      /\ \A j \in 1..(DataAt - 1) : Honest(j)
      /\ Start(FormatAt) + 8 + Padded(file.chunks[FormatAt].len) <= file.size
      /\ Start(DataAt) + 16 <= file.size
    BY ReadableChunks
<1>2. /\ Len(file.chunks) \in Nat /\ file.size \in Nat
      /\ \A j \in 1..Len(file.chunks) :
            Padded(file.chunks[j].len) \in Nat /\ Padded(file.chunks[j].body) \in Nat /\ Start(j) \in Nat
    BY ChunkTypes, StartIs
<1>3. k \in 1..Len(file.chunks) /\ i \in 1..Len(file.chunks) /\ Start(k) + 8 <= file.size
    <2>1. Start(FormatAt) + 8 <= file.size
        <3>1. Padded(file.chunks[FormatAt].len) \in Nat /\ Start(FormatAt) \in Nat
            BY <1>1, <1>2
        <3> QED
            BY <1>1, <1>2, <3>1
    <2>2. Start(DataAt) + 8 <= file.size
        <3>1. Start(DataAt) \in Nat
            BY <1>1, <1>2
        <3> QED
            BY <1>1, <1>2, <3>1
    <2>3. k \in 1..Len(file.chunks) /\ Start(k) + 8 <= file.size
        BY <1>1, <2>1, <2>2
    <2> QED
        BY <1>2, <2>3
<1>4. Start(i) <= Start(k)
    <2>1. i = k \/ i < k
        BY <1>2, <1>3
    <2>2. CASE i < k
        <3>1. Start(i) + 8 + Padded(file.chunks[i].body) <= Start(k)
            BY <1>3, <2>2, StartGrows
        <3> QED
            BY <1>2, <1>3, <3>1
    <2> QED
        BY <1>2, <1>3, <2>1, <2>2
<1>5. Has(8)
    BY <1>2, <1>3, <1>4 DEF Has
<1>6. HeaderAt(pos) = {i}
    BY <1>3, HeaderAtStart
<1>7. ASSUME i < k
      PROVE  /\ i + 1 \in 1..k /\ Start(i + 1) = pos + 8 + Skipped(file.chunks[i].len)
             /\ Start(i + 1) <= file.size
    <2>1. i + 1 \in 1..k /\ i + 1 \in 1..Len(file.chunks) /\ i + 1 # 1 /\ (i + 1) - 1 = i
        BY <1>2, <1>3, <1>7
    <2>2. Start(i + 1) = Start(i) + 8 + Padded(file.chunks[i].body)
        BY <2>1, StartIs
    <2>3. Honest(i)
        BY <1>1, <1>2, <1>7
    <2>4. Start(i + 1) <= Start(k)
        <3>1. i + 1 = k \/ i + 1 < k
            BY <1>2, <1>3, <2>1
        <3>2. CASE i + 1 < k
            <4>1. Start(i + 1) + 8 + Padded(file.chunks[i + 1].body) <= Start(k)
                BY <1>3, <2>1, <3>2, StartGrows
            <4> QED
                BY <1>2, <1>3, <2>1, <4>1
        <3> QED
            BY <1>2, <1>3, <3>1, <3>2
    <2>5. Start(i + 1) <= file.size
        BY <1>2, <1>3, <2>1, <2>4
    <2> QED
        BY <2>1, <2>2, <2>3, <2>5 DEF Honest, Skipped
<1> QED
    BY <1>3, <1>5, <1>6, <1>7

(* What a chunk header leads to, for a file that is not refused for it.    *)
LEMMA FindKeepsOn ==
    ASSUME IInv, Find, Same, InChunks, Readable, ~command.raw, want' = want
    PROVE  pc' # "refused" /\ OnTheWay'
<1>1. /\ pc = "find" /\ want \in {FormatChunk, DataChunk} /\ OnTheWay /\ FormatChunk # DataChunk
      /\ pos \in Nat
    <2>1. PcmInput
        BY DEF InChunks, PcmInput
    <2> QED
        BY <2>1 DEF IInv, Walk, NotLost, Find, FormatChunk, DataChunk
<1>2. /\ FormatAt \in 1..Len(file.chunks) /\ DataAt \in 1..Len(file.chunks)
      /\ Len(file.chunks) \in Nat /\ FormatAt # DataAt
      /\ FormatAt < DataAt \/ (file.kind = "aiff" /\ seekable)
    BY ReadableChunks, ChunkTypes
<1>3. /\ file' = file /\ seekable' = seekable /\ FormatChunk' = FormatChunk /\ DataChunk' = DataChunk
      /\ FormatAt' = FormatAt /\ DataAt' = DataAt /\ \A i : Start(i)' = Start(i)
    BY SameFile, SameSource DEF Same
<1>4. ASSUME NEW k \in {FormatAt, DataAt}, NEW i \in 1..k, pos = Start(i),
             want = file.chunks[k].id
      PROVE  \/ pc' \in {"format", "data"} /\ restarted' = FALSE
             \/ /\ pc' = "find" /\ restarted' = restarted /\ i < k /\ i + 1 \in 1..k
                /\ pos' = Start(i + 1)
    <2>1. /\ Has(8) /\ HeaderAt(pos) = {i} /\ i \in 1..Len(file.chunks)
          /\ i < k => /\ i + 1 \in 1..k /\ Start(i + 1) = pos + 8 + Skipped(file.chunks[i].len)
                      /\ Start(i + 1) <= file.size
        BY <1>4, NextChunk
    <2>2. IF i > 0 /\ file.chunks[i].id = want
          THEN restarted' = FALSE /\ pc' = IF want = FormatChunk THEN "format" ELSE "data"
          ELSE LET after == pos + 8 + Skipped(file.chunks[i].len) IN
               pos' = after /\ pc' = (IF CanSkip(after) THEN "find" ELSE "refused") /\ restarted' = restarted
        <3>1. \A j : HeaderAt(pos) = {j} => j = i
            BY <2>1
        <3>2. i # 0 /\ HeaderAt(pos) # {}
            BY <1>2, <2>1
        <3> QED
            BY <2>1, <3>1, <3>2 DEF Find
    <2>3. i \in Nat /\ i > 0 /\ k \in Nat
        BY <1>2
    <2>4. CASE file.chunks[i].id = want
        BY <2>2, <2>3, <2>4
    <2>5. CASE file.chunks[i].id # want
        <3>1. i < k
            BY <1>4, <2>3, <2>5
        <3> QED
            BY <2>1, <2>2, <2>3, <2>5, <3>1 DEF CanSkip
    <2> QED
        BY <2>4, <2>5
<1>5. CASE want = FormatChunk
    <2>1. PICK i \in 1..FormatAt : pos = Start(i)
        BY <1>1, <1>5 DEF OnTheWay, Before1
    <2>2. \/ pc' \in {"format", "data"} /\ restarted' = FALSE
          \/ pc' = "find" /\ restarted' = restarted /\ i + 1 \in 1..FormatAt /\ pos' = Start(i + 1)
        <3>1. want = file.chunks[FormatAt].id
            BY <1>5, ReadableChunks
        <3> QED
            BY <1>4, <2>1, <3>1
    <2>3. ~restarted
        BY <1>1, <1>5 DEF OnTheWay
    <2> QED
        BY <1>1, <1>3, <1>5, <2>2, <2>3 DEF OnTheWay, Before1
<1>6. CASE want = DataChunk /\ FormatAt < DataAt
    <2>1. PICK i \in (FormatAt + 1)..DataAt : pos = Start(i)
        BY <1>1, <1>6 DEF OnTheWay
    <2>2. \/ pc' \in {"format", "data"} /\ restarted' = FALSE
          \/ pc' = "find" /\ i < DataAt /\ i + 1 \in 1..DataAt /\ pos' = Start(i + 1)
        <3>1. want = file.chunks[DataAt].id
            BY <1>6, ReadableChunks
        <3>2. i \in 1..DataAt
            BY <1>2
        <3> QED
            BY <1>4, <2>1, <3>1, <3>2
    <2>3. i + 1 \in 1..DataAt => i + 1 \in (FormatAt + 1)..DataAt
        BY <1>2
    <2>4. ~(DataAt < FormatAt)
        BY <1>2, <1>6
    <2> QED
        BY <1>1, <1>3, <1>6, <2>2, <2>3, <2>4 DEF OnTheWay
<1>7. CASE want = DataChunk /\ DataAt < FormatAt
    <2>1. seekable /\ file.kind = "aiff" /\ ~(FormatAt < DataAt)
        BY <1>2, <1>7
    <2>2. CASE restarted
        <3>1. PICK i \in 1..DataAt : pos = Start(i)
            BY <1>1, <1>7, <2>2 DEF OnTheWay, Before1
        <3>2. \/ pc' \in {"format", "data"} /\ restarted' = FALSE
              \/ pc' = "find" /\ i + 1 \in 1..DataAt /\ pos' = Start(i + 1)
            <4>1. want = file.chunks[DataAt].id
                BY <1>7, ReadableChunks
            <4> QED
                BY <1>4, <3>1, <4>1
        <3> QED
            BY <1>1, <1>3, <1>7, <2>1, <3>2 DEF OnTheWay, Before1
    <2>3. CASE ~restarted /\ ~Has(8)
        <3>1. pos' = 12 /\ pc' = "find"
            BY <2>1, <2>3 DEF Find, MayRestart
        <3>2. Start(1) = 12 /\ 1 \in 1..DataAt
            BY <1>2, StartIs
        <3> QED
            BY <1>1, <1>3, <1>7, <2>1, <3>1, <3>2 DEF OnTheWay, Before1
    <2>4. CASE ~restarted /\ Has(8)
        <3>1. \/ pc' \in {"format", "data"} /\ restarted' = FALSE
              \/ pc' = "find" /\ restarted' = restarted
            BY <2>1, <2>4 DEF Find, CanSkip
        <3> QED
            BY <1>1, <1>3, <1>7, <2>1, <2>4, <3>1 DEF OnTheWay
    <2> QED
        BY <2>2, <2>3, <2>4
<1> QED
    BY <1>1, <1>2, <1>5, <1>6, <1>7

(* While the headers are read there is nothing else.                       *)
LEMMA HeadersOnly ==
    ASSUME IInv, Same, UNCHANGED encVars, UNCHANGED <<reader, stack, channels, wanted, input>>,
           pc \in {"find", "format"}, pc' \in {"find", "format", "data", "refused"}, pos' \in Nat
    PROVE  /\ Run' /\ NotOpen' /\ Kinds' /\ Stacked' /\ Feeding' /\ PcmReading' /\ FlacReading'
           /\ ClosesAll' /\ ~command'.raw /\ InChunks
<1>1. /\ Run /\ ~command.raw /\ file.kind \in {"wav", "aiff"} /\ PcmInput /\ ~FlacInput
      /\ reader.kind \notin {"wav", "flac"}
    BY DEF IInv, Walk, PcmInput, FlacInput, Kinds, Early
<1>2. /\ command' = command /\ file' = file /\ seekable' = seekable
      /\ PcmInput' = PcmInput /\ FlacInput' = FlacInput
    BY SameSource DEF Same
<1>3. Run' /\ InChunks
    BY <1>1, <1>2 DEF Run, InChunks
<1>4. /\ stack' = <<>> /\ channels' = 0 /\ downmix' = 0 /\ freed' = <<>>
      /\ wanted' = 0 /\ input' = <<>> /\ fed' = <<>>
    BY DEF IInv, NotOpen, Early, encVars
<1>5. NotOpen' /\ Kinds' /\ Stacked' /\ Feeding' /\ PcmReading' /\ FlacReading' /\ ClosesAll'
    BY <1>1, <1>2, <1>4
       DEF NotOpen, Kinds, Stacked, Feeding, PcmReading, FlacReading, ClosesAll, Early
<1> QED
    BY <1>1, <1>2, <1>3, <1>5

LEMMA FindKeeps ==
    ASSUME IInv, Find, UNCHANGED encVars
    PROVE  IInv'
<1>1. /\ pc = "find" /\ Same /\ UNCHANGED <<reader, stack, channels, wanted, input>>
      /\ want' = want /\ head' = head
    BY DEF Find, Same
<1>2. InChunks /\ ~command.raw /\ pos \in Nat /\ want \in {FormatChunk, DataChunk}
      /\ (want = DataChunk => HeadRead)
    BY <1>1 DEF IInv, Walk, InChunks
<1>3. /\ FormatChunk' = FormatChunk /\ DataChunk' = DataChunk /\ \A i : Start(i)' = Start(i)
      /\ file' = file /\ command' = command /\ Readable' = Readable
      /\ \A c, n : FormatAccepted(c, n)' = FormatAccepted(c, n)
      /\ PcmInput' = PcmInput
    BY <1>1, SameFile, SameSource DEF Same
<1>4. /\ pos' \in Nat /\ pc' \in {"find", "format", "data", "refused"}
      /\ pc' \in {"format", "data"} =>
            /\ found' \in 1..Len(file.chunks) /\ file.chunks[found'].id = want
            /\ pos' = Start(found') + 8 /\ pos' <= file.size
            /\ pc' = IF want = FormatChunk THEN "format" ELSE "data"
    <2>1. CASE ~Has(8)
        BY <1>1, <1>2, <2>1 DEF Find
    <2>2. CASE Has(8)
        <3>1. PICK i \in 1..Len(file.chunks) \cup {0} :
                  /\ HeaderAt(pos) = {i} \/ (HeaderAt(pos) = {} /\ i = 0)
                  /\ IF i > 0 /\ file.chunks[i].id = want
                     THEN /\ pos' = pos + 8 /\ found' = i
                          /\ pc' = IF want = FormatChunk THEN "format" ELSE "data"
                     ELSE LET after == IF i = 0 THEN Far
                                       ELSE pos + 8 + Skipped(file.chunks[i].len)
                          IN  /\ pos' = after
                              /\ pc' = IF CanSkip(after) THEN "find" ELSE "refused"
            BY <1>1, <2>2 DEF Find
        <3>2. CASE i > 0 /\ file.chunks[i].id = want
            <4>1. i \in 1..Len(file.chunks)
                BY <3>2
            <4>2. i \in HeaderAt(pos)
                BY <3>1, <3>2
            <4>3. pos = Start(i)
                BY <4>2 DEF HeaderAt
            <4>4. pos + 8 <= file.size
                BY <2>2 DEF Has
            <4> QED
                BY <1>2, <3>1, <3>2, <4>1, <4>3, <4>4
        <3>3. CASE ~(i > 0 /\ file.chunks[i].id = want)
            <4>1. i # 0 => Padded(file.chunks[i].len) \in Nat
                BY <1>2, ChunkTypes
            <4> QED
                BY <1>2, <3>1, <3>3, <4>1 DEF Far, Skipped
        <3> QED
            BY <3>2, <3>3
    <2> QED
        BY <2>1, <2>2
<1>5. /\ Run' /\ NotOpen' /\ Kinds' /\ Stacked' /\ Feeding' /\ PcmReading' /\ FlacReading'
      /\ ClosesAll' /\ ~command'.raw
    BY <1>1, <1>4, HeadersOnly
<1>6. Walk'
    <2>1. HeadRead => HeadRead'
        BY <1>1, <1>3 DEF HeadRead
    <2>2. pc' \in {"format", "data"} => AtChunk'
        BY <1>1, <1>3, <1>4 DEF AtChunk
    <2>3. FormatChunk # DataChunk
        BY DEF FormatChunk, DataChunk
    <2> QED
        BY <1>1, <1>2, <1>3, <1>4, <2>1, <2>2, <2>3 DEF Walk, InChunks
<1>7. NotLost'
    BY <1>1, <1>2, <1>3, FindKeepsOn DEF NotLost
<1> QED
    BY <1>5, <1>6, <1>7 DEF IInv

LEMMA ReadFormatKeeps ==
    ASSUME IInv, ReadFormat, UNCHANGED encVars
    PROVE  IInv'
<1> DEFINE c == file.chunks[found]
           length == Least(c.len, IF file.kind = "wav" THEN 40 ELSE 22)
           after == pos + Skipped(c.len)
           Accepted == /\ c.len >= (IF file.kind = "wav" THEN 16 ELSE 18)
                       /\ Has(length) /\ CanSkip(after) /\ FormatAccepted(c, length)
<1>1. /\ pc = "format" /\ Same /\ UNCHANGED <<reader, stack, channels, wanted, input>>
      /\ restarted' = restarted
      /\ \/ Accepted /\ pos' = after /\ head' = c /\ want' = DataChunk /\ pc' = "find"
         \/ ~Accepted /\ pc' = "refused" /\ UNCHANGED <<pos, head, want>>
    BY DEF ReadFormat, Same
<1>2. /\ InChunks /\ ~command.raw /\ pos \in Nat /\ want = FormatChunk
      /\ found \in 1..Len(file.chunks) /\ file.chunks[found].id = FormatChunk
      /\ pos = Start(found) + 8
    BY <1>1 DEF IInv, Walk, InChunks, AtChunk
<1>3. /\ FormatChunk' = FormatChunk /\ DataChunk' = DataChunk /\ \A i : Start(i)' = Start(i)
      /\ file' = file /\ command' = command /\ seekable' = seekable /\ Readable' = Readable
      /\ \A d, n : FormatAccepted(d, n)' = FormatAccepted(d, n)
      /\ PcmInput' = PcmInput /\ FormatAt' = FormatAt /\ DataAt' = DataAt
    BY <1>1, SameFile, SameSource DEF Same
<1>4. /\ c.len \in Nat /\ Padded(c.len) \in Nat /\ c.len <= Padded(c.len)
      /\ file.size \in Nat /\ Start(found) \in Nat
    BY <1>2, ChunkTypes, StartIs
<1>5. pos' \in Nat /\ pc' \in {"find", "refused"}
    BY <1>1, <1>2, <1>4 DEF Skipped
<1>6. /\ Run' /\ NotOpen' /\ Kinds' /\ Stacked' /\ Feeding' /\ PcmReading' /\ FlacReading'
      /\ ClosesAll' /\ ~command'.raw
    BY <1>1, <1>5, HeadersOnly
<1>7. Walk'
    <2>1. FormatChunk # DataChunk
        BY DEF FormatChunk, DataChunk
    <2>2. CASE Accepted /\ pos' = after /\ head' = c /\ want' = DataChunk /\ pc' = "find"
        <3>1. HeadRead'
            BY <1>2, <1>3, <2>2 DEF HeadRead
        <3> QED
            BY <1>2, <1>3, <1>5, <2>1, <2>2, <3>1 DEF Walk, InChunks
    <2>3. CASE pc' = "refused"
        BY <2>3 DEF Walk
    <2> QED
        BY <1>1, <2>2, <2>3
<1>8. NotLost'
    <2>1. SUFFICES ASSUME Readable PROVE pc' # "refused" /\ OnTheWay'
        BY <1>2, <1>3 DEF NotLost
    <2>2. /\ FormatAt \in 1..Len(file.chunks) /\ DataAt \in 1..Len(file.chunks)
          /\ FormatAt # DataAt /\ Len(file.chunks) \in Nat
          /\ FormatAt < DataAt \/ (file.kind = "aiff" /\ seekable)
          /\ Start(FormatAt) + 8 + Padded(file.chunks[FormatAt].len) <= file.size
          /\ \A i \in 1..FormatAt : Honest(i)
        BY <1>2, <2>1, ReadableChunks, ChunkTypes
    <2>3. found = FormatAt
        BY <1>2, OnlyOne DEF FormatAt
    <2>4. ~restarted
        BY <1>1, <1>2, <2>1 DEF IInv, NotLost, OnTheWay, PcmInput, InChunks
    <2>5. /\ c.len >= 18 \/ (file.kind = "wav" /\ c.len >= 16)
          /\ FormatAccepted(c, c.len)
        BY <1>2, <2>1, <2>3 DEF Readable, FormatAt, InChunks
    <2>6. Accepted
        <3>1. after = Start(FormatAt) + 8 + Padded(file.chunks[FormatAt].len)
            BY <1>2, <1>4, <2>3 DEF Skipped
        <3>2. length \in Nat /\ length <= c.len
            BY <1>4 DEF Least
        <3>3. Has(length) /\ CanSkip(after)
            BY <1>2, <1>4, <2>2, <2>3, <3>1, <3>2 DEF Has, CanSkip
        <3>4. FormatAccepted(c, length)
            <4>1. file.kind = "wav" /\ c.len >= 40 => length >= 40
                BY <1>4 DEF Least
            <4>2. file.kind # "wav" /\ c.len >= 22 => length >= 22
                BY <1>4 DEF Least
            <4> HIDE DEF c, length
            <4> QED
                BY <2>5, <4>1, <4>2 DEF FormatAccepted
        <3>5. c.len >= (IF file.kind = "wav" THEN 16 ELSE 18)
            BY <1>4, <2>5
        <3> QED
            BY <3>3, <3>4, <3>5
    <2>7. pos' = after /\ want' = DataChunk /\ pc' = "find"
        BY <1>1, <2>6
    <2>8. FormatAt < DataAt => /\ FormatAt + 1 \in (FormatAt + 1)..DataAt
                               /\ pos' = Start(FormatAt + 1)
        <3>1. ASSUME FormatAt < DataAt
              PROVE  FormatAt + 1 \in (FormatAt + 1)..DataAt /\ pos' = Start(FormatAt + 1)
            <4>1. /\ FormatAt + 1 \in 1..Len(file.chunks) /\ FormatAt + 1 # 1
                  /\ (FormatAt + 1) - 1 = FormatAt /\ FormatAt + 1 \in (FormatAt + 1)..DataAt
                BY <2>2, <3>1
            <4>2. Start(FormatAt + 1) = Start(FormatAt) + 8 + Padded(file.chunks[FormatAt].body)
                BY <1>2, <4>1, StartIs
            <4>3. file.chunks[FormatAt].len = file.chunks[FormatAt].body
                BY <2>2 DEF Honest
            <4> QED
                BY <1>2, <1>4, <2>3, <2>7, <4>1, <4>2, <4>3 DEF Skipped
        <3> QED
            BY <3>1
    <2>9. FormatChunk # DataChunk
        BY DEF FormatChunk, DataChunk
    <2> QED
        <3>1. DataAt < FormatAt => ~(FormatAt < DataAt)
            BY <2>2
        <3> QED
            BY <1>1, <1>3, <2>2, <2>4, <2>7, <2>8, <2>9, <3>1 DEF OnTheWay
<1> QED
    BY <1>6, <1>7, <1>8 DEF IInv

(* What the headers of a file of chunks say of its samples.                *)
LEMMA ChunksMeasured ==
    ASSUME InChunks, ~command.raw, HeadRead, SizeAccepted(head),
           NEW d \in 1..Len(file.chunks), file.chunks[d].id = DataChunk
    PROVE  LET bytes == head.channels * (head.bits \div 8)
               limit == IF file.kind = "aiff" THEN head.frames
                        ELSE IF command.ignorelength THEN 0 ELSE Limit(file.chunks[d].len, bytes)
           IN  /\ bytes = SampleBytes /\ bytes \in Nat \ {0}
               /\ head.channels \in Nat /\ head.bits \in {8, 16, 24, 32}
               /\ file.kind = "aiff" => head.bits # 24
               /\ limit \in Nat /\ Promised = IF limit > 0 THEN {limit} ELSE {}
               /\ FirstByte = IF file.kind = "wav" THEN Start(d) + 8
                              ELSE Start(d) + 16 + file.chunks[d].offset
               /\ FirstByte \in Nat /\ Measured
               /\ file.kind = "aiff" => file.chunks[d].offset \in Nat
<1> DEFINE bytes == head.channels * (head.bits \div 8)
           len == file.chunks[d].len
           limit == IF file.kind = "aiff" THEN head.frames
                    ELSE IF command.ignorelength THEN 0 ELSE Limit(len, bytes)
<1>1. PICK f \in 1..Len(file.chunks) :
          /\ file.chunks[f].id = FormatChunk /\ head = file.chunks[f]
          /\ FormatAccepted(head, Least(head.len, IF file.kind = "wav" THEN 40 ELSE 22))
    BY DEF HeadRead
<1>2. First(FormatChunk) = f /\ First(DataChunk) = d
    BY <1>1, OnlyOne
<1>3. file.kind \in {"wav", "aiff"} /\ file \in Files
    BY DEF InChunks, Run
<1>4. head.channels \in Nat /\ head.bits \in Nat /\ (file.kind = "aiff" => head.frames \in Nat)
    <2>1. head.id = FormatChunk
        BY <1>1
    <2>2. /\ head.id \in {"fmt", "COMM"} => head.channels \in Nat /\ head.bits \in Nat
          /\ head.id = "COMM" => head.frames \in Nat
        BY <1>1, <1>3, FilesAssumption
    <2> QED
        BY <1>3, <2>1, <2>2 DEF FormatChunk
<1>5. head.channels # 0 /\ head.channels \in Nat \ {0}
    BY <1>1, <1>3, <1>4 DEF FormatAccepted
<1>6. head.bits \in {8, 16, 24, 32} /\ (file.kind = "aiff" => head.bits # 24)
    <2>1. CASE file.kind = "aiff"
        <3>1. head.bits \in {8, 16}
            BY <2>1 DEF SizeAccepted
        <3> QED
            BY <3>1
    <2>2. CASE file.kind = "wav"
        <3>1. IF 3 \in {head.format} \cup (IF head.format = 65534 THEN {head.sub} ELSE {})
              THEN head.bits = 32 ELSE head.bits \in {8, 16, 24}
            BY <2>2 DEF SizeAccepted
        <3> QED
            BY <2>2, <3>1
    <2> QED
        BY <1>3, <2>1, <2>2
<1>7. head.bits \div 8 \in {1, 2, 3, 4}
    BY <1>6
<1>8. bytes \in Nat \ {0}
    <2>1. \A n \in Nat \ {0} : n * 1 \in Nat \ {0} /\ n * 2 \in Nat \ {0} /\ n * 3 \in Nat \ {0} /\ n * 4 \in Nat \ {0}
        OBVIOUS
    <2> QED
        BY <1>5, <1>7, <2>1
<1>9. bytes = SampleBytes
    BY <1>1, <1>2 DEF SampleBytes
<1>10. FirstByte = IF file.kind = "wav" THEN Start(d) + 8
                   ELSE Start(d) + 16 + file.chunks[d].offset
    BY <1>2, <1>3 DEF FirstByte, DataChunk
<1>11. file.kind = "aiff" => file.chunks[d].offset \in Nat
    <2>1. file.chunks[d].id = "SSND" => file.chunks[d].offset \in Nat
        BY <1>3, FilesAssumption
    <2> QED
        BY <2>1 DEF DataChunk
<1>12. FirstByte \in Nat /\ file.size \in Nat /\ len \in Nat
    <2>1. file.size \in Nat /\ len \in Nat
        BY <1>3, ChunkTypes
    <2>2. Start(d) \in Nat
        BY <1>3, StartIs
    <2>3. CASE file.kind = "wav"
        <3>1. FirstByte = Start(d) + 8
            BY <1>10, <2>3
        <3> QED
            BY <2>1, <2>2, <3>1
    <2>4. CASE file.kind = "aiff"
        <3>1. FirstByte = Start(d) + 16 + file.chunks[d].offset /\ file.chunks[d].offset \in Nat
            BY <1>10, <1>11, <2>4
        <3> QED
            BY <2>1, <2>2, <3>1
    <2> QED
        BY <1>3, <2>3, <2>4
<1>13. limit \in Nat /\ Promised = IF limit > 0 THEN {limit} ELSE {}
    <2>1. CASE file.kind = "aiff"
        <3>1. Promised = {head.frames} \ {0}
            BY <1>1, <1>2, <2>1 DEF Promised
        <3> QED
            BY <1>4, <2>1, <3>1
    <2>2. CASE file.kind = "wav"
        <3>1. Promised = IF command.ignorelength \/ len <= Plausible * bytes \/ len >= Far
                         THEN {} ELSE {len \div bytes}
            <4> HIDE DEF bytes
            <4> QED
                BY <1>1, <1>2, <1>9, <2>2 DEF Promised, SampleBytes
        <3>2. Plausible \in Nat \ {0}
            BY AudioInAssumption
        <3> HIDE DEF bytes, len
        <3>3. Plausible * bytes = bytes * Plausible /\ Plausible * bytes \in Nat
              /\ bytes <= Plausible * bytes
            BY <1>8, <3>2
        <3>4. CASE command.ignorelength
            BY <2>2, <3>1, <3>4
        <3>5. CASE ~command.ignorelength /\ ~(len > bytes * Plausible /\ len < Far)
            <4>1. len <= Plausible * bytes \/ len >= Far
                BY <1>12, <3>3, <3>5 DEF Far
            <4> QED
                BY <2>2, <3>1, <3>5, <4>1 DEF Limit
        <3>6. CASE ~command.ignorelength /\ len > bytes * Plausible /\ len < Far
            <4>1. ~(len <= Plausible * bytes) /\ ~(len >= Far) /\ bytes < len
                BY <1>8, <1>12, <3>3, <3>6 DEF Far
            <4>2. limit = len \div bytes
                BY <2>2, <3>6 DEF Limit
            <4>3. len \div bytes \in Nat /\ len < (len \div bytes) * bytes + bytes
                BY <1>8, <1>12, DivBounds
            <4>4. len \div bytes # 0
                BY <1>8, <1>12, <4>1, <4>3
            <4>5. Promised = {len \div bytes}
                BY <3>1, <3>6, <4>1
            <4> HIDE DEF limit
            <4>6. limit \in Nat /\ limit > 0
                BY <4>2, <4>3, <4>4
            <4> QED
                BY <4>2, <4>5, <4>6
        <3> QED
            BY <3>4, <3>5, <3>6
    <2> QED
        BY <1>3, <2>1, <2>2
<1>14. Measured
    BY <1>8, <1>9, <1>12 DEF Measured
<1> QED
    BY <1>4, <1>6, <1>8, <1>9, <1>10, <1>11, <1>12, <1>13, <1>14

LEMMA ReadDataKeeps ==
    ASSUME IInv, ReadData, UNCHANGED encVars
    PROVE  IInv'
<1> DEFINE c == file.chunks[found]
           bytes == head.channels * (head.bits \div 8)
           limit == IF file.kind = "aiff" THEN head.frames
                    ELSE IF command.ignorelength THEN 0 ELSE Limit(c.len, bytes)
           Accepted == /\ SizeAccepted(head)
                       /\ file.kind = "aiff" => c.len >= 8 /\ Has(8) /\ c.blocksize = 0
           big == file.kind = "aiff" /\ (head.aifc => head.compression = "NONE")
<1>1. /\ pc = "data" /\ Same /\ wanted' = 0 /\ input' = <<>> /\ fed' = <<>>
      /\ downmix' = 0 /\ freed' = <<>> /\ downmix = 0 /\ stack = <<>> /\ channels = 0
      /\ reader.kind \notin {"wav", "flac"}
    <2>1. pc = "data" /\ Same /\ wanted' = wanted /\ input' = input
        BY DEF ReadData, Same
    <2>2. /\ wanted = 0 /\ input = <<>> /\ fed = <<>> /\ downmix = 0 /\ freed = <<>>
          /\ stack = <<>> /\ channels = 0 /\ reader.kind \notin {"wav", "flac"}
        BY <2>1 DEF IInv, NotOpen, Kinds, Walk, FlacInput, Early
    <2> QED
        BY <2>1, <2>2 DEF encVars
<1>2. /\ pos' = IF file.kind = "wav" THEN pos
                ELSE IF CanSkip(pos + 8 + c.offset) THEN pos + 8 + c.offset ELSE file.size
      /\ \/ /\ Accepted /\ reader' = Pcm(head.channels, head.bits, limit, big)
            /\ stack' = <<"wav">> /\ channels' = head.channels /\ pc' = "decide"
         \/ ~Accepted /\ pc' = "refused" /\ UNCHANGED <<reader, stack, channels>>
    BY DEF ReadData
<1>3. /\ Run /\ InChunks /\ ~command.raw /\ pos \in Nat /\ HeadRead
      /\ found \in 1..Len(file.chunks) /\ file.chunks[found].id = DataChunk
      /\ pos = Start(found) + 8 /\ pos <= file.size
    BY <1>1 DEF IInv, Walk, InChunks, AtChunk
<1>4. /\ file' = file /\ command' = command /\ seekable' = seekable /\ Readable' = Readable
      /\ PcmInput' = PcmInput /\ FlacInput' = FlacInput /\ Refused24' = Refused24
      /\ Total' = Total /\ Promised' = Promised
      /\ SampleBytes' = SampleBytes /\ FirstByte' = FirstByte
      /\ PcmInput /\ ~FlacInput /\ ~Refused24
    BY <1>1, <1>3, SameSource DEF Same, PcmInput, FlacInput, Refused24, InChunks
<1>5. file.size \in Nat /\ Start(found) \in Nat /\ (file.kind = "aiff" => c.offset \in Nat)
    <2>1. c.id = "SSND" => c.offset \in Nat
        BY <1>3, FilesAssumption DEF Run, InChunks
    <2> QED
        BY <1>3, <2>1, ChunkTypes, StartIs DEF DataChunk
<1>6. pos' \in Nat
    BY <1>2, <1>3, <1>5 DEF InChunks
<1>7. CASE ~Accepted /\ pc' = "refused" /\ UNCHANGED <<reader, stack, channels>>
    <2>1. Run'
        BY <1>1, <1>3, <1>4, <1>6, <1>7 DEF Run
    <2>2. /\ NotOpen' /\ Kinds' /\ Stacked' /\ Walk' /\ Feeding' /\ PcmReading' /\ FlacReading' /\ ClosesAll'
        BY <1>1, <1>4, <1>7
           DEF NotOpen, Kinds, Stacked, Walk, Feeding, PcmReading, FlacReading, ClosesAll, Early
    <2>3. ~Readable
        <3> SUFFICES ASSUME Readable PROVE FALSE
            OBVIOUS
        <3>1. found = DataAt
            BY <1>3, OnlyOne DEF DataAt
        <3>2. head = file.chunks[FormatAt]
            BY <1>3, OnlyOne DEF HeadRead, FormatAt
        <3>3. /\ SizeAccepted(file.chunks[FormatAt]) /\ Start(DataAt) + 16 <= file.size
              /\ file.kind = "aiff" => c.len >= 8 /\ c.blocksize = 0
            BY <1>3, <3>1 DEF Readable, InChunks, FormatAt, DataAt
        <3>4. Has(8)
            BY <1>3, <1>5, <3>1, <3>3 DEF Has
        <3> QED
            BY <1>7, <3>2, <3>3, <3>4
    <2>4. NotLost'
        BY <1>4, <2>3 DEF NotLost
    <2> QED
        BY <1>3, <1>4, <1>7, <2>1, <2>2, <2>4 DEF IInv
<1>8. CASE /\ Accepted /\ reader' = Pcm(head.channels, head.bits, limit, big)
           /\ stack' = <<"wav">> /\ channels' = head.channels /\ pc' = "decide"
    <2>1. /\ bytes = SampleBytes /\ bytes \in Nat \ {0} /\ head.channels \in Nat
          /\ file.kind = "aiff" => head.bits # 24
          /\ limit \in Nat /\ Promised = IF limit > 0 THEN {limit} ELSE {}
          /\ FirstByte = IF file.kind = "wav" THEN Start(found) + 8
                         ELSE Start(found) + 16 + c.offset
          /\ FirstByte \in Nat /\ Measured
        BY <1>3, <1>8, ChunksMeasured
    <2>2. /\ reader' = [kind |-> "wav", bits |-> head.bits, bytes |-> bytes, total |-> limit,
                        read |-> 0, big |-> big]
        BY <1>8 DEF Pcm
    <2> HIDE DEF bytes, limit, big
    <2>3. Total \in Nat
        BY <1>4, <2>1, TotalIs
    <2>4. Run'
        BY <1>3, <1>4, <1>6, <1>8, <2>1 DEF Run
    <2>5. NotOpen' /\ Kinds' /\ Walk' /\ FlacReading' /\ ClosesAll' /\ Stacked' /\ NotLost'
        BY <1>1, <1>4, <1>8, <2>2
           DEF NotOpen, Kinds, Walk, FlacReading, ClosesAll, Early, Stacked, Base, NotLost, OnTheWay
    <2>6. Feeding'
        <3>1. <<>> = From(0, 0)'
            BY DEF From
        <3>2. command.frame \in Nat
            BY <1>3, CommandsAssumption DEF Run
        <3> QED
            BY <1>1, <1>4, <1>8, <2>3, <3>1, <3>2 DEF Feeding, Taken
    <2>7. PcmReading'
        <3>1. Taken' = 0
            BY <1>1 DEF Taken
        <3>2. 0 * SampleBytes = 0 /\ SampleBytes \in Nat \ {0}
            BY <2>1 DEF Measured
        <3>3. Placed'
            <4>1. CASE file.kind = "wav"
                <5>1. pos' = FirstByte
                    BY <1>2, <1>3, <2>1, <4>1
                <5> QED
                    BY <1>4, <2>1, <3>1, <3>2, <5>1 DEF Placed
            <4>2. CASE file.kind = "aiff"
                <5>1. FirstByte = pos + 8 + c.offset
                    BY <1>3, <1>5, <2>1, <4>2
                <5>2. pos' = FirstByte \/ (pos' = file.size /\ FirstByte > file.size)
                    BY <1>2, <1>5, <2>1, <4>2, <5>1 DEF CanSkip
                <5> QED
                    BY <1>4, <1>5, <2>1, <3>1, <3>2, <5>2 DEF Placed
            <4> QED
                BY <1>3, <4>1, <4>2 DEF InChunks
        <3>4. ~Unsupported'
            BY <2>1, <2>2 DEF Unsupported, big
        <3>5. DOMAIN reader' = {"kind", "bits", "bytes", "total", "read", "big"}
            BY <2>2
        <3> QED
            BY <1>1, <1>4, <1>6, <1>8, <2>1, <2>2, <3>1, <3>2, <3>3, <3>4, <3>5 DEF PcmReading
    <2> QED
        BY <1>8, <2>4, <2>5, <2>6, <2>7 DEF IInv
<1> QED
    BY <1>2, <1>7, <1>8

-----------------------------------------------------------------------------
(* The steps of FLAC.                                                      *)

(* Bytes have been given to libFLAC, nothing else has changed.             *)
LEMMA CallbackGives ==
    ASSUME InFrames, FlacGiven, Callback
    PROVE  /\ pos' \in Nat /\ pos' <= file.size
           /\ DOMAIN reader' = {"kind", "buflen", "bufpos", "given", "inOrder", "eof", "next",
                                "max", "block", "blockpos"}
           /\ reader'.kind = "flac" /\ reader'.eof \in BOOLEAN
           /\ reader'.buflen = reader.buflen /\ reader'.bufpos = reader.buflen
           /\ reader'.given = pos' /\ reader'.inOrder
           /\ reader'.eof => pos' = file.size /\ reader'.given = reader.given
           /\ reader'.next = reader.next /\ reader'.max = reader.max
           /\ reader'.block = reader.block /\ reader'.blockpos = reader.blockpos
<1>1. PICK r \in Requests :
        LET old == reader.bufpos < reader.buflen
            n == IF old THEN Least(r, reader.buflen - reader.bufpos)
                 ELSE Least(r, file.size - pos)
            first == IF old THEN 0 ELSE pos
        IN  /\ reader' = [reader EXCEPT !.bufpos = IF old THEN @ + n ELSE @,
                                        !.given = @ + n,
                                        !.inOrder = @ /\ first = reader.given,
                                        !.eof = n = 0]
            /\ pos' = IF old THEN pos ELSE pos + n
    BY DEF Callback
<1>2. r \in Nat /\ r >= 33 /\ file.size \in Nat
    BY AudioInAssumption, FrameTypes
<1>3. /\ DOMAIN reader = {"kind", "buflen", "bufpos", "given", "inOrder", "eof", "next",
                          "max", "block", "blockpos"}
      /\ reader.kind = "flac" /\ reader.buflen \in 1..33 /\ reader.bufpos \in {0, reader.buflen}
      /\ pos \in Nat /\ pos <= file.size /\ reader.inOrder
      /\ reader.bufpos = 0 => reader.given = 0 /\ pos = reader.buflen
      /\ reader.bufpos # 0 => reader.given = pos
    BY DEF FlacGiven
<1>4. CASE reader.bufpos = 0
    <2>1. reader.bufpos < reader.buflen /\ Least(r, reader.buflen - reader.bufpos) = reader.buflen
        BY <1>2, <1>3, <1>4 DEF Least
    <2>2. /\ reader' = [reader EXCEPT !.bufpos = 0 + reader.buflen, !.given = 0 + reader.buflen,
                                      !.inOrder = reader.inOrder /\ 0 = reader.given,
                                      !.eof = (reader.buflen = 0)]
          /\ pos' = pos
        BY <1>1, <1>3, <1>4, <2>1
    <2>3. /\ DOMAIN reader' = DOMAIN reader
          /\ reader'.kind = reader.kind /\ reader'.buflen = reader.buflen
          /\ reader'.bufpos = 0 + reader.buflen /\ reader'.given = 0 + reader.buflen
          /\ reader'.inOrder = (reader.inOrder /\ 0 = reader.given)
          /\ reader'.eof = (reader.buflen = 0)
          /\ reader'.next = reader.next /\ reader'.max = reader.max
          /\ reader'.block = reader.block /\ reader'.blockpos = reader.blockpos
        BY <1>3, <2>2
    <2>4. reader.buflen \in Nat /\ ~(reader.buflen = 0) /\ 0 + reader.buflen = reader.buflen
        BY <1>3
    <2>5. reader'.inOrder /\ reader'.eof \in BOOLEAN /\ ~reader'.eof
        BY <1>3, <1>4, <2>3, <2>4
    <2> QED
        BY <1>3, <1>4, <2>2, <2>3, <2>4, <2>5
<1>5. CASE reader.bufpos # 0
    <2> DEFINE n == Least(r, file.size - pos)
    <2>1. ~(reader.bufpos < reader.buflen) /\ reader.bufpos = reader.buflen
        BY <1>3, <1>5
    <2>2. n \in Nat /\ pos + n <= file.size /\ (n = 0 => pos = file.size)
        BY <1>2, <1>3 DEF Least
    <2>3. /\ reader' = [reader EXCEPT !.bufpos = reader.bufpos, !.given = reader.given + n,
                                      !.inOrder = reader.inOrder /\ pos = reader.given,
                                      !.eof = (n = 0)]
          /\ pos' = pos + n
        BY <1>1, <2>1
    <2> HIDE DEF n
    <2>4. /\ DOMAIN reader' = DOMAIN reader
          /\ reader'.kind = reader.kind /\ reader'.buflen = reader.buflen
          /\ reader'.bufpos = reader.bufpos /\ reader'.given = reader.given + n
          /\ reader'.inOrder = (reader.inOrder /\ pos = reader.given)
          /\ reader'.eof = (n = 0)
          /\ reader'.next = reader.next /\ reader'.max = reader.max
          /\ reader'.block = reader.block /\ reader'.blockpos = reader.blockpos
        BY <1>3, <2>3
    <2>5. reader'.inOrder /\ reader'.eof \in BOOLEAN /\ (reader'.eof => n = 0)
        BY <1>3, <1>5, <2>4
    <2>6. pos' \in Nat /\ pos' <= file.size /\ reader'.given = pos' /\ (n = 0 => pos' = file.size /\ reader'.given = reader.given)
        BY <1>3, <1>5, <2>2, <2>3, <2>4
    <2> QED
        BY <1>3, <2>1, <2>4, <2>5, <2>6
<1> QED
    BY <1>4, <1>5

(* What depends on the samples and on where the program is.                *)
LEMMA FedAlike ==
    ASSUME Same, UNCHANGED <<pc, wanted, input, fed>>
    PROVE  Feeding' = Feeding /\ Taken' = Taken
<1>1. /\ pc' = pc /\ wanted' = wanted /\ input' = input /\ fed' = fed /\ command' = command
    BY DEF Same
<1>2. Taken' = Taken /\ Total' = Total /\ \A k, n : From(k, n)' = From(k, n)
    BY <1>1, SameSource DEF Taken
<1>3. Feeding' = Feeding
    BY <1>1, <1>2 DEF Feeding
<1> QED
    BY <1>2, <1>3

(* In a FLAC file.                                                         *)
LEMMA OfFrames ==
    ASSUME IInv, reader.kind = "flac"
    PROVE  InFrames /\ FlacInput /\ ~PcmInput /\ FlacGiven /\ ~command.raw
<1>1. FlacInput /\ pc \notin {"identify", "refused"}
    BY DEF IInv, Kinds
<1>2. Run /\ FlacGiven
    BY <1>1 DEF IInv, FlacReading
<1>3. ~PcmInput /\ ~command.raw
    BY <1>1, <1>2 DEF PcmInput, FlacInput, Run
<1> QED
    BY <1>1, <1>2, <1>3 DEF InFrames

LEMMA FlacAsksKeeps ==
    ASSUME IInv, FlacAsks, UNCHANGED encVars
    PROVE  IInv'
<1>1. /\ Same /\ UNCHANGED <<pc, want, restarted, found, head, stack, channels, wanted, input, encVars>>
      /\ ~reader.eof /\ Callback
      /\ \/ pc = "metadata" /\ reader.given < file.metadata
         \/ pc = "read" /\ reader.kind = "flac"
    BY DEF FlacAsks, BlockWanted, Same
<1>2. reader.kind = "flac" /\ pc \in {"metadata", "read"}
    BY <1>1 DEF IInv, Kinds
<1>3. InFrames /\ FlacInput /\ ~PcmInput /\ FlacGiven /\ ~command.raw /\ Run
    BY <1>2, OfFrames DEF IInv
<1>4. /\ pos' \in Nat /\ pos' <= file.size
      /\ DOMAIN reader' = {"kind", "buflen", "bufpos", "given", "inOrder", "eof", "next",
                           "max", "block", "blockpos"}
      /\ reader'.kind = "flac" /\ reader'.eof \in BOOLEAN
      /\ reader'.buflen = reader.buflen /\ reader'.bufpos = reader.buflen
      /\ reader'.given = pos' /\ reader'.inOrder
      /\ reader'.eof => pos' = file.size /\ reader'.given = reader.given
      /\ reader'.next = reader.next /\ reader'.max = reader.max
      /\ reader'.block = reader.block /\ reader'.blockpos = reader.blockpos
    BY <1>1, <1>3, CallbackGives
<1>5. /\ PcmInput' = PcmInput /\ FlacInput' = FlacInput /\ Readable' = Readable
      /\ file' = file /\ command' = command /\ seekable' = seekable /\ Base' = Base
      /\ Feeding' = Feeding /\ Taken' = Taken /\ pc' = pc
      /\ \A k : Before(k)' = Before(k) /\ Good(k)' = Good(k)
    BY <1>1, SameFile, SameSource, FedAlike DEF Same, encVars
<1>6. Run'
    BY <1>1, <1>3, <1>4, <1>5 DEF Run
<1>7. NotOpen'
    BY <1>1, <1>2, <1>5 DEF IInv, NotOpen, encVars
<1>8. Kinds' /\ Walk' /\ PcmReading' /\ ClosesAll'
    BY <1>2, <1>3, <1>4, <1>5 DEF Kinds, Walk, PcmReading, ClosesAll, Early
<1>9. Stacked'
    BY <1>1, <1>5 DEF IInv, Stacked, encVars
<1>10. Feeding'
    BY <1>5 DEF IInv
<1>11. FlacReading'
    <2>1. FlacGiven'
        BY <1>3, <1>4, <1>5 DEF FlacGiven
    <2>2. CASE pc = "metadata"
        <3>1. reader'.eof => reader'.given < file.metadata
            BY <1>1, <1>4, <2>2
        <3>2. reader.next = 1 /\ reader.block = <<>> /\ reader.blockpos = 0 /\ reader.max = 0
            BY <1>3, <2>2 DEF IInv, FlacReading
        <3> QED
            BY <1>4, <1>5, <2>1, <2>2, <3>1, <3>2 DEF FlacReading
    <2>3. CASE pc = "read"
        <3>1. pc # "metadata" /\ pc \notin {"identify", "refused"}
            BY <2>3
        <3> QED
            BY <1>3, <1>4, <1>5, <2>1, <3>1 DEF IInv, FlacReading
    <2> QED
        BY <1>2, <2>2, <2>3
<1>12. NotLost'
    BY <1>2, <1>3, <1>5 DEF NotLost
<1> QED
    BY <1>2, <1>5, <1>6, <1>7, <1>8, <1>9, <1>10, <1>11, <1>12 DEF IInv

LEMMA FlacOpenedKeeps ==
    ASSUME IInv, FlacOpened, UNCHANGED encVars
    PROVE  IInv'
<1>1. /\ pc = "metadata" /\ Same /\ UNCHANGED <<pos, wanted, input, encVars>>
      /\ \/ /\ reader.given >= file.metadata /\ file.channels \in 1..8
            /\ reader' = [reader EXCEPT !.max = file.max]
            /\ stack' = <<"flac">> /\ channels' = file.channels /\ pc' = "decide"
         \/ /\ reader.eof \/ (reader.given >= file.metadata /\ file.channels \notin 1..8)
            /\ reader' = [kind |-> "none"] /\ pc' = "refused" /\ UNCHANGED <<stack, channels>>
    BY DEF FlacOpened, None, Same
<1>2. reader.kind = "flac"
    BY <1>1 DEF IInv, Kinds
<1>3. InFrames /\ FlacInput /\ ~PcmInput /\ FlacGiven /\ ~command.raw /\ Run
    BY <1>2, OfFrames DEF IInv
<1>4. /\ PcmInput' = PcmInput /\ FlacInput' = FlacInput /\ Readable' = Readable
      /\ file' = file /\ command' = command /\ seekable' = seekable /\ Base' = Base
      /\ Total' = Total /\ pos' = pos
      /\ \A k : Before(k)' = Before(k) /\ Good(k)' = Good(k)
    BY <1>1, SameFile, SameSource DEF Same
<1>5. /\ stack = <<>> /\ channels = 0 /\ downmix' = 0 /\ freed' = <<>>
      /\ wanted' = 0 /\ input' = <<>> /\ fed' = <<>> /\ downmix = 0
    BY <1>1 DEF IInv, NotOpen, Early, encVars
<1>6. /\ reader.next = 1 /\ reader.block = <<>> /\ reader.blockpos = 0
      /\ reader.eof => reader.given < file.metadata
    BY <1>1, <1>3 DEF IInv, FlacReading
<1>7. CASE /\ reader.given >= file.metadata /\ file.channels \in 1..8
           /\ reader' = [reader EXCEPT !.max = file.max]
           /\ stack' = <<"flac">> /\ channels' = file.channels /\ pc' = "decide"
    <2>1. Run'
        BY <1>1, <1>3, <1>4, <1>7 DEF Run
    <2>2. /\ DOMAIN reader' = DOMAIN reader /\ reader'.max = file.max
          /\ reader'.kind = reader.kind /\ reader'.buflen = reader.buflen
          /\ reader'.bufpos = reader.bufpos /\ reader'.given = reader.given
          /\ reader'.inOrder = reader.inOrder /\ reader'.eof = reader.eof
          /\ reader'.next = reader.next
          /\ reader'.block = reader.block /\ reader'.blockpos = reader.blockpos
        BY <1>3, <1>7 DEF FlacGiven
    <2>3. NotOpen' /\ Kinds' /\ Walk' /\ PcmReading' /\ ClosesAll' /\ NotLost' /\ Stacked'
        BY <1>2, <1>3, <1>4, <1>5, <1>7, <2>2
           DEF NotOpen, Kinds, Walk, PcmReading, ClosesAll, NotLost, Early, Stacked, Base
    <2>4. FlacGiven'
        BY <1>3, <1>4, <2>2 DEF FlacGiven
    <2>5. Before(1) = 0 /\ Len(file.frames) \in Nat /\ file.max \in Nat
        BY <1>3, BeforeIs, FrameTypes
    <2>6. Taken' = 0
        BY <1>5 DEF Taken
    <2>7. FlacReading'
        <3>1. <<>> = [i \in 1..Len(<<>>) |-> Before(1) - Len(<<>>) + i] /\ Len(<<>>) = 0
            OBVIOUS
        <3>2. /\ reader'.next = 1 /\ reader'.block = <<>> /\ reader'.blockpos = 0
              /\ reader'.max = file.max /\ pc' = "decide"
            BY <1>6, <1>7, <2>2
        <3>3. 1 \in 1..(Len(file.frames) + 1) /\ 1 - 1 = 0 /\ 1..0 = {}
            BY <2>5
        <3> QED
            BY <1>4, <2>4, <2>5, <2>6, <3>1, <3>2, <3>3 DEF FlacReading
    <2>8. Feeding'
        <3>1. <<>> = From(0, 0)'
            BY DEF From
        <3>2. command.frame \in Nat
            BY <1>3, CommandsAssumption DEF Run
        <3>3. Total \in Nat
            <4>1. PICK g \in 0..Len(file.frames) : Max(GoodFrames) = g
                BY <1>3, LastGood
            <4>2. g + 1 \in 1..(Len(file.frames) + 1)
                BY <2>5, <4>1
            <4> QED
                BY <1>3, <4>1, <4>2, BeforeIs DEF Total
        <3> QED
            BY <1>4, <1>5, <1>7, <2>6, <3>1, <3>2, <3>3 DEF Feeding
    <2> QED
        BY <1>7, <2>1, <2>3, <2>7, <2>8 DEF IInv
<1>8. CASE /\ reader.eof \/ (reader.given >= file.metadata /\ file.channels \notin 1..8)
           /\ reader' = [kind |-> "none"] /\ pc' = "refused" /\ UNCHANGED <<stack, channels>>
    <2>1. Run'
        BY <1>1, <1>3, <1>4, <1>8 DEF Run
    <2>2. /\ NotOpen' /\ Kinds' /\ Stacked' /\ Walk' /\ Feeding' /\ PcmReading' /\ FlacReading' /\ ClosesAll'
        BY <1>3, <1>4, <1>5, <1>8
           DEF NotOpen, Kinds, Stacked, Walk, Feeding, PcmReading, FlacReading, ClosesAll, Early
    <2>3. ~Readable
        <3> SUFFICES ASSUME Readable PROVE FALSE
            OBVIOUS
        <3>1. file.metadata <= file.size /\ file.channels \in 1..8
            BY <1>3 DEF Readable, FlacInput
        <3>2. reader.eof /\ reader.given < file.metadata /\ reader.given = file.size
            BY <1>3, <1>6, <1>8, <3>1 DEF FlacGiven
        <3> QED
            BY <1>3, <3>1, <3>2, FrameTypes
    <2>4. NotLost'
        BY <1>4, <2>3 DEF NotLost
    <2> QED
        BY <1>3, <1>4, <2>1, <2>2, <2>4 DEF IInv
<1> QED
    BY <1>1, <1>7, <1>8

(* Between blocks all frames so far were good, and the next is a sample    *)
(* number ahead of what was taken.                                         *)
LEMMA FramesSoFar ==
    ASSUME IInv, pc = "read", reader.kind = "flac"
    PROVE  /\ InFrames /\ FlacInput /\ ~PcmInput /\ FlacGiven /\ ~command.raw
           /\ reader.max = file.max
           /\ reader.next \in 1..(Len(file.frames) + 1) /\ Len(file.frames) \in Nat
           /\ \A i \in 1..(reader.next - 1) : Good(i)
           /\ Len(reader.block) \in Nat /\ Len(reader.block) <= reader.max
           /\ reader.blockpos \in 0..Len(reader.block)
           /\ Before(reader.next) \in Nat
           /\ Len(reader.block) <= Before(reader.next)
           /\ reader.block = [i \in 1..Len(reader.block) |->
                                    Before(reader.next) - Len(reader.block) + i]
           /\ Taken + Len(reader.block) - reader.blockpos = Before(reader.next)
           /\ Len(fed) \in Nat /\ Len(input) \in Nat /\ Taken = Len(fed) + Len(input)
           /\ Total \in Nat /\ Taken <= Total
           /\ wanted \in Nat /\ Len(input) + wanted = command.frame /\ command.frame \in Nat
           /\ Before(reader.next) <= Total
           /\ reader.next = Len(file.frames) + 1 \/ ~Good(reader.next) =>
                  Total = Before(reader.next)
<1>1. InFrames /\ FlacInput /\ ~PcmInput /\ FlacGiven /\ ~command.raw
    BY OfFrames
<1>2. pc \notin {"metadata", "identify", "refused"} /\ pc \notin Early
    BY DEF Early
<1>3. /\ reader.max = file.max
      /\ reader.next \in 1..(Len(file.frames) + 1)
      /\ \A i \in 1..(reader.next - 1) : Good(i)
      /\ Len(reader.block) \in Nat /\ Len(reader.block) <= reader.max
      /\ reader.blockpos \in 0..Len(reader.block)
      /\ Before(reader.next) \in Nat
      /\ Len(reader.block) <= Before(reader.next)
      /\ reader.block = [i \in 1..Len(reader.block) |->
                            Before(reader.next) - Len(reader.block) + i]
      /\ Taken + Len(reader.block) - reader.blockpos = Before(reader.next)
    BY <1>1, <1>2 DEF IInv, FlacReading
<1>4. /\ Len(fed) \in Nat /\ Len(input) \in Nat /\ Taken = Len(fed) + Len(input)
      /\ Total \in Nat /\ Taken <= Total
      /\ wanted \in Nat /\ Len(input) + wanted = command.frame
    BY <1>2 DEF IInv, Feeding, Taken
<1>5. Len(file.frames) \in Nat
    BY <1>1, FrameTypes
<1>6. PICK g \in 0..Len(file.frames) :
          /\ \A i \in 1..g : Good(i)
          /\ g < Len(file.frames) => ~Good(g + 1)
          /\ Max(GoodFrames) = g /\ g \in GoodFrames
    BY <1>1, LastGood
<1>7. Total = Before(g + 1)
    BY <1>1, <1>6 DEF Total
<1>8. reader.next - 1 <= g
    <2> SUFFICES ASSUME g < reader.next - 1 PROVE FALSE
        BY <1>3, <1>5, <1>6
    <2>1. g + 1 \in 1..(reader.next - 1) /\ g < Len(file.frames)
        BY <1>3, <1>5, <1>6
    <2> QED
        BY <1>3, <1>6, <2>1
<1>9. Before(reader.next) <= Total
    <2>1. g + 1 \in 1..(Len(file.frames) + 1) /\ reader.next <= g + 1
        BY <1>3, <1>5, <1>6, <1>8
    <2> QED
        BY <1>1, <1>3, <1>7, <2>1, BeforeGrows
<1>10. ASSUME reader.next = Len(file.frames) + 1 \/ ~Good(reader.next)
       PROVE  Total = Before(reader.next)
    <2>1. g + 1 = reader.next
        <3>1. CASE reader.next = Len(file.frames) + 1
            BY <1>3, <1>5, <1>6, <1>8, <3>1
        <3>2. CASE ~Good(reader.next)
            <4> SUFFICES ASSUME g > reader.next - 1 PROVE FALSE
                BY <1>3, <1>5, <1>6, <1>8
            <4>1. reader.next \in 1..g
                BY <1>3, <1>5, <1>6
            <4> QED
                BY <1>6, <3>2, <4>1
        <3> QED
            BY <1>10, <3>1, <3>2
    <2> QED
        BY <1>7, <2>1
<1>11. command.frame \in Nat
    BY CommandsAssumption DEF IInv, Run
<1> QED
    BY <1>1, <1>3, <1>4, <1>5, <1>9, <1>10, <1>11

(* A step of the reader of FLAC leaves all else alone.                     *)
LEMMA FlacStep ==
    ASSUME IInv, pc = "read", reader.kind = "flac", reader'.kind = "flac",
           Same, UNCHANGED <<pos, stack, channels>>, UNCHANGED encVars,
           pc' \in {"read", "encode"}
    PROVE  /\ Run' /\ NotOpen' /\ Kinds' /\ Stacked' /\ Walk' /\ PcmReading' /\ NotLost' /\ ClosesAll'
           /\ ~PcmInput' /\ FlacInput' /\ Total' = Total /\ file' = file /\ command' = command
           /\ \A k, n : From(k, n)' = From(k, n)
           /\ \A k : Before(k)' = Before(k) /\ Good(k)' = Good(k)
           /\ pc' \notin {"metadata", "identify", "refused"} /\ pc' \notin Early
           /\ pos' = pos /\ fed' = fed
<1>1. FlacInput /\ ~PcmInput /\ ~command.raw /\ Run
    BY OfFrames DEF IInv
<1>2. /\ PcmInput' = PcmInput /\ FlacInput' = FlacInput /\ Readable' = Readable
      /\ file' = file /\ command' = command /\ seekable' = seekable /\ Base' = Base
      /\ Total' = Total /\ \A k, n : From(k, n)' = From(k, n)
      /\ \A k : Before(k)' = Before(k) /\ Good(k)' = Good(k)
    BY SameFile, SameSource DEF Same
<1>3. /\ pc' \notin {"metadata", "identify", "refused"} /\ pc' \notin Early
      /\ pos' = pos /\ fed' = fed /\ channels' = channels
    BY DEF Early, encVars
<1>4. Run'
    BY <1>1, <1>2, <1>3 DEF Run
<1>5. NotOpen' /\ Kinds' /\ Walk' /\ PcmReading' /\ ClosesAll' /\ NotLost'
    BY <1>1, <1>2, <1>3 DEF NotOpen, Kinds, Walk, PcmReading, ClosesAll, NotLost
<1>6. Stacked'
    BY <1>2, <1>3 DEF IInv, Stacked, encVars, Early
<1> QED
    BY <1>1, <1>2, <1>3, <1>4, <1>5, <1>6

LEMMA FlacBlockKeeps ==
    ASSUME IInv, FlacBlock, UNCHANGED encVars
    PROVE  IInv'
<1> DEFINE frame == file.frames[reader.next]
<1>1. /\ pc = "read" /\ reader.kind = "flac" /\ wanted > 0 /\ reader.blockpos = Len(reader.block)
      /\ reader.next <= Len(file.frames) /\ reader.given >= frame.end
      /\ Same /\ UNCHANGED <<pos, stack, channels, wanted, input>>
      /\ \/ /\ FrameAccepted(frame) /\ pc' = pc
            /\ reader' = [reader EXCEPT !.block = SamplesOf(reader.next),
                                        !.blockpos = 0, !.next = @ + 1]
         \/ ~FrameAccepted(frame) /\ pc' = "encode" /\ reader' = reader
    BY DEF FlacBlock, BlockWanted, FrameThere, Same
<1>2. /\ InFrames /\ FlacInput /\ ~PcmInput /\ FlacGiven /\ ~command.raw
      /\ reader.max = file.max
      /\ reader.next \in 1..(Len(file.frames) + 1) /\ Len(file.frames) \in Nat
      /\ \A i \in 1..(reader.next - 1) : Good(i)
      /\ Taken + Len(reader.block) - reader.blockpos = Before(reader.next)
      /\ Len(fed) \in Nat /\ Len(input) \in Nat /\ Taken = Len(fed) + Len(input)
      /\ wanted \in Nat /\ Len(input) + wanted = command.frame /\ command.frame \in Nat
      /\ ~Good(reader.next) => Total = Before(reader.next)
    BY <1>1, FramesSoFar
<1>3. reader.next \in 1..Len(file.frames) /\ reader.next \in Nat
    BY <1>1, <1>2
<1>4. /\ frame.size \in Nat /\ frame.bits \in 1..32 /\ frame.end \in Nat /\ file.size \in Nat
    BY <1>2, <1>3, FrameTypes
<1>5. Taken = Before(reader.next) /\ Before(reader.next) \in Nat
    BY <1>1, <1>2, FramesSoFar
<1>6. Good(reader.next) <=> FrameAccepted(frame)
    <2>1. frame.end <= file.size
        <3>1. reader.given \in Nat /\ reader.given <= file.size
            BY <1>2, <1>4 DEF FlacGiven
        <3> QED
            BY <1>1, <1>4, <3>1
    <2> QED
        BY <1>2, <1>4, <2>1 DEF Good, FrameAccepted
<1>7. CASE ~FrameAccepted(frame) /\ pc' = "encode" /\ reader' = reader
    <2>1. /\ Run' /\ NotOpen' /\ Kinds' /\ Stacked' /\ Walk' /\ PcmReading' /\ NotLost' /\ ClosesAll'
          /\ ~PcmInput' /\ FlacInput' /\ Total' = Total /\ file' = file /\ command' = command
          /\ \A k, n : From(k, n)' = From(k, n)
          /\ \A k : Before(k)' = Before(k) /\ Good(k)' = Good(k)
          /\ pos' = pos /\ fed' = fed
        BY <1>1, <1>7, FlacStep
    <2>2. Taken' = Taken
        BY <1>1, <2>1 DEF Taken
    <2>3. FlacReading'
        <3>1. FlacGiven'
            BY <1>2, <1>7, <2>1 DEF FlacGiven
        <3> QED
            BY <1>1, <1>2, <1>7, <2>1, <2>2, <3>1 DEF IInv, FlacReading
    <2>4. Feeding'
        <3>1. Total = Taken
            BY <1>2, <1>5, <1>6, <1>7
        <3>2. pc \notin Early
            BY <1>1 DEF Early
        <3>3. /\ Len(fed) \in Nat /\ Len(input) \in Nat /\ Total \in Nat /\ Taken <= Total
              /\ fed = From(0, Len(fed)) /\ input = From(Len(fed), Len(input))
              /\ Len(input) + wanted <= command.frame
            BY <3>2 DEF IInv, Feeding
        <3>4. Len(input) < command.frame
            BY <1>1, <1>2
        <3> QED
            BY <1>1, <1>2, <1>7, <2>1, <2>2, <3>1, <3>3, <3>4 DEF Feeding
    <2> QED
        BY <1>7, <2>1, <2>3, <2>4 DEF IInv
<1>8. CASE /\ FrameAccepted(frame) /\ pc' = pc
           /\ reader' = [reader EXCEPT !.block = SamplesOf(reader.next),
                                       !.blockpos = 0, !.next = @ + 1]
    <2> DEFINE block == SamplesOf(reader.next)
    <2>1. block = [i \in 1..frame.size |-> Before(reader.next) + i]
        BY DEF SamplesOf
    <2>2. Len(block) = frame.size
        BY <1>4, <2>1
    <2>3. reader' = [reader EXCEPT !.block = block, !.blockpos = 0, !.next = reader.next + 1]
        BY <1>8
    <2> HIDE DEF block
    <2>4. /\ DOMAIN reader' = DOMAIN reader /\ reader'.max = reader.max
          /\ reader'.kind = reader.kind /\ reader'.buflen = reader.buflen
          /\ reader'.bufpos = reader.bufpos /\ reader'.given = reader.given
          /\ reader'.inOrder = reader.inOrder /\ reader'.eof = reader.eof
          /\ reader'.next = reader.next + 1
          /\ reader'.block = block /\ reader'.blockpos = 0
        BY <1>2, <2>3 DEF FlacGiven
    <2>5. /\ Run' /\ NotOpen' /\ Kinds' /\ Stacked' /\ Walk' /\ PcmReading' /\ NotLost' /\ ClosesAll'
          /\ ~PcmInput' /\ FlacInput' /\ Total' = Total /\ file' = file /\ command' = command
          /\ \A k, n : From(k, n)' = From(k, n)
          /\ \A k : Before(k)' = Before(k) /\ Good(k)' = Good(k)
          /\ pos' = pos /\ fed' = fed
        BY <1>1, <1>8, <2>4, FlacStep
    <2>6. Taken' = Taken
        BY <1>1, <2>5 DEF Taken
    <2>7. Feeding'
        BY <1>1, <1>8, <2>5, FedAlike DEF IInv
    <2>8. /\ Before(reader.next + 1) = Before(reader.next) + frame.size
          /\ reader.next + 1 \in 1..(Len(file.frames) + 1)
        BY <1>2, <1>3, BeforeIs, SMTT(30)
    <2>9. \A i \in 1..((reader.next + 1) - 1) : Good(i)
        <3>1. ASSUME NEW i \in 1..((reader.next + 1) - 1) PROVE Good(i)
            <4>1. i \in 1..(reader.next - 1) \/ i = reader.next
                BY <1>3
            <4> QED
                BY <1>2, <1>6, <1>8, <4>1
        <3> QED
            BY <3>1
    <2>10. block = [i \in 1..Len(block) |-> Before(reader.next + 1) - Len(block) + i]
        <3>1. Before(reader.next + 1) - Len(block) = Before(reader.next)
            BY <1>4, <1>5, <2>2, <2>8
        <3> QED
            BY <2>1, <2>2, <3>1
    <2>11. FlacReading'
        <3>1. FlacGiven'
            BY <1>2, <2>4, <2>5 DEF FlacGiven
        <3>2. pc' # "metadata"
            BY <1>1, <1>8
        <3>3. /\ Len(block) <= reader.max
              /\ Before(reader.next + 1) \in Nat /\ Len(block) <= Before(reader.next + 1)
              /\ Taken + Len(block) - 0 = Before(reader.next + 1)
              /\ 0 \in 0..Len(block)
            BY <1>2, <1>4, <1>5, <1>6, <1>8, <2>2, <2>5, <2>8, SMTT(30) DEF FrameAccepted
        <3>4. /\ reader'.max = file'.max
              /\ reader'.next \in 1..(Len(file'.frames) + 1)
              /\ \A i \in 1..(reader'.next - 1) : Good(i)'
              /\ Before(reader.next)' = Before(reader.next + 1)
            BY <1>2, <2>4, <2>5, <2>8, <2>9, <3>3
        <3> QED
            BY <1>4, <2>2, <2>4, <2>5, <2>6, <2>10, <3>1, <3>2, <3>3, <3>4 DEF FlacReading
    <2> QED
        BY <1>1, <1>8, <2>5, <2>7, <2>11 DEF IInv
<1> QED
    BY <1>1, <1>7, <1>8

LEMMA FlacEndsKeeps ==
    ASSUME IInv, FlacEnds, UNCHANGED encVars
    PROVE  IInv'
<1>1. /\ pc = "read" /\ reader.kind = "flac" /\ wanted > 0 /\ reader.blockpos = Len(reader.block)
      /\ ~FrameThere /\ reader.eof /\ pc' = "encode"
      /\ Same /\ UNCHANGED <<pos, reader, stack, channels, wanted, input>>
    BY DEF FlacEnds, BlockWanted, Same, inVars
<1>2. /\ InFrames /\ FlacInput /\ ~PcmInput /\ FlacGiven /\ ~command.raw
      /\ reader.next \in 1..(Len(file.frames) + 1) /\ Len(file.frames) \in Nat
      /\ Taken + Len(reader.block) - reader.blockpos = Before(reader.next)
      /\ Len(fed) \in Nat /\ Len(input) \in Nat /\ Taken = Len(fed) + Len(input)
      /\ wanted \in Nat /\ Len(input) + wanted = command.frame /\ command.frame \in Nat
      /\ Len(reader.block) \in Nat
      /\ reader.next = Len(file.frames) + 1 \/ ~Good(reader.next) =>
             Total = Before(reader.next)
    BY <1>1, FramesSoFar
<1>3. Taken = Total
    <2>1. reader.given = file.size /\ file.size \in Nat
        BY <1>1, <1>2, FrameTypes DEF FlacGiven
    <2>2. CASE reader.next <= Len(file.frames)
        <3>1. ~(reader.given >= file.frames[reader.next].end)
            BY <1>1, <2>2 DEF FrameThere
        <3>2. file.frames[reader.next].end \in Nat
            BY <1>2, <2>2, FrameTypes
        <3>3. ~Good(reader.next)
            BY <2>1, <3>1, <3>2 DEF Good
        <3> QED
            BY <1>1, <1>2, <3>3
    <2>3. CASE ~(reader.next <= Len(file.frames))
        <3>1. reader.next = Len(file.frames) + 1
            BY <1>2, <2>3
        <3> QED
            BY <1>1, <1>2, <3>1
    <2> QED
        BY <2>2, <2>3
<1>4. /\ Run' /\ NotOpen' /\ Kinds' /\ Stacked' /\ Walk' /\ PcmReading' /\ NotLost' /\ ClosesAll'
      /\ ~PcmInput' /\ FlacInput' /\ Total' = Total /\ file' = file /\ command' = command
      /\ \A k, n : From(k, n)' = From(k, n)
      /\ \A k : Before(k)' = Before(k) /\ Good(k)' = Good(k)
      /\ pos' = pos /\ fed' = fed
    BY <1>1, FlacStep
<1>5. Taken' = Taken
    BY <1>1, <1>4 DEF Taken
<1>6. FlacReading'
    <2>1. FlacGiven'
        BY <1>1, <1>2, <1>4 DEF FlacGiven
    <2> QED
        BY <1>1, <1>2, <1>4, <1>5, <2>1 DEF IInv, FlacReading
<1>7. Feeding'
    <2>1. pc \notin Early
        BY <1>1 DEF Early
    <2>2. /\ Len(fed) \in Nat /\ Len(input) \in Nat /\ Total \in Nat /\ Taken <= Total
          /\ fed = From(0, Len(fed)) /\ input = From(Len(fed), Len(input))
          /\ Len(input) + wanted <= command.frame
        BY <2>1 DEF IInv, Feeding
    <2>3. Len(input) < command.frame
        BY <1>1, <1>2
    <2> QED
        BY <1>1, <1>2, <1>3, <1>4, <1>5, <2>2, <2>3 DEF Feeding
<1> QED
    BY <1>1, <1>4, <1>6, <1>7 DEF IInv

LEMMA FlacCopiesKeeps ==
    ASSUME IInv, FlacCopies, UNCHANGED encVars
    PROVE  IInv'
<1> DEFINE n == Least(wanted, Len(reader.block) - reader.blockpos)
<1>1. /\ pc = "read" /\ reader.kind = "flac"
      /\ Same /\ UNCHANGED <<pos, stack, channels>>
      /\ \/ wanted = 0 /\ pc' = "encode" /\ UNCHANGED <<reader, wanted, input>>
         \/ /\ wanted # 0 /\ reader.blockpos < Len(reader.block)
            /\ input' = input \o SubSeq(reader.block, reader.blockpos + 1, reader.blockpos + n)
            /\ reader' = [reader EXCEPT !.blockpos = reader.blockpos + n]
            /\ wanted' = wanted - n /\ pc' = pc
    BY DEF FlacCopies, AfterCopy, Same
<1>2. /\ InFrames /\ FlacInput /\ ~PcmInput /\ FlacGiven /\ ~command.raw
      /\ reader.next \in 1..(Len(file.frames) + 1) /\ Len(file.frames) \in Nat
      /\ Len(reader.block) \in Nat
      /\ reader.blockpos \in 0..Len(reader.block)
      /\ Before(reader.next) \in Nat
      /\ Len(reader.block) <= Before(reader.next)
      /\ reader.block = [i \in 1..Len(reader.block) |->
                               Before(reader.next) - Len(reader.block) + i]
      /\ Taken + Len(reader.block) - reader.blockpos = Before(reader.next)
      /\ Len(fed) \in Nat /\ Len(input) \in Nat /\ Taken = Len(fed) + Len(input)
      /\ Total \in Nat /\ Taken <= Total
      /\ wanted \in Nat /\ Len(input) + wanted = command.frame /\ command.frame \in Nat
      /\ Before(reader.next) <= Total
    BY <1>1, FramesSoFar
<1>3. fed = From(0, Len(fed)) /\ input = From(Len(fed), Len(input))
    BY <1>1 DEF IInv, Feeding, Early
<1>4. CASE wanted = 0 /\ pc' = "encode" /\ UNCHANGED <<reader, wanted, input>>
    <2>1. /\ Run' /\ NotOpen' /\ Kinds' /\ Stacked' /\ Walk' /\ PcmReading' /\ NotLost' /\ ClosesAll'
          /\ ~PcmInput' /\ FlacInput' /\ Total' = Total /\ file' = file /\ command' = command
          /\ \A k, m : From(k, m)' = From(k, m)
          /\ \A k : Before(k)' = Before(k) /\ Good(k)' = Good(k)
          /\ pos' = pos /\ fed' = fed
        BY <1>1, <1>4, FlacStep
    <2>2. Taken' = Taken
        BY <1>4, <2>1 DEF Taken
    <2>3. FlacReading'
        <3>1. FlacGiven'
            BY <1>2, <1>4, <2>1 DEF FlacGiven
        <3> QED
            BY <1>1, <1>2, <1>4, <2>1, <2>2, <3>1 DEF IInv, FlacReading
    <2>4. Feeding'
        BY <1>2, <1>3, <1>4, <2>1, <2>2 DEF Feeding
    <2> QED
        BY <1>4, <2>1, <2>3, <2>4 DEF IInv
<1>5. CASE /\ wanted # 0 /\ reader.blockpos < Len(reader.block)
           /\ input' = input \o SubSeq(reader.block, reader.blockpos + 1, reader.blockpos + n)
           /\ reader' = [reader EXCEPT !.blockpos = reader.blockpos + n]
           /\ wanted' = wanted - n /\ pc' = pc
    <2>1. n \in Nat /\ n <= wanted /\ reader.blockpos + n <= Len(reader.block)
        <3>1. wanted \in Nat /\ reader.blockpos \in Nat /\ Len(reader.block) \in Nat
            BY <1>2
        <3>2. reader.blockpos < Len(reader.block)
            BY <1>5
        <3> QED
            BY <3>1, <3>2 DEF Least
    <2> HIDE DEF n
    <2>2. /\ DOMAIN reader' = DOMAIN reader /\ reader'.max = reader.max
          /\ reader'.kind = reader.kind /\ reader'.buflen = reader.buflen
          /\ reader'.bufpos = reader.bufpos /\ reader'.given = reader.given
          /\ reader'.inOrder = reader.inOrder /\ reader'.eof = reader.eof
          /\ reader'.next = reader.next
          /\ reader'.block = reader.block /\ reader'.blockpos = reader.blockpos + n
        BY <1>2, <1>5 DEF FlacGiven
    <2>3. SubSeq(reader.block, reader.blockpos + 1, reader.blockpos + n) = From(Taken, n)
        <3> DEFINE b == reader.block
                   p == reader.blockpos
                   s == SubSeq(b, p + 1, p + n)
        <3>1. b = [i \in 1..Len(b) |-> Before(reader.next) - Len(b) + i]
            BY <1>2
        <3>2. Len(b) \in Nat /\ p \in Nat /\ p + n <= Len(b)
            BY <1>2, <2>1
        <3> HIDE DEF b, p
        <3>3. s = [i \in 1..(1 + (p + n) - (p + 1)) |-> b[i + (p + 1) - 1]]
            <4>1. p \in Nat /\ n \in Nat
                BY <2>1, <3>2
            <4> QED
                BY <4>1
        <3>4. 1 + (p + n) - (p + 1) = n
            BY <2>1, <3>2
        <3>5. ASSUME NEW i \in 1..n PROVE b[i + (p + 1) - 1] = Taken + i
            <4>1. i + (p + 1) - 1 = p + i /\ p + i \in 1..Len(b)
                BY <2>1, <3>2
            <4>2. b[p + i] = Before(reader.next) - Len(b) + (p + i)
                BY <3>1, <4>1
            <4>3. Taken = Before(reader.next) - Len(b) + p
                BY <1>2, SMTT(30) DEF b, p
            <4>4. Before(reader.next) \in Nat
                BY <1>2
            <4> QED
                BY <3>2, <4>1, <4>2, <4>3, <4>4
        <3>6. From(Taken, n) = [i \in 1..n |-> Taken + i]
            BY <1>2 DEF From, Name
        <3>7. s = [i \in 1..n |-> Taken + i]
            BY <3>3, <3>4, <3>5
        <3> QED
            BY <3>6, <3>7 DEF b, p
    <2>4. input' = From(Len(fed), Len(input) + n)
        <3>1. input' = From(Len(fed), Len(input)) \o From(Len(fed) + Len(input), n)
            BY <1>2, <1>3, <1>5, <2>3
        <3>2. Len(fed) \in Nat /\ Len(input) \in Nat
            BY <1>2
        <3> QED
            BY <2>1, <3>1, <3>2, FromGoesOn
    <2>5. Len(input') = Len(input) + n /\ Len(input) + n \in Nat
        BY <1>2, <2>1, <2>4, FromIs
    <2>6. /\ Run' /\ NotOpen' /\ Kinds' /\ Stacked' /\ Walk' /\ PcmReading' /\ NotLost' /\ ClosesAll'
          /\ ~PcmInput' /\ FlacInput' /\ Total' = Total /\ file' = file /\ command' = command
          /\ \A k, m : From(k, m)' = From(k, m)
          /\ \A k : Before(k)' = Before(k) /\ Good(k)' = Good(k)
          /\ pos' = pos /\ fed' = fed
        BY <1>1, <1>5, <2>2, FlacStep
    <2>7. Taken' = Taken + n
        BY <1>2, <2>1, <2>5, <2>6 DEF Taken
    <2>8. FlacReading'
        <3>1. FlacGiven'
            BY <1>2, <2>2, <2>6 DEF FlacGiven
        <3>2. (Taken + n) + Len(reader.block) - (reader.blockpos + n) = Before(reader.next)
            BY <1>2, <2>1
        <3>3. reader.blockpos + n \in 0..Len(reader.block)
            BY <1>2, <2>1
        <3> QED
            BY <1>1, <1>2, <1>5, <2>2, <2>6, <2>7, <3>1, <3>2, <3>3 DEF IInv, FlacReading
    <2>9. Feeding'
        <3>1. Taken + n <= Total
            BY <1>2, <2>1, SMTT(30)
        <3>2. wanted' \in Nat /\ Len(input') + wanted' = command.frame /\ command.frame \in Nat
            <4>1. wanted \in Nat /\ Len(input) \in Nat /\ Len(input) + wanted = command.frame
                BY <1>2
            <4>2. wanted' = wanted - n
                BY <1>5
            <4> QED
                BY <2>1, <2>5, <4>1, <4>2
        <3>3. input' = From(Len(fed), Len(input'))
            BY <2>4, <2>5
        <3>4. /\ Len(fed) \in Nat /\ Len(input') \in Nat /\ Total \in Nat
              /\ pc' = "read" /\ fed' = fed /\ Total' = Total /\ command' = command
              /\ From(0, Len(fed))' = From(0, Len(fed)) /\ input' = From(Len(fed), Len(input))'
            BY <1>1, <1>2, <1>5, <2>5, <2>6, <3>3
        <3> QED
            BY <1>3, <2>7, <3>1, <3>2, <3>4 DEF Feeding
    <2> QED
        BY <1>1, <1>5, <2>6, <2>8, <2>9 DEF IInv
<1> QED
    BY <1>1, <1>4, <1>5

-----------------------------------------------------------------------------
(* Reading PCM.                                                            *)

(* The fewest of three, in two ways.                                       *)
LEMMA ReadUp ==
    ASSUME NEW total \in Nat, NEW fits \in Nat, NEW k \in Nat, NEW w \in Nat,
           k <= fits, total > 0 => k <= total
    PROVE  LET room == IF total > 0 /\ w > total - k THEN total - k ELSE w
               n == Least(room, fits - k)
               all == IF total > 0 THEN Least(total, fits) ELSE fits
           IN  /\ n \in Nat /\ n <= room /\ room \in Nat /\ room <= w /\ n <= fits - k
               /\ total > 0 => k + n <= total
               /\ k + n <= all
               /\ n < w => k + n = all
               /\ n = w => n = room
BY DEF Least

LEMMA ReadPcmKeeps ==
    ASSUME IInv, ReadPcm, UNCHANGED encVars
    PROVE  IInv'
<1> DEFINE there == IF pos < file.size THEN (file.size - pos) \div reader.bytes ELSE 0
           n == Least(Room(wanted), there)
           k == Len(fed)
<1>1. /\ pc = "read" /\ reader.kind = "wav" /\ pc' = "encode" /\ wanted' = 0
      /\ Same /\ UNCHANGED <<stack, channels>> /\ UNCHANGED encVars
      /\ input' = IF Unsupported THEN <<>>
                  ELSE [i \in 1..n |-> pos + (i - 1) * reader.bytes]
      /\ reader' = [reader EXCEPT !.read = reader.read + n]
      /\ pos' = IF n < Room(wanted) THEN file.size ELSE pos + n * reader.bytes
    BY DEF ReadPcm, Same
<1>2. pc \notin Early /\ PcmInput /\ Run
    BY <1>1 DEF Early, IInv, Kinds
<1>3. /\ DOMAIN reader = {"kind", "bits", "bytes", "total", "read", "big"}
      /\ reader.bytes = SampleBytes
      /\ SampleBytes \in Nat \ {0} /\ FirstByte \in Nat /\ pos \in Nat
      /\ reader.total \in Nat /\ reader.read \in Nat
      /\ reader.total > 0 => reader.read <= reader.total
      /\ Promised = IF reader.total > 0 THEN {reader.total} ELSE {}
      /\ Unsupported <=> Refused24
      /\ input = <<>> /\ Placed /\ reader.read = Taken
    BY <1>1, <1>2 DEF IInv, PcmReading
<1>4. /\ k \in Nat /\ Taken = k /\ Total \in Nat /\ k <= Total /\ fed = From(0, k)
      /\ wanted = command.frame /\ command.frame \in Nat \ {0}
    <2>1. Len(input) = 0
        BY <1>3
    <2>2. command.frame \in Nat \ {0}
        BY <1>2, CommandsAssumption DEF Run
    <2> QED
        BY <1>1, <1>2, <2>1, <2>2 DEF IInv, Feeding, Taken
<1>5. Measured /\ file.size \in Nat
    BY <1>2, <1>3, FilesAssumption DEF Measured, Run
<1>6. Fits \in Nat /\ Total = (IF Refused24 THEN 0 ELSE Sought(reader.total)) /\ Sought(reader.total) \in Nat
    BY <1>2, <1>3, <1>5, ThereIs, TotalIs
<1>7. k <= Fits
    BY <1>4, <1>6 DEF Sought, Least
<1>8. there = Fits - k
    <2>1. pos = FirstByte + k * SampleBytes \/ (k = 0 /\ pos >= file.size /\ FirstByte > file.size)
        BY <1>3, <1>4 DEF Placed
    <2> QED
        BY <1>3, <1>4, <1>5, <1>7, <2>1, StillThere
<1>9. Room(wanted) = IF reader.total > 0 /\ wanted > reader.total - k THEN reader.total - k ELSE wanted
    BY <1>3, <1>4 DEF Room
<1>10. /\ n \in Nat /\ n <= Room(wanted) /\ Room(wanted) \in Nat /\ Room(wanted) <= wanted
       /\ n <= Fits - k
       /\ reader.total > 0 => k + n <= reader.total
       /\ k + n <= Sought(reader.total)
       /\ n < wanted => k + n = Sought(reader.total)
       /\ n = wanted => n = Room(wanted)
    <2>1. n = Least(Room(wanted), Fits - k)
        BY <1>8
    <2>2. reader.total > 0 => k <= reader.total
        BY <1>3, <1>4
    <2>3. wanted \in Nat /\ k \in Nat /\ Fits \in Nat /\ reader.total \in Nat /\ k <= Fits
        BY <1>3, <1>4, <1>6, <1>7
    <2> HIDE DEF n, there, k
    <2> DEFINE room == IF reader.total > 0 /\ wanted > reader.total - k
                       THEN reader.total - k ELSE wanted
               m == Least(room, Fits - k)
               all == IF reader.total > 0 THEN Least(reader.total, Fits) ELSE Fits
    <2>4. /\ m \in Nat /\ m <= room /\ room \in Nat /\ room <= wanted /\ m <= Fits - k
          /\ reader.total > 0 => k + m <= reader.total
          /\ k + m <= all
          /\ m < wanted => k + m = all
          /\ m = wanted => m = room
        BY <2>2, <2>3, ReadUp
    <2>5. Room(wanted) = room /\ n = m /\ Sought(reader.total) = all
        BY <1>9, <2>1 DEF Sought
    <2> HIDE DEF room, m, all
    <2> QED
        BY <2>4, <2>5
<1> HIDE DEF there, n, k
<1>11. n > 0 => pos = FirstByte + k * SampleBytes
    <2>1. CASE Taken = 0 /\ pos >= file.size /\ FirstByte > file.size
        <3>1. Fits = 0
            BY <1>3, <1>5, <2>1 DEF Fits
        <3> QED
            BY <1>4, <1>6, <1>10, <3>1
    <2>2. CASE pos = FirstByte + Taken * SampleBytes
        BY <1>4, <2>2
    <2> QED
        BY <1>3, <2>1, <2>2 DEF Placed
<1>12. k * SampleBytes \in Nat /\ n * SampleBytes \in Nat /\ (k + n) * SampleBytes = k * SampleBytes + n * SampleBytes
    BY <1>3, <1>4, <1>10, TimesNat, Distributes
<1>13. /\ DOMAIN reader' = DOMAIN reader /\ reader'.kind = reader.kind
       /\ reader'.bits = reader.bits /\ reader'.bytes = reader.bytes
       /\ reader'.total = reader.total /\ reader'.read = reader.read + n
       /\ reader'.big = reader.big
    BY <1>1, <1>3
<1>14. /\ file' = file /\ command' = command /\ seekable' = seekable
       /\ PcmInput' = PcmInput /\ FlacInput' = FlacInput /\ Base' = Base
       /\ Refused24' = Refused24 /\ Promised' = Promised
       /\ SampleBytes' = SampleBytes /\ FirstByte' = FirstByte
       /\ Total' = Total /\ Readable' = Readable /\ ~FlacInput
       /\ \A i, j : From(i, j)' = From(i, j)
       /\ fed' = fed
    BY <1>1, <1>2, SameSource DEF Same, encVars, PcmInput, FlacInput, Run
<1>15. pos' \in Nat
    BY <1>1, <1>3, <1>5, <1>12
<1>16. Run'
    BY <1>1, <1>2, <1>14, <1>15 DEF Run
<1>17. NotOpen' /\ Walk' /\ FlacReading' /\ ClosesAll' /\ NotLost'
    BY <1>1, <1>14 DEF NotOpen, Walk, FlacReading, ClosesAll, NotLost, OnTheWay, Early
<1>18. Kinds'
    BY <1>1, <1>2, <1>13, <1>14 DEF Kinds, Early
<1>19. Stacked'
    BY <1>1, <1>14 DEF IInv, Stacked, encVars, Early
<1>20. CASE Refused24
    <2>1. input' = <<>> /\ Total = 0 /\ k = 0
        BY <1>1, <1>3, <1>4, <1>6, <1>20
    <2>2. Taken' = 0 /\ Len(input') = 0 /\ Len(fed') = 0
        BY <1>14, <2>1 DEF Taken, k
    <2>3. Feeding'
        <3>1. From(0, 0)' = <<>>
            BY DEF From
        <3>2. fed' = <<>>
            BY <1>4, <1>14, <2>1, FromIs
        <3>3. input' = <<>> /\ Total' = 0 /\ pc' = "encode" /\ wanted' = 0 /\ command'.frame \in Nat \ {0}
            BY <1>1, <1>4, <1>14, <2>1
        <3> QED
            BY <2>2, <3>1, <3>2, <3>3 DEF Feeding
    <2>4. PcmReading'
        <3>1. Len(input') # command'.frame
            BY <1>4, <1>14, <2>2
        <3>2. Unsupported' <=> Refused24'
            BY <1>3, <1>13, <1>14 DEF Unsupported
        <3>3. reader'.read \in Nat /\ (reader'.total > 0 => reader'.read <= reader'.total)
            BY <1>3, <1>4, <1>10, <1>13
        <3> QED
            BY <1>1, <1>3, <1>13, <1>14, <1>15, <3>1, <3>2, <3>3 DEF PcmReading
    <2> QED
        BY <1>1, <1>16, <1>17, <1>18, <1>19, <2>3, <2>4 DEF IInv
<1>21. CASE ~Refused24
    <2>1. input' = [i \in 1..n |-> pos + (i - 1) * SampleBytes] /\ Total = Sought(reader.total)
        BY <1>1, <1>3, <1>6, <1>21
    <2>2. input' = From(k, n)
        <3>1. From(k, n) = [i \in 1..n |-> FirstByte + ((k + i) - 1) * SampleBytes]
            BY <1>2 DEF From, Name
        <3>2. ASSUME NEW i \in 1..n
              PROVE  pos + (i - 1) * SampleBytes = FirstByte + ((k + i) - 1) * SampleBytes
            <4>1. i - 1 \in Nat /\ (k + i) - 1 = k + (i - 1) /\ n > 0
                BY <1>4, <1>10
            <4>2. (k + (i - 1)) * SampleBytes = k * SampleBytes + (i - 1) * SampleBytes
                BY <1>3, <1>4, <4>1, Distributes
            <4>3. (i - 1) * SampleBytes \in Nat
                BY <1>3, <4>1, TimesNat
            <4> QED
                BY <1>3, <1>11, <1>12, <4>1, <4>2, <4>3
        <3> QED
            BY <2>1, <3>1, <3>2
    <2>3. Len(input') = n
        BY <1>4, <1>10, <2>2, FromIs
    <2>4. Taken' = k + n
        BY <1>14, <2>3 DEF Taken, k
    <2>5. Feeding'
        <3>1. Len(fed') = k
            BY <1>14 DEF k
        <3>2. /\ k + n <= Total /\ n <= command.frame /\ (n < command.frame => k + n = Total)
            BY <1>4, <1>10, <2>1
        <3>3. Total' = Total /\ command' = command /\ pc' = "encode" /\ wanted' = 0
            BY <1>1, <1>14
        <3>4. n + 0 = n
            BY <1>10
        <3>5. input' = From(Len(fed), Len(input))' /\ fed' = From(0, Len(fed))'
            BY <1>4, <1>14, <2>2, <2>3, <3>1
        <3> QED
            BY <1>4, <1>10, <2>3, <2>4, <3>1, <3>2, <3>3, <3>4, <3>5 DEF Feeding
    <2>6. PcmReading'
        <3>1. ASSUME Len(input') = command'.frame PROVE Placed' /\ reader'.read = Taken'
            <4>1. n = wanted /\ n = Room(wanted) /\ n > 0
                BY <1>4, <1>10, <1>14, <2>3, <3>1
            <4>2. pos' = pos + n * SampleBytes /\ pos = FirstByte + k * SampleBytes
                <5>1. ~(n < Room(wanted))
                    <6>1. n \in Nat /\ Room(wanted) \in Nat /\ n = Room(wanted)
                        BY <1>10, <4>1
                    <6>2. \A i \in Nat : ~(i < i)
                        OBVIOUS
                    <6> QED
                        BY <6>1, <6>2
                <5>2. pos' = pos + n * reader.bytes
                    BY <1>1, <5>1
                <5> QED
                    BY <1>3, <1>11, <4>1, <5>2
            <4>3. pos' = FirstByte + (k + n) * SampleBytes
                BY <1>3, <1>12, <4>2
            <4> QED
                BY <1>3, <1>4, <1>13, <1>14, <2>4, <4>3 DEF Placed
        <3>2. Unsupported' <=> Refused24'
            BY <1>3, <1>13, <1>14 DEF Unsupported
        <3>3. reader'.read \in Nat /\ (reader'.total > 0 => reader'.read <= reader'.total)
            BY <1>3, <1>4, <1>10, <1>13
        <3> QED
            BY <1>1, <1>3, <1>13, <1>14, <1>15, <3>1, <3>2, <3>3 DEF PcmReading
    <2> QED
        BY <1>1, <1>16, <1>17, <1>18, <1>19, <2>5, <2>6 DEF IInv
<1> QED
    BY <1>20, <1>21

-----------------------------------------------------------------------------
(* The steps of the program itself.                                        *)

(* They leave the file and the reader alone.                               *)
LEMMA ProgramStep ==
    ASSUME IInv, Same, UNCHANGED inVars,
           pc \in {"decide", "configure", "encode", "drain", "close"},
           pc' \in {"configure", "read", "drain", "close", "done", "fatal"},
           channels' \in Nat
    PROVE  /\ Run' /\ NotOpen' /\ Walk' /\ Kinds' /\ NotLost'
           /\ pc \notin Early /\ pc' \notin Early
           /\ pos' = pos /\ reader' = reader /\ file' = file /\ command' = command
           /\ PcmInput' = PcmInput /\ FlacInput' = FlacInput /\ Base' = Base
           /\ Refused24' = Refused24 /\ Promised' = Promised
           /\ SampleBytes' = SampleBytes /\ FirstByte' = FirstByte /\ Total' = Total
           /\ \A k, n : From(k, n)' = From(k, n)
           /\ \A k : Before(k)' = Before(k) /\ Good(k)' = Good(k)
           /\ command.frame \in Nat \ {0}
<1>1. /\ file' = file /\ command' = command /\ seekable' = seekable
      /\ PcmInput' = PcmInput /\ FlacInput' = FlacInput /\ Base' = Base
      /\ Refused24' = Refused24 /\ Promised' = Promised
      /\ SampleBytes' = SampleBytes /\ FirstByte' = FirstByte
      /\ Total' = Total /\ Readable' = Readable
      /\ \A k, n : From(k, n)' = From(k, n)
      /\ \A k : Before(k)' = Before(k) /\ Good(k)' = Good(k)
    BY SameFile, SameSource DEF Same
<1>2. pos' = pos /\ reader' = reader
    BY DEF inVars
<1>3. pc \notin Early /\ pc' \notin Early /\ Run
    BY DEF Early, IInv
<1>4. Run'
    BY <1>1, <1>2, <1>3 DEF Run
<1>5. NotOpen' /\ Walk' /\ NotLost'
    BY <1>1, <1>3 DEF NotOpen, Walk, NotLost, OnTheWay, Early
<1>6. Kinds'
    BY <1>1, <1>2, <1>3 DEF IInv, Kinds, Early
<1>7. command.frame \in Nat \ {0}
    BY <1>3, CommandsAssumption DEF Run
<1> QED
    BY <1>1, <1>2, <1>3, <1>4, <1>5, <1>6, <1>7

(* The reader is as before, if as much has been taken.                     *)
LEMMA ReaderKept ==
    ASSUME IInv, Same, UNCHANGED inVars, Taken' = Taken,
           pc \in {"decide", "configure", "encode", "drain", "close"},
           pc' \in {"configure", "read", "drain", "close", "done", "fatal"},
           channels' \in Nat,
           pc' = "read" => input' = <<>>,
           pc' \in {"configure", "read"} =>
               pc \in {"decide", "configure"} \/ (pc = "encode" /\ Len(input) = command.frame)
    PROVE  PcmReading' /\ FlacReading'
<1>1. /\ pc \notin Early /\ pc' \notin Early
      /\ pos' = pos /\ reader' = reader /\ file' = file /\ command' = command
      /\ PcmInput' = PcmInput /\ FlacInput' = FlacInput
      /\ Refused24' = Refused24 /\ Promised' = Promised
      /\ SampleBytes' = SampleBytes /\ FirstByte' = FirstByte
      /\ \A k : Before(k)' = Before(k) /\ Good(k)' = Good(k)
    BY ProgramStep
<1>2. Unsupported' = Unsupported
    BY <1>1 DEF Unsupported
<1>3. Placed => Placed'
    BY <1>1 DEF Placed
<1>4. PcmReading'
    BY <1>1, <1>2, <1>3 DEF IInv, PcmReading
<1>5. FlacGiven => FlacGiven'
    BY <1>1 DEF FlacGiven
<1>6. /\ pc \notin {"metadata", "identify", "refused"}
      /\ pc' \notin {"metadata", "identify", "refused"}
    OBVIOUS
<1>7. FlacReading'
    BY <1>1, <1>5, <1>6 DEF IInv, FlacReading
<1> QED
    BY <1>4, <1>7

(* The samples are as before, too, where none is encoded.                  *)
LEMMA FeedingKept ==
    ASSUME IInv, Same, UNCHANGED inVars, UNCHANGED <<wanted, input, fed>>,
           pc \in {"decide", "configure", "encode", "drain", "close"},
           channels' \in Nat,
           \/ pc = "decide" /\ pc' = "configure"
           \/ pc = "drain" /\ pc' = "close"
           \/ pc = "close" /\ pc' = "done"
           \/ pc' = "fatal"
    PROVE  Feeding' /\ PcmReading' /\ FlacReading'
<1>1. Taken' = Taken
    BY DEF Taken
<1>2. /\ pc \notin Early /\ Total' = Total /\ command' = command
      /\ \A k, n : From(k, n)' = From(k, n)
    BY ProgramStep
<1>3. Feeding'
    BY <1>1, <1>2 DEF IInv, Feeding
<1>4. PcmReading' /\ FlacReading'
    BY <1>1, ReaderKept
<1> QED
    BY <1>3, <1>4

(* Short sequences.                                                        *)
LEMMA OneAndTwo ==
    ASSUME NEW a, NEW b
    PROVE  /\ <<a>> \o <<b>> = <<a, b>> /\ <<>> \o <<b>> = <<b>>
           /\ SubSeq(<<a, b>>, 2, Len(<<a, b>>)) = <<b>>
<1> DEFINE S == {a, b}
           s == <<a>> \o <<b>>
           e == <<>> \o <<b>>
           t == SubSeq(<<a, b>>, 2, 2)
<1>1. a \in S /\ b \in S
    OBVIOUS
<1> HIDE DEF S
<1>2. s \in Seq(S) /\ Len(s) = 2 /\ s[1] = a /\ s[2] = b
    BY <1>1
<1>3. e \in Seq(S) /\ Len(e) = 1 /\ e[1] = b
    BY <1>1
<1>4. t \in Seq(S) /\ Len(t) = 1 /\ t[1] = b
    BY <1>1
<1>5. <<a, b>> \in Seq(S) /\ <<b>> \in Seq(S) /\ Len(<<a, b>>) = 2 /\ Len(<<b>>) = 1
    BY <1>1
<1> HIDE DEF s, e, t
<1>6. s = <<a, b>>
    BY <1>2, <1>5
<1>7. e = <<b>>
    BY <1>3, <1>5
<1>8. t = <<b>>
    BY <1>4, <1>5
<1> QED
    BY <1>5, <1>6, <1>7, <1>8 DEF s, e, t

LEMMA DecideKeeps ==
    ASSUME IInv, Decide
    PROVE  IInv'
<1>1. /\ pc = "decide" /\ Same /\ UNCHANGED inVars /\ UNCHANGED <<wanted, input, fed>>
      /\ freed' = freed
      /\ \/ /\ channels \in 1..255 /\ pc' = "configure"
            /\ downmix' = IF Mixes THEN Target ELSE 0
            /\ channels' = IF Mixes THEN Target ELSE channels
            /\ stack' = IF Mixes THEN <<"mix">> \o stack ELSE stack
         \/ pc' = "fatal" /\ UNCHANGED <<downmix, channels, stack>>
    BY DEF Decide, Same
<1>2. channels \in Nat /\ (Mixes => Target \in Nat \ {0})
    <2>1. command.downmix \in Int
        BY CommandsAssumption DEF IInv, Run
    <2>2. Target \in Int
        BY <2>1 DEF Target
    <2> QED
        BY <2>2 DEF IInv, Run, Mixes
<1>3. channels' \in Nat
    BY <1>1, <1>2
<1>4. downmix = 0 /\ stack = <<Base>>
    BY <1>1 DEF IInv, Stacked, Early
<1>5. /\ Run' /\ NotOpen' /\ Walk' /\ Kinds' /\ NotLost' /\ Base' = Base
    BY <1>1, <1>3, ProgramStep
<1>6. Feeding' /\ PcmReading' /\ FlacReading'
    BY <1>1, <1>3, FeedingKept
<1>7. Stacked'
    <2>1. <<"mix">> \o <<Base>> = <<"mix", Base>>
        BY OneAndTwo
    <2> QED
        BY <1>1, <1>2, <1>4, <1>5, <2>1 DEF Stacked
<1>8. ClosesAll' /\ pc' # "refused"
    BY <1>1 DEF ClosesAll
<1> QED
    BY <1>5, <1>6, <1>7, <1>8 DEF IInv

LEMMA ConfigureKeeps ==
    ASSUME IInv, Configure
    PROVE  IInv'
<1>1. /\ pc = "configure" /\ Same /\ UNCHANGED inVars /\ UNCHANGED <<input, fed>>
      /\ UNCHANGED <<stack, channels, downmix, freed>>
      /\ \/ pc' = "read" /\ wanted' = command.frame
         \/ pc' = "fatal" /\ wanted' = wanted
    BY DEF Configure, Same
<1>2. channels' \in Nat
    BY <1>1 DEF IInv, Run
<1>3. /\ Run' /\ NotOpen' /\ Walk' /\ Kinds' /\ NotLost' /\ Base' = Base
      /\ pc \notin Early /\ Total' = Total /\ command' = command
      /\ \A k, n : From(k, n)' = From(k, n) /\ command.frame \in Nat \ {0}
    BY <1>1, <1>2, ProgramStep
<1>4. /\ Len(fed) \in Nat /\ Len(input) \in Nat /\ Total \in Nat /\ Taken <= Total
      /\ fed = From(0, Len(fed)) /\ input = From(Len(fed), Len(input))
      /\ Taken = 0 /\ wanted = 0
    BY <1>1, <1>3 DEF IInv, Feeding
<1>5. Len(input) = 0 /\ Len(fed) = 0
    BY <1>4 DEF Taken
<1>6. Taken' = Taken
    BY <1>1 DEF Taken
<1>7. Feeding'
    BY <1>1, <1>3, <1>4, <1>5, <1>6 DEF Feeding
<1>8. PcmReading' /\ FlacReading'
    <2>1. input' = <<>>
        BY <1>1, <1>4, <1>5, FromIs
    <2> QED
        BY <1>1, <1>2, <1>6, <2>1, ReaderKept
<1>9. Stacked'
    BY <1>1, <1>3 DEF IInv, Stacked, Early
<1>10. ClosesAll' /\ pc' # "refused"
    BY <1>1 DEF ClosesAll
<1> QED
    BY <1>3, <1>7, <1>8, <1>9, <1>10 DEF IInv

LEMMA EncodeKeeps ==
    ASSUME IInv, Encode
    PROVE  IInv'
<1>1. /\ pc = "encode" /\ Same /\ UNCHANGED inVars /\ UNCHANGED <<stack, channels, downmix, freed>>
      /\ \/ /\ fed' = fed \o input /\ input' = <<>>
            /\ \/ Len(input) < command.frame /\ pc' = "drain" /\ wanted' = wanted
               \/ ~(Len(input) < command.frame) /\ pc' = "read" /\ wanted' = command.frame
         \/ pc' = "fatal" /\ UNCHANGED <<fed, input, wanted>>
    BY DEF Encode, IsLast, Same
<1>2. channels' \in Nat
    BY <1>1 DEF IInv, Run
<1>3. /\ Run' /\ NotOpen' /\ Walk' /\ Kinds' /\ NotLost' /\ Base' = Base
      /\ pc \notin Early /\ Total' = Total /\ command' = command
      /\ \A k, n : From(k, n)' = From(k, n) /\ command.frame \in Nat \ {0}
    BY <1>1, <1>2, ProgramStep
<1>4. Stacked'
    BY <1>1, <1>3 DEF IInv, Stacked, Early
<1>5. ClosesAll' /\ pc' # "refused"
    BY <1>1 DEF ClosesAll
<1>6. CASE pc' = "fatal" /\ UNCHANGED <<fed, input, wanted>>
    <2>1. Feeding' /\ PcmReading' /\ FlacReading'
        BY <1>1, <1>2, <1>6, FeedingKept
    <2> QED
        BY <1>3, <1>4, <1>5, <2>1 DEF IInv
<1>7. CASE /\ fed' = fed \o input /\ input' = <<>>
           /\ \/ Len(input) < command.frame /\ pc' = "drain" /\ wanted' = wanted
              \/ ~(Len(input) < command.frame) /\ pc' = "read" /\ wanted' = command.frame
    <2>1. /\ Len(fed) \in Nat /\ Len(input) \in Nat /\ Total \in Nat /\ Taken <= Total
          /\ fed = From(0, Len(fed)) /\ input = From(Len(fed), Len(input))
          /\ Len(input) <= command.frame
          /\ Len(input) < command.frame => Taken = Total
          /\ wanted \in Nat /\ Len(input) + wanted <= command.frame
        BY <1>1, <1>3 DEF IInv, Feeding
    <2>2. Taken = Len(fed) + Len(input) /\ Taken \in Nat
        BY <2>1 DEF Taken
    <2>3. fed' = From(0, Taken)
        <3>1. 0 + Len(fed) = Len(fed)
            BY <2>1
        <3>2. From(0, Len(fed)) \o From(0 + Len(fed), Len(input)) = From(0, Taken)
            BY <2>1, <2>2, FromGoesOn, ZenonT(60)
        <3> QED
            BY <1>7, <2>1, <3>1, <3>2
    <2>4. Len(fed') = Taken /\ Len(input') = 0
        BY <1>7, <2>2, <2>3, FromIs
    <2>5. Taken' = Taken
        BY <2>2, <2>4 DEF Taken
    <2>6. <<>> = From(Len(fed), Len(input))' /\ fed' = From(0, Len(fed))'
        <3>1. From(Len(fed'), 0) = <<>> /\ fed' = From(0, Len(fed'))
            BY <2>2, <2>3, <2>4, FromIs
        <3> QED
            BY <1>3, <2>4, <3>1
    <2>7. Feeding'
        BY <1>3, <1>7, <2>1, <2>2, <2>4, <2>5, <2>6 DEF Feeding
    <2>8. pc' = "read" => Len(input) = command.frame
        BY <1>3, <1>7, <2>1
    <2>9. PcmReading' /\ FlacReading'
        BY <1>1, <1>2, <1>7, <2>5, <2>8, ReaderKept
    <2> QED
        BY <1>3, <1>4, <1>5, <2>7, <2>9 DEF IInv
<1> QED
    BY <1>1, <1>6, <1>7

LEMMA DrainKeeps ==
    ASSUME IInv, Drain
    PROVE  IInv'
<1>1. /\ pc = "drain" /\ pc' \in {"close", "fatal"} /\ Same /\ UNCHANGED inVars
      /\ UNCHANGED <<wanted, input, fed>> /\ UNCHANGED <<stack, channels, downmix, freed>>
    BY DEF Drain, Same
<1>2. channels' \in Nat
    BY <1>1 DEF IInv, Run
<1>3. Run' /\ NotOpen' /\ Walk' /\ Kinds' /\ NotLost' /\ Base' = Base
    BY <1>1, <1>2, ProgramStep
<1>4. Feeding' /\ PcmReading' /\ FlacReading'
    BY <1>1, <1>2, FeedingKept
<1>5. Stacked'
    BY <1>1, <1>3 DEF IInv, Stacked, Early
<1>6. ClosesAll' /\ pc' # "refused"
    BY <1>1 DEF ClosesAll
<1> QED
    BY <1>3, <1>4, <1>5, <1>6 DEF IInv

LEMMA CloseKeeps ==
    ASSUME IInv, Close
    PROVE  IInv'
<1> DEFINE below == IF WasMixed THEN SubSeq(stack, 2, Len(stack)) ELSE stack
           function == IF command.raw \/ file.kind \in {"wav", "aiff"} THEN "wav" ELSE "flac"
<1>1. /\ pc = "close" /\ pc' = "done" /\ Same /\ UNCHANGED inVars
      /\ UNCHANGED <<wanted, input, fed>> /\ UNCHANGED <<channels, downmix>>
      /\ freed' = (IF WasMixed THEN <<[by |-> "mix", what |-> Top(stack)]>> ELSE <<>>)
                  \o <<[by |-> function, what |-> Top(below)]>>
      /\ stack' = SubSeq(below, 2, Len(below))
    BY DEF Close, Same
<1>2. channels' \in Nat
    BY <1>1 DEF IInv, Run
<1>3. Run' /\ NotOpen' /\ Walk' /\ Kinds' /\ NotLost'
    BY <1>1, <1>2, ProgramStep
<1>4. Feeding' /\ PcmReading' /\ FlacReading'
    BY <1>1, <1>2, FeedingKept
<1>5. Stacked' /\ pc' # "refused"
    BY <1>1 DEF Stacked
<1>6. function = Base
    BY DEF Base, PcmInput
<1>7. \/ downmix = 0 /\ stack = <<Base>>
      \/ downmix \in Nat \ {0} /\ stack = <<"mix", Base>>
    BY <1>1 DEF IInv, Stacked, Early
<1> HIDE DEF function
<1>8. ClosesAll'
    <2>1. SubSeq(<<Base>>, 2, Len(<<Base>>)) = <<>> /\ Top(<<Base>>) = Base
        BY DEF Top
    <2>2. CASE downmix = 0 /\ stack = <<Base>>
        <3>1. ~WasMixed /\ below = <<Base>>
            BY <2>2 DEF WasMixed
        <3>2. stack' = <<>> /\ freed' = <<>> \o <<[by |-> Base, what |-> Base]>>
            BY <1>1, <1>6, <2>1, <3>1
        <3>3. freed' = <<[by |-> Base, what |-> Base]>> /\ downmix' = 0
            BY <1>1, <2>2, <3>2, OneAndTwo
        <3>4. Len(freed') = 1 /\ \A i \in 1..1 : freed'[i].by = freed'[i].what
            BY <3>3
        <3> QED
            BY <3>2, <3>3, <3>4 DEF ClosesAll
    <2>3. CASE downmix \in Nat \ {0} /\ stack = <<"mix", Base>>
        <3>1. WasMixed /\ below = <<Base>> /\ Top(stack) = "mix"
            <4>1. SubSeq(<<"mix", Base>>, 2, Len(<<"mix", Base>>)) = <<Base>>
                BY OneAndTwo
            <4>2. Top(<<"mix", Base>>) = "mix"
                BY DEF Top
            <4> QED
                BY <2>3, <4>1, <4>2 DEF WasMixed
        <3>2. /\ stack' = <<>>
              /\ freed' = <<[by |-> "mix", what |-> "mix"]>> \o <<[by |-> Base, what |-> Base]>>
            BY <1>1, <1>6, <2>1, <3>1
        <3>3. /\ freed' = <<[by |-> "mix", what |-> "mix"], [by |-> Base, what |-> Base]>>
              /\ downmix' > 0
            BY <1>1, <2>3, <3>2, OneAndTwo
        <3>4. Len(freed') = 2 /\ \A i \in 1..2 : freed'[i].by = freed'[i].what
            BY <3>3
        <3> QED
            BY <3>2, <3>3, <3>4 DEF ClosesAll
    <2> QED
        BY <1>7, <2>2, <2>3
<1> QED
    BY <1>3, <1>4, <1>5, <1>8 DEF IInv

-----------------------------------------------------------------------------
(* All steps.                                                              *)

LEMMA StutterKeeps ==
    ASSUME IInv, UNCHANGED vars
    PROVE  IInv'
<1>1. /\ Same /\ UNCHANGED <<pc, pos, want, restarted, found, head, reader>>
      /\ UNCHANGED <<stack, channels, wanted, input, downmix, fed, freed>>
    BY DEF vars, inVars, encVars, Same
<1>2. /\ file' = file /\ command' = command /\ seekable' = seekable
      /\ PcmInput' = PcmInput /\ FlacInput' = FlacInput /\ Base' = Base
      /\ Refused24' = Refused24 /\ Promised' = Promised
      /\ SampleBytes' = SampleBytes /\ FirstByte' = FirstByte
      /\ Readable' = Readable /\ FormatAt' = FormatAt /\ DataAt' = DataAt
      /\ FormatChunk' = FormatChunk /\ DataChunk' = DataChunk
      /\ \A i : Start(i)' = Start(i)
      /\ \A c, n : FormatAccepted(c, n)' = FormatAccepted(c, n)
      /\ \A k : Before(k)' = Before(k) /\ Good(k)' = Good(k)
      /\ Feeding' = Feeding /\ Taken' = Taken
    BY <1>1, SameFile, SameSource, FedAlike DEF Same
<1>3. Run' /\ NotOpen' /\ Kinds' /\ Stacked'
    BY <1>1, <1>2 DEF IInv, Run, NotOpen, Kinds, Stacked
<1>4. Walk'
    BY <1>1, <1>2 DEF IInv, Walk, AtChunk, HeadRead
<1>5. Feeding' /\ PcmReading'
    BY <1>1, <1>2 DEF IInv, PcmReading, Placed, Unsupported
<1>6. FlacReading'
    <2>1. FlacGiven => FlacGiven'
        BY <1>1, <1>2 DEF FlacGiven
    <2> QED
        BY <1>1, <1>2, <2>1 DEF IInv, FlacReading
<1>7. NotLost'
    BY <1>1, <1>2 DEF IInv, NotLost, OnTheWay, Before1
<1>8. ClosesAll' /\ (pc' = "refused" => ~command'.raw)
    BY <1>1, <1>2 DEF IInv, ClosesAll
<1> QED
    BY <1>3, <1>4, <1>5, <1>6, <1>7, <1>8 DEF IInv

LEMMA StepKeeps ==
    ASSUME IInv, [Next]_vars
    PROVE  IInv'
<1>1. CASE Opening /\ UNCHANGED encVars
    BY <1>1, OpenRawKeeps, IdentifyKeeps, FindKeeps, ReadFormatKeeps, ReadDataKeeps,
       FlacAsksKeeps, FlacOpenedKeeps DEF Opening
<1>2. CASE Reading /\ UNCHANGED encVars
    BY <1>2, ReadPcmKeeps, FlacBlockKeeps, FlacEndsKeeps, FlacCopiesKeeps DEF Reading
<1>3. CASE Decide \/ Configure \/ Encode \/ Drain \/ Close
    BY <1>3, DecideKeeps, ConfigureKeeps, EncodeKeeps, DrainKeeps, CloseKeeps
<1>4. CASE UNCHANGED vars
    BY <1>4, StutterKeeps
<1> QED
    BY <1>1, <1>2, <1>3, <1>4 DEF Next

(* The inductive invariant: the samples taken are the first ones of the    *)
(* source, the reader stands behind them, and the walk over the headers of *)
(* a file that can be read has not gone past what it looks for.            *)
THEOREM Invariance == Spec => []IInv
<1>1. Init => IInv
    BY InitHolds
<1>2. IInv /\ [Next]_vars => IInv'
    BY StepKeeps
<1> QED
    BY <1>1, <1>2, PTL DEF Spec

(* The types: no read returns more samples than were asked for, a block of *)
(* FLAC fits in its buffer and is read inside it (flac.c:307), and         *)
(* wav_read (audio-in.c:715) does not read on after the promised samples.  *)
THEOREM TypeCorrect == Spec => []TypeOK
<1>1. IInv => TypeOK
    BY InvTypes
<1> QED
    BY <1>1, Invariance, PTL

(* The encoder is fed the samples of the source from the first one on, in  *)
(* their order, and at the end all of them, whatever the chunks, frames,   *)
(* blocks and requests (audio-in.c:715, flac.c:307, opusenc.c:1035).       *)
THEOREM SourceEncoded == Spec => []EncodesTheSource
<1>1. IInv => EncodesTheSource
    BY FedFromSource
<1> QED
    BY <1>1, Invariance, PTL

(* A file that the readers can read is opened, whatever chunks it has and  *)
(* in whatever order, as far as the readers allow it (open_audio_file).    *)
THEOREM ReadableAccepted == Spec => []RefusesOnlyUnreadable
<1>1. IInv => RefusesOnlyUnreadable
    BY DEF IInv, NotLost, RefusesOnlyUnreadable
<1> QED
    BY <1>1, Invariance, PTL

(* Every reader is closed, once and by its own function: clear_downmix and *)
(* the close function of the format (opusenc.c:1126).                      *)
THEOREM ReadersClosed == Spec => []ClosesAll
<1>1. IInv => ClosesAll
    BY DEF IInv
<1> QED
    BY <1>1, Invariance, PTL

-----------------------------------------------------------------------------
(* The parser of packets: what an encoder lays out is what it finds.       *)

(* What stands behind p bytes of a packet.                                 *)
At(data, p, piece) == \A i \in 1..Len(piece) : data[p + i] = piece[i]

LEMMA ConcatIs ==
    ASSUME NEW a \in Seq(Nat), NEW b \in Seq(Nat)
    PROVE  /\ a \o b \in Seq(Nat) /\ Len(a) \in Nat /\ Len(b) \in Nat
           /\ Len(a \o b) = Len(a) + Len(b)
           /\ \A i \in 1..(Len(a) + Len(b)) :
                 (a \o b)[i] = IF i <= Len(a) THEN a[i] ELSE b[i - Len(a)]
BY ConcatProperties

LEMMA Inside ==
    ASSUME NEW a \in Nat, NEW b \in Nat, NEW k \in 1..b
    PROVE  a + k \in 1..(a + b) /\ ~(a + k <= a) /\ (a + k) - a = k
OBVIOUS

LEMMA Within ==
    ASSUME NEW a \in Nat, NEW b \in Nat, NEW c \in Nat, NEW d \in Nat, NEW k \in 1..b, a + b <= c
    PROVE  a + k \in 1..(c + d) /\ a + k \in 1..c /\ a + k <= c
OBVIOUS

LEMMA AtParts ==
    ASSUME NEW data, NEW p \in Nat, NEW a \in Seq(Nat), NEW b \in Seq(Nat), At(data, p, a \o b)
    PROVE  At(data, p, a) /\ At(data, p + Len(a), b)
<1>1. /\ Len(a) \in Nat /\ Len(b) \in Nat /\ Len(a \o b) = Len(a) + Len(b)
      /\ \A i \in 1..(Len(a) + Len(b)) :
            (a \o b)[i] = IF i <= Len(a) THEN a[i] ELSE b[i - Len(a)]
    BY ConcatIs
<1>2. ASSUME NEW i \in 1..Len(a) PROVE data[p + i] = a[i]
    <2>1. i \in 1..(Len(a) + Len(b)) /\ i <= Len(a)
        BY <1>1
    <2> QED
        BY <1>1, <2>1 DEF At
<1>3. ASSUME NEW i \in 1..Len(b) PROVE data[(p + Len(a)) + i] = b[i]
    <2>1. Len(a) + i \in 1..(Len(a) + Len(b)) /\ ~(Len(a) + i <= Len(a)) /\ (Len(a) + i) - Len(a) = i
        BY <1>1
    <2>2. data[p + (Len(a) + i)] = (a \o b)[Len(a) + i]
        BY <1>1, <2>1 DEF At
    <2>3. p + (Len(a) + i) = (p + Len(a)) + i
        BY <1>1
    <2> QED
        BY <1>1, <2>1, <2>2, <2>3
<1> QED
    BY <1>2, <1>3 DEF At

(* What grows from each to the next grows.                                 *)
LEMMA Grows ==
    ASSUME NEW n \in Nat, NEW f \in [0..n -> Nat], \A i \in 1..n : f[i - 1] <= f[i],
           NEW k \in 0..n
    PROVE  \A i \in 0..k : f[i] <= f[k]
<1> DEFINE Wrong == {j \in 0..n : \E i \in 0..j : ~(f[i] <= f[j])}
<1>1. ASSUME Wrong # {} PROVE FALSE
    <2>1. PICK j \in Wrong : \A m \in Wrong : j <= m
        <3>1. Wrong \subseteq Nat
            OBVIOUS
        <3> HIDE DEF Wrong
        <3> QED
            BY <1>1, <3>1, Smallest
    <2>2. PICK i \in 0..j : ~(f[i] <= f[j])
        OBVIOUS
    <2>3. j \in 0..n /\ i \in 0..n /\ f[i] \in Nat /\ f[j] \in Nat
        BY <2>1, <2>2
    <2>4. i # j /\ j \in 1..n /\ j - 1 \in 0..n /\ i \in 0..(j - 1) /\ ~(j <= j - 1)
        BY <2>2, <2>3
    <2>5. j - 1 \notin Wrong
        BY <2>1, <2>4
    <2>6. f[i] <= f[j - 1]
        BY <2>4, <2>5
    <2>7. f[j - 1] \in Nat /\ f[j - 1] <= f[j]
        BY <2>4
    <2> QED
        BY <2>2, <2>3, <2>6, <2>7
<1> QED
    BY <1>1

(* The sums of the sizes so far.                                           *)
Sums(size, t) ==
    /\ t \in [0..Len(size) -> Nat] /\ t[0] = 0
    /\ \A i \in 1..Len(size) : t[i] = t[i - 1] + size[i]

LEMMA SumOf ==
    ASSUME NEW size \in Seq(Nat), NEW t, Sums(size, t)
    PROVE  Sum(size) = t[Len(size)]
<1> DEFINE n == Len(size)
           F(f) == [i \in 0..n |-> IF i = 0 THEN 0 ELSE f[i - 1] + size[i]]
           upTo == CHOOSE f : f = F(f)
<1>1. /\ n \in Nat /\ t \in [0..n -> Nat] /\ t[0] = 0
      /\ \A i \in 1..n : t[i] = t[i - 1] + size[i]
    BY DEF Sums
<1>2. Sum(size) = upTo[n]
    BY DEF Sum
<1>3. t = F(t)
    <2>1. \A i \in 0..n : t[i] = F(t)[i]
        BY <1>1
    <2>2. F(t) = [i \in 0..n |-> F(t)[i]]
        OBVIOUS
    <2> HIDE DEF F
    <2> QED
        BY <1>1, <2>1, <2>2
<1>4. upTo = F(upTo)
    <2> HIDE DEF F
    <2> QED
        BY <1>3
<1> HIDE DEF upTo
<1>5. \A i \in 0..n : upTo[i] = IF i = 0 THEN 0 ELSE upTo[i - 1] + size[i]
    BY <1>4, ZenonT(30)
<1> DEFINE Wrong == {i \in 0..n : upTo[i] # t[i]}
<1>6. ASSUME Wrong # {} PROVE FALSE
    <2>1. PICK i \in Wrong : \A j \in Wrong : i <= j
        <3>1. Wrong \subseteq Nat
            OBVIOUS
        <3> HIDE DEF Wrong
        <3> QED
            BY <1>6, <3>1, Smallest
    <2>2. i \in 0..n /\ upTo[i] # t[i] /\ upTo[0] = 0
        BY <1>1, <1>5, <2>1
    <2>3. i \in 1..n /\ i - 1 \in 0..n /\ ~(i <= i - 1)
        BY <1>1, <2>2
    <2>4. upTo[i - 1] = t[i - 1]
        BY <2>1, <2>3
    <2>5. upTo[i] = upTo[i - 1] + size[i]
        BY <1>5, <2>2, <2>3
    <2> QED
        BY <1>1, <2>2, <2>3, <2>4, <2>5
<1> QED
    BY <1>1, <1>2, <1>6

LEMMA SumsExist ==
    ASSUME NEW size \in Seq(Nat)
    PROVE  \E t : Sums(size, t)
<1> DEFINE n == Len(size)
           step == [x \in (1..n) \X Nat |-> x[2] + size[x[1]]]
<1>1. n \in Nat /\ step \in [(1..n) \X Nat -> Nat] /\ 0 \in Nat
    OBVIOUS
<1> HIDE DEF step
<1>2. PICK t : Runs(Nat, 0, step, n, t)
    BY <1>1, RunExists
<1>3. t \in [0..n -> Nat] /\ t[0] = 0 /\ \A i \in 1..n : t[i] = step[<<i, t[i - 1]>>]
    BY <1>2 DEF Runs
<1>4. ASSUME NEW i \in 1..n PROVE t[i] = t[i - 1] + size[i]
    <2>1. i - 1 \in 0..n
        BY <1>1
    <2>2. <<i, t[i - 1]>> \in (1..n) \X Nat
        BY <1>3, <2>1
    <2> QED
        BY <1>3, <2>2 DEF step
<1> QED
    BY <1>3, <1>4 DEF Sums

(* Frames of one size.                                                     *)
LEMMA SumsOfEqual ==
    ASSUME NEW size \in Seq(Nat), NEW t, Sums(size, t),
           NEW k \in Nat, \A i \in 1..Len(size) : size[i] = k
    PROVE  t[Len(size)] = k * Len(size)
<1> DEFINE n == Len(size)
           Wrong == {i \in 0..n : t[i] # k * i}
<1>1. /\ n \in Nat /\ t \in [0..n -> Nat] /\ t[0] = 0
      /\ \A i \in 1..n : t[i] = t[i - 1] + k
    BY DEF Sums
<1>2. ASSUME Wrong # {} PROVE FALSE
    <2>1. PICK i \in Wrong : \A j \in Wrong : i <= j
        <3>1. Wrong \subseteq Nat
            OBVIOUS
        <3> HIDE DEF Wrong
        <3> QED
            BY <1>2, <3>1, Smallest
    <2>2. i \in 0..n /\ t[i] # k * i
        BY <2>1
    <2>3. i # 0
        <3>1. k * 0 = 0
            OBVIOUS
        <3> QED
            BY <1>1, <2>2, <3>1
    <2>4. i \in 1..n /\ i - 1 \in 0..n /\ ~(i <= i - 1)
        BY <1>1, <2>2, <2>3
    <2>5. t[i - 1] = k * (i - 1)
        BY <2>1, <2>4
    <2>6. k * (i - 1) + k = k * i
        BY <2>4
    <2> QED
        BY <1>1, <2>2, <2>4, <2>5, <2>6
<1>3. n \in 0..n
    BY <1>1
<1> HIDE DEF n
<1>4. t[n] = k * n
    BY <1>2, <1>3
<1> QED
    BY <1>4 DEF n
-----------------------------------------------------------------------------
(* Pieces of a packet, one after the other.                                *)

AddPiece(s) == [x \in (1..Len(s)) \X Seq(Nat) |-> x[2] \o s[x[1]]]

(* FlattenSeq is the last of the sequences that grow by a piece each.      *)
LEMMA FlattenRuns ==
    ASSUME NEW s \in Seq(Seq(Nat))
    PROVE  \E f : Runs(Seq(Nat), <<>>, AddPiece(s), Len(s), f) /\ FlattenSeq(s) = f[Len(s)]
<1> DEFINE F(t) == [i \in 1..Len(s) |-> IF i = 1 THEN s[i] ELSE t[i - 1] \o s[i]]
           flatten == CHOOSE t : t = F(t)
<1>1. Len(s) \in Nat /\ (\A i \in 1..Len(s) : s[i] \in Seq(Nat)) /\ <<>> \in Seq(Nat)
    OBVIOUS
<1>2. AddPiece(s) \in [(1..Len(s)) \X Seq(Nat) -> Seq(Nat)]
    BY <1>1, ConcatProperties DEF AddPiece
<1>3. PICK f : Runs(Seq(Nat), <<>>, AddPiece(s), Len(s), f)
    BY <1>1, <1>2, RunExists
<1>4. f \in [0..Len(s) -> Seq(Nat)] /\ f[0] = <<>>
    BY <1>3 DEF Runs
<1>5. ASSUME NEW n \in 1..Len(s) PROVE f[n] = f[n - 1] \o s[n]
    <2>1. f[n] = AddPiece(s)[<<n, f[n - 1]>>]
        BY <1>3 DEF Runs
    <2>2. n - 1 \in 0..Len(s)
        BY <1>1
    <2>3. <<n, f[n - 1]>> \in (1..Len(s)) \X Seq(Nat)
        BY <1>4, <2>2
    <2> QED
        BY <2>1, <2>3 DEF AddPiece
<1>6. ASSUME NEW n \in 1..Len(s), n = 1 PROVE f[n] = s[n]
    BY <1>1, <1>4, <1>5, <1>6, ConcatEmptySeq, SMTT(30)
<1> DEFINE g == [i \in 1..Len(s) |-> f[i]]
<1>7. g = F(g)
    <2>1. ASSUME NEW n \in 1..Len(s) PROVE g[n] = F(g)[n]
        <3>1. n # 1 => n - 1 \in 1..Len(s)
            BY <1>1
        <3> QED
            BY <1>5, <1>6, <3>1
    <2> HIDE DEF F
    <2>2. F(g) = [n \in 1..Len(s) |-> F(g)[n]]
        BY DEF F
    <2> QED
        BY <2>1, <2>2
<1>8. flatten = F(flatten)
    <2> HIDE DEF F, g
    <2> QED
        BY <1>7
<1>9. CASE Len(s) = 0
    <2>1. FlattenSeq(s) = s /\ s = <<>>
        BY <1>9 DEF FlattenSeq
    <2> QED
        BY <1>3, <1>4, <1>9, <2>1
<1>10. CASE Len(s) # 0
    <2>1. FlattenSeq(s) = flatten[Len(s)]
        BY <1>10 DEF FlattenSeq
    <2> HIDE DEF flatten
    <2> DEFINE Wrong == {i \in 1..Len(s) : flatten[i] # f[i]}
    <2>2. ASSUME Wrong # {} PROVE FALSE
        <3>1. PICK i \in Wrong : \A j \in Wrong : i <= j
            <4>1. Wrong \subseteq Nat
                OBVIOUS
            <4> HIDE DEF Wrong
            <4> QED
                BY <2>2, <4>1, Smallest
        <3>2. i \in 1..Len(s) /\ flatten[i] # f[i]
            OBVIOUS
        <3>3. i # 1
            BY <1>6, <1>8, <3>2
        <3>4. i - 1 \in 1..Len(s) /\ ~(i <= i - 1)
            BY <1>1, <3>2, <3>3
        <3>5. flatten[i - 1] = f[i - 1]
            BY <3>1, <3>4
        <3>6. flatten[i] = flatten[i - 1] \o s[i]
            BY <1>8, <3>2, <3>3
        <3> QED
            BY <1>5, <3>2, <3>5, <3>6
    <2>3. Len(s) \in 1..Len(s)
        BY <1>1, <1>10
    <2> QED
        BY <1>3, <2>1, <2>2, <2>3
<1> QED
    BY <1>9, <1>10

(* Where the pieces are: at[i] bytes are in front of the next one.         *)
Pieces(s, at) ==
    /\ at \in [0..Len(s) -> Nat] /\ at[0] = 0
    /\ \A i \in 1..Len(s) : at[i] = at[i - 1] + Len(s[i])
    /\ FlattenSeq(s) \in Seq(Nat) /\ Len(FlattenSeq(s)) = at[Len(s)]
    /\ \A i \in 1..Len(s) : At(FlattenSeq(s), at[i - 1], s[i])

LEMMA PiecesExist ==
    ASSUME NEW s \in Seq(Seq(Nat))
    PROVE  \E at : Pieces(s, at)
<1> DEFINE n == Len(s)
<1>1. PICK f : Runs(Seq(Nat), <<>>, AddPiece(s), n, f) /\ FlattenSeq(s) = f[n]
    BY FlattenRuns
<1>2. n \in Nat /\ f \in [0..n -> Seq(Nat)] /\ f[0] = <<>> /\ \A i \in 1..n : s[i] \in Seq(Nat)
    BY <1>1 DEF Runs
<1>3. ASSUME NEW i \in 1..n PROVE f[i - 1] \in Seq(Nat) /\ f[i] = f[i - 1] \o s[i]
    <2>1. i - 1 \in 0..n
        BY <1>2
    <2>2. f[i] = AddPiece(s)[<<i, f[i - 1]>>] /\ <<i, f[i - 1]>> \in (1..Len(s)) \X Seq(Nat)
        BY <1>1, <1>2, <2>1 DEF Runs
    <2> QED
        BY <1>2, <2>1, <2>2 DEF AddPiece
<1> DEFINE at == [i \in 0..n |-> Len(f[i])]
<1>4. /\ at \in [0..n -> Nat] /\ at[0] = 0
      /\ \A i \in 1..n : at[i] = at[i - 1] + Len(s[i])
    <2>1. ASSUME NEW i \in 0..n
          PROVE  at[i] = Len(f[i]) /\ f[i] \in Seq(Nat) /\ Len(f[i]) \in Nat
        <3>1. f[i] \in Seq(Nat)
            BY <1>2
        <3> QED
            BY <3>1
    <2>2. at \in [0..n -> Nat] /\ at[0] = 0
        BY <1>2, <2>1
    <2>3. ASSUME NEW i \in 1..n PROVE at[i] = at[i - 1] + Len(s[i])
        <3>1. i - 1 \in 0..n /\ i \in 0..n
            BY <1>2
        <3>2. Len(f[i]) = Len(f[i - 1]) + Len(s[i])
            BY <1>2, <1>3, ConcatIs
        <3> QED
            BY <2>1, <3>1, <3>2
    <2> QED
        BY <2>2, <2>3
<1> DEFINE Holds(j) == \A i \in 1..j : At(f[j], at[i - 1], s[i])
           Wrong == {j \in 0..n : ~Holds(j)}
<1>5. ASSUME NEW j \in 1..n, Holds(j - 1) PROVE Holds(j)
    <2> SUFFICES ASSUME NEW i \in 1..j PROVE At(f[j], at[i - 1], s[i])
        OBVIOUS
    <2>1. /\ f[j - 1] \in Seq(Nat) /\ s[j] \in Seq(Nat) /\ f[j] = f[j - 1] \o s[j]
          /\ j - 1 \in 0..n /\ i - 1 \in 0..n /\ at[i - 1] \in Nat /\ at[j - 1] = Len(f[j - 1])
        <3>1. j - 1 \in 0..n /\ i - 1 \in 0..n
            BY <1>2
        <3> QED
            BY <1>2, <1>3, <1>4, <3>1
    <2>2. /\ Len(f[j]) = Len(f[j - 1]) + Len(s[j])
          /\ \A k \in 1..(Len(f[j - 1]) + Len(s[j])) :
                f[j][k] = IF k <= Len(f[j - 1]) THEN f[j - 1][k] ELSE s[j][k - Len(f[j - 1])]
        <3> DEFINE a == f[j - 1]
                   b == s[j]
        <3>1. a \in Seq(Nat) /\ b \in Seq(Nat) /\ f[j] = a \o b
            BY <2>1
        <3> HIDE DEF a, b
        <3>2. /\ Len(f[j]) = Len(a) + Len(b)
              /\ \A k \in 1..(Len(a) + Len(b)) :
                    f[j][k] = IF k <= Len(a) THEN a[k] ELSE b[k - Len(a)]
            BY <3>1, ConcatIs
        <3> QED
            BY <3>2 DEF a, b
    <2>3. CASE i = j
        <3> SUFFICES ASSUME NEW k \in 1..Len(s[j]) PROVE f[j][at[j - 1] + k] = s[j][k]
            BY <2>3 DEF At
        <3>1. /\ Len(f[j - 1]) + k \in 1..(Len(f[j - 1]) + Len(s[j]))
              /\ ~(Len(f[j - 1]) + k <= Len(f[j - 1])) /\ (Len(f[j - 1]) + k) - Len(f[j - 1]) = k
            <4>1. Len(f[j - 1]) \in Nat /\ Len(s[j]) \in Nat
                BY <2>1
            <4> QED
                BY <4>1, Inside
        <3> QED
            BY <2>1, <2>2, <3>1
    <2>4. CASE i # j
        <3>1. i \in 1..(j - 1) /\ i \in 1..n
            BY <1>2, <2>4
        <3>2. At(f[j - 1], at[i - 1], s[i])
            BY <1>5, <3>1
        <3>3. at[i - 1] + Len(s[i]) <= Len(f[j - 1])
            <4>1. \A m \in 1..n : at[m - 1] <= at[m]
                <5> SUFFICES ASSUME NEW m \in 1..n PROVE at[m - 1] <= at[m]
                    OBVIOUS
                <5>1. m - 1 \in 0..n /\ at[m - 1] \in Nat /\ s[m] \in Seq(Nat) /\ Len(s[m]) \in Nat
                    BY <1>2, <1>4
                <5> HIDE DEF at
                <5> QED
                    BY <1>4, <5>1
            <4>2. at[i] <= at[j - 1]
                <5> HIDE DEF at
                <5>1. \A m \in 0..(j - 1) : at[m] <= at[j - 1]
                    BY <1>2, <1>4, <2>1, <4>1, Grows
                <5> QED
                    BY <3>1, <5>1
            <4> HIDE DEF at
            <4> QED
                BY <1>4, <2>1, <3>1, <4>2
        <3> HIDE DEF at
        <3> SUFFICES ASSUME NEW k \in 1..Len(s[i]) PROVE f[j][at[i - 1] + k] = s[i][k]
            BY DEF At
        <3>4. s[i] \in Seq(Nat) /\ Len(s[i]) \in Nat /\ Len(f[j - 1]) \in Nat /\ Len(s[j]) \in Nat
            BY <1>2, <2>1, <3>1, SMTT(30)
        <3>5. /\ at[i - 1] + k \in 1..(Len(f[j - 1]) + Len(s[j]))
              /\ at[i - 1] + k <= Len(f[j - 1])
            <4>1. at[i - 1] \in Nat
                BY <2>1
            <4> QED
                BY <3>3, <3>4, <4>1, Within
        <3> QED
            BY <2>2, <3>2, <3>5 DEF At
    <2> QED
        BY <2>3, <2>4
<1>6. ASSUME Wrong # {} PROVE FALSE
    <2>1. PICK j \in Wrong : \A m \in Wrong : j <= m
        <3>1. Wrong \subseteq Nat
            OBVIOUS
        <3> HIDE DEF Wrong
        <3> QED
            BY <1>6, <3>1, Smallest
    <2>2. j \in 0..n /\ ~Holds(j)
        OBVIOUS
    <2>3. Holds(0)
        OBVIOUS
    <2> HIDE DEF Holds
    <2>4. j \in 1..n
        BY <1>2, <2>2, <2>3
    <2>5. j - 1 \in 0..n /\ ~(j <= j - 1)
        BY <2>4
    <2>6. Holds(j - 1)
        BY <2>1, <2>5
    <2> QED
        BY <1>5, <2>2, <2>4, <2>6
<1>7. Holds(n)
    <2>1. n \in 0..n
        BY <1>2
    <2> HIDE DEF Holds, n
    <2> QED
        BY <1>6, <2>1
<1>8. FlattenSeq(s) \in Seq(Nat) /\ Len(FlattenSeq(s)) = at[n]
    <2>1. n \in 0..n
        BY <1>2
    <2> QED
        BY <1>1, <1>2, <2>1
<1>9. Pieces(s, at)
    <2> HIDE DEF at
    <2> QED
        BY <1>1, <1>4, <1>7, <1>8 DEF Pieces
<1> QED
    BY <1>9

-----------------------------------------------------------------------------
(* The parser reads what was laid out.                                     *)

LEMMA FrameSizes == \A k \in FrameSize : k \in Nat /\ k <= 1275
BY DEF FrameSize

LEMMA LengthBytesAre ==
    ASSUME NEW k \in FrameSize
    PROVE  /\ LengthBytes(k) \in Seq(Nat) /\ Len(LengthBytes(k)) \in Nat
           /\ k < 252 => Len(LengthBytes(k)) = 1 /\ LengthBytes(k)[1] = k
           /\ k >= 252 => /\ Len(LengthBytes(k)) = 2
                          /\ LengthBytes(k)[1] \in Nat /\ LengthBytes(k)[1] >= 252
                          /\ 4 * LengthBytes(k)[2] + LengthBytes(k)[1] = k
<1>k. k \in Nat
    BY DEF FrameSize
<1>1. CASE k < 252
    BY <1>k, <1>1 DEF LengthBytes
<1>2. CASE k >= 252
    <2> DEFINE r == k % 4
               q == k \div 4
               a == 252 + r
               b == (k - 252 - r) \div 4
    <2>1. r \in 0..3 /\ q \in Nat /\ k = 4 * q + r
        BY <1>k
    <2> HIDE DEF r, q
    <2>2. b = q - 63 /\ q - 63 \in Nat
        <3>1. k - 252 - r = 4 * (q - 63) /\ q - 63 \in Nat
            BY <1>2, <2>1
        <3>2. \A x \in Nat : (4 * x) \div 4 = x
            OBVIOUS
        <3> QED
            BY <3>1, <3>2
    <2>3. a \in Nat /\ b \in Nat /\ a >= 252 /\ 4 * b + a = k
        BY <2>1, <2>2
    <2>4. LengthBytes(k) = <<a, b>>
        BY <1>k, <1>2 DEF LengthBytes, r
    <2> HIDE DEF a, b
    <2> QED
        BY <1>2, <2>3, <2>4
<1> QED
    BY <1>k, <1>1, <1>2

LEMMA SizeAtIs ==
    ASSUME NEW data, NEW p \in Nat, NEW len \in Nat, NEW k \in FrameSize,
           At(data, p, LengthBytes(k)), Len(LengthBytes(k)) <= len
    PROVE  SizeAt(data, p, len) = [bytes |-> Len(LengthBytes(k)), size |-> k]
<1>1. \A i \in 1..Len(LengthBytes(k)) : data[p + i] = LengthBytes(k)[i]
    BY DEF At
<1>2. CASE k < 252
    <2>1. Len(LengthBytes(k)) = 1 /\ data[p + 1] = k
        BY <1>1, <1>2, LengthBytesAre
    <2>2. len >= 1 /\ ~(len < 1) /\ data[p + 1] < 252 /\ ~(data[p + 1] >= 252)
        BY <1>2, <2>1 DEF FrameSize
    <2> QED
        BY <2>1, <2>2 DEF SizeAt
<1>3. CASE k >= 252
    <2>1. Len(LengthBytes(k)) = 2 /\ 1 \in 1..2 /\ 2 \in 1..2
        BY <1>3, LengthBytesAre
    <2>2. /\ data[p + 1] = LengthBytes(k)[1] /\ data[p + 2] = LengthBytes(k)[2]
        BY <1>1, <2>1
    <2>3. data[p + 1] >= 252 /\ 4 * data[p + 2] + data[p + 1] = k
        BY <1>3, <2>2, LengthBytesAre
    <2>4. data[p + 1] \in Nat
        BY <1>3, <2>1, <2>2, LengthBytesAre
    <2>5. len > 1 /\ ~(len < 1) /\ len # 1 /\ ~(data[p + 1] < 252)
        BY <2>1, <2>3, <2>4
    <2> QED
        BY <2>1, <2>3, <2>5 DEF SizeAt
<1> QED
    BY <1>2, <1>3 DEF FrameSize

(* The lengths of the first n frames.                                      *)
Lengths(size, n) == [i \in 1..n |-> LengthBytes(size[i])]

LEMMA LengthsAre ==
    ASSUME NEW size \in Seq(FrameSize), NEW n \in 0..Len(size)
    PROVE  Lengths(size, n) \in Seq(Seq(Nat)) /\ Len(Lengths(size, n)) = n
<1>1. \A i \in 1..n : LengthBytes(size[i]) \in Seq(Nat)
    BY LengthBytesAre
<1> QED
    BY <1>1 DEF Lengths

SizesRead(p, len, last, size) ==
    [ok |-> TRUE, p |-> p, len |-> len, last |-> last, size |-> size]

LEMMA SizeMoreIs ==
    ASSUME NEW data, NEW p \in Nat, NEW len \in Nat, NEW last \in Int, NEW size,
           NEW k \in FrameSize, At(data, p, LengthBytes(k)), Len(LengthBytes(k)) + k <= len
    PROVE  SizeMore(data, SizesRead(p, len, last, size)) =
               SizesRead(p + Len(LengthBytes(k)), len - Len(LengthBytes(k)),
                         last - Len(LengthBytes(k)) - k, Append(size, k))
<1> DEFINE b == Len(LengthBytes(k))
           r == SizesRead(p, len, last, size)
<1>1. b \in Nat /\ k \in Nat
    BY LengthBytesAre, FrameSizes
<1>2. SizeAt(data, p, len) = [bytes |-> b, size |-> k]
    <2>1. Len(LengthBytes(k)) <= len
        BY <1>1
    <2> QED
        BY <2>1, SizeAtIs
<1> HIDE DEF b
<1>3. ~(k < 0) /\ ~(k > len - b)
    BY <1>1 DEF b
<1>4. r.ok = TRUE /\ r.p = p /\ r.len = len /\ r.last = last /\ r.size = size
    BY DEF SizesRead
<1> HIDE DEF r
<1>5. SizeMore(data, r) = SizesRead(p + b, len - b, last - b - k, Append(size, k))
    <2> DEFINE s == SizeAt(data, r.p, r.len)
    <2>1. s.bytes = b /\ s.size = k
        BY <1>2, <1>4
    <2>2. SizeMore(data, r) =
              IF ~r.ok \/ s.size < 0 \/ s.size > r.len - s.bytes THEN [r EXCEPT !.ok = FALSE]
              ELSE [ok |-> TRUE, p |-> r.p + s.bytes, len |-> r.len - s.bytes,
                    last |-> r.last - s.bytes - s.size, size |-> Append(r.size, s.size)]
        BY DEF SizeMore
    <2> HIDE DEF s
    <2>3. ~(~r.ok \/ s.size < 0 \/ s.size > r.len - s.bytes)
        BY <1>3, <1>4, <2>1
    <2> QED
        BY <1>4, <2>1, <2>2, <2>3 DEF SizesRead
<1> QED
    BY <1>5 DEF r, b

LEMMA SizesAre ==
    ASSUME NEW data, NEW p \in Nat, NEW len \in Nat,
           NEW size \in Seq(FrameSize), NEW n \in 0..Len(size), NEW t, Sums(size, t),
           NEW at, Pieces(Lengths(size, n), at),
           At(data, p, FlattenSeq(Lengths(size, n))), at[n] + t[n] <= len
    PROVE  Sizes(data, p, len, n) =
               SizesRead(p + at[n], len - at[n], len - at[n] - t[n], [i \in 1..n |-> size[i]])
<1> DEFINE F(f) == [i \in 0..n |->
                       IF i = 0 THEN [ok |-> TRUE, p |-> p, len |-> len, last |-> len, size |-> <<>>]
                       ELSE SizeMore(data, f[i - 1])]
           got == CHOOSE f : f = F(f)
           G(i) == SizesRead(p + at[i], len - at[i], len - at[i] - t[i], [j \in 1..i |-> size[j]])
           g == [i \in 0..n |-> G(i)]
           L == Lengths(size, n)
<1>1. Sizes(data, p, len, n) = got[n]
    BY DEF Sizes
<1>2. /\ n \in Nat /\ n <= Len(size) /\ Len(size) \in Nat
      /\ L \in Seq(Seq(Nat)) /\ Len(L) = n /\ \A i \in 1..n : L[i] = LengthBytes(size[i])
    <2>1. n \in Nat /\ n <= Len(size) /\ Len(size) \in Nat
        OBVIOUS
    <2>2. L \in Seq(Seq(Nat)) /\ Len(L) = n
        BY LengthsAre
    <2>3. \A i \in 1..n : L[i] = LengthBytes(size[i])
        BY DEF Lengths
    <2> QED
        BY <2>1, <2>2, <2>3
<1> HIDE DEF L
<1>3. /\ at \in [0..n -> Nat] /\ at[0] = 0
      /\ \A i \in 1..n : at[i] = at[i - 1] + Len(L[i])
      /\ FlattenSeq(L) \in Seq(Nat) /\ Len(FlattenSeq(L)) = at[n]
      /\ \A i \in 1..n : At(FlattenSeq(L), at[i - 1], L[i])
    BY <1>2 DEF Pieces, L
<1>4. /\ t \in [0..Len(size) -> Nat] /\ t[0] = 0
      /\ \A i \in 1..Len(size) : t[i] = t[i - 1] + size[i]
    BY DEF Sums
<1>5. ASSUME NEW i \in 1..n
      PROVE  /\ size[i] \in FrameSize /\ i - 1 \in 0..n /\ at[i - 1] \in Nat /\ at[i] \in Nat
             /\ t[i - 1] \in Nat /\ t[i] \in Nat /\ t[i] = t[i - 1] + size[i]
             /\ Len(LengthBytes(size[i])) \in Nat /\ at[i] = at[i - 1] + Len(LengthBytes(size[i]))
             /\ at[i] + t[i] <= len
             /\ At(data, p + at[i - 1], LengthBytes(size[i]))
    <2>1. /\ size[i] \in FrameSize /\ i - 1 \in 0..n /\ i \in 0..n /\ i \in 1..Len(size)
          /\ i - 1 \in 0..Len(size) /\ i \in 0..Len(size) /\ n \in 0..Len(size)
        <3>1. i \in 1..Len(size) /\ i - 1 \in 0..n /\ i \in 0..n
            BY <1>2
        <3>2. i - 1 \in 0..Len(size) /\ i \in 0..Len(size) /\ n \in 0..Len(size)
            BY <1>2, <3>1
        <3> QED
            BY <3>1, <3>2
    <2>2. Len(LengthBytes(size[i])) \in Nat /\ L[i] = LengthBytes(size[i])
        BY <1>2, <2>1, LengthBytesAre
    <2>3. /\ at[i - 1] \in Nat /\ at[i] \in Nat /\ at[n] \in Nat
          /\ t[i - 1] \in Nat /\ t[i] \in Nat /\ t[n] \in Nat /\ t[i] = t[i - 1] + size[i]
          /\ at[i] = at[i - 1] + Len(LengthBytes(size[i]))
        <3>1. n \in 0..n
            BY <1>2
        <3>2. at[i - 1] \in Nat /\ at[i] \in Nat /\ at[n] \in Nat
            BY <1>3, <2>1, <3>1
        <3>3. t[i - 1] \in Nat /\ t[i] \in Nat /\ t[n] \in Nat
            BY <1>4, <2>1
        <3>4. t[i] = t[i - 1] + size[i]
            BY <1>4, <2>1
        <3>5. at[i] = at[i - 1] + Len(LengthBytes(size[i]))
            BY <1>3, <2>2
        <3> QED
            BY <3>2, <3>3, <3>4, <3>5
    <2>4. at[i] <= at[n]
        <3>1. ASSUME NEW m \in 1..n PROVE at[m - 1] <= at[m]
            <4>1. m - 1 \in 0..n /\ m \in 0..n /\ L[m] \in Seq(Nat)
                BY <1>2
            <4>2. Len(L[m]) \in Nat
                BY <1>2
            <4> QED
                BY <1>3, <4>1, <4>2
        <3>2. n \in 0..n
            BY <1>2
        <3>3. \A m \in 0..n : at[m] <= at[n]
            BY <1>2, <1>3, <3>1, <3>2, Grows
        <3> QED
            BY <2>1, <3>3
    <2>5. t[i] <= t[n]
        <3>1. ASSUME NEW m \in 1..Len(size) PROVE t[m - 1] <= t[m]
            <4>1. m - 1 \in 0..Len(size) /\ size[m] \in FrameSize
                BY <1>2
            <4>2. size[m] \in Nat
                BY <4>1, FrameSizes
            <4> QED
                BY <1>4, <4>1, <4>2
        <3>2. \A m \in 0..n : t[m] <= t[n]
            BY <1>2, <1>4, <2>1, <3>1, Grows
        <3> QED
            BY <2>1, <3>2
    <2>6. At(data, p + at[i - 1], LengthBytes(size[i]))
        <3> SUFFICES ASSUME NEW k \in 1..Len(LengthBytes(size[i]))
                     PROVE data[(p + at[i - 1]) + k] = LengthBytes(size[i])[k]
            BY DEF At
        <3>1. FlattenSeq(L)[at[i - 1] + k] = LengthBytes(size[i])[k]
            BY <1>3, <2>2 DEF At
        <3>2. at[i - 1] + k \in 1..Len(FlattenSeq(L))
            <4>1. at[i - 1] + Len(LengthBytes(size[i])) <= Len(FlattenSeq(L)) /\ Len(FlattenSeq(L)) \in Nat
                BY <1>3, <2>3, <2>4
            <4> QED
                BY <2>2, <2>3, <4>1, Within
        <3>3. data[p + (at[i - 1] + k)] = FlattenSeq(L)[at[i - 1] + k]
            BY <3>2 DEF At, L
        <3>4. p + (at[i - 1] + k) = (p + at[i - 1]) + k
            BY <2>2, <2>3
        <3> QED
            BY <3>1, <3>3, <3>4
    <2> QED
        BY <2>1, <2>2, <2>3, <2>4, <2>5, <2>6, SMTT(30)
<1>6. ASSUME NEW i \in 1..n PROVE SizeMore(data, G(i - 1)) = G(i)
    <2> DEFINE b == Len(LengthBytes(size[i]))
               k == size[i]
               a1 == at[i - 1]
               a2 == at[i]
               t1 == t[i - 1]
               t2 == t[i]
               q == [j \in 1..(i - 1) |-> size[j]]
    <2>1. /\ a1 \in Nat /\ a2 \in Nat /\ t1 \in Nat /\ t2 \in Nat /\ b \in Nat
          /\ t2 = t1 + k /\ a2 = a1 + b /\ a2 + t2 <= len
          /\ k \in FrameSize /\ At(data, p + a1, LengthBytes(k))
        BY <1>5
    <2>2. k \in Nat
        BY <2>1, FrameSizes
    <2>3. Append(q, k) = [j \in 1..i |-> size[j]]
        OBVIOUS
    <2> HIDE DEF a1, a2, t1, t2, q, k, b
    <2>4. /\ p + a1 \in Nat /\ len - a1 \in Nat /\ len - a1 - t1 \in Int /\ b + k <= len - a1
          /\ (p + a1) + b = p + a2 /\ (len - a1) - b = len - a2
          /\ (len - a1 - t1) - b - k = len - a2 - t2
        BY <2>1, <2>2
    <2> DEFINE p1 == p + a1
               l1 == len - a1
               m1 == len - a1 - t1
    <2>5. SizeMore(data, SizesRead(p1, l1, m1, q)) =
              SizesRead(p + a2, len - a2, len - a2 - t2, Append(q, k))
        <3>1. /\ p1 \in Nat /\ l1 \in Nat /\ m1 \in Int /\ b + k <= l1 /\ At(data, p1, LengthBytes(k))
              /\ p1 + b = p + a2 /\ l1 - b = len - a2 /\ m1 - b - k = len - a2 - t2
            BY <2>1, <2>4
        <3>2. b = Len(LengthBytes(k)) /\ k \in FrameSize
            BY <2>1 DEF b, k
        <3> HIDE DEF p1, l1, m1
        <3>3. SizeMore(data, SizesRead(p1, l1, m1, q)) =
                  SizesRead(p1 + b, l1 - b, m1 - b - k, Append(q, k))
            BY <3>1, <3>2, SizeMoreIs
        <3> QED
            BY <3>1, <3>3
    <2> QED
        BY <2>3, <2>5 DEF a1, a2, t1, t2, q
<1>7. G(0) = [ok |-> TRUE, p |-> p, len |-> len, last |-> len, size |-> <<>>]
    <2>1. [j \in 1..0 |-> size[j]] = <<>>
        OBVIOUS
    <2> QED
        BY <1>3, <1>4, <2>1 DEF SizesRead
<1>8. g = F(g)
    <2>1. ASSUME NEW i \in 0..n PROVE g[i] = F(g)[i]
        <3>1. CASE i = 0
            BY <1>7, <3>1
        <3>2. CASE i # 0
            <4>1. i \in 1..n /\ i - 1 \in 0..n
                BY <1>2, <3>2
            <4> HIDE DEF G
            <4> QED
                BY <1>6, <3>2, <4>1
        <3> QED
            BY <3>1, <3>2
    <2> HIDE DEF F, G
    <2>2. F(g) = [i \in 0..n |-> F(g)[i]]
        BY DEF F
    <2> QED
        BY <2>1, <2>2
<1>9. got = F(got)
    <2> HIDE DEF F, g
    <2> QED
        BY <1>8
<1> HIDE DEF got
<1>10. \A i \in 0..n : i # 0 => got[i] = SizeMore(data, got[i - 1])
    BY <1>9, ZenonT(30)
<1>11. got[0] = G(0)
    <2>1. 0 \in 0..n
        BY <1>2
    <2>2. got[0] = [ok |-> TRUE, p |-> p, len |-> len, last |-> len, size |-> <<>>]
        BY <1>9, <2>1, ZenonT(30)
    <2> QED
        BY <1>7, <2>2
<1> HIDE DEF G, F
<1> DEFINE Wrong == {i \in 0..n : got[i] # G(i)}
<1>12. ASSUME Wrong # {} PROVE FALSE
    <2>1. PICK i \in Wrong : \A j \in Wrong : i <= j
        <3>1. Wrong \subseteq Nat
            OBVIOUS
        <3> HIDE DEF Wrong
        <3> QED
            BY <1>12, <3>1, Smallest
    <2>2. i \in 0..n /\ got[i] # G(i)
        OBVIOUS
    <2>3. i \in 1..n /\ i # 0 /\ i - 1 \in 0..n /\ ~(i <= i - 1)
        BY <1>2, <1>11, <2>2
    <2>4. got[i - 1] = G(i - 1)
        BY <2>1, <2>3
    <2> QED
        BY <1>6, <1>10, <2>2, <2>3, <2>4
<1>13. got[n] = G(n)
    <2>1. n \in 0..n
        BY <1>2
    <2> QED
        BY <1>12, <2>1
<1> QED
    BY <1>1, <1>13 DEF G

(* The bytes that say how long the padding is.                             *)
PadBytes(pad) == Append(Filled(pad \div 254, 255), pad % 254)

LEMMA PadBytesAre ==
    ASSUME NEW pad \in Nat
    PROVE  LET m == pad \div 254
               r == pad % 254
           IN  /\ m \in Nat /\ r \in 0..253 /\ pad = 254 * m + r
               /\ PadBytes(pad) \in Seq(Nat) /\ Len(PadBytes(pad)) = m + 1
               /\ \A i \in 1..m : PadBytes(pad)[i] = 255
               /\ PadBytes(pad)[m + 1] = r
<1> DEFINE m == pad \div 254
           r == pad % 254
           a == Filled(m, 255)
<1>1. m \in Nat /\ r \in 0..253 /\ pad = 254 * m + r
    OBVIOUS
<1>2. PadBytes(pad) = Append(a, r)
    BY DEF PadBytes
<1> HIDE DEF m, r
<1>3. a \in Seq(Nat) /\ Len(a) = m /\ \A i \in 1..m : a[i] = 255
    BY <1>1 DEF Filled
<1> HIDE DEF a
<1>4. /\ Append(a, r) \in Seq(Nat) /\ Len(Append(a, r)) = m + 1
      /\ \A i \in 1..m : Append(a, r)[i] = 255
      /\ Append(a, r)[m + 1] = r
    <2>1. r \in Nat
        BY <1>1
    <2> QED
        BY <1>1, <1>3, <2>1
<1>5. /\ pad = 254 * m + r /\ PadBytes(pad) \in Seq(Nat) /\ Len(PadBytes(pad)) = m + 1
      /\ \A i \in 1..m : PadBytes(pad)[i] = 255
      /\ PadBytes(pad)[m + 1] = r
    BY <1>1, <1>2, <1>4
<1> QED
    BY <1>1, <1>5 DEF m, r

LEMMA PaddingIs ==
    ASSUME NEW data, NEW pad \in Nat, At(data, 2, PadBytes(pad)),
           NEW len \in Nat, Len(PadBytes(pad)) + pad <= len
    PROVE  Padding(data, 2, len) = [bytes |-> Len(PadBytes(pad)), pad |-> pad]
<1> DEFINE m == pad \div 254
           r == pad % 254
<1>1. /\ m \in Nat /\ r \in 0..253 /\ pad = 254 * m + r
      /\ PadBytes(pad) \in Seq(Nat) /\ Len(PadBytes(pad)) = m + 1
      /\ \A i \in 1..m : PadBytes(pad)[i] = 255
      /\ PadBytes(pad)[m + 1] = r
    BY PadBytesAre
<1> HIDE DEF m, r
<1>2. /\ \A i \in 1..m : data[2 + i] = 255
      /\ data[2 + (m + 1)] = r
    <2>1. m + 1 \in 1..(m + 1) /\ \A i \in 1..m : i \in 1..(m + 1)
        BY <1>1
    <2>2. \A i \in 1..(m + 1) : data[2 + i] = PadBytes(pad)[i]
        BY <1>1 DEF At
    <2>3. data[2 + (m + 1)] = PadBytes(pad)[m + 1]
        BY <2>1, <2>2
    <2>4. ASSUME NEW i \in 1..m PROVE data[2 + i] = 255
        <3>1. data[2 + i] = PadBytes(pad)[i]
            BY <2>1, <2>2
        <3> QED
            BY <1>1, <3>1
    <2> QED
        BY <1>1, <2>3, <2>4
<1> DEFINE Ahead(j) == len - 255 * (j - 1)
           P(j) == /\ Ahead(j) <= 0 \/ data[2 + j] # 255
                   /\ \A i \in 1..(j - 1) : Ahead(i) > 0 /\ data[2 + i] = 255
           k == CHOOSE j \in 1..(len + 1) : P(j)
<1>3. \A j \in 1..(m + 1) : Ahead(j) > 0
    BY <1>1
<1>4. P(m + 1) /\ m + 1 \in 1..(len + 1)
    <2>1. \A i \in 1..((m + 1) - 1) : i \in 1..m /\ i \in 1..(m + 1)
        BY <1>1
    <2>2. r # 255 /\ m + 1 \in 1..(len + 1)
        BY <1>1
    <2> HIDE DEF Ahead
    <2> QED
        BY <1>2, <1>3, <2>1, <2>2
<1>5. ASSUME NEW j \in 1..(len + 1), P(j) PROVE j = m + 1
    <2>1. CASE j < m + 1
        <3>1. j \in 1..m /\ j \in 1..(m + 1)
            BY <1>1, <2>1
        <3> HIDE DEF Ahead
        <3>2. Ahead(j) > 0 /\ data[2 + j] = 255
            BY <1>2, <1>3, <3>1
        <3>3. ~(Ahead(j) <= 0)
            BY <3>2 DEF Ahead
        <3> QED
            BY <1>5, <3>2, <3>3
    <2>2. CASE j > m + 1
        <3>1. m + 1 \in 1..(j - 1)
            BY <1>1, <2>2
        <3>2. data[2 + (m + 1)] = 255
            BY <1>5, <3>1
        <3>3. r # 255
            BY <1>1
        <3> QED
            BY <1>2, <3>2, <3>3
    <2> QED
        BY <1>1, <2>1, <2>2
<1> HIDE DEF P
<1>6. k = m + 1
    BY <1>4, <1>5
<1> DEFINE K == CHOOSE j \in 1..(len + 1) :
                    /\ Ahead(j) <= 0 \/ data[2 + j] # 255
                    /\ \A i \in 1..(j - 1) : Ahead(i) > 0 /\ data[2 + i] = 255
<1>7. K = m + 1
    BY <1>6 DEF P
<1>8. Padding(data, 2, len) = IF len <= 0 \/ Ahead(K) <= 0 THEN [bytes |-> 0, pad |-> -1]
                              ELSE [bytes |-> K, pad |-> 254 * (K - 1) + data[2 + K]]
    BY DEF Padding
<1> HIDE DEF K
<1>9. ~(len <= 0 \/ Ahead(K) <= 0) /\ 254 * (K - 1) + data[2 + K] = pad
    BY <1>1, <1>2, <1>7
<1> QED
    BY <1>1, <1>7, <1>8, <1>9

-----------------------------------------------------------------------------
(* A packet that the format allows, at the beginning of the data; and they *)
(* end with it unless it says how long it is.                              *)
Own(s, sd) == IF sd THEN LengthBytes(s.size[Len(s.size)]) ELSE <<>>

Begun(data, s, sd) ==
    /\ Allowed(s) /\ sd \in BOOLEAN /\ data \in Seq(Nat) /\ At(data, 0, Laid(s, sd))
    /\ Len(Laid(s, sd)) <= Len(data) /\ (~sd => Len(data) = Len(Laid(s, sd)))

(* What is left of them for the frames.                                    *)
ForFrames(data, s) == Len(data) - Len(Lead(s)) - PadOf(s)

LEMMA FilledIs ==
    ASSUME NEW n \in Nat, NEW byte \in Nat
    PROVE  Filled(n, byte) \in Seq(Nat) /\ Len(Filled(n, byte)) = n
BY DEF Filled

LEMMA UpTo48 == \A n \in 1..48 : n \in Nat /\ n - 1 \in 0..n /\ n \in 1..n /\ n \in 0..n /\ 1 \in 1..n
OBVIOUS

LEMMA AllowedIs ==
    ASSUME NEW s, Allowed(s)
    PROVE  /\ s.size \in Seq(FrameSize) /\ s.size \in Seq(Nat) /\ Len(s.size) \in 1..48
           /\ \A i \in 1..Len(s.size) : s.size[i] \in FrameSize /\ s.size[i] \in Nat
           /\ PadOf(s) \in Nat /\ s.config \in Nat /\ s.code \in 0..3 /\ s.vbr \in BOOLEAN
           /\ s.pad \in Nat \cup {-1} /\ 8 * s.config + s.code \in Nat
<1>1. /\ s.size \in Seq(FrameSize) /\ Len(s.size) \in 1..48 /\ s.config \in 0..31
      /\ s.code \in 0..3 /\ s.vbr \in BOOLEAN /\ s.pad \in Nat \cup {-1}
    BY DEF Allowed
<1>2. \A i \in 1..Len(s.size) : s.size[i] \in FrameSize
    BY <1>1
<1>3. \A i \in 1..Len(s.size) : s.size[i] \in Nat
    BY <1>2, FrameSizes
<1>4. s.size \in Seq(Nat)
    BY <1>1, <1>3
<1>5. PadOf(s) \in Nat
    BY <1>1 DEF PadOf
<1>6. s.config \in Nat /\ 8 * s.config + s.code \in Nat
    <2>1. s.config \in Nat /\ s.code \in Nat
        BY <1>1, SMTT(30)
    <2>2. \A x, y \in Nat : 8 * x + y \in Nat
        OBVIOUS
    <2> QED
        BY <2>1, <2>2
<1> QED
    BY <1>1, <1>2, <1>3, <1>4, <1>5, <1>6

(* What is in front of the frames.                                         *)
Toc(s) == 8 * s.config + s.code
CountByte(s) ==
    Len(s.size) + 64 * (IF s.pad >= 0 THEN 1 ELSE 0) + 128 * (IF s.vbr THEN 1 ELSE 0)
PadLength(s) == IF s.pad < 0 THEN <<>> ELSE PadBytes(s.pad)
FirstLengths(s) == FlattenSeq(Lengths(s.size, Len(s.size) - 1))
Variable(s) == IF s.vbr THEN FirstLengths(s) ELSE <<>>

LEMMA LeadIs ==
    ASSUME NEW s, Allowed(s)
    PROVE  /\ s.code \in {0, 1} => Lead(s) = <<Toc(s)>>
           /\ s.code = 2 => Lead(s) = <<Toc(s)>> \o FirstLengths(s)
           /\ s.code = 3 => Lead(s) = (<<Toc(s), CountByte(s)>> \o PadLength(s)) \o Variable(s)
           /\ Toc(s) \in Nat /\ CountByte(s) \in Nat
           /\ PadLength(s) \in Seq(Nat) /\ FirstLengths(s) \in Seq(Nat) /\ Variable(s) \in Seq(Nat)
           /\ Lead(s) \in Seq(Nat)
<1>1. /\ s.code \in 0..3 /\ s.vbr \in BOOLEAN /\ s.pad \in Nat \cup {-1} /\ Toc(s) \in Nat
      /\ s.size \in Seq(FrameSize) /\ Len(s.size) \in 1..48
    BY AllowedIs DEF Toc
<1>2. [i \in 1..(Len(s.size) - 1) |-> LengthBytes(s.size[i])] = Lengths(s.size, Len(s.size) - 1)
    BY DEF Lengths
<1>3. /\ s.code \in {0, 1} => Lead(s) = <<Toc(s)>>
      /\ s.code = 2 => Lead(s) = <<Toc(s)>> \o FirstLengths(s)
      /\ s.code = 3 => Lead(s) = (<<Toc(s), CountByte(s)>> \o PadLength(s)) \o Variable(s)
    <2> DEFINE L == [i \in 1..(Len(s.size) - 1) |-> LengthBytes(s.size[i])]
               B == IF s.pad < 0 THEN <<>> ELSE Append(Filled(s.pad \div 254, 255), s.pad % 254)
    <2>1. FlattenSeq(L) = FirstLengths(s)
        BY <1>2 DEF FirstLengths
    <2>2. B = PadLength(s)
        BY DEF PadLength, PadBytes
    <2>3. Lead(s) =
              CASE s.code \in {0, 1} -> <<Toc(s)>>
                [] s.code = 2 -> <<Toc(s)>> \o FlattenSeq(L)
                [] s.code = 3 -> <<Toc(s), CountByte(s)>> \o B \o (IF s.vbr THEN FlattenSeq(L) ELSE <<>>)
        BY DEF Lead, Toc, CountByte
    <2> HIDE DEF L, B
    <2>4. ASSUME s.code \in {0, 1} PROVE Lead(s) = <<Toc(s)>>
        <3>1. s.code # 2 /\ s.code # 3
            BY <2>4
        <3> QED
            BY <2>3, <2>4, <3>1
    <2>5. ASSUME s.code = 2 PROVE Lead(s) = <<Toc(s)>> \o FirstLengths(s)
        <3>1. s.code \notin {0, 1} /\ s.code # 3
            BY <2>5
        <3> QED
            BY <2>1, <2>3, <2>5, <3>1
    <2>6. ASSUME s.code = 3
          PROVE  Lead(s) = (<<Toc(s), CountByte(s)>> \o PadLength(s)) \o Variable(s)
        <3>1. s.code \notin {0, 1} /\ s.code # 2
            BY <2>6
        <3>2. Variable(s) = IF s.vbr THEN FlattenSeq(L) ELSE <<>>
            BY <2>1 DEF Variable
        <3> HIDE DEF Variable
        <3> QED
            BY <2>2, <2>3, <2>6, <3>1, <3>2
    <2> QED
        BY <2>4, <2>5, <2>6
<1>4. CountByte(s) \in Nat
    <2>1. \A n \in Nat, a, b \in {0, 1} : n + 64 * a + 128 * b \in Nat
        OBVIOUS
    <2>2. (IF s.pad >= 0 THEN 1 ELSE 0) \in {0, 1} /\ (IF s.vbr THEN 1 ELSE 0) \in {0, 1}
        OBVIOUS
    <2>3. Len(s.size) \in Nat
        BY <1>1
    <2> QED
        BY <2>1, <2>2, <2>3 DEF CountByte
<1>5. PadLength(s) \in Seq(Nat)
    <2>1. CASE s.pad < 0
        BY <2>1 DEF PadLength
    <2>2. CASE ~(s.pad < 0)
        <3>1. s.pad \in Nat
            BY <1>1, <2>2
        <3> QED
            BY <2>2, <3>1, PadBytesAre DEF PadLength
    <2> QED
        BY <2>1, <2>2
<1>6. FirstLengths(s) \in Seq(Nat)
    <2>1. Len(s.size) - 1 \in 0..Len(s.size)
        BY <1>1, UpTo48
    <2>2. Lengths(s.size, Len(s.size) - 1) \in Seq(Seq(Nat))
        BY <1>1, <2>1, LengthsAre
    <2>3. PICK at : Pieces(Lengths(s.size, Len(s.size) - 1), at)
        BY <2>2, PiecesExist
    <2> QED
        BY <2>3 DEF Pieces, FirstLengths
<1>7. Variable(s) \in Seq(Nat)
    BY <1>6 DEF Variable
<1>8. Lead(s) \in Seq(Nat)
    <2>1. <<Toc(s)>> \in Seq(Nat) /\ <<Toc(s), CountByte(s)>> \in Seq(Nat)
        BY <1>1, <1>4
    <2>2. CASE s.code \in {0, 1}
        BY <1>3, <2>1, <2>2
    <2>3. CASE s.code = 2
        BY <1>3, <1>6, <2>1, <2>3, ConcatIs
    <2>4. CASE s.code = 3
        <3>1. <<Toc(s), CountByte(s)>> \o PadLength(s) \in Seq(Nat)
            BY <1>5, <2>1, ConcatIs
        <3> QED
            BY <1>3, <1>7, <2>4, <3>1, ConcatIs
    <2>5. s.code \in {0, 1} \/ s.code = 2 \/ s.code = 3
        BY <1>1
    <2> QED
        BY <2>2, <2>3, <2>4, <2>5
<1> QED
    BY <1>1, <1>3, <1>4, <1>5, <1>6, <1>7, <1>8

LEMMA LaidIs ==
    ASSUME NEW s, Allowed(s), NEW sd \in BOOLEAN, NEW t, Sums(s.size, t)
    PROVE  /\ Laid(s, sd) = ((Lead(s) \o Own(s, sd)) \o Filled(Sum(s.size), 255)) \o Filled(PadOf(s), 0)
           /\ Laid(s, sd) \in Seq(Nat) /\ Own(s, sd) \in Seq(Nat)
           /\ Filled(Sum(s.size), 255) \in Seq(Nat) /\ Filled(PadOf(s), 0) \in Seq(Nat)
           /\ t[Len(s.size)] \in Nat /\ Sum(s.size) = t[Len(s.size)]
           /\ Len(Laid(s, sd)) = Len(Lead(s)) + Len(Own(s, sd)) + t[Len(s.size)] + PadOf(s)
           /\ sd => s.size[Len(s.size)] \in FrameSize /\ Own(s, sd) = LengthBytes(s.size[Len(s.size)])
           /\ ~sd => Len(Own(s, sd)) = 0
<1> DEFINE c == Len(s.size)
           A == Lead(s)
           B == Own(s, sd)
           F == Filled(Sum(s.size), 255)
           G == Filled(PadOf(s), 0)
<1>1. c \in 1..c /\ c \in 0..c /\ s.size[c] \in FrameSize /\ s.size \in Seq(Nat) /\ PadOf(s) \in Nat
    <2>1. c \in 1..c /\ c \in 0..c
        BY AllowedIs, UpTo48
    <2> QED
        BY <2>1, AllowedIs
<1>2. t[c] \in Nat /\ Sum(s.size) = t[c]
    BY <1>1, SumOf DEF Sums
<1>3. A \in Seq(Nat)
    BY LeadIs
<1>4. B \in Seq(Nat) /\ (sd => B = LengthBytes(s.size[c])) /\ (~sd => Len(B) = 0)
    BY <1>1, LengthBytesAre DEF Own
<1>5. F \in Seq(Nat) /\ Len(F) = t[c] /\ G \in Seq(Nat) /\ Len(G) = PadOf(s)
    <2>1. Sum(s.size) \in Nat /\ PadOf(s) \in Nat /\ 255 \in Nat /\ 0 \in Nat
        BY <1>1, <1>2
    <2> QED
        BY <1>2, <2>1, FilledIs, SMTT(30)
<1>6. Laid(s, sd) = ((A \o B) \o F) \o G
    BY DEF Laid, Own
<1> HIDE DEF A, B, F, G
<1>7. /\ A \o B \in Seq(Nat) /\ Len(A \o B) = Len(A) + Len(B)
      /\ (A \o B) \o F \in Seq(Nat) /\ Len((A \o B) \o F) = Len(A \o B) + Len(F)
      /\ ((A \o B) \o F) \o G \in Seq(Nat) /\ Len(((A \o B) \o F) \o G) = Len((A \o B) \o F) + Len(G)
    <2>1. A \o B \in Seq(Nat) /\ Len(A \o B) = Len(A) + Len(B)
        BY <1>3, <1>4, ConcatIs
    <2>2. (A \o B) \o F \in Seq(Nat) /\ Len((A \o B) \o F) = Len(A \o B) + Len(F)
        BY <1>5, <2>1, ConcatIs
    <2>3. ((A \o B) \o F) \o G \in Seq(Nat) /\ Len(((A \o B) \o F) \o G) = Len((A \o B) \o F) + Len(G)
        BY <1>5, <2>2, ConcatIs
    <2> QED
        BY <2>1, <2>2, <2>3
<1>8. Len(Laid(s, sd)) = Len(A) + Len(B) + t[c] + PadOf(s)
    BY <1>5, <1>6, <1>7
<1> QED
    BY <1>1, <1>2, <1>4, <1>5, <1>6, <1>7, <1>8 DEF A, B, F, G

LEMMA BegunIs ==
    ASSUME NEW data, NEW s, NEW sd, Begun(data, s, sd), NEW t, Sums(s.size, t)
    PROVE  /\ At(data, 0, Lead(s)) /\ At(data, Len(Lead(s)), Own(s, sd))
           /\ Len(Lead(s)) \in Nat /\ Len(Own(s, sd)) \in Nat /\ ForFrames(data, s) \in Nat
           /\ Len(Own(s, sd)) + t[Len(s.size)] <= ForFrames(data, s)
           /\ ~sd => ForFrames(data, s) = t[Len(s.size)]
           /\ Len(data) \in Nat /\ Len(data) = Len(Lead(s)) + ForFrames(data, s) + PadOf(s)
<1> DEFINE A == Lead(s)
           B == Own(s, sd)
           F == Filled(Sum(s.size), 255)
           G == Filled(PadOf(s), 0)
           n == t[Len(s.size)]
<1>1. Allowed(s) /\ sd \in BOOLEAN /\ data \in Seq(Nat) /\ At(data, 0, Laid(s, sd))
    BY DEF Begun
<1>2. A \in Seq(Nat) /\ PadOf(s) \in Nat
    BY <1>1, LeadIs, AllowedIs
<1>3. /\ Laid(s, sd) = ((A \o B) \o F) \o G /\ B \in Seq(Nat) /\ F \in Seq(Nat) /\ G \in Seq(Nat)
      /\ n \in Nat /\ Len(Laid(s, sd)) = Len(A) + Len(B) + n + PadOf(s) /\ (~sd => Len(B) = 0)
    BY <1>1, LaidIs, ZenonT(60)
<1>4. Len(data) \in Nat /\ Len(Laid(s, sd)) <= Len(data) /\ (~sd => Len(data) = Len(Laid(s, sd)))
    BY <1>1 DEF Begun
<1> HIDE DEF A, B, F, G, n
<1>5. At(data, 0, A) /\ At(data, Len(A), B)
    <2>1. A \o B \in Seq(Nat) /\ (A \o B) \o F \in Seq(Nat)
        <3>1. A \o B \in Seq(Nat)
            BY <1>2, <1>3, ConcatIs
        <3> QED
            BY <1>3, <3>1, ConcatIs
    <2>2. At(data, 0, (A \o B) \o F)
        BY <1>1, <1>3, <2>1, AtParts
    <2>3. At(data, 0, A \o B)
        BY <1>3, <2>1, <2>2, AtParts
    <2>4. At(data, 0, A) /\ At(data, 0 + Len(A), B)
        BY <1>2, <1>3, <2>3, AtParts
    <2>5. 0 + Len(A) = Len(A)
        BY <1>2
    <2> QED
        BY <2>4, <2>5
<1>6. /\ Len(A) \in Nat /\ Len(B) \in Nat
    BY <1>2, <1>3
<1> DEFINE room == Len(data) - Len(A) - PadOf(s)
<1>7. /\ room \in Nat /\ Len(B) + n <= room /\ (~sd => room = n)
      /\ Len(data) = Len(A) + room + PadOf(s)
    BY <1>2, <1>3, <1>4, <1>6, SMTT(30)
<1>8. room = ForFrames(data, s)
    BY DEF ForFrames, A
<1> HIDE DEF room
<1> QED
    BY <1>4, <1>5, <1>6, <1>7, <1>8 DEF A, B, n

-----------------------------------------------------------------------------
(* What the parser makes of the beginning.                                 *)
Describes(l, s, sd, room, t) ==
    LET c == Len(s.size) IN
    /\ l.count = c /\ l.p = Len(Lead(s)) /\ l.len = room /\ l.pad = PadOf(s) /\ l.cbr \in BOOLEAN
    /\ l.cbr => \A i \in 1..c : s.size[i] = s.size[c]
    /\ l.cbr /\ ~sd => l.last = s.size[c]
    /\ ~l.cbr => l.last = room - t[c - 1]
    /\ ~l.cbr \/ ~sd => l.size = [i \in 1..(c - 1) |-> s.size[i]]

LEMMA TimesDiv ==
    ASSUME NEW k \in Nat, NEW c \in 1..48
    PROVE  (k * c) % c = 0 /\ (k * c) \div c = k
OBVIOUS

(* Frames of one size.                                                     *)
LEMMA EqualDescribes ==
    ASSUME NEW s, Allowed(s), NEW sd \in BOOLEAN, NEW t, Sums(s.size, t), NEW room \in Nat,
           ~sd => room = t[Len(s.size)], \A i \in 1..Len(s.size) : s.size[i] = s.size[1]
    PROVE  Describes(Equal(sd, Len(s.size), Len(Lead(s)), room, PadOf(s)), s, sd, room, t)
<1> DEFINE c == Len(s.size)
           k == s.size[1]
           p == Len(Lead(s))
<1>1. c \in 1..48 /\ 1 \in 1..c /\ c \in 1..c /\ s.size \in Seq(Nat) /\ k \in Nat
    <2>1. c \in 1..48 /\ s.size \in Seq(Nat)
        BY AllowedIs
    <2>2. 1 \in 1..c /\ c \in 1..c
        BY <2>1, UpTo48
    <2> QED
        BY <2>1, <2>2
<1>2. \A i \in 1..c : s.size[i] = k
    OBVIOUS
<1>3. t[c] = k * c
    BY <1>1, <1>2, SumsOfEqual
<1>4. /\ \A i \in 1..c : s.size[i] = s.size[c]
      /\ s.size[c] = k
      /\ [i \in 1..(c - 1) |-> k] = [i \in 1..(c - 1) |-> s.size[i]]
    <2>1. \A i \in 1..(c - 1) : i \in 1..c
        BY <1>1
    <2>2. s.size[c] = k
        BY <1>1, <1>2
    <2>3. [i \in 1..(c - 1) |-> k] = [i \in 1..(c - 1) |-> s.size[i]]
        <3> HIDE DEF k
        <3> QED
            BY <1>2, <2>1
    <2> QED
        BY <1>2, <2>2, <2>3
<1> HIDE DEF c, k, p
<1>5. CASE sd
    <2>1. Equal(sd, c, p, room, PadOf(s)) = Frames(c, TRUE, p, room, room, <<>>, PadOf(s))
        BY <1>5 DEF Equal
    <2> DEFINE l == Frames(c, TRUE, p, room, room, <<>>, PadOf(s))
    <2>2. l.count = c /\ l.p = p /\ l.len = room /\ l.pad = PadOf(s) /\ l.cbr = TRUE
        BY DEF Frames
    <2> HIDE DEF l
    <2>3. Describes(l, s, sd, room, t)
        BY <1>4, <1>5, <2>2 DEF Describes, c, p
    <2> QED
        BY <2>1, <2>3 DEF l, c, p
<1>6. CASE ~sd
    <2>1. room % c = 0 /\ room \div c = k
        BY <1>1, <1>3, <1>6, TimesDiv DEF c
    <2>2. Equal(sd, c, p, room, PadOf(s)) =
              Frames(c, TRUE, p, room, k, [i \in 1..(c - 1) |-> k], PadOf(s))
        BY <1>6, <2>1 DEF Equal
    <2> DEFINE l == Frames(c, TRUE, p, room, k, [i \in 1..(c - 1) |-> k], PadOf(s))
    <2>3. /\ l.count = c /\ l.p = p /\ l.len = room /\ l.pad = PadOf(s) /\ l.cbr = TRUE
          /\ l.last = k /\ l.size = [i \in 1..(c - 1) |-> k]
        BY DEF Frames
    <2> HIDE DEF l
    <2>4. Describes(l, s, sd, room, t)
        BY <1>4, <1>6, <2>3 DEF Describes, c, p
    <2> QED
        BY <2>2, <2>4 DEF l, c, p
<1> QED
    BY <1>5, <1>6 DEF c, p

(* Frames of different sizes.                                              *)
LEMMA SeveralDescribes ==
    ASSUME NEW data, NEW s, Allowed(s), NEW sd \in BOOLEAN, NEW t, Sums(s.size, t),
           NEW p \in Nat, NEW room \in Nat, t[Len(s.size)] <= room,
           At(data, p, FirstLengths(s)), Len(Lead(s)) = p + Len(FirstLengths(s))
    PROVE  Describes(Several(Len(s.size),
                             Sizes(data, p, room + Len(FirstLengths(s)), Len(s.size) - 1), PadOf(s)),
                     s, sd, room, t)
<1> DEFINE c == Len(s.size)
           n == c - 1
           a == Len(FirstLengths(s))
           L == Lengths(s.size, n)
<1>1. c \in 1..48 /\ s.size \in Seq(FrameSize) /\ n \in Nat /\ n \in 0..Len(s.size)
    <2>1. c \in 1..48 /\ s.size \in Seq(FrameSize)
        BY AllowedIs
    <2>2. n \in Nat
        <3> HIDE DEF c
        <3> QED
            BY <2>1
    <2> QED
        BY <2>1, <2>2, UpTo48
<1>2. L \in Seq(Seq(Nat)) /\ Len(L) = n
    <2> HIDE DEF n
    <2> QED
        BY <1>1, LengthsAre
<1> HIDE DEF L
<1>3. PICK at : Pieces(L, at)
    BY <1>2, PiecesExist
<1>4. at[n] = a /\ a \in Nat
    <2>1. FlattenSeq(L) = FirstLengths(s)
        BY DEF L, FirstLengths
    <2>2. FirstLengths(s) \in Seq(Nat)
        BY LeadIs
    <2> QED
        BY <1>2, <1>3, <2>1, <2>2 DEF Pieces
<1>5. t[n] \in Nat /\ t[c] \in Nat /\ t[n] <= t[c] /\ t[c] <= room
    <2>1. t \in [0..c -> Nat] /\ t[c] = t[c - 1] + s.size[c]
        <3>1. c \in 1..c
            BY <1>1, UpTo48
        <3> QED
            BY <3>1 DEF Sums
    <2>2. n \in 0..c /\ c \in 0..c /\ s.size[c] \in Nat
        <3>1. c \in 1..c /\ c \in 0..c
            BY <1>1, UpTo48
        <3> QED
            BY <1>1, <3>1, AllowedIs
    <2>3. t[n] \in Nat /\ t[c] \in Nat /\ t[c] = t[n] + s.size[c]
        BY <2>1, <2>2
    <2> QED
        BY <2>2, <2>3
<1> DEFINE len == room + a
           r == SizesRead(p + a, room, room - t[n], [i \in 1..n |-> s.size[i]])
<1>6. Sizes(data, p, len, n) = r
    <2>1. len \in Nat /\ at[n] + t[n] <= len /\ len - at[n] = room /\ len - at[n] - t[n] = room - t[n]
          /\ p + at[n] = p + a
        BY <1>4, <1>5
    <2>2. At(data, p, FlattenSeq(L))
        BY DEF L, FirstLengths
    <2> HIDE DEF len, n, a
    <2>3. Sizes(data, p, len, n) =
              SizesRead(p + at[n], len - at[n], len - at[n] - t[n], [i \in 1..n |-> s.size[i]])
        BY <1>1, <1>3, <2>1, <2>2, SizesAre DEF L
    <2> QED
        BY <2>1, <2>3
<1>7. ~(~r.ok \/ r.last < 0) /\ r.p = p + a /\ r.len = room /\ r.last = room - t[n]
      /\ r.size = [i \in 1..n |-> s.size[i]]
    <2>1. room - t[n] \in Nat
        BY <1>5
    <2> HIDE DEF n
    <2> QED
        BY <2>1 DEF SizesRead
<1> HIDE DEF r
<1>8. Several(c, r, PadOf(s)) =
          Frames(c, FALSE, p + a, room, room - t[n], [i \in 1..n |-> s.size[i]], PadOf(s))
    BY <1>7 DEF Several
<1>9. Describes(Several(c, r, PadOf(s)), s, sd, room, t)
    <2> HIDE DEF a
    <2>1. Len(Lead(s)) = p + a
        BY DEF a
    <2> DEFINE l == Several(c, r, PadOf(s))
    <2>2. /\ l.count = c /\ l.p = p + a /\ l.len = room /\ l.pad = PadOf(s) /\ l.cbr = FALSE
          /\ l.last = room - t[n] /\ l.size = [i \in 1..n |-> s.size[i]]
        BY <1>8 DEF Frames
    <2> HIDE DEF l
    <2>3. Describes(l, s, sd, room, t)
        BY <2>1, <2>2 DEF Describes
    <2> QED
        BY <2>3 DEF l
<1> QED
    BY <1>6, <1>9

LEMMA CountByteIs ==
    ASSUME NEW n \in 1..48, NEW a \in {0, 1}, NEW b \in {0, 1}
    PROVE  LET byte == n + 64 * a + 128 * b IN
           byte % 64 = n /\ (byte \div 64) % 2 = a /\ (byte >= 128 <=> b = 1)
<1> DEFINE byte == n + 64 * a + 128 * b
<1>1. CASE a = 0 /\ b = 0
    <2>1. byte = n
        BY <1>1
    <2> HIDE DEF byte
    <2> QED
        BY <1>1, <2>1
<1>2. CASE a = 1 /\ b = 0
    <2>1. byte = n + 64
        BY <1>2
    <2> HIDE DEF byte
    <2> QED
        BY <1>2, <2>1
<1>3. CASE a = 0 /\ b = 1
    <2>1. byte = n + 128
        BY <1>3
    <2> HIDE DEF byte
    <2> QED
        BY <1>3, <2>1
<1>4. CASE a = 1 /\ b = 1
    <2>1. byte = n + 192
        BY <1>4
    <2> HIDE DEF byte
    <2> QED
        BY <1>4, <2>1
<1> QED
    BY <1>1, <1>2, <1>3, <1>4

(* The first byte, and that there is one.                                  *)
LEMMA TocIs ==
    ASSUME NEW data, NEW s, NEW sd, Begun(data, s, sd)
    PROVE  /\ data # <<>> /\ data[1] = Toc(s) /\ data[1] % 4 = s.code /\ 1 <= Len(Lead(s))
<1>1. Allowed(s) /\ data \in Seq(Nat)
    BY DEF Begun
<1>2. PICK t : Sums(s.size, t)
    BY <1>1, AllowedIs, SumsExist
<1>3. At(data, 0, Lead(s)) /\ Len(data) \in Nat /\ Len(Lead(s)) \in Nat /\ ForFrames(data, s) \in Nat
      /\ Len(data) = Len(Lead(s)) + ForFrames(data, s) + PadOf(s)
    BY <1>2, BegunIs
<1>4. /\ s.config \in Nat /\ s.code \in 0..3 /\ PadOf(s) \in Nat /\ Toc(s) \in Nat
      /\ FirstLengths(s) \in Seq(Nat) /\ PadLength(s) \in Seq(Nat) /\ Variable(s) \in Seq(Nat)
      /\ CountByte(s) \in Nat
    BY <1>1, AllowedIs, LeadIs
<1>5. 1 <= Len(Lead(s)) /\ Lead(s)[1] = Toc(s)
    <2> DEFINE x == Toc(s)
               y == CountByte(s)
    <2>1. <<x>> \in Seq(Nat) /\ Len(<<x>>) = 1 /\ <<x>>[1] = x
          /\ <<x, y>> \in Seq(Nat) /\ Len(<<x, y>>) = 2 /\ <<x, y>>[1] = x
        BY <1>4
    <2> HIDE DEF x, y
    <2>2. ASSUME NEW u \in Seq(Nat), NEW v \in Seq(Nat), 1 <= Len(u)
          PROVE  u \o v \in Seq(Nat) /\ 1 <= Len(u \o v) /\ (u \o v)[1] = u[1]
        <3>1. /\ u \o v \in Seq(Nat) /\ Len(u) \in Nat /\ Len(v) \in Nat
              /\ Len(u \o v) = Len(u) + Len(v)
              /\ \A i \in 1..(Len(u) + Len(v)) :
                    (u \o v)[i] = IF i <= Len(u) THEN u[i] ELSE v[i - Len(u)]
            BY ConcatIs
        <3>2. 1 \in 1..(Len(u) + Len(v))
            BY <2>2, <3>1
        <3> QED
            BY <2>2, <3>1, <3>2
    <2>3. CASE s.code \in {0, 1}
        <3>1. Lead(s) = <<x>>
            BY <1>1, <2>3, LeadIs DEF x
        <3> QED
            BY <2>1, <3>1 DEF x
    <2>4. CASE s.code = 2
        <3>1. Lead(s) = <<x>> \o FirstLengths(s)
            BY <1>1, <2>4, LeadIs DEF x
        <3> QED
            BY <1>4, <2>1, <2>2, <3>1 DEF x
    <2>5. CASE s.code = 3
        <3>1. Lead(s) = (<<x, y>> \o PadLength(s)) \o Variable(s)
            BY <1>1, <2>5, LeadIs DEF x, y
        <3>2. /\ <<x, y>> \o PadLength(s) \in Seq(Nat) /\ 1 <= Len(<<x, y>> \o PadLength(s))
              /\ (<<x, y>> \o PadLength(s))[1] = x
            BY <1>4, <2>1, <2>2
        <3> QED
            BY <1>4, <2>2, <3>1, <3>2 DEF x
    <2>6. s.code \in {0, 1} \/ s.code = 2 \/ s.code = 3
        BY <1>4
    <2> QED
        BY <2>3, <2>4, <2>5, <2>6
<1>6. data[0 + 1] = Lead(s)[1]
    <2>1. 1 \in 1..Len(Lead(s))
        BY <1>3, <1>5
    <2> QED
        BY <1>3, <2>1 DEF At
<1>7. data # <<>>
    <2>1. Len(data) >= 1
        BY <1>3, <1>4, <1>5
    <2> QED
        BY <2>1
<1>8. Toc(s) % 4 = s.code
    <2>1. \A x \in Nat, y \in 0..3 : (8 * x + y) % 4 = y
        OBVIOUS
    <2> QED
        BY <1>4, <2>1 DEF Toc
<1> QED
    BY <1>5, <1>6, <1>7, <1>8

(* The form of a packet is said by the two low bits of its first byte.     *)
LEMMA LayoutIs ==
    ASSUME NEW data, NEW sd, data # <<>>, NEW code, data[1] % 4 = code
    PROVE  /\ code = 0 => Layout(data, sd) =
                             Frames(1, FALSE, 1, Len(data) - 1, Len(data) - 1, <<>>, 0)
           /\ code = 1 => Layout(data, sd) = Equal(sd, 2, 1, Len(data) - 1, 0)
           /\ code = 2 => Layout(data, sd) = Several(2, Sizes(data, 1, Len(data) - 1, 1), 0)
           /\ code = 3 /\ ~(Len(data) - 1 < 1) =>
                 Layout(data, sd) =
                     Counted(data, sd, IF Bit(data[2], 64) = 1 THEN Padding(data, 2, Len(data) - 1 - 1)
                                       ELSE [bytes |-> 0, pad |-> 0])
<1>0. 0 # 1 /\ 0 # 2 /\ 0 # 3 /\ 1 # 2 /\ 1 # 3 /\ 2 # 3
    OBVIOUS
<1>1. CASE code = 0
    BY <1>0, <1>1, Zenon DEF Layout
<1>2. CASE code = 1
    BY <1>0, <1>2, Zenon DEF Layout
<1>3. CASE code = 2
    BY <1>0, <1>3, Zenon DEF Layout
<1>4. CASE code = 3
    BY <1>0, <1>4, Zenon DEF Layout
<1> QED
    BY <1>0, <1>1, <1>2, <1>3, <1>4, Zenon

(* Codes 0 to 2: one frame, two of one size, two.                          *)
LEMMA FewDescribed ==
    ASSUME NEW data, NEW s, NEW sd, Begun(data, s, sd), NEW t, Sums(s.size, t), s.code # 3
    PROVE  Describes(Layout(data, sd), s, sd, ForFrames(data, s), t)
<1> DEFINE c == Len(s.size)
           room == ForFrames(data, s)
           len == Len(data) - 1
<1>1. Allowed(s) /\ data \in Seq(Nat) /\ sd \in BOOLEAN
    BY DEF Begun
<1>2. /\ data # <<>> /\ data[1] = Toc(s) /\ data[1] % 4 = s.code
    BY TocIs
<1>3. /\ At(data, 0, Lead(s)) /\ Len(data) \in Nat /\ Len(Lead(s)) \in Nat /\ room \in Nat
      /\ Len(Own(s, sd)) \in Nat /\ Len(Own(s, sd)) + t[c] <= room /\ (~sd => room = t[c])
      /\ Len(data) = Len(Lead(s)) + room + PadOf(s)
    BY BegunIs
<1>4. PadOf(s) = 0
    BY DEF PadOf
<1>5. c \in 1..48 /\ s.code \in 0..3 /\ s.size \in Seq(Nat) /\ Toc(s) \in Nat
    BY <1>1, AllowedIs, LeadIs
<1>6. /\ t \in [0..c -> Nat] /\ t[0] = 0 /\ t[c] \in Nat
      /\ \A i \in 1..c : t[i] = t[i - 1] + s.size[i]
    <2>1. c \in 0..c
        BY <1>5, UpTo48
    <2> QED
        BY <2>1 DEF Sums
<1>7. CASE s.code = 0
    <2>1. c = 1
        BY <1>1, <1>7 DEF Allowed
    <2>2. Len(Lead(s)) = 1
        <3>1. Lead(s) = <<Toc(s)>>
            BY <1>1, <1>7, LeadIs
        <3> QED
            BY <3>1
    <2>3. len = room
        BY <1>3, <1>4, <2>2
    <2>4. Layout(data, sd) = Frames(1, FALSE, 1, len, len, <<>>, 0)
        BY <1>2, <1>7, LayoutIs
    <2> DEFINE l == Layout(data, sd)
    <2> HIDE DEF room
    <2>5. /\ l.count = 1 /\ l.p = 1 /\ l.len = room /\ l.pad = 0 /\ l.cbr = FALSE
          /\ l.last = room /\ l.size = <<>>
        BY <2>3, <2>4 DEF Frames
    <2> HIDE DEF l
    <2>6. c - 1 = 0 /\ room - t[c - 1] = room /\ [i \in 1..(c - 1) |-> s.size[i]] = <<>>
        BY <1>3, <1>6, <2>1
    <2>7. Describes(l, s, sd, room, t)
        BY <1>4, <2>1, <2>2, <2>5, <2>6 DEF Describes
    <2> QED
        BY <2>7 DEF l, room
<1>8. CASE s.code = 1
    <2>1. c = 2 /\ \A i \in 1..c : s.size[i] = s.size[1]
        BY <1>1, <1>8 DEF Allowed
    <2>2. Len(Lead(s)) = 1
        <3>1. Lead(s) = <<Toc(s)>>
            BY <1>1, <1>8, LeadIs
        <3> QED
            BY <3>1
    <2>3. len = room
        BY <1>3, <1>4, <2>2
    <2>4. Layout(data, sd) = Equal(sd, 2, 1, len, 0)
        BY <1>2, <1>8, LayoutIs
    <2>5. Layout(data, sd) = Equal(sd, c, Len(Lead(s)), room, PadOf(s))
        BY <1>4, <2>1, <2>2, <2>3, <2>4
    <2> QED
        BY <1>1, <1>3, <2>1, <2>5, EqualDescribes
<1>9. CASE s.code = 2
    <2>1. c = 2 /\ c - 1 = 1
        BY <1>1, <1>9 DEF Allowed
    <2>2. Lead(s) = <<Toc(s)>> \o FirstLengths(s) /\ FirstLengths(s) \in Seq(Nat)
        BY <1>1, <1>9, LeadIs
    <2>3. <<Toc(s)>> \in Seq(Nat) /\ Len(<<Toc(s)>>) = 1
        BY <1>5
    <2>4. /\ Len(Lead(s)) = 1 + Len(FirstLengths(s)) /\ Len(FirstLengths(s)) \in Nat
          /\ At(data, 1, FirstLengths(s))
        <3>1. Len(<<Toc(s)>> \o FirstLengths(s)) = 1 + Len(FirstLengths(s)) /\ Len(FirstLengths(s)) \in Nat
            BY <2>2, <2>3, ConcatIs
        <3>2. At(data, 0 + Len(<<Toc(s)>>), FirstLengths(s))
            BY <1>3, <2>2, <2>3, AtParts
        <3> QED
            BY <2>2, <2>3, <3>1, <3>2
    <2>5. len = room + Len(FirstLengths(s))
        BY <1>3, <1>4, <2>4
    <2>6. Layout(data, sd) = Several(2, Sizes(data, 1, len, 1), 0)
        BY <1>2, <1>9, LayoutIs
    <2>7. Layout(data, sd) =
              Several(c, Sizes(data, 1, room + Len(FirstLengths(s)), c - 1), PadOf(s))
        BY <1>4, <2>1, <2>5, <2>6
    <2>8. t[c] <= room
        BY <1>3, <1>6
    <2> HIDE DEF room
    <2>9. Describes(Several(c, Sizes(data, 1, room + Len(FirstLengths(s)), c - 1), PadOf(s)),
                    s, sd, room, t)
        BY <1>1, <1>3, <2>4, <2>8, SeveralDescribes
    <2> QED
        BY <2>7, <2>9 DEF room
<1> QED
    BY <1>5, <1>7, <1>8, <1>9

LEMMA NotNone == \A n \in 1..48 : n # 0
OBVIOUS

(* Code 3: as many as the second byte says, with padding or without.       *)
LEMMA CountedDescribed ==
    ASSUME NEW data, NEW s, NEW sd, Begun(data, s, sd), NEW t, Sums(s.size, t), s.code = 3
    PROVE  Describes(Layout(data, sd), s, sd, ForFrames(data, s), t)
<1> DEFINE c == Len(s.size)
           room == ForFrames(data, s)
           x == Toc(s)
           y == CountByte(s)
           P == PadLength(s)
           V == Variable(s)
           a == IF s.pad >= 0 THEN 1 ELSE 0
           b == IF s.vbr THEN 1 ELSE 0
<1>1. Allowed(s) /\ data \in Seq(Nat) /\ sd \in BOOLEAN
    BY DEF Begun
<1>2. data # <<>> /\ data[1] = x /\ data[1] % 4 = s.code
    BY TocIs
<1>3. /\ At(data, 0, Lead(s)) /\ Len(data) \in Nat /\ Len(Lead(s)) \in Nat /\ room \in Nat
      /\ Len(Own(s, sd)) \in Nat /\ Len(Own(s, sd)) + t[c] <= room /\ (~sd => room = t[c])
      /\ Len(data) = Len(Lead(s)) + room + PadOf(s)
    BY BegunIs
<1>4. /\ c \in 1..48 /\ s.size \in Seq(Nat) /\ PadOf(s) \in Nat /\ s.vbr \in BOOLEAN
      /\ s.pad \in Nat \cup {-1}
    BY <1>1, AllowedIs
<1>5. /\ x \in Nat /\ y \in Nat /\ P \in Seq(Nat) /\ V \in Seq(Nat) /\ FirstLengths(s) \in Seq(Nat)
      /\ Lead(s) = (<<x, y>> \o P) \o V
    BY <1>1, LeadIs
<1>6. /\ y % 64 = c /\ (y \div 64) % 2 = a /\ (y >= 128 <=> b = 1)
    <2>1. a \in {0, 1} /\ b \in {0, 1} /\ y = c + 64 * a + 128 * b
        BY DEF CountByte
    <2> HIDE DEF a, b, y, c
    <2> QED
        BY <1>4, <2>1, CountByteIs
<1>7. t[c] \in Nat
    <2>1. c \in 0..c
        BY <1>4, UpTo48
    <2> QED
        BY <2>1 DEF Sums
<1> HIDE DEF x, y, P, V, a, b, room
<1>8. /\ <<x, y>> \in Seq(Nat) /\ Len(<<x, y>>) = 2 /\ <<x, y>>[1] = x /\ <<x, y>>[2] = y
    BY <1>5
<1>9. /\ <<x, y>> \o P \in Seq(Nat) /\ Len(P) \in Nat /\ Len(V) \in Nat
      /\ Len(<<x, y>> \o P) = 2 + Len(P) /\ Len(Lead(s)) = 2 + Len(P) + Len(V)
    <2>1. <<x, y>> \o P \in Seq(Nat) /\ Len(P) \in Nat /\ Len(<<x, y>> \o P) = 2 + Len(P)
        BY <1>5, <1>8, ConcatIs
    <2>2. Len(V) \in Nat /\ Len((<<x, y>> \o P) \o V) = Len(<<x, y>> \o P) + Len(V)
        BY <1>5, <2>1, ConcatIs
    <2> QED
        BY <1>5, <2>1, <2>2
<1>10. /\ At(data, 0, <<x, y>>) /\ At(data, 2, P) /\ At(data, 2 + Len(P), V)
    <2>1. At(data, 0, <<x, y>> \o P) /\ At(data, 0 + Len(<<x, y>> \o P), V)
        BY <1>3, <1>5, <1>9, AtParts
    <2>2. At(data, 0, <<x, y>>) /\ At(data, 0 + Len(<<x, y>>), P)
        BY <1>5, <1>8, <2>1, AtParts
    <2>3. 0 + Len(<<x, y>> \o P) = 2 + Len(P) /\ 0 + Len(<<x, y>>) = 2
        BY <1>8, <1>9
    <2> QED
        BY <2>1, <2>2, <2>3
<1>11. data[2] = y
    <2>1. 2 \in 1..Len(<<x, y>>) /\ 0 + 2 = 2
        BY <1>8
    <2>2. data[0 + 2] = <<x, y>>[2]
        BY <1>10, <2>1 DEF At
    <2> QED
        BY <1>8, <2>1, <2>2
<1>12. Len(data) - 1 \in Nat /\ ~(Len(data) - 1 < 1) /\ Len(data) - 1 - 1 \in Nat
       /\ Len(data) - 1 - 1 = Len(P) + Len(V) + room + PadOf(s)
    BY <1>3, <1>4, <1>9, SMTT(30)
<1> DEFINE padding == [bytes |-> Len(P), pad |-> PadOf(s)]
<1>13. Layout(data, sd) = Counted(data, sd, padding)
    <2>1. CASE s.pad >= 0
        <3>1. Bit(data[2], 64) = 1
            BY <1>6, <1>11, <2>1 DEF Bit, a
        <3>2. P = PadBytes(s.pad) /\ s.pad \in Nat /\ PadOf(s) = s.pad
            BY <1>4, <2>1 DEF P, PadLength, PadOf
        <3>3. Len(PadBytes(s.pad)) + s.pad <= Len(data) - 1 - 1
            BY <1>3, <1>9, <1>12, <3>2
        <3>4. Padding(data, 2, Len(data) - 1 - 1) = padding
            BY <1>10, <1>12, <3>2, <3>3, PaddingIs
        <3> HIDE DEF padding
        <3> QED
            BY <1>2, <1>12, <3>1, <3>4, LayoutIs
    <2>2. CASE ~(s.pad >= 0)
        <3>1. ~(Bit(data[2], 64) = 1)
            BY <1>6, <1>11, <2>2 DEF Bit, a
        <3>2. Len(P) = 0 /\ PadOf(s) = 0
            <4>1. s.pad < 0 /\ ~(s.pad > 0)
                BY <1>4, <2>2
            <4>2. P = <<>>
                BY <4>1 DEF P, PadLength
            <4> QED
                BY <4>1, <4>2 DEF PadOf
        <3>3. padding = [bytes |-> 0, pad |-> 0]
            BY <3>2
        <3> HIDE DEF padding
        <3> QED
            BY <1>2, <1>12, <3>1, <3>3, LayoutIs
    <2> QED
        BY <2>1, <2>2
<1>14. Counted(data, sd, padding) =
           IF y >= 128
           THEN Several(c, Sizes(data, 2 + Len(P), Len(V) + room, c - 1), PadOf(s))
           ELSE Equal(sd, c, 2 + Len(P), Len(V) + room, PadOf(s))
    <2>1. ~(SamplesPerFrame(x) * c > 5760)
        <3>1. InTime(s)
            BY <1>1 DEF Allowed
        <3> QED
            BY <3>1 DEF InTime, x, Toc
    <2>2. ~(c = 0 \/ SamplesPerFrame(x) * c > 5760)
        <3>1. c \in 1..48
            BY <1>4, Zenon
        <3>2. c # 0
            BY <3>1, NotNone, Zenon
        <3> QED
            BY <2>1, <3>2
    <2>3. padding.bytes = Len(P) /\ padding.pad = PadOf(s) /\ ~(PadOf(s) < 0)
        BY <1>4
    <2>4. Len(data) - (2 + Len(P)) - PadOf(s) = Len(V) + room /\ ~(Len(V) + room < 0)
        BY <1>3, <1>4, <1>9
    <2> HIDE DEF padding
    <2>5. /\ data[2] % 64 = c /\ data[2] = y /\ data[1] = x
        BY <1>2, <1>6, <1>11
    <2>6. /\ 2 + padding.bytes = 2 + Len(P)
          /\ Len(data) - (2 + padding.bytes) - padding.pad = Len(V) + room
        BY <2>3, <2>4
    <2>7. ~(padding.pad < 0 \/ Len(data) - (2 + padding.bytes) - padding.pad < 0)
        BY <2>3, <2>4, <2>6
    <2> HIDE DEF c
    <2>8. ~(data[2] % 64 = 0 \/ SamplesPerFrame(data[1]) * (data[2] % 64) > 5760)
        <3>1. data[2] % 64 = c /\ data[1] = x
            BY <2>5
        <3> QED
            BY <2>2, <3>1
    <2> QED
        BY <2>3, <2>5, <2>6, <2>7, <2>8 DEF Counted
<1>15. CASE s.vbr
    <2>1. y >= 128 /\ V = FirstLengths(s)
        BY <1>6, <1>15 DEF b, V, Variable
    <2>2. Layout(data, sd) =
              Several(c, Sizes(data, 2 + Len(P), room + Len(FirstLengths(s)), c - 1), PadOf(s))
        <3>1. Len(V) + room = room + Len(FirstLengths(s))
            BY <1>3, <1>9, <2>1
        <3> QED
            BY <1>13, <1>14, <2>1, <3>1
    <2>3. t[c] <= room /\ 2 + Len(P) \in Nat
        BY <1>3, <1>7, <1>9
    <2>4. At(data, 2 + Len(P), FirstLengths(s)) /\ Len(Lead(s)) = (2 + Len(P)) + Len(FirstLengths(s))
        BY <1>9, <1>10, <2>1
    <2>5. Describes(Several(c, Sizes(data, 2 + Len(P), room + Len(FirstLengths(s)), c - 1), PadOf(s)),
                    s, sd, room, t)
        BY <1>1, <1>3, <2>3, <2>4, SeveralDescribes
    <2> QED
        BY <2>2, <2>5 DEF room
<1>16. CASE ~s.vbr
    <2>1. ~(y >= 128) /\ Len(V) = 0
        BY <1>6, <1>16 DEF b, V, Variable
    <2>2. Layout(data, sd) = Equal(sd, c, Len(Lead(s)), room, PadOf(s))
        <3>1. Len(V) + room = room /\ 2 + Len(P) = Len(Lead(s))
            BY <1>3, <1>9, <2>1
        <3> QED
            BY <1>13, <1>14, <2>1, <3>1
    <2>3. \A i \in 1..c : s.size[i] = s.size[1]
        BY <1>1, <1>16 DEF Allowed
    <2>4. Describes(Equal(sd, c, Len(Lead(s)), room, PadOf(s)), s, sd, room, t)
        BY <1>1, <1>3, <2>3, EqualDescribes
    <2> QED
        BY <2>2, <2>4 DEF room
<1> QED
    BY <1>4, <1>15, <1>16

(* The size of the last frame: that of a self-delimited packet, or all of  *)
(* one size, is read, that of another is what is left.                     *)
LEMMA ParseLaid ==
    ASSUME NEW data, NEW s, NEW sd, Begun(data, s, sd)
    PROVE  /\ Parse(data, sd) # Bad
           /\ Parse(data, sd).size = s.size
           /\ Parse(data, sd).packet = Len(Laid(s, sd))
<1> DEFINE c == Len(s.size)
           room == ForFrames(data, s)
           l == Layout(data, sd)
           k == s.size[c]
           q == Parse(data, sd)
           own == Len(Own(s, sd))
<1>1. Allowed(s) /\ data \in Seq(Nat) /\ sd \in BOOLEAN
    BY DEF Begun
<1>2. /\ s.size \in Seq(FrameSize) /\ s.size \in Seq(Nat) /\ c \in 1..48 /\ PadOf(s) \in Nat
      /\ \A i \in 1..c : s.size[i] \in FrameSize /\ s.size[i] \in Nat
    BY <1>1, AllowedIs
<1>3. PICK t : Sums(s.size, t)
    BY <1>2, SumsExist
<1>4. Describes(l, s, sd, room, t)
    BY <1>1, <1>3, FewDescribed, CountedDescribed
<1>5. /\ At(data, Len(Lead(s)), Own(s, sd)) /\ Len(Lead(s)) \in Nat /\ own \in Nat
      /\ room \in Nat /\ own + t[c] <= room /\ (~sd => room = t[c])
    BY <1>3, BegunIs
<1>6. /\ Len(Laid(s, sd)) = Len(Lead(s)) + own + t[c] + PadOf(s)
      /\ Sum(s.size) = t[c] /\ t[c] \in Nat /\ (sd => Own(s, sd) = LengthBytes(k)) /\ (~sd => own = 0)
    BY <1>1, <1>3, LaidIs
<1>7. /\ c \in Nat /\ c \in 1..c /\ c - 1 \in 0..c /\ k \in FrameSize /\ k \in Nat /\ k <= 1275
      /\ 1 <= c
    <2>1. c \in 1..c /\ c - 1 \in 0..c /\ c \in Nat
        BY <1>2, UpTo48
    <2>2. k \in FrameSize
        BY <1>2, <2>1
    <2> QED
        BY <1>2, <2>1, <2>2, FrameSizes
<1>8. t[c] = t[c - 1] + k /\ t[c - 1] \in Nat
    BY <1>3, <1>7 DEF Sums
<1>9. /\ l.count = c /\ l.p = Len(Lead(s)) /\ l.len = room /\ l.pad = PadOf(s) /\ l.cbr \in BOOLEAN
      /\ l.cbr => \A i \in 1..c : s.size[i] = k
      /\ l.cbr /\ ~sd => l.last = k
      /\ ~l.cbr => l.last = room - t[c - 1]
      /\ ~l.cbr \/ ~sd => l.size = [i \in 1..(c - 1) |-> s.size[i]]
    BY <1>4 DEF Describes
<1> HIDE DEF l, room
<1>10. l # Bad
    <2>1. ASSUME l = Bad PROVE FALSE
        <3>1. l.count = -1
            BY <2>1 DEF Bad
        <3> QED
            BY <1>2, <1>9, <3>1
    <2> QED
        BY <2>1
<1>11. Append([i \in 1..(c - 1) |-> s.size[i]], k) = s.size
    <2> DEFINE f == [i \in 1..(c - 1) |-> s.size[i]]
    <2>1. f \in Seq(Nat) /\ Len(f) = c - 1 /\ \A i \in 1..(c - 1) : f[i] = s.size[i]
        BY <1>2, <1>7
    <2> HIDE DEF f
    <2>2. /\ Append(f, k) \in Seq(Nat) /\ Len(Append(f, k)) = c
          /\ \A i \in 1..(c - 1) : Append(f, k)[i] = s.size[i]
          /\ Append(f, k)[c] = k
        BY <1>7, <2>1, AppendProperties
    <2>3. ASSUME NEW i \in 1..c PROVE Append(f, k)[i] = s.size[i]
        <3>1. i \in 1..(c - 1) \/ i = c
            BY <1>7
        <3> QED
            BY <2>2, <3>1
    <2> HIDE DEF k, c
    <2>4. Append(f, k) = s.size
        BY <1>2, <2>2, <2>3, SeqEqual DEF c
    <2> QED
        BY <2>4 DEF f
<1>12. ASSUME NEW payload \in Nat, payload = Len(Lead(s)) + own,
              q = Parsed(l, s.size, payload)
       PROVE  q # Bad /\ q.size = s.size /\ q.packet = Len(Laid(s, sd))
    <2>1. q.count = c /\ q.size = s.size /\ q.packet = payload + t[c] + PadOf(s)
        BY <1>6, <1>9, <1>12 DEF Parsed
    <2> HIDE DEF q
    <2>2. q # Bad
        <3>1. Bad.count = -1
            BY DEF Bad
        <3> QED
            BY <1>2, <2>1, <3>1
    <2> QED
        BY <1>6, <1>12, <2>1, <2>2
<1>13. CASE sd
    <2> DEFINE o == SizeAt(data, l.p, l.len)
    <2> HIDE DEF k, c, q
    <2>1. Own(s, sd) = LengthBytes(k) /\ own <= room
        <3>1. Own(s, sd) = LengthBytes(k)
            BY <1>6, <1>13, Zenon
        <3> HIDE DEF own
        <3>2. own <= room
            BY <1>5, <1>6
        <3> QED
            BY <3>1, <3>2
    <2> USE DEF k, c, q
    <2>2. o = [bytes |-> own, size |-> k]
        BY <1>5, <1>7, <1>9, <2>1, SizeAtIs
    <2> HIDE DEF o, own
    <2>3. o.bytes = own /\ o.size = k
        BY <2>2
    <2>4. q = Delimited(l, o)
        BY <1>10, <1>13, Zenon DEF Parse, Complete, o, l
    <2>5. ~(o.size < 0) /\ ~(o.bytes + o.size > l.len)
        BY <1>5, <1>7, <1>8, <1>9, <2>3
    <2>6. CASE l.cbr
        <3>1. t[c] = k * c
            BY <1>2, <1>3, <1>7, <1>9, <2>6, SumsOfEqual
        <3>2. ~(o.size * l.count > l.len - o.bytes)
            BY <1>5, <1>6, <1>7, <1>9, <2>3, <3>1
        <3>3. q = Parsed(l, [i \in 1..l.count |-> o.size], l.p + o.bytes)
            BY <2>4, <2>5, <2>6, <3>2 DEF Delimited
        <3>4. [i \in 1..l.count |-> o.size] = s.size
            <4>1. s.size = [i \in 1..c |-> s.size[i]]
                BY <1>2
            <4> QED
                BY <1>9, <2>3, <2>6, <4>1
        <3> QED
            BY <1>5, <1>9, <1>12, <2>3, <3>3, <3>4
    <2>7. CASE ~l.cbr
        <3>1. ~(o.bytes + o.size > l.last)
            BY <1>5, <1>7, <1>8, <1>9, <2>3, <2>7
        <3>2. q = Parsed(l, Append(l.size, o.size), l.p + o.bytes)
            BY <2>4, <2>5, <2>7, <3>1 DEF Delimited
        <3>3. Append(l.size, o.size) = s.size
            BY <1>9, <1>11, <2>3, <2>7
        <3> QED
            BY <1>5, <1>9, <1>12, <2>3, <3>2, <3>3
    <2> QED
        BY <1>9, <2>6, <2>7
<1>14. CASE ~sd
    <2>1. q = Undelimited(l)
        BY <1>10, <1>14, Zenon DEF Parse, Complete, l
    <2>2. l.last = k
        <3>1. room = t[c] /\ room - t[c - 1] = k
            BY <1>5, <1>7, <1>8, <1>14
        <3> QED
            BY <1>9, <1>14, <3>1
    <2>3. q = Parsed(l, Append(l.size, l.last), l.p)
        BY <1>7, <2>1, <2>2 DEF Undelimited
    <2>4. Append(l.size, l.last) = s.size
        BY <1>9, <1>11, <1>14, <2>2
    <2>5. l.p = Len(Lead(s)) + own
        BY <1>5, <1>6, <1>9, <1>14
    <2> HIDE DEF own
    <2> QED
        BY <1>5, <1>12, <2>3, <2>4, <2>5
<1> QED
    BY <1>1, <1>13, <1>14

(* A header of the stream counts as no packet.                             *)
LEMMA HeaderHasNone == NbSamples(OpusHead) = 0
<1>1. OpusHead # <<>> /\ OpusHead[1] = 79 /\ OpusHead[2] = 112 /\ Len(OpusHead) = 8
    BY DEF OpusHead
<1>2. 2^1 = 2
    OBVIOUS
<1>3. SamplesPerFrame(79) = 960
    BY <1>2 DEF SamplesPerFrame
<1>4. NbFrames(OpusHead) = 48
    BY <1>1 DEF NbFrames
<1>5. NbFrames(OpusHead) * SamplesPerFrame(OpusHead[1]) = 46080
    BY <1>1, <1>3, <1>4
<1> QED
    BY <1>5 DEF NbSamples

LEMMA LaidType ==
    ASSUME NEW s, Allowed(s), NEW sd \in BOOLEAN
    PROVE  Laid(s, sd) \in Seq(Nat) /\ Len(Laid(s, sd)) \in Nat
<1>1. PICK t : Sums(s.size, t)
    BY AllowedIs, SumsExist
<1>2. Laid(s, sd) \in Seq(Nat)
    BY <1>1, LaidIs
<1> QED
    BY <1>2

(* What is left of a packet when the streams before are passed.            *)
LEMMA RestBegins ==
    ASSUME NEW data \in Seq(Nat), NEW p \in Nat, NEW s, Allowed(s), NEW sd \in BOOLEAN,
           At(data, p, Laid(s, sd)), p + Len(Laid(s, sd)) <= Len(data),
           ~sd => p + Len(Laid(s, sd)) = Len(data)
    PROVE  Begun(SubSeq(data, p + 1, Len(data)), s, sd)
<1> DEFINE e == Len(data)
           x == Laid(s, sd)
           rest == SubSeq(data, p + 1, e)
<1>1. e \in Nat /\ Len(x) \in Nat /\ p + 1 \in Int /\ e \in Int
    BY LaidType
<1>2. \A i \in (p + 1)..e : data[i] \in Nat
    <2>1. \A i \in (p + 1)..e : i \in 1..e
        BY <1>1
    <2> QED
        BY <2>1
<1>3. /\ rest \in Seq(Nat)
      /\ Len(rest) = IF p + 1 <= e THEN e - (p + 1) + 1 ELSE 0
      /\ \A i \in 1..(e - (p + 1) + 1) : rest[i] = data[(p + 1) + i - 1]
    <2> HIDE DEF e
    <2> QED
        BY <1>1, <1>2, SubSeqProperties
<1> HIDE DEF rest, x
<1>4. Len(rest) = e - p
    BY <1>1, <1>3 DEF x
<1>5. ASSUME NEW i \in 1..Len(x) PROVE rest[0 + i] = x[i]
    <2>1. i \in 1..(e - (p + 1) + 1) /\ (p + 1) + i - 1 = p + i /\ 0 + i = i
        BY <1>1 DEF x
    <2>2. data[p + i] = x[i]
        BY DEF At, x
    <2> QED
        BY <1>3, <2>1, <2>2
<1>6. Len(x) <= Len(rest) /\ (~sd => Len(rest) = Len(x))
    BY <1>1, <1>4 DEF x
<1> QED
    BY <1>3, <1>5, <1>6 DEF Begun, At, x, rest

(* One stream more is read: stream i of n lies at p.                       *)
LaidAs(s, i, n) == Laid(s, i # n)
LineAt(p, line) == [at |-> p, line |-> line]
Further(p, line, s, x) == LineAt(p + Len(x), Append(line, s.size))
Ahead(data, n, i, p, s, x) ==
    /\ data \in Seq(Nat) /\ p \in Nat /\ Allowed(s) /\ x = LaidAs(s, i, n)
    /\ At(data, p, x) /\ p + Len(x) <= Len(data) /\ (i = n => p + Len(x) = Len(data))

LEMMA LineMoreIs ==
    ASSUME NEW data, NEW n, NEW i, NEW p, NEW s, NEW x, Ahead(data, n, i, p, s, x), NEW line
    PROVE  LineMore(data, n, i, LineAt(p, line)) = Further(p, line, s, x)
<1> DEFINE sd == i # n
           d == SubSeq(data, p + 1, Len(data))
           got == Parse(d, sd)
           r == LineAt(p, line)
<1>1. x = Laid(s, sd)
    BY Zenon DEF Ahead, LaidAs
<1>2. sd \in BOOLEAN /\ (~sd => i = n)
    OBVIOUS
<1> HIDE DEF sd
<1>3. /\ data \in Seq(Nat) /\ p \in Nat /\ Allowed(s)
      /\ At(data, p, x) /\ p + Len(x) <= Len(data) /\ (~sd => p + Len(x) = Len(data))
    BY <1>2 DEF Ahead
<1>4. Begun(d, s, sd)
    BY <1>1, <1>2, <1>3, RestBegins
<1> HIDE DEF d
<1>5. got # Bad /\ got.size = s.size /\ got.packet = Len(x)
    BY <1>1, <1>4, ParseLaid
<1>6. r.at = p /\ r.line = line
    BY DEF LineAt
<1> HIDE DEF got, r
<1>7. LineMore(data, n, i, r) = LineAt(r.at + got.packet, Append(r.line, got.size))
    <2>1. d = SubSeq(data, r.at + 1, Len(data))
        BY <1>6 DEF d
    <2> QED
        BY <1>5, <2>1, Zenon DEF LineMore, LineAt, got, sd
<1> QED
    BY <1>5, <1>6, <1>7, Zenon DEF r, Further

(* All streams of a packet are read, each where it begins.                 *)
LEMMA SaveRangeIs ==
    ASSUME NEW parts, parts \in Seq(ToSet(parts)), \A s \in ToSet(parts) : Allowed(s)
    PROVE  SaveRange(Multistream(parts), Len(parts)) =
               [at |-> Len(Multistream(parts)),
                line |-> [i \in 1..Len(parts) |-> parts[i].size]]
<1> DEFINE n == Len(parts)
           L == [i \in 1..n |-> Laid(parts[i], i # n)]
           data == FlattenSeq(L)
           F(f) == [i \in 0..n |-> IF i = 0 THEN [at |-> 0, line |-> <<>>]
                                   ELSE LineMore(data, n, i, f[i - 1])]
           got == CHOOSE f : f = F(f)
<1>1. Multistream(parts) = data
    BY DEF Multistream
<1>2. SaveRange(data, n) = got[n]
    BY DEF SaveRange
<1>3. n \in Nat /\ \A i \in 1..n : Allowed(parts[i])
    <2>1. \A i \in 1..n : parts[i] \in ToSet(parts)
        OBVIOUS
    <2> QED
        BY <2>1
<1>4. \A i \in 1..n : L[i] = Laid(parts[i], i # n) /\ L[i] \in Seq(Nat) /\ Len(L[i]) \in Nat
    <2>1. ASSUME NEW i \in 1..n
          PROVE  L[i] = Laid(parts[i], i # n) /\ L[i] \in Seq(Nat) /\ Len(L[i]) \in Nat
        <3>1. (i # n) \in BOOLEAN /\ Allowed(parts[i])
            BY <1>3
        <3> QED
            BY <3>1, LaidType
    <2> QED
        BY <2>1
<1>5. L \in Seq(Seq(Nat)) /\ Len(L) = n
    BY <1>3, <1>4
<1> HIDE DEF L
<1>6. PICK at : Pieces(L, at)
    BY <1>5, PiecesExist
<1>7. /\ at \in [0..n -> Nat] /\ at[0] = 0
      /\ \A i \in 1..n : at[i] = at[i - 1] + Len(L[i])
      /\ data \in Seq(Nat) /\ Len(data) = at[n]
      /\ \A i \in 1..n : At(data, at[i - 1], L[i])
    BY <1>5, <1>6 DEF Pieces
<1> HIDE DEF data
<1> DEFINE G(i) == [at |-> at[i], line |-> [j \in 1..i |-> parts[j].size]]
           g == [i \in 0..n |-> G(i)]
<1>8. ASSUME NEW i \in 1..n PROVE LineMore(data, n, i, G(i - 1)) = G(i)
    <2> DEFINE a1 == at[i - 1]
               a2 == at[i]
               s == parts[i]
               x == Laid(s, i # n)
               line == [j \in 1..(i - 1) |-> parts[j].size]
    <2>1. /\ i - 1 \in 0..n /\ i \in 0..n /\ n \in 0..n
        BY <1>3
    <2>2. /\ a1 \in Nat /\ a2 \in Nat /\ Len(x) \in Nat /\ a2 = a1 + Len(x) /\ Allowed(s)
          /\ At(data, a1, x)
        BY <1>3, <1>4, <1>7, <2>1
    <2>3. a2 <= Len(data)
        <3>1. ASSUME NEW m \in 1..n PROVE at[m - 1] <= at[m]
            <4>1. m - 1 \in 0..n /\ m \in 0..n
                BY <1>3
            <4>2. Len(L[m]) \in Nat /\ at[m] = at[m - 1] + Len(L[m])
                BY <1>4, <1>7
            <4>3. at[m - 1] \in Nat
                BY <1>7, <4>1
            <4> DEFINE b == Len(L[m])
                       u == at[m - 1]
                       v == at[m]
            <4> HIDE DEF b, u, v
            <4>4. u <= v
                BY <4>2, <4>3 DEF b, u, v
            <4> QED
                BY <4>4 DEF u, v
        <3>2. \A m \in 0..n : at[m] <= at[n]
            BY <1>3, <1>7, <2>1, <3>1, Grows
        <3> QED
            BY <1>7, <2>1, <3>2
    <2>4. i = n => a2 = Len(data)
        BY <1>7
    <2>5. Append(line, s.size) = [j \in 1..i |-> parts[j].size]
        OBVIOUS
    <2> HIDE DEF a1, a2, s, line
    <2>6. a1 + Len(x) <= Len(data) /\ (i = n => a1 + Len(x) = Len(data))
        BY <2>2, <2>3, <2>4
    <2>7. Ahead(data, n, i, a1, s, x)
        <3>1. data \in Seq(Nat)
            BY <1>7
        <3>2. x = LaidAs(s, i, n)
            BY Zenon DEF LaidAs
        <3> HIDE DEF x, n
        <3> QED
            BY <2>2, <2>6, <3>1, <3>2 DEF Ahead
    <2>8. LineMore(data, n, i, LineAt(a1, line)) = Further(a1, line, s, x)
        <3> HIDE DEF x, n
        <3> QED
            BY <2>7, LineMoreIs
    <2>9. Further(a1, line, s, x) = G(i)
        BY <2>2, <2>5 DEF Further, LineAt, a2
    <2> QED
        BY <2>8, <2>9 DEF LineAt, a1, line
<1>9. G(0) = [at |-> 0, line |-> <<>>]
    <2>1. [j \in 1..0 |-> parts[j].size] = <<>>
        OBVIOUS
    <2> QED
        BY <1>7, <2>1
<1>10. g = F(g)
    <2>1. ASSUME NEW i \in 0..n PROVE g[i] = F(g)[i]
        <3>1. CASE i = 0
            BY <1>9, <3>1
        <3>2. CASE i # 0
            <4>1. i \in 1..n /\ i - 1 \in 0..n
                BY <1>3, <3>2
            <4> HIDE DEF G
            <4> QED
                BY <1>8, <3>2, <4>1
        <3> QED
            BY <3>1, <3>2
    <2> HIDE DEF F, G
    <2>2. F(g) = [i \in 0..n |-> F(g)[i]]
        BY DEF F
    <2> QED
        BY <2>1, <2>2
<1>11. got = F(got)
    <2> HIDE DEF F, g
    <2> QED
        BY <1>10
<1> HIDE DEF got
<1>12. \A i \in 0..n : i # 0 => got[i] = LineMore(data, n, i, got[i - 1])
    BY <1>11, ZenonT(30)
<1>13. got[0] = G(0)
    <2>1. 0 \in 0..n
        BY <1>3
    <2>2. got[0] = [at |-> 0, line |-> <<>>]
        BY <1>11, <2>1, ZenonT(30)
    <2> QED
        BY <1>9, <2>2
<1> HIDE DEF G, F
<1> DEFINE Wrong == {i \in 0..n : got[i] # G(i)}
<1>14. ASSUME Wrong # {} PROVE FALSE
    <2>1. PICK i \in Wrong : \A j \in Wrong : i <= j
        <3>1. Wrong \subseteq Nat
            OBVIOUS
        <3> HIDE DEF Wrong
        <3> QED
            BY <1>14, <3>1, Smallest
    <2>2. i \in 0..n /\ got[i] # G(i)
        OBVIOUS
    <2>3. i \in 1..n /\ i # 0 /\ i - 1 \in 0..n /\ ~(i <= i - 1)
        BY <1>3, <1>13, <2>2
    <2>4. got[i - 1] = G(i - 1)
        BY <2>1, <2>3
    <2> QED
        BY <1>8, <1>12, <2>2, <2>3, <2>4
<1>15. got[n] = G(n)
    <2>1. n \in 0..n
        BY <1>3
    <2> QED
        BY <1>14, <2>1
<1> QED
    BY <1>1, <1>2, <1>7, <1>15 DEF G

(* The line of the last packet is right, and there is none before the      *)
(* encoder is set up.                                                      *)
BeforeRead == {"identify", "find", "format", "data", "metadata", "decide", "configure"}
LineInv == RangesTrue /\ (pc \in BeforeRead => range.packet = <<>>)

LEMMA PacketKeeps ==
    ASSUME NEW parts \in Packets, Len(parts) \in {0, nbStreams}, PacketOut(parts),
           RangesTrue, nbStreams' = nbStreams
    PROVE  RangesTrue'
<1> DEFINE data == IF parts = <<>> THEN OpusHead ELSE Multistream(parts)
           n == NbSamples(data)
<1>1. CASE range' = range
    BY <1>1 DEF RangesTrue
<1>2. CASE range' # range
    <2>1. n # 0 /\ range' = [packet |-> data, streams |-> parts, line |-> SaveRange(data, nbStreams)]
        <3> HIDE DEF data
        <3>1. n # 0
            BY <1>2 DEF PacketOut, data
        <3> HIDE DEF n
        <3> QED
            BY <1>2, <3>1, Zenon DEF PacketOut, data, n
    <2>2. parts # <<>>
        BY <2>1, HeaderHasNone
    <2>3. data = Multistream(parts)
        BY <2>2
    <2> HIDE DEF data, n
    <2>4. parts \in Seq(ToSet(parts)) /\ \A s \in ToSet(parts) : Allowed(s)
        BY OpusEncAssumption
    <2>5. Len(parts) = nbStreams
        BY <2>2, <2>4
    <2>6. SaveRange(data, nbStreams) =
              [at |-> Len(data), line |-> [i \in 1..nbStreams |-> parts[i].size]]
        BY <2>3, <2>4, <2>5, SaveRangeIs
    <2> DEFINE result == SaveRange(data, nbStreams)
               sizes == [i \in 1..nbStreams |-> parts[i].size]
    <2>7. result.at = Len(data) /\ result.line = sizes
        BY <2>6
    <2> HIDE DEF result
    <2>8. range'.packet = data /\ range'.line = result /\ range'.streams = parts
        BY <2>1 DEF result
    <2>9. sizes = [i \in 1..nbStreams' |-> range'.streams[i].size]
        BY <2>8
    <2> HIDE DEF sizes
    <2> QED
        BY <2>7, <2>8, <2>9 DEF RangesTrue
<1> QED
    BY <1>1, <1>2

LEMMA LineStep ==
    ASSUME LineInv, [Next]_vars
    PROVE  LineInv'
<1>1. CASE UNCHANGED <<range, nbStreams>> /\ (pc' \in BeforeRead => pc \in BeforeRead)
    BY <1>1 DEF LineInv, RangesTrue
<1>2. CASE (Opening \/ Reading) /\ UNCHANGED encVars
    <2>1. pc' \in BeforeRead => pc \in BeforeRead
        <3>1. CASE Opening
            BY <3>1 DEF Opening, OpenRaw, Identify, Find, ReadFormat, ReadData, FlacAsks,
                        FlacOpened, BeforeRead
        <3>2. CASE Reading
            BY <3>2 DEF Reading, ReadPcm, FlacBlock, FlacEnds, FlacCopies, BeforeRead
        <3> QED
            BY <1>2, <3>1, <3>2
    <2> QED
        BY <1>1, <1>2, <2>1 DEF encVars
<1>3. CASE Decide
    BY <1>1, <1>3 DEF Decide, BeforeRead
<1>4. CASE Configure
    <2>1. range.packet = <<>> /\ range' = range
        BY <1>4 DEF Configure, LineInv, BeforeRead
    <2> QED
        BY <2>1 DEF LineInv, RangesTrue
<1>5. CASE Encode \/ Drain
    <2>1. Emits /\ nbStreams' = nbStreams /\ pc' \notin BeforeRead
        BY <1>5 DEF Encode, Drain, BeforeRead
    <2>2. CASE UNCHANGED <<stats, range>>
        BY <2>1, <2>2 DEF LineInv, RangesTrue
    <2>3. CASE \E parts \in Packets : Len(parts) \in {0, nbStreams} /\ PacketOut(parts)
        BY <2>1, <2>3, PacketKeeps DEF LineInv
    <2> QED
        BY <2>1, <2>2, <2>3 DEF Emits
<1>6. CASE Close
    BY <1>1, <1>6 DEF Close, BeforeRead
<1>7. CASE UNCHANGED vars
    BY <1>1, <1>7 DEF vars, encVars
<1> QED
    BY <1>2, <1>3, <1>4, <1>5, <1>6, <1>7 DEF Next

(* The line of the range file has the sizes of all frames of all streams   *)
(* of the packet, and the packet is read to its end, however its streams   *)
(* are laid out: the lengths of one byte or two, frames of one size or of  *)
(* many, the padding, and the length that the streams before the last one  *)
(* have in front of their frames (save_range and opus_packet_parse_impl,   *)
(* diag_range.c).                                                          *)
THEOREM LinesTrue == Spec => []RangesTrue
<1>1. Init => LineInv
    BY DEF Init, LineInv, RangesTrue
<1>2. LineInv /\ [Next]_vars => LineInv'
    BY LineStep
<1>3. LineInv => RangesTrue
    BY DEF LineInv
<1> QED
    BY <1>1, <1>2, <1>3, PTL DEF Spec

-----------------------------------------------------------------------------
(* The checker of Ogg files: OpusInfo, which shares no state with the      *)
(* encoder.                                                                *)

(* The pages of a stream.                                                  *)

AddPage(sn, s, S) ==
    [x \in (1..Len(s)) \X Seq(S) |->
        IF s[x[1]].serial = sn THEN Append(x[2], s[x[1]]) ELSE x[2]]

(* One page more.                                                          *)
LEMMA AddPageIs ==
    ASSUME NEW S, NEW s \in Seq(S), NEW sn, NEW i \in 1..Len(s), NEW r \in Seq(S)
    PROVE  /\ AddPage(sn, s, S)[<<i, r>>] = IF s[i].serial = sn THEN Append(r, s[i]) ELSE r
           /\ AddPage(sn, s, S)[<<i, r>>] \in Seq(S)
<1>1. <<i, r>> \in (1..Len(s)) \X Seq(S)
    OBVIOUS
<1>2. AddPage(sn, s, S)[<<i, r>>] = IF s[i].serial = sn THEN Append(r, s[i]) ELSE r
    BY <1>1 DEF AddPage
<1>3. s[i] \in S
    OBVIOUS
<1>4. Append(r, s[i]) \in Seq(S)
    BY <1>3
<1> QED
    BY <1>2, <1>4

(* PagesOf is the last of the lists that grow page by page.                *)
LEMMA PagesRun ==
    ASSUME NEW S, NEW s \in Seq(S), NEW sn
    PROVE  \E f : Runs(Seq(S), <<>>, AddPage(sn, s, S), Len(s), f) /\ PagesOf(sn, s) = f[Len(s)]
<1> DEFINE F(t) == [i \in 0..Len(s) |->
                       IF i = 0 THEN <<>>
                       ELSE IF s[i].serial = sn THEN Append(t[i - 1], s[i]) ELSE t[i - 1]]
           total == CHOOSE t : t = F(t)
           step == AddPage(sn, s, S)
           T == Seq(S)
<1>1. Len(s) \in Nat /\ <<>> \in T
    OBVIOUS
<1>2. step \in [(1..Len(s)) \X T -> T]
    <2>1. \A i \in 1..Len(s), r \in T : step[<<i, r>>] \in T
        BY AddPageIs
    <2>2. step = [x \in (1..Len(s)) \X T |-> step[x]]
        BY DEF AddPage
    <2> HIDE DEF step, T
    <2>3. ASSUME NEW x \in (1..Len(s)) \X T PROVE step[x] \in T
        BY <2>1
    <2> QED
        BY <2>2, <2>3
<1>3. PICK f : Runs(T, <<>>, step, Len(s), f)
    <2> HIDE DEF T, step
    <2> QED
        BY <1>1, <1>2, RunExists
<1>4. f \in [0..Len(s) -> T] /\ f[0] = <<>> /\ \A i \in 1..Len(s) : f[i] = step[<<i, f[i - 1]>>]
    BY <1>3 DEF Runs
<1>5. ASSUME NEW n \in 1..Len(s)
      PROVE  f[n] = IF s[n].serial = sn THEN Append(f[n - 1], s[n]) ELSE f[n - 1]
    <2>1. n - 1 \in 0..Len(s)
        BY <1>1
    <2>2. f[n - 1] \in Seq(S)
        BY <1>4, <2>1
    <2>3. f[n] = AddPage(sn, s, S)[<<n, f[n - 1]>>]
        BY <1>4
    <2> HIDE DEF F, total, T, step
    <2>4. \A r \in Seq(S) : AddPage(sn, s, S)[<<n, r>>] =
                             IF s[n].serial = sn THEN Append(r, s[n]) ELSE r
        BY AddPageIs
    <2> QED
        BY <2>2, <2>3, <2>4
<1>6. f = F(f)
    <2>1. ASSUME NEW n \in 0..Len(s) PROVE f[n] = F(f)[n]
        <3>1. n = 0 \/ n \in 1..Len(s)
            BY <1>1
        <3> QED
            BY <1>4, <1>5, <3>1
    <2> HIDE DEF F
    <2>2. F(f) = [n \in 0..Len(s) |-> F(f)[n]]
        BY DEF F
    <2> QED
        BY <1>4, <2>1, <2>2
<1>7. total = F(total)
    <2> HIDE DEF F
    <2> QED
        BY <1>6
<1>8. PagesOf(sn, s) = total[Len(s)]
    BY DEF PagesOf
<1>9. /\ total[0] = <<>>
      /\ \A n \in 1..Len(s) :
            total[n] = IF s[n].serial = sn THEN Append(total[n - 1], s[n]) ELSE total[n - 1]
    <2> HIDE DEF total
    <2>1. 0 \in 0..Len(s) /\ \A n \in 1..Len(s) : n \in 0..Len(s) /\ n # 0
        BY <1>1
    <2>2. \A n \in 0..Len(s) : F(total)[n] =
             IF n = 0 THEN <<>>
             ELSE IF s[n].serial = sn THEN Append(total[n - 1], s[n]) ELSE total[n - 1]
        OBVIOUS
    <2> HIDE DEF F
    <2>3. \A n \in 0..Len(s) : total[n] = F(total)[n]
        BY <1>7
    <2>4. total[0] = <<>>
        BY <2>1, <2>2, <2>3
    <2>5. ASSUME NEW n \in 1..Len(s)
          PROVE  total[n] = IF s[n].serial = sn THEN Append(total[n - 1], s[n]) ELSE total[n - 1]
        BY <2>1, <2>2, <2>3
    <2> QED
        BY <2>4, <2>5
<1> HIDE DEF total, F, step, T
<1>10. \A n \in 0..Len(s) : total[n] = f[n]
    <2> DEFINE Wrong == {n \in 0..Len(s) : total[n] # f[n]}
    <2> SUFFICES ASSUME Wrong # {} PROVE FALSE
        OBVIOUS
    <2>1. PICK n \in Wrong : \A m \in Wrong : n <= m
        <3>1. Wrong \subseteq Nat
            OBVIOUS
        <3> HIDE DEF Wrong
        <3> QED
            BY <3>1, Smallest
    <2>2. n \in 1..Len(s) /\ total[n] # f[n]
        BY <1>1, <1>4, <1>9
    <2>3. n - 1 \in 0..Len(s) /\ ~(n <= n - 1)
        BY <2>2, <1>1
    <2>4. total[n - 1] = f[n - 1]
        BY <2>1, <2>3
    <2> QED
        BY <1>5, <1>9, <2>2, <2>4
<1>11. PagesOf(sn, s) = f[Len(s)]
    BY <1>1, <1>8, <1>10
<1> QED
    BY <1>3, <1>11 DEF step, T

(* They are some of the pages.                                             *)
LEMMA PagesType ==
    ASSUME NEW S, NEW s \in Seq(S), NEW sn
    PROVE  PagesOf(sn, s) \in Seq(S) /\ Len(PagesOf(sn, s)) \in Nat
<1>1. PICK f : Runs(Seq(S), <<>>, AddPage(sn, s, S), Len(s), f) /\ PagesOf(sn, s) = f[Len(s)]
    BY PagesRun
<1>2. f \in [0..Len(s) -> Seq(S)] /\ Len(s) \in 0..Len(s)
    BY <1>1 DEF Runs
<1>3. PagesOf(sn, s) \in Seq(S)
    BY <1>1, <1>2
<1> QED
    BY <1>3

(* Before the first page there are none.                                   *)
LEMMA PagesNone ==
    ASSUME NEW sn
    PROVE  PagesOf(sn, <<>>) = <<>>
<1>1. <<>> \in Seq({}) /\ Len(<<>>) = 0
    OBVIOUS
<1>2. PICK f : Runs(Seq({}), <<>>, AddPage(sn, <<>>, {}), Len(<<>>), f)
               /\ PagesOf(sn, <<>>) = f[Len(<<>>)]
    BY <1>1, PagesRun
<1>3. f[0] = <<>>
    BY <1>2 DEF Runs
<1> QED
    BY <1>1, <1>2, <1>3

(* A page more is one more of its own stream.                              *)
LEMMA PagesOneMore ==
    ASSUME NEW S, NEW s \in Seq(S), NEW p \in S, NEW sn
    PROVE  PagesOf(sn, Append(s, p)) =
              IF p.serial = sn THEN Append(PagesOf(sn, s), p) ELSE PagesOf(sn, s)
<1> DEFINE r == Append(s, p)
           n == Len(s)
           T == Seq(S)
<1>1. n \in Nat /\ r \in Seq(S) /\ Len(r) = n + 1 /\ r[n + 1] = p
    OBVIOUS
<1>2. \A i \in 1..n : r[i] = s[i]
    OBVIOUS
<1>3. PICK f : Runs(T, <<>>, AddPage(sn, s, S), n, f) /\ PagesOf(sn, s) = f[n]
    BY PagesRun
<1> HIDE DEF r
<1>4. PICK g : Runs(T, <<>>, AddPage(sn, r, S), Len(r), g) /\ PagesOf(sn, r) = g[Len(r)]
    BY <1>1, PagesRun
<1>5. Agree(T, n, AddPage(sn, s, S), AddPage(sn, r, S))
    <2> SUFFICES ASSUME NEW i \in 1..n, NEW x \in T
                 PROVE AddPage(sn, s, S)[<<i, x>>] = AddPage(sn, r, S)[<<i, x>>]
        BY DEF Agree
    <2>1. i \in 1..Len(s) /\ i \in 1..Len(r) /\ r[i] = s[i] /\ x \in Seq(S)
        BY <1>1, <1>2
    <2>2. AddPage(sn, s, S)[<<i, x>>] = IF s[i].serial = sn THEN Append(x, s[i]) ELSE x
        BY <2>1, AddPageIs
    <2>3. AddPage(sn, r, S)[<<i, x>>] = IF r[i].serial = sn THEN Append(x, r[i]) ELSE x
        BY <1>1, <2>1, AddPageIs
    <2> QED
        BY <2>1, <2>2, <2>3
<1>6. f[n] = g[n]
    <2>1. \A i \in 0..n : f[i] = g[i]
        <3>1. n \in Nat /\ n <= n + 1 /\ n + 1 \in Nat
            BY <1>1
        <3> DEFINE none == <<>>
        <3>2. /\ Runs(T, none, AddPage(sn, r, S), n + 1, g)
              /\ Runs(T, none, AddPage(sn, s, S), n, f)
            BY <1>1, <1>3, <1>4
        <3> HIDE DEF T, none, n
        <3> QED
            BY <1>5, <3>1, <3>2, RunUnique
    <2> QED
        BY <1>1, <2>1
<1>7. g[n] \in Seq(S)
    <2>1. g \in [0..Len(r) -> T] /\ n \in 0..Len(r)
        BY <1>1, <1>4 DEF Runs
    <2> QED
        BY <2>1
<1>8. g[n + 1] = AddPage(sn, r, S)[<<n + 1, g[n]>>]
    <2>1. n + 1 \in 1..Len(r) /\ (n + 1) - 1 = n
        BY <1>1
    <2>2. \A i \in 1..Len(r) : g[i] = AddPage(sn, r, S)[<<i, g[i - 1]>>]
        BY <1>4 DEF Runs
    <2> HIDE DEF n
    <2> QED
        BY <2>1, <2>2
<1>9. g[n + 1] = IF p.serial = sn THEN Append(g[n], p) ELSE g[n]
    <2>1. n + 1 \in 1..Len(r)
        BY <1>1
    <2> HIDE DEF n
    <2> QED
        BY <1>1, <1>7, <1>8, <2>1, AddPageIs
<1>10. PagesOf(sn, r) = g[n + 1]
    BY <1>1, <1>4
<1>11. PagesOf(sn, r) = IF p.serial = sn THEN Append(PagesOf(sn, s), p) ELSE PagesOf(sn, s)
    BY <1>3, <1>6, <1>9, <1>10
<1> QED
    BY <1>11 DEF r

(* Every page is one of the pages of its stream.                           *)
LEMMA PagesAll ==
    ASSUME NEW S, NEW s \in Seq(S), NEW j \in 1..Len(s)
    PROVE  \E k \in 1..Len(PagesOf(s[j].serial, s)) : PagesOf(s[j].serial, s)[k] = s[j]
<1> DEFINE sn == s[j].serial
           In(r) == \E k \in 1..Len(r) : r[k] = s[j]
<1>1. PICK f : Runs(Seq(S), <<>>, AddPage(sn, s, S), Len(s), f) /\ PagesOf(sn, s) = f[Len(s)]
    BY PagesRun
<1>2. /\ f \in [0..Len(s) -> Seq(S)] /\ Len(s) \in Nat
      /\ \A i \in 1..Len(s) : f[i] = AddPage(sn, s, S)[<<i, f[i - 1]>>]
    BY <1>1 DEF Runs
<1>3. ASSUME NEW i \in 1..Len(s)
      PROVE  /\ f[i] = IF s[i].serial = sn THEN Append(f[i - 1], s[i]) ELSE f[i - 1]
             /\ f[i - 1] \in Seq(S) /\ s[i] \in S
    <2>1. i - 1 \in 0..Len(s)
        BY <1>2
    <2>2. f[i - 1] \in Seq(S)
        BY <1>2, <2>1
    <2> HIDE DEF sn
    <2>3. f[i] = AddPage(sn, s, S)[<<i, f[i - 1]>>]
        BY <1>2
    <2>4. \A r \in Seq(S) : AddPage(sn, s, S)[<<i, r>>] =
                             IF s[i].serial = sn THEN Append(r, s[i]) ELSE r
        BY AddPageIs
    <2> QED
        BY <2>2, <2>3, <2>4
<1>4. \A r \in Seq(S), p \in S : In(r) => In(Append(r, p))
    <2> SUFFICES ASSUME NEW r \in Seq(S), NEW p \in S, NEW k \in 1..Len(r), r[k] = s[j]
                 PROVE In(Append(r, p))
        OBVIOUS
    <2>1. k \in 1..Len(Append(r, p)) /\ Append(r, p)[k] = s[j]
        OBVIOUS
    <2> QED
        BY <2>1
<1>5. In(f[j])
    <2>1. f[j] = Append(f[j - 1], s[j]) /\ f[j - 1] \in Seq(S)
        BY <1>3
    <2>2. \A r \in Seq(S) : In(Append(r, s[j]))
        <3> SUFFICES ASSUME NEW r \in Seq(S) PROVE In(Append(r, s[j]))
            OBVIOUS
        <3>1. Len(r) + 1 \in 1..Len(Append(r, s[j])) /\ Append(r, s[j])[Len(r) + 1] = s[j]
            OBVIOUS
        <3> QED
            BY <3>1
    <2> QED
        BY <2>1, <2>2
<1> HIDE DEF In, sn
<1>6. \A n \in j..Len(s) : In(f[n])
    <2> DEFINE Wrong == {n \in j..Len(s) : ~In(f[n])}
    <2> SUFFICES ASSUME Wrong # {} PROVE FALSE
        OBVIOUS
    <2>1. PICK n \in Wrong : \A m \in Wrong : n <= m
        <3>1. Wrong \subseteq Nat
            BY <1>2
        <3> HIDE DEF Wrong
        <3> QED
            BY <3>1, Smallest
    <2>2. n \in 1..Len(s) /\ n \in j..Len(s) /\ ~In(f[n]) /\ n # j
        BY <1>2, <1>5
    <2>3. n - 1 \in j..Len(s) /\ ~(n <= n - 1)
        BY <2>2, <1>2
    <2>4. In(f[n - 1])
        BY <2>1, <2>3
    <2>5. In(Append(f[n - 1], s[n]))
        BY <1>3, <1>4, <2>2, <2>4
    <2> QED
        BY <1>3, <2>2, <2>4, <2>5
<1>7. In(PagesOf(sn, s))
    <2>1. Len(s) \in j..Len(s)
        BY <1>2
    <2> QED
        BY <1>1, <1>6, <2>1
<1> QED
    BY <1>7 DEF In, sn
-----------------------------------------------------------------------------
(* The streams of a file.                                                  *)

Fields == {"serial", "isnew", "start", "end", "illegal", "shown", "seqno", "lostseq", "type",
           "expected", "inf", "samples", "ends", "bad"}

(* The pages of rd are the first ones of the stream.                       *)
Begins(sn, rd, ps) ==
    \A k \in 1..Len(PagesOf(sn, rd)) : PagesOf(sn, rd)[k] = PagesOf(sn, ps)[k]

(* Nothing was warned of so far in this stream: rd begins with the first   *)
(* pages that ps has of it, the next number is that of the page after      *)
(* them, and if it has ended then with its last page.                      *)
OnCourse(s, rd, ps) ==
    LET of == PagesOf(s.serial, rd)
        whole == PagesOf(s.serial, ps)
    IN  /\ DOMAIN s = Fields
        /\ Len(of) \in 1..Len(whole)
        /\ Begins(s.serial, rd, ps)
        /\ s.seqno = Len(of)
        /\ s.end => Len(of) = Len(whole)
        /\ ~s.shown /\ ~s.lostseq /\ (s.illegal => s.end)

Known(sn, ss) == \E i \in 1..Len(ss) : ss[i].serial = sn

(* Every stream of which a page was read is known.                         *)
AllKnown(ss, rd) == \A sn : PagesOf(sn, rd) # <<>> => Known(sn, ss)

Course(ss, rd, ps) ==
    /\ \E S : ss \in Seq(S)
    /\ \A i \in 1..Len(ss) : OnCourse(ss[i], rd, ps)
    /\ \A i, j \in 1..Len(ss) : ss[i].serial = ss[j].serial => i = j
    /\ AllKnown(ss, rd)

(* Where a page stands in its stream.                                      *)
LEMMA PageStands ==
    ASSUME NEW ps, Written(ps), NEW p \in ToSet(ps)
    PROVE  LET whole == PagesOf(p.serial, ps) IN
           \E k \in 1..Len(whole) : /\ p = whole[k] /\ p.no = k - 1
                                    /\ p.bos => k = 1
                                    /\ p.eos => k = Len(whole)
<1>1. ps \in Seq(ToSet(ps))
    BY DEF Written
<1>2. PICK j \in 1..Len(ps) : p = ps[j]
    BY <1>1 DEF ToSet
<1>3. PICK k \in 1..Len(PagesOf(p.serial, ps)) : PagesOf(p.serial, ps)[k] = p
    <2>1. \E k \in 1..Len(PagesOf(ps[j].serial, ps)) : PagesOf(ps[j].serial, ps)[k] = ps[j]
        BY <1>1, PagesAll
    <2> QED
        BY <1>2, <2>1
<1> QED
    BY <1>3 DEF Written

(* A warning changes nothing else in a stream.                             *)
LEMMA WarnIs ==
    ASSUME NEW s, DOMAIN s = Fields, NEW condition
    PROVE  /\ DOMAIN Warn(s, condition) = Fields
           /\ Warn(s, condition).bad <=> s.bad \/ condition
           /\ \A x \in Fields : x # "bad" => Warn(s, condition)[x] = s[x]
BY DEF Warn, Fields

(* The numbers of the pages.                                               *)
LEMMA NumberTaken ==
    ASSUME NEW s, DOMAIN s = Fields, NEW page
    PROVE  LET t == TakeNumber(s, page) IN
           /\ DOMAIN t = Fields
           /\ t.bad <=> s.bad \/ (s.seqno # page.no /\ ~s.lostseq)
           /\ t.lostseq = (s.seqno # page.no)
           /\ s.seqno = page.no => t.seqno = s.seqno + 1
           /\ \A x \in Fields \ {"bad", "lostseq", "seqno"} : t[x] = s[x]
<1> DEFINE gap == s.seqno # page.no
           w == Warn(s, gap /\ ~s.lostseq)
           t == [w EXCEPT !.lostseq = gap, !.seqno = IF gap THEN page.no ELSE @ + 1]
<1>1. TakeNumber(s, page) = t
    BY DEF TakeNumber, Follows
<1>2. /\ DOMAIN w = Fields /\ (w.bad <=> s.bad \/ (gap /\ ~s.lostseq))
      /\ \A x \in Fields : x # "bad" => w[x] = s[x]
    BY WarnIs
<1> HIDE DEF w
<1>3. /\ DOMAIN t = Fields /\ t.bad = w.bad /\ t.lostseq = gap
      /\ t.seqno = IF gap THEN page.no ELSE w.seqno + 1
      /\ \A x \in Fields \ {"lostseq", "seqno"} : t[x] = w[x]
    BY <1>2 DEF Fields
<1> HIDE DEF t
<1>4. w.seqno = s.seqno
    BY <1>2 DEF Fields
<1> QED
    BY <1>1, <1>2, <1>3, <1>4

(* What a page has in it changes only what is known of the sound.          *)
LEMMA PageProcessed ==
    ASSUME NEW s, DOMAIN s = Fields, NEW page
    PROVE  LET t == ProcessPage(s, page) IN
           /\ DOMAIN t = Fields
           /\ s.bad => t.bad
           /\ \A x \in Fields \ {"bad", "expected", "inf", "samples"} : t[x] = s[x]
<1> DEFINE lost == s.expected # page.no
           packets == IF lost THEN OwnPackets(page) ELSE page.packets
           in == [s EXCEPT !.expected = page.no + 1]
           out == ProcessOpus(in, page, packets, lost /\ s.expected # -1)
           w == Warn(in, out.bad)
           t == [w EXCEPT !.inf = out.inf, !.samples = out.samples]
<1>1. ProcessPage(s, page) = IF s.type = "opus" THEN t ELSE in
    BY DEF ProcessPage
<1> HIDE DEF out
<1>2. DOMAIN in = Fields /\ in.bad = s.bad /\ \A x \in Fields \ {"expected"} : in[x] = s[x]
    BY DEF Fields
<1> HIDE DEF in
<1>3. /\ DOMAIN w = Fields /\ (w.bad <=> in.bad \/ out.bad)
      /\ \A x \in Fields : x # "bad" => w[x] = in[x]
    BY <1>2, WarnIs
<1> HIDE DEF w
<1>4. DOMAIN t = Fields /\ t.bad = w.bad /\ \A x \in Fields \ {"inf", "samples"} : t[x] = w[x]
    BY <1>3 DEF Fields
<1> HIDE DEF t
<1> QED
    BY <1>1, <1>2, <1>3, <1>4

(* The end of a stream only warns and reports.                             *)
LEMMA EndOnlyReports ==
    ASSUME NEW s, DOMAIN s = Fields
    PROVE  /\ DOMAIN End(s) = Fields
           /\ s.bad => End(s).bad
           /\ \A x \in Fields \ {"bad", "ends"} : End(s)[x] = s[x]
<1>1. ASSUME NEW c, NEW e
      PROVE  LET t == [Warn(s, c) EXCEPT !.ends = e] IN
             /\ DOMAIN t = Fields /\ (s.bad => t.bad)
             /\ \A x \in Fields \ {"bad", "ends"} : t[x] = s[x]
    <2> DEFINE w == Warn(s, c)
               t == [w EXCEPT !.ends = e]
    <2>1. /\ DOMAIN w = Fields /\ (w.bad <=> s.bad \/ c)
          /\ \A x \in Fields : x # "bad" => w[x] = s[x]
        BY WarnIs
    <2> HIDE DEF w
    <2>2. DOMAIN t = Fields /\ t.bad = w.bad /\ \A x \in Fields \ {"ends"} : t[x] = w[x]
        BY <2>1 DEF Fields
    <2> HIDE DEF t
    <2>3. /\ DOMAIN t = Fields /\ (s.bad => t.bad)
          /\ \A x \in Fields \ {"bad", "ends"} : t[x] = s[x]
        BY <2>1, <2>2
    <2> QED
        BY <2>3 DEF t, w
<1>2. \E c, e : EndOpus(s) = [Warn(s, c) EXCEPT !.ends = e]
    <2> DEFINE inf == s.inf
               c == \/ inf.last - inf.first < inf.preskip
                    \/ inf.total - inf.lastPage > inf.last - inf.first
                    \/ inf.eos /\ inf.lastPage - inf.lastPacket > inf.last - inf.lastLast
                    \/ inf.longest >= 240000
               one == <<<<s.serial, -1>>>>
               other == <<<<s.serial, Max({LengthOf(inf), 0})>>>>
    <2>1. EndOpus(s) = IF inf.packets = 0 THEN [Warn(s, TRUE) EXCEPT !.ends = one]
                       ELSE [Warn(s, c) EXCEPT !.ends = other]
        BY DEF EndOpus
    <2> HIDE DEF inf, c, one, other
    <2> QED
        BY <2>1
<1>3. CASE s.type = "opus"
    <2>1. PICK c, e : EndOpus(s) = [Warn(s, c) EXCEPT !.ends = e]
        BY <1>2
    <2>2. End(s) = [Warn(s, c) EXCEPT !.ends = e]
        BY <1>3, <2>1 DEF End
    <2> QED
        BY <1>1, <2>2
<1>4. CASE s.type # "opus"
    BY <1>4 DEF End
<1> QED
    BY <1>3, <1>4

(* A page of which nothing is warned: its stream goes on, began with it if *)
(* it is new, and expected it.                                             *)
LEMMA PageTaken ==
    ASSUME NEW s, DOMAIN s = Fields, NEW page, ~s.shown, ~s.lostseq,
           ~TakePage(s, page).bad
    PROVE  LET t == TakePage(s, page) IN
           /\ ~s.illegal /\ s.isnew = s.start /\ s.seqno = page.no
           /\ DOMAIN t = Fields /\ t.serial = s.serial /\ t.end = s.end
           /\ t.seqno = s.seqno + 1
           /\ ~t.shown /\ ~t.lostseq /\ (t.illegal => t.end)
<1> DEFINE warned == Warn(s, s.illegal /\ ~s.shown)
           told == [warned EXCEPT !.shown = @ \/ s.illegal]
           begun == Warn(told, s.isnew # s.start)
           counted == TakeNumber(begun, page)
           processed == ProcessPage(counted, page)
           ended == [End(processed) EXCEPT !.illegal = TRUE]
           t == TakePage(s, page)
<1>1. t = IF s.illegal /\ ~s.shown /\ ~s.isnew THEN told
          ELSE IF s.illegal THEN counted
          ELSE IF s.end THEN ended ELSE processed
    BY DEF TakePage
<1>2. /\ DOMAIN warned = Fields /\ (warned.bad <=> s.bad \/ s.illegal)
      /\ \A x \in Fields : x # "bad" => warned[x] = s[x]
    <2> DEFINE c == s.illegal /\ ~s.shown
    <2>1. c <=> s.illegal
        OBVIOUS
    <2> HIDE DEF c
    <2>2. /\ DOMAIN Warn(s, c) = Fields /\ (Warn(s, c).bad <=> s.bad \/ c)
          /\ \A x \in Fields : x # "bad" => Warn(s, c)[x] = s[x]
        BY WarnIs
    <2>3. warned = Warn(s, c)
        BY DEF c
    <2> HIDE DEF warned
    <2> QED
        BY <2>1, <2>2, <2>3
<1> HIDE DEF t, warned
<1>3. /\ DOMAIN told = Fields /\ told.bad = warned.bad /\ (told.shown <=> warned.shown \/ s.illegal)
      /\ \A x \in Fields : x # "shown" => told[x] = warned[x]
    BY <1>2 DEF Fields
<1> HIDE DEF told
<1>4. /\ DOMAIN begun = Fields /\ (begun.bad <=> told.bad \/ s.isnew # s.start)
      /\ \A x \in Fields : x # "bad" => begun[x] = told[x]
    BY <1>3, WarnIs
<1> HIDE DEF begun
<1>5. /\ DOMAIN counted = Fields
      /\ counted.bad <=> begun.bad \/ (begun.seqno # page.no /\ ~begun.lostseq)
      /\ counted.lostseq = (begun.seqno # page.no)
      /\ begun.seqno = page.no => counted.seqno = begun.seqno + 1
      /\ \A x \in Fields \ {"bad", "lostseq", "seqno"} : counted[x] = begun[x]
    BY <1>4, NumberTaken
<1> HIDE DEF counted
<1>6. /\ DOMAIN processed = Fields /\ (counted.bad => processed.bad)
      /\ \A x \in Fields \ {"bad", "expected", "inf", "samples"} : processed[x] = counted[x]
    BY <1>5, PageProcessed
<1> HIDE DEF processed
<1>7. /\ DOMAIN End(processed) = Fields /\ (processed.bad => End(processed).bad)
      /\ \A x \in Fields \ {"bad", "ends"} : End(processed)[x] = processed[x]
    BY <1>6, EndOnlyReports
<1>8. /\ DOMAIN ended = Fields /\ ended.bad = End(processed).bad
      /\ \A x \in Fields \ {"illegal"} : ended[x] = End(processed)[x]
    BY <1>7 DEF Fields
<1> HIDE DEF ended
<1>9. /\ begun.seqno = s.seqno /\ begun.lostseq = s.lostseq
      /\ begun.serial = s.serial /\ begun.end = s.end /\ begun.illegal = s.illegal
    BY <1>2, <1>3, <1>4 DEF Fields
<1>10. (s.bad \/ s.illegal => begun.bad) /\ (s.isnew # s.start => begun.bad)
    BY <1>2, <1>3, <1>4
<1>11. (begun.bad => counted.bad) /\ (begun.seqno # page.no => counted.bad)
    BY <1>5, <1>9
<1>12. counted.bad => ended.bad /\ processed.bad
    BY <1>6, <1>7, <1>8
<1>13. ~s.illegal
    <2>1. s.illegal => told.bad /\ counted.bad
        BY <1>2, <1>3, <1>10, <1>11
    <2>2. s.illegal => t = told \/ t = counted
        BY <1>1
    <2>3. ~t.bad
        BY DEF t
    <2> QED
        BY <2>1, <2>2, <2>3
<1>14. t = (IF s.end THEN ended ELSE processed) /\ ~counted.bad
    <2>1. t = IF s.end THEN ended ELSE processed
        BY <1>1, <1>13
    <2>2. ~t.bad
        BY DEF t
    <2> QED
        BY <1>12, <2>1, <2>2
<1>15. s.isnew = s.start /\ s.seqno = page.no
    BY <1>9, <1>10, <1>11, <1>14
<1>16. begun.shown <=> FALSE
    BY <1>2, <1>3, <1>4, <1>13 DEF Fields
<1>17. /\ counted.serial = s.serial /\ counted.end = s.end /\ counted.illegal = s.illegal
       /\ counted.seqno = s.seqno + 1 /\ counted.lostseq = FALSE /\ counted.shown = begun.shown
    BY <1>5, <1>9, <1>15 DEF Fields
<1>18. /\ processed.serial = s.serial /\ processed.end = s.end /\ processed.illegal = s.illegal
       /\ processed.seqno = s.seqno + 1 /\ processed.lostseq = FALSE
       /\ processed.shown = begun.shown
    BY <1>6, <1>17 DEF Fields
<1>19. /\ ended.serial = s.serial /\ ended.end = s.end
       /\ ended.seqno = s.seqno + 1 /\ ended.lostseq = FALSE /\ ended.shown = begun.shown
    BY <1>7, <1>8, <1>18 DEF Fields
<1>20. /\ DOMAIN t = Fields /\ t.serial = s.serial /\ t.end = s.end /\ t.seqno = s.seqno + 1
       /\ ~t.shown /\ ~t.lostseq /\ (t.illegal => t.end)
    BY <1>6, <1>8, <1>13, <1>14, <1>16, <1>18, <1>19
<1> QED
    BY <1>13, <1>15, <1>20 DEF t

(* A stream that gets the page it expects stays on its course.             *)
LEMMA OwnPage ==
    ASSUME NEW ps, Written(ps), NEW page \in ToSet(ps), NEW rd \in Seq(ToSet(ps)),
           page.no = Len(PagesOf(page.serial, rd)),
           Begins(page.serial, rd, ps),
           NEW t, DOMAIN t = Fields, t.serial = page.serial, t.seqno = page.no + 1,
           t.end => page.eos, ~t.shown, ~t.lostseq, t.illegal => t.end
    PROVE  OnCourse(t, Append(rd, page), ps)
<1> DEFINE of == PagesOf(page.serial, rd)
           whole == PagesOf(page.serial, ps)
           more == PagesOf(page.serial, Append(rd, page))
<1>1. of \in Seq(ToSet(ps)) /\ Len(of) \in Nat
    BY PagesType
<1>2. whole \in Seq(ToSet(ps)) /\ Len(whole) \in Nat
    <2>1. ps \in Seq(ToSet(ps))
        BY DEF Written
    <2> QED
        BY <2>1, PagesType
<1>3. PICK k \in 1..Len(whole) : page = whole[k] /\ page.no = k - 1 /\ (page.eos => k = Len(whole))
    BY PageStands
<1>4. more = Append(of, page)
    BY PagesOneMore
<1> HIDE DEF of, whole, more
<1>5. page.no = Len(of) /\ \A i \in 1..Len(of) : of[i] = whole[i]
    BY DEF of, whole, Begins
<1>6. k = Len(of) + 1
    BY <1>1, <1>2, <1>3, <1>5
<1>7. Len(more) = k /\ more[k] = page /\ \A i \in 1..Len(of) : more[i] = of[i]
    BY <1>1, <1>4, <1>6
<1>8. Len(more) \in 1..Len(whole)
    BY <1>3, <1>7
<1>9. ASSUME NEW i \in 1..Len(more) PROVE more[i] = whole[i]
    <2>1. i = k \/ i \in 1..Len(of)
        BY <1>1, <1>6, <1>7
    <2> QED
        BY <1>3, <1>5, <1>7, <2>1
<1>10. t.seqno = Len(more)
    BY <1>1, <1>5, <1>6, <1>7
<1>11. t.end => Len(more) = Len(whole)
    BY <1>3, <1>7
<1> QED
    BY <1>8, <1>9, <1>10, <1>11 DEF OnCourse, Begins, more, whole

(* And a page of another stream does not concern it.                       *)
LEMMA OthersPage ==
    ASSUME NEW ps, NEW page \in ToSet(ps), NEW rd \in Seq(ToSet(ps)),
           NEW s, OnCourse(s, rd, ps), s.serial # page.serial
    PROVE  OnCourse(s, Append(rd, page), ps)
<1>1. PagesOf(s.serial, Append(rd, page)) = PagesOf(s.serial, rd)
    BY PagesOneMore
<1> QED
    BY <1>1 DEF OnCourse, Begins

(* Every stream of which a page was read is still known.                   *)
LEMMA StillKnown ==
    ASSUME NEW S, NEW rd \in Seq(S), NEW page \in S, NEW ss, NEW tt,
           AllKnown(ss, rd), \A sn : Known(sn, ss) => Known(sn, tt), Known(page.serial, tt)
    PROVE  AllKnown(tt, Append(rd, page))
<1> SUFFICES ASSUME NEW sn, PagesOf(sn, Append(rd, page)) # <<>> PROVE Known(sn, tt)
    BY DEF AllKnown
<1>1. CASE page.serial = sn
    BY <1>1
<1>2. CASE page.serial # sn
    <2>1. PagesOf(sn, Append(rd, page)) = PagesOf(sn, rd)
        BY <1>2, PagesOneMore
    <2> QED
        BY <2>1 DEF AllKnown
<1> QED
    BY <1>1, <1>2

(* A new stream: its page begins it, so that none of its pages was missed. *)
LEMMA NewOnCourse ==
    ASSUME NEW ps, Written(ps), NEW page \in ToSet(ps), NEW rd \in Seq(ToSet(ps)),
           NEW ss, Course(ss, rd, ps), \A i \in 1..Len(ss) : ss[i].serial # page.serial,
           NEW t, t = TakePage(NewStream(page), page), ~t.bad
    PROVE  Course(Append(ss, t), Append(rd, page), ps)
<1> DEFINE s == NewStream(page)
           tt == Append(ss, t)
           n == Len(ss)
<1>1. /\ DOMAIN s = Fields /\ s.shown = FALSE /\ s.lostseq = FALSE /\ s.isnew = TRUE
      /\ s.start = page.bos /\ s.end = page.eos /\ s.serial = page.serial /\ s.seqno = page.no
    BY DEF NewStream, Fields
<1> HIDE DEF s
<1>2. /\ s.isnew = s.start /\ DOMAIN t = Fields /\ t.serial = s.serial /\ t.end = s.end
      /\ t.seqno = s.seqno + 1 /\ ~t.shown /\ ~t.lostseq /\ (t.illegal => t.end)
    <2>1. t = TakePage(s, page) /\ ~TakePage(s, page).bad
        BY DEF s
    <2> QED
        BY <1>1, <2>1, PageTaken
<1>3. PICK S : ss \in Seq(S)
    BY DEF Course
<1>4. n \in Nat /\ tt \in Seq(S \cup {t}) /\ Len(tt) = n + 1 /\ tt[n + 1] = t
      /\ \A i \in 1..n : tt[i] = ss[i]
    <2>1. ss \in Seq(S \cup {t}) /\ t \in S \cup {t}
        BY <1>3
    <2> QED
        BY <2>1
<1>5. PagesOf(page.serial, rd) = <<>>
    BY DEF Course, AllKnown, Known
<1>6. PICK k \in 1..Len(PagesOf(page.serial, ps)) : page.no = k - 1 /\ (page.bos => k = 1)
    BY PageStands
<1>7. page.no = 0 /\ page.bos
    BY <1>1, <1>2, <1>6
<1>8. OnCourse(t, Append(rd, page), ps)
    <2>1. page.no = Len(PagesOf(page.serial, rd)) /\ Begins(page.serial, rd, ps)
        BY <1>5, <1>7 DEF Begins
    <2>2. t.serial = page.serial /\ t.seqno = page.no + 1 /\ (t.end => page.eos)
        BY <1>1, <1>2
    <2> QED
        BY <1>2, <2>1, <2>2, OwnPage
<1> HIDE DEF tt, n
<1>9. ASSUME NEW i \in 1..Len(tt) PROVE OnCourse(tt[i], Append(rd, page), ps)
    <2>1. i = n + 1 \/ i \in 1..n
        BY <1>4
    <2>2. CASE i = n + 1
        BY <1>4, <1>8, <2>2
    <2>3. CASE i \in 1..n
        <3>1. OnCourse(ss[i], rd, ps) /\ ss[i].serial # page.serial
            BY <2>3 DEF Course, n
        <3> QED
            BY <1>4, <2>3, <3>1, OthersPage
    <2> QED
        BY <2>1, <2>2, <2>3
<1>10. ASSUME NEW i \in 1..Len(tt), NEW j \in 1..Len(tt), tt[i].serial = tt[j].serial
       PROVE  i = j
    <2>1. (i = n + 1 \/ i \in 1..n) /\ (j = n + 1 \/ j \in 1..n)
        BY <1>4
    <2>2. \A m \in 1..n : tt[m].serial # page.serial
        BY <1>4 DEF n
    <2>3. tt[n + 1].serial = page.serial
        BY <1>1, <1>2, <1>4
    <2>4. CASE i \in 1..n /\ j \in 1..n
        <3>1. ss[i].serial = ss[j].serial
            BY <1>4, <1>10, <2>4
        <3> QED
            BY <2>4, <3>1 DEF Course, n
    <2> QED
        BY <1>10, <2>1, <2>2, <2>3, <2>4
<1>11. AllKnown(tt, Append(rd, page))
    <2>1. \A sn : Known(sn, ss) => Known(sn, tt)
        <3>1. \A i \in 1..n : i \in 1..Len(tt)
            BY <1>4
        <3> QED
            BY <1>4, <3>1 DEF Known, n
    <2>2. Known(page.serial, tt)
        <3>1. n + 1 \in 1..Len(tt)
            BY <1>4
        <3> QED
            BY <1>1, <1>2, <1>4, <3>1 DEF Known
    <2>3. AllKnown(ss, rd)
        BY DEF Course
    <2> QED
        BY <2>1, <2>2, <2>3, StillKnown
<1>12. Course(tt, Append(rd, page), ps)
    BY <1>4, <1>9, <1>10, <1>11 DEF Course
<1> QED
    BY <1>12 DEF tt

(* A stream that is known: it has not ended, and the page is the next one. *)
LEMMA KnownOnCourse ==
    ASSUME NEW ps, Written(ps), NEW page \in ToSet(ps), NEW rd \in Seq(ToSet(ps)),
           NEW ss, Course(ss, rd, ps), NEW at \in 1..Len(ss), ss[at].serial = page.serial,
           NEW t, t = TakePage(KnownStream([ss[at] EXCEPT !.ends = <<>>], page), page), ~t.bad
    PROVE  Course([ss EXCEPT ![at] = t], Append(rd, page), ps)
<1> DEFINE old == ss[at]
           o == [old EXCEPT !.ends = <<>>]
           s == KnownStream(o, page)
           tt == [ss EXCEPT ![at] = t]
<1>1. /\ DOMAIN old = Fields /\ ~old.shown /\ ~old.lostseq
      /\ old.seqno = Len(PagesOf(page.serial, rd))
      /\ Begins(page.serial, rd, ps)
    <2>1. OnCourse(old, rd, ps) /\ old.serial = page.serial
        BY DEF Course
    <2> HIDE DEF old
    <2> QED
        BY <2>1 DEF OnCourse
<1> HIDE DEF old
<1>2. DOMAIN o = Fields /\ \A x \in Fields \ {"ends"} : o[x] = old[x]
    BY <1>1 DEF Fields
<1> HIDE DEF o
<1>3. /\ DOMAIN s = Fields /\ \A x \in Fields \ {"isnew", "start", "end", "illegal"} : s[x] = o[x]
      /\ o.end => s.illegal = TRUE
      /\ ~o.end => s.end = page.eos
    BY <1>2 DEF KnownStream, Fields
<1>4. /\ s.shown = old.shown /\ s.lostseq = old.lostseq /\ s.seqno = old.seqno
      /\ s.serial = old.serial
    <2> HIDE DEF s
    <2> QED
        BY <1>2, <1>3 DEF Fields
<1>5. t = TakePage(s, page)
    BY DEF s, o, old
<1> HIDE DEF s
<1>6. /\ ~s.illegal /\ s.seqno = page.no /\ DOMAIN t = Fields /\ t.serial = s.serial
      /\ t.end = s.end /\ t.seqno = s.seqno + 1 /\ ~t.shown /\ ~t.lostseq /\ (t.illegal => t.end)
    <2>1. DOMAIN s = Fields /\ ~s.shown /\ ~s.lostseq /\ ~TakePage(s, page).bad
        BY <1>1, <1>3, <1>4, <1>5
    <2> QED
        BY <1>5, <2>1, PageTaken
<1>7. s.end = page.eos
    BY <1>3, <1>6
<1>8. t.serial = page.serial
    BY <1>4, <1>6 DEF old
<1>9. OnCourse(t, Append(rd, page), ps)
    <2>1. page.no = Len(PagesOf(page.serial, rd)) /\ t.seqno = page.no + 1 /\ (t.end => page.eos)
        BY <1>1, <1>4, <1>6, <1>7
    <2>2. DOMAIN t = Fields /\ ~t.shown /\ ~t.lostseq /\ (t.illegal => t.end)
        BY <1>6
    <2> QED
        BY <1>1, <1>8, <2>1, <2>2, OwnPage
<1>10. PICK S : ss \in Seq(S)
    BY DEF Course
<1>11. /\ tt \in Seq(S \cup {t}) /\ Len(tt) = Len(ss) /\ tt[at] = t
       /\ \A i \in 1..Len(ss) : i # at => tt[i] = ss[i]
    <2> DEFINE T == S \cup {t}
    <2>1. ss \in Seq(T) /\ t \in T
        BY <1>10
    <2> HIDE DEF T
    <2>2. /\ tt \in Seq(T) /\ Len(tt) = Len(ss)
          /\ \A i \in 1..Len(ss) : tt[i] = IF i = at THEN t ELSE ss[i]
        BY <2>1, ExceptSeq
    <2> QED
        BY <2>2 DEF T
<1> HIDE DEF tt
<1>12. \A i \in 1..Len(ss) : tt[i].serial = ss[i].serial
    BY <1>8, <1>11
<1>13. ASSUME NEW i \in 1..Len(tt) PROVE OnCourse(tt[i], Append(rd, page), ps)
    <2>1. CASE i = at
        BY <1>9, <1>11, <2>1
    <2>2. CASE i # at
        <3>1. i \in 1..Len(ss) /\ tt[i] = ss[i]
            BY <1>11, <2>2
        <3>2. OnCourse(ss[i], rd, ps) /\ ss[i].serial # page.serial
            BY <2>2, <3>1 DEF Course
        <3> QED
            BY <3>1, <3>2, OthersPage
    <2> QED
        BY <2>1, <2>2
<1>14. \A i, j \in 1..Len(tt) : tt[i].serial = tt[j].serial => i = j
    BY <1>11, <1>12 DEF Course
<1>15. AllKnown(tt, Append(rd, page))
    <2>1. \A sn : Known(sn, ss) => Known(sn, tt)
        BY <1>11, <1>12 DEF Known
    <2>2. Known(page.serial, tt)
        BY <1>8, <1>11 DEF Known
    <2>3. AllKnown(ss, rd)
        BY DEF Course
    <2> QED
        BY <2>1, <2>2, <2>3, StillKnown
<1>16. Course(tt, Append(rd, page), ps)
    BY <1>11, <1>13, <1>14, <1>15 DEF Course
<1> QED
    BY <1>16 DEF tt
-----------------------------------------------------------------------------
(* The checker.                                                            *)

(* What is to be read are pages of the file, in whatever order, and holes. *)
Inspecting ==
    LET ps == Head(files).pages IN
    /\ Head(files) # MISSING
    /\ left \in Seq(ToSet(ps) \cup {HOLE}) /\ read \in Seq(ToSet(ps))
    /\ ~flawed => Course(streams, read, ps)

InfoInv ==
    /\ \E argument \in Arguments : files \in Seq(ToSet(argument))
    /\ stage \in {"next", "read", "closed"} /\ flawed \in BOOLEAN /\ ret \in BOOLEAN
    /\ stage # "next" => files # <<>>
    /\ stage = "read" => Inspecting
    /\ DamageIsSeen

(* A file that there is was written by libogg.                             *)
LEMMA FileWritten ==
    ASSUME NEW argument \in Arguments, NEW fs \in Seq(ToSet(argument)), fs # <<>>,
           Head(fs) # MISSING
    PROVE  Written(Head(fs).pages)
<1>1. Head(fs) \in ToSet(argument)
    BY DEF ToSet
<1> QED
    BY <1>1, OpusInfoAssumption

(* Before the first page no stream is off its course.                      *)
LEMMA NothingRead ==
    ASSUME NEW ps
    PROVE  Course(<<>>, <<>>, ps)
<1>1. <<>> \in Seq({}) /\ Len(<<>>) = 0 /\ 1..0 = {}
    OBVIOUS
<1>2. AllKnown(<<>>, <<>>)
    BY PagesNone DEF AllKnown
<1> QED
    BY <1>1, <1>2 DEF Course

(* The next file.                                                          *)
LEMMA OpenFileKeeps ==
    ASSUME InfoInv, OpenFile
    PROVE  InfoInv'
<1>1. PICK argument \in Arguments : files \in Seq(ToSet(argument))
    BY DEF InfoInv
<1>2. files' \in Seq(ToSet(argument)) /\ files' # <<>>
    <2>1. CASE stage = "closed"
        <3>1. files # <<>> /\ files' = Tail(files) /\ files' # <<>>
            BY <2>1 DEF InfoInv, OpenFile
        <3>2. Tail(files) \in Seq(ToSet(argument))
            BY <1>1, <3>1
        <3> QED
            BY <3>1, <3>2
    <2>2. CASE stage # "closed"
        BY <1>1, <2>2 DEF OpenFile
    <2> QED
        BY <2>1, <2>2
<1>3. read' = <<>> /\ streams' = <<>> /\ Len(<<>>) = 0 /\ 1..0 = {}
    BY DEF OpenFile
<1>4. CASE Head(files') = MISSING
    <2>1. ret' = TRUE /\ flawed' = TRUE /\ stage' = "closed"
        BY <1>4 DEF OpenFile
    <2>2. DamageIsSeen'
        BY <1>4, <2>1 DEF DamageIsSeen
    <2> QED
        BY <1>2, <2>1, <2>2 DEF InfoInv
<1>5. CASE Head(files') # MISSING
    <2>1. flawed' = FALSE /\ left' = Head(files').pages /\ stage' = "read" /\ ret' = ret
        BY <1>5 DEF OpenFile
    <2>2. Written(Head(files').pages)
        BY <1>2, <1>5, FileWritten
    <2> DEFINE ps == Head(files').pages
    <2>3. ps \in Seq(ToSet(ps) \cup {HOLE})
        <3>1. ps \in Seq(ToSet(ps))
            BY <2>2 DEF Written
        <3> HIDE DEF ps
        <3> QED
            BY <3>1
    <2>4. read' \in Seq(ToSet(ps)) /\ Course(streams', read', ps)
        BY <1>3, NothingRead
    <2>5. Inspecting'
        BY <1>5, <2>1, <2>3, <2>4 DEF Inspecting
    <2>6. DamageIsSeen'
        BY <2>1 DEF DamageIsSeen
    <2>7. ret' \in BOOLEAN
        BY <2>1 DEF InfoInv
    <2> QED
        BY <1>2, <2>1, <2>5, <2>6, <2>7 DEF InfoInv
<1> QED
    BY <1>4, <1>5

(* A part of a sequence.                                                   *)
LEMMA PartOf ==
    ASSUME NEW S, NEW s \in Seq(S), NEW a \in Nat \ {0}, NEW b \in 0..Len(s)
    PROVE  SubSeq(s, a, b) \in Seq(S)
<1>1. \A i \in a..b : s[i] \in S
    OBVIOUS
<1> QED
    BY <1>1, SubSeqProperties

(* The smaller of two numbers.                                             *)
LEMMA MinOfTwo ==
    ASSUME NEW a \in Nat, NEW b \in Nat
    PROVE  Min({a, b}) = IF a <= b THEN a ELSE b
<1> DEFINE m == IF a <= b THEN a ELSE b
<1>1. m \in {a, b} /\ \A y \in {a, b} : m <= y
    OBVIOUS
<1>2. \A x \in {a, b} : (\A y \in {a, b} : x <= y) => x = m
    OBVIOUS
<1> HIDE DEF m
<1>3. Min({a, b}) = m
    BY <1>1, <1>2 DEF Min
<1> QED
    BY <1>3 DEF m

(* Damage leaves pages of the file and holes.                              *)
LEMMA DamageKeeps ==
    ASSUME InfoInv, Damage
    PROVE  InfoInv'
<1> DEFINE P == ToSet(Head(files).pages) \cup {HOLE}
<1>1. stage = "read" /\ Inspecting /\ left \in Seq(P)
    BY DEF InfoInv, Damage, Inspecting
<1>2. PICK i \in 1..Len(left) :
          \/ left' = RemoveAt(left, i) \/ left' = InsertAt(left, i, left[i])
          \/ left' = [left EXCEPT ![i] = HOLE]
          \/ left' = InsertAt(RemoveAt(left, i), Min({i + 1, Len(left)}), left[i])
    BY DEF Damage
<1>3. HOLE \in P
    OBVIOUS
<1> HIDE DEF P
<1>4. left[i] \in P /\ Len(left) \in Nat /\ i \in Nat \ {0}
    BY <1>1
<1>5. RemoveAt(left, i) \in Seq(P) /\ Len(RemoveAt(left, i)) = Len(left) - 1
    <2> DEFINE front == SubSeq(left, 1, i - 1)
               rest == SubSeq(left, i + 1, Len(left))
    <2>1. front \in Seq(P) /\ rest \in Seq(P)
        BY <1>1, <1>4, PartOf
    <2>2. Len(front) = i - 1 /\ Len(rest) = Len(left) - i
        BY <1>1, <1>4
    <2>3. RemoveAt(left, i) = front \o rest
        BY DEF RemoveAt
    <2>4. \A x, y \in Seq(P) : x \o y \in Seq(P) /\ Len(x \o y) = Len(x) + Len(y)
        OBVIOUS
    <2> HIDE DEF front, rest
    <2>5. RemoveAt(left, i) \in Seq(P) /\ Len(RemoveAt(left, i)) = Len(front) + Len(rest)
        BY <2>1, <2>3, <2>4
    <2> QED
        BY <1>4, <2>2, <2>5
<1>6. ASSUME NEW s \in Seq(P), NEW j \in 1..(Len(s) + 1)
      PROVE  InsertAt(s, j, left[i]) \in Seq(P)
    <2>1. SubSeq(s, 1, j - 1) \in Seq(P) /\ SubSeq(s, j, Len(s)) \in Seq(P)
        <3>1. j - 1 \in 0..Len(s) /\ Len(s) \in 0..Len(s) /\ j \in Nat \ {0}
            OBVIOUS
        <3> QED
            BY <3>1, PartOf
    <2>2. <<left[i]>> \in Seq(P)
        BY <1>4
    <2>3. \A x, y, z \in Seq(P) : x \o y \o z \in Seq(P)
        OBVIOUS
    <2> QED
        BY <2>1, <2>2, <2>3 DEF InsertAt
<1>7. Min({i + 1, Len(left)}) \in 1..Len(left)
    BY <1>4, MinOfTwo
<1>8. left' \in Seq(P)
    <2>1. InsertAt(left, i, left[i]) \in Seq(P)
        <3>1. i \in 1..(Len(left) + 1)
            BY <1>4
        <3> QED
            BY <1>1, <1>6, <3>1
    <2>2. [left EXCEPT ![i] = HOLE] \in Seq(P)
        BY <1>1, <1>3
    <2>3. InsertAt(RemoveAt(left, i), Min({i + 1, Len(left)}), left[i]) \in Seq(P)
        <3>1. Min({i + 1, Len(left)}) \in 1..(Len(RemoveAt(left, i)) + 1)
            BY <1>4, <1>5, <1>7
        <3> QED
            BY <1>5, <1>6, <3>1
    <2> QED
        BY <1>2, <1>5, <2>1, <2>2, <2>3
<1>9. /\ stage' = stage /\ files' = files /\ read' = read /\ streams' = streams
      /\ flawed' = flawed /\ ret' = ret
    BY DEF Damage
<1>10. Inspecting'
    BY <1>1, <1>8, <1>9 DEF Inspecting, P
<1>11. DamageIsSeen'
    BY <1>1, <1>9 DEF DamageIsSeen
<1> QED
    BY <1>1, <1>9, <1>10, <1>11 DEF InfoInv

(* A hole is warned of.                                                    *)
LEMMA SkipHoleKeeps ==
    ASSUME InfoInv, SkipHole
    PROVE  InfoInv'
<1>1. stage = "read" /\ Inspecting /\ left # <<>>
    BY DEF InfoInv, SkipHole
<1>2. /\ stage' = stage /\ files' = files /\ read' = read /\ streams' = streams
      /\ flawed' = TRUE /\ ret' = ret /\ left' = Tail(left)
    BY DEF SkipHole
<1>3. \A S : left \in Seq(S) => Tail(left) \in Seq(S)
    BY <1>1
<1>4. Inspecting'
    BY <1>1, <1>2, <1>3 DEF Inspecting
<1>5. DamageIsSeen'
    BY <1>1, <1>2 DEF DamageIsSeen
<1> QED
    BY <1>1, <1>2, <1>4, <1>5 DEF InfoInv

(* A page is read.                                                         *)
LEMMA ReadPageKeeps ==
    ASSUME InfoInv, ReadPage
    PROVE  InfoInv'
<1> DEFINE ps == Head(files).pages
           page == Head(left)
           known == {i \in 1..Len(streams) : streams[i].serial = page.serial}
           at == IF known = {} THEN Len(streams) + 1 ELSE Min(known)
           stream == IF known = {} THEN NewStream(page)
                    ELSE KnownStream([streams[at] EXCEPT !.ends = <<>>], page)
           s == TakePage(stream, page)
<1>1. stage = "read" /\ Inspecting /\ left # <<>> /\ page # HOLE
    BY DEF InfoInv, ReadPage
<1>2. PICK argument \in Arguments : files \in Seq(ToSet(argument))
    BY DEF InfoInv
<1>3. Written(ps)
    BY <1>1, <1>2, FileWritten DEF InfoInv, Inspecting
<1>4. /\ stage' = stage /\ files' = files /\ ret' = ret /\ left' = Tail(left)
      /\ read' = Append(read, page) /\ flawed' = (flawed \/ s.bad)
      /\ streams' = IF known = {} THEN Append(streams, s) ELSE [streams EXCEPT ![at] = s]
    BY DEF ReadPage
<1> HIDE DEF s, stream
<1>5. /\ left \in Seq(ToSet(ps) \cup {HOLE}) /\ read \in Seq(ToSet(ps))
      /\ ~flawed => Course(streams, read, ps)
    BY <1>1 DEF Inspecting
<1> HIDE DEF ps
<1>6. page \in ToSet(ps) /\ Tail(left) \in Seq(ToSet(ps) \cup {HOLE})
    BY <1>1, <1>5
<1> HIDE DEF page
<1>7. read' \in Seq(ToSet(ps))
    BY <1>4, <1>5, <1>6
<1>8. ASSUME ~flawed' PROVE Course(streams', read', ps)
    <2>1. ~flawed /\ ~s.bad /\ Course(streams, read, ps)
        BY <1>4, <1>5, <1>8
    <2>2. CASE known = {}
        <3>1. stream = NewStream(page) /\ s = TakePage(NewStream(page), page)
            BY <2>2 DEF stream, s
        <3>2. \A i \in 1..Len(streams) : streams[i].serial # page.serial
            BY <2>2
        <3>3. Course(Append(streams, s), Append(read, page), ps)
            BY <1>3, <1>5, <1>6, <2>1, <3>1, <3>2, NewOnCourse
        <3> QED
            BY <1>4, <2>2, <3>3
    <2>3. CASE known # {}
        <3>1. at \in known
            <4>1. \E m \in known : \A n \in known : m <= n
                <5>1. known \subseteq Nat
                    OBVIOUS
                <5> HIDE DEF known
                <5> QED
                    BY <2>3, <5>1, Smallest
            <4>2. Min(known) \in known
                <5> HIDE DEF known
                <5> QED
                    BY <4>1 DEF Min
            <4> QED
                BY <2>3, <4>2
        <3>2. at \in 1..Len(streams) /\ streams[at].serial = page.serial
            <4> HIDE DEF at
            <4> QED
                BY <3>1
        <3>3. s = TakePage(KnownStream([streams[at] EXCEPT !.ends = <<>>], page), page)
            BY <2>3 DEF stream, s
        <3> HIDE DEF at
        <3>4. Course([streams EXCEPT ![at] = s], Append(read, page), ps)
            BY <1>3, <1>5, <1>6, <2>1, <3>2, <3>3, KnownOnCourse
        <3> QED
            BY <1>4, <2>3, <3>4
    <2> QED
        BY <2>2, <2>3
<1>9. Inspecting'
    BY <1>1, <1>4, <1>5, <1>6, <1>7, <1>8 DEF Inspecting, ps
<1>10. DamageIsSeen'
    BY <1>1, <1>4 DEF DamageIsSeen
<1>11. flawed' \in BOOLEAN
    BY <1>4
<1> QED
    BY <1>1, <1>2, <1>4, <1>9, <1>10, <1>11 DEF InfoInv

(* At the end of a file of which nothing was warned every stream has       *)
(* ended, so that all of its pages were read.                              *)
LEMMA CloseFileKeeps ==
    ASSUME InfoInv, CloseFile
    PROVE  InfoInv'
<1> DEFINE ps == Head(files).pages
<1>1. stage = "read" /\ Inspecting
    BY DEF InfoInv, CloseFile
<1>2. /\ files' = files /\ read' = read /\ stage' = "closed" /\ ret' = (ret \/ flawed')
      /\ flawed' = (flawed \/ streams = <<>> \/ \E i \in 1..Len(streams) : ~streams[i].end)
    BY DEF CloseFile
<1>3. PICK argument \in Arguments : files \in Seq(ToSet(argument))
    BY DEF InfoInv
<1>4. Written(ps)
    BY <1>1, <1>3, FileWritten DEF InfoInv, Inspecting
<1>5. ASSUME ~flawed', NEW j \in 1..Len(read)
      PROVE  PagesOf(read[j].serial, read) = PagesOf(read[j].serial, ps)
    <2> DEFINE sn == read[j].serial
               of == PagesOf(sn, read)
               whole == PagesOf(sn, ps)
    <2>1. Course(streams, read, ps) /\ read \in Seq(ToSet(ps))
        BY <1>1, <1>2, <1>5 DEF Inspecting
    <2>2. of \in Seq(ToSet(ps)) /\ whole \in Seq(ToSet(ps))
        <3>1. ps \in Seq(ToSet(ps))
            BY <1>4 DEF Written
        <3> QED
            BY <2>1, <3>1, PagesType
    <2>3. of # <<>>
        <3>1. PICK k \in 1..Len(of) : of[k] = read[j]
            BY <2>1, PagesAll
        <3> HIDE DEF of
        <3>2. Len(of) # 0
            BY <3>1
        <3> QED
            BY <3>2
    <2>4. PICK i \in 1..Len(streams) : streams[i].serial = sn
        BY <2>1, <2>3 DEF Course, AllKnown, Known
    <2>5. OnCourse(streams[i], read, ps) /\ streams[i].end
        BY <1>2, <1>5, <2>1, <2>4 DEF Course
    <2>6. Len(of) = Len(whole) /\ \A k \in 1..Len(of) : of[k] = whole[k]
        BY <2>4, <2>5 DEF OnCourse, Begins
    <2> HIDE DEF of, whole
    <2>7. of = whole
        BY <2>2, <2>6, SeqEqual
    <2> QED
        BY <2>7 DEF of, whole
<1>6. DamageIsSeen'
    BY <1>2, <1>5 DEF DamageIsSeen
<1>7. stage' = "closed" /\ files' # <<>> /\ flawed' \in BOOLEAN /\ ret' \in BOOLEAN
    BY <1>1, <1>2 DEF InfoInv
<1> QED
    BY <1>2, <1>3, <1>6, <1>7 DEF InfoInv

(* At the beginning.                                                       *)
LEMMA InfoInvInit ==
    ASSUME InfoInit
    PROVE  InfoInv
<1>1. files \in Arguments /\ stage = "next" /\ flawed = FALSE /\ ret = FALSE
    BY DEF InfoInit
<1>2. files \in Seq(ToSet(files))
    BY <1>1, OpusInfoAssumption
<1> QED
    BY <1>1, <1>2 DEF InfoInv, DamageIsSeen

(* InfoInv holds all along.                                                   *)
THEOREM InfoInvariance == InfoSpec => []InfoInv
<1>1. InfoInit => InfoInv
    BY InfoInvInit
<1>2. InfoInv /\ [InfoNext]_infoVars => InfoInv'
    <2>1. CASE UNCHANGED infoVars
        BY <2>1 DEF infoVars, InfoInv, Inspecting, DamageIsSeen
    <2> QED
        BY <2>1, OpenFileKeeps, DamageKeeps, SkipHoleKeeps, ReadPageKeeps, CloseFileKeeps DEF InfoNext
<1> QED
    BY <1>1, <1>2, PTL DEF InfoSpec

(* Whatever happened to the pages of a stream, if one of them is left then *)
(* the damage is warned of, and the status tells.                          *)
THEOREM DamageWarned == InfoSpec => []DamageIsSeen
<1>1. InfoInv => DamageIsSeen
    BY DEF InfoInv
<1> QED
    BY <1>1, InfoInvariance, PTL
=============================================================================
