----------------------------- MODULE Resampler ------------------------------
(***************************************************************************)
(* The resampler (resample.c): its counters, its filter memory and the     *)
(* reconfiguration of a running resampler.  An output sample is the filter *)
(* applied to a window of filt_len samples of the memory; which samples    *)
(* are in that window is what is modelled, not their values.               *)
(*                                                                         *)
(* The memory is one array, mem_alloc_size entries for each channel: the   *)
(* filt_len - 1 samples before the position, then input.  A sample is      *)
(* named by its stream, channel and number.                                *)
(***************************************************************************)
EXTENDS Integers, FiniteSetsExt

CONSTANTS NbChannels,
          BaseLength,    \* quality -> length of the filter
          Oversample,    \* quality -> positions per sample in its table
          Multiple,      \* a lengthened filter is a multiple of this (8)
          BufferSize,    \* buffer_size (160)
          StackAlloc,    \* FIXED_STACK_ALLOC (1024)
          MaxWord,       \* UINT32_MAX
          MaxElems,      \* INT_MAX / sizeof(spx_word16_t)
          Ratios,        \* the rates asked for
          Chunks,        \* bound: lengths of buffers
          MaxInput,      \* bound: samples of a stream
          MaxChanges     \* bound: reconfigurations

Channels == 0..(NbChannels - 1)
Qualities == DOMAIN BaseLength

ASSUME ResamplerAssumption ==
    /\ NbChannels \in Nat \ {0} /\ MaxWord \in Nat /\ MaxElems \in Nat
    /\ MaxElems < MaxWord
    /\ Multiple \in Nat \ {0} /\ Multiple % 2 = 0
    /\ BufferSize \in Nat \ {0} /\ StackAlloc \in Nat \ {0}
    /\ Ratios \subseteq (Nat \ {0}) \X (Nat \ {0})
    /\ DOMAIN Oversample = Qualities
    /\ \A q \in Qualities : /\ BaseLength[q] \in Nat \ {0} /\ BaseLength[q] % 2 = 0
                            /\ Oversample[q] \in Nat \ {0}
    /\ \A r \in Ratios, q \in Qualities : r[2] * Oversample[q] <= MaxWord
    /\ Chunks \subseteq Nat /\ MaxInput \in Nat /\ MaxChanges \in Nat

VARIABLES st,          \* the SpeexResamplerState
          call,        \* the call that is running
          taken,       \* history: input samples that a channel has taken
          lost,        \* history: samples up to this one were forgotten when
                       \* the filter grew
          stream,      \* history: number of the stream, since the last reset
          overflowed,  \* history: a change of rates was refused half way
          changes      \* reconfigurations so far

vars == <<st, call, taken, lost, stream, overflowed, changes>>

Silence == <<0, 0, 0>>
Garbage == <<-1, 0, 0>>     \* memory nobody has written
Sample(c, k) == <<stream, c, k>>

Idle == [pc |-> "idle"]
Min2(a, b) == IF a < b THEN a ELSE b

-----------------------------------------------------------------------------
(* Rates.                                                                  *)

Gcd(a, b) == Max({d \in 1..a : a % d = 0 /\ b % d = 0})

Overflows(value, num, den) ==
    LET major == value \div den
        remain == value % den
    IN  \/ remain > MaxWord \div num \/ major > MaxWord \div num
        \/ major * num > MaxWord - (remain * num) \div den

MultiplyFrac(value, num, den) ==
    ((value % den) * num) \div den + (value \div den) * num

-----------------------------------------------------------------------------
(* update_filter.                                                          *)

Entry(s, c, j) == s.mem[c * s.mem_alloc_size + j]

RoundUp(n) == ((n - 1) \div Multiple) * Multiple + Multiple

NewLength(s) ==
    IF s.num_rate > s.den_rate
    THEN RoundUp(MultiplyFrac(BaseLength[s.quality], s.num_rate, s.den_rate))
    ELSE BaseLength[s.quality]

NewOversample(s) ==
    LET half(n, k) == IF k * s.den_rate < s.num_rate THEN n \div 2 ELSE n
    IN  Max({1, half(half(half(half(Oversample[s.quality], 2), 4), 8), 16)})

UseDirect(s, n) ==
    /\ n * s.den_rate <= n * NewOversample(s) + 8
    /\ MaxElems \div s.den_rate >= n

(* Fault: the margins of the cubic interpolation are left out.             *)
TableLengthTight(s, n) ==
    IF UseDirect(s, n) THEN n * s.den_rate ELSE n * NewOversample(s)

TableLength(s, n) ==
    IF UseDirect(s, n) THEN n * s.den_rate ELSE n * NewOversample(s) + 8

(* Fault: room for one sample too few.                                     *)
AllocSizeShort(n) == n - 2 + BufferSize

AllocSize(n) == n - 1 + BufferSize

(* What is refused before memory is asked for.                             *)
TableTooLong(s) ==
    \/ /\ s.num_rate > s.den_rate
       /\ Overflows(BaseLength[s.quality], s.num_rate, s.den_rate)
    \/ LET n == NewLength(s) IN
       ~UseDirect(s, n) /\ (MaxElems - 8) \div NewOversample(s) < n

MemoryTooLong(s) == MaxElems \div NbChannels < AllocSize(NewLength(s))

Allocations == {"none", "table", "memory"}

(* The two allocations, either of which may be refused.                    *)
Refusals(s) ==
    LET n == NewLength(s) IN
    {"none"} \cup (IF s.sinc_table_length < TableLength(s, n) THEN {"table"} ELSE {})
             \cup (IF s.mem_alloc_size < AllocSize(n) THEN {"memory"} ELSE {})

(* Fault: the magic samples that are put back are not counted.             *)
ShiftFromOld(s, n, olen) == (n - s.filt_len) \div 2

Shift(s, n, olen) == (n - olen) \div 2

(* The filter grows: the magic samples go back into the memory, zeros in   *)
(* front of it.  What still does not fit becomes magic again.              *)
Grown(s, n, c) ==
    LET magic == s.magic_samples[c]
        olen == s.filt_len + 2 * magic
        put(j) == IF j < magic THEN Silence ELSE Entry(s, c, j - magic)
    IN  IF n > olen
        THEN [magic |-> 0, last |-> s.last_sample[c] + Shift(s, n, olen),
              mem |-> [j \in 0..(n - 2) |-> IF j < n - olen THEN Silence
                                            ELSE put(j - (n - olen))]]
        ELSE LET back == (olen - n) \div 2 IN
             [magic |-> back, last |-> s.last_sample[c],
              mem |-> [j \in 0..(n + back - 2) |-> put(j + back)]]

(* Fault: the magic samples that were left are forgotten.                  *)
ShrunkAfresh(s, n, c) ==
    LET more == (s.filt_len - n) \div 2 IN
    [magic |-> more, last |-> s.last_sample[c],
     mem |-> [j \in 0..(n + more - 2) |-> Entry(s, c, j + more)]]

(* The filter shrinks: the samples after its new middle become magic.      *)
Shrunk(s, n, c) ==
    LET more == (s.filt_len - n) \div 2
        magic == s.magic_samples[c] + more
    IN  [magic |-> magic, last |-> s.last_sample[c],
         mem |-> [j \in 0..(n + magic - 2) |-> Entry(s, c, j + more)]]

(* The channels one after the other.  Each copy goes upwards in memory and *)
(* backwards in the loop, so that none overwrites what another still needs.*)
Relayout(s, n, alloc) ==
    LET part == [c \in Channels |->
                   IF n > s.filt_len THEN Grown(s, n, c) ELSE Shrunk(s, n, c)]
    IN  [s EXCEPT
           !.filt_len = n, !.mem_alloc_size = alloc,
           !.magic_samples = [c \in Channels |-> part[c].magic],
           !.last_sample = [c \in Channels |-> part[c].last],
           !.mem = [k \in 0..(NbChannels * alloc - 1) |->
                      LET j == k % alloc
                          mem == part[k \div alloc].mem
                      IN  IF j \in DOMAIN mem THEN mem[j] ELSE Garbage]]

(* The whole of it; refused is the allocation that fails.  A resampler that *)
(* lacks memory writes zeros, in step, until it is changed again.          *)
UpdateFilter(s, refused) ==
    LET n == NewLength(s)
        alloc == Max({s.mem_alloc_size, AllocSize(n)})
        stepped == [s EXCEPT !.int_advance = s.num_rate \div s.den_rate,
                             !.frac_advance = s.num_rate % s.den_rate,
                             !.oversample = NewOversample(s)]
        filled == [stepped EXCEPT
                     !.resampler = IF UseDirect(s, n) THEN "direct" ELSE "interpolate",
                     !.sinc_table_length = Max({@, TableLength(s, n)})]
    IN  IF TableTooLong(s) \/ refused = "table" THEN [stepped EXCEPT !.resampler = "zero"]
        ELSE IF MemoryTooLong(s) \/ refused = "memory" THEN [filled EXCEPT !.resampler = "zero"]
        ELSE IF ~s.started THEN [filled EXCEPT !.filt_len = n, !.mem_alloc_size = alloc,
                                   !.mem = [k \in 0..(NbChannels * alloc - 1) |-> Silence]]
        ELSE IF n = s.filt_len THEN filled
        ELSE Relayout(filled, n, alloc)

(* The samples in front of the memory are forgotten when it grows.         *)
Forgotten(s, t) ==
    [c \in Channels |->
        IF s.started /\ t.filt_len > s.filt_len
        THEN Max({lost[c], taken[c] - s.magic_samples[c] - (s.filt_len - 1)})
        ELSE lost[c]]

-----------------------------------------------------------------------------
(* Making and changing a resampler.                                        *)

(* speex_resampler_init; a resampler that cannot be made is not used.      *)
Blank(ratio, q) ==
    [rates |-> ratio,
     num_rate |-> ratio[1] \div Gcd(ratio[1], ratio[2]),
     den_rate |-> ratio[2] \div Gcd(ratio[1], ratio[2]),
     quality |-> q, started |-> FALSE, resampler |-> "zero",
     int_advance |-> 0, frac_advance |-> 0, oversample |-> 1,
     filt_len |-> 0, mem_alloc_size |-> 0, sinc_table_length |-> 0,
     last_sample |-> [c \in Channels |-> 0],
     samp_frac_num |-> [c \in Channels |-> 0],
     magic_samples |-> [c \in Channels |-> 0],
     mem |-> <<>>]

Init ==
    /\ \E ratio \in Ratios, q \in Qualities :
          /\ st = UpdateFilter(Blank(ratio, q), "none")
          /\ st.resampler # "zero"
    /\ call = Idle
    /\ taken = [c \in Channels |-> 0] /\ lost = [c \in Channels |-> 0]
    /\ stream = 1 /\ overflowed = FALSE /\ changes = 0

(* The part of a sample is converted to the new denominator, channel by    *)
(* channel, until one does not fit: then the rates stay changed, but the   *)
(* steps do not.                                                           *)
SetRate(ratio, refused) ==
    LET g == Gcd(ratio[1], ratio[2])
        s == [st EXCEPT !.rates = ratio, !.num_rate = ratio[1] \div g,
                        !.den_rate = ratio[2] \div g]
        bad == {c \in Channels :
                  Overflows(st.samp_frac_num[c], s.den_rate, st.den_rate)}
        scaled(c) == Min2(MultiplyFrac(st.samp_frac_num[c], s.den_rate, st.den_rate),
                          s.den_rate - 1)
        t == [s EXCEPT !.samp_frac_num =
                 [c \in Channels |-> IF \E b \in bad : b <= c THEN @[c] ELSE scaled(c)]]
    IN  /\ call = Idle /\ changes < MaxChanges
        /\ st.rates # ratio \/ <<st.num_rate, st.den_rate>> # ratio
        /\ refused \in Refusals(t)
        /\ st' = IF bad # {} THEN t ELSE UpdateFilter(t, refused)
        /\ overflowed' = (overflowed \/ bad # {})
        /\ lost' = Forgotten(st, st')
        /\ changes' = changes + 1
        /\ UNCHANGED <<call, taken, stream>>

SetQuality(q, refused) ==
    LET s == [st EXCEPT !.quality = q] IN
    /\ call = Idle /\ changes < MaxChanges
    /\ st.quality # q
    /\ refused \in Refusals(s)
    /\ st' = UpdateFilter(s, refused)
    /\ lost' = Forgotten(st, st')
    /\ changes' = changes + 1
    /\ UNCHANGED <<call, taken, stream, overflowed>>

(* Fault: the first channel only.                                          *)
SkipZerosFirst ==
    /\ call = Idle /\ ~st.started
    /\ st' = [st EXCEPT !.last_sample[0] = st.filt_len \div 2]
    /\ UNCHANGED <<call, taken, lost, stream, overflowed, changes>>

(* As documented, on a new resampler.                                      *)
SkipZeros ==
    /\ call = Idle /\ ~st.started
    /\ st' = [st EXCEPT !.last_sample = [c \in Channels |-> st.filt_len \div 2]]
    /\ UNCHANGED <<call, taken, lost, stream, overflowed, changes>>

(* The beginning of the memory is cleared, as if the channels were         *)
(* filt_len - 1 apart.                                                     *)
ResetMem ==
    /\ call = Idle /\ changes < MaxChanges
    /\ st' = [st EXCEPT
                !.last_sample = [c \in Channels |-> 0],
                !.magic_samples = [c \in Channels |-> 0],
                !.samp_frac_num = [c \in Channels |-> 0],
                !.mem = [k \in DOMAIN @ |-> IF k < NbChannels * (st.filt_len - 1)
                                            THEN Silence ELSE @[k]]]
    /\ taken' = [c \in Channels |-> 0] /\ lost' = [c \in Channels |-> 0]
    /\ stream' = stream + 1 /\ changes' = changes + 1
    /\ UNCHANGED <<call, overflowed>>

-----------------------------------------------------------------------------
(* Resampling.  A call works on one channel after the other, each with the *)
(* same buffers.  "begin" is the top of its loop, "run" the loop of the    *)
(* resampler function.                                                     *)

Magic == st.magic_samples[call.chan] > 0
Drained == call.ilen = 0 \/ call.olen = 0

Process(kind, ilen, olen) ==
    /\ call = Idle
    /\ \A c \in Channels : taken[c] + ilen <= MaxInput
    /\ call' = [pc |-> "begin", kind |-> kind, chan |-> 0, ilen |-> ilen, olen |-> olen,
                in |-> ilen, out |-> olen, n |-> 0, room |-> 0, made |-> 0,
                magic |-> FALSE]
    /\ UNCHANGED <<st, taken, lost, stream, overflowed, changes>>

(* speex_resampler_magic is called: the magic samples are the input.       *)
RunMagic ==
    /\ call.pc = "begin" /\ Magic
    /\ call.kind = "int" => ~Drained
    /\ call' = [call EXCEPT !.pc = "run", !.magic = TRUE, !.made = 0,
                            !.n = st.magic_samples[call.chan],
                            !.room = IF call.kind = "int" THEN Min2(call.olen, StackAlloc)
                                                          ELSE call.olen]
    /\ st' = [st EXCEPT !.started = TRUE]
    /\ UNCHANGED <<taken, lost, stream, overflowed, changes>>

(* A chunk of the input is copied behind the filter memory.                *)
Copied(n) ==
    LET c == call.chan
        first == c * st.mem_alloc_size + st.filt_len - 1
    IN  [k \in DOMAIN st.mem |->
           IF k \in first..(first + n - 1) THEN Sample(c, taken[c] + k - first + 1)
           ELSE st.mem[k]]

(* Fault: the buffer is counted as part of the filter.                     *)
ChunkWithoutBuffer == Min2(call.ilen, st.mem_alloc_size - AllocSize(st.filt_len))

Chunk == Min2(call.ilen, st.mem_alloc_size - (st.filt_len - 1))

RunChunk ==
    /\ \/ /\ call.pc = "begin" /\ ~Magic /\ ~Drained
          /\ call' = [call EXCEPT !.pc = "run", !.magic = FALSE, !.made = 0, !.n = Chunk,
                         !.room = IF call.kind = "int" THEN Min2(call.olen, StackAlloc)
                                                       ELSE call.olen]
       \/ /\ call.pc = "rest"    \* after the magic, in the room that is left
          /\ call' = [call EXCEPT !.pc = "run", !.magic = FALSE, !.made = 0, !.n = Chunk]
    /\ st' = [st EXCEPT !.mem = Copied(Chunk), !.started = TRUE]
    /\ UNCHANGED <<taken, lost, stream, overflowed, changes>>

Running == call.pc = "run" /\ st.last_sample[call.chan] < call.n /\ call.made < call.room

(* One turn of the loop: an output sample, and the position advances.      *)
Emit ==
    LET c == call.chan
        frac == st.samp_frac_num[c] + st.frac_advance
        carry == frac >= st.den_rate
    IN  /\ Running
        /\ st' = [st EXCEPT
                    !.last_sample[c] = @ + st.int_advance + (IF carry THEN 1 ELSE 0),
                    !.samp_frac_num[c] = IF carry THEN frac - st.den_rate ELSE frac]
        /\ call' = [call EXCEPT !.made = @ + 1]
        /\ UNCHANGED <<taken, lost, stream, overflowed, changes>>

(* After the loop: what the filter has passed leaves the memory.           *)
Finish ==
    LET c == call.chan
        used == Min2(call.n, st.last_sample[c])
        left == st.magic_samples[c] - used
        first == c * st.mem_alloc_size
        kept == IF call.magic THEN st.filt_len - 1 + left ELSE st.filt_len - 1
    IN  /\ call.pc = "run" /\ ~Running
        /\ st' = [st EXCEPT
                    !.last_sample[c] = @ - used,
                    !.magic_samples[c] = IF call.magic THEN left ELSE @,
                    !.mem = [k \in DOMAIN @ |-> IF k \in first..(first + kept - 1)
                                                THEN @[k + used] ELSE @[k]]]
        /\ taken' = IF call.magic THEN taken ELSE [taken EXCEPT ![c] = @ + used]
        /\ call' = [call EXCEPT
                      !.pc = IF ~call.magic THEN "begin"
                             ELSE IF left > 0 THEN IF call.kind = "int" THEN "begin" ELSE "end"
                             ELSE IF call.kind = "int" THEN "rest" ELSE "begin",
                      !.ilen = IF call.magic THEN @ ELSE @ - used,
                      !.olen = @ - call.made,
                      !.room = @ - call.made]
        /\ UNCHANGED <<lost, stream, overflowed, changes>>

(* The next channel, with the buffers from their beginning; or the end.    *)
NextChannel ==
    /\ \/ call.pc = "end"
       \/ call.pc = "begin" /\ Drained /\ (Magic => call.kind = "int")
    /\ call' = IF call.chan + 1 \in Channels
               THEN [call EXCEPT !.pc = "begin", !.chan = @ + 1,
                                 !.ilen = call.in, !.olen = call.out]
               ELSE Idle
    /\ UNCHANGED <<st, taken, lost, stream, overflowed, changes>>

Step == RunMagic \/ RunChunk \/ Emit \/ Finish \/ NextChannel

Next ==
    \/ \E kind \in {"float", "int"}, ilen \in Chunks, olen \in Chunks :
          Process(kind, ilen, olen)
    \/ Step
    \/ \E ratio \in Ratios, refused \in Allocations : SetRate(ratio, refused)
    \/ \E q \in Qualities, refused \in Allocations : SetQuality(q, refused)
    \/ SkipZeros \/ ResetMem

Spec == Init /\ [][Next]_vars

(* A call that has begun goes on.                                          *)
FairSpec == Spec /\ WF_vars(Step)

-----------------------------------------------------------------------------
(* Properties.                                                             *)

(* The state is well formed: a channel's part of a sample is less than a   *)
(* sample, and the filter, the samples around it and the next chunk fit in *)
(* the memory of a channel, so that no loop of update_filter and of the    *)
(* resampling leaves it.                                                   *)
TypeOK ==
    /\ st.resampler \in {"direct", "interpolate", "zero"}
    /\ st.quality \in Qualities /\ st.started \in BOOLEAN
    /\ DOMAIN st.mem = 0..(NbChannels * st.mem_alloc_size - 1)
    /\ \A c \in Channels :
          /\ st.last_sample[c] \in Nat /\ st.magic_samples[c] \in Nat
          /\ st.samp_frac_num[c] \in Nat
          /\ overflowed \/ st.samp_frac_num[c] < st.den_rate
          /\ st.filt_len + 2 * st.magic_samples[c] - 1 + BufferSize <= st.mem_alloc_size
    /\ call = Idle \/ /\ call.pc \in {"begin", "run", "rest", "end"}
                      /\ call.chan \in Channels
                      /\ call.ilen \in 0..call.in /\ call.olen \in 0..call.out

Window == 0..(st.filt_len - 1)

(* The number of the sample at place j of the window.                      *)
Number(j) == LET c == call.chan IN
             taken[c] - st.magic_samples[c] + st.last_sample[c] + j - st.filt_len + 2

Filtered(c) ==
    \A j \in Window :
       \/ Entry(st, c, st.last_sample[c] + j) = Silence /\ Number(j) <= lost[c]
       \/ Entry(st, c, st.last_sample[c] + j) = Sample(c, Number(j)) /\ Number(j) >= 1

(* An output sample is the filter applied to consecutive samples of its    *)
(* channel, each of them the one that belongs there, whatever buffers they *)
(* came in and whatever the lengths of the filters since; silence stands   *)
(* for what was before the stream and for what a shorter filter let go     *)
(* (update_filter, speex_resampler_magic, speex_resampler_process_native). *)
WindowRight ==
    LET c == call.chan IN
    Running /\ st.resampler # "zero" /\ (c = 0 \/ stream = 1) => Filtered(c)

(* After speex_resampler_reset_mem as before it ("so a new (unrelated)     *)
(* stream can be processed", speex_resampler.h:328).                       *)
ResetForgets == Running /\ st.resampler # "zero" => Filtered(call.chan)

(* The coefficients that an output sample reads are in the table, in the   *)
(* layout in which the table was last filled, also when rates and qualities *)
(* changed and the table was kept (the resampler_basic functions).         *)
TableInBounds ==
    LET frac == st.samp_frac_num[call.chan]
        scaled == (frac * st.oversample) % (MaxWord + 1)
        offset == scaled \div st.den_rate
    IN  Running /\ ~overflowed =>
        /\ st.resampler = "direct" =>
              (frac + 1) * st.filt_len <= st.sinc_table_length
        /\ st.resampler = "interpolate" =>
              /\ scaled = frac * st.oversample
              /\ 4 + st.oversample - offset - 2 >= 0
              /\ 4 + st.filt_len * st.oversample - offset + 1 < st.sinc_table_length

(* The channels of a call got the same buffers and stay together.          *)
ChannelsInStep ==
    call = Idle => \A c, d \in Channels :
        /\ taken[c] = taken[d]
        /\ st.last_sample[c] = st.last_sample[d]
        /\ st.samp_frac_num[c] = st.samp_frac_num[d]
        /\ st.magic_samples[c] = st.magic_samples[d]

(* The place of a channel in its stream, in samples: the middle of its     *)
(* window.                                                                 *)
Middle(c) == taken[c] - st.magic_samples[c] + st.last_sample[c] - st.filt_len \div 2

Stream == INSTANCE ResampledStream WITH
    Ratios <- {<<r[1] \div Gcd(r[1], r[2]), r[2] \div Gcd(r[1], r[2])>> : r \in Ratios},
    at <- [c \in Channels |-> IF overflowed THEN 0 ELSE Middle(c)],
    part <- [c \in Channels |-> IF overflowed THEN 0 ELSE st.samp_frac_num[c]],
    ratio <- IF overflowed THEN <<1, 1>> ELSE <<st.num_rate, st.den_rate>>,
    started <- st.started, astray <- overflowed

(* The place in the stream moves by the ratio for each output sample and by *)
(* nothing else: a buffer that ends, a filter that grows or shrinks and an *)
(* allocation that fails move it by nothing.                               *)
StreamSpec == Stream!Spec

(* A call comes to an end, also when the filter could not be made          *)
(* ("possibly getting into infinite loops", resample.c:564).               *)
CallEnds == call # Idle ~> call = Idle
=============================================================================
