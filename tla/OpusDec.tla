------------------------------ MODULE OpusDec -------------------------------
(***************************************************************************)
(* opusdec (opusdec.c, with the WAV header of wav_io.c): a chain of links  *)
(* is decoded, each with a rate and a number of channels of its own, to    *)
(* one output that has one rate and one number of channels.                *)
(*                                                                         *)
(* Decoding is done by libopusfile at FullRate and is external: a read     *)
(* returns some samples of the current link or of the next.  The resampler *)
(* is known by what it promises (ResampledStream): it has been fed some    *)
(* input, and its next output is centred so and so far along it.  Samples  *)
(* are counted; their values are not modelled.  A hole in the data         *)
(* (OP_HOLE) is a read that changes nothing.                               *)
(***************************************************************************)
EXTENDS Integers, Sequences

CONSTANTS FullRate,            \* 48000
          MinRate, MaxRate,    \* 8000 and 192000
          BaseLength,          \* length of the filter of quality 5 (80)
          Multiple,            \* of its length when it is lengthened (8)
          OutChunk,            \* 1024
          DrainChunk,          \* 100
          MaxSize,             \* 0x7FFFFFFF
          Sources,             \* the chains: sequences of links
          Commands,            \* the command lines
          Frames,              \* lengths of a read
          MaxRead              \* bound: samples of a link

ASSUME OpusDecAssumption ==
    /\ {FullRate, MinRate, BaseLength, Multiple, OutChunk, DrainChunk} \subseteq Nat \ {0}
    /\ BaseLength >= 6
    /\ MinRate <= FullRate /\ FullRate <= MaxRate /\ MaxRate \in Nat
    /\ MaxSize \in Nat /\ MaxRead \in Nat /\ Frames \subseteq Nat \ {0}
    /\ \A s \in Sources : s \in Seq([rate : Nat, channels : Nat \ {0}, family : Nat]) /\ s # <<>>
    /\ Commands \subseteq [file : BOOLEAN, rate : Nat, stereo : BOOLEAN,
                           wav : BOOLEAN, fp : BOOLEAN]

VARIABLES command, source, seekable,    \* what the program is run on
          pc,          \* "open", "read", "enter", "write", "drain", "patch",
                       \* "end", "quit", "crashed"
          fmt,         \* what was decided when the output was opened
          link,        \* old_li: the link that is being decoded
          read,        \* link -> samples read, at FullRate (link_read)
          out,         \* link_out
          resampler,   \* what it was fed and what it has made
          pending,     \* the read that is being worked on
          left,        \* samples of the buffer that are still to be written
          zeros,       \* samples that are still to be drained
          after,       \* where to go when that is done
          file,        \* the output
          failed       \* history: a write failed or was short

vars == <<command, source, seekable, pc, fmt, link, read, out, resampler,
          pending, left, zeros, after, file, failed>>

None == [fed |-> -1, made |-> -1]
Links == 1..Len(source)
Min2(a, b) == IF a < b THEN a ELSE b
Max2(a, b) == IF a < b THEN b ELSE a

Init ==
    /\ command \in Commands /\ source \in Sources /\ seekable \in BOOLEAN
    /\ pc = "open" /\ fmt = [rate |-> 0] /\ link = 0
    /\ read = [l \in Links |-> 0] /\ out = 0
    /\ resampler = None /\ pending = [link |-> 0, n |-> 0]
    /\ left = 0 /\ zeros = 0 /\ after = "none"
    /\ file = [header |-> 0, written |-> [l \in Links |-> 0], size |-> 0,
               riff |-> MaxSize, data |-> MaxSize]
    /\ failed = FALSE

-----------------------------------------------------------------------------
(* Opening.                                                                *)

Specified(rate) == IF rate = 0 THEN FullRate ELSE rate
HeadRate(l) == Specified(source[l].rate)

(* The rate asked for; a device is not resampled for.                      *)
AskedRate == IF ~command.file /\ command.rate = 0 THEN FullRate ELSE command.rate

MixedRates == seekable /\ \E l \in Links : HeadRate(l) # HeadRate(1)
MixedChannels == seekable /\ \E l \in Links : source[l].channels # source[1].channels

ForcedStereo == command.stereo \/ MixedChannels

ForcedRate ==
    IF AskedRate # 0 THEN AskedRate ELSE IF MixedRates THEN FullRate ELSE 0

Rate ==
    LET rate == IF ForcedRate = 0 THEN HeadRate(1) ELSE ForcedRate
    IN  IF rate \in MinRate..MaxRate THEN rate ELSE FullRate

WithFloats == command.file /\ command.fp
SampleSize == IF WithFloats THEN 4 ELSE 2

(* write_wav_header returns the length of its format chunk.                *)
FormatLength(channels) ==
    IF WithFloats \/ (source[1].family = 1 /\ channels \in 3..8) THEN 40 ELSE 16

(* Where the fields of the header are.                                     *)
RiffField == 4
DataField(length) == 12 + (8 + length) + 4

Header(channels) ==
    [channels |-> channels, rate |-> Rate, length |-> FormatLength(channels)]

(* out_file_open: a device may insist on two channels.                     *)
Open ==
    LET requested == IF ForcedStereo THEN 2 ELSE source[1].channels IN
    /\ pc = "open"
    /\ \E channels \in {requested} \cup (IF command.file THEN {} ELSE {2}) :
          /\ fmt' = [rate |-> Rate, channels |-> channels,
                     stereo |-> ForcedStereo \/ channels # requested]
          /\ file' = [file EXCEPT
                !.header = IF command.file /\ command.wav THEN Header(channels) ELSE @]
    /\ pc' = "read"
    /\ UNCHANGED <<command, source, seekable, link, read, out, resampler,
                   pending, left, zeros, after, failed>>

OpenFails ==
    /\ pc = "open" /\ pc' = "quit"
    /\ UNCHANGED <<command, source, seekable, fmt, link, read, out, resampler,
                   pending, left, zeros, after, file, failed>>

-----------------------------------------------------------------------------
(* The resampler.                                                          *)

(* speex_resampler_get_input_latency: half the filter.                     *)
Latency ==
    LET longer == (BaseLength * FullRate) \div fmt.rate
        length == IF fmt.rate < FullRate
                  THEN ((longer - 1) \div Multiple) * Multiple + Multiple
                  ELSE BaseLength
    IN  length \div 2

(* With the leading zeros skipped, output number t is centred on input     *)
(* t * FullRate / rate, and needs half a filter of input after that.       *)
Reach(t) == Latency + (t * FullRate) \div fmt.rate

(* Outputs for which fed samples of input suffice.                         *)
Ready(fed) ==
    IF fed <= Latency THEN 0
    ELSE ((fed - Latency) * fmt.rate + FullRate - 1) \div FullRate

NewResampler == [fed |-> 0, made |-> 0]

-----------------------------------------------------------------------------
(* The loop over the reads.                                                *)

ReadFrame ==
    /\ pc = "read"
    /\ \E l \in {link, link + 1} \cap Links, n \in Frames :
          /\ read[l] + n <= MaxRead
          /\ pending' = [link |-> l, n |-> n]
          /\ IF l # link /\ resampler # None
             THEN pc' = "drain" /\ zeros' = Latency /\ after' = "enter"
             ELSE pc' = "enter" /\ UNCHANGED <<zeros, after>>
    /\ UNCHANGED <<command, source, seekable, fmt, link, read, out, resampler,
                   left, file, failed>>

(* The reads are over: the end, a decoding error, or other channels.       *)
Over ==
    IF resampler # None
    THEN pc' = "drain" /\ zeros' = Latency /\ after' = "patch"
    ELSE pc' = "patch" /\ UNCHANGED <<zeros, after>>

ReadEnds ==
    /\ pc = "read" /\ Over
    /\ UNCHANGED <<command, source, seekable, fmt, link, read, out, resampler,
                   pending, left, file, failed>>

(* Fault: only a link with more channels is refused.                       *)
MisfitIfMore ==
    /\ pending.link # link /\ ~fmt.stereo
    /\ fmt.channels < source[pending.link].channels

(* A new link whose channels do not fit.                                   *)
Misfit ==
    /\ pending.link # link /\ ~fmt.stereo
    /\ fmt.channels # source[pending.link].channels

OutOnEntry == IF pending.link # link THEN 0 ELSE out

Enter ==
    /\ pc = "enter"
    /\ link' = pending.link /\ out' = OutOnEntry
    /\ IF Misfit
       THEN Over /\ UNCHANGED <<read, resampler, left>>
       ELSE /\ pc' = "write" /\ left' = pending.n
            /\ read' = [read EXCEPT ![pending.link] = @ + pending.n]
            /\ resampler' = IF fmt.rate # FullRate /\ resampler = None
                            THEN NewResampler ELSE resampler
            /\ UNCHANGED <<zeros, after>>
    /\ UNCHANGED <<command, source, seekable, fmt, pending, file, failed>>

(* A resampler that could not be made is used all the same.                *)
EnterWithoutMemory ==
    /\ pc = "enter" /\ ~Misfit
    /\ fmt.rate # FullRate /\ resampler = None
    /\ pc' = "crashed"
    /\ UNCHANGED <<command, source, seekable, fmt, link, read, out, resampler,
                   pending, left, zeros, after, file, failed>>

-----------------------------------------------------------------------------
(* audio_write.                                                            *)

(* maxout: what the link read so far comes to at the output, in parts that *)
(* do not overflow, less what has been put out.                            *)
Owed(put) ==
    Max2(0, (read[link] \div FullRate) * fmt.rate
            + ((read[link] % FullRate) * fmt.rate) \div FullRate - put)

(* Fault: the resampler gets all the room there is in the buffer.          *)
RoomUnlimited == OutChunk

(* Room in the buffer for the output of the resampler.                     *)
Room == Min2(OutChunk, Owed(out))

(* Fault: one turn is thought to be enough.                                *)
NeverOn(n, put) == FALSE

(* Fault: the loop goes on while either is left.                           *)
EitherLeft(n, put) == n > 0 \/ Owed(put) > 0

GoesOn(n, put) == n > 0 /\ Owed(put) > 0

(* What the device or file took of n samples: fwrite may take fewer, the   *)
(* devices none, and say so by -1, which is added like a count.            *)
Taken(n) == IF Owed(out) = 0 THEN {0}
            ELSE IF command.file THEN 0..n ELSE {n, -1}

Put(n, ret, rest) ==
    /\ ret \in Taken(n)
    /\ failed' = (failed \/ (Owed(out) > 0 /\ ret # n))
    /\ out' = out + ret /\ left' = rest
    /\ file' = [file EXCEPT !.written[link] = @ + Max2(ret, 0),
                            !.size = @ + SampleSize * ret * fmt.channels]
    /\ pc' = IF GoesOn(rest, out + ret) THEN "write"
             ELSE IF after = "none" THEN "read" ELSE "drain"

(* One turn of its loop.  If the resampler stopped because its output is   *)
(* full, it has used the input up to where its next output begins, or up   *)
(* to the end of the piece of input that it was working on.                *)
WriteResampled ==
    LET made == Min2(Room, Max2(0, Ready(resampler.fed + left) - resampler.made))
        used == IF Room = 0 THEN {0}
                ELSE IF made < Room THEN {left}
                ELSE 0..Min2(left, Max2(0, Reach(resampler.made + made) - resampler.fed))
    IN  /\ pc = "write" /\ resampler # None
        /\ \E u \in used, ret \in -1..OutChunk :
              /\ Put(made, ret, left - u)
              /\ resampler' = [fed |-> resampler.fed + u, made |-> resampler.made + made]
        /\ UNCHANGED <<command, source, seekable, fmt, link, read, pending, zeros, after>>

WriteDirectly ==
    /\ pc = "write" /\ resampler = None
    /\ \E ret \in -1..MaxRead : Put(Min2(left, Owed(out)), ret, 0)
    /\ UNCHANGED <<command, source, seekable, fmt, link, read, resampler,
                   pending, zeros, after>>

(* Fault: pieces of one length.                                            *)
PieceWhole == DrainChunk

Piece == Min2(zeros, DrainChunk)

(* drain_resampler: half a filter of zeros, in pieces.                     *)
Drain ==
    /\ pc = "drain"
    /\ IF zeros > 0
       THEN /\ pc' = "write" /\ left' = Piece
            /\ zeros' = zeros - Piece
            /\ UNCHANGED <<resampler, after>>
       ELSE /\ pc' = after /\ after' = "none" /\ resampler' = None
            /\ UNCHANGED <<left, zeros>>
    /\ UNCHANGED <<command, source, seekable, fmt, link, read, out, pending, file, failed>>

(* Fault: the longer format chunk is forgotten.                            *)
SecondSeekShort(length) == (RiffField + 4) + 32

SecondSeek(length) == (RiffField + 4) + (16 + length)

(* The sizes in the header, if the file is not too large and can seek.     *)
Patch ==
    LET length == FormatLength(fmt.channels) IN
    /\ pc = "patch" /\ pc' = "end"
    /\ IF command.file /\ command.wav /\ file.size < MaxSize
       THEN \/ file' = [file EXCEPT
                 !.riff = file.size + 20 + length,
                 !.data = IF SecondSeek(length) = DataField(length) THEN file.size ELSE @]
            \/ UNCHANGED file
       ELSE UNCHANGED file
    /\ UNCHANGED <<command, source, seekable, fmt, link, read, out, resampler,
                   pending, left, zeros, after, failed>>

Stopped == pc \in {"end", "quit", "crashed"}

Next == \/ Open \/ OpenFails \/ ReadFrame \/ ReadEnds
        \/ Enter \/ EnterWithoutMemory
        \/ WriteResampled \/ WriteDirectly \/ Drain \/ Patch

(* One thread, a file that ends, and calls that return.                    *)
Spec == Init /\ [][Next]_vars /\ WF_vars(Next)

-----------------------------------------------------------------------------
(* Properties.                                                             *)

TypeOK ==
    /\ pc \in {"open", "read", "enter", "write", "drain", "patch", "end", "quit", "crashed"}
    /\ link \in {0} \cup Links /\ pending.link \in {0} \cup Links
    /\ left \in Nat /\ zeros \in Nat /\ after \in {"none", "enter", "patch"}
    /\ resampler = None \/ resampler \in [fed : Nat, made : Nat]
    /\ \A l \in Links : read[l] \in 0..MaxRead /\ file.written[l] \in Nat

(* What a link comes to at the rate of the output.                         *)
Exact(l) == (read[l] * fmt.rate) \div FullRate

Finished == (1..(link - 1)) \cup (IF pc = "end" THEN {link} \cap Links ELSE {})

(* "be sure we get an accurate number of output samples" (opusdec.c:1031): *)
(* a link that is over has come out at its exact length, whatever the      *)
(* lengths of the reads, the delay of the resampler and the chunks of its  *)
(* output, and also when other links came before it (unless a write        *)
(* failed).  Before that it is never longer.                               *)
ExactLength ==
    /\ ~failed => \A l \in Finished : file.written[l] = Exact(l)
    /\ ~failed /\ link # 0 => file.written[link] <= Exact(link)

(* The loop of audio_write is left for want of room while there is input, *)
(* which is then lost; but only at the beginning of a link, and less than  *)
(* comes to one sample of output.  Also when writes fail.                  *)
DropsLessThanOne ==
    pc = "read" /\ resampler # None =>
        (read[link] - resampler.fed) * fmt.rate < FullRate

(* Whatever is written has the channels that the header and the device     *)
(* were promised, and a chain that could be looked at in advance is never  *)
(* given up for its channels.                                              *)
OneFormat ==
    /\ \A l \in Links : file.written[l] > 0 =>
          IF fmt.stereo THEN fmt.channels = 2 ELSE fmt.channels = source[l].channels
    /\ command.file /\ command.wav /\ pc \notin {"open", "quit"} =>
          /\ file.header.channels = fmt.channels /\ file.header.rate = fmt.rate
    /\ pc = "enter" /\ Misfit => ~seekable

WrittenSamples == 
    LET sum[l \in {0} \cup Links] == IF l = 0 THEN 0 ELSE sum[l - 1] + file.written[l]
    IN  sum[Len(source)]

(* When the program is done the two sizes in the header are both as they   *)
(* were written first, or both true of the file, whichever of the two      *)
(* format chunks it has.                                                   *)
HeaderTrue ==
    LET size == SampleSize * fmt.channels * WrittenSamples
        length == file.header.length
    IN  pc = "end" /\ command.file /\ command.wav =>
        \/ file.riff = MaxSize /\ file.data = MaxSize
        \/ /\ file.data = size
           /\ file.riff = (DataField(length) + 4 + size) - (RiffField + 4)

(* The program comes to an end, also when writes fail.                     *)
Ends == <>Stopped
=============================================================================
