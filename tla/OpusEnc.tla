------------------------------ MODULE OpusEnc -------------------------------
(***************************************************************************)
(* opusenc (opusenc.c with the readers of AudioIn): the input is opened,   *)
(* perhaps mixed down, and read a frame at a time; libopusenc encodes it   *)
(* and calls back for every packet.                                        *)
(*                                                                         *)
(* libopusenc and the files it writes are external: a call goes well or    *)
(* not, and may be the occasion for a packet.  The options that only set   *)
(* something in the encoder are one list of settings.                      *)
(***************************************************************************)
EXTENDS AudioIn, OpusPacket

CONSTANTS Packets,      \* what the encoder may put out: sequences of streams
          MaxPackets    \* bound: packets that are followed

OpusHead == <<79, 112, 117, 115, 72, 101, 97, 100>>

ASSUME OpusEncAssumption ==
    /\ MaxPackets \in Nat
    /\ \A streams \in Packets : /\ streams \in Seq(ToSet(streams))
                                 /\ \A s \in ToSet(streams) : Allowed(s)

VARIABLES downmix,    \* what was mixed down to, or 0
          nbStreams,  \* data.nb_streams
          fed,        \* samples given to the encoder
          stats,      \* what was counted in packet_callback
          range,      \* the last packet, and its line in the range file
          freed       \* readers that were closed, with the function for it

encVars == <<downmix, nbStreams, fed, stats, range, freed>>
vars == <<command, file, seekable, pc, inVars, stack, channels, wanted, input, encVars>>

Init ==
    /\ command \in Commands /\ file \in Files /\ seekable \in BOOLEAN
    /\ command.raw => file.kind = "raw"
    /\ pc = "identify" /\ pos = 0 /\ want = None /\ restarted = FALSE
    /\ found = 0 /\ head = [format |-> 0] /\ reader = [kind |-> None]
    /\ stack = <<>> /\ channels = 0 /\ wanted = 0 /\ input = <<>>
    /\ downmix = 0 /\ nbStreams = 1 /\ fed = <<>>
    /\ stats = [packets |-> 0, samples |-> 0, bytes |-> 0, peak |-> 0,
                least |-> 256 * 1275 * 6, last |-> 0]
    /\ range = [packet |-> <<>>, streams |-> <<>>, line |-> <<>>] /\ freed = <<>>

-----------------------------------------------------------------------------
(* Too little for so many channels.                                        *)
Starved ==
    command.downmix = 0 /\ channels > 2
    /\ command.bitrate > 0 /\ command.bitrate < 16000 * channels

Target == IF Starved THEN IF channels > 8 THEN 1 ELSE 2 ELSE command.downmix

(* setup_downmix mixes more than eight channels to one only.               *)
Mixes == Target > 0 /\ Target < channels /\ (Target = 2 => channels <= 8)

(* The rate, the channels, and mixing down.                                *)
Decide ==
    /\ pc = "decide"
    /\ \/ /\ channels \in 1..255 /\ pc' = "configure"
          /\ downmix' = IF Mixes THEN Target ELSE 0
          /\ channels' = IF Mixes THEN Target ELSE channels
          /\ stack' = IF Mixes THEN <<"mix">> \o stack ELSE stack
       \/ pc' = "fatal" /\ UNCHANGED <<downmix, channels, stack>>
    /\ UNCHANGED <<command, file, seekable, inVars, wanted, input,
                   nbStreams, fed, stats, range, freed>>

(* Streams of a file with so many channels.                                *)
StreamsOf(n) == IF n <= 8 THEN <<1, 1, 2, 2, 3, 4, 4, 5>>[n] ELSE n

Sane(bitrate) ==
    bitrate < 0 \/ (bitrate >= 500 /\ bitrate <= 1024000 * channels)

(* The encoder is made and set up, the user's settings last; the output is *)
(* opened.  Whatever fails here ends the program.                          *)
Configure ==
    /\ pc = "configure"
    /\ \/ /\ Sane(command.bitrate)
          /\ \A t \in command.targets : t < StreamsOf(channels)
          /\ pc' = "read" /\ nbStreams' = StreamsOf(channels)
          /\ wanted' = command.frame
       \/ pc' = "fatal" /\ UNCHANGED <<nbStreams, wanted>>
    /\ UNCHANGED <<command, file, seekable, inVars, stack, channels, input,
                   downmix, fed, stats, range, freed>>

-----------------------------------------------------------------------------
(* opus_packet_get_nb_samples: a header of the stream has none.            *)
NbSamples(data) ==
    LET n == NbFrames(data) * SamplesPerFrame(data[1])
    IN  IF n > 0 /\ n <= 5760 THEN n ELSE 0

(* packet_callback: a packet of these streams, or a header.                *)
PacketOut(streams) ==
    LET data == IF streams = <<>> THEN OpusHead ELSE Multistream(streams)
        n == NbSamples(data)
        bytes == Len(data)
    IN  IF n = 0 THEN UNCHANGED <<stats, range>>
        ELSE /\ stats' = [packets |-> stats.packets + 1, samples |-> stats.samples + n,
                          bytes |-> stats.bytes + bytes, last |-> bytes,
                          peak |-> IF bytes > stats.peak THEN bytes ELSE stats.peak,
                          least |-> Least(bytes, stats.least)]
             /\ range' = IF command.ranges
                         THEN [packet |-> data, streams |-> streams,
                               line |-> SaveRange(data, nbStreams)]
                         ELSE range

(* A call of the encoder makes packets, or none.                           *)
Emits ==
    \/ UNCHANGED <<stats, range>>
    \/ /\ stats.packets < MaxPackets
       /\ \E streams \in Packets :
            Len(streams) \in {0, nbStreams} /\ PacketOut(streams)

(* The frame was the last.                                                 *)
IsLast == Len(input) < command.frame

Encode ==
    /\ pc = "encode"
    /\ \/ /\ fed' = fed \o input /\ input' = <<>>
          /\ IF IsLast THEN pc' = "drain" /\ UNCHANGED wanted
                       ELSE pc' = "read" /\ wanted' = command.frame
       \/ pc' = "fatal" /\ UNCHANGED <<fed, input, wanted>>
    /\ Emits
    /\ UNCHANGED <<command, file, seekable, inVars, stack, channels,
                   downmix, nbStreams, freed>>

Drain ==
    /\ pc = "drain" /\ pc' \in {"close", "fatal"}
    /\ Emits
    /\ UNCHANGED <<command, file, seekable, inVars, stack, channels, wanted, input,
                   downmix, nbStreams, fed, freed>>

(* Fault: the option decides whether there is something to clear.          *)
WasMixedAsked == command.downmix > 0

WasMixed == downmix > 0

(* What the data of the reader are taken to be.                            *)
Top(s) == IF s = <<>> THEN None ELSE Head(s)

(* clear_downmix, and the close function of the format.                    *)
Close ==
    LET below == IF WasMixed THEN SubSeq(stack, 2, Len(stack)) ELSE stack
        function == IF command.raw \/ file.kind \in {"wav", "aiff"} THEN "wav" ELSE "flac"
    IN  /\ pc = "close" /\ pc' = "done"
        /\ freed' = (IF WasMixed THEN <<[by |-> "mix", what |-> Top(stack)]>> ELSE <<>>)
                    \o <<[by |-> function, what |-> Top(below)]>>
        /\ stack' = SubSeq(below, 2, Len(below))
        /\ UNCHANGED <<command, file, seekable, inVars, channels, wanted, input,
                       downmix, nbStreams, fed, stats, range>>

Next ==
    \/ (Opening \/ Reading) /\ UNCHANGED encVars
    \/ Decide \/ Configure \/ Encode \/ Drain \/ Close

(* One thread, a file that ends, and calls that return.                    *)
Spec == Init /\ [][Next]_vars /\ WF_vars(Next)

Stopped == pc \in {"done", "fatal", "refused"}

-----------------------------------------------------------------------------
(* Properties.                                                             *)

TypeOK ==
    /\ pc \in {"identify", "find", "format", "data", "metadata", "decide", "configure",
               "read", "encode", "drain", "close", "done", "fatal", "refused"}
    /\ pos \in Nat /\ channels \in Nat /\ wanted \in 0..command.frame
    /\ Len(input) + wanted <= command.frame \/ command.frame = 0
    /\ reader.kind = "flac" =>
          /\ Len(reader.block) <= reader.max
          /\ reader.blockpos \in 0..Len(reader.block)
    /\ reader.kind = "wav" /\ reader.total > 0 => reader.read <= reader.total

(* What the file says are its samples.  A WAV file may say nothing that    *)
(* can be believed; then they are all that follows.                        *)
First(id) == CHOOSE i \in 1..Len(file.chunks) :
    file.chunks[i].id = id /\ \A j \in 1..(i - 1) : file.chunks[j].id # id

Promised ==
    LET c == file.chunks[First(DataChunk)]
        f == file.chunks[First(FormatChunk)]
        bytes == f.channels * (f.bits \div 8)
    IN  CASE command.raw -> {}
          [] ~command.raw /\ file.kind = "aiff" -> {f.frames} \ {0}
          [] ~command.raw /\ file.kind = "wav" ->
                IF command.ignorelength \/ c.len <= Plausible * bytes \/ c.len >= Far
                THEN {} ELSE {c.len \div bytes}

(* The bytes of a sample of all channels, and where the first one begins.  *)
SampleBytes ==
    LET f == file.chunks[First(FormatChunk)] IN
    IF command.raw THEN command.channels * (command.bits \div 8)
    ELSE f.channels * (f.bits \div 8)

FirstByte ==
    CASE command.raw -> 0
      [] ~command.raw /\ file.kind = "wav" -> Start(First("data")) + 8
      [] ~command.raw /\ file.kind = "aiff" ->
            Start(First("SSND")) + 16 + file.chunks[First("SSND")].offset

There == {n \in 0..file.size : n = 0 \/ FirstByte + n * SampleBytes <= file.size}

PcmSource ==
    IF command.raw /\ command.bits = 24 /\ command.big THEN <<>>
    ELSE [i \in 1..Min(Promised \cup {Max(There)}) |-> FirstByte + (i - 1) * SampleBytes]

(* The frames up to the first that is not as announced, or not complete.   *)
Good(k) ==
    /\ file.frames[k].channels = file.channels
    /\ file.frames[k].size <= file.max
    /\ file.frames[k].end <= file.size

FlacSource ==
    LET good == Max({k \in 0..Len(file.frames) : \A i \in 1..k : Good(i)})
    IN  [i \in 1..Before(good + 1) |-> i]

Source == IF command.raw \/ file.kind \in {"wav", "aiff"} THEN PcmSource ELSE FlacSource

(* "Short reads are not allowed" (flac.c:318): a short read ends the       *)
(* encoding.  So what the encoder has been fed is a beginning of the       *)
(* source, nothing lost or repeated where blocks of the file and frames of *)
(* the encoder meet, and no other chunk taken for samples; at the end it   *)
(* is all of it.  libFLAC is given the file from its first byte on.        *)
EncodesTheSource ==
    /\ fed # <<>> => IsPrefix(fed, Source)
    /\ pc \in {"drain", "close", "done"} => fed = Source
    /\ reader.kind = "flac" => reader.inOrder

(* A file that the readers can read, by its chunks and the order they are  *)
(* in, whatever other chunks it has.                                       *)
Honest(i) == file.chunks[i].len = file.chunks[i].body
Readable ==
    IF file.kind \in {"flac", "oggflac"}
    THEN file.metadata <= file.size /\ file.size >= 33 /\ file.channels \in 1..8
    ELSE /\ file.kind \in {"wav", "aiff"}
         /\ {FormatChunk, DataChunk} \subseteq {file.chunks[i].id : i \in 1..Len(file.chunks)}
         /\ LET f == First(FormatChunk)
                d == First(DataChunk)
                c == file.chunks[f]
            IN  /\ f < d \/ (file.kind = "aiff" /\ seekable)
                /\ \A i \in 1..Max({f, d}) : i # d => Honest(i)
                /\ f > d => Honest(d)
                /\ c.len >= 18 \/ (file.kind = "wav" /\ c.len >= 16)
                /\ FormatAccepted(c, c.len) /\ SizeAccepted(c)
                /\ Start(f) + 8 + Padded(c.len) <= file.size /\ Start(d) + 16 <= file.size
                /\ file.kind = "aiff" =>
                      file.chunks[d].len >= 8 /\ file.chunks[d].blocksize = 0

(* No file that could be read is refused.                                  *)
RefusesOnlyUnreadable == pc = "refused" => ~command.raw /\ ~Readable

(* At the end every reader has been closed, once, by its own function.     *)
ClosesAll ==
    pc = "done" =>
        /\ stack = <<>>
        /\ \A i \in 1..Len(freed) : freed[i].by = freed[i].what
        /\ Len(freed) = IF downmix > 0 THEN 2 ELSE 1

(* The line of the range file has the sizes of all frames of all streams,  *)
(* however the packet is laid out: each stream was found where it begins.  *)
RangesTrue ==
    range.packet # <<>> =>
        /\ range.line.line = [i \in 1..nbStreams |-> range.streams[i].size]
        /\ range.line.at = Len(range.packet)

(* The program comes to an end.                                            *)
Ends == <>Stopped
=============================================================================
