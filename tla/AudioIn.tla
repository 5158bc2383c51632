------------------------------ MODULE AudioIn -------------------------------
(***************************************************************************)
(* The readers of opusenc (audio-in.c and flac.c): a WAV, AIFF, FLAC or    *)
(* raw file is recognised, its headers are read up to the samples, and     *)
(* then each call of the reader returns the next samples, fewer than asked *)
(* for only at the end.                                                    *)
(*                                                                         *)
(* A file is known by its chunks (WAV, AIFF) or frames (FLAC), each at its *)
(* place in bytes.  A sample of a WAV, AIFF or raw file is named by the    *)
(* place of its first byte, one of a FLAC file by its number: what happens *)
(* to its value is not modelled.  libFLAC is external: it asks for bytes   *)
(* and hands over frames that it has the bytes of.  What the file says of  *)
(* its rate, the tags and the pictures are left out.                       *)
(***************************************************************************)
EXTENDS Integers, SequencesExt

CONSTANTS Files,       \* the files the program may be run on
          Commands,    \* the command lines
          Requests,    \* numbers of bytes that libFLAC asks for
          Plausible    \* least number of samples a WAV header is believed

ASSUME AudioInAssumption ==
    /\ Requests # {} /\ Requests \subseteq Nat
    /\ \A r \in Requests : r >= 33    \* or the bytes of IdBytes are doubled
    /\ Plausible \in Nat \ {0}

(* The options of a raw file are checked where they are parsed, and so is  *)
(* the size of a frame.                                                    *)
ASSUME CommandsAssumption ==
    \A c \in Commands :
        /\ c.raw \in BOOLEAN /\ c.frame \in Nat \ {0} /\ c.downmix \in Int
        /\ c.raw => c.channels \in 1..255 /\ c.bits \in {8, 16, 24}

(* The fields of a file are those of its kind.  A file has one chunk of    *)
(* its format and one of its samples, where it has them; what their        *)
(* lengths and the others' say may be wrong.                               *)
ASSUME FilesAssumption ==
    \A f \in Files :
        /\ f.size \in Nat
        /\ f.kind \in {"wav", "aiff"} =>
              /\ Len(f.chunks) \in Nat
              /\ \A i \in 1..Len(f.chunks) :
                    LET c == f.chunks[i] IN
                    /\ c.len \in Nat /\ c.body \in Nat
                    /\ c.id \in {"fmt", "COMM"} => c.channels \in Nat /\ c.bits \in Nat
                    /\ c.id = "COMM" => c.frames \in Nat
                    /\ c.id = "SSND" => c.offset \in Nat
                    /\ \A j \in 1..Len(f.chunks) :
                          f.chunks[j].id = c.id /\ c.id \in {"fmt", "COMM", "data", "SSND"} => i = j
        /\ f.kind \in {"flac", "oggflac"} =>
              /\ {f.channels, f.max, f.metadata, Len(f.frames)} \subseteq Nat
              /\ \A i \in 1..Len(f.frames) :
                    LET frame == f.frames[i] IN
                    {frame.end, frame.size} \subseteq Nat /\ frame.bits \in 1..32

VARIABLES command, file, seekable,   \* what the program is run on
          pc,          \* what it does next
          pos,         \* of the file
          want,        \* the chunk that is looked for
          restarted,   \* find_aiff_chunk has gone back to the beginning
          found,       \* len: the length that chunk says it has
          head,        \* what the format chunk said
          reader,      \* the data of the reader (wavfile, flacfile)
          stack,       \* readdata: the reader and the one on top of it
          channels,    \* inopt.channels: as the readers deliver them
          wanted,      \* samples this call has still to read
          input        \* the samples it has read

inVars == <<pos, want, restarted, found, head, reader>>
readVars == <<pos, reader, wanted, input>>

Least(a, b) == IF a < b THEN a ELSE b

None == "none"
Far == 2147418112    \* (1U<<31)-65536

-----------------------------------------------------------------------------
(* The file: chunks [id, len, body, ..], where body is the length that the *)
(* chunk has and len the one it says it has.                               *)

Padded(n) == n + (n % 2)

Start(i) ==
    LET start[j \in 1..Len(file.chunks)] ==
            IF j = 1 THEN 12 ELSE start[j - 1] + 8 + Padded(file.chunks[j - 1].body)
    IN  start[i]

HeaderAt(p) == {i \in 1..Len(file.chunks) : Start(i) = p}

(* Reading n bytes: fewer are an end of the file.                          *)
Has(n) == pos + n <= file.size

(* seek_forward: past the end goes well if the file can seek.              *)
CanSkip(p) == seekable \/ p <= file.size

(* Bytes of the head of the file that were read to identify it.            *)
IdBytes == IF file.kind = "oggflac" THEN 33 ELSE 12

-----------------------------------------------------------------------------
(* open_audio_file.                                                        *)

FormatChunk == IF file.kind = "wav" THEN "fmt" ELSE "COMM"
DataChunk == IF file.kind = "wav" THEN "data" ELSE "SSND"

(* The data of the reader of PCM samples.                                  *)
Pcm(ch, bits, total, big) ==
    [kind |-> "wav", bits |-> bits, bytes |-> ch * (bits \div 8),
     total |-> total, read |-> 0, big |-> big]

(* raw_open believes the command line.                                     *)
OpenRaw ==
    /\ pc = "identify" /\ command.raw
    /\ reader' = Pcm(command.channels, command.bits, 0, command.big)
    /\ stack' = <<"wav">> /\ channels' = command.channels /\ pc' = "decide"
    /\ UNCHANGED <<command, file, seekable, pos, want, restarted, found, head, wanted, input>>

(* A kind is known by its first bytes; they stay read.                     *)
Identify ==
    /\ pc = "identify" /\ ~command.raw
    /\ pos' = Least(IdBytes, file.size)
    /\ CASE file.kind \in {"wav", "aiff"} /\ file.size >= 12 ->
                pc' = "find" /\ want' = FormatChunk /\ UNCHANGED reader
         [] file.kind \in {"flac", "oggflac"} /\ file.size >= (IF file.kind = "flac" THEN 4 ELSE 33) ->
                /\ pc' = "metadata" /\ UNCHANGED want
                /\ reader' = [kind |-> "flac", buflen |-> pos', bufpos |-> 0, given |-> 0,
                              inOrder |-> TRUE, eof |-> FALSE, next |-> 1,
                              max |-> 0, block |-> <<>>, blockpos |-> 0]
         [] OTHER -> pc' = "refused" /\ UNCHANGED <<want, reader>>
    /\ UNCHANGED <<command, file, seekable, restarted, found, head, stack, channels, wanted, input>>

(* Fault: the byte that pads a chunk of odd length is forgotten.           *)
SkippedUnpadded(len) == len

(* What is skipped for a chunk of this length.                             *)
Skipped(len) == Padded(len)

(* Fault: that it has gone back is not remembered.                         *)
MayRestartAgain == file.kind = "aiff" /\ seekable

(* An AIFF file may have its chunks in another order: it is gone through   *)
(* once more from the beginning.                                           *)
MayRestart == file.kind = "aiff" /\ ~restarted /\ seekable

(* One turn of find_wav_chunk and find_aiff_chunk.                         *)
Find ==
    /\ pc = "find"
    /\ IF ~Has(8)
       THEN IF MayRestart
            THEN pos' = 12 /\ restarted' = TRUE /\ UNCHANGED <<found, pc>>
            ELSE pc' = "refused" /\ UNCHANGED <<pos, restarted, found>>
       ELSE \E i \in 1..Len(file.chunks) \cup {0} :
            /\ HeaderAt(pos) = {i} \/ (HeaderAt(pos) = {} /\ i = 0)
            /\ IF i > 0 /\ file.chunks[i].id = want
               THEN /\ pos' = pos + 8 /\ found' = i /\ restarted' = FALSE
                    /\ pc' = IF want = FormatChunk THEN "format" ELSE "data"
               ELSE LET after == IF i = 0 THEN Far
                                 ELSE pos + 8 + Skipped(file.chunks[i].len)
                    IN  /\ pos' = after
                        /\ pc' = IF CanSkip(after) THEN "find" ELSE "refused"
                        /\ UNCHANGED <<found, restarted>>
    /\ UNCHANGED <<command, file, seekable, want, head, reader, stack, channels, wanted, input>>

(* The format chunk.                                                       *)
FormatAccepted(c, length) ==
    IF file.kind = "wav"
    THEN /\ c.channels # 0
         /\ IF c.format = 65534 THEN length >= 40 /\ c.sub \in {1, 3} ELSE c.format \in {1, 3}
    ELSE /\ c.channels > 0
         /\ c.aifc => length >= 22 /\ c.compression \in {"NONE", "sowt"}

ReadFormat ==
    LET c == file.chunks[found]
        length == Least(c.len, IF file.kind = "wav" THEN 40 ELSE 22)
        after == pos + Skipped(c.len)
    IN  /\ pc = "format"
        /\ IF /\ c.len >= (IF file.kind = "wav" THEN 16 ELSE 18)
              /\ Has(length) /\ CanSkip(after) /\ FormatAccepted(c, length)
           THEN pos' = after /\ head' = c /\ want' = DataChunk /\ pc' = "find"
           ELSE pc' = "refused" /\ UNCHANGED <<pos, head, want>>
        /\ UNCHANGED <<command, file, seekable, restarted, found, reader, stack, channels, wanted, input>>

(* The sizes of samples that can be read.                                  *)
SizeAccepted(c) ==
    CASE file.kind = "aiff" -> c.bits \in {8, 16}
      [] file.kind = "wav" ->
            IF 3 \in {c.format} \cup (IF c.format = 65534 THEN {c.sub} ELSE {})
            THEN c.bits = 32 ELSE c.bits \in {8, 16, 24}

(* How many samples a WAV header promises, 0 if it is not believed: files  *)
(* that are still being written say 0, or as much as they can.             *)
Limit(len, bytes) ==
    IF len > bytes * Plausible /\ len < Far THEN len \div bytes ELSE 0

(* The data chunk, up to its first sample.                                 *)
ReadData ==
    LET c == file.chunks[found]
        bytes == head.channels * (head.bits \div 8)
        limit == IF file.kind = "aiff" THEN head.frames
                 ELSE IF command.ignorelength THEN 0 ELSE Limit(c.len, bytes)
    IN  /\ pc = "data"
        /\ IF file.kind = "wav"
           THEN pos' = pos
           ELSE pos' = IF CanSkip(pos + 8 + c.offset) THEN pos + 8 + c.offset ELSE file.size
        /\ IF SizeAccepted(head) /\ (file.kind = "aiff" => c.len >= 8 /\ Has(8) /\ c.blocksize = 0)
           THEN /\ reader' = Pcm(head.channels, head.bits, limit,
                                 file.kind = "aiff" /\ (head.aifc => head.compression = "NONE"))
                /\ stack' = <<"wav">> /\ channels' = head.channels /\ pc' = "decide"
           ELSE pc' = "refused" /\ UNCHANGED <<reader, stack, channels>>
        /\ UNCHANGED <<command, file, seekable, want, restarted, found, head, wanted, input>>

-----------------------------------------------------------------------------
(* Reading PCM: wav_read and wav_ieee_read are one call.                   *)

(* Fault: the length in the header is not looked at.                       *)
RoomBlind(n) == n

(* The samples that may still be read.                                     *)
Room(n) == IF reader.total > 0 /\ n > reader.total - reader.read
           THEN reader.total - reader.read ELSE n

(* 24 bits in big-endian order are read, and then given up.                *)
Unsupported == reader.bits = 24 /\ reader.big

ReadPcm ==
    LET there == IF pos < file.size THEN (file.size - pos) \div reader.bytes ELSE 0
        n == Least(Room(wanted), there)
    IN  /\ pc = "read" /\ reader.kind = "wav"
        /\ input' = IF Unsupported THEN <<>>
                    ELSE [i \in 1..n |-> pos + (i - 1) * reader.bytes]
        /\ reader' = [reader EXCEPT !.read = @ + n]
        /\ pos' = IF n < Room(wanted) THEN file.size ELSE pos + n * reader.bytes
        /\ wanted' = 0 /\ pc' = "encode"
        /\ UNCHANGED <<command, file, seekable, want, restarted, found, head, stack, channels>>

-----------------------------------------------------------------------------
(* FLAC.                                                                   *)

(* read_callback: the bytes that identified the file are passed on first.  *)
(* It copies from the beginning of them each time.                         *)
Callback ==
    \E r \in Requests :
        LET old == reader.bufpos < reader.buflen
            n == IF old THEN Least(r, reader.buflen - reader.bufpos)
                 ELSE Least(r, file.size - pos)
            first == IF old THEN 0 ELSE pos
        IN  /\ reader' = [reader EXCEPT !.bufpos = IF old THEN @ + n ELSE @,
                                        !.given = @ + n,
                                        !.inOrder = @ /\ first = reader.given,
                                        !.eof = n = 0]
            /\ pos' = IF old THEN pos ELSE pos + n

(* The block is used up, and libFLAC has the bytes of another frame.       *)
BlockWanted ==
    /\ pc = "read" /\ reader.kind = "flac" /\ wanted > 0
    /\ reader.blockpos = Len(reader.block)

FrameThere ==
    reader.next <= Len(file.frames) /\ reader.given >= file.frames[reader.next].end

(* libFLAC needs more bytes.                                               *)
FlacAsks ==
    /\ \/ pc = "metadata" /\ reader.given < file.metadata
       \/ BlockWanted /\ ~FrameThere
    /\ ~reader.eof /\ Callback
    /\ UNCHANGED <<command, file, seekable, pc, want, restarted, found, head,
                   stack, channels, wanted, input>>

(* flac_open: the metadata have come, or the file is over.                 *)
FlacOpened ==
    /\ pc = "metadata"
    /\ \/ /\ reader.given >= file.metadata /\ file.channels \in 1..8
          /\ reader' = [reader EXCEPT !.max = file.max]
          /\ stack' = <<"flac">> /\ channels' = file.channels /\ pc' = "decide"
       \/ /\ reader.eof \/ (reader.given >= file.metadata /\ file.channels \notin 1..8)
          /\ reader' = [kind |-> None] /\ pc' = "refused" /\ UNCHANGED <<stack, channels>>
    /\ UNCHANGED <<command, file, seekable, pos, want, restarted, found, head, wanted, input>>

(* The samples before a frame, and those of it, numbered through the file. *)
Before(k) ==
    LET before[i \in 0..Len(file.frames)] ==
            IF i = 0 THEN 0 ELSE before[i - 1] + file.frames[i].size
    IN  before[k - 1]

SamplesOf(k) == [i \in 1..file.frames[k].size |-> Before(k) + i]

(* write_callback: the channels and the block buffer stay as announced.    *)
FrameAccepted(frame) ==
    /\ frame.channels = file.channels /\ frame.size <= reader.max /\ frame.bits \in 1..32

(* The decoder makes another frame.                                        *)
FlacBlock ==
    /\ BlockWanted /\ FrameThere
    /\ IF FrameAccepted(file.frames[reader.next])
       THEN /\ reader' = [reader EXCEPT !.block = SamplesOf(reader.next),
                                        !.blockpos = 0, !.next = @ + 1]
            /\ UNCHANGED pc
       ELSE pc' = "encode" /\ UNCHANGED reader
    /\ UNCHANGED <<command, file, seekable, pos, want, restarted, found, head,
                   stack, channels, wanted, input>>

FlacEnds ==
    /\ BlockWanted /\ ~FrameThere /\ reader.eof
    /\ pc' = "encode"
    /\ UNCHANGED <<command, file, seekable, inVars, stack, channels, wanted, input>>

(* Fault: the position in the block is set, not advanced.                  *)
AfterCopySet(n) == n

AfterCopy(n) == reader.blockpos + n

(* The rest of the block, or as much of it as is wanted.                   *)
FlacCopies ==
    LET n == Least(wanted, Len(reader.block) - reader.blockpos) IN
    /\ pc = "read" /\ reader.kind = "flac"
    /\ IF wanted = 0
       THEN pc' = "encode" /\ UNCHANGED <<reader, wanted, input>>
       ELSE /\ reader.blockpos < Len(reader.block)
            /\ input' = input \o SubSeq(reader.block, reader.blockpos + 1, reader.blockpos + n)
            /\ reader' = [reader EXCEPT !.blockpos = AfterCopy(n)]
            /\ wanted' = wanted - n /\ UNCHANGED pc
    /\ UNCHANGED <<command, file, seekable, pos, want, restarted, found, head, stack, channels>>

-----------------------------------------------------------------------------
Opening == OpenRaw \/ Identify \/ Find \/ ReadFormat \/ ReadData
           \/ FlacAsks \/ FlacOpened

Reading == ReadPcm \/ FlacBlock \/ FlacEnds \/ FlacCopies
=============================================================================
