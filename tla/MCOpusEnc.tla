----------------------------- MODULE MCOpusEnc ------------------------------
EXTENDS OpusEnc

(* Files.                                                                  *)
Other(n) == [id |-> "LIST", len |-> n, body |-> n]
Fmt(format, sub, len, ch, bits) ==
    [id |-> "fmt", len |-> len, body |-> len, format |-> format, sub |-> sub,
     channels |-> ch, bits |-> bits]
Data(len, body) == [id |-> "data", len |-> len, body |-> body]
Comm(len, ch, frames, bits, aifc, compression) ==
    [id |-> "COMM", len |-> len, body |-> len, channels |-> ch, frames |-> frames,
     bits |-> bits, aifc |-> aifc, compression |-> compression, format |-> 0]
Ssnd(len, offset, blocksize) ==
    [id |-> "SSND", len |-> len, body |-> len, offset |-> offset, blocksize |-> blocksize]

Chunked(kind, chunks, cut) ==
    [kind |-> kind, chunks |-> chunks,
     size |-> 12 - cut + FoldSeq(LAMBDA c, n : 8 + Padded(c.body) + n, 0, chunks)]
Flac(kind, ch, max, frames, size) ==
    [kind |-> kind, channels |-> ch, max |-> max, metadata |-> 40, frames |-> frames,
     size |-> size]
Frame(end, size, ch) == [end |-> end, size |-> size, channels |-> ch, bits |-> 16]

SomeFiles ==
    {Chunked("wav", <<Other(3), Fmt(1, 0, 16, 1, 24), Data(15, 15), Other(6)>>, 0),
     Chunked("wav", <<Fmt(1, 0, 18, 1, 16), Data(0, 10)>>, 0),
     Chunked("wav", <<Fmt(1, 0, 16, 1, 16), Other(5), Data(4, 4), Other(4)>>, 0),
     Chunked("wav", <<Fmt(65534, 3, 40, 1, 32), Data(Far, 13)>>, 0),
     Chunked("wav", <<Fmt(1, 0, 17, 3, 8), Data(36, 17)>>, 1),
     Chunked("wav", <<Fmt(1, 0, 16, 9, 8), Data(45, 45)>>, 0),
     Chunked("wav", <<Data(6, 6), Fmt(1, 0, 16, 1, 16)>>, 0),
     Chunked("wav", <<Fmt(2, 0, 16, 1, 16), Data(12, 12)>>, 0),
     Chunked("wav", <<Fmt(1, 0, 16, 1, 16), Other(7)>>, 3),
     Chunked("aiff", <<Ssnd(21, 2, 0), Other(3), Comm(18, 1, 5, 16, FALSE, "")>>, 0),
     Chunked("aiff", <<Comm(22, 1, 6, 8, TRUE, "sowt"), Ssnd(14, 0, 0), Other(4)>>, 0),
     Chunked("aiff", <<Comm(22, 1, 0, 8, TRUE, "NONE"), Other(1), Ssnd(12, 0, 0)>>, 0),
     Chunked("aiff", <<Comm(22, 1, 6, 8, TRUE, "ulaw"), Ssnd(14, 0, 0)>>, 0),
     Chunked("aiff", <<Comm(18, 1, 6, 24, FALSE, ""), Ssnd(26, 0, 0)>>, 0),
     Chunked("aiff", <<Other(2), Comm(18, 1, 6, 8, FALSE, "")>>, 0),
     Flac("flac", 1, 3, <<Frame(50, 2, 1), Frame(60, 3, 1), Frame(70, 1, 1)>>, 70),
     Flac("oggflac", 3, 3, <<Frame(45, 3, 3), Frame(55, 1, 3), Frame(65, 3, 3)>>, 65),
     Flac("flac", 2, 2, <<Frame(50, 2, 2), Frame(60, 2, 1), Frame(70, 2, 2)>>, 70),
     Flac("flac", 2, 2, <<Frame(50, 1, 2), Frame(60, 2, 2), Frame(70, 3, 2)>>, 70),
     Flac("flac", 1, 3, <<Frame(50, 3, 1), Frame(75, 3, 1)>>, 70),
     Flac("flac", 1, 3, <<>>, 38),
     [kind |-> "raw", size |-> 7],
     [kind |-> "unknown", size |-> 20]}

(* Command lines.                                                          *)
Plain ==
    [raw |-> FALSE, channels |-> 2, bits |-> 16, big |-> FALSE, ignorelength |-> FALSE,
     downmix |-> 0, bitrate |-> -1, frame |-> 2, targets |-> {}, ranges |-> TRUE]

CommandLines ==
    {Plain,
     [Plain EXCEPT !.frame = 3, !.ranges = FALSE, !.downmix = 1],
     [Plain EXCEPT !.ignorelength = TRUE, !.targets = {0}, !.downmix = 2],
     [Plain EXCEPT !.bitrate = 40000, !.ranges = FALSE],
     [Plain EXCEPT !.downmix = -1, !.bitrate = 30000, !.targets = {1}],
     [Plain EXCEPT !.raw = TRUE, !.channels = 1],
     [Plain EXCEPT !.raw = TRUE, !.channels = 3, !.bits = 8, !.bitrate = 400],
     [Plain EXCEPT !.raw = TRUE, !.channels = 1, !.bits = 24, !.big = TRUE]}

(* Packets.                                                                *)
Stream(code, size, vbr, pad) ==
    [config |-> 16, code |-> code, size |-> size, vbr |-> vbr, pad |-> pad]
A == Stream(0, <<3>>, FALSE, -1)
B == Stream(1, <<2, 2>>, FALSE, -1)
C == Stream(2, <<254, 1>>, FALSE, -1)
D == Stream(3, <<1, 0, 252>>, TRUE, 3)
E == Stream(3, <<2, 2, 2>>, FALSE, 255)
F == Stream(3, <<4>>, TRUE, -1)

SomePackets ==
    {<<>>, <<A>>, <<C>>, <<E>>, <<D>>} \cup {<<B, C>>, <<C, D>>, <<D, E>>, <<E, A>>, <<F, B>>}
=============================================================================
