------------------------------ MODULE MCOpusInfo -----------------------------
EXTENDS OpusInfo
Packet(k, n) == [kind |-> k, n |-> n]
Page(serial, no, granule, ps) ==
    [serial |-> serial, bos |-> no = 0, eos |-> FALSE, no |-> no, granule |-> granule,
     cont |-> FALSE, packets |-> ps]
Ended(pages) == [pages EXCEPT ![Len(pages)].eos = TRUE]
Audio(n) == Packet("audio", n)
Mono == [bytes |-> 19, version |-> 1, channels |-> 1, preskip |-> 312, family |-> 0,
         streams |-> 0, coupled |-> 0, map |-> <<>>]
Surround == [Mono EXCEPT !.bytes = 27, !.channels = 6, !.family = 1, !.streams = 4, !.coupled = 2,
                         !.map = <<0, 4, 1, 2, 3, 5>>]
Ambient == [Mono EXCEPT !.bytes = 27, !.channels = 1, !.family = 3, !.streams = 2, !.coupled = 1]
Heads == {Mono, [Mono EXCEPT !.channels = 2], [Mono EXCEPT !.channels = 3], [Mono EXCEPT !.channels = 0],
          [Mono EXCEPT !.preskip = 100], [Mono EXCEPT !.version = 16], [Mono EXCEPT !.bytes = 20],
          [Mono EXCEPT !.bytes = 20, !.version = 2], [Mono EXCEPT !.bytes = 20, !.family = 1],
          Surround, [Surround EXCEPT !.bytes = 26, !.map = <<0, 4, 1, 2, 3>>],
          [Surround EXCEPT !.streams = 0, !.coupled = 0], [Surround EXCEPT !.coupled = 5],
          [Surround EXCEPT !.streams = 200, !.coupled = 56], [Surround EXCEPT !.map[6] = 255],
          [Surround EXCEPT !.map[6] = 6], [Surround EXCEPT !.map[6] = 7],
          Ambient, [Ambient EXCEPT !.bytes = 26], [Ambient EXCEPT !.bytes = 28]}
Comment(text) == [length |-> Len(text), text |-> text]
Tags(texts) == [bytes |-> FoldLeft(LAMBDA n, t : n + 4 + Len(t), 20, texts), vendor |-> 4,
                count |-> Len(texts), comments |-> [i \in 1..Len(texts) |-> Comment(texts[i])]]
Title == <<84, 61, 195, 164>>    \* T=a with two dots
(* Bytes on either side of every limit, in first and second place.         *)
Texts == {<<84, 61, a, b>> \o c :
            a \in {127, 128, 191, 192, 193, 194, 223, 224, 225, 236, 237, 238, 239, 240, 241, 243,
                  244, 245, 248, 252, 254}, b \in {65, 127, 128, 143, 144, 159, 160, 191, 192},
            c \in {<<>>, <<128>>, <<191, 128>>, <<192>>, <<128, 192>>}}
         \cup {<<>>, <<84>>, <<61>>, <<126, 61>>, <<31, 61>>, <<0, 61>>, <<84, 61, 0, 61>>}
Torn == {[Tags(<<Title, Title>>) EXCEPT !.bytes = b, !.vendor = v, !.count = c] :
            b \in {12, 16, 20, 27, 28, 31, 32, 36, 37}, v \in {-1, 4, 5}, c \in {-1, 0, 1, 2}}
Headers(serial, tags) ==
    <<Page(serial, 0, 0, <<Packet("head", Mono)>>), Page(serial, 1, 0, <<Packet("tags", tags)>>)>>
(* Trimmed at the end, by 300.                                             *)
Plain(serial) == Ended(Headers(serial, Tags(<<Title>>)) \o
    <<Page(serial, 2, 1920, <<Audio(960), Audio(960)>>), Page(serial, 3, 2580, <<Audio(960)>>)>>)
(* One page of audio, trimmed by 500.                                      *)
Short(serial) == Ended(Headers(serial, Tags(<<Title>>)) \o <<Page(serial, 2, 460, <<Audio(960)>>)>>)
(* Joined at 5000, with a packet over three pages, and an empty last page. *)
Joined(serial) == Ended(Headers(serial, Tags(<<Title>>)) \o
    <<Page(serial, 2, 6920, <<Audio(960), Audio(960)>>), Page(serial, 3, -1, <<>>),
      [Page(serial, 4, 8360, <<Audio(960), Audio(480)>>) EXCEPT !.cont = TRUE],
      Page(serial, 5, -1, <<>>)>>)
Other(serial) == Ended(<<Page(serial, 0, 0, <<Packet("bad", 0)>>), Page(serial, 1, 0, <<Packet("bad", 0)>>),
                         Page(serial, 2, 77, <<Packet("bad", 0)>>)>>)
File(pages, lengths) == [pages |-> pages, lengths |-> lengths]
Between(a, b) == FlattenSeq([i \in 1..Max({Len(a), Len(b)}) |->
                 SubSeq(a, i, Min({i, Len(a)})) \o SubSeq(b, i, Min({i, Len(b)}))])
P == File(Plain(1), {<<1, 2268>>})
J == File(Joined(1), {<<1, 3048>>})
Muxed == File(Between(Plain(1), Other(2)), {<<1, 2268>>})
Twice == File(Between(Joined(1), Short(2)), {<<1, 3048>>, <<2, 148>>})
Chain == File(Short(1) \o Plain(2), {<<1, 148>>, <<2, 2268>>})
Headed(h, tags) == File(Ended(<<Page(1, 0, 0, <<Packet("head", h)>>),
                                Page(1, 1, 0, <<Packet("tags", tags)>>),
                                Page(1, 2, 960, <<Audio(960)>>)>>), {<<1, 960 - h.preskip>>})
Arguments1 == {<<Headed(h, Tags(<<Title>>))>> : h \in Heads}
    \cup {<<Headed(Mono, Tags(<<t>>))>> : t \in Texts} \cup {<<Headed(Mono, t)>> : t \in Torn}
MCArguments == Arguments1 \cup {<<P, MISSING>>, <<J>>, <<Muxed>>, <<Twice>>, <<Chain>>, <<MISSING, P>>}
=============================================================================
