------------------------------ MODULE OpusInfo ------------------------------
(***************************************************************************)
(* opusinfo (opusinfo.c, info_opus.c): reads Ogg files page by page, says  *)
(* of every Opus stream how long it is, and leaves with status 1 if it had *)
(* to warn of anything in any file.                                        *)
(*                                                                         *)
(* A page is [serial, bos, eos, no, granule, cont, packets]: its flags,    *)
(* its number, whether its first packet began on the page before, and the  *)
(* packets that end on it.  A packet is [kind, n]: "head" or "tags" with   *)
(* what is in them (see OpusHeaders), "audio" with its duration, "bad"     *)
(* (anything else).  libogg is external: after a gap in the numbers it     *)
(* says so once and drops what began before the gap.  No packet lies on    *)
(* more than two pages.  A place where libogg finds no page is HOLE.       *)
(***************************************************************************)
EXTENDS OpusHeaders, FiniteSetsExt

CONSTANTS HOLE, MISSING,
          Arguments,   \* sequences of files as they were written, [pages, lengths],
                       \* with the true lengths of their Opus streams; or MISSING
          MaxDamage    \* how often a file is damaged

(* The pages of one stream.                                                *)
PagesOf(serial, pages) ==
    LET of[i \in 0..Len(pages)] ==
            IF i = 0 THEN <<>>
            ELSE IF pages[i].serial = serial THEN Append(of[i - 1], pages[i]) ELSE of[i - 1]
    IN  of[Len(pages)]

(* As libogg writes them: the pages of a stream are numbered, only the     *)
(* first one begins it and only the last one ends it.                      *)
Written(pages) ==
    /\ pages \in Seq(ToSet(pages)) /\ HOLE \notin ToSet(pages)
    /\ \A page \in ToSet(pages) :
          LET ps == PagesOf(page.serial, pages) IN
          \A i \in 1..Len(ps) : /\ ps[i].no = i - 1
                                /\ ps[i].bos => i = 1
                                /\ ps[i].eos => i = Len(ps)

ASSUME OpusInfoAssumption ==
    /\ HOLE # MISSING /\ MaxDamage \in Nat
    /\ \A argument \in Arguments :
          /\ argument \in Seq(ToSet(argument))
          /\ \A file \in ToSet(argument) \ {MISSING} : Written(file.pages)

VARIABLES files,      \* the files to come, and this one first
          left,       \* the pages of this file that were not read
          damage,     \* how often it was damaged
          read,       \* history: the pages that were read
          streams,    \* stream_set
          inHeaders,  \* in_headers
          flawed, ret,
          reports,    \* history: <<serial, length>>, -1 for an empty stream
          stage       \* "next", "read", "closed"
infoVars == <<files, left, damage, read, streams, inHeaders, flawed, ret, reports, stage>>

InfoInit ==
    /\ files \in Arguments /\ left = <<>> /\ damage = 0 /\ read = <<>>
    /\ streams = <<>> /\ inHeaders = FALSE
    /\ flawed = FALSE /\ ret = FALSE /\ reports = <<>> /\ stage = "next"

-----------------------------------------------------------------------------
(* An Opus stream.  Every operator on a stream sets bad where the code     *)
(* warns; ends are the reports it adds.                                    *)

(* info_opus_start.                                                        *)
NewInfo == [done |-> 0, preskip |-> 0, packets |-> 0, total |-> 0, first |-> -1,
            last |-> 0, lastLast |-> 0, lastPacket |-> 0, lastPage |-> 0,
            longest |-> 0, eos |-> FALSE]

Warn(s, condition) == [s EXCEPT !.bad = @ \/ condition]

(* The header packets that are taken, two in all; others are passed over.  *)
TakeHead(s, p) ==
    IF p.kind = "head" /\ s.inf.done = 0 /\ HeadParsed(p.n)
    THEN [Warn(s, p.n.preskip < 120) EXCEPT !.inf.done = 1, !.inf.preskip = p.n.preskip]
    ELSE IF p.kind = "tags" /\ s.inf.done = 1 /\ ~TagsRefused(p.n)
    THEN [Warn(s, ~TagsPass(p.n)) EXCEPT !.inf.done = 2]
    ELSE Warn(s, TRUE)

(* A packet of info_opus_process.  s.samples adds up this page.            *)
TakePacket(s, p) ==
    IF s.inf.done < 2 THEN TakeHead(s, p)
    ELSE IF p.kind # "audio" THEN Warn(s, TRUE)
    ELSE [s EXCEPT !.samples = @ + p.n, !.inf.total = @ + p.n,
                   !.inf.packets = @ + 1, !.inf.lastPacket = p.n]

(* Fault: the first page is counted from 0, also where a stream was        *)
(* joined late.                                                            *)
FirstIsZero(s, page) == 0

(* The position at which the first timed page begins; less than 0 only if  *)
(* it is trimmed as the last one.                                          *)
FirstOf(s, page) ==
    LET start == page.granule - s.inf.total IN
    IF start < 0 /\ page.eos THEN 0 ELSE start

(* The checks of info_opus_process on the position of a page.              *)
TakeGranule(s, page, packets) ==
    LET g == page.granule
        first == IF s.inf.last = 0 /\ s.inf.first = -1 THEN FirstOf(s, page) ELSE s.inf.first
    IN  IF g <= 0 THEN Warn(s, packets # <<>>)
        ELSE [Warn(s, \/ g < s.inf.last
                      \/ first < 0
                      \/ s.inf.total < g - first
                      \/ ~page.eos /\ s.inf.total > g - first
                      \/ packets = <<>>)
              EXCEPT !.inf.first = first, !.inf.lastLast = s.inf.last, !.inf.last = g]

(* info_opus_process.  A page counts as a header page if it begins as one. *)
ProcessOpus(s, page, packets, gap) ==
    LET header == s.inf.done < 2
        in == [Warn(s, gap) EXCEPT !.samples = 0, !.inf.eos = page.eos]
        t == FoldLeft(TakePacket, in, packets)
        u == TakeGranule(t, page, packets)
    IN  IF header THEN t
        ELSE [u EXCEPT !.inf.lastPage = IF t.samples > 0 THEN t.samples ELSE @,
                       !.inf.longest = IF t.samples > @ THEN t.samples ELSE @]

LengthOf(inf) == inf.last - inf.first - inf.preskip

(* info_opus_end.                                                          *)
EndOpus(s) ==
    LET inf == s.inf IN
    IF inf.packets = 0 THEN [Warn(s, TRUE) EXCEPT !.ends = <<<<s.serial, -1>>>>]
    ELSE [Warn(s, \/ inf.last - inf.first < inf.preskip
                  \/ inf.total - inf.lastPage > inf.last - inf.first
                  \/ inf.eos /\ inf.lastPage - inf.lastPacket > inf.last - inf.lastLast
                  \/ inf.longest >= 240000)
          EXCEPT !.ends = <<<<s.serial, Max({LengthOf(inf), 0})>>>>]

End(s) == IF s.type = "opus" THEN EndOpus(s) ELSE s

-----------------------------------------------------------------------------
(* The set of streams.                                                     *)

(* streams_open: a stream begins while others are open and past their      *)
(* headers.                                                                *)
Misplaced == ~inHeaders /\ \E i \in 1..Len(streams) : ~streams[i].end

(* libogg: the packets of a page when the one before it was not read.      *)
OwnPackets(page) == IF page.cont THEN Tail(page.packets) ELSE page.packets

(* find_stream_processor, for a stream that is not known yet.              *)
NewStream(page) ==
    LET packets == OwnPackets(page) IN
    [serial |-> page.serial, isnew |-> TRUE, start |-> page.bos, end |-> page.eos,
     illegal |-> Misplaced, shown |-> FALSE, seqno |-> page.no, lostseq |-> FALSE,
     type |-> IF packets = <<>> THEN "invalid"
              ELSE IF packets[1].kind = "head" THEN "opus" ELSE "other",
     expected |-> -1, inf |-> NewInfo, samples |-> 0, ends |-> <<>>,
     bad |-> Len(packets) # 1]

(* And for one that is: after its end it is left as it was.                *)
KnownStream(s, page) ==
    IF s.end THEN [s EXCEPT !.illegal = TRUE]
    ELSE [s EXCEPT !.isnew = FALSE, !.start = page.bos, !.end = page.eos]

(* Fault: the numbers of the pages are not compared.                       *)
FollowsAlways(s, page) == TRUE

Follows(s, page) == s.seqno = page.no

(* The numbers of the pages.  After a gap the next one is expected to have *)
(* the same number again, so that no later gap is warned of here.          *)
TakeNumber(s, page) ==
    LET gap == ~Follows(s, page) IN
    [Warn(s, gap /\ ~s.lostseq) EXCEPT !.lostseq = gap,
                                       !.seqno = IF gap THEN page.no ELSE @ + 1]

(* process_page, through libogg; a stream of another type is only read.    *)
ProcessPage(s, page) ==
    LET lost == s.expected # page.no
        packets == IF lost THEN OwnPackets(page) ELSE page.packets
        in == [s EXCEPT !.expected = page.no + 1]
        out == ProcessOpus(in, page, packets, lost /\ s.expected # -1)
    IN  IF s.type = "opus"
        THEN [Warn(in, out.bad) EXCEPT !.inf = out.inf, !.samples = out.samples]
        ELSE in

(* The loop of process_file: an illegal page is warned of once in a stream *)
(* and passed over then.                                                   *)
TakePage(s, page) ==
    LET told == [Warn(s, s.illegal /\ ~s.shown) EXCEPT !.shown = @ \/ s.illegal]
        counted == TakeNumber(Warn(told, s.isnew # s.start), page)
        processed == ProcessPage(counted, page)
    IN  IF s.illegal /\ ~s.shown /\ ~s.isnew THEN told
        ELSE IF s.illegal THEN counted
        ELSE IF s.end THEN [End(processed) EXCEPT !.illegal = TRUE]
        ELSE processed

-----------------------------------------------------------------------------
(* The program.                                                            *)

(* main: the next file.                                                    *)
OpenFile ==
    /\ stage # "read"
    /\ files' = (IF stage = "closed" THEN Tail(files) ELSE files) /\ files' # <<>>
    /\ read' = <<>> /\ streams' = <<>> /\ inHeaders' = FALSE /\ reports' = <<>>
    /\ damage' = 0
    /\ IF Head(files') = MISSING
       THEN ret' = TRUE /\ flawed' = TRUE /\ stage' = "closed" /\ UNCHANGED left
       ELSE flawed' = FALSE /\ left' = Head(files').pages /\ stage' = "read" /\ UNCHANGED ret

(* Before it is read the file loses a page, repeats one, exchanges two     *)
(* neighbours, or has one that cannot be read.                             *)
Damage ==
    /\ stage = "read" /\ read = <<>> /\ streams = <<>> /\ damage < MaxDamage
    /\ damage' = damage + 1
    /\ \E i \in 1..Len(left) :
          left' \in {RemoveAt(left, i), InsertAt(left, i, left[i]),
                    [left EXCEPT ![i] = HOLE],
                    InsertAt(RemoveAt(left, i), Min({i + 1, Len(left)}), left[i])}
    /\ UNCHANGED <<files, read, streams, inHeaders, flawed, ret, reports, stage>>

SkipHole ==
    /\ stage = "read" /\ left # <<>> /\ Head(left) = HOLE
    /\ left' = Tail(left) /\ flawed' = TRUE
    /\ UNCHANGED <<files, damage, read, streams, inHeaders, ret, reports, stage>>

ReadPage ==
    /\ stage = "read" /\ left # <<>> /\ Head(left) # HOLE
    /\ left' = Tail(left) /\ read' = Append(read, Head(left))
    /\ LET page == Head(left)
           known == {i \in 1..Len(streams) : streams[i].serial = page.serial}
           at == IF known = {} THEN Len(streams) + 1 ELSE Min(known)
           found == IF known = {} THEN NewStream(page)
                    ELSE KnownStream([streams[at] EXCEPT !.ends = <<>>], page)
           s == TakePage(found, page)
       IN  /\ inHeaders' = (known = {})
           /\ streams' = IF known = {} THEN Append(streams, s) ELSE [streams EXCEPT ![at] = s]
           /\ flawed' = (flawed \/ s.bad)
           /\ reports' = reports \o s.ends
    /\ UNCHANGED <<files, damage, ret, stage>>

(* free_stream_set: streams that have not ended end now.                   *)
CloseFile ==
    /\ stage = "read" /\ left = <<>>
    /\ LET open == SelectSeq(streams, LAMBDA s : ~s.end)
           End1(s) == End([s EXCEPT !.ends = <<>>])
       IN  /\ reports' = reports \o FlattenSeq([i \in 1..Len(open) |-> End1(open[i]).ends])
           /\ flawed' = (flawed \/ streams = <<>> \/ \E i \in 1..Len(streams) : ~streams[i].end)
    /\ ret' = (ret \/ flawed') /\ stage' = "closed"
    /\ UNCHANGED <<files, left, damage, read, streams, inHeaders>>

InfoNext == OpenFile \/ Damage \/ SkipHole \/ ReadPage \/ CloseFile
InfoSpec == InfoInit /\ [][InfoNext]_infoVars

-----------------------------------------------------------------------------
(* Properties.                                                             *)

InfoTypeOK ==
    /\ stage \in {"next", "read", "closed"} /\ {inHeaders, flawed, ret} \subseteq BOOLEAN
    /\ damage \in 0..MaxDamage
    /\ \A i, j \in 1..Len(streams) : streams[i].serial = streams[j].serial => i = j

(* The characters of Unicode, and the bytes that stand for one.            *)
Scalar(v) == v \in 0..1114111 /\ v \notin 55296..57343
Bytes(v) ==
    IF v < 128 THEN <<v>>
    ELSE IF v < 2048 THEN <<192 + v \div 64, 128 + (v % 64)>>
    ELSE IF v < 65536 THEN <<224 + v \div 4096, 128 + ((v \div 64) % 64), 128 + (v % 64)>>
    ELSE <<240 + v \div 262144, 128 + ((v \div 4096) % 64), 128 + ((v \div 64) % 64), 128 + (v % 64)>>
ValueOf(a) ==
    FoldLeft(LAMBDA v, byte : 64 * v + (byte % 64), a[1] % <<128, 32, 16, 8>>[Len(a)], Tail(a))
Characters(text, i) ==
    LET From[j \in 1..(Len(text) + 1)] ==
            j > Len(text) \/ \E n \in 1..Min({4, Len(text) + 1 - j}) :
                LET a == SubSeq(text, j, j + n - 1) IN
                Scalar(ValueOf(a)) /\ Bytes(ValueOf(a)) = a /\ From[j + n]
    IN  From[i]

(* NAME=value, with printable characters of ASCII and with any of Unicode. *)
Text(c) == \E i \in 1..Len(c) : /\ c[i] = 61 /\ \A j \in 1..(i - 1) : c[j] \in (32..125) \ {61}
                                 /\ Characters(c, i + 1)

(* Headers as they should be: every channel plays one of the decoded ones  *)
(* or is silent, and the sizes are those of what is there.                 *)
Sized(h) == h.bytes = (IF h.family = 0 THEN 19 ELSE 21 +
                       h.channels * (IF h.family = 3 THEN 2 * (h.streams + h.coupled) ELSE 1))
Proper(h) ==
    /\ h.version < 16 /\ (h.version < 2 => Sized(h)) /\ h.preskip >= 120
    /\ IF h.family = 0 THEN h.channels \in {1, 2}
       ELSE /\ h.channels > 0 /\ h.streams > 0 /\ h.coupled <= h.streams
            /\ h.streams + h.coupled < 256
            /\ h.family # 3 => ToSet(h.map) \subseteq 0..(h.streams + h.coupled - 1) \cup {255}

Filed(t) ==
    /\ t.vendor >= 0 /\ t.count \in 0..Len(t.comments)
    /\ LET cs == SubSeq(t.comments, 1, t.count) IN
       /\ \A c \in ToSet(cs) : Len(c.text) = c.length /\ Text(c.text)
       /\ t.bytes >= FoldLeft(LAMBDA n, c : n + 4 + c.length, 16 + t.vendor, cs)

(* Except that a channel may play one past the last (opus_header.c:178).   *)
PastTheLast(h) == h.family \notin {0, 3} /\ h.streams + h.coupled \in ToSet(h.map)

(* A file as an encoder or a live stream's recorder writes it, however the *)
(* packets are laid out on pages and the streams on the file, is told no   *)
(* warning of exactly if its headers are proper and its comments text; and *)
(* of every Opus stream, once, the length that can be played is told.      *)
SoundIsReported ==
    stage = "closed" /\ Head(files) # MISSING /\ damage = 0 =>
        LET pages == Head(files).pages
            packets == FlattenSeq([i \in 1..Len(pages) |-> pages[i].packets])
            Of(kind) == {p.n : p \in ToSet(SelectSeq(packets, LAMBDA q : q.kind = kind))}
            heads == Of("head")
            tags == Of("tags")
        IN  /\ \A h \in heads : ~PastTheLast(h) =>
                  (flawed <=> \E g \in heads : ~Proper(g) \/ \E t \in tags : ~Filed(t))
            /\ (\A h \in heads : Proper(h)) /\ (\A t \in tags : ~TagsRefused(t)) =>
                  /\ ToSet(reports) = Head(files).lengths
                  /\ Len(reports) = Cardinality(Head(files).lengths)

(* Whatever happened to the pages of a stream, if one of them is left then *)
(* the damage is warned of, and a later file does not hide it from the     *)
(* status.                                                                 *)
DamageIsSeen ==
    stage = "closed" =>
        /\ flawed => ret
        /\ Head(files) # MISSING =>
              LET pages == Head(files).pages IN
              \A i \in 1..Len(read) :
                  LET serial == read[i].serial IN
                  PagesOf(serial, read) # PagesOf(serial, pages) => flawed
=============================================================================
