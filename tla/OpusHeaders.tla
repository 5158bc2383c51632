----------------------------- MODULE OpusHeaders -----------------------------
(***************************************************************************)
(* The two header packets of an Opus stream, as opusinfo reads them:       *)
(* opus_header_parse (opus_header.c), the comments in info_opus_process    *)
(* (info_opus.c) and check_xiph_comment (opusinfo.c).                      *)
(*                                                                         *)
(* A head is [bytes, version, channels, preskip, family, streams, coupled, *)
(* map]: the size of the packet, at least 19, and what its fields say; map *)
(* is what is there of the bytes that assign channels.  Tags are [bytes,   *)
(* vendor, count, comments]: the size of the packet, at least 8, the       *)
(* length it claims for the name of the vendor, the number of comments it  *)
(* claims, and of each comment [length, text], the length it claims and    *)
(* the bytes that are there.  Pictures in comments are left out.           *)
(***************************************************************************)
EXTENDS Integers, SequencesExt

(* Where a header that can be parsed ends, 0 if it cannot be.              *)
HeadEnd(h) ==
    IF h.family = 0 THEN IF h.channels <= 2 THEN 19 ELSE 0
    ELSE IF h.bytes < 21 \/ h.streams < 1 \/ h.coupled > h.streams
            \/ h.coupled + h.streams > 255 THEN 0
    ELSE IF h.family = 3 THEN LET matrix == 2 * h.channels * (h.streams + h.coupled) IN
                              IF matrix <= h.bytes - 21 THEN 21 + matrix ELSE 0
    ELSE IF 21 + h.channels <= h.bytes
            /\ \A i \in 1..h.channels : h.map[i] <= h.streams + h.coupled \/ h.map[i] = 255
         THEN 21 + h.channels ELSE 0

(* opus_header_parse: nothing may follow in versions 0 and 1.              *)
HeadParsed(h) ==
    /\ h.version < 16 /\ h.channels > 0 /\ HeadEnd(h) > 0
    /\ h.version \in {0, 1} => HeadEnd(h) = h.bytes

(* Whether the bytes that follow the first of a sequence are in order.     *)
Continues(byte) == byte \in 128..191
Follow(a) ==
    CASE Len(a) = 1 -> TRUE
      [] Len(a) = 2 -> Continues(a[2]) /\ a[1] \notin {192, 193}
      [] Len(a) = 3 -> /\ Continues(a[3])
                       /\ \/ a[1] = 224 /\ a[2] \in 160..191
                          \/ a[1] \in (225..236) \cup {238, 239} /\ Continues(a[2])
                          \/ a[1] = 237 /\ a[2] \in 128..159
      [] Len(a) = 4 -> /\ Continues(a[3]) /\ Continues(a[4])
                       /\ \/ a[1] = 240 /\ a[2] \in 144..191
                          \/ a[1] \in 241..243 /\ Continues(a[2])
                          \/ a[1] = 244 /\ a[2] \in 128..143
      [] OTHER -> FALSE

(* The length that the first byte announces, 0 if none does.               *)
Announced(byte) ==
    CASE byte < 128 -> 1 [] byte \in 192..223 -> 2 [] byte \in 224..239 -> 3
      [] byte \in 240..247 -> 4 [] byte \in 248..251 -> 5 [] byte \in 252..253 -> 6
      [] OTHER -> 0

(* check_xiph_comment: the walk over the value from position i.            *)
IsUtf8(text, i) ==
    LET Walk[j \in 1..(Len(text) + 1)] ==
            \/ j > Len(text)
            \/ LET n == Announced(text[j]) IN
               /\ n > 0 /\ j + n - 1 <= Len(text)
               /\ Follow(SubSeq(text, j, j + n - 1)) /\ Walk[j + n]
    IN  Walk[i]

(* strchr ends at a byte 0.                                                *)
Separators(text) ==
    {i \in 1..Len(text) : text[i] = 61 /\ \A j \in 1..(i - 1) : text[j] \notin {0, 61}}

CommentPasses(text) ==
    \E i \in Separators(text) :
        (\A j \in 1..(i - 1) : text[j] \in 32..125) /\ IsUtf8(text, i + 1)

(* Tags that are not taken: the stream waits for others.                   *)
TagsRefused(t) ==
    \/ t.bytes < 16 \/ t.vendor < 0 \/ t.vendor > t.bytes - 16
    \/ t.count < 0 \/ t.count > (t.bytes - 16 - t.vendor) \div 4

(* Tags that are taken, without a warning: room is what is left of them.   *)
TagsPass(t) ==
    LET Rest[k \in 0..t.count] ==
            IF k = 0 THEN t.bytes - 16 - t.vendor
            ELSE IF Rest[k - 1] < 4 THEN -1
            ELSE LET room == Rest[k - 1] - 4
                     c == t.comments[k]
                 IN  IF c.length \in 0..room /\ CommentPasses(c.text) THEN room - c.length ELSE -1
    IN  Rest[t.count] >= 0
=============================================================================
