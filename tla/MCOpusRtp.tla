------------------------------ MODULE MCOpusRtp ------------------------------
EXTENDS OpusRtp
Audio(n) == [kind |-> "audio", samples |-> n]
First == [serial |-> 1, bos |-> TRUE, packets |-> <<[kind |-> "head", samples |-> 3]>>]
Tags == [kind |-> "tags", samples |-> 3]
PageFrom(n, ps) == [serial |-> n, bos |-> FALSE, packets |-> ps]
Plain == <<First, PageFrom(1, <<Tags>>), PageFrom(1, <<Audio(1), Audio(0), Audio(2), Audio(1)>>)>>
Short == <<First, PageFrom(1, <<Tags, Audio(1)>>)>>
(* A Vorbis stream begins first; then its pages come in between.           *)
Late == <<[serial |-> 2, bos |-> TRUE, packets |-> <<Audio(1)>>], First, PageFrom(1, <<Tags>>),
          PageFrom(1, <<>>), PageFrom(1, <<Audio(2)>>)>>
Mixed == <<First, PageFrom(1, <<Tags, Audio(1)>>), PageFrom(2, <<Audio(1)>>), PageFrom(1, <<Audio(1)>>)>>
NotOpus == <<PageFrom(2, <<Audio(1)>>), First>>
MCArguments == {<<Plain>>, <<Short, Late>>, <<Mixed>>, <<NotOpus, Short>>}
Option(p, t, n, o) == [port |-> p, type |-> t, limit |-> n, output |-> o]
MCOptions == {Option(-1, -1, 9, TRUE), Option(1234, -1, 2, TRUE), Option(-1, 120, 9, FALSE)}
Other(parsed, p, t, n, v, s) ==
    [parsed |-> parsed, port |-> p, type |-> t, seq |-> n, samples |-> s, valid |-> v,
     number |-> n, ssrc |-> 0, id |-> 0]
MCStrays == {Other(FALSE, 1234, 120, 0, TRUE, 1), Other(TRUE, 1234, 96, 3, TRUE, 1),
             Other(TRUE, 9, 120, 1, FALSE, 0), Other(TRUE, 1234, 120, 2, TRUE, 2)}
=============================================================================
