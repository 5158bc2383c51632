------------------------------ MODULE MCOpusDec -----------------------------
EXTENDS OpusDec

Link(rate, channels, family) == [rate |-> rate, channels |-> channels, family |-> family]

Chains == {<<Link(3, 1, 0)>>, <<Link(3, 3, 1), Link(0, 3, 1)>>, <<Link(2, 1, 0), Link(2, 2, 0)>>, <<Link(2, 2, 0), Link(2, 1, 0)>>,
           <<Link(4, 2, 0), Link(6, 2, 0)>>, <<Link(1, 1, 0)>>}

CommandLines ==
    {[file |-> TRUE, rate |-> r, stereo |-> FALSE, wav |-> TRUE, fp |-> f] :
        r \in {0, 6}, f \in BOOLEAN}
    \cup {[file |-> FALSE, rate |-> r, stereo |-> FALSE, wav |-> FALSE, fp |-> TRUE] :
        r \in {0, 3}}
    \cup {[file |-> TRUE, rate |-> 9, stereo |-> TRUE, wav |-> FALSE, fp |-> FALSE]}
=============================================================================
