-------------------------- MODULE ResampledStream ---------------------------
(***************************************************************************)
(* What a resampler promises of time: each channel walks along its stream, *)
(* one step of num/den samples for each sample that comes out, however the *)
(* input is cut into buffers and whatever filter is in use.                *)
(***************************************************************************)
EXTENDS Integers

CONSTANTS Channels, Ratios

VARIABLES at, part,    \* channel -> where its next output is centred, and
                       \* the part of a sample beyond that, in units of 1/den
          ratio,       \* <<num, den>>: input samples for output samples
          started,     \* something has been resampled
          astray       \* a change of the ratio was refused half way

vars == <<at, part, ratio, started, astray>>

Init ==
    /\ ratio \in Ratios /\ at \in [Channels -> Int]
    /\ part = [c \in Channels |-> 0]
    /\ started = FALSE /\ astray = FALSE

Emit(c) ==
    LET sum == part[c] + ratio[1] IN
    /\ started /\ ~astray
    /\ at' = [at EXCEPT ![c] = @ + sum \div ratio[2]]
    /\ part' = [part EXCEPT ![c] = sum % ratio[2]]
    /\ UNCHANGED <<ratio, started, astray>>

Start == started' = TRUE /\ UNCHANGED <<at, part, ratio, astray>>

(* Time goes on where it was.                                              *)
ChangeRatio ==
    /\ ~astray /\ ratio' \in Ratios
    /\ part' = [c \in Channels |-> (part[c] * ratio'[2]) \div ratio[2]]
    /\ started => UNCHANGED at
    /\ UNCHANGED <<started, astray>>

Refuse == astray' = TRUE /\ UNCHANGED started

(* Before the start, and for a new stream, the position may be chosen.     *)
Place ==
    /\ ~started /\ UNCHANGED <<part, ratio, started, astray>>

Restart ==
    /\ part' = [c \in Channels |-> 0]
    /\ UNCHANGED <<ratio, started, astray>>

Next == \/ \E c \in Channels : Emit(c)
        \/ Start \/ ChangeRatio \/ Refuse \/ Place \/ Restart

Spec == Init /\ [][Next]_vars
=============================================================================
