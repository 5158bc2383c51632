---------------------------- MODULE OpusDecProof ----------------------------
(***************************************************************************)
(* Theorems about OpusDec, for every chain, command line and size of       *)
(* buffers.                                                                *)
(***************************************************************************)
EXTENDS OpusDec, WellFoundedInduction, TLAPS

Opened == pc \notin {"open", "quit"}

(* What may be written of a link.                                          *)
Fits(l) == IF fmt.stereo THEN fmt.channels = 2 ELSE fmt.channels = source[l].channels

(* What was decided at the start.                                          *)
DecidedOK ==
    Opened =>
        /\ fmt.rate \in Nat \ {0} /\ fmt.stereo \in BOOLEAN
        /\ fmt.stereo => fmt.channels = 2
        /\ ~fmt.stereo => /\ fmt.channels = source[1].channels
                          /\ seekable => \A l \in Links : source[l].channels = source[1].channels

(* Where the loops are: draining needs a resampler and a link, and knows   *)
(* where to go on.                                                         *)
PlaceOK ==
    /\ resampler # None => link \in Links
    /\ pc = "drain" => resampler # None /\ after # "none"
    /\ pc = "write" => link \in Links /\ (after # "none" => resampler # None)
    /\ pc \notin {"drain", "write"} => after = "none"

(* A read that is being worked on is of this link or of the next, and      *)
(* later links have not been read.                                         *)
PendingOK ==
    /\ pending.n \in Nat /\ pending = [link |-> pending.link, n |-> pending.n]
    /\ pc = "enter" \/ after = "enter" =>
          /\ pending.link \in Links /\ pending.link \in {link, link + 1}
          /\ read[pending.link] + pending.n <= MaxRead
    /\ \A l \in Links : l > link => read[l] = 0

(* A link that does not fit is the last, and nothing is owed of it.        *)
MisfitOK ==
    Opened /\ link \in Links /\ ~Fits(link) =>
        /\ read[link] = 0 /\ out = 0
        /\ pc \in {"patch", "end"} \/ (pc \in {"drain", "write"} /\ after = "patch")

HeaderOK ==
    command.file /\ command.wav /\ Opened =>
        file.header.channels = fmt.channels /\ file.header.rate = fmt.rate

WrittenOK == Opened => \A l \in Links : file.written[l] > 0 => Fits(l)

FileOK == file = [header |-> file.header, written |-> file.written, size |-> file.size,
                  riff |-> file.riff, data |-> file.data]
          /\ file.written \in [Links -> Nat]

IInv ==
    /\ TypeOK /\ source \in Sources /\ out \in Int /\ read \in [Links -> Nat]
    /\ (~Opened => \A l \in Links : file.written[l] = 0)
    /\ (pc = "open" => link = 0 /\ resampler = None /\ left = 0)
    /\ FileOK /\ DecidedOK /\ PlaceOK /\ PendingOK /\ MisfitOK /\ HeaderOK /\ WrittenOK

-----------------------------------------------------------------------------
(* Quotients and remainders.                                               *)
LEMMA DivNat ==
    ASSUME NEW a \in Nat, NEW b \in Nat \ {0}
    PROVE  a \div b \in Nat /\ a % b \in Nat
OBVIOUS

(* Products.                                                               *)
LEMMA TimesNat ==
    ASSUME NEW a \in Nat, NEW b \in Nat
    PROVE  a * b \in Nat
OBVIOUS

(* The lesser and the greater of two.                                      *)
LEMMA LeastNat ==
    ASSUME NEW a \in Int, NEW b \in Int
    PROVE  /\ Min2(a, b) \in Int /\ Min2(a, b) <= a /\ Min2(a, b) <= b
           /\ a \in Nat /\ b \in Nat => Min2(a, b) \in Nat
           /\ Max2(a, b) \in Int /\ Max2(0, a) \in Nat
           /\ a <= 0 => Max2(0, a) = 0
BY DEF Min2, Max2

(* A chain has links, and each of them channels.                           *)
LEMMA SourceType ==
    ASSUME source \in Sources
    PROVE  /\ Len(source) \in Nat \ {0} /\ 1 \in Links
           /\ Links \subseteq Nat \ {0}
           /\ \A l \in Links : source[l].channels \in Nat
<1> DEFINE R == [rate : Nat, channels : Nat \ {0}, family : Nat]
<1>1. source \in Seq(R) /\ source # <<>>
    BY OpusDecAssumption
<1>2. \A l \in Links : source[l] \in R => source[l].channels \in Nat
    OBVIOUS
<1> HIDE DEF R
<1>3. Len(source) \in Nat \ {0}
    BY <1>1
<1>4. Links \subseteq Nat \ {0} /\ 1 \in Links
    BY <1>3 DEF Links
<1>5. \A l \in Links : source[l] \in R
    BY <1>1 DEF Links
<1> QED
    BY <1>2, <1>3, <1>4, <1>5

(* What is owed is a number, and nothing is owed of a link that was not    *)
(* read.                                                                   *)
LEMMA OwedNat ==
    ASSUME read \in [Links -> Nat], link \in Links, fmt.rate \in Nat, NEW put \in Int
    PROVE  Owed(put) \in Nat /\ (read[link] = 0 /\ put = 0 => Owed(put) = 0)
<1> DEFINE whole == (read[link] \div FullRate) * fmt.rate
           part == ((read[link] % FullRate) * fmt.rate) \div FullRate
<1>1. FullRate \in Nat \ {0} /\ read[link] \in Nat
    BY OpusDecAssumption
<1>2. read[link] \div FullRate \in Nat /\ read[link] % FullRate \in Nat
    BY <1>1, DivNat
<1>3. whole \in Nat /\ (read[link] % FullRate) * fmt.rate \in Nat
    BY <1>2, TimesNat
<1>4. part \in Nat
    BY <1>1, <1>3, DivNat
<1>5. Owed(put) = Max2(0, whole + part - put)
    BY DEF Owed
<1>6. ASSUME read[link] = 0 PROVE whole = 0 /\ part = 0
    <2>1. read[link] \div FullRate = 0 /\ read[link] % FullRate = 0
        BY <1>1, <1>6
    <2> QED
        BY <1>1, <2>1
<1> HIDE DEF whole, part
<1> QED
    BY <1>3, <1>4, <1>5, <1>6 DEF Max2

(* The rate that is decided on is one to divide by.                        *)
LEMMA RateNat == Rate \in Nat \ {0}
<1> DEFINE rate == IF ForcedRate = 0 THEN HeadRate(1) ELSE ForcedRate
<1>1. Rate = IF rate \in MinRate..MaxRate THEN rate ELSE FullRate
    BY DEF Rate
<1> HIDE DEF rate
<1> QED
    BY <1>1, OpusDecAssumption

(* Half the filter.                                                        *)
LEMMA LatencyNat ==
    ASSUME fmt.rate \in Nat \ {0}
    PROVE  Latency \in Nat
<1> DEFINE longer == (BaseLength * FullRate) \div fmt.rate
           rounded == ((longer - 1) \div Multiple) * Multiple + Multiple
           length == IF fmt.rate < FullRate THEN rounded ELSE BaseLength
<1>1. {FullRate, BaseLength, Multiple} \subseteq Nat \ {0}
    BY OpusDecAssumption
<1>2. BaseLength * FullRate \in Nat
    BY <1>1, TimesNat
<1>3. longer \in Nat
    BY <1>2, DivNat
<1> HIDE DEF longer
<1>4. rounded \in Nat
    <2>1. CASE longer = 0
        <3>1. (longer - 1) \div Multiple = -1
            BY <1>1, <2>1
        <3> QED
            BY <1>1, <3>1
    <2>2. CASE longer # 0
        <3>1. longer - 1 \in Nat
            BY <1>3, <2>2
        <3>2. (longer - 1) \div Multiple \in Nat
            BY <1>1, <3>1, DivNat
        <3>3. ((longer - 1) \div Multiple) * Multiple \in Nat
            BY <1>1, <3>2, TimesNat
        <3> QED
            BY <1>1, <3>3
    <2> QED
        BY <2>1, <2>2
<1> HIDE DEF rounded
<1>5. length \in Nat
    BY <1>1, <1>4
<1>6. Latency = length \div 2
    BY DEF Latency, length, rounded, longer
<1> HIDE DEF length
<1> QED
    BY <1>5, <1>6

(* What a resampler can make, and how far along its input the next output  *)
(* is centred.                                                             *)
LEMMA ReadyReachNat ==
    ASSUME fmt.rate \in Nat \ {0}, NEW k \in Nat
    PROVE  Ready(k) \in Nat /\ Reach(k) \in Nat
<1>1. Latency \in Nat /\ FullRate \in Nat \ {0}
    BY LatencyNat, OpusDecAssumption
<1>2. Reach(k) \in Nat
    <2>1. k * FullRate \in Nat
        BY <1>1, TimesNat
    <2>2. (k * FullRate) \div fmt.rate \in Nat
        BY <2>1, DivNat
    <2> QED
        BY <1>1, <2>2 DEF Reach
<1>3. Ready(k) \in Nat
    <2>1. CASE k <= Latency
        BY <2>1 DEF Ready
    <2>2. CASE ~(k <= Latency)
        <3>1. k - Latency \in Nat
            BY <1>1, <2>2
        <3>2. (k - Latency) * fmt.rate \in Nat
            BY <3>1, TimesNat
        <3>3. (k - Latency) * fmt.rate + FullRate - 1 \in Nat
            BY <1>1, <3>2
        <3>4. ((k - Latency) * fmt.rate + FullRate - 1) \div FullRate \in Nat
            BY <1>1, <3>3, DivNat
        <3> QED
            BY <2>2, <3>4 DEF Ready
    <2> QED
        BY <2>1, <2>2
<1> QED
    BY <1>2, <1>3

-----------------------------------------------------------------------------
(* At the start nothing has been read, written or decided.                 *)
LEMMA InitInv == Init => IInv
<1> SUFFICES ASSUME Init PROVE IInv
    OBVIOUS
<1>1. Links \subseteq Nat \ {0} /\ MaxSize \in Nat /\ MaxRead \in Nat
    BY SourceType, OpusDecAssumption DEF Init
<1>2. TypeOK /\ source \in Sources /\ out \in Int /\ read \in [Links -> Nat]
    BY <1>1 DEF Init, TypeOK
<1>3. FileOK
    BY <1>1 DEF Init, FileOK
<1>4. PendingOK /\ PlaceOK
    BY <1>1 DEF Init, PendingOK, PlaceOK
<1>5. DecidedOK /\ MisfitOK /\ HeaderOK /\ WrittenOK
    BY DEF Init, Opened, DecidedOK, MisfitOK, HeaderOK, WrittenOK
<1> QED
    BY <1>2, <1>3, <1>4, <1>5 DEF IInv, Init

(* The format is decided once, and a chain that can be looked at in        *)
(* advance gets one that fits all its links.                               *)
LEMMA OpenStep == IInv /\ Open => IInv'
<1> SUFFICES ASSUME IInv, Open PROVE IInv'
    OBVIOUS
<1> DEFINE requested == IF ForcedStereo THEN 2 ELSE source[1].channels
<1>1. PICK channels \in {requested} \cup (IF command.file THEN {} ELSE {2}) :
        /\ fmt' = [rate |-> Rate, channels |-> channels,
                   stereo |-> ForcedStereo \/ channels # requested]
        /\ file' = [file EXCEPT
              !.header = IF command.file /\ command.wav THEN Header(channels) ELSE @]
    BY DEF Open
<1>2. /\ pc = "open" /\ pc' = "read"
      /\ UNCHANGED <<command, source, seekable, link, read, out, resampler,
                     pending, left, zeros, after, failed>>
    BY DEF Open
<1>3. Links' = Links
    BY <1>2 DEF Links
<1>4. file'.written = file.written /\ FileOK'
    BY <1>1, <1>3 DEF IInv, FileOK
<1>5. TypeOK'
    BY <1>2, <1>3, <1>4 DEF IInv, TypeOK
<1>6. DecidedOK'
    <2>1. fmt'.rate \in Nat \ {0}
        BY <1>1, RateNat
    <2>2. fmt'.stereo => fmt'.channels = 2
        BY <1>1
    <2>3. ~fmt'.stereo => fmt'.channels = source[1].channels /\ ~ForcedStereo
        BY <1>1
    <2>4. ~ForcedStereo /\ seekable => \A l \in Links : source[l].channels = source[1].channels
        BY DEF ForcedStereo, MixedChannels
    <2>5. fmt'.stereo \in BOOLEAN
        BY <1>1
    <2> QED
        BY <1>2, <1>3, <2>1, <2>2, <2>3, <2>4, <2>5 DEF DecidedOK
<1>7. HeaderOK'
    BY <1>1, <1>2 DEF HeaderOK, Header, IInv, FileOK
<1>8. PlaceOK' /\ PendingOK'
    BY <1>2, <1>3 DEF IInv, PlaceOK, PendingOK
<1>9. MisfitOK' /\ WrittenOK'
    <2>1. link = 0 /\ \A l \in Links : file.written[l] = 0
        BY <1>2 DEF IInv, Opened
    <2>2. 0 \notin Links
        BY SourceType DEF IInv
    <2> QED
        BY <1>2, <1>3, <1>4, <2>1, <2>2 DEF MisfitOK, WrittenOK
<1> QED
    BY <1>2, <1>3, <1>4, <1>5, <1>6, <1>7, <1>8, <1>9 DEF IInv, Opened

(* Without an output nothing changes any more.                              *)
LEMMA OpenFailsStep == IInv /\ OpenFails => IInv'
<1> SUFFICES ASSUME IInv, OpenFails PROVE IInv'
    OBVIOUS
<1>1. /\ pc = "open" /\ pc' = "quit"
      /\ UNCHANGED <<command, source, seekable, fmt, link, read, out, resampler,
                     pending, left, zeros, after, file, failed>>
    BY DEF OpenFails
<1>2. Links' = Links
    BY <1>1 DEF Links
<1>3. TypeOK' /\ FileOK' /\ PlaceOK' /\ PendingOK'
    BY <1>1, <1>2 DEF IInv, TypeOK, FileOK, PlaceOK, PendingOK
<1> QED
    BY <1>1, <1>2, <1>3 DEF IInv, Opened, DecidedOK, MisfitOK, HeaderOK, WrittenOK

(* A step that leaves the format, the link and the output alone disturbs   *)
(* only what is said of the places and of the read at hand.                *)
LEMMA Undisturbed ==
    ASSUME IInv, Opened, Opened',
           UNCHANGED <<command, source, seekable, fmt, link, read, out, file>>
    PROVE  /\ Links' = Links
           /\ FileOK' /\ DecidedOK' /\ HeaderOK' /\ WrittenOK'
           /\ \A l \in Links : Fits(l)' <=> Fits(l)
BY DEF IInv, Links, FileOK, DecidedOK, HeaderOK, WrittenOK, Opened, Fits

(* A read that is taken up in place of "read" belongs to a link that fits. *)
LEMMA ReadFrameStep == IInv /\ ReadFrame => IInv'
<1> SUFFICES ASSUME IInv, ReadFrame PROVE IInv'
    OBVIOUS
<1>1. PICK l \in {link, link + 1} \cap Links, n \in Frames :
        /\ read[l] + n <= MaxRead
        /\ pending' = [link |-> l, n |-> n]
        /\ IF l # link /\ resampler # None
           THEN pc' = "drain" /\ zeros' = Latency /\ after' = "enter"
           ELSE pc' = "enter" /\ UNCHANGED <<zeros, after>>
    BY DEF ReadFrame
<1>2. /\ pc = "read"
      /\ UNCHANGED <<command, source, seekable, fmt, link, read, out, resampler,
                     left, file, failed>>
    BY DEF ReadFrame
<1>3. Opened /\ Opened'
    BY <1>1, <1>2 DEF Opened
<1>4. /\ Links' = Links /\ FileOK' /\ DecidedOK' /\ HeaderOK' /\ WrittenOK'
      /\ \A k \in Links : Fits(k)' <=> Fits(k)
    BY <1>2, <1>3, Undisturbed
<1>5. n \in Nat /\ after = "none"
    BY <1>2, OpusDecAssumption DEF IInv, PlaceOK
<1>6. Latency \in Nat
    BY <1>3, LatencyNat DEF IInv, DecidedOK
<1>7. TypeOK'
    BY <1>1, <1>2, <1>4, <1>5, <1>6 DEF IInv, TypeOK
<1>8. PlaceOK' /\ PendingOK'
    BY <1>1, <1>2, <1>4, <1>5 DEF IInv, PlaceOK, PendingOK
<1>9. MisfitOK'
    <2>1. link \in Links => Fits(link)
        BY <1>2, <1>3 DEF IInv, MisfitOK
    <2> QED
        BY <1>2, <1>4, <2>1 DEF MisfitOK
<1> QED
    BY <1>2, <1>3, <1>4, <1>7, <1>8, <1>9 DEF IInv, Opened

(* When the reads are over what is left is to drain and to patch.          *)
LEMMA ReadEndsStep == IInv /\ ReadEnds => IInv'
<1> SUFFICES ASSUME IInv, ReadEnds PROVE IInv'
    OBVIOUS
<1>1. /\ pc = "read" /\ Over
      /\ UNCHANGED <<command, source, seekable, fmt, link, read, out, resampler,
                     pending, left, file, failed>>
    BY DEF ReadEnds
<1>2. \/ resampler # None /\ pc' = "drain" /\ zeros' = Latency /\ after' = "patch"
      \/ resampler = None /\ pc' = "patch" /\ zeros' = zeros /\ after' = after
    BY <1>1 DEF Over
<1>3. Opened /\ Opened'
    BY <1>1, <1>2 DEF Opened
<1>4. /\ Links' = Links /\ FileOK' /\ DecidedOK' /\ HeaderOK' /\ WrittenOK'
      /\ \A k \in Links : Fits(k)' <=> Fits(k)
    BY <1>1, <1>3, Undisturbed
<1>5. Latency \in Nat /\ after = "none"
    BY <1>1, <1>3, LatencyNat DEF IInv, DecidedOK, PlaceOK
<1>6. TypeOK'
    BY <1>1, <1>2, <1>4, <1>5 DEF IInv, TypeOK
<1>7. PlaceOK' /\ PendingOK'
    BY <1>1, <1>2, <1>4, <1>5 DEF IInv, PlaceOK, PendingOK
<1>8. MisfitOK'
    BY <1>1, <1>2, <1>3, <1>4 DEF IInv, MisfitOK
<1> QED
    BY <1>1, <1>3, <1>4, <1>6, <1>7, <1>8 DEF IInv, Opened

(* Nor after a crash.                                                      *)
LEMMA EnterWithoutMemoryStep == IInv /\ EnterWithoutMemory => IInv'
<1> SUFFICES ASSUME IInv, EnterWithoutMemory PROVE IInv'
    OBVIOUS
<1>1. /\ pc = "enter" /\ pc' = "crashed"
      /\ UNCHANGED <<command, source, seekable, fmt, link, read, out, resampler,
                     pending, left, zeros, after, file, failed>>
    BY DEF EnterWithoutMemory
<1>2. Opened /\ Opened'
    BY <1>1 DEF Opened
<1>3. /\ Links' = Links /\ FileOK' /\ DecidedOK' /\ HeaderOK' /\ WrittenOK'
      /\ \A k \in Links : Fits(k)' <=> Fits(k)
    BY <1>1, <1>2, Undisturbed
<1>4. TypeOK' /\ PlaceOK' /\ PendingOK'
    BY <1>1, <1>3 DEF IInv, TypeOK, PlaceOK, PendingOK
<1>5. MisfitOK'
    BY <1>1, <1>2, <1>3 DEF IInv, MisfitOK
<1> QED
    BY <1>1, <1>2, <1>3, <1>4, <1>5 DEF IInv, Opened

-----------------------------------------------------------------------------
(* The read is taken up: a link that does not fit ends the reading, and    *)
(* any other counts what was read.                                         *)
LEMMA EnterStep == IInv /\ Enter => IInv'
<1> SUFFICES ASSUME IInv, Enter PROVE IInv'
    OBVIOUS
<1>1. /\ pc = "enter" /\ link' = pending.link /\ out' = OutOnEntry
      /\ UNCHANGED <<command, source, seekable, fmt, pending, file, failed>>
    BY DEF Enter
<1>2. /\ Opened /\ after = "none" /\ Links' = Links
      /\ pending.link \in Links /\ pending.link \in {link, link + 1}
      /\ read[pending.link] + pending.n <= MaxRead /\ pending.n \in Nat
    BY <1>1 DEF IInv, Opened, PlaceOK, PendingOK, Links
<1>3. link \in Nat /\ MaxRead \in Nat /\ Links \subseteq Nat \ {0}
    BY SourceType, OpusDecAssumption DEF IInv, TypeOK
<1>4. \A l \in Links : Fits(l)' <=> Fits(l)
    BY <1>1 DEF Fits
<1>5. out' \in Int /\ (pending.link # link => out' = 0)
    BY <1>1 DEF IInv, OutOnEntry
<1>6. /\ DecidedOK /\ HeaderOK /\ WrittenOK /\ FileOK /\ fmt.rate \in Nat \ {0}
    BY <1>2 DEF IInv, DecidedOK
<1>7. CASE Misfit
    <2>1. /\ UNCHANGED <<read, resampler, left>>
          /\ \/ resampler # None /\ pc' = "drain" /\ zeros' = Latency /\ after' = "patch"
             \/ resampler = None /\ pc' = "patch" /\ zeros' = zeros /\ after' = after
        BY <1>7 DEF Enter, Over
    <2>2. Opened' /\ Latency \in Nat
        BY <1>6, <2>1, LatencyNat DEF Opened
    <2>3. pending.link # link /\ read[pending.link] = 0 /\ out' = 0
        BY <1>2, <1>3, <1>5, <1>7 DEF Misfit, IInv, PendingOK
    <2>4. TypeOK'
        BY <1>1, <1>2, <2>1, <2>2 DEF IInv, TypeOK
    <2>5. PlaceOK'
        BY <1>1, <1>2, <2>1 DEF IInv, PlaceOK
    <2>6. PendingOK'
        BY <1>1, <1>2, <1>3, <2>1 DEF IInv, PendingOK
    <2>7. MisfitOK'
        BY <1>1, <1>2, <2>1, <2>3 DEF MisfitOK
    <2>8. DecidedOK' /\ HeaderOK' /\ WrittenOK' /\ FileOK'
        BY <1>1, <1>2, <1>4, <1>6, <2>2 DEF DecidedOK, HeaderOK, WrittenOK, FileOK
    <2> QED
        BY <1>1, <1>5, <2>1, <2>2, <2>4, <2>5, <2>6, <2>7, <2>8, <1>2 DEF IInv
<1>8. CASE ~Misfit
    <2>1. /\ pc' = "write" /\ left' = pending.n
          /\ read' = [read EXCEPT ![pending.link] = @ + pending.n]
          /\ resampler' = IF fmt.rate # FullRate /\ resampler = None
                          THEN NewResampler ELSE resampler
          /\ UNCHANGED <<zeros, after>>
        BY <1>8 DEF Enter
    <2>2. Opened'
        BY <2>1 DEF Opened
    <2>3. Fits(pending.link)
        <3>1. CASE pending.link = link
            BY <1>1, <1>2, <3>1 DEF IInv, MisfitOK
        <3>2. CASE pending.link # link
            BY <1>2, <1>6, <1>8, <3>2 DEF Misfit, Fits, DecidedOK
        <3> QED
            BY <3>1, <3>2
    <2>4. read' \in [Links -> Nat] /\ \A l \in Links : read'[l] \in 0..MaxRead
        BY <1>2, <1>3, <2>1 DEF IInv, TypeOK
    <2>5. resampler' = None \/ resampler' \in [fed : Nat, made : Nat]
        BY <2>1 DEF IInv, TypeOK, NewResampler
    <2>6. TypeOK'
        BY <1>1, <1>2, <2>1, <2>4, <2>5 DEF IInv, TypeOK
    <2>7. PlaceOK'
        BY <1>1, <1>2, <2>1 DEF IInv, PlaceOK
    <2>8. PendingOK'
        BY <1>1, <1>2, <1>3, <2>1 DEF IInv, PendingOK
    <2>9. MisfitOK'
        BY <1>1, <1>4, <1>2, <2>3 DEF MisfitOK
    <2>10. DecidedOK' /\ HeaderOK' /\ WrittenOK' /\ FileOK'
        BY <1>1, <1>2, <1>4, <1>6, <2>2 DEF DecidedOK, HeaderOK, WrittenOK, FileOK
    <2> QED
        BY <1>1, <1>2, <1>5, <2>1, <2>2, <2>4, <2>6, <2>7, <2>8, <2>9, <2>10 DEF IInv
<1> QED
    BY <1>7, <1>8

-----------------------------------------------------------------------------
(* A turn of audio_write: whatever is taken belongs to a link that fits,   *)
(* since nothing is owed of another.                                       *)
LEMMA PutStep ==
    ASSUME IInv, pc = "write", NEW n, NEW ret \in Int, NEW rest \in Nat, Put(n, ret, rest),
           resampler' = None \/ resampler' \in [fed : Nat, made : Nat],
           resampler # None => resampler' # None,
           UNCHANGED <<command, source, seekable, fmt, link, read, pending, zeros, after>>
    PROVE  IInv'
<1>1. /\ ret \in Taken(n) /\ out' = out + ret /\ left' = rest
      /\ file' = [file EXCEPT !.written[link] = @ + Max2(ret, 0),
                              !.size = @ + SampleSize * ret * fmt.channels]
      /\ pc' = IF GoesOn(rest, out + ret) THEN "write"
               ELSE IF after = "none" THEN "read" ELSE "drain"
    BY DEF Put
<1>2. /\ Opened /\ Opened' /\ Links' = Links /\ link \in Links
      /\ (after # "none" => resampler # None)
    BY <1>1 DEF Opened, Links, IInv, PlaceOK
<1>3. /\ file'.header = file.header
      /\ file'.written = [file.written EXCEPT ![link] = @ + Max2(ret, 0)]
    BY <1>1 DEF IInv, FileOK
<1>4. Max2(ret, 0) \in Nat /\ (ret = 0 => Max2(ret, 0) = 0)
    BY DEF Max2
<1>5. FileOK' /\ \A l \in Links \ {link} : file'.written[l] = file.written[l]
    <2>1. file.written \in [Links -> Nat] /\ file.written[link] + Max2(ret, 0) \in Nat
        BY <1>2, <1>4 DEF IInv, FileOK
    <2>2. /\ file'.written \in [Links -> Nat]
          /\ \A l \in Links \ {link} : file'.written[l] = file.written[l]
        BY <1>2, <1>3, <2>1
    <2>3. file' = [header |-> file'.header, written |-> file'.written,
                   size |-> file'.size, riff |-> file'.riff, data |-> file'.data]
        <3> DEFINE w == [file.written EXCEPT ![link] = @ + Max2(ret, 0)]
                   z == file.size + SampleSize * ret * fmt.channels
        <3>1. file' = [file EXCEPT !.written = w, !.size = z]
            BY <1>1 DEF IInv, FileOK
        <3> HIDE DEF w, z
        <3> QED
            BY <3>1 DEF IInv, FileOK
    <2> QED
        BY <1>2, <2>2, <2>3 DEF FileOK
<1>6. \A l \in Links : Fits(l)' <=> Fits(l)
    BY DEF Fits
<1>7. ~Fits(link) => ret = 0 /\ out = 0
    <2>1. ~Fits(link) => read[link] = 0 /\ out = 0
        BY <1>2 DEF IInv, MisfitOK
    <2>2. ~Fits(link) => Owed(out) = 0
        BY <1>2, <2>1, OwedNat DEF IInv, DecidedOK
    <2> QED
        BY <1>1, <2>1, <2>2 DEF Taken
<1>8. TypeOK'
    BY <1>1, <1>2, <1>5 DEF IInv, TypeOK, FileOK
<1>9. PlaceOK' /\ PendingOK'
    BY <1>1, <1>2 DEF IInv, PlaceOK, PendingOK
<1>10. DecidedOK' /\ HeaderOK'
    BY <1>2, <1>3 DEF IInv, DecidedOK, HeaderOK
<1>11. WrittenOK'
    <2> SUFFICES ASSUME NEW l \in Links, file'.written[l] > 0 PROVE Fits(l)
        BY <1>2, <1>6 DEF WrittenOK
    <2>1. CASE l # link
        BY <1>2, <1>5, <2>1 DEF IInv, WrittenOK
    <2>2. CASE l = link
        <3>1. ~Fits(link) => file'.written[link] = file.written[link]
            BY <1>2, <1>3, <1>4, <1>7 DEF IInv, FileOK
        <3> QED
            BY <1>2, <2>2, <3>1 DEF IInv, WrittenOK
    <2> QED
        BY <2>1, <2>2
<1>12. MisfitOK'
    <2>1. ~Fits(link) => after = "patch" /\ read[link] = 0
        BY <1>2 DEF IInv, MisfitOK
    <2>2. ~Fits(link) => out' = 0 /\ pc' \in {"write", "drain"}
        BY <1>1, <1>7, <2>1
    <2> QED
        BY <1>2, <1>6, <2>1, <2>2 DEF MisfitOK
<1>13. out' \in Int
    BY <1>1 DEF IInv
<1> QED
    BY <1>2, <1>5, <1>8, <1>9, <1>10, <1>11, <1>12, <1>13 DEF IInv, Opened

(* With a resampler: what it takes of the input is no more than is left.   *)
LEMMA WriteResampledStep == IInv /\ WriteResampled => IInv'
<1> SUFFICES ASSUME IInv, WriteResampled PROVE IInv'
    OBVIOUS
<1> DEFINE made == Min2(Room, Max2(0, Ready(resampler.fed + left) - resampler.made))
           used == IF Room = 0 THEN {0}
                   ELSE IF made < Room THEN {left}
                   ELSE 0..Min2(left, Max2(0, Reach(resampler.made + made) - resampler.fed))
<1>1. /\ pc = "write" /\ resampler # None
      /\ UNCHANGED <<command, source, seekable, fmt, link, read, pending, zeros, after>>
    BY DEF WriteResampled
<1>2. PICK u \in used, ret \in -1..OutChunk :
        /\ Put(made, ret, left - u)
        /\ resampler' = [fed |-> resampler.fed + u, made |-> resampler.made + made]
    BY DEF WriteResampled
<1>3. /\ left \in Nat /\ resampler \in [fed : Nat, made : Nat] /\ fmt.rate \in Nat \ {0}
    BY <1>1 DEF IInv, TypeOK, DecidedOK, Opened
<1>4. Room \in Nat
    <2>1. Owed(out) \in Nat
        BY <1>1, <1>3, OwedNat DEF IInv, PlaceOK
    <2> QED
        BY <2>1, LeastNat, OpusDecAssumption DEF Room
<1>5. made \in Nat
    <2>1. resampler.fed + left \in Nat /\ resampler.made \in Nat
        BY <1>3
    <2> DEFINE more == Ready(resampler.fed + left) - resampler.made
    <2>2. Ready(resampler.fed + left) \in Nat
        BY <1>3, <2>1, ReadyReachNat
    <2>3. more \in Int
        BY <2>1, <2>2
    <2>4. made = Min2(Room, Max2(0, more))
        OBVIOUS
    <2> HIDE DEF more, made
    <2>5. Max2(0, more) \in Nat
        BY <2>3, LeastNat
    <2> QED
        BY <1>4, <2>4, <2>5, LeastNat
<1>6. u \in Nat /\ u <= left
    <2> DEFINE need == Reach(resampler.made + made) - resampler.fed
               room == Max2(0, need)
               most == Min2(left, room)
    <2>1. u = 0 \/ u = left \/ u \in 0..most
        BY <1>2
    <2> HIDE DEF made
    <2>2. resampler.made + made \in Nat /\ resampler.fed \in Nat
        BY <1>3, <1>5
    <2>3. need \in Int
        BY <1>3, <2>2, ReadyReachNat
    <2> HIDE DEF need
    <2>4. room \in Nat
        BY <2>3, LeastNat
    <2> HIDE DEF room
    <2>5. most \in Nat /\ most <= left
        BY <1>3, <2>4 DEF Min2
    <2> HIDE DEF most
    <2> QED
        BY <1>3, <2>1, <2>5
<1> HIDE DEF made, used
<1>7. resampler' \in [fed : Nat, made : Nat] /\ resampler' # None
    BY <1>2, <1>3, <1>5, <1>6 DEF None
<1>8. ret \in Int /\ left - u \in Nat
    BY <1>2, <1>3, <1>6, OpusDecAssumption
<1> QED
    BY <1>1, <1>2, <1>7, <1>8, PutStep

(* Without one nothing is left after a turn.                               *)
LEMMA WriteDirectlyStep == IInv /\ WriteDirectly => IInv'
<1> SUFFICES ASSUME IInv, WriteDirectly PROVE IInv'
    OBVIOUS
<1>1. /\ pc = "write" /\ resampler = None
      /\ UNCHANGED <<command, source, seekable, fmt, link, read, resampler,
                     pending, zeros, after>>
    BY DEF WriteDirectly
<1>2. PICK ret \in -1..MaxRead : Put(Min2(left, Owed(out)), ret, 0)
    BY DEF WriteDirectly
<1>3. ret \in Int
    BY OpusDecAssumption
<1> QED
    BY <1>1, <1>2, <1>3, PutStep

-----------------------------------------------------------------------------
(* A piece of the zeros, or the end of them.                               *)
LEMMA DrainStep == IInv /\ Drain => IInv'
<1> SUFFICES ASSUME IInv, Drain PROVE IInv'
    OBVIOUS
<1>1. /\ pc = "drain"
      /\ UNCHANGED <<command, source, seekable, fmt, link, read, out, pending, file, failed>>
      /\ \/ /\ zeros > 0 /\ pc' = "write" /\ left' = Piece /\ zeros' = zeros - Piece
            /\ UNCHANGED <<resampler, after>>
         \/ /\ ~(zeros > 0) /\ pc' = after /\ after' = "none" /\ resampler' = None
            /\ UNCHANGED <<left, zeros>>
    BY DEF Drain
<1>2. /\ resampler # None /\ link \in Links /\ after \in {"enter", "patch"}
      /\ zeros \in Nat /\ left \in Nat /\ Opened
    BY <1>1 DEF IInv, PlaceOK, TypeOK, Opened
<1>3. Opened'
    BY <1>1, <1>2 DEF Opened
<1>4. /\ Links' = Links /\ FileOK' /\ DecidedOK' /\ HeaderOK' /\ WrittenOK'
      /\ \A k \in Links : Fits(k)' <=> Fits(k)
    BY <1>1, <1>2, <1>3, Undisturbed
<1>5. Piece \in Nat /\ Piece <= zeros
    <2>1. DrainChunk \in Nat
        BY OpusDecAssumption
    <2> QED
        BY <1>2, <2>1, LeastNat DEF Piece
<1>6. TypeOK'
    BY <1>1, <1>2, <1>4, <1>5 DEF IInv, TypeOK
<1>7. PlaceOK'
    BY <1>1, <1>2, <1>4 DEF PlaceOK
<1>8. PendingOK'
    BY <1>1, <1>2, <1>4 DEF IInv, PendingOK
<1>9. MisfitOK'
    BY <1>1, <1>2, <1>4 DEF IInv, MisfitOK
<1> QED
    BY <1>1, <1>3, <1>4, <1>6, <1>7, <1>8, <1>9 DEF IInv, Opened

(* Only the two sizes are written.                                         *)
LEMMA PatchStep == IInv /\ Patch => IInv'
<1> SUFFICES ASSUME IInv, Patch PROVE IInv'
    OBVIOUS
<1>1. /\ pc = "patch" /\ pc' = "end"
      /\ file'.header = file.header /\ file'.written = file.written /\ FileOK'
      /\ UNCHANGED <<command, source, seekable, fmt, link, read, out, resampler,
                     pending, left, zeros, after, failed>>
    BY DEF Patch, IInv, FileOK, Links
<1>2. Opened /\ Opened' /\ Links' = Links /\ \A l \in Links : Fits(l)' <=> Fits(l)
    BY <1>1 DEF Opened, Links, Fits
<1>3. TypeOK' /\ PlaceOK' /\ PendingOK'
    BY <1>1, <1>2 DEF IInv, TypeOK, PlaceOK, PendingOK
<1>4. DecidedOK' /\ HeaderOK' /\ WrittenOK' /\ MisfitOK'
    BY <1>1, <1>2 DEF IInv, DecidedOK, HeaderOK, WrittenOK, MisfitOK
<1> QED
    BY <1>1, <1>2, <1>3, <1>4 DEF IInv

-----------------------------------------------------------------------------
(* Every step preserves the invariant.                                     *)
LEMMA NextInv == IInv /\ [Next]_vars => IInv'
<1> SUFFICES ASSUME IInv, [Next]_vars PROVE IInv'
    OBVIOUS
<1>1. CASE Open
    BY <1>1, OpenStep
<1>2. CASE OpenFails
    BY <1>2, OpenFailsStep
<1>3. CASE ReadFrame
    BY <1>3, ReadFrameStep
<1>4. CASE ReadEnds
    BY <1>4, ReadEndsStep
<1>5. CASE Enter
    BY <1>5, EnterStep
<1>6. CASE EnterWithoutMemory
    BY <1>6, EnterWithoutMemoryStep
<1>7. CASE WriteResampled
    BY <1>7, WriteResampledStep
<1>8. CASE WriteDirectly
    BY <1>8, WriteDirectlyStep
<1>9. CASE Drain
    BY <1>9, DrainStep
<1>10. CASE Patch
    BY <1>10, PatchStep
<1>11. CASE UNCHANGED vars
    BY <1>11 DEF vars, IInv, TypeOK, Links, Opened, FileOK, DecidedOK, PlaceOK, PendingOK,
                 MisfitOK, HeaderOK, WrittenOK, Fits
<1> QED
    BY <1>1, <1>2, <1>3, <1>4, <1>5, <1>6, <1>7, <1>8, <1>9, <1>10, <1>11 DEF Next

(* The invariant holds in every behaviour of the decoder (main and         *)
(* audio_write, opusdec.c).                                                *)
THEOREM Invariance == Spec => []IInv
BY InitInv, NextInv, PTL DEF Spec

(* The type invariant of the decoder: what is left of a read, the zeros    *)
(* and what is written never go below nothing (audio_write).               *)
THEOREM DecoderTypeCorrect == Spec => []TypeOK
<1>1. IInv => TypeOK
    BY DEF IInv
<1> QED
    BY <1>1, Invariance, PTL

(* Whatever is written has the channels that the header and the device     *)
(* were promised, and a chain that could be looked at in advance is never  *)
(* given up for its channels (main, opusdec.c:955).                        *)
THEOREM FormatHolds == Spec => []OneFormat
<1>1. IInv => OneFormat
    <2> SUFFICES ASSUME IInv PROVE OneFormat
        OBVIOUS
    <2>1. \A l \in Links : file.written[l] > 0 => Fits(l)
        <3>1. CASE Opened
            BY <3>1 DEF IInv, WrittenOK
        <3>2. CASE ~Opened
            BY <3>2 DEF IInv
        <3> QED
            BY <3>1, <3>2
    <2>2. command.file /\ command.wav /\ pc \notin {"open", "quit"} =>
              file.header.channels = fmt.channels /\ file.header.rate = fmt.rate
        BY DEF IInv, HeaderOK, Opened
    <2>3. pc = "enter" /\ Misfit => ~seekable
        <3> SUFFICES ASSUME pc = "enter", Misfit, seekable PROVE FALSE
            OBVIOUS
        <3>1. pending.link \in Links /\ Opened
            BY DEF IInv, PendingOK, Opened
        <3> QED
            BY <3>1 DEF IInv, DecidedOK, Misfit
    <2> QED
        BY <2>1, <2>2, <2>3 DEF OneFormat, Fits
<1> QED
    BY <1>1, Invariance, PTL
-----------------------------------------------------------------------------
(* How long the output is.                                                 *)

(* What is in the buffer, what the resampler has to be fed in all, of the  *)
(* link and then of the zeros, and what was dropped of it.                 *)
Held == IF pc = "write" THEN left ELSE 0
Due == IF after = "none" THEN read[link] ELSE read[link] + Latency - zeros
Gap == Due - resampler.fed - Held

(* A link that will get nothing more.                                      *)
LinkOver == pc \in {"patch", "end", "crashed"} \/ (pc = "enter" /\ pending.link # link)

(* There is a resampler as long as a link is under way that needs one.     *)
RateOK ==
    /\ resampler # None => fmt.rate # FullRate
    /\ LinkOver => resampler = None
    /\ after = "enter" => pending.link # link
    /\ link \in Links /\ pc \in {"read", "enter", "write"} /\ ~LinkOver /\ resampler = None =>
          fmt.rate = FullRate

(* What was put out of a link is in the file, and never too much.          *)
TakenOK ==
    /\ \A l \in Links : l > link => file.written[l] = 0
    /\ link \in Links /\ ~failed => file.written[link] = out /\ out <= Exact(link)
    /\ resampler # None => out <= resampler.made /\ (~failed => out = resampler.made)

(* Without a resampler all that was read is put out or in the buffer.      *)
DirectOK ==
    link \in Links /\ resampler = None /\ ~failed /\ ~LinkOver => out + Held = read[link]

(* With one all that was read was fed to it, but for less than comes to    *)
(* one sample, and it has made of that what it could; unless nothing is    *)
(* owed, when the zeros follow.                                            *)
FedOK ==
    resampler # None =>
        \/ after # "none" /\ Exact(link) <= out
        \/ /\ Gap \in Nat /\ Gap * fmt.rate < FullRate
           /\ IF pc = "write" THEN resampler.made <= Ready(resampler.fed + left)
              ELSE resampler.made = Ready(resampler.fed)

(* A read has samples, and audio_write goes on only with some.             *)
MoreOK ==
    /\ pc = "enter" \/ after = "enter" => pending.n > 0
    /\ pc = "write" => left > 0

(* What the links that are over came to.                                   *)
DoneOK ==
    ~failed => /\ \A l \in 1..(link - 1) : file.written[l] = Exact(l)
               /\ link \in Links /\ LinkOver => file.written[link] = Exact(link)

LInv ==
    /\ ~Opened => link = 0 /\ \A l \in Links : file.written[l] = 0
    /\ Opened => RateOK /\ TakenOK /\ DirectOK /\ FedOK /\ MoreOK /\ DoneOK

(* A quotient is where the multiples of the divisor say it is.             *)
LEMMA DivBounds ==
    ASSUME NEW a \in Nat, NEW b \in Nat \ {0}
    PROVE  /\ a \div b \in Nat /\ (a \div b) * b <= a
           /\ a < (a \div b) * b + b
OBVIOUS

(* A number is its quotient times the divisor, and the remainder.          *)
LEMMA DivMod ==
    ASSUME NEW a \in Nat, NEW b \in Nat \ {0}
    PROVE  a \div b \in Nat /\ a % b \in Nat /\ a = (a \div b) * b + (a % b)
OBVIOUS

(* There is one quotient.                                                  *)
LEMMA DivIs ==
    ASSUME NEW a \in Nat, NEW b \in Nat \ {0}, NEW q \in Int, q * b <= a, a < q * b + b
    PROVE  q = a \div b
OBVIOUS

(* Products keep order.                                                    *)
LEMMA TimesMono ==
    ASSUME NEW a \in Int, NEW b \in Int, NEW c \in Nat, a <= b
    PROVE  a * c <= b * c
OBVIOUS

(* What is less as a product with the same factor is less.                 *)
LEMMA TimesLess ==
    ASSUME NEW a \in Int, NEW b \in Int, NEW c \in Nat \ {0}, a * c < b * c
    PROVE  a < b
OBVIOUS

(* Products distribute.                                                    *)
LEMMA Distributes ==
    ASSUME NEW a \in Int, NEW b \in Int, NEW c \in Int
    PROVE  (a + b) * c = a * c + b * c /\ (a - b) * c = a * c - b * c
OBVIOUS

(* What a link comes to, by the multiples of FullRate around it.           *)
LEMMA ExactBounds ==
    ASSUME read \in [Links -> Nat], NEW l \in Links, fmt.rate \in Nat \ {0}
    PROVE  /\ Exact(l) \in Nat /\ read[l] * fmt.rate \in Nat
           /\ Exact(l) * FullRate <= read[l] * fmt.rate
           /\ read[l] * fmt.rate < Exact(l) * FullRate + FullRate
<1>1. FullRate \in Nat \ {0} /\ read[l] \in Nat
    BY OpusDecAssumption
<1>2. read[l] * fmt.rate \in Nat
    BY <1>1, TimesNat
<1> QED
    BY <1>1, <1>2, DivBounds DEF Exact

(* What is owed is what is missing from that, although audio_write         *)
(* computes it from the quotient and the remainder of what was read.       *)
LEMMA OwedIs ==
    ASSUME read \in [Links -> Nat], link \in Links, fmt.rate \in Nat \ {0}, NEW put \in Int
    PROVE  Owed(put) = Max2(0, Exact(link) - put)
<1> DEFINE q == read[link] \div FullRate
           m == read[link] % FullRate
           p == (m * fmt.rate) \div FullRate
<1>1. FullRate \in Nat \ {0} /\ read[link] \in Nat
    BY OpusDecAssumption
<1>2. /\ q \in Nat /\ m \in Nat /\ read[link] = q * FullRate + m
    BY <1>1, DivMod
<1>3. m * fmt.rate \in Nat
    BY <1>2, TimesNat
<1>4. p \in Nat /\ p * FullRate <= m * fmt.rate /\ m * fmt.rate < p * FullRate + FullRate
    BY <1>1, <1>3, DivBounds
<1>5. Owed(put) = Max2(0, q * fmt.rate + p - put)
    BY DEF Owed
<1> HIDE DEF q, m, p
<1>6. q * fmt.rate \in Nat /\ q * FullRate \in Nat /\ p * FullRate \in Nat
    BY <1>1, <1>2, <1>4, TimesNat
<1>7. read[link] * fmt.rate = (q * fmt.rate) * FullRate + m * fmt.rate
    <2>1. read[link] * fmt.rate = (q * FullRate) * fmt.rate + m * fmt.rate
        BY <1>1, <1>2, <1>6, Distributes
    <2>2. (q * FullRate) * fmt.rate = (q * fmt.rate) * FullRate
        BY <1>1, <1>2
    <2> QED
        BY <2>1, <2>2
<1>8. (q * fmt.rate + p) * FullRate = (q * fmt.rate) * FullRate + p * FullRate
    BY <1>1, <1>4, <1>6, Distributes
<1>9. q * fmt.rate + p = Exact(link)
    <2> DEFINE e == q * fmt.rate + p
               c == (q * fmt.rate) * FullRate
               a == read[link] * fmt.rate
    <2>1. e \in Nat /\ c \in Nat /\ a \in Nat
        BY <1>1, <1>4, <1>6, TimesNat
    <2>2. e * FullRate = c + p * FullRate /\ a = c + m * fmt.rate
        BY <1>7, <1>8
    <2>3. Exact(link) = a \div FullRate
        BY DEF Exact
    <2> HIDE DEF e, c, a
    <2>4. e * FullRate <= a /\ a < e * FullRate + FullRate
        BY <1>1, <1>3, <1>4, <1>6, <2>1, <2>2
    <2>5. e = a \div FullRate
        BY <1>1, <2>1, <2>4, DivIs
    <2> QED
        BY <2>3, <2>5 DEF e
<1>10. q * fmt.rate + p - put = Exact(link) - put
    BY <1>4, <1>6, <1>9
<1> QED
    BY <1>5, <1>10

(* Half the filter comes to two samples of output, less one unit.          *)
LEMMA LatencyLong ==
    ASSUME fmt.rate \in Nat \ {0}
    PROVE  2 * FullRate - 1 <= Latency * fmt.rate
<1> DEFINE r == fmt.rate
           longer == (BaseLength * FullRate) \div fmt.rate
           pieces == (longer - 1) \div Multiple
           rounded == pieces * Multiple + Multiple
           length == IF r < FullRate THEN rounded ELSE BaseLength
           half == length \div 2
<1>1. {FullRate, BaseLength, Multiple} \subseteq Nat \ {0} /\ BaseLength >= 6
    BY OpusDecAssumption
<1>2. Latency = half
    BY DEF Latency
<1>3. BaseLength * FullRate \in Nat /\ 6 * FullRate <= BaseLength * FullRate
    BY <1>1, TimesNat, TimesMono
<1>4. CASE r < FullRate
    <2>1. /\ longer \in Nat
          /\ BaseLength * FullRate < longer * fmt.rate + fmt.rate
        BY <1>3, DivBounds
    <2>2. length = rounded
        BY <1>4
    <2> HIDE DEF longer
    <2>3. longer * fmt.rate \in Nat /\ longer # 0
        <3>1. longer * fmt.rate \in Nat
            BY <2>1, TimesNat
        <3>2. longer = 0 => longer * fmt.rate = 0
            OBVIOUS
        <3> QED
            BY <1>1, <1>3, <1>4, <2>1, <3>1, <3>2
    <2>4. pieces \in Nat /\ longer - 1 < pieces * Multiple + Multiple
        <3>1. longer - 1 \in Nat
            BY <2>1, <2>3
        <3> QED
            BY <1>1, <3>1, DivBounds
    <2> HIDE DEF pieces
    <2>5. rounded \in Nat /\ longer <= rounded
        <3>1. pieces * Multiple \in Nat
            BY <1>1, <2>4, TimesNat
        <3> QED
            BY <1>1, <2>1, <2>4, <3>1
    <2> HIDE DEF rounded, length
    <2>6. half \in Nat /\ longer <= 2 * half + 1
        BY <2>1, <2>2, <2>5
    <2> HIDE DEF half
    <2>7. longer * fmt.rate <= (2 * half + 1) * fmt.rate
        BY <2>1, <2>6, TimesMono
    <2>8. (2 * half + 1) * fmt.rate = 2 * (half * fmt.rate) + fmt.rate
        BY <2>6
    <2>9. half * fmt.rate \in Nat
        BY <2>6, TimesNat
    <2>10. 6 * FullRate < 2 * (half * fmt.rate) + fmt.rate + fmt.rate
        BY <1>1, <1>3, <2>1, <2>3, <2>7, <2>8, <2>9
    <2> QED
        BY <1>1, <1>2, <1>4, <2>9, <2>10
<1>5. CASE ~(r < FullRate)
    <2>1. half \in Nat /\ 3 <= half
        BY <1>1, <1>5
    <2> HIDE DEF half
    <2>2. 3 * fmt.rate <= half * fmt.rate /\ half * fmt.rate \in Nat
        BY <2>1, TimesMono, TimesNat
    <2> QED
        BY <1>1, <1>2, <1>5, <2>2
<1> QED
    BY <1>4, <1>5

(* What can be made of k samples, by the multiples of FullRate around it.  *)
LEMMA ReadyBounds ==
    ASSUME fmt.rate \in Nat \ {0}, NEW k \in Nat, k > Latency
    PROVE  /\ Ready(k) \in Nat /\ (k - Latency) * fmt.rate \in Nat
           /\ Ready(k) * FullRate <= (k - Latency) * fmt.rate + FullRate - 1
           /\ (k - Latency) * fmt.rate <= Ready(k) * FullRate
<1> DEFINE a == (k - Latency) * fmt.rate
           b == a + FullRate - 1
<1>1. FullRate \in Nat \ {0} /\ Latency \in Nat
    BY LatencyNat, OpusDecAssumption
<1>2. k - Latency \in Nat
    BY <1>1
<1>3. a \in Nat
    BY <1>2, TimesNat
<1>4. Ready(k) = b \div FullRate
    BY <1>1 DEF Ready
<1> HIDE DEF a
<1>5. b \in Nat
    BY <1>1, <1>3
<1>6. Ready(k) \in Nat /\ Ready(k) * FullRate <= b /\ b < Ready(k) * FullRate + FullRate
    BY <1>1, <1>4, <1>5, DivBounds
<1>7. Ready(k) * FullRate \in Nat
    BY <1>1, <1>6, TimesNat
<1> QED
    BY <1>1, <1>3, <1>6, <1>7 DEF a

(* With more of the input no less can be made.                             *)
LEMMA ReadyMonotone ==
    ASSUME fmt.rate \in Nat \ {0}, NEW j \in Nat, NEW k \in Nat, j <= k
    PROVE  Ready(j) <= Ready(k)
<1>1. FullRate \in Nat \ {0} /\ Latency \in Nat
    BY LatencyNat, OpusDecAssumption
<1>2. Ready(j) \in Nat /\ Ready(k) \in Nat
    BY ReadyReachNat
<1>3. CASE j <= Latency
    BY <1>1, <1>2, <1>3 DEF Ready
<1>4. CASE j > Latency
    <2>1. k > Latency /\ j - Latency <= k - Latency
        BY <1>1, <1>4
    <2>2. (j - Latency) * fmt.rate <= (k - Latency) * fmt.rate
        BY <1>1, <2>1, TimesMono
    <2>3. Ready(j) * FullRate <= (j - Latency) * fmt.rate + FullRate - 1
        BY <1>4, ReadyBounds
    <2>4. (k - Latency) * fmt.rate <= Ready(k) * FullRate
        BY <2>1, ReadyBounds
    <2>5. (j - Latency) * fmt.rate \in Nat /\ (k - Latency) * fmt.rate \in Nat
        BY <1>4, <2>1, ReadyBounds
    <2>6. (Ready(k) + 1) * FullRate = Ready(k) * FullRate + FullRate
        BY <1>1, <1>2
    <2>7. Ready(j) * FullRate \in Nat /\ Ready(k) * FullRate \in Nat
        BY <1>1, <1>2, TimesNat
    <2>8. Ready(j) * FullRate < (Ready(k) + 1) * FullRate
        BY <1>1, <2>2, <2>3, <2>4, <2>5, <2>6, <2>7
    <2>9. Ready(j) < Ready(k) + 1
        BY <1>1, <1>2, <2>8, TimesLess
    <2> QED
        BY <1>2, <2>9
<1> QED
    BY <1>1, <1>3, <1>4

(* Of the input up to where output t begins no more than t can be made.    *)
LEMMA ReadyReach ==
    ASSUME fmt.rate \in Nat \ {0}, NEW t \in Nat
    PROVE  Ready(Reach(t)) <= t
<1> DEFINE q == (t * FullRate) \div fmt.rate
<1>1. FullRate \in Nat \ {0} /\ Latency \in Nat
    BY LatencyNat, OpusDecAssumption
<1>2. t * FullRate \in Nat
    BY <1>1, TimesNat
<1>3. q \in Nat /\ q * fmt.rate <= t * FullRate
    BY <1>2, DivBounds
<1>4. Reach(t) = Latency + q
    BY DEF Reach
<1> HIDE DEF q
<1>5. CASE q = 0
    BY <1>1, <1>4, <1>5 DEF Ready
<1>6. CASE q # 0
    <2>1. Reach(t) \in Nat /\ Reach(t) > Latency /\ Reach(t) - Latency = q
        BY <1>1, <1>3, <1>4, <1>6
    <2>2. /\ Ready(Reach(t)) \in Nat
          /\ Ready(Reach(t)) * FullRate <= q * fmt.rate + FullRate - 1
        BY <2>1, ReadyBounds
    <2> DEFINE m == Ready(Reach(t))
    <2> HIDE DEF m
    <2>3. (t + 1) * FullRate = t * FullRate + FullRate
        BY <1>1
    <2>4. m \in Nat /\ m * FullRate \in Nat /\ q * fmt.rate \in Nat
        BY <1>1, <1>3, <2>2, TimesNat DEF m
    <2>5. m * FullRate < (t + 1) * FullRate
        BY <1>1, <1>2, <1>3, <2>2, <2>3, <2>4 DEF m
    <2>6. m < t + 1
        BY <1>1, <2>4, <2>5, TimesLess
    <2> QED
        BY <2>4, <2>6 DEF m
<1> QED
    BY <1>5, <1>6

(* Before the zeros a resampler cannot make all that its link comes to:    *)
(* if nothing is owed, the link does not come to one sample.               *)
LEMMA NeedsZeros ==
    ASSUME read \in [Links -> Nat], link \in Links, fmt.rate \in Nat \ {0},
           Exact(link) <= Ready(read[link])
    PROVE  read[link] * fmt.rate < FullRate /\ Ready(read[link]) = 0
<1> DEFINE R == read[link]
           a == R * fmt.rate
           c == (R - Latency) * fmt.rate
           d == Latency * fmt.rate
           x == Exact(link) * FullRate
           y == Ready(R) * FullRate
<1>1. FullRate \in Nat \ {0} /\ Latency \in Nat /\ R \in Nat
    BY LatencyNat, OpusDecAssumption
<1>2. /\ Exact(link) \in Nat /\ a \in Nat /\ x <= a /\ a < x + FullRate
    BY ExactBounds
<1>3. d \in Nat /\ 2 * FullRate - 1 <= d
    BY <1>1, LatencyLong, TimesNat
<1>4. ASSUME R > Latency PROVE FALSE
    <2>1. Ready(R) \in Nat /\ c \in Nat /\ y <= c + FullRate - 1
        BY <1>1, <1>4, ReadyBounds
    <2>2. c = a - d
        BY <1>1, Distributes
    <2>3. x <= y /\ x \in Nat /\ y \in Nat
        BY <1>1, <1>2, <2>1, TimesMono, TimesNat
    <2> HIDE DEF a, c, d, x, y
    <2> QED
        BY <1>1, <1>2, <1>3, <2>1, <2>2, <2>3
<1>5. R <= Latency /\ Ready(R) = 0
    BY <1>1, <1>4 DEF Ready
<1>6. Exact(link) = 0 /\ x = 0
    BY <1>1, <1>2, <1>5
<1> QED
    BY <1>1, <1>2, <1>5, <1>6

(* With all of the zeros it can, but for a gap of less than one sample.    *)
LEMMA ZerosSuffice ==
    ASSUME read \in [Links -> Nat], link \in Links, fmt.rate \in Nat \ {0},
           NEW g \in Nat, g * fmt.rate < FullRate, g <= read[link] + Latency
    PROVE  Exact(link) <= Ready(read[link] + Latency - g)
<1> DEFINE R == read[link]
           k == R + Latency - g
           a == R * fmt.rate
           c == (R - g) * fmt.rate
           d == g * fmt.rate
           x == Exact(link) * FullRate
           y == Ready(k) * FullRate
<1>1. FullRate \in Nat \ {0} /\ Latency \in Nat /\ R \in Nat
    BY LatencyNat, OpusDecAssumption
<1>2. /\ Exact(link) \in Nat /\ a \in Nat /\ x <= a /\ a < x + FullRate /\ x \in Nat
    BY <1>1, ExactBounds, TimesNat
<1>3. k \in Nat /\ d \in Nat /\ Ready(k) \in Nat /\ c = a - d
    BY <1>1, ReadyReachNat, TimesNat, Distributes
<1>4. CASE k <= Latency
    <2>1. R <= g
        BY <1>1, <1>4
    <2>2. a <= d
        BY <1>1, <2>1, TimesMono
    <2>3. x < 1 * FullRate
        BY <1>1, <1>2, <1>3, <2>2
    <2>4. Exact(link) < 1
        BY <1>1, <1>2, <2>3, TimesLess
    <2> QED
        BY <1>2, <1>3, <2>4
<1>5. CASE k > Latency
    <2>1. k - Latency = R - g
        BY <1>1
    <2>2. c <= y
        BY <1>3, <1>5, <2>1, ReadyBounds
    <2>3. (Ready(k) + 1) * FullRate = y + FullRate /\ y \in Nat
        BY <1>1, <1>3, TimesNat
    <2>4. x < (Ready(k) + 1) * FullRate
        <3> HIDE DEF a, c, d, x, y
        <3> QED
            BY <1>1, <1>2, <1>3, <2>2, <2>3 DEF d
    <2>5. Exact(link) < Ready(k) + 1
        BY <1>1, <1>2, <1>3, <2>4, TimesLess
    <2> QED
        BY <1>2, <1>3, <2>5
<1> QED
    BY <1>1, <1>3, <1>4, <1>5

-----------------------------------------------------------------------------
(* Nothing is read or written before the output is open.                   *)
LEMMA LengthInit == Init => LInv
<1> SUFFICES ASSUME Init PROVE LInv
    OBVIOUS
<1>1. \A l \in Links : file.written[l] = 0
    BY DEF Init
<1> QED
    BY <1>1 DEF Init, LInv, Opened

(* Nor right after.                                                        *)
LEMMA LengthOpen == IInv /\ LInv /\ Open => LInv'
<1> SUFFICES ASSUME IInv, LInv, Open PROVE LInv'
    OBVIOUS
<1>1. /\ pc = "open" /\ pc' = "read" /\ file'.written = file.written
      /\ UNCHANGED <<command, source, seekable, link, read, out, resampler,
                     pending, left, zeros, after, failed>>
    BY DEF Open, IInv, FileOK
<1>2. /\ link = 0 /\ resampler = None /\ Links' = Links /\ 0 \notin Links /\ after = "none"
      /\ \A l \in Links : file.written[l] = 0
    BY <1>1, SourceType DEF IInv, LInv, Opened, Links, PlaceOK
<1>3. RateOK' /\ TakenOK' /\ DirectOK' /\ FedOK'
    BY <1>1, <1>2 DEF RateOK, LinkOver, TakenOK, DirectOK, FedOK
<1>4. DoneOK' /\ MoreOK'
    BY <1>1, <1>2 DEF DoneOK, LinkOver, MoreOK
<1> QED
    BY <1>1, <1>3, <1>4 DEF LInv, Opened

(* Nor without an output.                                                  *)
LEMMA LengthOpenFails == IInv /\ LInv /\ OpenFails => LInv'
<1> SUFFICES ASSUME IInv, LInv, OpenFails PROVE LInv'
    OBVIOUS
<1>1. /\ pc = "open" /\ pc' = "quit" /\ UNCHANGED <<source, link, file>>
    BY DEF OpenFails
<1> QED
    BY <1>1 DEF LInv, Opened, Links

(* The operators that the step does not change.                            *)
LEMMA SameInput ==
    ASSUME UNCHANGED <<source, fmt, read>>
    PROVE  /\ Links' = Links /\ Latency' = Latency
           /\ \A l : Exact(l)' = Exact(l)
           /\ \A k : Ready(k)' = Ready(k)
BY DEF Links, Latency, Exact, Ready

(* At FullRate a link comes to what was read.                              *)
LEMMA ExactDirect ==
    ASSUME read \in [Links -> Nat], NEW l \in Links, fmt.rate = FullRate
    PROVE  Exact(l) = read[l]
<1>1. FullRate \in Nat \ {0} /\ read[l] \in Nat
    BY OpusDecAssumption
<1>2. read[l] * FullRate \in Nat
    BY <1>1, TimesNat
<1>3. read[l] = (read[l] * FullRate) \div FullRate
    BY <1>1, <1>2, DivIs
<1> QED
    BY <1>3 DEF Exact

(* Without a resampler a link at rest is as long as it should be.          *)
LEMMA AtRest ==
    ASSUME IInv, LInv, pc \in {"read", "enter"}, ~LinkOver, link \in Links,
           resampler = None, ~failed
    PROVE  file.written[link] = Exact(link)
<1>1. Opened /\ fmt.rate = FullRate /\ Held = 0
    BY DEF LInv, Opened, RateOK, Held
<1>2. out + Held = read[link] /\ file.written[link] = out /\ out \in Int
    BY <1>1 DEF LInv, DirectOK, TakenOK, IInv
<1> QED
    BY <1>1, <1>2, ExactDirect DEF IInv

(* A read of the next link comes after the zeros.                         *)
LEMMA LengthReadFrame == IInv /\ LInv /\ ReadFrame => LInv'
<1> SUFFICES ASSUME IInv, LInv, ReadFrame PROVE LInv'
    OBVIOUS
<1>1. PICK l \in {link, link + 1} \cap Links, n \in Frames :
        /\ pending' = [link |-> l, n |-> n]
        /\ IF l # link /\ resampler # None
           THEN pc' = "drain" /\ zeros' = Latency /\ after' = "enter"
           ELSE pc' = "enter" /\ UNCHANGED <<zeros, after>>
    BY DEF ReadFrame
<1>2. /\ pc = "read"
      /\ UNCHANGED <<command, source, seekable, fmt, link, read, out, resampler,
                     left, file, failed>>
    BY DEF ReadFrame
<1>3. /\ Opened /\ Opened' /\ after = "none" /\ ~LinkOver
      /\ RateOK /\ TakenOK /\ DirectOK /\ FedOK /\ MoreOK /\ DoneOK
    BY <1>1, <1>2 DEF Opened, IInv, PlaceOK, LInv, LinkOver
<1>4. /\ Links' = Links /\ Latency' = Latency
      /\ \A k : Exact(k)' = Exact(k) /\ Ready(k)' = Ready(k)
    BY <1>2, SameInput
<1>5. LinkOver' => l # link /\ resampler = None /\ pc' = "enter"
    BY <1>1, <1>2 DEF LinkOver
<1>6. Held' = 0 /\ Held = 0
    BY <1>1, <1>2 DEF Held
<1>7. RateOK' /\ TakenOK'
    BY <1>1, <1>2, <1>3, <1>4, <1>5 DEF RateOK, TakenOK
<1>8. DirectOK'
    BY <1>1, <1>2, <1>3, <1>4, <1>6 DEF DirectOK
<1>9. FedOK'
    <2> SUFFICES ASSUME resampler # None PROVE FedOK'
        BY <1>2 DEF FedOK
    <2>1. Gap \in Nat /\ Gap * fmt.rate < FullRate /\ resampler.made = Ready(resampler.fed)
        BY <1>2, <1>3 DEF FedOK
    <2>2. link \in Links /\ read[link] \in Nat /\ Latency \in Nat
        BY <1>3, LatencyNat DEF IInv, PlaceOK, DecidedOK
    <2>3. Due' = Due
        BY <1>1, <1>2, <1>3, <1>4, <2>2 DEF Due
    <2>4. Gap' = Gap
        BY <1>2, <1>6, <2>3 DEF Gap
    <2> QED
        BY <1>1, <1>2, <1>4, <2>1, <2>4 DEF FedOK
<1>10. DoneOK'
    BY <1>2, <1>3, <1>4, <1>5, AtRest DEF DoneOK
<1>11. MoreOK'
    <2>1. n > 0
        BY OpusDecAssumption
    <2> QED
        BY <1>1, <1>3, <2>1 DEF MoreOK
<1> QED
    BY <1>3, <1>7, <1>8, <1>9, <1>10, <1>11 DEF LInv

(* The zeros follow, or there is no resampler and nothing is missing.      *)
LEMMA LengthReadEnds == IInv /\ LInv /\ ReadEnds => LInv'
<1> SUFFICES ASSUME IInv, LInv, ReadEnds PROVE LInv'
    OBVIOUS
<1>1. /\ pc = "read"
      /\ UNCHANGED <<command, source, seekable, fmt, link, read, out, resampler,
                     pending, left, file, failed>>
      /\ \/ resampler # None /\ pc' = "drain" /\ zeros' = Latency /\ after' = "patch"
         \/ resampler = None /\ pc' = "patch" /\ zeros' = zeros /\ after' = after
    BY DEF ReadEnds, Over
<1>2. /\ Opened /\ Opened' /\ after = "none" /\ ~LinkOver
      /\ RateOK /\ TakenOK /\ DirectOK /\ FedOK /\ MoreOK /\ DoneOK
    BY <1>1 DEF Opened, IInv, PlaceOK, LInv, LinkOver
<1>3. /\ Links' = Links /\ Latency' = Latency
      /\ \A k : Exact(k)' = Exact(k) /\ Ready(k)' = Ready(k)
    BY <1>1, SameInput
<1>4. LinkOver' <=> resampler = None
    BY <1>1 DEF LinkOver
<1>5. RateOK' /\ TakenOK' /\ DirectOK'
    BY <1>1, <1>2, <1>3, <1>4 DEF RateOK, TakenOK, DirectOK
<1>6. FedOK'
    <2> SUFFICES ASSUME resampler # None PROVE FedOK'
        BY <1>1 DEF FedOK
    <2>1. Gap \in Nat /\ Gap * fmt.rate < FullRate /\ resampler.made = Ready(resampler.fed)
        BY <1>1, <1>2 DEF FedOK
    <2>2. link \in Links /\ read[link] \in Nat /\ Latency \in Nat
        BY <1>2, LatencyNat DEF IInv, PlaceOK, DecidedOK
    <2>3. Due' = Due /\ Held' = Held
        BY <1>1, <1>2, <1>3, <2>2 DEF Due, Held
    <2>4. Gap' = Gap
        BY <1>1, <2>3 DEF Gap
    <2> QED
        BY <1>1, <1>3, <2>1, <2>4 DEF FedOK
<1>7. DoneOK'
    BY <1>1, <1>2, <1>3, <1>4, AtRest DEF DoneOK
<1>8. MoreOK'
    BY <1>1, <1>2 DEF MoreOK
<1> QED
    BY <1>2, <1>5, <1>6, <1>7, <1>8 DEF LInv

(* Only a link that needs a resampler and has none crashes.                *)
LEMMA LengthEnterWithoutMemory == IInv /\ LInv /\ EnterWithoutMemory => LInv'
<1> SUFFICES ASSUME IInv, LInv, EnterWithoutMemory PROVE LInv'
    OBVIOUS
<1>1. /\ pc = "enter" /\ pc' = "crashed" /\ fmt.rate # FullRate /\ resampler = None
      /\ UNCHANGED <<command, source, seekable, fmt, link, read, out, resampler,
                     pending, left, zeros, after, file, failed>>
    BY DEF EnterWithoutMemory
<1>2. /\ Opened /\ Opened'
      /\ RateOK /\ TakenOK /\ DirectOK /\ FedOK /\ MoreOK /\ DoneOK
    BY <1>1 DEF Opened, LInv
<1>3. Links' = Links /\ \A k : Exact(k)' = Exact(k)
    BY <1>1, SameInput
<1>4. link \in Links => LinkOver
    BY <1>1, <1>2 DEF RateOK
<1>5. LinkOver'
    BY <1>1 DEF LinkOver
<1>6. RateOK' /\ TakenOK' /\ DirectOK' /\ FedOK' /\ MoreOK' /\ DoneOK'
    BY <1>1, <1>2, <1>3, <1>4, <1>5 DEF RateOK, TakenOK, DirectOK, FedOK, MoreOK, DoneOK
<1> QED
    BY <1>2, <1>6 DEF LInv

(* A link that is entered has nothing in the file yet, and one that goes   *)
(* on has more to come.                                                    *)
LEMMA LengthEnter == IInv /\ LInv /\ Enter => LInv'
<1> SUFFICES ASSUME IInv, LInv, Enter PROVE LInv'
    OBVIOUS
<1>1. /\ pc = "enter" /\ link' = pending.link /\ out' = OutOnEntry
      /\ UNCHANGED <<command, source, seekable, fmt, pending, file, failed>>
    BY DEF Enter
<1>2. /\ Opened /\ after = "none" /\ Links' = Links
      /\ pending.link \in Links /\ pending.link \in {link, link + 1} /\ pending.n \in Nat
      /\ link \in Nat /\ Links \subseteq Nat \ {0} /\ fmt.rate \in Nat \ {0}
    BY <1>1, SourceType DEF IInv, Opened, PlaceOK, PendingOK, Links, TypeOK, DecidedOK
<1> PICK k \in Links : k = link' /\ k = pending.link
    BY <1>1, <1>2
<1>3. RateOK /\ TakenOK /\ DirectOK /\ FedOK /\ MoreOK /\ DoneOK
    BY <1>2 DEF LInv
<1>4. file.written \in [Links -> Nat] /\ read \in [Links -> Nat] /\ out \in Int
    BY DEF IInv, FileOK
<1>5. ~failed => \A l \in 1..(k - 1) : file.written[l] = Exact(l)
    <2>1. CASE k = link
        BY <1>3, <2>1 DEF DoneOK
    <2>2. CASE k = link + 1
        <3>1. LinkOver
            BY <1>1, <1>2, <2>2 DEF LinkOver
        <3>2. link = 0 \/ link \in Links
            BY DEF IInv, TypeOK
        <3> QED
            BY <1>2, <1>3, <2>2, <3>1, <3>2 DEF DoneOK
    <2> QED
        BY <1>1, <1>2, <2>1, <2>2
<1>6. \A l \in Links : l > k => file.written[l] = 0
    BY <1>1, <1>2, <1>3 DEF TakenOK
<1>7. k # link => resampler = None /\ out' = 0 /\ file.written[k] = 0 /\ read[k] = 0
    <2> SUFFICES ASSUME k # link
                 PROVE  resampler = None /\ out' = 0 /\ file.written[k] = 0 /\ read[k] = 0
        OBVIOUS
    <2>1. LinkOver /\ k = link + 1
        BY <1>1, <1>2 DEF LinkOver
    <2> QED
        BY <1>1, <1>2, <1>3, <2>1 DEF RateOK, TakenOK, OutOnEntry, IInv, PendingOK
<1>8. CASE Misfit
    <2>1. k # link /\ resampler = None
        BY <1>1, <1>7, <1>8 DEF Misfit
    <2>2. /\ UNCHANGED <<read, resampler, left>>
          /\ pc' = "patch" /\ zeros' = zeros /\ after' = after
        BY <1>8, <2>1 DEF Enter, Over
    <2>3. \A l : Exact(l)' = Exact(l)
        BY <1>1, <2>2, SameInput
    <2>4. Exact(k) = 0
        <3>1. FullRate \in Nat \ {0} /\ 0 * fmt.rate = 0
            BY <1>2, OpusDecAssumption
        <3> QED
            BY <1>7, <2>1, <3>1 DEF Exact
    <2>5. LinkOver' /\ Opened'
        BY <2>2 DEF LinkOver, Opened
    <2>6. RateOK' /\ DirectOK' /\ FedOK' /\ MoreOK'
        BY <1>2, <2>1, <2>2, <2>5 DEF RateOK, DirectOK, FedOK, MoreOK
    <2>7. TakenOK'
        BY <1>1, <1>2, <1>6, <1>7, <2>1, <2>2, <2>3, <2>4 DEF TakenOK
    <2>8. DoneOK'
        BY <1>1, <1>2, <1>5, <1>7, <2>1, <2>3, <2>4 DEF DoneOK
    <2> QED
        BY <2>5, <2>6, <2>7, <2>8 DEF LInv
<1>9. CASE ~Misfit
    <2>1. /\ pc' = "write" /\ left' = pending.n
          /\ read' = [read EXCEPT ![pending.link] = @ + pending.n]
          /\ resampler' = IF fmt.rate # FullRate /\ resampler = None
                          THEN NewResampler ELSE resampler
          /\ UNCHANGED <<zeros, after>>
        BY <1>9 DEF Enter
    <2>2. ~LinkOver' /\ Opened' /\ Held' = pending.n /\ Due' = read'[k]
        BY <1>1, <1>2, <2>1 DEF LinkOver, Opened, Held, Due
    <2>3. /\ \A l \in Links \ {k} : read'[l] = read[l] /\ Exact(l)' = Exact(l)
          /\ read'[k] = read[k] + pending.n
        BY <1>1, <1>2, <1>4, <2>1 DEF Exact
    <2>4. /\ \A j : Ready(j)' = Ready(j)
          /\ Latency' = Latency
        BY <1>1 DEF Ready, Latency
    <2>5. Exact(k)' >= Exact(k) /\ Exact(k)' \in Nat /\ Exact(k) \in Nat
        <3> DEFINE R == read[k]
                   e == Exact(k)
                   f == Exact(k)'
        <3>1. R \in Nat /\ R + pending.n \in Nat /\ FullRate \in Nat \ {0}
            BY <1>1, <1>2, <1>4, OpusDecAssumption
        <3>2. e = (R * fmt.rate) \div FullRate
            BY DEF Exact
        <3>3. f = ((R + pending.n) * fmt.rate) \div FullRate
            BY <1>1, <2>3 DEF Exact
        <3>4. R * fmt.rate <= (R + pending.n) * fmt.rate
            BY <1>2, <3>1, TimesMono
        <3>5. R * fmt.rate \in Nat /\ (R + pending.n) * fmt.rate \in Nat
            BY <1>2, <3>1, TimesNat
        <3> HIDE DEF R, e, f
        <3>6. /\ e \in Nat /\ e * FullRate <= R * fmt.rate
              /\ f \in Nat /\ (R + pending.n) * fmt.rate < f * FullRate + FullRate
            BY <3>1, <3>2, <3>3, <3>5, DivBounds
        <3>7. (f + 1) * FullRate = f * FullRate + FullRate
            BY <3>1, <3>6
        <3>8. e * FullRate \in Nat /\ f * FullRate \in Nat
            BY <3>1, <3>6, TimesNat
        <3>9. e * FullRate < (f + 1) * FullRate
            BY <3>1, <3>4, <3>5, <3>6, <3>7, <3>8
        <3>10. e < f + 1
            BY <3>1, <3>6, <3>9, TimesLess
        <3> QED
            BY <3>6, <3>10 DEF e, f
    <2>6. resampler' # None <=> fmt.rate # FullRate
        <3>1. NewResampler # None
            BY DEF NewResampler, None
        <3>2. k = link /\ resampler = None => fmt.rate = FullRate
            BY <1>1, <1>2, <1>3 DEF RateOK, LinkOver
        <3> QED
            BY <1>3, <1>7, <2>1, <3>1, <3>2 DEF RateOK
    <2>7. RateOK'
        BY <1>1, <1>2, <2>1, <2>2, <2>6 DEF RateOK
    <2>8. TakenOK'
        <3>1. ~failed => file.written[k] = out' /\ out' <= Exact(k)
            <4>1. CASE k = link
                BY <1>1, <1>2, <1>3, <4>1 DEF TakenOK, OutOnEntry
            <4>2. CASE k # link
                BY <1>7, <2>5, <4>2
            <4> QED
                BY <4>1, <4>2
        <3>2. out' \in Int /\ (~failed => out' <= Exact(k)')
            BY <1>1, <1>4, <2>5, <3>1 DEF OutOnEntry
        <3>3. resampler' # None => out' <= resampler'.made /\ (~failed => out' = resampler'.made)
            <4>1. CASE resampler' = resampler
                BY <1>1, <1>3, <1>7, <4>1 DEF TakenOK, OutOnEntry
            <4>2. CASE resampler' # resampler
                <5>1. resampler = None /\ resampler' = NewResampler
                    BY <2>1, <4>2
                <5>2. fmt.rate # FullRate
                    BY <2>1, <4>2
                <5>3. k # link
                    BY <1>1, <1>2, <1>3, <5>1, <5>2 DEF RateOK, LinkOver
                <5> QED
                    BY <1>7, <5>1, <5>3 DEF NewResampler
            <4> QED
                BY <4>1, <4>2
        <3> QED
            BY <1>1, <1>2, <1>6, <3>1, <3>2, <3>3 DEF TakenOK
    <2>9. DirectOK'
        <3> SUFFICES ASSUME resampler' = None, ~failed PROVE out' + Held' = read'[k]
            BY <1>1 DEF DirectOK
        <3>1. resampler = None
            BY <2>1, <2>6
        <3>2. k = link => out' = read[k]
            <4> SUFFICES ASSUME k = link PROVE out' = read[k]
                OBVIOUS
            <4>1. ~LinkOver /\ Held = 0 /\ link \in Links
                BY <1>1, <1>2 DEF LinkOver, Held
            <4>2. out + Held = read[link]
                BY <1>3, <3>1, <4>1 DEF DirectOK
            <4>3. out' = out
                BY <1>1 DEF OutOnEntry
            <4> QED
                BY <1>4, <4>1, <4>2, <4>3
        <3>3. out' = read[k]
            BY <1>7, <3>2
        <3>4. read[k] \in Nat
            BY <1>1, <1>2, <1>4
        <3> QED
            BY <1>2, <2>2, <2>3, <3>3, <3>4
    <2>10. FedOK'
        <3> SUFFICES ASSUME resampler' # None
                     PROVE  /\ Gap' \in Nat /\ Gap' * fmt.rate < FullRate
                            /\ resampler'.made <= Ready(resampler'.fed + pending.n)
            BY <1>1, <2>1, <2>4 DEF FedOK
        <3>1. Gap' = read'[k] - resampler'.fed - pending.n
            BY <2>2 DEF Gap
        <3>2. read[k] \in Nat /\ FullRate \in Nat \ {0}
            BY <1>1, <1>2, <1>4, OpusDecAssumption
        <3>3. CASE resampler # None
            <4>1. k = link /\ resampler' = resampler /\ link \in Links
                BY <1>1, <1>2, <1>7, <2>1, <3>3
            <4>2. /\ Gap \in Nat /\ Gap * fmt.rate < FullRate
                  /\ resampler.made = Ready(resampler.fed)
                BY <1>1, <1>2, <1>3, <3>3 DEF FedOK
            <4>3. resampler.fed \in Nat
                BY <3>3 DEF IInv, TypeOK
            <4>4. Gap = read[link] - resampler.fed - 0
                BY <1>1, <1>2 DEF Gap, Due, Held
            <4>5. Gap' = Gap
                BY <1>2, <2>3, <3>1, <3>2, <4>1, <4>3, <4>4
            <4>6. Ready(resampler.fed) <= Ready(resampler.fed + pending.n)
                BY <1>2, <4>3, ReadyMonotone
            <4> QED
                BY <4>1, <4>2, <4>5, <4>6
        <3>4. CASE resampler = None
            <4>1. resampler' = NewResampler /\ fmt.rate # FullRate
                BY <2>1, <2>6, <3>4
            <4>2. k # link
                BY <1>1, <1>2, <1>3, <3>4, <4>1 DEF RateOK, LinkOver
            <4>3. Gap' = 0 /\ Gap' * fmt.rate = 0
                <5>1. Gap' = 0
                    BY <1>2, <1>7, <2>3, <3>1, <4>1, <4>2 DEF NewResampler
                <5> QED
                    BY <1>2, <5>1
            <4>4. Ready(0 + pending.n) \in Nat
                BY <1>2, ReadyReachNat
            <4> QED
                BY <3>2, <4>1, <4>3, <4>4 DEF NewResampler
        <3> QED
            BY <3>3, <3>4
    <2>11. DoneOK'
        <3>1. \A l \in 1..(k - 1) : l \in Links \ {k}
            BY <1>1, <1>2 DEF Links
        <3> QED
            BY <1>1, <1>5, <2>2, <2>3, <3>1 DEF DoneOK
    <2>12. MoreOK'
        BY <1>1, <1>2, <1>3, <2>1 DEF MoreOK
    <2> QED
        BY <2>2, <2>7, <2>8, <2>9, <2>10, <2>11, <2>12 DEF LInv
<1> QED
    BY <1>8, <1>9

-----------------------------------------------------------------------------
(* A turn puts out no more than is owed, and unless a write fails all of   *)
(* what it made is taken.                                                  *)
LEMMA PutLength ==
    ASSUME IInv, LInv, pc = "write", NEW n \in Nat, n <= Owed(out),
           NEW ret \in Int, NEW rest \in Nat, Put(n, ret, rest),
           UNCHANGED <<command, source, seekable, fmt, link, read, pending, zeros, after>>
    PROVE  /\ Opened' /\ ~LinkOver' /\ DoneOK' /\ out' = out + ret /\ ret <= n
           /\ left' = rest
           /\ ~failed' => ~failed /\ ret = n
           /\ \A l \in Links : l > link => file'.written[l] = 0
           /\ ~failed' => file'.written[link] = out' /\ out' <= Exact(link)
           /\ pc' = IF rest > 0 /\ out' < Exact(link) THEN "write"
                    ELSE IF after = "none" THEN "read" ELSE "drain"
<1>1. /\ ret \in Taken(n) /\ out' = out + ret /\ left' = rest
      /\ failed' = (failed \/ (Owed(out) > 0 /\ ret # n))
      /\ file' = [file EXCEPT !.written[link] = @ + Max2(ret, 0),
                              !.size = @ + SampleSize * ret * fmt.channels]
      /\ pc' = IF GoesOn(rest, out + ret) THEN "write"
               ELSE IF after = "none" THEN "read" ELSE "drain"
    BY DEF Put
<1>2. /\ Opened /\ link \in Links /\ fmt.rate \in Nat \ {0} /\ out \in Int
      /\ read \in [Links -> Nat] /\ file.written \in [Links -> Nat]
      /\ Links \subseteq Nat \ {0} /\ link \in Nat
      /\ after \in {"none", "enter", "patch"}
    BY SourceType DEF Opened, IInv, PlaceOK, DecidedOK, FileOK, TypeOK
<1>3. TakenOK /\ DoneOK
    BY <1>2 DEF LInv
<1>4. Exact(link) \in Nat
    BY <1>2, ExactBounds
<1>5. Owed(out) = Max2(0, Exact(link) - out) /\ Owed(out + ret) = Max2(0, Exact(link) - (out + ret))
    BY <1>2, OwedIs
<1>6. ret <= n
    BY <1>1 DEF Taken
<1>7. ~failed' => ~failed /\ ret = n
    <2>1. Owed(out) = 0 => n = 0 /\ ret = 0
        BY <1>1 DEF Taken
    <2>2. Owed(out) \in Nat
        BY <1>2, OwedNat
    <2>3. ~failed' => ~failed /\ ~(Owed(out) > 0 /\ ret # n)
        BY <1>1, Zenon
    <2> QED
        BY <2>1, <2>2, <2>3
<1>8. Opened' /\ pc' \in {"write", "read", "drain"}
    BY <1>1 DEF Opened
<1>9. ~LinkOver'
    BY <1>8 DEF LinkOver
<1>10. Links' = Links /\ \A l : Exact(l)' = Exact(l)
    BY SameInput
<1>11. file'.written = [file.written EXCEPT ![link] = @ + Max2(ret, 0)]
    BY <1>1 DEF IInv, FileOK
<1>12. \A l \in Links \ {link} : file'.written[l] = file.written[l]
    BY <1>2, <1>11
<1>13. DoneOK'
    <2>1. \A l \in 1..(link - 1) : l \in Links \ {link}
        BY <1>2 DEF Links
    <2> QED
        BY <1>3, <1>7, <1>9, <1>10, <1>12, <2>1 DEF DoneOK
<1>14. \A l \in Links : l > link => file'.written[l] = 0
    BY <1>2, <1>3, <1>12 DEF TakenOK
<1>15. ~failed' => file'.written[link] = out' /\ out' <= Exact(link)
    <2> SUFFICES ASSUME ~failed' PROVE file'.written[link] = out' /\ out' <= Exact(link)
        OBVIOUS
    <2>1. ~failed /\ ret = n
        BY <1>7
    <2>2. file.written[link] = out /\ out <= Exact(link)
        BY <1>2, <1>3, <2>1 DEF TakenOK
    <2>3. file'.written[link] = file.written[link] + Max2(n, 0) /\ Max2(n, 0) = n
        BY <1>2, <1>11, <2>1 DEF Max2
    <2>4. n <= Exact(link) - out
        BY <1>2, <1>4, <1>5, <2>2 DEF Max2
    <2> QED
        BY <1>1, <1>2, <1>4, <2>1, <2>2, <2>3, <2>4
<1>16. GoesOn(rest, out + ret) <=> rest > 0 /\ out' < Exact(link)
    BY <1>1, <1>2, <1>4, <1>5 DEF GoesOn, Max2
<1> QED
    BY <1>1, <1>6, <1>7, <1>8, <1>9, <1>13, <1>14, <1>15, <1>16

(* Without a resampler: if the buffer is not put out whole, a write        *)
(* failed.                                                                 *)
LEMMA LengthWriteDirectly == IInv /\ LInv /\ WriteDirectly => LInv'
<1> SUFFICES ASSUME IInv, LInv, WriteDirectly PROVE LInv'
    OBVIOUS
<1> DEFINE n == Min2(left, Owed(out))
<1>1. /\ pc = "write" /\ resampler = None /\ resampler' = None
      /\ UNCHANGED <<command, source, seekable, fmt, link, read, pending, zeros, after>>
    BY DEF WriteDirectly
<1>2. PICK ret \in -1..MaxRead : Put(n, ret, 0)
    BY DEF WriteDirectly
<1>3. /\ Opened /\ link \in Links /\ fmt.rate \in Nat \ {0} /\ out \in Int /\ left \in Nat
      /\ read \in [Links -> Nat] /\ after = "none"
    BY <1>1 DEF Opened, IInv, PlaceOK, DecidedOK, TypeOK
<1>4. RateOK /\ TakenOK /\ DirectOK /\ MoreOK
    BY <1>3 DEF LInv
<1>5. Owed(out) \in Nat
    BY <1>3, OwedNat
<1>6. n \in Nat /\ n <= Owed(out)
    BY <1>3, <1>5 DEF Min2
<1> HIDE DEF n
<1>7. ret \in Int
    BY OpusDecAssumption
<1>8. /\ Opened' /\ ~LinkOver' /\ DoneOK' /\ out' = out + ret
      /\ ~failed' => ~failed /\ ret = n
      /\ \A l \in Links : l > link => file'.written[l] = 0
      /\ ~failed' => file'.written[link] = out' /\ out' <= Exact(link)
      /\ pc' = IF 0 > 0 /\ out' < Exact(link) THEN "write"
               ELSE IF after = "none" THEN "read" ELSE "drain"
    BY <1>1, <1>2, <1>6, <1>7, PutLength
<1>9. Links' = Links /\ \A l : Exact(l)' = Exact(l)
    BY <1>1, SameInput
<1>10. fmt.rate = FullRate /\ ~LinkOver
    BY <1>1, <1>3, <1>4 DEF RateOK, LinkOver
<1>11. RateOK' /\ TakenOK' /\ FedOK' /\ MoreOK'
    BY <1>1, <1>3, <1>8, <1>9, <1>10 DEF RateOK, TakenOK, FedOK, MoreOK
<1>12. DirectOK'
    <2> SUFFICES ASSUME ~failed' PROVE out' + 0 = read[link]
        BY <1>1, <1>8 DEF DirectOK, Held
    <2>1. out + left = read[link]
        BY <1>1, <1>3, <1>4, <1>8, <1>10 DEF DirectOK, Held
    <2>2. Owed(out) = Max2(0, read[link] - out)
        BY <1>3, <1>10, OwedIs, ExactDirect
    <2>3. read[link] \in Nat
        BY <1>3
    <2>4. n = left
        BY <1>3, <2>1, <2>2, <2>3 DEF n, Min2, Max2
    <2> QED
        BY <1>3, <1>8, <2>1, <2>3, <2>4
<1> QED
    BY <1>8, <1>11, <1>12 DEF LInv

(* What a turn of the resampler makes and uses.                            *)
LEMMA TurnMakes ==
    ASSUME fmt.rate \in Nat \ {0}, NEW fed \in Nat, NEW m \in Nat, NEW held \in Nat \ {0},
           m <= Ready(fed + held), NEW room \in Nat,
           NEW made, made = Min2(room, Max2(0, Ready(fed + held) - m)),
           NEW u \in IF room = 0 THEN {0}
                     ELSE IF made < room THEN {held}
                     ELSE 0..Min2(held, Max2(0, Reach(m + made) - fed))
    PROVE  /\ made \in Nat /\ made <= room /\ u \in 0..held
           /\ m + made <= Ready(fed + held)
           /\ u = held /\ room # 0 => m + made = Ready(fed + held)
<1>1. fed + held \in Nat /\ Ready(fed + held) \in Nat
    BY ReadyReachNat
<1>2. made \in Nat /\ made <= room /\ m + made <= Ready(fed + held)
    BY <1>1 DEF Min2, Max2
<1>3. made < room => m + made = Ready(fed + held)
    BY <1>1 DEF Min2, Max2
<1>4. Reach(m + made) \in Nat
    BY <1>2, ReadyReachNat
<1> DEFINE most == Min2(held, Max2(0, Reach(m + made) - fed))
<1>5. most \in 0..held
    BY <1>4 DEF Min2, Max2
<1>6. u \in 0..held
    BY <1>5
<1>7. ASSUME u = held, room # 0, ~(made < room) PROVE m + made = Ready(fed + held)
    <2>1. held <= most
        BY <1>5, <1>7
    <2>2. fed + held <= Reach(m + made)
        BY <1>4, <2>1 DEF Min2, Max2
    <2>3. Ready(fed + held) <= Ready(Reach(m + made))
        BY <1>1, <1>4, <2>2, ReadyMonotone
    <2>4. Ready(Reach(m + made)) <= m + made /\ Ready(Reach(m + made)) \in Nat
        BY <1>2, <1>4, ReadyReach, ReadyReachNat
    <2> QED
        BY <1>1, <1>2, <2>3, <2>4
<1> QED
    BY <1>2, <1>3, <1>6, <1>7

(* With a resampler: the loop is left because the input was used up, or    *)
(* because nothing is owed; and then either the zeros are being drained,   *)
(* or the link has not come to one sample yet.                             *)
LEMMA LengthWriteResampled == IInv /\ LInv /\ WriteResampled => LInv'
<1> SUFFICES ASSUME IInv, LInv, WriteResampled PROVE LInv'
    OBVIOUS
<1> DEFINE made == Min2(Room, Max2(0, Ready(resampler.fed + left) - resampler.made))
           used == IF Room = 0 THEN {0}
                   ELSE IF made < Room THEN {left}
                   ELSE 0..Min2(left, Max2(0, Reach(resampler.made + made) - resampler.fed))
           fed == resampler.fed
           m == resampler.made
<1>1. /\ pc = "write" /\ resampler # None
      /\ UNCHANGED <<command, source, seekable, fmt, link, read, pending, zeros, after>>
    BY DEF WriteResampled
<1>2. PICK u \in used, ret \in -1..OutChunk :
        /\ Put(made, ret, left - u)
        /\ resampler' = [fed |-> resampler.fed + u, made |-> resampler.made + made]
    BY DEF WriteResampled
<1>3. /\ Opened /\ link \in Links /\ fmt.rate \in Nat \ {0} /\ out \in Int /\ left \in Nat
      /\ read \in [Links -> Nat] /\ fed \in Nat /\ m \in Nat /\ zeros \in Nat
      /\ after \in {"none", "enter", "patch"} /\ FullRate \in Nat \ {0}
    BY <1>1, OpusDecAssumption DEF Opened, IInv, PlaceOK, DecidedOK, TypeOK
<1>4. /\ RateOK /\ TakenOK /\ FedOK /\ left \in Nat \ {0}
    BY <1>1, <1>3 DEF LInv, MoreOK
<1>5. Owed(out) \in Nat /\ Owed(out) = Max2(0, Exact(link) - out) /\ Exact(link) \in Nat
    BY <1>3, OwedNat, OwedIs, ExactBounds
<1>6. Room \in Nat /\ Room <= Owed(out) /\ (Room = 0 <=> Owed(out) = 0)
    BY <1>5, OpusDecAssumption DEF Room, Min2
<1>7. Ready(fed + left) \in Nat
    BY <1>3, ReadyReachNat
<1>8. made \in Nat /\ made <= Room
    BY <1>3, <1>6, <1>7 DEF Min2, Max2
<1>9. u \in 0..left
    <2>1. Reach(m + made) \in Nat
        BY <1>3, <1>8, ReadyReachNat
    <2> DEFINE most == Min2(left, Max2(0, Reach(m + made) - fed))
    <2>2. most \in Nat /\ most <= left
        BY <1>3, <2>1 DEF Min2, Max2
    <2>3. u = 0 \/ u = left \/ u \in 0..most
        BY <1>2
    <2> HIDE DEF most, made
    <2> QED
        BY <1>3, <2>2, <2>3
<1>10. ret \in Int /\ left - u \in Nat /\ made <= Owed(out)
    BY <1>3, <1>5, <1>6, <1>8, <1>9, OpusDecAssumption
<1>11. /\ Opened' /\ ~LinkOver' /\ DoneOK' /\ out' = out + ret /\ ret <= made
       /\ left' = left - u
       /\ ~failed' => ~failed /\ ret = made
       /\ \A l \in Links : l > link => file'.written[l] = 0
       /\ ~failed' => file'.written[link] = out' /\ out' <= Exact(link)
       /\ pc' = IF left - u > 0 /\ out' < Exact(link) THEN "write"
                ELSE IF after = "none" THEN "read" ELSE "drain"
    <2> HIDE DEF made
    <2> QED
        BY <1>1, <1>2, <1>8, <1>10, PutLength
<1>12. /\ Links' = Links /\ Latency' = Latency
       /\ \A l : Exact(l)' = Exact(l)
       /\ \A j : Ready(j)' = Ready(j)
    BY <1>1, SameInput
<1>13. resampler' # None /\ resampler'.fed = fed + u /\ resampler'.made = m + made
    <2>1. resampler'.fed = fed + u /\ resampler'.made = m + made
        BY <1>2
    <2> HIDE DEF made, fed
    <2> QED
        BY <1>3, <1>9, <2>1 DEF None
<1>14. fmt.rate # FullRate /\ out <= m /\ (~failed => out = m)
    BY <1>1, <1>4 DEF RateOK, TakenOK
<1>15. out' <= m + made /\ (~failed' => out' = m + made) /\ out' \in Int
    <2> HIDE DEF made, m
    <2> QED
        BY <1>3, <1>8, <1>10, <1>11, <1>14
<1>16. RateOK' /\ TakenOK' /\ DirectOK'
    <2>1. pc' # "enter" /\ (after = "enter" => pending.link # link)
        BY <1>4, <1>11 DEF RateOK
    <2> HIDE DEF made, m
    <2> QED
        BY <1>1, <1>11, <1>12, <1>13, <1>14, <1>15, <2>1 DEF RateOK, TakenOK, DirectOK
<1>17. MoreOK'
    <2>1. pc' # "enter" /\ (pc' = "write" => left' > 0)
        BY <1>11
    <2>2. after = "enter" => pending.n > 0
        BY <1>3 DEF LInv, MoreOK
    <2> QED
        BY <1>1, <2>1, <2>2 DEF MoreOK
<1>18. FedOK'
    <2>1. CASE after # "none" /\ Exact(link) <= out'
        BY <1>1, <1>12, <2>1 DEF FedOK
    <2>2. CASE ~(after # "none" /\ Exact(link) <= out')
        <3>1. ~(after # "none" /\ Exact(link) <= out)
            <4> SUFFICES ASSUME after # "none", Exact(link) <= out PROVE FALSE
                OBVIOUS
            <4>1. Owed(out) = 0 /\ ret = 0
                <5>1. Owed(out) = 0
                    BY <1>3, <1>5 DEF Max2
                <5> QED
                    BY <1>2, <5>1 DEF Put, Taken
            <4> QED
                BY <1>3, <1>11, <2>2, <4>1
        <3>2. Gap \in Nat /\ Gap * fmt.rate < FullRate /\ m <= Ready(fed + left)
            BY <1>1, <1>4, <3>1 DEF FedOK
        <3>3. /\ m + made <= Ready(fed + left)
              /\ u = left /\ Room # 0 => m + made = Ready(fed + left)
            BY <1>2, <1>3, <1>4, <1>6, <3>2, TurnMakes
        <3> DEFINE due == IF after = "none" THEN read[link] ELSE read[link] + Latency - zeros
        <3>4. Due = due /\ Due' = due /\ due \in Int
            <4>1. read[link] \in Nat /\ Latency \in Nat
                BY <1>3, LatencyNat
            <4> QED
                BY <1>1, <1>3, <1>12, <4>1 DEF Due
        <3> HIDE DEF made, m, due
        <3>5. Gap = due - fed - left
            BY <1>1, <3>4 DEF Gap, Held
        <3>6. CASE pc' = "write"
            <4>1. Gap' = due - (fed + u) - (left - u)
                BY <1>11, <1>13, <3>4, <3>6 DEF Gap, Held
            <4>2. Gap' = Gap /\ (fed + u) + (left - u) = fed + left
                BY <1>3, <1>9, <3>4, <3>5, <4>1
            <4> QED
                BY <1>1, <1>11, <1>12, <1>13, <3>2, <3>3, <3>6, <4>2 DEF FedOK
        <3>7. CASE pc' # "write" /\ u = left /\ Room # 0
            <4>1. Gap' = due - (fed + left) - 0
                BY <1>13, <3>4, <3>7 DEF Gap, Held
            <4>2. Gap' = Gap
                BY <1>3, <3>4, <3>5, <4>1
            <4> QED
                BY <1>1, <1>12, <1>13, <3>2, <3>3, <3>7, <4>2 DEF FedOK
        <3>8. CASE pc' # "write" /\ ~(u = left /\ Room # 0)
            <4>1. Exact(link) <= out'
                <5>1. CASE Room = 0
                    <6>1. Exact(link) <= out
                        BY <1>3, <1>5, <1>6, <5>1 DEF Max2
                    <6>2. ret = 0
                        BY <1>2, <1>6, <5>1 DEF Put, Taken
                    <6> QED
                        BY <1>3, <1>11, <6>1, <6>2
                <5>2. CASE Room # 0
                    <6>1. left - u > 0
                        BY <1>3, <1>9, <3>8, <5>2
                    <6> QED
                        BY <1>5, <1>11, <1>15, <3>8, <6>1
                <5> QED
                    BY <5>1, <5>2
            <4>2. after = "none" /\ due = read[link]
                BY <2>2, <4>1 DEF due
            <4>3. read[link] \in Nat /\ fed + left <= read[link]
                <5>1. read[link] \in Nat
                    BY <1>3
                <5> QED
                    BY <1>3, <3>2, <3>5, <4>2, <5>1
            <4>4. Ready(fed + left) <= Ready(read[link]) /\ Ready(read[link]) \in Nat
                BY <1>3, <4>3, ReadyMonotone, ReadyReachNat
            <4>5. Exact(link) <= Ready(read[link])
                BY <1>3, <1>5, <1>7, <1>8, <1>15, <3>3, <4>1, <4>4 DEF m
            <4>6. read[link] * fmt.rate < FullRate /\ Ready(read[link]) = 0
                BY <1>3, <4>5, NeedsZeros
            <4>7. Gap' = read[link] - (fed + u) - 0
                BY <1>13, <3>4, <3>8, <4>2 DEF Gap, Held
            <4>8. Gap' \in Nat /\ Gap' <= read[link]
                BY <1>3, <1>9, <4>3, <4>7
            <4>9. Gap' * fmt.rate < FullRate
                <5>1. Gap' * fmt.rate <= read[link] * fmt.rate
                    BY <1>3, <4>3, <4>8, TimesMono
                <5>2. Gap' * fmt.rate \in Nat /\ read[link] * fmt.rate \in Nat
                    BY <1>3, <4>3, <4>8, TimesNat
                <5> QED
                    BY <1>3, <4>6, <5>1, <5>2
            <4>10. m + made = Ready(fed + u)
                <5>1. m + made = 0
                    BY <1>3, <1>7, <1>8, <3>3, <4>4, <4>6 DEF m
                <5>2. Ready(fed + u) <= Ready(read[link]) /\ Ready(fed + u) \in Nat
                    <6>1. fed + u \in Nat /\ fed + u <= read[link]
                        BY <1>3, <1>9, <4>3
                    <6> QED
                        BY <1>3, <4>3, <6>1, ReadyMonotone, ReadyReachNat
                <5> QED
                    BY <4>6, <5>1, <5>2
            <4> QED
                BY <1>1, <1>12, <1>13, <3>8, <4>8, <4>9, <4>10 DEF FedOK
        <3> QED
            BY <3>6, <3>7, <3>8
    <2> QED
        BY <2>1, <2>2
<1> QED
    BY <1>11, <1>16, <1>17, <1>18 DEF LInv

(* When the zeros are drained the link has all it comes to.                *)
LEMMA LengthDrain == IInv /\ LInv /\ Drain => LInv'
<1> SUFFICES ASSUME IInv, LInv, Drain PROVE LInv'
    OBVIOUS
<1>1. /\ pc = "drain"
      /\ UNCHANGED <<command, source, seekable, fmt, link, read, out, pending, file, failed>>
      /\ \/ /\ zeros > 0 /\ pc' = "write" /\ left' = Piece /\ zeros' = zeros - Piece
            /\ UNCHANGED <<resampler, after>>
         \/ /\ ~(zeros > 0) /\ pc' = after /\ after' = "none" /\ resampler' = None
            /\ UNCHANGED <<left, zeros>>
    BY DEF Drain
<1>2. /\ resampler # None /\ link \in Links /\ after \in {"enter", "patch"}
      /\ zeros \in Nat /\ Opened /\ fmt.rate \in Nat \ {0} /\ read \in [Links -> Nat]
      /\ resampler.fed \in Nat /\ resampler.made \in Nat /\ out \in Int
    BY <1>1 DEF IInv, PlaceOK, TypeOK, Opened, DecidedOK
<1>3. RateOK /\ TakenOK /\ FedOK /\ MoreOK /\ DoneOK
    BY <1>2 DEF LInv
<1>4. Latency \in Nat /\ read[link] \in Nat /\ Exact(link) \in Nat
    BY <1>2, LatencyNat, ExactBounds
<1>5. Opened'
    BY <1>1, <1>2 DEF Opened
<1>6. /\ Links' = Links /\ Latency' = Latency
      /\ \A l : Exact(l)' = Exact(l)
      /\ \A j : Ready(j)' = Ready(j)
    BY <1>1, SameInput
<1>7. pending.link # link \/ after = "patch"
    BY <1>2, <1>3 DEF RateOK
<1>8. CASE zeros > 0
    <2>1. /\ pc' = "write" /\ left' = Piece /\ zeros' = zeros - Piece
          /\ UNCHANGED <<resampler, after>>
        BY <1>1, <1>8
    <2>2. Piece \in Nat \ {0} /\ Piece <= zeros
        BY <1>2, <1>8, OpusDecAssumption DEF Piece, Min2
    <2>3. ~LinkOver'
        BY <2>1 DEF LinkOver
    <2>4. RateOK' /\ TakenOK' /\ DirectOK' /\ MoreOK'
        BY <1>1, <1>2, <1>3, <1>6, <2>1, <2>2, <2>3 DEF RateOK, TakenOK, DirectOK, MoreOK
    <2>5. DoneOK'
        BY <1>1, <1>3, <1>6, <2>3 DEF DoneOK
    <2>6. FedOK'
        <3>1. CASE Exact(link) <= out
            BY <1>1, <1>2, <1>6, <2>1, <3>1 DEF FedOK
        <3>2. CASE ~(Exact(link) <= out)
            <4>1. /\ Gap \in Nat /\ Gap * fmt.rate < FullRate
                  /\ resampler.made = Ready(resampler.fed)
                BY <1>1, <1>2, <1>3, <3>2 DEF FedOK
            <4>2. Gap = (read[link] + Latency - zeros) - resampler.fed - 0
                BY <1>1, <1>2 DEF Gap, Due, Held
            <4>3. Gap' = (read[link] + Latency - (zeros - Piece)) - resampler.fed - Piece
                BY <1>1, <1>2, <1>6, <2>1 DEF Gap, Due, Held
            <4>4. Gap' = Gap
                BY <1>2, <1>4, <2>2, <4>2, <4>3
            <4>5. Ready(resampler.fed) <= Ready(resampler.fed + Piece)
                BY <1>2, <2>2, ReadyMonotone
            <4> QED
                BY <1>1, <1>6, <2>1, <4>1, <4>4, <4>5 DEF FedOK
        <3> QED
            BY <3>1, <3>2
    <2> QED
        BY <1>5, <2>4, <2>5, <2>6 DEF LInv
<1>9. CASE ~(zeros > 0)
    <2>1. /\ pc' = after /\ after' = "none" /\ resampler' = None
          /\ UNCHANGED <<left, zeros>>
        BY <1>1, <1>9
    <2>2. LinkOver'
        BY <1>1, <1>2, <1>7, <2>1 DEF LinkOver
    <2>3. ~failed => file.written[link] = Exact(link)
        <3> SUFFICES ASSUME ~failed PROVE file.written[link] = Exact(link)
            OBVIOUS
        <3>1. file.written[link] = out /\ out <= Exact(link) /\ out = resampler.made
            BY <1>2, <1>3 DEF TakenOK
        <3>2. Exact(link) <= out
            <4> SUFFICES ASSUME ~(Exact(link) <= out) PROVE FALSE
                OBVIOUS
            <4>1. /\ Gap \in Nat /\ Gap * fmt.rate < FullRate
                  /\ resampler.made = Ready(resampler.fed)
                BY <1>1, <1>2, <1>3 DEF FedOK
            <4>2. Gap = (read[link] + Latency - zeros) - resampler.fed - 0
                BY <1>1, <1>2 DEF Gap, Due, Held
            <4>3. zeros = 0
                BY <1>2, <1>9
            <4>4. /\ resampler.fed = read[link] + Latency - Gap
                  /\ Gap <= read[link] + Latency
                BY <1>2, <1>4, <4>1, <4>2, <4>3
            <4>5. Exact(link) <= Ready(read[link] + Latency - Gap)
                BY <1>2, <4>1, <4>4, ZerosSuffice
            <4> QED
                BY <3>1, <4>1, <4>4, <4>5
        <3> QED
            BY <1>2, <1>4, <3>1, <3>2
    <2>4. RateOK' /\ TakenOK' /\ DirectOK' /\ FedOK'
        BY <1>1, <1>2, <1>3, <1>6, <2>1, <2>2 DEF RateOK, TakenOK, DirectOK, FedOK
    <2>5. MoreOK'
        BY <1>1, <1>2, <1>3, <2>1 DEF MoreOK
    <2>6. DoneOK'
        BY <1>1, <1>3, <1>6, <2>3 DEF DoneOK
    <2> QED
        BY <1>5, <2>4, <2>5, <2>6 DEF LInv
<1> QED
    BY <1>8, <1>9

(* The header has no samples.                                              *)
LEMMA LengthPatch == IInv /\ LInv /\ Patch => LInv'
<1> SUFFICES ASSUME IInv, LInv, Patch PROVE LInv'
    OBVIOUS
<1>1. /\ pc = "patch" /\ pc' = "end" /\ file'.written = file.written
      /\ UNCHANGED <<command, source, seekable, fmt, link, read, out, resampler,
                     pending, left, zeros, after, failed>>
    BY DEF Patch, IInv, FileOK
<1>2. /\ Opened /\ Opened' /\ LinkOver /\ LinkOver'
      /\ RateOK /\ TakenOK /\ DirectOK /\ FedOK /\ MoreOK /\ DoneOK
    BY <1>1 DEF Opened, LInv, LinkOver
<1>3. Links' = Links /\ \A l : Exact(l)' = Exact(l)
    BY <1>1, SameInput
<1>4. RateOK' /\ TakenOK' /\ DirectOK' /\ FedOK' /\ MoreOK' /\ DoneOK'
    BY <1>1, <1>2, <1>3 DEF RateOK, TakenOK, DirectOK, FedOK, MoreOK, DoneOK
<1> QED
    BY <1>2, <1>4 DEF LInv

(* Every step preserves the sums.                                          *)
LEMMA NextLength == IInv /\ LInv /\ [Next]_vars => LInv'
<1> SUFFICES ASSUME IInv, LInv, [Next]_vars PROVE LInv'
    OBVIOUS
<1>1. CASE Open
    BY <1>1, LengthOpen
<1>2. CASE OpenFails
    BY <1>2, LengthOpenFails
<1>3. CASE ReadFrame
    BY <1>3, LengthReadFrame
<1>4. CASE ReadEnds
    BY <1>4, LengthReadEnds
<1>5. CASE Enter
    BY <1>5, LengthEnter
<1>6. CASE EnterWithoutMemory
    BY <1>6, LengthEnterWithoutMemory
<1>7. CASE WriteResampled
    BY <1>7, LengthWriteResampled
<1>8. CASE WriteDirectly
    BY <1>8, LengthWriteDirectly
<1>9. CASE Drain
    BY <1>9, LengthDrain
<1>10. CASE Patch
    BY <1>10, LengthPatch
<1>11. CASE UNCHANGED vars
    BY <1>11 DEF vars, LInv, Links, Opened, RateOK, LinkOver, TakenOK, DirectOK, FedOK,
                 MoreOK, DoneOK, Gap, Due, Held, Exact, Ready, Latency
<1> QED
    BY <1>1, <1>2, <1>3, <1>4, <1>5, <1>6, <1>7, <1>8, <1>9, <1>10, <1>11 DEF Next

(* What is fed, made and put out of a link adds up in every behaviour      *)
(* (main, audio_write and drain_resampler, opusdec.c).                     *)
THEOREM LengthInvariance == Spec => []LInv
BY Invariance, LengthInit, NextLength, PTL DEF Spec

(* A link that is over has come out at its exact length, whatever the      *)
(* lengths of the reads, the delay of the resampler and the chunks of its  *)
(* output, and no link is ever too long, unless a write failed             *)
(* (audio_write, opusdec.c:486, and drain_resampler, 642).                 *)
THEOREM LengthHolds == Spec => []ExactLength
<1>1. IInv /\ LInv => ExactLength
    <2> SUFFICES ASSUME IInv, LInv PROVE ExactLength
        OBVIOUS
    <2>1. link \in {0} \cup Links /\ Links \subseteq Nat \ {0}
        BY SourceType DEF IInv, TypeOK
    <2>2. CASE ~Opened
        BY <2>1, <2>2 DEF LInv, Opened, ExactLength, Finished
    <2>3. CASE Opened
        <3>1. TakenOK /\ DoneOK
            BY <2>3 DEF LInv
        <3>2. pc = "end" => LinkOver
            BY DEF LinkOver
        <3>3. ~failed => \A l \in Finished : file.written[l] = Exact(l)
            BY <3>1, <3>2 DEF DoneOK, Finished
        <3> QED
            BY <2>1, <3>1, <3>3 DEF ExactLength, TakenOK
    <2> QED
        BY <2>2, <2>3
<1> QED
    BY <1>1, Invariance, LengthInvariance, PTL

(* The loop of audio_write is left for want of room while there is input   *)
(* only at the beginning of a link, when less than one sample of output is *)
(* lost; also when writes fail (audio_write, opusdec.c:486).               *)
THEOREM DropsHold == Spec => []DropsLessThanOne
<1>1. IInv /\ LInv => DropsLessThanOne
    <2> SUFFICES ASSUME IInv, LInv, pc = "read", resampler # None
                 PROVE  (read[link] - resampler.fed) * fmt.rate < FullRate
        BY DEF DropsLessThanOne
    <2>1. Opened /\ after = "none" /\ link \in Links
        BY DEF Opened, IInv, PlaceOK
    <2>2. Gap * fmt.rate < FullRate
        BY <2>1 DEF LInv, FedOK
    <2>3. read[link] \in Nat /\ resampler.fed \in Nat
        BY <2>1 DEF IInv, TypeOK
    <2>4. Gap = read[link] - resampler.fed - 0
        BY <2>1 DEF Gap, Due, Held
    <2>5. Gap = read[link] - resampler.fed
        BY <2>3, <2>4
    <2> QED
        BY <2>2, <2>5
<1> QED
    BY <1>1, Invariance, LengthInvariance, PTL

-----------------------------------------------------------------------------
(* The sizes in the header.                                                *)

(* The sum of the first n numbers of w.                                    *)
Sum(w, n) ==
    LET sum[l \in {0} \cup (1..n)] == IF l = 0 THEN 0 ELSE sum[l - 1] + w[l]
    IN  sum[n]

(* What it is computed from: f has the sums of the first 0, 1, ... numbers. *)
Adds(w, n, f) == f \in [0..n -> Nat] /\ f[0] = 0 /\ \A i \in 1..n : f[i] = f[i - 1] + w[i]

(* A set of numbers that is not empty has a least one.                     *)
LEMMA Least ==
    ASSUME NEW T, T \subseteq Nat, T # {}
    PROVE  \E m \in T : \A n \in T : m <= n
<1>1. PICK m \in T : \A n \in T : <<n, m>> \notin OpToRel(<, Nat)
    BY NatLessThanWellFounded, WFMin
<1>2. ASSUME NEW n \in T PROVE m <= n
    <2>1. n \in Nat /\ m \in Nat
        OBVIOUS
    <2>2. <<n, m>> \notin {ss \in Nat \X Nat : ss[1] < ss[2]}
        BY <1>1 DEF OpToRel
    <2> QED
        BY <2>1, <2>2
<1> QED
    BY <1>2

(* The running sums exist: there is no first place where they end.         *)
LEMMA AddsExists ==
    ASSUME NEW N \in Nat, NEW w \in [1..N -> Nat]
    PROVE  \E f : Adds(w, N, f)
<1> DEFINE Has(n) == \E f : Adds(w, n, f)
           Bad == {n \in 0..N : ~Has(n)}
<1>1. Has(0)
    <2>1. Adds(w, 0, [i \in 0..0 |-> 0])
        BY DEF Adds
    <2> QED
        BY <2>1
<1>2. ASSUME NEW n \in 1..N, Has(n - 1) PROVE Has(n)
    <2>1. PICK f : Adds(w, n - 1, f)
        BY <1>2
    <2>2. f \in [0..(n - 1) -> Nat] /\ f[0] = 0 /\ \A i \in 1..(n - 1) : f[i] = f[i - 1] + w[i]
        BY <2>1 DEF Adds
    <2>3. n - 1 \in 0..(n - 1) /\ \A i \in 0..n : i # n => i \in 0..(n - 1)
        OBVIOUS
    <2>4. PICK last \in Nat : last = f[n - 1] + w[n]
        BY <2>2, <2>3
    <2> DEFINE g == [i \in 0..n |-> IF i = n THEN last ELSE f[i]]
    <2>5. g \in [0..n -> Nat] /\ g[0] = 0
        BY <2>2, <2>3
    <2>6. ASSUME NEW i \in 1..n PROVE g[i] = g[i - 1] + w[i]
        <3>1. i - 1 \in 0..n /\ i - 1 # n /\ i \in 0..n
            OBVIOUS
        <3>2. g[i - 1] = f[i - 1]
            BY <3>1
        <3>3. CASE i = n
            BY <2>4, <3>1, <3>2, <3>3
        <3>4. CASE i # n
            <4>1. i \in 1..(n - 1)
                BY <3>4
            <4> QED
                BY <2>2, <3>1, <3>2, <3>4, <4>1
        <3> QED
            BY <3>3, <3>4
    <2>7. Adds(w, n, g)
        BY <2>5, <2>6 DEF Adds
    <2> QED
        BY <2>7
<1>3. ASSUME Bad # {} PROVE FALSE
    <2>1. PICK n \in Bad : \A m \in Bad : n <= m
        <3>1. Bad \subseteq Nat
            OBVIOUS
        <3> HIDE DEF Bad
        <3> QED
            BY <1>3, <3>1, Least
    <2>2. n \in 0..N /\ ~Has(n)
        OBVIOUS
    <2> HIDE DEF Has
    <2>3. n \in 1..N
        BY <1>1, <2>2
    <2>4. n - 1 \in 0..N /\ ~(n <= n - 1)
        BY <2>3
    <2>5. Has(n - 1)
        BY <2>1, <2>4
    <2> QED
        BY <1>2, <2>2, <2>3, <2>5
<1>4. Has(N)
    <2> HIDE DEF Has
    <2>1. N \in 0..N
        OBVIOUS
    <2> QED
        BY <1>3, <2>1
<1> QED
    BY <1>4

(* The sum is the last of them.                                            *)
LEMMA SumAdds ==
    ASSUME NEW N \in Nat, NEW w \in [1..N -> Nat]
    PROVE  \E f : Adds(w, N, f) /\ Sum(w, N) = f[N]
<1> DEFINE F(t) == [l \in {0} \cup (1..N) |-> IF l = 0 THEN 0 ELSE t[l - 1] + w[l]]
           sum == CHOOSE t : t = F(t)
<1>1. {0} \cup (1..N) = 0..N
    OBVIOUS
<1>2. PICK f : Adds(w, N, f)
    BY AddsExists
<1>3. f = F(f)
    <2>1. f \in [0..N -> Nat] /\ f[0] = 0 /\ \A i \in 1..N : f[i] = f[i - 1] + w[i]
        BY <1>2 DEF Adds
    <2>2. ASSUME NEW l \in {0} \cup (1..N) PROVE f[l] = F(f)[l]
        BY <2>1
    <2> HIDE DEF F
    <2>3. F(f) = [l \in {0} \cup (1..N) |-> F(f)[l]]
        BY DEF F
    <2> QED
        BY <1>1, <2>1, <2>2, <2>3
<1>4. sum = F(sum)
    <2> HIDE DEF F
    <2> QED
        BY <1>3
<1>5. Sum(w, N) = sum[N]
    BY DEF Sum
<1>6. Adds(w, N, sum)
    <2> HIDE DEF sum
    <2>1. sum[0] = 0 /\ \A i \in 1..N : sum[i] = sum[i - 1] + w[i]
        BY <1>4
    <2>2. \A i \in 0..N : sum[i] \in Nat
        <3> DEFINE Bad == {i \in 0..N : sum[i] \notin Nat}
        <3> SUFFICES ASSUME Bad # {} PROVE FALSE
            OBVIOUS
        <3>1. PICK n \in Bad : \A m \in Bad : n <= m
            <4>1. Bad \subseteq Nat
                OBVIOUS
            <4> HIDE DEF Bad
            <4> QED
                BY <4>1, Least
        <3>2. n \in 1..N /\ sum[n] \notin Nat
            BY <2>1
        <3>3. n - 1 \in 0..N /\ ~(n <= n - 1)
            BY <3>2
        <3>4. sum[n - 1] \in Nat
            BY <3>1, <3>3
        <3> QED
            BY <2>1, <3>2, <3>4
    <2>3. sum \in [0..N -> Nat]
        BY <1>1, <1>4, <2>2
    <2> QED
        BY <2>1, <2>3 DEF Adds
<1> QED
    BY <1>5, <1>6

(* A sum is a number, that of zeros is zero, and it grows with one of its  *)
(* numbers.                                                                *)
LEMMA SumGrows ==
    ASSUME NEW N \in Nat, NEW w \in [1..N -> Nat]
    PROVE  /\ Sum(w, N) \in Nat
           /\ (\A i \in 1..N : w[i] = 0) => Sum(w, N) = 0
           /\ \A k \in 1..N, d \in Nat, v \in [1..N -> Nat] :
                 v = [w EXCEPT ![k] = w[k] + d] => Sum(v, N) = Sum(w, N) + d
<1>1. PICK f : Adds(w, N, f) /\ Sum(w, N) = f[N]
    BY SumAdds
<1>2. /\ f \in [0..N -> Nat] /\ f[0] = 0 /\ (\A i \in 1..N : f[i] = f[i - 1] + w[i])
      /\ N \in 0..N
    BY <1>1 DEF Adds
<1>3. ASSUME \A i \in 1..N : w[i] = 0 PROVE f[N] = 0
    <2> DEFINE Bad == {i \in 0..N : f[i] # 0}
    <2>1. ASSUME Bad # {} PROVE FALSE
        <3>1. PICK n \in Bad : \A m \in Bad : n <= m
            <4>1. Bad \subseteq Nat
                OBVIOUS
            <4> HIDE DEF Bad
            <4> QED
                BY <2>1, <4>1, Least
        <3>2. n \in 1..N /\ f[n] # 0
            BY <1>2
        <3>3. n - 1 \in 0..N /\ ~(n <= n - 1)
            BY <3>2
        <3>4. f[n - 1] = 0
            BY <3>1, <3>3
        <3> QED
            BY <1>2, <1>3, <3>2, <3>4
    <2> QED
        BY <1>2, <2>1
<1>4. ASSUME NEW k \in 1..N, NEW d \in Nat, NEW v \in [1..N -> Nat], v = [w EXCEPT ![k] = w[k] + d]
      PROVE  Sum(v, N) = f[N] + d
    <2>1. PICK g : Adds(v, N, g) /\ Sum(v, N) = g[N]
        BY SumAdds
    <2>2. g \in [0..N -> Nat] /\ g[0] = 0 /\ \A i \in 1..N : g[i] = g[i - 1] + v[i]
        BY <2>1 DEF Adds
    <2>3. v[k] = w[k] + d /\ \A i \in 1..N : i # k => v[i] = w[i]
        BY <1>4
    <2> DEFINE Right(i) == g[i] = f[i] + (IF i < k THEN 0 ELSE d)
               Bad == {i \in 0..N : ~Right(i)}
    <2>4. ASSUME Bad # {} PROVE FALSE
        <3>1. PICK n \in Bad : \A m \in Bad : n <= m
            <4>1. Bad \subseteq Nat
                OBVIOUS
            <4> HIDE DEF Bad
            <4> QED
                BY <2>4, <4>1, Least
        <3>2. n \in 0..N /\ ~Right(n)
            OBVIOUS
        <3>3. n # 0
            BY <1>2, <2>2, <3>2
        <3>4. n \in 1..N /\ n - 1 \in 0..N /\ ~(n <= n - 1)
            BY <3>2, <3>3
        <3>5. Right(n - 1)
            BY <3>1, <3>4
        <3>6. /\ g[n] = g[n - 1] + v[n] /\ f[n] = f[n - 1] + w[n]
              /\ v[n] = w[n] + (IF n = k THEN d ELSE 0)
              /\ f[n - 1] \in Nat /\ w[n] \in Nat
            <4>1. f[n - 1] \in Nat /\ w[n] \in Nat
                BY <1>2, <3>4
            <4>2. v[n] = w[n] + (IF n = k THEN d ELSE 0)
                BY <2>3, <3>4, <4>1
            <4> QED
                BY <1>2, <2>2, <3>4, <4>1, <4>2
        <3>7. PICK a \in Nat, b \in Nat, x \in Nat :
                  a = f[n - 1] /\ b = w[n] /\ x = (IF n = k THEN d ELSE 0)
            BY <3>6
        <3>8. g[n - 1] = a + (IF n - 1 < k THEN 0 ELSE d)
            BY <3>5, <3>7
        <3>9. g[n] = a + (IF n - 1 < k THEN 0 ELSE d) + (b + x) /\ f[n] = a + b
            BY <3>6, <3>7, <3>8
        <3>10. (IF n - 1 < k THEN 0 ELSE d) + x = (IF n < k THEN 0 ELSE d)
            BY <3>4, <3>7
        <3>11. g[n] = a + b + (IF n < k THEN 0 ELSE d)
            BY <3>9, <3>10, <3>7
        <3> QED
            BY <3>2, <3>9, <3>11
    <2>5. Right(N)
        BY <1>2, <2>4
    <2> QED
        BY <2>1, <2>5
<1> QED
    BY <1>1, <1>2, <1>3, <1>4

(* The size counted is that of the samples, whichever links they are of;   *)
(* the header knows the length of its format chunk; and the two sizes are  *)
(* left alone until the end.                                               *)
SizeTrue ==
    Opened /\ command.file =>
        file.size = SampleSize * fmt.channels * Sum(file.written, Len(source))
LengthTrue ==
    Opened /\ command.file /\ command.wav => file.header.length = FormatLength(fmt.channels)
Unpatched == pc # "end" => file.riff = MaxSize /\ file.data = MaxSize

HInv == (~Opened => file.size = 0) /\ SizeTrue /\ LengthTrue /\ Unpatched /\ HeaderTrue

(* The sum that the property speaks of.                                    *)
LEMMA WrittenIs == WrittenSamples = Sum(file.written, Len(source))
BY DEF WrittenSamples, Sum, Links

(* The numbers that are multiplied.                                        *)
LEMMA FactorsNat ==
    ASSUME IInv
    PROVE  /\ SampleSize \in Nat /\ Len(source) \in Nat
           /\ file.written \in [1..Len(source) -> Nat]
           /\ Opened => fmt.channels \in Nat
<1>1. Len(source) \in Nat /\ 1 \in Links /\ \A l \in Links : source[l].channels \in Nat
    BY SourceType DEF IInv
<1>2. Opened => fmt.channels \in Nat
    <2>1. Opened /\ fmt.stereo => fmt.channels = 2
        BY DEF IInv, DecidedOK
    <2>2. Opened /\ ~fmt.stereo => fmt.channels = source[1].channels
        BY DEF IInv, DecidedOK
    <2>3. source[1].channels \in Nat
        BY <1>1
    <2> QED
        BY <2>1, <2>2, <2>3
<1>3. SampleSize \in Nat
    BY DEF SampleSize
<1>4. file.written \in [1..Len(source) -> Nat]
    BY DEF IInv, FileOK, Links
<1> QED
    BY <1>1, <1>2, <1>3, <1>4

(* What a write adds to the product.                                       *)
LEMMA ProductGrows ==
    ASSUME NEW s \in Nat, NEW c \in Nat, NEW w \in Nat, NEW r \in Nat
    PROVE  s * c * w + s * r * c = s * c * (w + r)
OBVIOUS

(* At the start nothing has been counted.                                  *)
LEMMA HeaderInit == Init => HInv
BY DEF Init, HInv, Opened, SizeTrue, LengthTrue, Unpatched, HeaderTrue

(* Steps that leave the output alone.                                      *)
LEMMA HeaderKept ==
    ASSUME HInv, UNCHANGED <<command, source, fmt, file>>,
           Opened' <=> Opened, pc # "end", pc' # "end"
    PROVE  HInv'
<1>1. SampleSize' = SampleSize /\ FormatLength(fmt.channels)' = FormatLength(fmt.channels)
    BY DEF SampleSize, FormatLength, WithFloats
<1>2. Sum(file.written, Len(source))' = Sum(file.written, Len(source))
    BY DEF Sum
<1>3. SizeTrue' /\ LengthTrue'
    BY <1>1, <1>2 DEF HInv, SizeTrue, LengthTrue
<1>4. Unpatched' /\ HeaderTrue'
    BY DEF HInv, Unpatched, HeaderTrue
<1> QED
    BY <1>3, <1>4 DEF HInv

(* The header is written for the channels that were decided on, to a file  *)
(* that is empty otherwise.                                                *)
LEMMA HeaderOpen == IInv /\ HInv /\ Open => HInv'
<1> SUFFICES ASSUME IInv, HInv, Open PROVE HInv'
    OBVIOUS
<1>1. PICK channels :
        /\ fmt'.channels = channels
        /\ file' = [file EXCEPT
              !.header = IF command.file /\ command.wav THEN Header(channels) ELSE @]
    BY DEF Open
<1>2. pc = "open" /\ pc' = "read" /\ command' = command /\ source' = source
    BY DEF Open
<1>3. /\ file'.written = file.written /\ file'.size = file.size
      /\ file'.riff = file.riff /\ file'.data = file.data
      /\ command.file /\ command.wav => file'.header.length = FormatLength(channels)
    BY <1>1 DEF IInv, FileOK, Header
<1>4. ~Opened /\ Opened'
    BY <1>2 DEF Opened
<1>5. IInv'
    BY OpenStep
<1>6. fmt'.channels \in Nat
    <2>1. fmt'.stereo => fmt'.channels = 2
        BY <1>4, <1>5 DEF IInv, DecidedOK
    <2>2. ~fmt'.stereo => fmt'.channels = source[1].channels
        BY <1>2, <1>4, <1>5 DEF IInv, DecidedOK
    <2>3. source[1].channels \in Nat
        BY SourceType DEF IInv
    <2> QED
        BY <2>1, <2>2, <2>3
<1>7. Sum(file.written, Len(source)) = 0 /\ SampleSize \in Nat
    <2>1. \A l \in 1..Len(source) : file.written[l] = 0
        BY <1>4 DEF IInv, Links
    <2> QED
        BY <2>1, FactorsNat, SumGrows
<1>8. SizeTrue'
    <2>1. SampleSize' = SampleSize
        BY <1>2 DEF SampleSize, WithFloats
    <2>2. Sum(file.written, Len(source))' = 0
        BY <1>2, <1>3, <1>7 DEF Sum
    <2>3. file'.size = 0
        BY <1>3, <1>4 DEF HInv
    <2>4. SampleSize * fmt'.channels * 0 = 0
        BY <1>6, <1>7
    <2> QED
        BY <2>1, <2>2, <2>3, <2>4 DEF SizeTrue
<1>9. LengthTrue'
    <2>1. FormatLength(fmt.channels)' = FormatLength(channels)
        BY <1>1, <1>2 DEF FormatLength, WithFloats
    <2> QED
        BY <1>2, <1>3, <2>1 DEF LengthTrue
<1>10. Unpatched' /\ HeaderTrue'
    BY <1>2, <1>3 DEF HInv, Unpatched, HeaderTrue
<1> QED
    BY <1>4, <1>8, <1>9, <1>10 DEF HInv

(* A write adds to the size what it adds to the samples of its link.       *)
LEMMA HeaderPut ==
    ASSUME IInv, HInv, pc = "write", NEW n, NEW ret \in Int, NEW rest,
           n \in Nat, Put(n, ret, rest), UNCHANGED <<command, source, fmt, link>>
    PROVE  HInv'
<1> DEFINE more == Max2(ret, 0)
<1>1. /\ ret \in Taken(n)
      /\ file' = [file EXCEPT !.written[link] = @ + more,
                              !.size = @ + SampleSize * ret * fmt.channels]
      /\ pc' \in {"write", "read", "drain"}
    BY DEF Put
<1>2. Opened /\ Opened' /\ link \in 1..Len(source) /\ pc' # "end"
    BY <1>1 DEF Opened, IInv, PlaceOK, Links
<1>3. /\ SampleSize \in Nat /\ Len(source) \in Nat /\ fmt.channels \in Nat
      /\ file.written \in [1..Len(source) -> Nat]
    BY <1>2, FactorsNat
<1>4. more \in Nat /\ (command.file => more = ret)
    BY <1>1 DEF Taken, Max2
<1> HIDE DEF more
<1>5. /\ file'.header = file.header /\ file'.riff = file.riff /\ file'.data = file.data
      /\ file'.written = [file.written EXCEPT ![link] = file.written[link] + more]
    BY <1>1 DEF IInv, FileOK
<1>6. command.file => file'.size = file.size + SampleSize * more * fmt.channels
    <2> DEFINE z == file.size + SampleSize * ret * fmt.channels
    <2>1. file' = [file EXCEPT !.written[link] = @ + more, !.size = z]
        BY <1>1
    <2> HIDE DEF z
    <2>2. file'.size = z
        BY <2>1 DEF IInv, FileOK
    <2> QED
        BY <1>4, <2>2 DEF z
<1>7. /\ Sum(file.written, Len(source)) \in Nat
      /\ Sum(file'.written, Len(source)) = Sum(file.written, Len(source)) + more
    <2> DEFINE w == file.written
               v == file'.written
               N == Len(source)
    <2>1. /\ N \in Nat /\ w \in [1..N -> Nat] /\ link \in 1..N
          /\ v = [w EXCEPT ![link] = w[link] + more]
        BY <1>2, <1>3, <1>5
    <2> HIDE DEF w, v, N
    <2>2. v \in [1..N -> Nat]
        BY <1>4, <2>1
    <2>3. Sum(w, N) \in Nat /\ Sum(v, N) = Sum(w, N) + more
        <3>1. /\ Sum(w, N) \in Nat
              /\ \A k \in 1..N, d \in Nat, t \in [1..N -> Nat] :
                    t = [w EXCEPT ![k] = w[k] + d] => Sum(t, N) = Sum(w, N) + d
            BY <2>1, SumGrows
        <3> QED
            BY <1>4, <2>1, <2>2, <3>1
    <2> QED
        BY <2>3 DEF w, v, N
<1>8. SizeTrue'
    <2>1. SampleSize' = SampleSize
        BY DEF SampleSize, WithFloats
    <2>2. Sum(file.written, Len(source))' = Sum(file'.written, Len(source))
        BY DEF Sum
    <2>3. PICK s \in Nat, c \in Nat, w \in Nat, r \in Nat :
            /\ s = SampleSize /\ c = fmt.channels /\ r = more
            /\ w = Sum(file.written, Len(source))
        BY <1>3, <1>4, <1>7
    <2>4. command.file => file.size = s * c * w
        BY <1>2, <2>3 DEF HInv, SizeTrue
    <2>5. command.file => file'.size = s * c * (w + r)
        BY <1>6, <2>3, <2>4, ProductGrows
    <2>6. SampleSize' = s /\ fmt'.channels = c /\ Sum(file.written, Len(source))' = w + r
        BY <1>7, <2>1, <2>2, <2>3
    <2> QED
        BY <2>5, <2>6 DEF SizeTrue
<1>9. LengthTrue'
    <2>1. FormatLength(fmt.channels)' = FormatLength(fmt.channels)
        BY DEF FormatLength, WithFloats
    <2> QED
        BY <1>2, <1>5, <2>1 DEF HInv, LengthTrue
<1>10. Unpatched' /\ HeaderTrue'
    BY <1>2, <1>5 DEF HInv, Unpatched, HeaderTrue
<1> QED
    BY <1>2, <1>8, <1>9, <1>10 DEF HInv

(* Both kinds of turn write so many samples.                               *)
LEMMA HeaderWrites == IInv /\ HInv /\ (WriteResampled \/ WriteDirectly) => HInv'
<1> SUFFICES ASSUME IInv, HInv, WriteResampled \/ WriteDirectly PROVE HInv'
    OBVIOUS
<1>1. pc = "write" /\ UNCHANGED <<command, source, fmt, link>>
    BY DEF WriteResampled, WriteDirectly
<1>2. Opened /\ link \in Links /\ fmt.rate \in Nat \ {0} /\ read \in [Links -> Nat] /\ out \in Int
    BY <1>1 DEF Opened, IInv, PlaceOK, DecidedOK
<1>3. Owed(out) \in Nat /\ left \in Nat /\ OutChunk \in Nat
    BY <1>2, OwedNat, OpusDecAssumption DEF IInv, TypeOK
<1>4. \E n \in Nat, ret \in Int : \E rest : Put(n, ret, rest)
    <2>1. CASE WriteDirectly
        <3>1. Min2(left, Owed(out)) \in Nat
            BY <1>3 DEF Min2
        <3>2. PICK ret \in -1..MaxRead : Put(Min2(left, Owed(out)), ret, 0)
            BY <2>1 DEF WriteDirectly
        <3>3. ret \in Int
            BY OpusDecAssumption
        <3> QED
            BY <3>1, <3>2, <3>3
    <2>2. CASE WriteResampled
        <3> DEFINE made == Min2(Room, Max2(0, Ready(resampler.fed + left) - resampler.made))
        <3>1. PICK ret \in -1..OutChunk : \E u : Put(made, ret, left - u)
            BY <2>2 DEF WriteResampled
        <3>2. ret \in Int
            BY <1>3
        <3>3. Room \in Nat
            BY <1>3 DEF Room, Min2
        <3>4. resampler.fed + left \in Nat /\ resampler.made \in Nat
            BY <1>3, <2>2 DEF WriteResampled, IInv, TypeOK
        <3>5. Ready(resampler.fed + left) \in Nat
            BY <1>2, <3>4, ReadyReachNat
        <3>6. made \in Nat
            <4> DEFINE more == Ready(resampler.fed + left) - resampler.made
                       rest == Max2(0, more)
            <4>1. more \in Int
                BY <3>4, <3>5
            <4> HIDE DEF more
            <4>2. rest \in Nat
                BY <4>1 DEF Max2
            <4> HIDE DEF rest
            <4>3. made = Min2(Room, rest)
                BY DEF rest, more
            <4> QED
                BY <3>3, <4>2, <4>3 DEF Min2
        <3> HIDE DEF made
        <3> QED
            BY <3>1, <3>2, <3>6
    <2> QED
        BY <2>1, <2>2
<1> QED
    BY <1>1, <1>4, HeaderPut

(* The second seek leads to where the data field is, and what is written   *)
(* there and in the first field is true.                                   *)
LEMMA HeaderPatch == IInv /\ HInv /\ Patch => HInv'
<1> SUFFICES ASSUME IInv, HInv, Patch PROVE HInv'
    OBVIOUS
<1> DEFINE length == FormatLength(fmt.channels)
<1>1. /\ pc = "patch" /\ pc' = "end" /\ UNCHANGED <<command, source, fmt>>
      /\ UNCHANGED file \/
           /\ command.file /\ command.wav
           /\ file' = [file EXCEPT
                !.riff = file.size + 20 + length,
                !.data = IF SecondSeek(length) = DataField(length) THEN file.size ELSE @]
    BY DEF Patch
<1>2. Opened /\ Opened'
    BY <1>1 DEF Opened
<1>3. length \in Nat
    BY DEF FormatLength
<1>4. file'.header = file.header /\ file'.size = file.size /\ file'.written = file.written
    <2> HIDE DEF length
    <2> QED
        BY <1>1 DEF IInv, FileOK
<1>5. /\ SampleSize' = SampleSize /\ FormatLength(fmt.channels)' = length
      /\ Sum(file.written, Len(source))' = Sum(file.written, Len(source))
      /\ WrittenSamples' = Sum(file.written, Len(source))
    BY <1>1, <1>4 DEF SampleSize, FormatLength, WithFloats, Sum, WrittenSamples, Links
<1>6. SizeTrue' /\ LengthTrue'
    BY <1>1, <1>2, <1>4, <1>5 DEF HInv, SizeTrue, LengthTrue
<1>7. HeaderTrue'
    <2> SUFFICES ASSUME command.file, command.wav
                 PROVE  \/ file'.riff = MaxSize /\ file'.data = MaxSize
                        \/ /\ file'.data = file.size
                           /\ file'.riff = (DataField(length) + 4 + file.size) - (RiffField + 4)
        <3> HIDE DEF length
        <3>1. command.file => file.size = SampleSize * fmt.channels * Sum(file.written, Len(source))
            BY <1>2 DEF HInv, SizeTrue
        <3>2. command.file /\ command.wav => file'.header.length = length
            BY <1>2, <1>4 DEF HInv, LengthTrue, length
        <3> QED
            BY <1>1, <1>5, <3>1, <3>2 DEF HeaderTrue, RiffField, DataField
    <2>1. CASE UNCHANGED file
        BY <1>1, <2>1 DEF HInv, Unpatched
    <2>2. CASE ~UNCHANGED file
        <3>1. SecondSeek(length) = DataField(length)
            BY <1>3 DEF SecondSeek, DataField, RiffField
        <3>2. file'.riff = file.size + 20 + length /\ file'.data = file.size
            <4> HIDE DEF length
            <4> QED
                BY <1>1, <2>2, <3>1 DEF IInv, FileOK
        <3>3. file.size \in Nat
            <4>1. file.size = SampleSize * fmt.channels * Sum(file.written, Len(source))
                BY <1>2, <2>2 DEF HInv, SizeTrue
            <4>2. Sum(file.written, Len(source)) \in Nat
                BY FactorsNat, SumGrows
            <4> QED
                BY <1>2, <4>1, <4>2, FactorsNat, TimesNat
        <3> QED
            BY <1>3, <3>2, <3>3 DEF DataField, RiffField
    <2> QED
        BY <2>1, <2>2
<1> QED
    BY <1>1, <1>2, <1>6, <1>7 DEF HInv, Unpatched

(* Every step keeps the sizes true.                                        *)
LEMMA NextHeader == IInv /\ HInv /\ [Next]_vars => HInv'
<1> SUFFICES ASSUME IInv, HInv, [Next]_vars PROVE HInv'
    OBVIOUS
<1>1. CASE Open
    BY <1>1, HeaderOpen
<1>2. CASE OpenFails
    BY <1>2, HeaderKept DEF OpenFails, Opened
<1>3. CASE ReadFrame
    BY <1>3, HeaderKept DEF ReadFrame, Opened
<1>4. CASE ReadEnds
    BY <1>4, HeaderKept DEF ReadEnds, Over, Opened
<1>5. CASE Enter
    BY <1>5, HeaderKept DEF Enter, Over, Opened
<1>6. CASE EnterWithoutMemory
    BY <1>6, HeaderKept DEF EnterWithoutMemory, Opened
<1>7. CASE WriteResampled \/ WriteDirectly
    BY <1>7, HeaderWrites
<1>8. CASE Drain
    <2>1. pc' \in {"write", "enter", "patch"}
        BY <1>8 DEF Drain, IInv, PlaceOK, TypeOK
    <2> QED
        BY <1>8, <2>1, HeaderKept DEF Drain, Opened
<1>9. CASE Patch
    BY <1>9, HeaderPatch
<1>10. CASE UNCHANGED vars
    BY <1>10 DEF vars, HInv, SizeTrue, LengthTrue, Unpatched, HeaderTrue, Opened, SampleSize,
                 WithFloats, FormatLength, Sum, WrittenSamples, Links, DataField, RiffField
<1> QED
    BY <1>1, <1>2, <1>3, <1>4, <1>5, <1>6, <1>7, <1>8, <1>9, <1>10 DEF Next

(* When opusdec is done with a WAV file (opusdec.c:1160-1180), the sizes   *)
(* in its header are both as they were or both true of the file, for every *)
(* chain of links and every short write.                                   *)
THEOREM HeaderHolds == Spec => []HeaderTrue
<1>1. Init => HInv
    BY HeaderInit
<1>2. IInv /\ IInv' /\ HInv /\ [Next]_vars => HInv'
    BY NextHeader
<1>3. HInv => HeaderTrue
    BY DEF HInv
<1> QED
    BY <1>1, <1>2, <1>3, Invariance, PTL DEF Spec
=============================================================================
