------------------------------ MODULE OpusRtp -------------------------------
(***************************************************************************)
(* opusrtp (opusrtp.c) at both ends of a network: the sender takes the     *)
(* packets of Ogg Opus files and sends each in an RTP packet when its time *)
(* has come; the recorder looks at everything that passes by, picks one    *)
(* port and payload type, and writes what it takes to an Ogg file.         *)
(*                                                                         *)
(* libogg, libpcap, the network and the clock are external.  The network   *)
(* loses, repeats and overtakes, MaxFaults times at most; libogg makes a   *)
(* page of the packets it has when it likes; files are read and written    *)
(* without errors.  A packet of a file is [kind, samples]: "head", "tags"  *)
(* or "audio", with the duration that opus_packet_get_nb_samples gives, 0  *)
(* for none.                                                               *)
(***************************************************************************)
EXTENDS Integers, SequencesExt

CONSTANTS Wrap,        \* 65536: a sequence number has two bytes
          FirstSeqs,   \* what rand() may give for the first of them
          Arguments,   \* what the sender is called with: sequences of files,
                       \* which are sequences of pages [serial, bos, packets]
          Options,     \* of the recorder: [port, type, limit, output]
          Strays,      \* packets of others that pass by
          Port, Type,  \* where the sender sends, and the type it gives
          MaxFaults, MaxStrays, MaxLate   \* bounds

Packet == [kind : {"head", "tags", "audio"}, samples : Nat]
Page == [serial : Nat, bos : BOOLEAN, packets : Seq(Packet)]

Ports == 0..65535
PayloadTypes == 0..127

(* What passes by (see Rtp); of that of others, no file and no place.      *)
Message == [parsed : BOOLEAN, port : Ports, type : PayloadTypes, seq : 0..(Wrap - 1),
            samples : Nat, valid : BOOLEAN, number : Nat, ssrc : Nat, id : Nat]

(* The port and the type of the recorder are -1 to take the first of them. *)
ASSUME OpusRtpAssumption ==
    /\ Wrap \in Nat \ {0} /\ FirstSeqs \subseteq Nat
    /\ Arguments \subseteq Seq(Seq(Page))
    /\ Options \subseteq [port : Ports \cup {-1}, type : Nat \cup {-1}, limit : Nat, output : BOOLEAN]
    /\ Strays \subseteq Message /\ \A m \in Strays : m.ssrc = 0 /\ m.id = 0
    /\ Port \in Ports /\ Type \in PayloadTypes
    /\ {MaxFaults, MaxStrays, MaxLate} \subseteq Nat

VARIABLES argument,    \* what the sender was called with
          files,       \* the sender: the files to send, this one first
          pages,       \* of this file, not read yet
          packets,     \* of the pages read, not looked at yet
          headers, serial,
          spc,         \* "open", "read", "wait", "done"
          seq,         \* rtp.seq
          target,      \* static: the beginning of the time slot, -1 at first
          sent,        \* history: the RTP packets
          began,       \* history: when the first slot began
          clock,       \* the time
          net,         \* packets on their way
          faults, strays,        \* how many there have been
          option,      \* the recorder: how it was started
          rpc,         \* "capture", "closed", "killed"
          dstPort, payloadType,  \* -1 until one is seen
          lastSeq, granule,      \* state.seq, state.granulepos
          captured,    \* packets seen
          queue,       \* packets that libogg has not made a page of
          out,         \* the pages of the file
          skipped      \* history: packets skipped as out of sequence

fileVars == <<argument, files, pages, packets, headers, serial>>
sendVars == <<seq, target, sent, began>>
netVars == <<net, faults, strays>>
recorderVars == <<option, rpc, dstPort, payloadType, lastSeq, granule,
                  captured, queue, out, skipped>>
vars == <<fileVars, spc, sendVars, clock, netVars, recorderVars>>

Init ==
    /\ argument \in Arguments /\ files = argument /\ pages = <<>> /\ packets = <<>> /\ headers = 0 /\ serial = 0
    /\ spc = "open" /\ seq = 0 /\ sent = <<>> /\ target = -1 /\ began = -1
    /\ clock = 0 /\ net = <<>> /\ faults = 0 /\ strays = 0
    /\ option \in Options /\ rpc = "capture"
    /\ dstPort = option.port /\ payloadType = option.type
    /\ lastSeq = 0 /\ granule = 0 /\ captured = 0
    /\ queue = <<>> /\ out = <<>> /\ skipped = {}

-----------------------------------------------------------------------------
(* The sender.                                                             *)

(* main and the beginning of rtp_send_file_to_addr: every file has a       *)
(* header of its own, with numbers by rand(); the time slots go on.        *)
OpenFile ==
    /\ spc = "open"
    /\ IF files = <<>> THEN spc' = "done" /\ UNCHANGED <<pages, headers, seq>>
       ELSE spc' = "read" /\ pages' = Head(files) /\ headers' = 0 /\ seq' \in FirstSeqs
    /\ packets' = <<>>
    /\ UNCHANGED <<argument, files, serial, target, sent, began, clock, netVars, recorderVars>>

FileEnds == spc' = "open" /\ files' = Tail(files) /\ UNCHANGED <<pages, packets, headers, serial>>

(* is_opus: the page begins a stream with an Opus header.                  *)
IsOpus(p) == p.packets # <<>> /\ p.packets[1].kind = "head"

(* A page is asked whether it begins an Opus stream until one does; from   *)
(* then on the stream takes its own pages only, and fails on others.       *)
ReadPage ==
    /\ spc = "read" /\ packets = <<>>
    /\ \/ pages = <<>> /\ FileEnds
       \/ /\ pages # <<>>
          /\ LET p == Head(pages)
                 starts == headers = 0 /\ IsOpus(p)
             IN  \/ /\ starts \/ (headers > 0 /\ p.serial = serial)
                    /\ headers' = (IF starts THEN 1 ELSE headers) /\ serial' = p.serial
                    /\ packets' = p.packets /\ pages' = Tail(pages) /\ UNCHANGED <<files, spc>>
                 \/ /\ headers = 0 /\ ~IsOpus(p) /\ p.bos
                    /\ pages' = Tail(pages) /\ UNCHANGED <<files, packets, headers, serial, spc>>
                 \/ /\ IF headers = 0 THEN ~IsOpus(p) /\ ~p.bos ELSE p.serial # serial
                    /\ FileEnds
    /\ UNCHANGED <<argument, sendVars, clock, netVars, recorderVars>>

(* Fault: the packet after the header is taken for audio.                  *)
HeaderDueOnce(p) == p.kind = "head" /\ headers = 1

HeaderDue(p) == <<p.kind, headers>> \in {<<"head", 1>>, <<"tags", 2>>}

(* Headers, each once, and packets that are not valid are passed over.     *)
SkipPacket ==
    /\ spc = "read" /\ packets # <<>>
    /\ HeaderDue(Head(packets)) \/ Head(packets).samples = 0
    /\ headers' = headers + (IF HeaderDue(Head(packets)) THEN 1 ELSE 0)
    /\ packets' = Tail(packets)
    /\ UNCHANGED <<argument, files, pages, serial, spc, sendVars, clock, netVars, recorderVars>>

(* serialize_rtp_header writes two bytes of the sequence number.           *)
Written(n) == n % Wrap

(* What passes by for one packet of a file.  Its number in full, the file  *)
(* it comes from and its place in the sending are for the properties.      *)
Rtp(p) ==
    [parsed |-> TRUE, port |-> Port, type |-> Type, seq |-> Written(seq'), samples |-> p.samples,
     valid |-> TRUE, number |-> seq', ssrc |-> Len(files), id |-> Len(sent) + 1]

(* Fault: the next slot is reckoned from now.                              *)
NextSlotFromNow(delta) == clock + delta

(* wait_for_time_slot: slots follow each other without a gap.              *)
NextSlot(delta) == target + delta

(* A packet is sent, and its duration is waited for; but not the first     *)
(* time, which only begins the first slot.                                 *)
SendPacket ==
    /\ spc = "read" /\ packets # <<>>
    /\ LET p == Head(packets) IN
       /\ ~HeaderDue(p) /\ p.samples > 0
       /\ seq' = seq + 1 /\ sent' = Append(sent, Rtp(p)) /\ net' = Append(net, Rtp(p))
       /\ IF target = -1 THEN target' = clock /\ began' = clock /\ UNCHANGED spc
          ELSE target' = NextSlot(p.samples) /\ spc' = "wait" /\ UNCHANGED began
    /\ packets' = Tail(packets)
    /\ UNCHANGED <<argument, files, pages, headers, serial, clock, faults, strays, recorderVars>>

Wake ==
    /\ spc = "wait" /\ clock >= target /\ spc' = "read"
    /\ UNCHANGED <<fileVars, sendVars, clock, netVars, recorderVars>>

(* The sender may be late, by MaxLate here.                                *)
Tick ==
    /\ spc # "done" /\ clock < target + MaxLate /\ clock' = clock + 1
    /\ UNCHANGED <<fileVars, spc, sendVars, netVars, recorderVars>>

-----------------------------------------------------------------------------
(* The network: it loses, repeats or overtakes; and the packets of others. *)

Fault ==
    /\ faults < MaxFaults /\ faults' = faults + 1 /\ rpc = "capture"
    /\ \E i \in 1..Len(net) :
          net' \in {RemoveAt(net, i), Append(net, net[i]), <<net[i]>> \o RemoveAt(net, i)}
    /\ UNCHANGED <<fileVars, spc, sendVars, clock, strays, recorderVars>>

PassesBy ==
    /\ strays < MaxStrays /\ strays' = strays + 1 /\ rpc = "capture"
    /\ \E m \in Strays : net' = Append(net, m)
    /\ UNCHANGED <<fileVars, spc, sendVars, clock, faults, recorderVars>>

-----------------------------------------------------------------------------
(* The recorder.  Of what was captured: parsed, whether the link, IP, UDP  *)
(* and RTP headers are there and of the kinds known; valid, whether        *)
(* opus_packet_parse takes the rest; samples, its duration, 0 for none.    *)

(* The filters of write_packet: the port and the payload type, and an Opus *)
(* packet as long as one of them is open.                                  *)
Wanted(m) ==
    /\ dstPort \in {-1, m.port}
    /\ IF payloadType = -1 THEN m.type >= 96 ELSE m.type = payloadType
    /\ -1 \in {dstPort, payloadType} => m.valid

(* Fault: a packet that comes too late is recorded as well.                *)
InSequenceAlways(m) == TRUE

InSequence(m) == m.seq >= lastSeq

(* Fault: the position is that of the beginning of the packet.             *)
GranuleBefore(m) == granule

(* The end of the packet in the recording.                                 *)
GranuleAfter(m) == granule + m.samples

(* ogg_write: a page has the position of its last packet.                  *)
PageOf(entries) == [granule |-> Last(entries).granule, packets |-> entries]
Paged(entries) ==
    \/ queue' = entries /\ UNCHANGED out
    \/ queue' = <<>> /\ out' = Append(out, PageOf(entries))

(* write_packet.                                                           *)
WritePacket ==
    /\ rpc = "capture" /\ net # <<>> /\ captured < option.limit
    /\ net' = Tail(net) /\ captured' = captured + 1
    /\ LET m == Head(net)
           wanted == m.parsed /\ option.output /\ Wanted(m)
           taken == wanted /\ InSequence(m)
       IN  /\ dstPort' = IF wanted THEN m.port ELSE dstPort
           /\ payloadType' = IF wanted THEN m.type ELSE payloadType
           /\ skipped' = IF wanted /\ ~taken THEN skipped \cup {m} ELSE skipped
           /\ IF taken
              THEN /\ lastSeq' = m.seq /\ granule' = GranuleAfter(m)
                   /\ Paged(Append(queue, [message |-> m, granule |-> granule']))
              ELSE UNCHANGED <<lastSeq, granule, queue, out>>
    /\ UNCHANGED <<fileVars, spc, sendVars, clock, faults, strays, option, rpc>>

(* The capture is over, after so many packets or at the end of what was    *)
(* captured: ogg_flush, and the file is closed.                            *)
CaptureEnds ==
    /\ rpc = "capture" /\ (captured = option.limit \/ (spc = "done" /\ net = <<>>))
    /\ rpc' = "closed" /\ queue' = <<>>
    /\ out' = IF queue = <<>> THEN out ELSE Append(out, PageOf(queue))
    /\ UNCHANGED <<fileVars, spc, sendVars, clock, netVars, option, dstPort, payloadType,
                   lastSeq, granule, captured, skipped>>

(* Crash: there is no handler; pages not yet written by stdio are lost.    *)
Killed ==
    /\ rpc = "capture" /\ rpc' = "killed" /\ queue' = <<>>
    /\ \E n \in 0..Len(out) : out' = SubSeq(out, 1, n)
    /\ UNCHANGED <<fileVars, spc, sendVars, clock, netVars, option, dstPort, payloadType,
                   lastSeq, granule, captured, skipped>>

Sender == OpenFile \/ ReadPage \/ SkipPacket \/ SendPacket \/ Wake
Next == Sender \/ Tick \/ Fault \/ PassesBy \/ WritePacket \/ CaptureEnds \/ Killed

(* Time passes, the sender is run, and what arrives is looked at.          *)
Spec == /\ Init /\ [][Next]_vars
        /\ WF_vars(Sender) /\ WF_vars(Tick) /\ WF_vars(WritePacket) /\ WF_vars(CaptureEnds)

-----------------------------------------------------------------------------
(* Properties.                                                             *)

(* Types: what write_packet compares is a number of two bytes.             *)
TypeOK ==
    /\ spc \in {"open", "read", "wait", "done"} /\ rpc \in {"capture", "closed", "killed"}
    /\ headers \in 0..3 /\ seq \in Nat /\ clock \in Nat /\ target \in Nat \cup {-1}
    /\ lastSeq \in 0..(Wrap - 1) /\ granule \in Nat /\ captured \in 0..option.limit
    /\ dstPort \in Ports \cup {-1} /\ payloadType \in Nat \cup {-1}

Recorded == FlattenSeq([i \in 1..Len(out) |-> out[i].packets]) \o queue

Played(packetSeq) ==
    LET total[n \in 0..Len(packetSeq)] ==
            IF n = 0 THEN 0 ELSE total[n - 1] + packetSeq[n].samples
    IN  total[Len(packetSeq)]

(* What is recorded is of one port and payload type, and the packets of a  *)
(* sender are in the order they were sent, although the network overtakes  *)
(* and repeats: but for those on either side of a wrap of the number.      *)
RecordedInOrder ==
    \A i, j \in 1..Len(Recorded) : i < j =>
        LET a == Recorded[i].message
            b == Recorded[j].message
        IN  /\ a.port = b.port /\ a.type = b.type
            /\ a.ssrc = b.ssrc /\ a.number \div Wrap = b.number \div Wrap => a.id <= b.id

(* The position of a recorded page is where its last packet ends, also     *)
(* after a kill; it is the duration of everything that was sent up to that *)
(* packet if nothing was skipped or lost, nobody else was recorded and the *)
(* options do not leave the first packets out.                             *)
TimelineTrue ==
    LET got == [i \in 1..Len(Recorded) |-> Recorded[i].message] IN
    /\ \A i \in 1..Len(out) : out[i].granule = Last(out[i].packets).granule
    /\ \A n \in 1..Len(got) :
          /\ Recorded[n].granule = Played(SubSeq(got, 1, n))
          /\ faults = 0 /\ skipped = {} /\ (\A i \in 1..n : got[i].id > 0)
             => Recorded[n].granule = Played(SubSeq(sent, 1, got[n].id))

(* Over all files, packets do not leave before their slot, but for the     *)
(* first two, which leave together; and a late one delays no other slot.   *)
Paced ==
    sent # <<>> =>
        /\ target = began + Played(Tail(sent))
        /\ clock >= began + Played(SubSeq(sent, 2, Len(sent) - 1))

(* "skipping out-of-sequence packet" (opusrtp.c:1035): a packet is skipped *)
(* so only if it, or one that its sender sent later, has been recorded.    *)
SkipsOnlyLate ==
    \A m \in skipped : rpc = "capture" =>
        \E i \in 1..Len(Recorded) : Recorded[i].message.ssrc = m.ssrc /\ Recorded[i].message.id >= m.id

(* The capture ends, and of files with one Opus stream, after first pages  *)
(* of others and without any of their pages in between, every valid packet *)
(* but the headers is sent.                                                *)
Ends ==
    LET Sound(file) == \E i \in 1..Len(file) :
            /\ IsOpus(file[i]) /\ \A j \in 1..Len(file) :
                  IF j < i THEN file[j].bos /\ ~IsOpus(file[j]) ELSE file[j].serial = file[i].serial
        Audio(file) == SelectSeq(
            FlattenSeq([i \in 1..Len(file) |-> IF file[i].serial = Last(file).serial
                                              THEN file[i].packets ELSE <<>>]),
            LAMBDA p : p.kind = "audio" /\ p.samples > 0)
        audio == FlattenSeq([i \in 1..Len(argument) |-> Audio(argument[i])])
    IN  <>/\ spc = "done" /\ rpc # "capture"
          /\ (\A i \in 1..Len(argument) : Sound(argument[i])) => Len(sent) = Len(audio)
=============================================================================
