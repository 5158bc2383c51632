---------------------------- MODULE OpusRtpProof -----------------------------
(***************************************************************************)
(* Theorems about OpusRtp, for any files, options, packets of others and   *)
(* any number of faults: the sender keeps its slots, and what is recorded  *)
(* is in order and has true positions.                                     *)
(*                                                                         *)
(* Played and FlattenSeq are recursive.  That such a recursion has a       *)
(* result, and what one more element adds to it, follows from there being  *)
(* no least length for which it fails (RunExists, RunUnique).              *)
(***************************************************************************)
EXTENDS OpusRtp, SequenceTheorems, WellFoundedInduction, TLAPS

Entry == [message : Message, granule : Nat]
OutPage == [granule : Nat, packets : Seq(Entry)]

Types ==
    /\ TypeOK
    /\ files \in Seq(Seq(Page)) /\ pages \in Seq(Page) /\ packets \in Seq(Packet)
    /\ sent \in Seq(Message) /\ net \in Seq(Message) /\ faults \in Nat
    /\ option \in Options /\ queue \in Seq(Entry) /\ out \in Seq(OutPage)

(* What the sender puts into a packet: files are told apart by how many    *)
(* are left, and in each of them the numbers go up.                        *)
Ours(m, i) ==
    /\ m.parsed /\ m.valid /\ m.port = Port /\ m.type = Type
    /\ m.id = i /\ m.seq = m.number % Wrap
    /\ m.ssrc > 0 /\ m.ssrc >= Len(files)
    /\ m.ssrc = Len(files) => spc # "open" /\ m.number <= seq

Numbers ==
    /\ \A i \in 1..Len(sent) : Ours(sent[i], i)
    /\ \A i, j \in 1..Len(sent) :
          i < j /\ sent[i].ssrc = sent[j].ssrc => sent[i].number < sent[j].number
    /\ spc \in {"read", "wait"} => files # <<>>

(* The slots follow each other, and the last of them has begun unless it   *)
(* is waited for.                                                          *)
Slots ==
    IF sent = <<>> THEN target = -1 /\ spc # "wait"
    ELSE /\ began \in Nat /\ target = began + Played(Tail(sent))
         /\ clock >= began + Played(SubSeq(sent, 2, Len(sent) - 1))
         /\ spc # "wait" => clock >= target

(* Nobody makes packets but the sender and the others.                     *)
Known(m) == m \in Strays \/ \E i \in 1..Len(sent) : m = sent[i]

Got(r) == [i \in 1..Len(r) |-> r[i].message]

(* What is in the file and in the queue, r.                                *)
Sorted(r) ==
    /\ \A i \in 1..Len(r) : /\ Known(r[i].message)
                            /\ r[i].message.port = dstPort /\ r[i].message.type = payloadType
    /\ \A i, j \in 1..Len(r) : i <= j => r[i].message.seq <= r[j].message.seq
    /\ rpc = "capture" => \A i \in 1..Len(r) : r[i].message.seq <= lastSeq

Positions(r) ==
    /\ \A i \in 1..Len(r) : r[i].granule = Played(SubSeq(Got(r), 1, i))
    /\ rpc = "capture" => granule = Played(Got(r))

PagesOK == \A i \in 1..Len(out) : out[i].granule = Last(out[i].packets).granule

(* Without faults the packets of the sender arrive one by one, and unless  *)
(* others are taken for it, all are recorded or none.                      *)
SenderWanted ==
    /\ option.output /\ option.port \in {-1, Port}
    /\ IF option.type = -1 THEN Type >= 96 ELSE option.type = Type

Chosen(r) ==
    IF r = <<>> THEN dstPort = option.port /\ payloadType = option.type
    ELSE dstPort = Port /\ payloadType = Type /\ SenderWanted

Coming(n) ==
    /\ \A i, j \in 1..Len(net) :
          i < j /\ net[i].id > 0 /\ net[j].id > 0 => net[i].id < net[j].id
    /\ \A i \in 1..Len(net) : net[i].id > 0 => net[i].id > n
    /\ \A k \in (n + 1)..Len(sent) : \E i \in 1..Len(net) : net[i].id = k

OnlyOurs(r, n) == \A i \in 1..n : r[i].message.id > 0

Complete(r) ==
    faults = 0 /\ skipped = {} =>
        /\ \A n \in 1..Len(r) : OnlyOurs(r, n) => r[n].message.id = n
        /\ rpc = "capture" /\ OnlyOurs(r, Len(r)) =>
              Chosen(r) /\ (SenderWanted => Coming(Len(r)))

IInv ==
    /\ Types /\ Numbers /\ Slots /\ PagesOK
    /\ \A i \in 1..Len(net) : Known(net[i])
    /\ Sorted(Recorded) /\ Positions(Recorded) /\ Complete(Recorded)

-----------------------------------------------------------------------------
(* Recursion.                                                              *)

(* A value for each place, made of the one before by step.                 *)
Runs(T, base, step, n, f) ==
    /\ f \in [0..n -> T] /\ f[0] = base
    /\ \A i \in 1..n : f[i] = step[<<i, f[i - 1]>>]

(* A set of numbers that is not empty has a least one.                     *)
LEMMA Least ==
    ASSUME NEW T, T \subseteq Nat, T # {}
    PROVE  \E m \in T : \A n \in T : m <= n
<1>1. PICK m \in T : \A n \in T : <<n, m>> \notin OpToRel(<, Nat)
    BY NatLessThanWellFounded, WFMin
<1>2. ASSUME NEW n \in T PROVE m <= n
    <2>1. n \in Nat /\ m \in Nat
        OBVIOUS
    <2>2. <<n, m>> \notin {ss \in Nat \X Nat : ss[1] < ss[2]}
        BY <1>1 DEF OpToRel
    <2> QED
        BY <2>1, <2>2
<1> QED
    BY <1>2

(* A recursion along the natural numbers has a result: there is no first   *)
(* length for which it has none.                                           *)
LEMMA RunExists ==
    ASSUME NEW T, NEW base \in T, NEW N \in Nat, NEW step \in [(1..N) \X T -> T]
    PROVE  \E f : Runs(T, base, step, N, f)
<1> DEFINE Has(n) == \E f : Runs(T, base, step, n, f)
           Bad == {n \in 0..N : ~Has(n)}
<1>1. Has(0)
    <2>1. Runs(T, base, step, 0, [i \in 0..0 |-> base])
        BY DEF Runs
    <2> QED
        BY <2>1
<1>2. ASSUME NEW n \in 1..N, Has(n - 1) PROVE Has(n)
    <2>1. PICK f : Runs(T, base, step, n - 1, f)
        BY <1>2
    <2>2. f \in [0..(n - 1) -> T] /\ f[0] = base /\ \A i \in 1..(n - 1) : f[i] = step[<<i, f[i - 1]>>]
        BY <2>1 DEF Runs
    <2> DEFINE last == step[<<n, f[n - 1]>>]
               g == [i \in 0..n |-> IF i = n THEN last ELSE f[i]]
    <2>3. n - 1 \in 0..(n - 1)
        OBVIOUS
    <2>4. f[n - 1] \in T
        BY <2>2, <2>3
    <2>5. <<n, f[n - 1]>> \in (1..N) \X T
        BY <2>4
    <2>6. last \in T
        BY <2>5
    <2> HIDE DEF last
    <2>7. \A i \in 0..n : i # n => i \in 0..(n - 1)
        OBVIOUS
    <2>8. g \in [0..n -> T]
        BY <2>2, <2>6, <2>7
    <2>9. g[0] = base
        BY <2>2
    <2>10. ASSUME NEW i \in 1..n PROVE g[i] = step[<<i, g[i - 1]>>]
        <3>1. i - 1 \in 0..n /\ i - 1 # n /\ i \in 0..n
            OBVIOUS
        <3>2. g[i - 1] = f[i - 1]
            BY <3>1
        <3>3. CASE i = n
            BY <3>1, <3>2, <3>3 DEF last
        <3>4. CASE i # n
            <4>1. i \in 1..(n - 1)
                BY <3>4
            <4> QED
                BY <3>1, <3>2, <3>4, <4>1, <2>2
        <3> QED
            BY <3>3, <3>4
    <2>11. Runs(T, base, step, n, g)
        BY <2>8, <2>9, <2>10 DEF Runs
    <2> QED
        BY <2>11
<1>3. ASSUME Bad # {} PROVE FALSE
    <2>1. PICK n \in Bad : \A m \in Bad : n <= m
        <3>1. Bad \subseteq Nat
            OBVIOUS
        <3> HIDE DEF Bad
        <3> QED
            BY <1>3, <3>1, Least
    <2>2. n \in 0..N /\ ~Has(n)
        OBVIOUS
    <2> HIDE DEF Has
    <2>3. n \in 1..N
        BY <1>1, <2>2
    <2>4. n - 1 \in 0..N /\ ~(n <= n - 1)
        BY <2>3
    <2>5. Has(n - 1)
        BY <2>1, <2>4
    <2> QED
        BY <1>2, <2>2, <2>3, <2>5
<1>4. Has(N)
    <2> HIDE DEF Has
    <2> QED
        BY <1>3
<1> QED
    BY <1>4

Agree(T, n, step, other) == \A i \in 1..n, x \in T : step[<<i, x>>] = other[<<i, x>>]

(* Two results are the same as far as the steps are.                       *)
LEMMA RunUnique ==
    ASSUME NEW T, NEW base, NEW m \in Nat, NEW n \in Nat, m <= n,
           NEW step, NEW other, NEW f, NEW g, Agree(T, m, step, other),
           Runs(T, base, step, m, f), Runs(T, base, other, n, g)
    PROVE  \A i \in 0..m : f[i] = g[i]
<1> DEFINE Bad == {i \in 0..m : f[i] # g[i]}
<1>1. /\ f \in [0..m -> T] /\ f[0] = base /\ \A i \in 1..m : f[i] = step[<<i, f[i - 1]>>]
      /\ g \in [0..n -> T] /\ g[0] = base /\ \A i \in 1..n : g[i] = other[<<i, g[i - 1]>>]
    BY DEF Runs
<1>2. ASSUME Bad # {} PROVE FALSE
    <2>1. PICK i \in Bad : \A j \in Bad : i <= j
        <3>1. Bad \subseteq Nat
            OBVIOUS
        <3> HIDE DEF Bad
        <3> QED
            BY <1>2, <3>1, Least
    <2>2. i \in 1..m /\ i \in 1..n /\ f[i] # g[i]
        BY <1>1
    <2>3. i - 1 \in 0..m /\ ~(i <= i - 1)
        BY <2>2
    <2>4. f[i - 1] = g[i - 1]
        BY <2>1, <2>3
    <2>5. f[i - 1] \in T
        BY <1>1, <2>3
    <2>6. f[i] = step[<<i, f[i - 1]>>] /\ g[i] = other[<<i, g[i - 1]>>]
        BY <1>1, <2>2
    <2> QED
        BY <2>2, <2>4, <2>5, <2>6 DEF Agree
<1> QED
    BY <1>2
-----------------------------------------------------------------------------
(* How long packets play.                                                  *)

(* The types of what is in a packet that passes by.                        *)
LEMMA MessageFields ==
    ASSUME NEW m \in Message
    PROVE  /\ m.samples \in Nat /\ m.number \in Nat /\ m.ssrc \in Nat /\ m.id \in Nat
           /\ m.seq \in 0..(Wrap - 1) /\ m.port \in Ports /\ m.type \in PayloadTypes
BY DEF Message

AddSamples(s) == [x \in (1..Len(s)) \X Nat |-> x[2] + s[x[1]].samples]

(* Played is the last of the running totals.                               *)
LEMMA PlayedRuns ==
    ASSUME NEW s \in Seq(Message)
    PROVE  \E f : Runs(Nat, 0, AddSamples(s), Len(s), f) /\ Played(s) = f[Len(s)]
<1> DEFINE F(t) == [n \in 0..Len(s) |-> IF n = 0 THEN 0 ELSE t[n - 1] + s[n].samples]
           total == CHOOSE t : t = F(t)
<1>1. Len(s) \in Nat /\ \A i \in 1..Len(s) : s[i].samples \in Nat
    <2> HIDE DEF F, total
    <2>1. ASSUME NEW i \in 1..Len(s) PROVE s[i].samples \in Nat
        <3>1. s[i] \in Message
            OBVIOUS
        <3> QED
            BY <3>1, MessageFields
    <2> QED
        BY <2>1
<1>2. AddSamples(s) \in [(1..Len(s)) \X Nat -> Nat]
    BY <1>1 DEF AddSamples
<1>3. PICK f : Runs(Nat, 0, AddSamples(s), Len(s), f)
    BY <1>1, <1>2, RunExists
<1>4. f = F(f)
    <2>1. f \in [0..Len(s) -> Nat] /\ f[0] = 0
        BY <1>3 DEF Runs
    <2>2. ASSUME NEW n \in 1..Len(s) PROVE f[n] = f[n - 1] + s[n].samples
        <3>1. f[n] = AddSamples(s)[<<n, f[n - 1]>>]
            BY <1>3 DEF Runs
        <3>2. n - 1 \in 0..Len(s)
            BY <1>1
        <3>3. <<n, f[n - 1]>> \in (1..Len(s)) \X Nat
            BY <2>1, <3>2
        <3> QED
            BY <3>1, <3>3 DEF AddSamples
    <2>3. ASSUME NEW n \in 0..Len(s) PROVE f[n] = F(f)[n]
        <3>1. n = 0 \/ n \in 1..Len(s)
            BY <1>1
        <3> QED
            BY <2>1, <2>2, <3>1
    <2> HIDE DEF F
    <2>4. F(f) = [n \in 0..Len(s) |-> F(f)[n]]
        BY DEF F
    <2> QED
        BY <2>1, <2>3, <2>4
<1>5. total = F(total)
    <2> HIDE DEF F
    <2> QED
        BY <1>4
<1>6. Played(s) = total[Len(s)]
    BY DEF Played
<1>7. Runs(Nat, 0, AddSamples(s), Len(s), total)
    <2> HIDE DEF total
    <2>1. total[0] = 0
        BY <1>1, <1>5
    <2>2. \A n \in 1..Len(s) : total[n] = total[n - 1] + s[n].samples
        BY <1>1, <1>5
    <2>3. \A n \in 0..Len(s) : total[n] \in Nat
        <3> DEFINE Bad == {n \in 0..Len(s) : total[n] \notin Nat}
        <3> SUFFICES ASSUME Bad # {} PROVE FALSE
            OBVIOUS
        <3>1. PICK n \in Bad : \A m \in Bad : n <= m
            <4>1. Bad \subseteq Nat
                OBVIOUS
            <4> HIDE DEF Bad
            <4> QED
                BY <4>1, Least
        <3>2. n \in 1..Len(s) /\ total[n] \notin Nat
            BY <1>1, <2>1
        <3>3. n - 1 \in 0..Len(s) /\ ~(n <= n - 1)
            BY <3>2, <1>1
        <3>4. total[n - 1] \in Nat
            BY <3>1, <3>3
        <3> QED
            BY <1>1, <2>2, <3>2, <3>4
    <2>4. total \in [0..Len(s) -> Nat]
        BY <1>5, <2>3
    <2>5. ASSUME NEW n \in 1..Len(s) PROVE total[n] = AddSamples(s)[<<n, total[n - 1]>>]
        <3>1. n - 1 \in 0..Len(s)
            BY <1>1
        <3>2. <<n, total[n - 1]>> \in (1..Len(s)) \X Nat
            BY <2>3, <3>1
        <3> QED
            BY <2>2, <3>2 DEF AddSamples
    <2> QED
        BY <2>1, <2>4, <2>5 DEF Runs
<1> QED
    BY <1>6, <1>7

(* Nothing plays for no time, and what plays does for some.                *)
LEMMA PlayedNothing == Played(<<>>) = 0 /\ \A s \in Seq(Message) : Played(s) \in Nat
<1>1. ASSUME NEW s \in Seq(Message) PROVE Played(s) \in Nat
    <2>1. PICK f : Runs(Nat, 0, AddSamples(s), Len(s), f) /\ Played(s) = f[Len(s)]
        BY PlayedRuns
    <2> QED
        BY <2>1 DEF Runs
<1>2. <<>> \in Seq(Message) /\ Len(<<>>) = 0
    OBVIOUS
<1>3. PICK f : Runs(Nat, 0, AddSamples(<<>>), Len(<<>>), f) /\ Played(<<>>) = f[Len(<<>>)]
    BY <1>2, PlayedRuns
<1> QED
    BY <1>1, <1>2, <1>3 DEF Runs

(* A packet more plays for its own duration more.                          *)
LEMMA PlayedOneMore ==
    ASSUME NEW s \in Seq(Message), NEW m \in Message
    PROVE  Played(Append(s, m)) = Played(s) + m.samples
<1> DEFINE r == Append(s, m)
           n == Len(s)
<1>1. n \in Nat /\ r \in Seq(Message) /\ Len(r) = n + 1 /\ r[n + 1] = m
    OBVIOUS
<1>2. \A i \in 1..n : r[i] = s[i]
    OBVIOUS
<1>3. PICK f : Runs(Nat, 0, AddSamples(s), n, f) /\ Played(s) = f[n]
    BY PlayedRuns
<1> HIDE DEF r
<1>4. PICK g : Runs(Nat, 0, AddSamples(r), Len(r), g) /\ Played(r) = g[Len(r)]
    BY <1>1, PlayedRuns
<1> HIDE DEF n
<1>5. Agree(Nat, n, AddSamples(s), AddSamples(r))
    <2> SUFFICES ASSUME NEW i \in 1..n, NEW x \in Nat
                 PROVE AddSamples(s)[<<i, x>>] = AddSamples(r)[<<i, x>>]
        BY DEF Agree
    <2>1. i \in 1..Len(s) /\ i \in 1..Len(r) /\ r[i] = s[i]
        BY <1>1, <1>2 DEF n
    <2> QED
        BY <2>1 DEF AddSamples
<1>6. f[n] = g[n]
    <2>1. \A i \in 0..n : f[i] = g[i]
        <3>1. n \in Nat /\ n <= n + 1 /\ n + 1 \in Nat
            BY <1>1
        <3> DEFINE T == Nat
                   zero == 0
        <3>2. /\ Runs(T, zero, AddSamples(r), n + 1, g) /\ Runs(T, zero, AddSamples(s), n, f)
              /\ Agree(T, n, AddSamples(s), AddSamples(r))
            BY <1>1, <1>3, <1>4, <1>5
        <3> HIDE DEF T, zero
        <3> QED
            BY <3>1, <3>2, RunUnique
    <2>2. n \in 0..n
        BY <1>1
    <2> QED
        BY <2>1, <2>2
<1>7. g[n + 1] = g[n] + m.samples
    <2>1. n + 1 \in 1..Len(r) /\ n \in 0..Len(r) /\ (n + 1) - 1 = n
        BY <1>1
    <2>2. g[n + 1] = AddSamples(r)[<<n + 1, g[n]>>] /\ g[n] \in Nat
        BY <1>4, <2>1 DEF Runs
    <2>3. <<n + 1, g[n]>> \in (1..Len(r)) \X Nat
        BY <2>1, <2>2
    <2> QED
        BY <1>1, <2>2, <2>3 DEF AddSamples
<1> QED
    BY <1>1, <1>3, <1>4, <1>6, <1>7 DEF r
-----------------------------------------------------------------------------
(* What is in the pages, one after the other.                              *)

AddList(s) == [x \in (1..Len(s)) \X Seq(Entry) |-> x[2] \o s[x[1]]]

(* FlattenSeq is the last of the lists that grow by a page each.           *)
LEMMA FlattenRuns ==
    ASSUME NEW s \in Seq(Seq(Entry))
    PROVE  \E f : Runs(Seq(Entry), <<>>, AddList(s), Len(s), f) /\ FlattenSeq(s) = f[Len(s)]
<1> DEFINE F(t) == [i \in 1..Len(s) |-> IF i = 1 THEN s[i] ELSE t[i - 1] \o s[i]]
           flatten == CHOOSE t : t = F(t)
<1>1. Len(s) \in Nat /\ (\A i \in 1..Len(s) : s[i] \in Seq(Entry)) /\ <<>> \in Seq(Entry)
    OBVIOUS
<1>2. AddList(s) \in [(1..Len(s)) \X Seq(Entry) -> Seq(Entry)]
    BY <1>1, ConcatProperties DEF AddList
<1>3. PICK f : Runs(Seq(Entry), <<>>, AddList(s), Len(s), f)
    BY <1>1, <1>2, RunExists
<1>4. f \in [0..Len(s) -> Seq(Entry)] /\ f[0] = <<>>
    BY <1>3 DEF Runs
<1>5. ASSUME NEW n \in 1..Len(s) PROVE f[n] = f[n - 1] \o s[n]
    <2>1. f[n] = AddList(s)[<<n, f[n - 1]>>]
        BY <1>3 DEF Runs
    <2>2. n - 1 \in 0..Len(s)
        BY <1>1
    <2>3. <<n, f[n - 1]>> \in (1..Len(s)) \X Seq(Entry)
        BY <1>4, <2>2
    <2> QED
        BY <2>1, <2>3 DEF AddList
<1>6. ASSUME NEW n \in 1..Len(s), n = 1 PROVE f[n] = s[n]
    BY <1>1, <1>4, <1>5, <1>6, ConcatEmptySeq, SMTT(30)
<1> DEFINE g == [i \in 1..Len(s) |-> f[i]]
<1>7. g = F(g)
    <2>1. ASSUME NEW n \in 1..Len(s) PROVE g[n] = F(g)[n]
        <3>1. n # 1 => n - 1 \in 1..Len(s)
            BY <1>1
        <3> QED
            BY <1>5, <1>6, <3>1
    <2> HIDE DEF F
    <2>2. F(g) = [n \in 1..Len(s) |-> F(g)[n]]
        BY DEF F
    <2> QED
        BY <2>1, <2>2
<1>8. flatten = F(flatten)
    <2> HIDE DEF F, g
    <2> QED
        BY <1>7
<1>9. CASE Len(s) = 0
    <2>1. FlattenSeq(s) = s /\ s = <<>>
        BY <1>9 DEF FlattenSeq
    <2> QED
        BY <1>3, <1>4, <1>9, <2>1
<1>10. CASE Len(s) # 0
    <2>1. FlattenSeq(s) = flatten[Len(s)]
        BY <1>10 DEF FlattenSeq
    <2> HIDE DEF flatten
    <2> DEFINE Bad == {i \in 1..Len(s) : flatten[i] # f[i]}
    <2>2. ASSUME Bad # {} PROVE FALSE
        <3>1. PICK i \in Bad : \A j \in Bad : i <= j
            <4>1. Bad \subseteq Nat
                OBVIOUS
            <4> HIDE DEF Bad
            <4> QED
                BY <2>2, <4>1, Least
        <3>2. i \in 1..Len(s) /\ flatten[i] # f[i]
            OBVIOUS
        <3>3. i # 1
            BY <1>6, <1>8, <3>2
        <3>4. i - 1 \in 1..Len(s) /\ ~(i <= i - 1)
            BY <1>1, <3>2, <3>3
        <3>5. flatten[i - 1] = f[i - 1]
            BY <3>1, <3>4
        <3>6. flatten[i] = flatten[i - 1] \o s[i]
            BY <1>8, <3>2, <3>3
        <3> QED
            BY <1>5, <3>2, <3>5, <3>6
    <2>3. Len(s) \in 1..Len(s)
        BY <1>1, <1>10
    <2> QED
        BY <1>3, <2>1, <2>2, <2>3
<1> QED
    BY <1>9, <1>10

(* A page more adds what is in it.                                         *)
LEMMA FlattenOneMore ==
    ASSUME NEW s \in Seq(Seq(Entry)), NEW l \in Seq(Entry)
    PROVE  /\ FlattenSeq(s) \in Seq(Entry)
           /\ FlattenSeq(Append(s, l)) = FlattenSeq(s) \o l
<1> DEFINE r == Append(s, l)
           n == Len(s)
           T == Seq(Entry)
<1>1. n \in Nat /\ r \in Seq(Seq(Entry)) /\ Len(r) = n + 1 /\ r[n + 1] = l
    OBVIOUS
<1>2. \A i \in 1..n : r[i] = s[i]
    OBVIOUS
<1>3. PICK f : Runs(T, <<>>, AddList(s), n, f) /\ FlattenSeq(s) = f[n]
    BY FlattenRuns
<1> HIDE DEF r
<1>4. PICK g : Runs(T, <<>>, AddList(r), Len(r), g) /\ FlattenSeq(r) = g[Len(r)]
    BY <1>1, FlattenRuns
<1> HIDE DEF n
<1>5. Agree(T, n, AddList(s), AddList(r))
    <2> SUFFICES ASSUME NEW i \in 1..n, NEW x \in T
                 PROVE AddList(s)[<<i, x>>] = AddList(r)[<<i, x>>]
        BY DEF Agree
    <2>1. i \in 1..Len(s) /\ i \in 1..Len(r) /\ r[i] = s[i]
        <3> HIDE DEF T
        <3> QED
            BY <1>1, <1>2 DEF n
    <2> QED
        BY <2>1 DEF AddList
<1>6. f[n] = g[n]
    <2>1. \A i \in 0..n : f[i] = g[i]
        <3> HIDE DEF T
        <3>1. n \in Nat /\ n <= n + 1 /\ n + 1 \in Nat
            BY <1>1
        <3>2. Runs(T, <<>>, AddList(r), n + 1, g)
            BY <1>1, <1>4
        <3>3. Runs(T, <<>>, AddList(s), n, f)
            BY <1>3
        <3> QED
            BY <1>5, <3>1, <3>2, <3>3, RunUnique
    <2>2. n \in 0..n
        BY <1>1
    <2> QED
        BY <2>1, <2>2
<1>7. g[n + 1] = g[n] \o l
    <2>1. n + 1 \in 1..Len(r) /\ n \in 0..Len(r) /\ (n + 1) - 1 = n
        BY <1>1
    <2>2. g[n + 1] = AddList(r)[<<n + 1, g[n]>>] /\ g[n] \in T
        BY <1>4, <2>1 DEF Runs
    <2>3. <<n + 1, g[n]>> \in (1..Len(r)) \X T
        BY <2>1, <2>2
    <2> QED
        BY <1>1, <2>2, <2>3 DEF AddList
<1>8. f[n] \in T
    BY <1>1, <1>3 DEF Runs
<1> QED
    BY <1>1, <1>3, <1>4, <1>6, <1>7, <1>8 DEF r

(* The first pages hold a first part of it all.                            *)
LEMMA FlattenPrefix ==
    ASSUME NEW s \in Seq(Seq(Entry)), NEW n \in 0..Len(s)
    PROVE  \E t \in Seq(Entry) : FlattenSeq(s) = FlattenSeq(SubSeq(s, 1, n)) \o t
<1> DEFINE T == Seq(Entry)
           r == SubSeq(s, 1, n)
           m == Len(s)
<1>1. m \in Nat /\ n \in Nat /\ n <= m /\ r \in Seq(Seq(Entry)) /\ Len(r) = n /\ \A i \in 1..n : r[i] = s[i]
    <2>1. \A i \in 1..n : s[i] \in Seq(Entry)
        OBVIOUS
    <2>2. n \in Int /\ 1 \in Int
        OBVIOUS
    <2>3. r \in Seq(Seq(Entry)) /\ Len(r) = (IF 1 <= n THEN n - 1 + 1 ELSE 0)
            /\ \A i \in 1..(n - 1 + 1) : r[i] = s[1 + i - 1]
        BY <2>1, <2>2, SubSeqProperties
    <2> HIDE DEF r
    <2> QED
        BY <2>3
<1> HIDE DEF r
<1>2. PICK g : Runs(T, <<>>, AddList(s), m, g) /\ FlattenSeq(s) = g[m]
    BY FlattenRuns
<1>3. PICK f : Runs(T, <<>>, AddList(r), n, f) /\ FlattenSeq(r) = f[n]
    BY <1>1, FlattenRuns
<1>4. f[n] = g[n]
    <2>1. Agree(T, n, AddList(r), AddList(s))
        <3> SUFFICES ASSUME NEW i \in 1..n, NEW x \in T
                     PROVE AddList(r)[<<i, x>>] = AddList(s)[<<i, x>>]
            BY DEF Agree
        <3>1. i \in 1..Len(s) /\ i \in 1..Len(r) /\ r[i] = s[i]
            BY <1>1
        <3> QED
            BY <3>1 DEF AddList
    <2> HIDE DEF T, m
    <2>2. \A i \in 0..n : f[i] = g[i]
        <3>1. m \in Nat /\ n \in Nat /\ n <= m
            BY <1>1
        <3>2. Runs(T, <<>>, AddList(s), m, g) /\ Runs(T, <<>>, AddList(r), n, f)
            BY <1>2, <1>3
        <3> QED
            BY <2>1, <3>1, <3>2, RunUnique
    <2> QED
        BY <1>1, <2>2
<1>5. g \in [0..m -> T]
    BY <1>2 DEF Runs
<1>6. ASSUME NEW i \in 1..m PROVE g[i] = g[i - 1] \o s[i]
    <2>1. g[i] = AddList(s)[<<i, g[i - 1]>>]
        BY <1>2 DEF Runs
    <2>2. i - 1 \in 0..m
        BY <1>1
    <2>3. <<i, g[i - 1]>> \in (1..Len(s)) \X T
        BY <1>5, <2>2
    <2> QED
        BY <2>1, <2>3 DEF AddList
<1> DEFINE Reached(i) == \E t \in T : g[i] = g[n] \o t
           Bad == {i \in n..m : ~Reached(i)}
<1>7. Reached(n)
    <2>1. g[n] \in T /\ <<>> \in T
        BY <1>1, <1>5
    <2>2. g[n] = g[n] \o <<>>
        BY <2>1, ConcatEmptySeq
    <2> QED
        BY <2>1, <2>2
<1>8. ASSUME NEW i \in (n + 1)..m, Reached(i - 1) PROVE Reached(i)
    <2>1. PICK t \in T : g[i - 1] = g[n] \o t
        BY <1>8
    <2>2. i \in 1..m /\ s[i] \in T /\ g[n] \in T
        <3>1. i \in 1..m /\ n \in 0..m
            BY <1>1
        <3>2. g[n] \in T
            BY <1>5, <3>1
        <3> QED
            BY <3>1, <3>2
    <2>3. g[i] = (g[n] \o t) \o s[i]
        BY <1>6, <2>1, <2>2
    <2>4. g[i] = g[n] \o (t \o s[i]) /\ t \o s[i] \in T
        <3>1. t \in Seq(Entry) /\ s[i] \in Seq(Entry) /\ g[n] \in Seq(Entry)
            BY <2>1, <2>2
        <3> DEFINE a == g[n]
                   b == s[i]
        <3>2. (a \o t) \o b = a \o (t \o b)
            <4>1. a \in Seq(Entry) /\ t \in Seq(Entry) /\ b \in Seq(Entry)
                BY <3>1
            <4> HIDE DEF a, b
            <4> QED
                BY <4>1, ConcatAssociative
        <3>3. t \o s[i] \in Seq(Entry)
            BY <3>1, ConcatProperties
        <3> QED
            BY <2>3, <3>2, <3>3 DEF a, b
    <2> QED
        BY <2>4
<1>9. ASSUME Bad # {} PROVE FALSE
    <2>1. PICK i \in Bad : \A j \in Bad : i <= j
        <3>1. Bad \subseteq Nat
            BY <1>1
        <3> HIDE DEF Bad
        <3> QED
            BY <1>9, <3>1, Least
    <2>2. i \in n..m /\ ~Reached(i)
        OBVIOUS
    <2> HIDE DEF Reached
    <2>3. i \in (n + 1)..m
        BY <1>1, <1>7, <2>2
    <2>4. i - 1 \in n..m /\ ~(i <= i - 1)
        BY <1>1, <2>3
    <2>5. Reached(i - 1)
        BY <2>1, <2>4
    <2> QED
        BY <1>8, <2>2, <2>3, <2>5
<1>10. Reached(m)
    <2>1. m \in n..m
        BY <1>1
    <2> HIDE DEF Reached
    <2> QED
        BY <1>9, <2>1
<1> QED
    BY <1>2, <1>3, <1>4, <1>10 DEF r

Lists(o) == [i \in 1..Len(o) |-> o[i].packets]
Flat(o, q) == FlattenSeq(Lists(o)) \o q

(* The packets of the pages, page by page.                                 *)
LEMMA ListsType ==
    ASSUME NEW o \in Seq(OutPage)
    PROVE  /\ Lists(o) \in Seq(Seq(Entry)) /\ Len(Lists(o)) = Len(o)
           /\ \A i \in 1..Len(o) : Lists(o)[i] = o[i].packets
           /\ FlattenSeq(Lists(o)) \in Seq(Entry)
<1>1. ASSUME NEW i \in 1..Len(o) PROVE o[i].packets \in Seq(Entry)
    <2>1. o[i] \in OutPage
        OBVIOUS
    <2> QED
        BY <2>1 DEF OutPage
<1>2. Len(o) \in Nat /\ Lists(o) \in [1..Len(o) -> Seq(Entry)]
    BY <1>1 DEF Lists
<1> DEFINE T == Seq(Entry)
<1>3. Lists(o) \in Seq(T) /\ Len(Lists(o)) = Len(o)
    <2> HIDE DEF T
    <2>1. Lists(o) \in [1..Len(o) -> T]
        BY <1>2 DEF T
    <2> QED
        BY <1>2, <2>1
<1>4. FlattenSeq(Lists(o)) \in Seq(Entry)
    <2>1. <<>> \in Seq(Entry)
        OBVIOUS
    <2> QED
        BY <1>3, <2>1, FlattenOneMore
<1> QED
    BY <1>3, <1>4 DEF Lists

(* The pages and the queue together are a list of entries.                 *)
LEMMA FlatType ==
    ASSUME NEW o \in Seq(OutPage), NEW q \in Seq(Entry)
    PROVE  Flat(o, q) \in Seq(Entry)
<1> DEFINE a == FlattenSeq(Lists(o))
<1>1. a \in Seq(Entry)
    BY ListsType
<1> HIDE DEF a
<1>2. a \o q \in Seq(Entry)
    BY <1>1, ConcatProperties
<1> QED
    BY <1>2 DEF Flat, a

(* A packet put into the queue comes last of all.                          *)
LEMMA FlatEnqueue ==
    ASSUME NEW o \in Seq(OutPage), NEW q \in Seq(Entry), NEW e \in Entry
    PROVE  Flat(o, Append(q, e)) = Append(Flat(o, q), e)
<1> DEFINE a == FlattenSeq(Lists(o))
<1>1. a \in Seq(Entry) /\ <<e>> \in Seq(Entry)
    BY ListsType
<1> HIDE DEF a
<1>2. Append(q, e) = q \o <<e>>
    BY AppendIsConcat
<1>3. (a \o q) \o <<e>> = a \o (q \o <<e>>)
    BY <1>1, ConcatAssociative
<1>4. a \o q \in Seq(Entry)
    BY <1>1, ConcatProperties
<1>5. Append(a \o q, e) = (a \o q) \o <<e>>
    BY <1>4, AppendIsConcat
<1> QED
    BY <1>2, <1>3, <1>5 DEF Flat, a

(* A page made of the queue holds what the queue held.                     *)
LEMMA FlatPage ==
    ASSUME NEW o \in Seq(OutPage), NEW p \in OutPage
    PROVE  Flat(Append(o, p), <<>>) = Flat(o, p.packets)
<1>1. p.packets \in Seq(Entry)
    BY DEF OutPage
<1> DEFINE r == Append(o, p)
           l == Append(Lists(o), p.packets)
<1>2. r \in Seq(OutPage) /\ Len(r) = Len(o) + 1 /\ r[Len(o) + 1] = p
       /\ \A i \in 1..Len(o) : r[i] = o[i]
    OBVIOUS
<1>3. Lists(r) = l
    <2> DEFINE T == Seq(Entry)
    <2>1. Lists(o) \in Seq(T) /\ Len(Lists(o)) = Len(o) /\ p.packets \in T /\ Len(o) \in Nat
        BY <1>1, ListsType
    <2>2. \A i \in 1..Len(o) : Lists(o)[i] = o[i].packets
        BY ListsType
    <2>3. Lists(r) \in Seq(T) /\ Len(Lists(r)) = Len(o) + 1
        BY <1>2, ListsType
    <2>4. \A i \in 1..(Len(o) + 1) : Lists(r)[i] = r[i].packets
        BY <1>2, ListsType
    <2> HIDE DEF T, r
    <2>5. l \in Seq(T) /\ Len(l) = Len(o) + 1 /\ l[Len(o) + 1] = p.packets
          /\ \A i \in 1..Len(o) : l[i] = Lists(o)[i]
        BY <2>1
    <2> HIDE DEF l
    <2>6. ASSUME NEW i \in 1..(Len(o) + 1) PROVE Lists(r)[i] = l[i]
        <3>1. CASE i = Len(o) + 1
            BY <1>2, <2>4, <2>5, <3>1
        <3>2. CASE i # Len(o) + 1
            <4>1. i \in 1..Len(o)
                BY <2>1, <3>2
            <4> QED
                BY <1>2, <2>2, <2>4, <2>5, <4>1
        <3> QED
            BY <3>1, <3>2
    <2> QED
        BY <2>3, <2>5, <2>6, SeqEqual
<1>4. FlattenSeq(l) = FlattenSeq(Lists(o)) \o p.packets
    BY <1>1, ListsType, FlattenOneMore
<1>5. Flat(o, p.packets) \in Seq(Entry)
    BY <1>1, FlatType
<1> HIDE DEF r, l
<1>6. Flat(r, <<>>) = Flat(o, p.packets) \o <<>>
    BY <1>3, <1>4 DEF Flat
<1> QED
    BY <1>5, <1>6, ConcatEmptySeq DEF r

(* What is left of the file when pages and the queue are lost.             *)
LEMMA FlatPrefix ==
    ASSUME NEW o \in Seq(OutPage), NEW q \in Seq(Entry), NEW n \in 0..Len(o)
    PROVE  /\ SubSeq(o, 1, n) \in Seq(OutPage)
           /\ \E k \in 0..Len(Flat(o, q)) : Flat(SubSeq(o, 1, n), <<>>) = SubSeq(Flat(o, q), 1, k)
<1> DEFINE r == SubSeq(o, 1, n)
           l == SubSeq(Lists(o), 1, n)
           T == Seq(Entry)
<1>1. n \in Nat /\ n <= Len(o) /\ Len(o) \in Nat
    OBVIOUS
<1>2. r \in Seq(OutPage) /\ Len(r) = n /\ \A i \in 1..n : r[i] = o[i]
    <2>1. \A i \in 1..n : o[i] \in OutPage
        BY <1>1
    <2>2. 1 \in Int /\ n \in Int
        BY <1>1
    <2>3. /\ r \in Seq(OutPage) /\ Len(r) = (IF 1 <= n THEN n - 1 + 1 ELSE 0)
          /\ \A i \in 1..(n - 1 + 1) : r[i] = o[1 + i - 1]
        BY <2>1, <2>2, SubSeqProperties
    <2> HIDE DEF r
    <2> QED
        BY <1>1, <2>3
<1>3. Lists(o) \in Seq(T) /\ Len(Lists(o)) = Len(o) /\ \A i \in 1..Len(o) : Lists(o)[i] = o[i].packets
    BY ListsType
<1>4. l \in Seq(T) /\ Len(l) = n /\ \A i \in 1..n : l[i] = Lists(o)[i]
    <2> HIDE DEF T
    <2>1. \A i \in 1..n : Lists(o)[i] \in T
        BY <1>1, <1>3
    <2>2. 1 \in Int /\ n \in Int
        BY <1>1
    <2>3. /\ l \in Seq(T) /\ Len(l) = (IF 1 <= n THEN n - 1 + 1 ELSE 0)
          /\ \A i \in 1..(n - 1 + 1) : l[i] = Lists(o)[1 + i - 1]
        BY <2>1, <2>2, SubSeqProperties
    <2> HIDE DEF l
    <2> QED
        BY <1>1, <2>3
<1> HIDE DEF r, l
<1>5. Lists(r) = l
    <2>1. Lists(r) \in Seq(T) /\ Len(Lists(r)) = n /\ \A i \in 1..n : Lists(r)[i] = r[i].packets
        BY <1>2, ListsType
    <2> HIDE DEF T
    <2>2. \A i \in 1..n : Lists(r)[i] = l[i]
        BY <1>1, <1>2, <1>3, <1>4, <2>1
    <2> QED
        BY <1>4, <2>1, <2>2, SeqEqual
<1>6. PICK t \in T : FlattenSeq(Lists(o)) = FlattenSeq(l) \o t
    BY <1>1, <1>3, FlattenPrefix DEF l
<1> DEFINE a == FlattenSeq(l)
<1>7. a \in T
    BY <1>2, <1>5, ListsType
<1>8. Flat(r, <<>>) = a
    BY <1>5, <1>7, ConcatEmptySeq DEF Flat
<1>9. Flat(o, q) = (a \o t) \o q
    BY <1>6 DEF Flat
<1> HIDE DEF a
<1>10. (a \o t) \o q = a \o (t \o q) /\ t \o q \in T
    BY <1>6, <1>7, ConcatAssociative, ConcatProperties
<1> DEFINE b == t \o q
           c == a \o b
<1>11. Len(a) \in 0..Len(c) /\ SubSeq(c, 1, Len(a)) = a
    <2> HIDE DEF b
    <2>1. b \in Seq(Entry) /\ a \in Seq(Entry)
        BY <1>7, <1>10 DEF b
    <2>2. c \in Seq(Entry) /\ Len(c) = Len(a) + Len(b) /\ Len(a) \in Nat /\ Len(b) \in Nat
        BY <2>1, ConcatProperties
    <2>3. SubSeq(c, 1, Len(a)) = SubSeq(a, 1, Len(a))
        BY <2>1, SubSeqOfConcat1
    <2>4. SubSeq(a, 1, Len(a)) = a
        BY <2>1, SubSeqFull
    <2> QED
        BY <2>2, <2>3, <2>4
<1>12. Flat(o, q) = c
    BY <1>9, <1>10
<1> HIDE DEF b, c
<1> QED
    BY <1>2, <1>8, <1>11, <1>12 DEF r

(* What is recorded is in the pages and in the queue.                      *)
LEMMA RecordedIsFlat == Recorded = Flat(out, queue)
BY DEF Recorded, Flat, Lists

(* What is recorded is a list of entries.                                  *)
LEMMA RecordedType ==
    ASSUME out \in Seq(OutPage), queue \in Seq(Entry)
    PROVE  Recorded \in Seq(Entry)
BY RecordedIsFlat, FlatType

-----------------------------------------------------------------------------
(* The sender.                                                             *)

SenderTypes ==
    /\ spc \in {"open", "read", "wait", "done"} /\ headers \in 0..3
    /\ seq \in Nat /\ clock \in Nat /\ target \in Nat \cup {-1}
    /\ files \in Seq(Seq(Page)) /\ pages \in Seq(Page) /\ packets \in Seq(Packet)
    /\ sent \in Seq(Message)

(* What the network and the recorder have.                                 *)
Reception ==
    /\ PagesOK /\ \A i \in 1..Len(net) : Known(net[i])
    /\ Sorted(Recorded) /\ Positions(Recorded) /\ Complete(Recorded)

ReceptionTypes ==
    /\ rpc \in {"capture", "closed", "killed"} /\ lastSeq \in 0..(Wrap - 1)
    /\ granule \in Nat /\ captured \in 0..option.limit
    /\ dstPort \in Ports \cup {-1} /\ payloadType \in Nat \cup {-1}
    /\ net \in Seq(Message) /\ faults \in Nat
    /\ option \in Options /\ queue \in Seq(Entry) /\ out \in Seq(OutPage)

(* The types are those of the sender and those of the others.              *)
LEMMA TypesSplit == Types <=> SenderTypes /\ ReceptionTypes
BY DEF Types, TypeOK, SenderTypes, ReceptionTypes

(* Steps that neither send nor receive.                                    *)
LEMMA QuietReception ==
    ASSUME Reception, UNCHANGED <<sent, netVars, recorderVars>>
    PROVE  Reception'
<1>1. /\ sent' = sent /\ net' = net /\ faults' = faults /\ option' = option /\ rpc' = rpc
      /\ dstPort' = dstPort /\ payloadType' = payloadType /\ lastSeq' = lastSeq
      /\ granule' = granule /\ queue' = queue /\ out' = out /\ skipped' = skipped
    BY DEF netVars, recorderVars
<1>2. Recorded' = Recorded
    BY <1>1 DEF Recorded
<1>3. \A m : Known(m)' <=> Known(m)
    BY <1>1 DEF Known
<1>4. \A r : Sorted(r)' <=> Sorted(r)
    BY <1>1, <1>3 DEF Sorted
<1>5. \A r : Positions(r)' <=> Positions(r)
    BY <1>1 DEF Positions
<1>6. \A r : Complete(r)' <=> Complete(r)
    BY <1>1 DEF Complete, OnlyOurs, Chosen, Coming, SenderWanted
<1>7. PagesOK'
    BY <1>1 DEF PagesOK, Reception
<1> QED
    BY <1>1, <1>2, <1>3, <1>4, <1>5, <1>6, <1>7 DEF Reception

(* Steps that neither send nor receive keep the types.                     *)
LEMMA QuietReceptionTypes ==
    ASSUME ReceptionTypes, UNCHANGED <<netVars, recorderVars>>
    PROVE  ReceptionTypes'
BY DEF ReceptionTypes, netVars, recorderVars

(* Files and packets come from the arguments.                              *)
LEMMA OpenFileTypes ==
    ASSUME SenderTypes, OpenFile
    PROVE  SenderTypes'
<1>1. files' = files /\ packets' = <<>> /\ sent' = sent /\ clock' = clock /\ target' = target
    BY DEF OpenFile, sendVars
<1>2. CASE files = <<>>
    BY <1>1, <1>2 DEF OpenFile, SenderTypes
<1>3. CASE files # <<>>
    <2>1. spc' = "read" /\ pages' = Head(files) /\ headers' = 0 /\ seq' \in FirstSeqs
        BY <1>3 DEF OpenFile
    <2>2. seq' \in Nat
        BY <2>1, OpusRtpAssumption
    <2>3. pages' \in Seq(Page)
        <3> DEFINE T == Seq(Page)
        <3>1. files \in Seq(T)
            BY DEF SenderTypes
        <3> HIDE DEF T
        <3>2. Head(files) \in T
            BY <1>3, <3>1
        <3> QED
            BY <2>1, <3>2 DEF T
    <2>4. packets' \in Seq(Packet)
        BY <1>1
    <2> QED
        BY <1>1, <2>1, <2>2, <2>3, <2>4 DEF SenderTypes
<1> QED
    BY <1>2, <1>3

(* The next file leaves one file less.                                     *)
LEMMA FileEndsTypes ==
    ASSUME SenderTypes, FileEnds, files # <<>>, UNCHANGED <<sendVars, clock>>
    PROVE  SenderTypes' /\ Len(files') = Len(files) - 1
<1>1. files' \in Seq(Seq(Page)) /\ Len(files') = Len(files) - 1
    <2> DEFINE T == Seq(Page)
    <2>1. files \in Seq(T) /\ files' = Tail(files)
        BY DEF SenderTypes, FileEnds
    <2> HIDE DEF T
    <2>2. Tail(files) \in Seq(T) /\ Len(Tail(files)) = Len(files) - 1
        BY <2>1
    <2> QED
        BY <2>1, <2>2 DEF T
<1> QED
    BY <1>1 DEF SenderTypes, FileEnds, sendVars

(* A page keeps the file open or ends it; nothing is sent.                 *)
LEMMA ReadPageTypes ==
    ASSUME SenderTypes, ReadPage, files # <<>>
    PROVE  /\ SenderTypes' /\ UNCHANGED <<seq, sent, target, began, clock>>
           /\ \/ files' = files /\ spc' = spc
              \/ spc' = "open" /\ Len(files') = Len(files) - 1
<1>1. UNCHANGED <<sendVars, clock>> /\ UNCHANGED <<seq, sent, target, began, clock>>
    BY DEF ReadPage, sendVars
<1>2. CASE FileEnds
    BY <1>1, <1>2, FileEndsTypes DEF FileEnds
<1>3. CASE /\ files' = files /\ spc' = spc /\ pages # <<>> /\ pages' = Tail(pages)
           /\ headers' \in {1, headers} /\ packets' \in {packets, Head(pages).packets}
    <2>1. Head(pages) \in Page /\ Tail(pages) \in Seq(Page)
        BY <1>3 DEF SenderTypes
    <2>2. Head(pages).packets \in Seq(Packet)
        BY <2>1 DEF Page
    <2> QED
        BY <1>1, <1>3, <2>1, <2>2 DEF SenderTypes
<1> QED
    BY <1>2, <1>3 DEF ReadPage

(* A packet that is skipped is not sent.                                   *)
LEMMA SkipPacketTypes ==
    ASSUME SenderTypes, SkipPacket
    PROVE  /\ SenderTypes'
           /\ UNCHANGED <<files, spc, seq, sent, target, began, clock>>
<1>1. /\ packets # <<>> /\ packets' = Tail(packets) /\ pages' = pages
      /\ UNCHANGED <<files, spc, seq, sent, target, began, clock>>
      /\ headers' = headers + (IF HeaderDue(Head(packets)) THEN 1 ELSE 0)
    BY DEF SkipPacket, sendVars
<1>2. headers' \in 0..3
    <2>1. HeaderDue(Head(packets)) => headers = 1 \/ headers = 2
        BY DEF HeaderDue
    <2>2. headers \in 0..3
        BY DEF SenderTypes
    <2> QED
        BY <1>1, <2>1, <2>2
<1>3. packets' \in Seq(Packet)
    BY <1>1 DEF SenderTypes
<1> QED
    BY <1>1, <1>2, <1>3 DEF SenderTypes

(* Rounding is what makes a number of two bytes.                           *)
LEMMA WrittenRange == \A n \in Nat : n % Wrap \in 0..(Wrap - 1)
BY OpusRtpAssumption

(* What is sent is a packet with the sequence number of two bytes.         *)
LEMMA SendPacketTypes ==
    ASSUME SenderTypes, SendPacket, files # <<>>
    PROVE  LET p == Head(packets) IN
           /\ SenderTypes' /\ p \in Packet /\ Rtp(p) \in Message
           /\ seq' = seq + 1 /\ sent' = Append(sent, Rtp(p)) /\ net' = Append(net, Rtp(p))
<1> DEFINE p == Head(packets)
<1>1. /\ packets # <<>> /\ packets' = Tail(packets)
      /\ seq' = seq + 1 /\ sent' = Append(sent, Rtp(p)) /\ net' = Append(net, Rtp(p))
      /\ files' = files /\ pages' = pages /\ headers' = headers /\ clock' = clock
      /\ \/ target' = clock /\ spc' = spc
         \/ target # -1 /\ target' = target + p.samples /\ spc' = "wait"
    BY DEF SendPacket, NextSlot
<1>2. p \in Packet /\ packets' \in Seq(Packet)
    BY <1>1 DEF SenderTypes
<1>3. p.samples \in Nat
    BY <1>2 DEF Packet
<1>4. Rtp(p) \in Message
    <2>1. seq' \in Nat
        BY <1>1 DEF SenderTypes
    <2>2. Written(seq') \in 0..(Wrap - 1)
        BY <2>1, WrittenRange DEF Written
    <2>3. Len(files) \in Nat /\ Len(sent) + 1 \in Nat
        BY DEF SenderTypes
    <2>4. Port \in Ports /\ Type \in PayloadTypes
        BY OpusRtpAssumption DEF PayloadTypes
    <2> HIDE DEF p
    <2> QED
        BY <1>3, <2>1, <2>2, <2>3, <2>4 DEF Rtp, Message
<1> HIDE DEF p
<1>5. sent' \in Seq(Message) /\ seq' \in Nat /\ target' \in Nat \cup {-1} /\ spc' \in {"open", "read", "wait", "done"}
    BY <1>1, <1>3, <1>4 DEF SenderTypes
<1>6. SenderTypes'
    BY <1>1, <1>2, <1>5 DEF SenderTypes
<1> QED
    BY <1>1, <1>2, <1>4, <1>6 DEF p

SenderInv == SenderTypes /\ Numbers /\ Slots

(* Slots stay unless something is sent, time passes or a wait ends.        *)
LEMMA SlotsKept ==
    ASSUME Slots, UNCHANGED <<sent, target, began, clock>>,
           spc' # "wait" \/ spc' = spc, spc = "wait" => spc' = "wait"
    PROVE  Slots'
<1>1. CASE sent = <<>>
    BY <1>1 DEF Slots
<1>2. CASE sent # <<>>
    BY <1>2 DEF Slots
<1> QED
    BY <1>1, <1>2

(* A new file has a name of its own, so its numbers may begin anywhere.    *)
LEMMA OpenFileHolds ==
    ASSUME SenderInv, OpenFile
    PROVE  SenderInv'
<1>1. /\ spc = "open" /\ files' = files /\ sent' = sent
      /\ UNCHANGED <<sent, target, began, clock>>
      /\ \/ files = <<>> /\ spc' = "done"
         \/ files # <<>> /\ spc' = "read"
    BY DEF OpenFile
<1>2. SenderTypes'
    BY OpenFileTypes DEF SenderInv
<1>3. Numbers'
    <2>1. ASSUME NEW i \in 1..Len(sent) PROVE Ours(sent[i], i)'
        <3>1. Ours(sent[i], i)
            BY DEF SenderInv, Numbers
        <3> QED
            BY <1>1, <3>1 DEF Ours
    <2> QED
        BY <1>1, <2>1 DEF SenderInv, Numbers
<1>4. Slots'
    BY <1>1, SlotsKept DEF SenderInv
<1> QED
    BY <1>2, <1>3, <1>4 DEF SenderInv

(* A file that is done is never sent from again.                           *)
LEMMA ReadPageHolds ==
    ASSUME SenderInv, ReadPage
    PROVE  SenderInv'
<1>1. spc = "read" /\ files # <<>>
    BY DEF ReadPage, SenderInv, Numbers
<1>2. /\ SenderTypes' /\ UNCHANGED <<seq, sent, target, began, clock>>
      /\ \/ files' = files /\ spc' = spc
         \/ spc' = "open" /\ Len(files') = Len(files) - 1
    BY <1>1, ReadPageTypes DEF SenderInv
<1>3. Numbers'
    <2>1. ASSUME NEW i \in 1..Len(sent) PROVE Ours(sent[i], i)'
        <3>1. Ours(sent[i], i)
            BY DEF SenderInv, Numbers
        <3>2. CASE files' = files /\ spc' = spc
            BY <1>2, <3>1, <3>2 DEF Ours
        <3>3. CASE Len(files') = Len(files) - 1
            <4>1. sent[i].ssrc \in Nat /\ Len(files) \in Nat
                <5>1. sent[i] \in Message
                    BY DEF SenderInv, SenderTypes
                <5> QED
                    BY <5>1, MessageFields DEF SenderInv, SenderTypes
            <4>2. sent[i].ssrc >= Len(files)
                BY <3>1 DEF Ours
            <4>3. sent[i].ssrc >= Len(files') /\ sent[i].ssrc # Len(files')
                BY <3>3, <4>1, <4>2
            <4> QED
                BY <1>2, <3>1, <4>3 DEF Ours
        <3> QED
            BY <1>2, <3>2, <3>3
    <2>2. \A i \in 1..Len(sent') : Ours(sent[i], i)' /\ sent'[i] = sent[i]
        BY <1>2, <2>1
    <2> QED
        BY <1>1, <1>2, <2>2 DEF SenderInv, Numbers
<1>4. Slots'
    <2>1. spc' # "wait"
        BY <1>1, <1>2
    <2> QED
        BY <1>1, <1>2, <2>1, SlotsKept DEF SenderInv
<1> QED
    BY <1>2, <1>3, <1>4 DEF SenderInv

(* Skipping sends nothing.                                                 *)
LEMMA SkipPacketHolds ==
    ASSUME SenderInv, SkipPacket
    PROVE  SenderInv'
<1>1. /\ SenderTypes'
      /\ UNCHANGED <<files, spc, seq, sent, target, began, clock>>
    BY SkipPacketTypes DEF SenderInv
<1>2. Numbers'
    BY <1>1 DEF SenderInv, Numbers, Ours
<1>3. Slots'
    BY <1>1, SlotsKept DEF SenderInv
<1> QED
    BY <1>1, <1>2, <1>3 DEF SenderInv

(* A wait ends only when the slot has come.                                *)
LEMMA WakeHolds ==
    ASSUME SenderInv, Wake
    PROVE  SenderInv'
<1>1. /\ spc = "wait" /\ clock >= target /\ spc' = "read"
      /\ UNCHANGED <<files, pages, packets, headers, seq, sent, target, began, clock>>
    BY DEF Wake, fileVars, sendVars
<1>2. SenderTypes'
    BY <1>1 DEF SenderInv, SenderTypes
<1>3. Numbers'
    BY <1>1 DEF SenderInv, Numbers, Ours
<1>4. Slots'
    <2>1. sent # <<>>
        BY <1>1 DEF SenderInv, Slots
    <2> QED
        BY <1>1, <2>1 DEF SenderInv, Slots
<1> QED
    BY <1>2, <1>3, <1>4 DEF SenderInv

(* Time that passes brings the next slot nearer and moves none.            *)
LEMMA TickHolds ==
    ASSUME SenderInv, Tick
    PROVE  SenderInv'
<1>1. /\ clock' = clock + 1
      /\ UNCHANGED <<files, pages, packets, headers, spc, seq, sent, target, began>>
    BY DEF Tick, fileVars, sendVars
<1>2. SenderTypes'
    BY <1>1 DEF SenderInv, SenderTypes
<1>3. Numbers'
    BY <1>1 DEF SenderInv, Numbers, Ours
<1>4. Slots'
    <2>1. CASE sent = <<>>
        BY <1>1, <2>1 DEF SenderInv, Slots
    <2>2. CASE sent # <<>>
        <3> DEFINE total == Played(SubSeq(sent, 2, Len(sent) - 1))
        <3>1. \A i \in 2..(Len(sent) - 1) : sent[i] \in Message
            BY DEF SenderInv, SenderTypes
        <3>2. SubSeq(sent, 2, Len(sent) - 1) \in Seq(Message)
            <4>1. 2 \in Int /\ Len(sent) - 1 \in Int
                BY DEF SenderInv, SenderTypes
            <4> QED
                BY <3>1, <4>1, SubSeqProperties
        <3>3. total \in Nat
            BY <3>2, PlayedNothing
        <3>4. total' = total
            BY <1>1
        <3>5. began \in Nat /\ clock >= began + total /\ (spc # "wait" => clock >= target)
            BY <2>2 DEF SenderInv, Slots
        <3>6. clock \in Nat /\ target \in Nat \cup {-1}
            BY DEF SenderInv, SenderTypes
        <3> HIDE DEF total
        <3>7. clock' >= began + total /\ (spc # "wait" => clock' >= target)
            BY <1>1, <3>3, <3>5, <3>6
        <3>8. clock' >= began' + total' /\ (spc' # "wait" => clock' >= target')
            BY <1>1, <3>4, <3>7
        <3> QED
            BY <1>1, <2>2, <3>5, <3>8 DEF SenderInv, Slots, total
    <2> QED
        BY <2>1, <2>2
<1> QED
    BY <1>2, <1>3, <1>4 DEF SenderInv

(* What is sent after the first packet: one more, and all but the last.    *)
LEMMA Slots2 ==
    ASSUME NEW s \in Seq(Message), NEW m \in Message
    PROVE  /\ s # <<>> => /\ Tail(Append(s, m)) = Append(Tail(s), m) /\ Tail(s) \in Seq(Message)
                          /\ SubSeq(Append(s, m), 2, Len(Append(s, m)) - 1) = Tail(s)
           /\ s = <<>> => /\ Tail(Append(s, m)) = <<>>
                          /\ SubSeq(Append(s, m), 2, Len(Append(s, m)) - 1) = <<>>
<1> DEFINE r == Append(s, m)
<1>1. r \in Seq(Message) /\ r # <<>> /\ Len(r) = Len(s) + 1 /\ Len(s) \in Nat
      /\ r[Len(s) + 1] = m /\ \A i \in 1..Len(s) : r[i] = s[i]
    OBVIOUS
<1> HIDE DEF r
<1>2. CASE s = <<>>
    <2>1. Len(r) = 1
        BY <1>1, <1>2
    <2>2. Tail(r) = SubSeq(r, 2, 1)
        BY <1>1, <2>1, TailIsSubSeq
    <2>3. SubSeq(r, 2, 1) = <<>> /\ SubSeq(r, 2, 0) = <<>>
        BY SubSeqEmpty
    <2> QED
        BY <1>2, <2>1, <2>2, <2>3 DEF r
<1>3. CASE s # <<>>
    <2>1. Tail(s) \in Seq(Message) /\ Len(Tail(s)) = Len(s) - 1 /\ \A i \in 1..(Len(s) - 1) : Tail(s)[i] = s[i + 1]
        BY <1>1, <1>3, HeadTailProperties
    <2>2. Tail(r) \in Seq(Message) /\ Len(Tail(r)) = Len(s) /\ \A i \in 1..Len(s) : Tail(r)[i] = r[i + 1]
        BY <1>1, HeadTailProperties
    <2> DEFINE t == Append(Tail(s), m)
    <2>3. t \in Seq(Message) /\ Len(t) = Len(s) /\ t[Len(s)] = m /\ \A i \in 1..(Len(s) - 1) : t[i] = Tail(s)[i]
        <3> DEFINE u == Tail(s)
        <3>1. u \in Seq(Message) /\ Len(u) = Len(s) - 1
            BY <2>1
        <3> HIDE DEF u
        <3>2. Append(u, m) \in Seq(Message) /\ Len(Append(u, m)) = Len(u) + 1 /\ Append(u, m)[Len(u) + 1] = m
              /\ \A i \in 1..Len(u) : Append(u, m)[i] = u[i]
            BY <3>1
        <3>3. Len(u) + 1 = Len(s)
            BY <1>1, <3>1
        <3> QED
            BY <3>1, <3>2, <3>3 DEF u
    <2> HIDE DEF t
    <2>4. ASSUME NEW i \in 1..Len(s) PROVE Tail(r)[i] = t[i]
        <3>1. CASE i = Len(s)
            BY <1>1, <2>2, <2>3, <3>1
        <3>2. CASE i # Len(s)
            <4>1. i \in 1..(Len(s) - 1) /\ i + 1 \in 1..Len(s)
                BY <1>1, <3>2
            <4> QED
                BY <1>1, <2>1, <2>2, <2>3, <4>1
        <3> QED
            BY <3>1, <3>2
    <2>5. Tail(r) = t
        BY <2>2, <2>3, <2>4, SeqEqual
    <2>6. SubSeq(r, 2, Len(r) - 1) = Tail(s)
        <3> DEFINE u == SubSeq(r, 2, Len(s))
        <3>1. \A i \in 2..Len(s) : r[i] \in Message
            BY <1>1
        <3>2. 2 \in Int /\ Len(s) \in Int
            BY <1>1
        <3>3. u \in Seq(Message) /\ Len(u) = (IF 2 <= Len(s) THEN Len(s) - 2 + 1 ELSE 0)
              /\ \A i \in 1..(Len(s) - 2 + 1) : u[i] = r[2 + i - 1]
            BY <3>1, <3>2, SubSeqProperties
        <3> HIDE DEF u
        <3>4. Len(s) >= 1
            BY <1>1, <1>3
        <3>5. Len(u) = Len(s) - 1
            <4>1. 2 <= Len(s) => Len(u) = Len(s) - 2 + 1
                BY <3>3
            <4>2. ~(2 <= Len(s)) => Len(u) = 0
                BY <3>3
            <4>3. Len(s) \in Nat
                BY <1>1
            <4> QED
                BY <3>4, <4>1, <4>2, <4>3
        <3>6. ASSUME NEW i \in 1..(Len(s) - 1) PROVE u[i] = Tail(s)[i]
            <4>1. i \in 1..(Len(s) - 2 + 1) /\ 2 + i - 1 = i + 1 /\ i + 1 \in 1..Len(s)
                BY <1>1
            <4> QED
                BY <1>1, <2>1, <3>3, <4>1
        <3>7. u = Tail(s)
            BY <2>1, <3>3, <3>5, <3>6, SeqEqual
        <3>8. Len(r) - 1 = Len(s)
            BY <1>1
        <3> QED
            BY <3>7, <3>8 DEF u
    <2> QED
        BY <1>3, <2>1, <2>5, <2>6 DEF r, t
<1> QED
    BY <1>2, <1>3

(* What is sent has the next number and place, and begins the next slot.   *)
LEMMA SendPacketHolds ==
    ASSUME SenderInv, SendPacket
    PROVE  /\ SenderInv'
           /\ \E m \in Message : /\ sent' = Append(sent, m) /\ net' = Append(net, m)
                                /\ m.id = Len(sent) + 1
<1>1. spc = "read" /\ files # <<>> /\ files' = files /\ clock' = clock
    BY DEF SendPacket, SenderInv, Numbers
<1>2. /\ SenderTypes' /\ Head(packets) \in Packet /\ Rtp(Head(packets)) \in Message
      /\ seq' = seq + 1 /\ sent' = Append(sent, Rtp(Head(packets)))
      /\ net' = Append(net, Rtp(Head(packets)))
    BY <1>1, SendPacketTypes DEF SenderInv
<1>3. PICK d \in Nat : d = Head(packets).samples
    BY <1>2 DEF Packet
<1>4. \/ target = -1 /\ target' = clock /\ began' = clock /\ spc' = spc
      \/ target # -1 /\ target' = target + d /\ spc' = "wait" /\ began' = began
    BY <1>3 DEF SendPacket, NextSlot
<1>5. /\ sent \in Seq(Message) /\ Len(sent) \in Nat /\ seq \in Nat /\ clock \in Nat
      /\ target \in Nat \cup {-1} /\ Len(files) \in Nat /\ Len(files) > 0
    BY <1>1 DEF SenderInv, SenderTypes
<1>6. PICK k \in Nat : k = Len(sent) + 1
    BY <1>5
<1>7. PICK m \in Message : m = Rtp(Head(packets))
    BY <1>2
<1>8. /\ m.samples = d /\ m.number = seq' /\ m.ssrc = Len(files) /\ m.id = k
      /\ m.seq = m.number % Wrap /\ m.parsed /\ m.valid /\ m.port = Port /\ m.type = Type
    BY <1>3, <1>6, <1>7 DEF Rtp, Written
<1>9. sent' = Append(sent, m) /\ net' = Append(net, m)
    BY <1>2, <1>7
<1>10. Ours(m, k)'
    <2>1. seq' <= seq' /\ Len(files) >= Len(files)
        BY <1>2, <1>5
    <2>2. /\ m.ssrc > 0 /\ m.ssrc >= Len(files') /\ spc' # "open" /\ m.number <= seq'
        BY <1>1, <1>4, <1>5, <1>8, <2>1
    <2> QED
        BY <1>8, <2>2 DEF Ours
<1>11. /\ Len(sent') = k /\ sent'[k] = m
       /\ \A i \in 1..Len(sent) : sent'[i] = sent[i]
    BY <1>5, <1>6, <1>9
<1>12. \A i \in 1..k : i = k \/ i \in 1..Len(sent)
    BY <1>5, <1>6
<1>13. ASSUME NEW i \in 1..Len(sent) PROVE Ours(sent[i], i) /\ sent[i].ssrc \in Nat /\ sent[i].number \in Nat
    <2>1. sent[i] \in Message
        BY <1>5
    <2> QED
        BY <2>1, MessageFields DEF SenderInv, Numbers
<1>14. Numbers'
    <2>1. ASSUME NEW i \in 1..Len(sent') PROVE Ours(sent[i], i)'
        <3>1. CASE i = k
            BY <1>10, <1>11, <3>1 DEF Ours
        <3>2. CASE i # k
            <4>1. i \in 1..Len(sent) /\ sent'[i] = sent[i]
                BY <1>11, <1>12, <3>2
            <4>2. PICK x : x = sent[i]
                OBVIOUS
            <4>3. Ours(x, i) /\ x.number \in Nat
                BY <1>13, <4>1, <4>2
            <4>4. x.number <= seq => x.number <= seq'
                BY <1>2, <1>5, <4>3
            <4>5. Ours(x, i)'
                BY <1>1, <1>4, <4>3, <4>4 DEF Ours
            <4> QED
                BY <4>1, <4>2, <4>5 DEF Ours
        <3> QED
            BY <3>1, <3>2
    <2>2. ASSUME NEW i \in 1..Len(sent'), NEW j \in 1..Len(sent'), i < j, sent'[i].ssrc = sent'[j].ssrc
          PROVE  sent'[i].number < sent'[j].number
        <3>1. i \in 1..Len(sent) /\ sent'[i] = sent[i]
            BY <1>6, <1>5, <1>11, <2>2
        <3>2. CASE j = k
            <4>1. sent[i].ssrc = Len(files)
                BY <1>8, <1>11, <2>2, <3>1, <3>2
            <4>2. sent[i].number <= seq
                BY <1>13, <3>1, <4>1 DEF Ours
            <4>3. sent[i].number < seq + 1
                BY <1>5, <1>13, <3>1, <4>2
            <4> QED
                BY <1>2, <1>8, <1>11, <3>1, <3>2, <4>3
        <3>3. CASE j # k
            <4>1. j \in 1..Len(sent) /\ sent'[j] = sent[j]
                BY <1>11, <1>12, <3>3
            <4> QED
                BY <2>2, <3>1, <4>1 DEF SenderInv, Numbers
        <3> QED
            BY <3>2, <3>3
    <2>3. spc' \in {"read", "wait"} => files' # <<>>
        BY <1>1
    <2> QED
        BY <2>1, <2>2, <2>3 DEF Numbers
<1>15. Slots'
    <2>1. sent' # <<>>
        BY <1>9, <1>5
    <2>2. CASE sent = <<>>
        <3>1. target = -1 /\ spc # "wait"
            BY <2>2 DEF SenderInv, Slots
        <3>2. target' = clock /\ began' = clock /\ spc' = spc
            BY <1>4, <3>1
        <3>3. Played(Tail(sent')) = 0 /\ Played(SubSeq(sent', 2, Len(sent') - 1)) = 0
            BY <1>5, <1>9, <2>2, Slots2, PlayedNothing
        <3>4. clock = clock + 0 /\ clock >= clock + 0 /\ clock >= clock
            BY <1>5
        <3> QED
            BY <1>1, <1>5, <2>1, <3>2, <3>3, <3>4 DEF Slots
    <2>3. CASE sent # <<>>
        <3>1. began \in Nat /\ target = began + Played(Tail(sent)) /\ clock >= target
            BY <1>1, <2>3 DEF SenderInv, Slots
        <3>2. /\ Tail(sent') = Append(Tail(sent), m) /\ Tail(sent) \in Seq(Message)
              /\ SubSeq(sent', 2, Len(sent') - 1) = Tail(sent)
            BY <1>5, <1>9, <2>3, Slots2
        <3>3. PICK total \in Nat : total = Played(Tail(sent))
            BY <3>2, PlayedNothing
        <3>4. Played(Tail(sent')) = total + d /\ Played(SubSeq(sent', 2, Len(sent') - 1)) = total
            BY <1>8, <3>2, <3>3, PlayedOneMore
        <3>5. target # -1
            BY <3>1, <3>3
        <3>6. target' = target + d /\ spc' = "wait" /\ began' = began
            BY <1>4, <3>5
        <3>7. target' = began' + Played(Tail(sent'))
            BY <3>1, <3>3, <3>4, <3>6
        <3>8. clock' >= began' + Played(SubSeq(sent', 2, Len(sent') - 1))
            BY <1>1, <3>1, <3>3, <3>4, <3>6
        <3> QED
            BY <2>1, <3>1, <3>6, <3>7, <3>8 DEF Slots
    <2> QED
        BY <2>2, <2>3
<1> QED
    BY <1>2, <1>6, <1>8, <1>9, <1>14, <1>15 DEF SenderInv

-----------------------------------------------------------------------------
(* Packets on their way.                                                   *)

(* A packet is of the others or has its place among those sent.            *)
LEMMA KnownId ==
    ASSUME Numbers, sent \in Seq(Message), NEW m, Known(m)
    PROVE  /\ m \in Message /\ m.id \in 0..Len(sent)
           /\ m.id = 0 => m \in Strays /\ m.ssrc = 0
           /\ m.id > 0 => m = sent[m.id] /\ Ours(m, m.id)
<1>1. CASE m \in Strays
    BY <1>1, OpusRtpAssumption
<1>2. CASE \E i \in 1..Len(sent) : m = sent[i]
    <2>1. PICK i \in 1..Len(sent) : m = sent[i]
        BY <1>2
    <2>2. m \in Message /\ Ours(m, i)
        BY <2>1 DEF Numbers
    <2>3. m.id = i
        BY <2>2 DEF Ours
    <2> QED
        BY <2>1, <2>2, <2>3
<1> QED
    BY <1>1, <1>2 DEF Known

(* What was sent stays sent.                                               *)
LEMMA KnownLater ==
    ASSUME sent \in Seq(Message), NEW m \in Message, sent' = Append(sent, m)
    PROVE  /\ \A x : Known(x) => Known(x)'
           /\ Known(m)'
<1>1. /\ Len(sent) \in Nat /\ Len(sent') = Len(sent) + 1 /\ sent'[Len(sent) + 1] = m
      /\ \A i \in 1..Len(sent) : sent'[i] = sent[i]
    OBVIOUS
<1>2. Len(sent) + 1 \in 1..Len(sent') /\ \A i \in 1..Len(sent) : i \in 1..Len(sent')
    BY <1>1
<1> QED
    BY <1>1, <1>2 DEF Known

(* Of a recording without others, all was sent.                            *)
LEMMA RecordedWereSent ==
    ASSUME Numbers, sent \in Seq(Message), NEW r \in Seq(Entry), Sorted(r),
           NEW n \in 1..Len(r), r[n].message.id = n
    PROVE  n <= Len(sent) /\ r[n].message = sent[n]
<1>1. Known(r[n].message)
    BY DEF Sorted
<1>2. r[n].message.id \in 0..Len(sent) /\ (r[n].message.id > 0 => r[n].message = sent[r[n].message.id])
    BY <1>1, KnownId
<1>3. n > 0 /\ n \in Nat /\ Len(sent) \in Nat
    OBVIOUS
<1> QED
    BY <1>2, <1>3

(* One more packet of the sender is on its way.                            *)
LEMMA SendReception ==
    ASSUME Reception, ReceptionTypes, Numbers, sent \in Seq(Message), NEW m \in Message,
           sent' = Append(sent, m), net' = Append(net, m), m.id = Len(sent) + 1,
           UNCHANGED <<faults, recorderVars>>
    PROVE  Reception' /\ ReceptionTypes'
<1>1. /\ faults' = faults /\ option' = option /\ rpc' = rpc /\ captured' = captured
      /\ dstPort' = dstPort /\ payloadType' = payloadType /\ lastSeq' = lastSeq
      /\ granule' = granule /\ queue' = queue /\ out' = out /\ skipped' = skipped
    BY DEF recorderVars
<1>2. Recorded' = Recorded
    BY <1>1 DEF Recorded
<1>3. (\A x : Known(x) => Known(x)') /\ Known(m)'
    BY KnownLater
<1>4. PICK k \in Nat : k = Len(sent)
    OBVIOUS
<1>5. PICK l \in Nat : l = Len(net)
    BY DEF ReceptionTypes
<1>6. net' \in Seq(Message) /\ Len(net') = l + 1 /\ net'[l + 1] = m /\ \A i \in 1..l : net'[i] = net[i]
    BY <1>5 DEF ReceptionTypes
<1>7. \A i \in 1..(l + 1) : i = l + 1 \/ i \in 1..l
    BY <1>5
<1>8. ReceptionTypes'
    BY <1>1, <1>6 DEF ReceptionTypes
<1>9. ASSUME NEW i \in 1..Len(net') PROVE Known(net[i])'
    <2>1. CASE i = l + 1
        BY <1>3, <1>6, <2>1
    <2>2. CASE i \in 1..l
        <3>1. Known(net[i]) /\ net'[i] = net[i]
            BY <1>5, <1>6, <2>2 DEF Reception
        <3>2. PICK x : x = net[i]
            OBVIOUS
        <3>3. Known(x)'
            BY <1>3, <3>1, <3>2
        <3> QED
            BY <3>1, <3>2, <3>3
    <2> QED
        BY <1>6, <1>7, <2>1, <2>2
<1>10. PICK r \in Seq(Entry) : r = Recorded
    BY RecordedType DEF ReceptionTypes
<1>11. Sorted(r) /\ Positions(r) /\ Complete(r)
    BY <1>10 DEF Reception
<1>12. Sorted(r)' /\ Positions(r)'
    BY <1>1, <1>3, <1>11 DEF Sorted, Positions
<1>13. ASSUME NEW n \in Nat, n <= k, Coming(n) PROVE Coming(n)'
    <2>1. \A i \in 1..l : net[i].id \in 0..k
        BY <1>4, <1>5, KnownId DEF Reception
    <2>2. ASSUME NEW i \in 1..(l + 1), NEW j \in 1..(l + 1), i < j, net'[i].id > 0, net'[j].id > 0
          PROVE  net'[i].id < net'[j].id
        <3>1. i \in 1..l
            BY <1>5, <2>2
        <3>2. CASE j = l + 1
            BY <1>4, <1>6, <2>1, <3>1, <3>2
        <3>3. CASE j \in 1..l
            BY <1>5, <1>6, <1>13, <2>2, <3>1, <3>3 DEF Coming
        <3> QED
            BY <1>7, <3>2, <3>3
    <2>3. ASSUME NEW i \in 1..(l + 1), net'[i].id > 0 PROVE net'[i].id > n
        <3>1. CASE i = l + 1
            BY <1>4, <1>6, <1>13, <3>1
        <3>2. CASE i \in 1..l
            BY <1>5, <1>6, <1>13, <2>3, <3>2 DEF Coming
        <3> QED
            BY <1>7, <3>1, <3>2
    <2>4. ASSUME NEW x \in (n + 1)..(k + 1) PROVE \E i \in 1..(l + 1) : net'[i].id = x
        <3>1. CASE x = k + 1
            <4>1. l + 1 \in 1..(l + 1)
                BY <1>5
            <4> QED
                BY <1>4, <1>6, <3>1, <4>1
        <3>2. CASE x # k + 1
            <4>1. x \in (n + 1)..k
                BY <1>4, <3>2
            <4>2. PICK i \in 1..l : net[i].id = x
                BY <1>4, <1>5, <1>13, <4>1 DEF Coming
            <4>3. i \in 1..(l + 1)
                BY <1>5
            <4> QED
                BY <1>6, <4>2, <4>3
        <3> QED
            BY <3>1, <3>2
    <2>5. Len(sent') = k + 1
        BY <1>4
    <2> QED
        BY <1>6, <2>2, <2>3, <2>4, <2>5 DEF Coming
<1>14. Complete(r)'
    <2>1. SUFFICES ASSUME faults = 0 /\ skipped = {}, rpc = "capture", OnlyOurs(r, Len(r)), SenderWanted
                   PROVE  Coming(Len(r))'
        BY <1>1, <1>11 DEF Complete, OnlyOurs, Chosen, SenderWanted
    <2>2. Coming(Len(r)) /\ \A n \in 1..Len(r) : OnlyOurs(r, n) => r[n].message.id = n
        BY <1>11, <2>1 DEF Complete
    <2>3. Len(r) <= k /\ Len(r) \in Nat
        <3>1. CASE Len(r) = 0
            BY <1>4, <3>1
        <3>2. CASE Len(r) # 0
            <4>1. PICK n \in 1..Len(r) : n = Len(r)
                BY <3>2
            <4>2. r[n].message.id = n
                BY <2>1, <2>2, <4>1
            <4>3. n <= Len(sent)
                BY <1>11, <4>2, RecordedWereSent
            <4> QED
                BY <1>4, <4>1, <4>3
        <3> QED
            BY <3>1, <3>2
    <2> QED
        BY <1>13, <2>2, <2>3
<1>15. PagesOK'
    BY <1>1 DEF Reception, PagesOK
<1>16. Sorted(Recorded)' /\ Positions(Recorded)' /\ Complete(Recorded)'
    BY <1>2, <1>10, <1>12, <1>14
<1> QED
    BY <1>8, <1>9, <1>15, <1>16 DEF Reception

(* The network changes what is on its way.                                 *)
LEMMA NetChanges ==
    ASSUME Reception, ReceptionTypes, UNCHANGED <<sent, recorderVars>>, faults' \in Nat,
           net' \in Seq(Message), \A i \in 1..Len(net') : Known(net'[i]),
           faults' = 0 => faults = 0 /\ \A n \in Nat : Coming(n) => Coming(n)'
    PROVE  Reception' /\ ReceptionTypes'
<1>1. /\ sent' = sent /\ option' = option /\ rpc' = rpc /\ captured' = captured
      /\ dstPort' = dstPort /\ payloadType' = payloadType /\ lastSeq' = lastSeq
      /\ granule' = granule /\ queue' = queue /\ out' = out /\ skipped' = skipped
    BY DEF recorderVars
<1>2. ReceptionTypes'
    BY <1>1 DEF ReceptionTypes
<1>3. Recorded' = Recorded
    BY <1>1 DEF Recorded
<1>4. \A m : Known(m)' <=> Known(m)
    BY <1>1 DEF Known
<1>5. ASSUME NEW i \in 1..Len(net') PROVE Known(net[i])'
    <2>1. PICK x : x = net'[i]
        OBVIOUS
    <2>2. Known(x)'
        BY <1>4, <2>1
    <2> QED
        BY <2>1, <2>2
<1>6. PICK r \in Seq(Entry) : r = Recorded
    BY RecordedType DEF ReceptionTypes
<1>7. Sorted(r) /\ Positions(r) /\ Complete(r)
    BY <1>6 DEF Reception
<1>8. Sorted(r)' /\ Positions(r)'
    BY <1>1, <1>4, <1>7 DEF Sorted, Positions
<1>9. Complete(r)'
    <2>1. Len(r) \in Nat
        OBVIOUS
    <2>2. OnlyOurs(r, Len(r))' <=> OnlyOurs(r, Len(r))
        BY DEF OnlyOurs
    <2>3. (Chosen(r)' <=> Chosen(r)) /\ (SenderWanted' <=> SenderWanted)
        BY <1>1 DEF Chosen, SenderWanted
    <2> QED
        BY <1>1, <1>7, <2>1, <2>2, <2>3 DEF Complete, OnlyOurs
<1>10. PagesOK'
    BY <1>1 DEF Reception, PagesOK
<1>11. Sorted(Recorded)' /\ Positions(Recorded)' /\ Complete(Recorded)'
    BY <1>3, <1>6, <1>8, <1>9
<1> QED
    BY <1>2, <1>5, <1>10, <1>11 DEF Reception

(* What is left when one is lost was there before.                         *)
LEMMA RemoveAtMembers ==
    ASSUME NEW s \in Seq(Message), NEW i \in 1..Len(s)
    PROVE  /\ RemoveAt(s, i) \in Seq(Message)
           /\ \A j \in 1..Len(RemoveAt(s, i)) : \E k \in 1..Len(s) : RemoveAt(s, i)[j] = s[k]
<1> DEFINE a == SubSeq(s, 1, i - 1)
           b == SubSeq(s, i + 1, Len(s))
           n == Len(s)
<1>1. n \in Nat /\ i \in Nat /\ i >= 1 /\ i <= n
    OBVIOUS
<1>2. /\ a \in Seq(Message) /\ Len(a) = (IF 1 <= i - 1 THEN i - 1 - 1 + 1 ELSE 0)
      /\ \A j \in 1..(i - 1 - 1 + 1) : a[j] = s[1 + j - 1]
    <2>1. 1 \in Int /\ i - 1 \in Int /\ \A j \in 1..(i - 1) : s[j] \in Message
        BY <1>1
    <2> QED
        BY <2>1, SubSeqProperties
<1>3. /\ b \in Seq(Message) /\ Len(b) = (IF i + 1 <= n THEN n - (i + 1) + 1 ELSE 0)
      /\ \A j \in 1..(n - (i + 1) + 1) : b[j] = s[i + 1 + j - 1]
    <2>1. n \in Int /\ i + 1 \in Int /\ \A j \in (i + 1)..n : s[j] \in Message
        BY <1>1
    <2> QED
        BY <2>1, SubSeqProperties
<1> HIDE DEF a, b, n
<1>4. Len(a) = i - 1 /\ Len(b) = n - i
    BY <1>1, <1>2, <1>3
<1>5. a \o b \in Seq(Message) /\ Len(a \o b) = Len(a) + Len(b)
      /\ \A j \in 1..(Len(a) + Len(b)) : (a \o b)[j] = IF j <= Len(a) THEN a[j] ELSE b[j - Len(a)]
    BY <1>2, <1>3, ConcatProperties
<1>6. ASSUME NEW j \in 1..Len(a \o b) PROVE \E k \in 1..n : (a \o b)[j] = s[k]
    <2>1. j \in Nat /\ j >= 1 /\ j <= i - 1 + (n - i)
        BY <1>1, <1>4, <1>5
    <2>2. CASE j <= i - 1
        <3>1. j \in 1..n /\ j \in 1..(i - 1 - 1 + 1) /\ 1 + j - 1 = j
            BY <1>1, <2>1, <2>2
        <3>2. (a \o b)[j] = a[j] /\ a[j] = s[j]
            BY <1>2, <1>4, <1>5, <2>2, <3>1
        <3> QED
            BY <3>1, <3>2
    <2>3. CASE ~(j <= i - 1)
        <3>1. j + 1 \in 1..n /\ j - (i - 1) \in 1..(n - (i + 1) + 1) /\ i + 1 + (j - (i - 1)) - 1 = j + 1
            BY <1>1, <2>1, <2>3
        <3>2. (a \o b)[j] = b[j - (i - 1)]
            BY <1>4, <1>5, <2>3
        <3>3. b[j - (i - 1)] = s[j + 1]
            BY <1>3, <3>1
        <3> QED
            BY <3>1, <3>2, <3>3
    <2> QED
        BY <2>2, <2>3
<1> QED
    BY <1>5, <1>6 DEF RemoveAt, a, b, n

(* A fault brings nothing that was not there; without one nothing is lost. *)
LEMMA FaultHolds ==
    ASSUME Reception, ReceptionTypes, Fault
    PROVE  Reception' /\ ReceptionTypes'
<1>1. /\ faults' = faults + 1 /\ UNCHANGED <<sent, recorderVars>>
    BY DEF Fault, sendVars
<1>2. PICK i \in 1..Len(net) :
          net' \in {RemoveAt(net, i), Append(net, net[i]), <<net[i]>> \o RemoveAt(net, i)}
    BY DEF Fault
<1>3. net \in Seq(Message) /\ faults \in Nat
    BY DEF ReceptionTypes
<1>4. net[i] \in Message /\ <<net[i]>> \in Seq(Message)
    BY <1>3
<1> DEFINE s == RemoveAt(net, i)
           m == net[i]
           From(q) == \A j \in 1..Len(q) : \E k \in 1..Len(net) : q[j] = net[k]
<1>5. s \in Seq(Message) /\ From(s)
    BY <1>3, RemoveAtMembers
<1>6. Append(net, m) \in Seq(Message) /\ From(Append(net, m))
    BY <1>3, <1>4
<1>7. <<m>> \o s \in Seq(Message) /\ From(<<m>> \o s)
    <2> HIDE DEF s
    <2>1. <<m>> \o s \in Seq(Message) /\ Len(<<m>> \o s) = Len(s) + 1 /\ Len(s) \in Nat
          /\ \A j \in 1..(Len(s) + 1) : (<<m>> \o s)[j] = IF j = 1 THEN m ELSE s[j - 1]
        BY <1>4, <1>5
    <2>2. ASSUME NEW j \in 1..(Len(s) + 1) PROVE \E k \in 1..Len(net) : (<<m>> \o s)[j] = net[k]
        <3>1. CASE j = 1
            BY <2>1, <3>1
        <3>2. CASE j # 1
            <4>1. j - 1 \in 1..Len(s)
                BY <2>1, <3>2
            <4>2. (<<m>> \o s)[j] = s[j - 1]
                BY <2>1, <3>2
            <4> QED
                BY <1>5, <4>1, <4>2
        <3> QED
            BY <3>1, <3>2
    <2> QED
        BY <2>1, <2>2
<1> HIDE DEF s, m
<1>8. net' \in Seq(Message) /\ From(net')
    BY <1>2, <1>5, <1>6, <1>7, ZenonT(60) DEF s, m
<1>9. \A j \in 1..Len(net') : Known(net'[j])
    BY <1>8 DEF Reception
<1>10. faults' \in Nat /\ faults' # 0
    BY <1>1, <1>3
<1> QED
    BY <1>1, <1>8, <1>9, <1>10, NetChanges

(* A packet of others is no packet of the sender.                          *)
LEMMA PassesByHolds ==
    ASSUME Reception, ReceptionTypes, sent \in Seq(Message), PassesBy
    PROVE  Reception' /\ ReceptionTypes'
<1>1. /\ faults' = faults /\ UNCHANGED <<sent, recorderVars>>
    BY DEF PassesBy, sendVars
<1>2. PICK m \in Strays : net' = Append(net, m)
    BY DEF PassesBy
<1>3. net \in Seq(Message) /\ faults \in Nat /\ m \in Message /\ m.id = 0
    BY OpusRtpAssumption DEF ReceptionTypes
<1>4. PICK l \in Nat : l = Len(net)
    BY <1>3
<1>5. /\ net' \in Seq(Message) /\ Len(net') = l + 1 /\ net'[l + 1] = m
      /\ \A i \in 1..l : net'[i] = net[i]
    BY <1>2, <1>3, <1>4
<1>6. \A i \in 1..(l + 1) : i = l + 1 \/ i \in 1..l
    BY <1>4
<1>7. \A i \in 1..Len(net') : Known(net'[i])
    BY <1>4, <1>5, <1>6 DEF Reception, Known
<1>8. \A i \in 1..(l + 1) : net'[i].id > 0 => i \in 1..l
    BY <1>3, <1>5, <1>6
<1>9. \A i \in 1..l : i \in 1..(l + 1)
    BY <1>4
<1>10. ASSUME NEW n \in Nat, Coming(n) PROVE Coming(n)'
    <2>1. ASSUME NEW i \in 1..Len(net'), NEW j \in 1..Len(net'), i < j, net'[i].id > 0, net'[j].id > 0
          PROVE  net'[i].id < net'[j].id
        BY <1>4, <1>5, <1>8, <1>10, <2>1 DEF Coming
    <2>2. \A i \in 1..Len(net') : net'[i].id > 0 => net'[i].id > n
        BY <1>4, <1>5, <1>8, <1>10 DEF Coming
    <2>3. ASSUME NEW x \in (n + 1)..Len(sent) PROVE \E i \in 1..Len(net') : net'[i].id = x
        BY <1>4, <1>5, <1>9, <1>10 DEF Coming
    <2> QED
        BY <1>1, <2>1, <2>2, <2>3 DEF Coming
<1> QED
    BY <1>1, <1>3, <1>5, <1>7, <1>10, NetChanges

-----------------------------------------------------------------------------
(* The recorder.                                                           *)

(* The types of what is in an entry.                                       *)
LEMMA EntryFields ==
    ASSUME NEW e \in Entry
    PROVE  e.message \in Message /\ e.granule \in Nat
BY DEF Entry

(* The packets of a recording.                                             *)
LEMMA GotType ==
    ASSUME NEW r \in Seq(Entry)
    PROVE  /\ Got(r) \in Seq(Message) /\ Len(Got(r)) = Len(r)
           /\ \A i \in 1..Len(r) : Got(r)[i] = r[i].message
<1>1. ASSUME NEW i \in 1..Len(r) PROVE r[i].message \in Message
    <2>1. r[i] \in Entry
        OBVIOUS
    <2> QED
        BY <2>1, EntryFields
<1>2. Len(r) \in Nat
    OBVIOUS
<1> QED
    BY <1>1, <1>2 DEF Got

(* The first messages of a list are the same in a longer one.              *)
LEMMA FirstMessages ==
    ASSUME NEW S, NEW g \in Seq(S), NEW h \in Seq(S), NEW k \in Nat, k <= Len(g), k <= Len(h),
           \A i \in 1..k : g[i] = h[i]
    PROVE  SubSeq(g, 1, k) = SubSeq(h, 1, k)
<1>1. (\A i \in 1..k : g[i] \in S) /\ \A i \in 1..k : h[i] \in S
    OBVIOUS
<1>2. 1 \in Int /\ k \in Int
    OBVIOUS
<1> DEFINE a == SubSeq(g, 1, k)
           b == SubSeq(h, 1, k)
<1>3. a \in Seq(S) /\ Len(a) = (IF 1 <= k THEN k - 1 + 1 ELSE 0) /\ \A i \in 1..(k - 1 + 1) : a[i] = g[1 + i - 1]
    BY <1>1, <1>2, SubSeqProperties
<1>4. b \in Seq(S) /\ Len(b) = (IF 1 <= k THEN k - 1 + 1 ELSE 0) /\ \A i \in 1..(k - 1 + 1) : b[i] = h[1 + i - 1]
    BY <1>1, <1>2, SubSeqProperties
<1> HIDE DEF a, b
<1>5. Len(a) = k /\ Len(b) = k
    BY <1>3, <1>4
<1>6. \A i \in 1..k : a[i] = b[i]
    BY <1>3, <1>4
<1>7. a = b
    BY <1>3, <1>4, <1>5, <1>6, SeqEqual
<1> QED
    BY <1>7 DEF a, b

(* One entry more is one packet more, after those that were there.         *)
LEMMA GotOneMore ==
    ASSUME NEW r \in Seq(Entry), NEW e \in Entry
    PROVE  /\ Got(Append(r, e)) = Append(Got(r), e.message)
           /\ \A i \in 1..Len(r) : SubSeq(Got(Append(r, e)), 1, i) = SubSeq(Got(r), 1, i)
           /\ SubSeq(Got(Append(r, e)), 1, Len(r) + 1) = Append(Got(r), e.message)
<1> DEFINE q == Append(r, e)
<1>1. q \in Seq(Entry) /\ Len(q) = Len(r) + 1 /\ q[Len(r) + 1] = e /\ Len(r) \in Nat
      /\ \A i \in 1..Len(r) : q[i] = r[i]
    OBVIOUS
<1> HIDE DEF q
<1>2. e.message \in Message
    BY EntryFields
<1>3. /\ Got(r) \in Seq(Message) /\ Len(Got(r)) = Len(r) /\ \A i \in 1..Len(r) : Got(r)[i] = r[i].message
      /\ Got(q) \in Seq(Message) /\ Len(Got(q)) = Len(q) /\ \A i \in 1..Len(q) : Got(q)[i] = q[i].message
    BY <1>1, GotType
<1> DEFINE g == Got(r)
           h == Got(q)
           a == Append(g, e.message)
<1>4. g \in Seq(Message) /\ h \in Seq(Message) /\ Len(g) = Len(r) /\ Len(h) = Len(r) + 1
      /\ h[Len(r) + 1] = e.message /\ \A i \in 1..Len(r) : h[i] = g[i]
    BY <1>1, <1>3
<1> HIDE DEF g, h
<1>5. a \in Seq(Message) /\ Len(a) = Len(r) + 1 /\ a[Len(r) + 1] = e.message /\ \A i \in 1..Len(r) : a[i] = g[i]
    BY <1>2, <1>4
<1> HIDE DEF a
<1>6. ASSUME NEW i \in 1..(Len(r) + 1) PROVE h[i] = a[i]
    <2>1. i = Len(r) + 1 \/ i \in 1..Len(r)
        BY <1>1
    <2> QED
        BY <1>4, <1>5, <2>1
<1>7. h = a
    BY <1>4, <1>5, <1>6, SeqEqual
<1>8. ASSUME NEW i \in 1..Len(r) PROVE SubSeq(h, 1, i) = SubSeq(g, 1, i)
    <2>1. i \in Nat /\ i <= Len(h) /\ i <= Len(g) /\ \A j \in 1..i : h[j] = g[j]
        BY <1>1, <1>4
    <2> QED
        BY <1>4, <2>1, FirstMessages
<1>9. SubSeq(h, 1, Len(r) + 1) = a
    BY <1>4, <1>7, SubSeqFull
<1> QED
    BY <1>7, <1>8, <1>9 DEF g, h, a, q

(* The packets of a first part are the first packets.                      *)
LEMMA GotPrefix ==
    ASSUME NEW r \in Seq(Entry), NEW k \in 0..Len(r)
    PROVE  LET q == SubSeq(r, 1, k) IN
           /\ q \in Seq(Entry) /\ Len(q) = k /\ \A i \in 1..k : i \in 1..Len(r) /\ q[i] = r[i]
           /\ \A i \in 1..k : SubSeq(Got(q), 1, i) = SubSeq(Got(r), 1, i)
<1> DEFINE q == SubSeq(r, 1, k)
<1>1. k \in Nat /\ k <= Len(r) /\ Len(r) \in Nat /\ \A i \in 1..k : i \in 1..Len(r)
    OBVIOUS
<1>2. q \in Seq(Entry) /\ Len(q) = (IF 1 <= k THEN k - 1 + 1 ELSE 0) /\ \A i \in 1..(k - 1 + 1) : q[i] = r[1 + i - 1]
    <2>1. 1 \in Int /\ k \in Int /\ \A i \in 1..k : r[i] \in Entry
        BY <1>1
    <2> QED
        BY <2>1, SubSeqProperties
<1> HIDE DEF q
<1>3. Len(q) = k /\ \A i \in 1..k : q[i] = r[i]
    BY <1>1, <1>2
<1>4. ASSUME NEW i \in 1..k PROVE SubSeq(Got(q), 1, i) = SubSeq(Got(r), 1, i)
    <2> DEFINE g == Got(r)
               h == Got(q)
    <2>1. /\ g \in Seq(Message) /\ Len(g) = Len(r) /\ \A j \in 1..Len(r) : g[j] = r[j].message
          /\ h \in Seq(Message) /\ Len(h) = Len(q) /\ \A j \in 1..Len(q) : h[j] = q[j].message
        BY <1>2, GotType
    <2> HIDE DEF g, h
    <2>2. i \in Nat /\ i <= Len(h) /\ i <= Len(g) /\ \A j \in 1..i : h[j] = g[j]
        BY <1>1, <1>3, <2>1
    <2>3. SubSeq(h, 1, i) = SubSeq(g, 1, i)
        BY <2>1, <2>2, FirstMessages
    <2> QED
        BY <2>3 DEF g, h
<1> QED
    BY <1>1, <1>2, <1>3, <1>4 DEF q

(* A page that is made has the position of its last packet.                *)
LEMMA PageOfList ==
    ASSUME NEW l \in Seq(Entry), l # <<>>
    PROVE  /\ PageOf(l) \in OutPage /\ PageOf(l).packets = l
           /\ PageOf(l).granule = Last(PageOf(l).packets).granule
<1>1. Last(l) \in Entry
    BY DEF Last
<1>2. Last(l).granule \in Nat
    BY <1>1, EntryFields
<1> QED
    BY <1>2 DEF PageOf, OutPage

(* With one page more, every page has the position of its last packet.     *)
LEMMA OnePageMore ==
    ASSUME out \in Seq(OutPage), PagesOK, NEW l \in Seq(Entry), l # <<>>, out' = Append(out, PageOf(l))
    PROVE  out' \in Seq(OutPage) /\ PagesOK' /\ Flat(out', <<>>) = Flat(out, l)
<1>1. PICK p \in OutPage : p = PageOf(l)
    BY PageOfList
<1>2. p.packets = l /\ p.granule = Last(p.packets).granule
    BY <1>1, PageOfList
<1>3. /\ out' \in Seq(OutPage) /\ Len(out') = Len(out) + 1 /\ out'[Len(out) + 1] = p /\ Len(out) \in Nat
      /\ \A i \in 1..Len(out) : out'[i] = out[i]
    BY <1>1
<1>4. ASSUME NEW i \in 1..Len(out') PROVE out'[i].granule = Last(out'[i].packets).granule
    <2>1. i = Len(out) + 1 \/ i \in 1..Len(out)
        BY <1>3
    <2> QED
        BY <1>2, <1>3, <2>1 DEF PagesOK
<1>5. Flat(out', <<>>) = Flat(out, l)
    BY <1>1, <1>2, FlatPage
<1> QED
    BY <1>3, <1>4, <1>5 DEF PagesOK

(* A packet that is taken is one more in the recording, whether it stays   *)
(* in the queue or completes a page.                                       *)
LEMMA TakenRecorded ==
    ASSUME ReceptionTypes, PagesOK, NEW e \in Entry, Paged(Append(queue, e))
    PROVE  /\ Recorded' = Append(Recorded, e) /\ PagesOK'
           /\ queue' \in Seq(Entry) /\ out' \in Seq(OutPage)
<1>1. PICK l \in Seq(Entry) : l = Append(queue, e)
    <2>1. queue \in Seq(Entry)
        BY DEF ReceptionTypes
    <2>2. Append(queue, e) \in Seq(Entry)
        BY <2>1, AppendProperties
    <2> QED
        BY <2>2
<1>2. l # <<>> /\ queue \in Seq(Entry) /\ out \in Seq(OutPage)
    BY <1>1 DEF ReceptionTypes
<1>3. Recorded = Flat(out, queue) /\ Recorded' = Flat(out', queue')
    BY DEF Recorded, Flat, Lists
<1>4. Flat(out, l) = Append(Flat(out, queue), e)
    BY <1>1, <1>2, FlatEnqueue
<1>5. CASE queue' = l /\ out' = out
    BY <1>2, <1>3, <1>4, <1>5 DEF PagesOK
<1>6. CASE queue' = <<>> /\ out' = Append(out, PageOf(l))
    <2>1. out' \in Seq(OutPage) /\ PagesOK' /\ Flat(out', <<>>) = Flat(out, l)
        BY <1>2, <1>6, OnePageMore
    <2> QED
        BY <1>3, <1>4, <1>6, <2>1
<1> QED
    BY <1>1, <1>5, <1>6 DEF Paged

(* What write_packet does with the packet m.                               *)
PassedOver(m) ==
    /\ ~(m.parsed /\ option.output /\ Wanted(m))
    /\ UNCHANGED <<dstPort, payloadType, skipped, lastSeq, granule, queue, out>>

Seen(m) ==
    /\ option.output /\ Wanted(m) /\ dstPort' = m.port /\ payloadType' = m.type

Late(m) ==
    Seen(m) /\ skipped' # {} /\ UNCHANGED <<lastSeq, granule, queue, out>>

Taken(m, e) ==
    /\ Seen(m) /\ skipped' = skipped
    /\ m.seq >= lastSeq /\ lastSeq' = m.seq /\ granule' = granule + m.samples
    /\ e.message = m /\ e.granule = granule'
    /\ Recorded' = Append(Recorded, e) /\ PagesOK'

Dealt(m) == PassedOver(m) \/ Late(m) \/ \E e \in Entry : Taken(m, e)

(* It passes a packet over, or finds it late, or takes it.                 *)
LEMMA WriteCases ==
    ASSUME ReceptionTypes, PagesOK, WritePacket
    PROVE  /\ rpc = "capture" /\ net # <<>> /\ net' = Tail(net)
           /\ UNCHANGED <<files, spc, seq, sent, target, began, clock, faults, option, rpc>>
           /\ ReceptionTypes'
           /\ \E m \in Message : m = Head(net) /\ Dealt(m)
<1>1. /\ rpc = "capture" /\ net # <<>> /\ captured < option.limit
      /\ net' = Tail(net) /\ captured' = captured + 1
      /\ UNCHANGED <<files, spc, seq, sent, target, began, clock, faults, option, rpc>>
    BY DEF WritePacket, fileVars, sendVars
<1>2. net \in Seq(Message) /\ captured \in 0..option.limit /\ granule \in Nat /\ option \in Options
    BY DEF ReceptionTypes
<1>3. PICK m \in Message : m = Head(net)
    BY <1>1, <1>2
<1>4. net' \in Seq(Message)
    BY <1>1, <1>2
<1>5. captured' \in 0..option'.limit
    <2>1. option.limit \in Nat
        BY <1>2, OpusRtpAssumption
    <2> QED
        BY <1>1, <1>2, <2>1
<1>6. /\ m.samples \in Nat /\ m.seq \in 0..(Wrap - 1) /\ m.port \in Ports /\ m.type \in Nat
    BY MessageFields DEF PayloadTypes
<1> DEFINE wanted == m.parsed /\ option.output /\ Wanted(m)
<1>7. CASE ~wanted
    <2>1. PassedOver(m)
        BY <1>3, <1>7 DEF WritePacket, PassedOver
    <2>2. ReceptionTypes'
        BY <1>1, <1>4, <1>5, <2>1 DEF ReceptionTypes, PassedOver
    <2> QED
        BY <1>1, <1>3, <2>1, <2>2 DEF Dealt
<1>8. CASE wanted /\ ~InSequence(m)
    <2>1. skipped' = skipped \cup {m}
        BY <1>3, <1>8 DEF WritePacket
    <2>2. Late(m)
        BY <1>3, <1>8, <2>1 DEF WritePacket, Late, Seen
    <2>3. ReceptionTypes'
        BY <1>1, <1>4, <1>5, <1>6, <2>2 DEF ReceptionTypes, Late, Seen
    <2> QED
        BY <1>1, <1>3, <2>2, <2>3 DEF Dealt
<1>9. CASE wanted /\ InSequence(m)
    <2>1. /\ dstPort' = m.port /\ payloadType' = m.type /\ skipped' = skipped
          /\ lastSeq' = m.seq /\ granule' = granule + m.samples
          /\ Paged(Append(queue, [message |-> m, granule |-> granule']))
        BY <1>3, <1>9 DEF WritePacket, GranuleAfter
    <2>2. granule' \in Nat
        BY <1>2, <1>6, <2>1
    <2>3. PICK e \in Entry : e = [message |-> m, granule |-> granule']
        BY <2>2 DEF Entry
    <2>4. Paged(Append(queue, e))
        BY <2>1, <2>3
    <2>5. /\ Recorded' = Append(Recorded, e) /\ PagesOK'
          /\ queue' \in Seq(Entry) /\ out' \in Seq(OutPage)
        BY <2>4, TakenRecorded
    <2>6. e.message = m /\ e.granule = granule'
        BY <2>3
    <2>7. Taken(m, e)
        BY <1>9, <2>1, <2>5, <2>6 DEF Taken, Seen, InSequence
    <2>8. ReceptionTypes'
        BY <1>1, <1>4, <1>5, <1>6, <2>1, <2>2, <2>5 DEF ReceptionTypes
    <2> QED
        BY <1>1, <1>3, <2>7, <2>8 DEF Dealt
<1> QED
    BY <1>7, <1>8, <1>9

(* The packet looked at is the next to come of the sender, if it is its.   *)
LEMMA ComingNext ==
    ASSUME Numbers, sent \in Seq(Message), net \in Seq(Message), net # <<>>,
           \A i \in 1..Len(net) : Known(net[i]), net' = Tail(net), sent' = sent,
           NEW n \in Nat, Coming(n), NEW m, m = Head(net)
    PROVE  /\ m.id = 0 => Coming(n)'
           /\ m.id > 0 => m.id = n + 1 /\ Coming(n + 1)'
<1>1. PICK l \in Nat : l = Len(net)
    OBVIOUS
<1>2. /\ l > 0 /\ m = net[1] /\ Len(net') = l - 1
      /\ \A i \in 1..(l - 1) : net'[i] = net[i + 1] /\ i + 1 \in 1..l
    BY <1>1
<1>3. PICK k \in Nat : k = Len(sent)
    OBVIOUS
<1>4. \A i \in 1..l : net[i].id \in 0..k
    BY <1>1, <1>3, KnownId
<1>5. /\ \A i, j \in 1..l : i < j /\ net[i].id > 0 /\ net[j].id > 0 => net[i].id < net[j].id
      /\ \A i \in 1..l : net[i].id > 0 => net[i].id > n
      /\ \A x \in (n + 1)..k : \E i \in 1..l : net[i].id = x
    BY <1>1, <1>3 DEF Coming
<1>6. 1 \in 1..l
    BY <1>2
<1>7. \A i, j \in 1..(l - 1) : i < j => i + 1 < j + 1
    OBVIOUS
<1>8. \A i, j \in 1..(l - 1) :
          i < j /\ net'[i].id > 0 /\ net'[j].id > 0 => net'[i].id < net'[j].id
    BY <1>2, <1>5, <1>7
<1>9. ASSUME NEW i \in 1..l, i # 1 PROVE i - 1 \in 1..(l - 1) /\ net'[i - 1] = net[i]
    <2>1. i - 1 \in 1..(l - 1) /\ i - 1 + 1 = i
        BY <1>9
    <2> QED
        BY <1>2, <2>1
<1>10. CASE m.id = 0
    <2>1. \A i \in 1..(l - 1) : net'[i].id > 0 => net'[i].id > n
        BY <1>2, <1>5
    <2>2. ASSUME NEW x \in (n + 1)..k PROVE \E i \in 1..(l - 1) : net'[i].id = x
        <3>1. PICK i \in 1..l : net[i].id = x
            BY <1>5
        <3>2. i # 1
            BY <1>2, <1>10, <3>1
        <3> QED
            BY <1>9, <3>1, <3>2
    <2>3. Coming(n)'
        BY <1>2, <1>3, <1>8, <2>1, <2>2 DEF Coming
    <2> QED
        BY <1>10, <2>3
<1>11. CASE m.id > 0
    <2>1. m.id \in 0..k /\ m.id > n
        BY <1>2, <1>4, <1>5, <1>6, <1>11
    <2>2. n + 1 \in (n + 1)..k
        BY <2>1
    <2>3. PICK i \in 1..l : net[i].id = n + 1
        BY <1>5, <2>2
    <2>4. i = 1
        <3>1. i # 1 => 1 < i
            OBVIOUS
        <3>2. i # 1 => m.id < n + 1
            BY <1>2, <1>5, <1>6, <1>11, <2>3, <3>1
        <3> QED
            BY <2>1, <3>2
    <2>5. m.id = n + 1
        BY <1>2, <2>3, <2>4
    <2>6. ASSUME NEW j \in 1..(l - 1), net'[j].id > 0 PROVE net'[j].id > n + 1
        <3>1. j + 1 \in 1..l /\ 1 < j + 1 /\ net'[j] = net[j + 1]
            BY <1>2
        <3>2. net[1].id < net[j + 1].id
            BY <1>2, <1>5, <1>6, <1>11, <2>6, <3>1
        <3> QED
            BY <1>2, <1>4, <2>5, <3>1, <3>2
    <2>7. ASSUME NEW x \in (n + 1 + 1)..k PROVE \E j \in 1..(l - 1) : net'[j].id = x
        <3>1. x \in (n + 1)..k /\ x # n + 1
            OBVIOUS
        <3>2. PICK j \in 1..l : net[j].id = x
            BY <1>5, <3>1
        <3>3. j # 1
            BY <1>2, <2>5, <3>1, <3>2
        <3> QED
            BY <1>9, <3>2, <3>3
    <2>8. Coming(n + 1)'
        BY <1>2, <1>3, <1>8, <2>6, <2>7 DEF Coming
    <2> QED
        BY <1>11, <2>5, <2>8
<1>12. m.id \in Nat
    BY <1>2, <1>4, <1>6
<1> QED
    BY <1>10, <1>11, <1>12

(* Ports and payload types are not -1.                                     *)
LEMMA NotUnset == (\A p \in Ports : p # -1) /\ \A t \in PayloadTypes : t # -1
<1>1. \A p \in 0..65535 : p # -1
    OBVIOUS
<1>2. \A t \in 0..127 : t # -1
    OBVIOUS
<1> QED
    BY <1>1, <1>2 DEF Ports, PayloadTypes

(* The port and the type of a recording stay what they are.                *)
LEMMA SeenKeeps ==
    ASSUME NEW m \in Message, Seen(m), NEW r \in Seq(Entry), Sorted(r)
    PROVE  \A i \in 1..Len(r) : r[i].message.port = dstPort' /\ r[i].message.type = payloadType'
<1>1. TAKE i \in 1..Len(r)
<1>2. r[i].message \in Message
    <2>1. r[i] \in Entry
        OBVIOUS
    <2> QED
        BY <2>1, EntryFields
<1>3. r[i].message.port \in Ports /\ r[i].message.type \in PayloadTypes
    BY <1>2, MessageFields
<1>4. r[i].message.port = dstPort /\ r[i].message.type = payloadType
    BY DEF Sorted
<1>5. dstPort # -1 /\ payloadType # -1
    BY <1>3, <1>4, NotUnset
<1> QED
    BY <1>4, <1>5 DEF Seen, Wanted

(* The filters take the packets of the sender if the options are such, and *)
(* taking one of them shows that they are.                                 *)
LEMMA SenderWantedTrue ==
    ASSUME NEW r, Chosen(r), NEW m, Ours(m, m.id)
    PROVE  /\ SenderWanted => m.parsed /\ option.output /\ Wanted(m)
           /\ Seen(m) => SenderWanted /\ dstPort' = Port /\ payloadType' = Type
<1>1. m.parsed /\ m.valid /\ m.port = Port /\ m.type = Type
    BY DEF Ours
<1>2. Port # -1 /\ Type # -1
    BY OpusRtpAssumption, NotUnset
<1> QED
    BY <1>1, <1>2 DEF Chosen, SenderWanted, Wanted, Seen

(* A packet that is passed over changes nothing that is recorded.          *)
LEMMA PassedOverHolds ==
    ASSUME Numbers, sent \in Seq(Message), net \in Seq(Message), net # <<>>,
           \A i \in 1..Len(net) : Known(net[i]), net' = Tail(net),
           UNCHANGED <<sent, faults, option, rpc>>,
           NEW m \in Message, m = Head(net), PassedOver(m),
           NEW r \in Seq(Entry), Sorted(r), Positions(r), Complete(r)
    PROVE  Sorted(r)' /\ Positions(r)' /\ Complete(r)'
<1>1. UNCHANGED <<dstPort, payloadType, skipped, lastSeq, granule, queue, out>>
    BY DEF PassedOver
<1>2. Sorted(r)' /\ Positions(r)'
    BY <1>1 DEF Sorted, Positions, Known
<1>3. Complete(r)'
    <2>1. SUFFICES ASSUME faults = 0 /\ skipped = {}, rpc = "capture", OnlyOurs(r, Len(r)), SenderWanted
                   PROVE  Coming(Len(r))'
        BY <1>1 DEF Complete, OnlyOurs, Chosen, SenderWanted
    <2>2. Chosen(r) /\ Coming(Len(r)) /\ Len(r) \in Nat
        BY <2>1 DEF Complete
    <2>3. Known(m)
        <3>1. m = net[1] /\ 1 \in 1..Len(net)
            OBVIOUS
        <3> QED
            BY <3>1
    <2>4. m.id > 0 => Ours(m, m.id)
        BY <2>3, KnownId
    <2>5. ~(m.id > 0)
        BY <2>1, <2>2, <2>4, SenderWantedTrue DEF PassedOver
    <2>6. m.id = 0
        BY <2>5, MessageFields
    <2> QED
        BY <2>2, <2>6, ComingNext
<1> QED
    BY <1>2, <1>3

(* A packet that is late is not recorded, and is counted.                  *)
LEMMA LateHolds ==
    ASSUME NEW m \in Message, Late(m), UNCHANGED <<sent, option, rpc>>,
           NEW r \in Seq(Entry), Sorted(r), Positions(r)
    PROVE  Sorted(r)' /\ Positions(r)' /\ Complete(r)'
<1>1. skipped' # {} /\ UNCHANGED <<lastSeq, granule>> /\ Seen(m)
    BY DEF Late
<1>2. \A i \in 1..Len(r) : r[i].message.port = dstPort' /\ r[i].message.type = payloadType'
    BY <1>1, SeenKeeps
<1>3. Sorted(r)'
    BY <1>1, <1>2 DEF Sorted, Known
<1>4. Positions(r)' /\ Complete(r)'
    BY <1>1 DEF Positions, Complete
<1> QED
    BY <1>3, <1>4

(* A packet that is taken is in order, begins where the last one ended,    *)
(* and is the next of the sender if it is the sender's.                    *)
LEMMA TakenHolds ==
    ASSUME Numbers, sent \in Seq(Message), net \in Seq(Message), net # <<>>,
           \A i \in 1..Len(net) : Known(net[i]), net' = Tail(net),
           lastSeq \in 0..(Wrap - 1), granule \in Nat, rpc = "capture",
           UNCHANGED <<sent, faults, option, rpc>>,
           NEW m \in Message, m = Head(net), NEW e \in Entry, Taken(m, e),
           NEW r \in Seq(Entry), Sorted(r), Positions(r), Complete(r)
    PROVE  Sorted(Append(r, e))' /\ Positions(Append(r, e))' /\ Complete(Append(r, e))'
<1>1. /\ Seen(m) /\ skipped' = skipped /\ e.message = m /\ e.granule = granule'
      /\ m.seq >= lastSeq /\ lastSeq' = m.seq /\ granule' = granule + m.samples
    BY DEF Taken
<1>2. PICK q \in Seq(Entry) : q = Append(r, e)
    BY AppendProperties
<1>3. PICK n \in Nat : n = Len(r)
    OBVIOUS
<1>4. Len(q) = n + 1 /\ q[n + 1] = e /\ \A i \in 1..n : q[i] = r[i]
    BY <1>2, <1>3
<1>5. \A i \in 1..(n + 1) : i = n + 1 \/ i \in 1..n
    BY <1>3
<1>6. Known(m)
    <2>1. m = net[1] /\ 1 \in 1..Len(net)
        OBVIOUS
    <2> QED
        BY <2>1
<1>7. \A x : Known(x)' <=> Known(x)
    BY DEF Known
<1>8. ASSUME NEW i \in 1..n PROVE r[i].message.seq \in Nat /\ r[i].message.seq <= m.seq
    <2>1. r[i] \in Entry /\ r[i].message.seq <= lastSeq
        BY <1>3 DEF Sorted
    <2>2. r[i].message.seq \in 0..(Wrap - 1) /\ m.seq \in 0..(Wrap - 1)
        BY <2>1, EntryFields, MessageFields
    <2> QED
        BY <1>1, <2>1, <2>2
<1>9. Sorted(q)'
    <2>1. ASSUME NEW i \in 1..(n + 1)
          PROVE  Known(q[i].message) /\ q[i].message.port = dstPort' /\ q[i].message.type = payloadType'
        <3>1. CASE i = n + 1
            BY <1>1, <1>4, <1>6, <3>1 DEF Seen
        <3>2. CASE i \in 1..n
            BY <1>1, <1>3, <1>4, <3>2, SeenKeeps DEF Sorted
        <3> QED
            BY <1>5, <3>1, <3>2
    <2>2. ASSUME NEW i \in 1..(n + 1) PROVE q[i].message.seq <= m.seq
        <3>1. CASE i = n + 1
            BY <1>1, <1>4, <3>1, MessageFields
        <3>2. CASE i \in 1..n
            BY <1>4, <1>8, <3>2
        <3> QED
            BY <1>5, <3>1, <3>2
    <2>3. ASSUME NEW i \in 1..(n + 1), NEW j \in 1..(n + 1), i <= j
          PROVE  q[i].message.seq <= q[j].message.seq
        <3>1. CASE j = n + 1
            BY <1>1, <1>4, <2>2, <3>1
        <3>2. CASE j \in 1..n
            <4>1. i \in 1..n
                BY <2>3, <3>2
            <4> QED
                BY <1>3, <1>4, <2>3, <3>2, <4>1 DEF Sorted
        <3> QED
            BY <1>5, <3>1, <3>2
    <2>4. ASSUME NEW i \in 1..(n + 1) PROVE Known(q[i].message)'
        <3>1. PICK x : x = q[i].message
            OBVIOUS
        <3>2. Known(x)'
            BY <1>7, <2>1, <3>1
        <3> QED
            BY <3>1, <3>2
    <2> QED
        BY <1>1, <1>4, <2>1, <2>2, <2>3, <2>4 DEF Sorted
<1>10. Positions(q)'
    <2>1. /\ Got(q) = Append(Got(r), m) /\ SubSeq(Got(q), 1, n + 1) = Append(Got(r), m)
          /\ \A i \in 1..n : SubSeq(Got(q), 1, i) = SubSeq(Got(r), 1, i)
        BY <1>1, <1>2, <1>3, GotOneMore
    <2>2. Played(Append(Got(r), m)) = granule'
        <3>1. Got(r) \in Seq(Message)
            BY GotType
        <3> QED
            BY <1>1, <3>1, PlayedOneMore DEF Positions
    <2>3. ASSUME NEW i \in 1..(n + 1) PROVE q[i].granule = Played(SubSeq(Got(q), 1, i))
        <3>1. CASE i = n + 1
            BY <1>1, <1>4, <2>1, <2>2, <3>1
        <3>2. CASE i \in 1..n
            BY <1>3, <1>4, <2>1, <3>2 DEF Positions
        <3> QED
            BY <1>5, <3>1, <3>2
    <2> QED
        BY <1>4, <2>1, <2>2, <2>3 DEF Positions
<1>11. Complete(q)'
    <2>1. SUFFICES ASSUME faults = 0 /\ skipped = {}
                   PROVE  /\ \A i \in 1..(n + 1) : OnlyOurs(q, i) => q[i].message.id = i
                          /\ OnlyOurs(q, n + 1) => Chosen(q)' /\ (SenderWanted' => Coming(n + 1)')
        BY <1>1, <1>4 DEF Complete, OnlyOurs
    <2>2. ASSUME NEW i \in 1..n, OnlyOurs(q, i) PROVE q[i].message.id = i
        <3>1. \A j \in 1..i : j \in 1..n
            BY <1>3
        <3>2. OnlyOurs(r, i)
            BY <1>4, <2>2, <3>1 DEF OnlyOurs
        <3> QED
            BY <1>3, <1>4, <2>1, <3>2 DEF Complete
    <2>3. ASSUME OnlyOurs(q, n + 1)
          PROVE  m.id = n + 1 /\ Chosen(q)' /\ (SenderWanted' => Coming(n + 1)')
        <3>1. (\A j \in 1..n : j \in 1..(n + 1)) /\ n + 1 \in 1..(n + 1)
            BY <1>3
        <3>2. OnlyOurs(r, n) /\ m.id > 0
            BY <1>1, <1>4, <2>3, <3>1 DEF OnlyOurs
        <3>3. Chosen(r) /\ (SenderWanted => Coming(n))
            BY <1>3, <2>1, <3>2 DEF Complete
        <3>4. Ours(m, m.id)
            BY <1>6, <3>2, KnownId
        <3>5. SenderWanted /\ dstPort' = Port /\ payloadType' = Type
            BY <1>1, <3>3, <3>4, SenderWantedTrue
        <3>6. m.id = n + 1 /\ Coming(n + 1)'
            BY <3>2, <3>3, <3>5, ComingNext
        <3>7. q # <<>> /\ SenderWanted'
            BY <1>2, <3>5 DEF SenderWanted
        <3> QED
            BY <3>5, <3>6, <3>7 DEF Chosen
    <2>4. ASSUME NEW i \in 1..(n + 1), OnlyOurs(q, i) PROVE q[i].message.id = i
        <3>1. CASE i = n + 1
            BY <1>1, <1>4, <2>3, <2>4, <3>1
        <3>2. CASE i \in 1..n
            BY <2>2, <2>4, <3>2
        <3> QED
            BY <1>5, <3>1, <3>2
    <2> QED
        BY <2>3, <2>4
<1> QED
    BY <1>2, <1>9, <1>10, <1>11

(* Whatever write_packet does keeps the recording right.                   *)
LEMMA WritePacketHolds ==
    ASSUME Reception, ReceptionTypes, Numbers, sent \in Seq(Message), WritePacket
    PROVE  Reception' /\ ReceptionTypes'
<1>1. /\ net \in Seq(Message) /\ PagesOK /\ \A i \in 1..Len(net) : Known(net[i])
      /\ lastSeq \in 0..(Wrap - 1) /\ granule \in Nat
    BY DEF Reception, ReceptionTypes
<1>2. /\ rpc = "capture" /\ net # <<>> /\ net' = Tail(net)
      /\ UNCHANGED <<files, spc, seq, sent, target, began, clock, faults, option, rpc>>
      /\ ReceptionTypes'
    BY <1>1, WriteCases
<1>3. PICK m \in Message : m = Head(net) /\ Dealt(m)
    BY <1>1, WriteCases
<1>4. ASSUME NEW i \in 1..Len(net') PROVE Known(net[i])'
    <2>1. i + 1 \in 1..Len(net) /\ net'[i] = net[i + 1]
        BY <1>1, <1>2
    <2>2. PICK x : x = net[i + 1]
        OBVIOUS
    <2>3. Known(x)
        BY <1>1, <2>1, <2>2
    <2>4. Known(x)'
        BY <1>2, <2>3 DEF Known
    <2> QED
        BY <2>1, <2>2, <2>4
<1>5. PICK r \in Seq(Entry) : r = Recorded
    BY RecordedType DEF ReceptionTypes
<1>6. Sorted(r) /\ Positions(r) /\ Complete(r)
    BY <1>5 DEF Reception
<1>7. PagesOK' /\ Sorted(Recorded)' /\ Positions(Recorded)' /\ Complete(Recorded)'
    <2>1. CASE PassedOver(m) \/ Late(m)
        <3>1. out' = out /\ queue' = queue
            BY <2>1 DEF PassedOver, Late
        <3>2. Recorded' = r /\ PagesOK'
            BY <1>1, <1>5, <3>1 DEF Recorded, PagesOK
        <3>3. Sorted(r)' /\ Positions(r)' /\ Complete(r)'
            BY <1>1, <1>2, <1>3, <1>6, <2>1, PassedOverHolds, LateHolds
        <3> QED
            BY <3>2, <3>3
    <2>2. CASE \E e \in Entry : Taken(m, e)
        <3>1. PICK e \in Entry : Taken(m, e)
            BY <2>2
        <3>2. Recorded' = Append(r, e) /\ PagesOK'
            BY <1>5, <3>1 DEF Taken
        <3>3. PICK q : q = Append(r, e)
            OBVIOUS
        <3>4. Sorted(q)' /\ Positions(q)' /\ Complete(q)'
            BY <1>1, <1>2, <1>3, <1>6, <3>1, <3>3, TakenHolds
        <3> QED
            BY <3>2, <3>3, <3>4
    <2> QED
        BY <1>3, <2>1, <2>2 DEF Dealt
<1> QED
    BY <1>2, <1>4, <1>7 DEF Reception

(* ogg_flush writes what is left in the queue, and nothing else.           *)
LEMMA CaptureEndsHolds ==
    ASSUME Reception, ReceptionTypes, CaptureEnds
    PROVE  Reception' /\ ReceptionTypes'
<1>1. /\ rpc' = "closed" /\ queue' = <<>>
      /\ UNCHANGED <<sent, net, faults, option, dstPort, payloadType, lastSeq, granule, captured, skipped>>
    BY DEF CaptureEnds, sendVars, netVars
<1>2. out \in Seq(OutPage) /\ queue \in Seq(Entry) /\ PagesOK
    BY DEF Reception, ReceptionTypes
<1>3. out' \in Seq(OutPage) /\ PagesOK' /\ Flat(out', <<>>) = Flat(out, queue)
    <2>1. CASE queue = <<>>
        BY <1>2, <2>1 DEF CaptureEnds, PagesOK
    <2>2. CASE queue # <<>>
        BY <1>2, <2>2, OnePageMore DEF CaptureEnds
    <2> QED
        BY <2>1, <2>2
<1>4. ReceptionTypes'
    <2>1. <<>> \in Seq(Entry)
        OBVIOUS
    <2> QED
        BY <1>1, <1>3, <2>1 DEF ReceptionTypes
<1>5. PICK r : r = Recorded
    OBVIOUS
<1>6. Recorded' = r
    BY <1>1, <1>3, <1>5 DEF Recorded, Flat, Lists
<1>7. Sorted(r)' /\ Positions(r)' /\ Complete(r)'
    <2>1. Sorted(r) /\ Positions(r) /\ Complete(r)
        BY <1>5 DEF Reception
    <2> QED
        BY <1>1, <2>1 DEF Sorted, Positions, Complete, OnlyOurs, Known
<1>8. \A i \in 1..Len(net') : Known(net[i])'
    BY <1>1 DEF Reception, Known
<1> QED
    BY <1>3, <1>4, <1>6, <1>7, <1>8 DEF Reception

(* After a kill the file holds a first part of the recording.              *)
LEMMA KilledHolds ==
    ASSUME Reception, ReceptionTypes, Killed
    PROVE  Reception' /\ ReceptionTypes'
<1>1. /\ rpc' = "killed" /\ queue' = <<>>
      /\ UNCHANGED <<sent, net, faults, option, dstPort, payloadType, lastSeq, granule, captured, skipped>>
    BY DEF Killed, sendVars, netVars
<1>2. out \in Seq(OutPage) /\ queue \in Seq(Entry) /\ PagesOK
    BY DEF Reception, ReceptionTypes
<1>3. PICK n \in 0..Len(out) : out' = SubSeq(out, 1, n)
    BY DEF Killed
<1>4. out' \in Seq(OutPage) /\ Len(out') = n /\ \A i \in 1..n : out'[i] = out[i] /\ i \in 1..Len(out)
    <2>1. n \in Nat /\ \A i \in 1..n : i \in 1..Len(out)
        BY <1>2
    <2>2. out' \in Seq(OutPage)
        BY <1>2, <1>3, FlatPrefix
    <2>3. 1 \in Int /\ n \in Int /\ \A i \in 1..n : out[i] \in OutPage
        BY <1>2, <2>1
    <2>4. Len(out') = (IF 1 <= n THEN n - 1 + 1 ELSE 0) /\ \A i \in 1..(n - 1 + 1) : out'[i] = out[1 + i - 1]
        BY <1>3, <2>3, SubSeqProperties
    <2>5. Len(out') = n /\ \A i \in 1..n : out'[i] = out[i]
        BY <2>1, <2>4
    <2> QED
        BY <2>1, <2>2, <2>5
<1>5. PagesOK'
    BY <1>2, <1>4 DEF PagesOK
<1>6. ReceptionTypes'
    <2>1. <<>> \in Seq(Entry)
        OBVIOUS
    <2> QED
        BY <1>1, <1>4, <2>1 DEF ReceptionTypes
<1>7. PICK r \in Seq(Entry) : r = Recorded
    BY RecordedType DEF ReceptionTypes
<1>8. Sorted(r) /\ Positions(r) /\ Complete(r)
    BY <1>7 DEF Reception
<1>9. PICK k \in 0..Len(r) : Recorded' = SubSeq(r, 1, k)
    <2>1. Recorded' = Flat(SubSeq(out, 1, n), <<>>)
        BY <1>1, <1>3 DEF Recorded, Flat, Lists
    <2>2. r = Flat(out, queue)
        BY <1>7, RecordedIsFlat
    <2> QED
        BY <1>2, <2>1, <2>2, FlatPrefix
<1>10. PICK q : q = SubSeq(r, 1, k)
    OBVIOUS
<1>11. /\ Len(q) = k /\ \A i \in 1..k : i \in 1..Len(r) /\ q[i] = r[i]
       /\ \A i \in 1..k : SubSeq(Got(q), 1, i) = SubSeq(Got(r), 1, i)
    BY <1>10, GotPrefix
<1>12. Sorted(q)'
    BY <1>1, <1>8, <1>11 DEF Sorted, Known
<1>13. Positions(q)'
    BY <1>1, <1>8, <1>11 DEF Positions
<1>14. Complete(q)'
    <2>1. ASSUME NEW i \in 1..k, OnlyOurs(q, i) PROVE OnlyOurs(r, i)
        <3>1. \A j \in 1..i : j \in 1..k
            OBVIOUS
        <3> QED
            BY <1>11, <2>1, <3>1 DEF OnlyOurs
    <2>2. faults = 0 /\ skipped = {} => \A i \in 1..k : OnlyOurs(q, i) => q[i].message.id = i
        BY <1>8, <1>11, <2>1 DEF Complete
    <2>3. rpc' # "capture" /\ faults' = faults /\ skipped' = skipped
        BY <1>1
    <2> QED
        BY <1>11, <2>2, <2>3 DEF Complete, OnlyOurs
<1>15. \A i \in 1..Len(net') : Known(net[i])'
    BY <1>1 DEF Reception, Known
<1> QED
    BY <1>5, <1>6, <1>9, <1>10, <1>12, <1>13, <1>14, <1>15 DEF Reception

-----------------------------------------------------------------------------
(* The whole program.                                                      *)

(* Nothing is recorded at first.                                           *)
LEMMA NothingRecorded ==
    ASSUME out = <<>>, queue = <<>>
    PROVE  Recorded = <<>> /\ Played(Got(Recorded)) = 0
<1>1. out \in Seq(OutPage) /\ queue \in Seq(Entry)
    OBVIOUS
<1>2. Lists(out) \in Seq(Seq(Entry)) /\ Len(Lists(out)) = 0
    BY <1>1, ListsType
<1>3. FlattenSeq(Lists(out)) = <<>>
    <2> DEFINE T == Seq(Entry)
               l == Lists(out)
    <2>1. l \in Seq(T) /\ Len(l) = 0
        BY <1>2
    <2>2. FlattenSeq(l) = l
        BY <2>1 DEF FlattenSeq
    <2> HIDE DEF T, l
    <2>3. l = <<>>
        BY <2>1
    <2> QED
        BY <2>2, <2>3 DEF l
<1>4. Recorded = <<>>
    BY <1>3, RecordedIsFlat DEF Flat
<1>5. Got(<<>>) = <<>>
    <2>1. Got(<<>>) \in Seq(Message) /\ Len(Got(<<>>)) = 0
        <3>1. <<>> \in Seq(Entry) /\ Len(<<>>) = 0
            OBVIOUS
        <3> QED
            BY <3>1, GotType
    <2> QED
        BY <2>1
<1> QED
    BY <1>4, <1>5, PlayedNothing

(* The invariant holds at first.                                           *)
LEMMA InitHolds ==
    ASSUME Init
    PROVE  SenderInv /\ Reception /\ ReceptionTypes
<1>1. SenderTypes
    <2>1. argument \in Seq(Seq(Page))
        BY OpusRtpAssumption DEF Init
    <2>2. <<>> \in Seq(Page) /\ <<>> \in Seq(Packet) /\ <<>> \in Seq(Message)
        OBVIOUS
    <2>3. -1 \in Nat \cup {-1} /\ 0 \in 0..3 /\ 0 \in Nat
        OBVIOUS
    <2> QED
        BY <2>1, <2>2, <2>3 DEF Init, SenderTypes
<1>2. Numbers /\ Slots
    BY DEF Init, Numbers, Slots
<1>3. ReceptionTypes
    <2>1. option \in [port : Ports \cup {-1}, type : Nat \cup {-1}, limit : Nat, output : BOOLEAN]
        BY OpusRtpAssumption DEF Init
    <2>2. option.port \in Ports \cup {-1} /\ option.type \in Nat \cup {-1} /\ option.limit \in Nat
        BY <2>1
    <2>3. 0 \in 0..option.limit /\ 0 \in 0..(Wrap - 1)
        BY <2>2, OpusRtpAssumption
    <2>4. <<>> \in Seq(Message) /\ <<>> \in Seq(Entry) /\ <<>> \in Seq(OutPage)
        OBVIOUS
    <2> QED
        BY <2>2, <2>3, <2>4 DEF Init, ReceptionTypes
<1>4. Recorded = <<>> /\ Played(Got(Recorded)) = 0
    BY NothingRecorded DEF Init
<1>5. Sorted(<<>>)
    BY DEF Sorted
<1>6. Positions(<<>>)
    BY <1>4 DEF Positions, Init
<1>7. Complete(<<>>)
    <2>1. Coming(0)
        BY DEF Coming, Init
    <2> QED
        BY <2>1 DEF Complete, Chosen, Init
<1>8. PagesOK /\ \A i \in 1..Len(net) : Known(net[i])
    BY DEF Init, PagesOK
<1> QED
    BY <1>1, <1>2, <1>3, <1>4, <1>5, <1>6, <1>7, <1>8 DEF SenderInv, Reception

(* Every step keeps the invariant: the steps of the sender leave alone     *)
(* what is received, but for the packet sent; the network and the recorder *)
(* leave alone the sender.                                                 *)
LEMMA NextHolds ==
    ASSUME SenderInv, Reception, ReceptionTypes, [Next]_vars
    PROVE  SenderInv' /\ Reception' /\ ReceptionTypes'
<1>1. Numbers /\ sent \in Seq(Message)
    BY DEF SenderInv, SenderTypes
<1>2. ASSUME UNCHANGED <<files, pages, packets, headers, spc, sendVars, clock>> PROVE SenderInv'
    <2>1. UNCHANGED <<files, pages, packets, headers, spc, seq, sent, target, began, clock>>
        BY <1>2 DEF sendVars
    <2>2. SenderTypes' /\ Numbers'
        BY <2>1 DEF SenderInv, SenderTypes, Numbers, Ours
    <2>3. Slots'
        BY <2>1, SlotsKept DEF SenderInv
    <2> QED
        BY <2>2, <2>3 DEF SenderInv
<1>3. CASE OpenFile
    <2>1. UNCHANGED <<sent, netVars, recorderVars>>
        BY <1>3 DEF OpenFile
    <2> QED
        BY <1>3, <2>1, OpenFileHolds, QuietReception, QuietReceptionTypes
<1>4. CASE ReadPage
    <2>1. UNCHANGED <<sent, netVars, recorderVars>>
        BY <1>4 DEF ReadPage, sendVars
    <2> QED
        BY <1>4, <2>1, ReadPageHolds, QuietReception, QuietReceptionTypes
<1>5. CASE SkipPacket
    <2>1. UNCHANGED <<sent, netVars, recorderVars>>
        BY <1>5 DEF SkipPacket, sendVars
    <2> QED
        BY <1>5, <2>1, SkipPacketHolds, QuietReception, QuietReceptionTypes
<1>6. CASE SendPacket
    <2>1. UNCHANGED <<faults, recorderVars>>
        BY <1>6 DEF SendPacket
    <2>2. SenderInv'
        BY <1>6, SendPacketHolds
    <2>3. PICK m \in Message : /\ sent' = Append(sent, m) /\ net' = Append(net, m)
                               /\ m.id = Len(sent) + 1
        BY <1>6, SendPacketHolds
    <2> QED
        BY <1>1, <2>1, <2>2, <2>3, SendReception
<1>7. CASE Wake
    <2>1. UNCHANGED <<sent, netVars, recorderVars>>
        BY <1>7 DEF Wake, sendVars
    <2> QED
        BY <1>7, <2>1, WakeHolds, QuietReception, QuietReceptionTypes
<1>8. CASE Tick
    <2>1. UNCHANGED <<sent, netVars, recorderVars>>
        BY <1>8 DEF Tick, sendVars
    <2> QED
        BY <1>8, <2>1, TickHolds, QuietReception, QuietReceptionTypes
<1>9. CASE Fault
    <2>1. UNCHANGED <<files, pages, packets, headers, spc, sendVars, clock>>
        BY <1>9 DEF Fault, fileVars
    <2> QED
        BY <1>2, <1>9, <2>1, FaultHolds
<1>10. CASE PassesBy
    <2>1. UNCHANGED <<files, pages, packets, headers, spc, sendVars, clock>>
        BY <1>10 DEF PassesBy, fileVars
    <2> QED
        BY <1>1, <1>2, <1>10, <2>1, PassesByHolds
<1>11. CASE WritePacket
    <2>1. UNCHANGED <<files, pages, packets, headers, spc, sendVars, clock>>
        BY <1>11 DEF WritePacket, fileVars
    <2> QED
        BY <1>1, <1>2, <1>11, <2>1, WritePacketHolds
<1>12. CASE CaptureEnds
    <2>1. UNCHANGED <<files, pages, packets, headers, spc, sendVars, clock>>
        BY <1>12 DEF CaptureEnds, fileVars
    <2> QED
        BY <1>2, <1>12, <2>1, CaptureEndsHolds
<1>13. CASE Killed
    <2>1. UNCHANGED <<files, pages, packets, headers, spc, sendVars, clock>>
        BY <1>13 DEF Killed, fileVars
    <2> QED
        BY <1>2, <1>13, <2>1, KilledHolds
<1>14. CASE UNCHANGED vars
    <2>1. UNCHANGED <<sent, netVars, recorderVars>>
        BY <1>14 DEF vars, sendVars
    <2>2. UNCHANGED <<files, pages, packets, headers, spc, sendVars, clock>>
        BY <1>14 DEF vars, fileVars
    <2> QED
        BY <1>2, <2>1, <2>2, QuietReception, QuietReceptionTypes
<1> QED
    BY <1>3, <1>4, <1>5, <1>6, <1>7, <1>8, <1>9, <1>10, <1>11, <1>12, <1>13, <1>14 DEF Next, Sender

(* IInv holds in every state of opusrtp, both ends of it.                  *)
THEOREM Invariance == Spec => []IInv
<1>1. IInv <=> SenderInv /\ Reception /\ ReceptionTypes
    BY TypesSplit DEF IInv, SenderInv, Reception
<1>2. Init => IInv
    BY <1>1, InitHolds
<1>3. IInv /\ [Next]_vars => IInv'
    <2> SUFFICES ASSUME IInv, [Next]_vars PROVE IInv'
        OBVIOUS
    <2>1. SenderInv' /\ Reception' /\ ReceptionTypes'
        BY <1>1, NextHolds
    <2>2. Types'
        BY <2>1 DEF SenderInv, Types, TypeOK, SenderTypes, ReceptionTypes
    <2> QED
        BY <2>1, <2>2 DEF IInv, SenderInv, Reception
<1> QED
    BY <1>2, <1>3, PTL DEF Spec

(* Numbers that have wrapped as often are in the order of their two bytes. *)
LEMMA WrittenOrder ==
    ASSUME NEW x \in Nat, NEW y \in Nat, x \div Wrap = y \div Wrap, x % Wrap <= y % Wrap
    PROVE  x <= y
<1>1. Wrap \in Nat \ {0}
    BY OpusRtpAssumption
<1>2. PICK d \in Int : d = Wrap * (x \div Wrap)
    BY <1>1
<1>3. x = d + (x % Wrap) /\ y = d + (y % Wrap)
    BY <1>1, <1>2
<1>4. x % Wrap \in Nat /\ y % Wrap \in Nat
    BY WrittenRange, OpusRtpAssumption
<1> QED
    BY <1>3, <1>4

(* RecordedInOrder: a recording has one port and payload type, and         *)
(* write_packet takes only what does not go back, so that the packets of a *)
(* file are in the order they were sent, unless the number wrapped between *)
(* them.                                                                   *)
THEOREM InOrder == Spec => []RecordedInOrder
<1>1. IInv => RecordedInOrder
    <2> SUFFICES ASSUME IInv, NEW i \in 1..Len(Recorded), NEW j \in 1..Len(Recorded), i < j
                 PROVE  LET a == Recorded[i].message
                            b == Recorded[j].message
                        IN  /\ a.port = b.port /\ a.type = b.type
                            /\ a.ssrc = b.ssrc /\ a.number \div Wrap = b.number \div Wrap => a.id <= b.id
        BY DEF RecordedInOrder
    <2>1. PICK a : a = Recorded[i].message
        OBVIOUS
    <2>2. PICK b : b = Recorded[j].message
        OBVIOUS
    <2>3. Sorted(Recorded) /\ Numbers /\ sent \in Seq(Message)
        BY DEF IInv, Types
    <2>4. i <= j
        OBVIOUS
    <2>5. a.port = b.port /\ a.type = b.type /\ Known(a) /\ Known(b) /\ a.seq <= b.seq
        BY <2>1, <2>2, <2>3, <2>4 DEF Sorted
    <2>6. ASSUME a.ssrc = b.ssrc, a.number \div Wrap = b.number \div Wrap PROVE a.id <= b.id
        <3>1. /\ a.id \in Nat /\ b.id \in Nat /\ a.ssrc \in Nat /\ b.ssrc \in Nat
              /\ a.number \in Nat /\ b.number \in Nat
            BY <2>3, <2>5, KnownId, MessageFields
        <3>2. CASE a.id = 0 \/ b.id = 0
            <4>1. b.id = 0 => b.ssrc = 0
                BY <2>3, <2>5, KnownId
            <4>2. a.id > 0 => a.ssrc > 0
                BY <2>3, <2>5, KnownId DEF Ours
            <4> QED
                BY <2>6, <3>1, <3>2, <4>1, <4>2
        <3>3. CASE a.id > 0 /\ b.id > 0
            <4>1. a.id \in 0..Len(sent) /\ a = sent[a.id] /\ Ours(a, a.id)
                BY <2>3, <2>5, <3>3, KnownId
            <4>2. b.id \in 0..Len(sent) /\ b = sent[b.id] /\ Ours(b, b.id)
                BY <2>3, <2>5, <3>3, KnownId
            <4>3. a.id \in 1..Len(sent) /\ b.id \in 1..Len(sent)
                BY <2>3, <3>3, <4>1, <4>2
            <4>4. a.number % Wrap <= b.number % Wrap
                BY <2>5, <4>1, <4>2 DEF Ours
            <4>5. a.number <= b.number
                BY <2>6, <3>1, <4>4, WrittenOrder
            <4>6. b.id < a.id => b.number < a.number
                BY <2>3, <2>6, <4>1, <4>2, <4>3 DEF Numbers
            <4> QED
                BY <3>1, <4>5, <4>6
        <3> QED
            BY <3>1, <3>2, <3>3
    <2> QED
        BY <2>1, <2>2, <2>5, <2>6
<1> QED
    BY <1>1, Invariance, PTL

(* TimelineTrue: the positions in the file are true, also of what is left  *)
(* after a kill, and of the whole sending if nothing was lost or skipped   *)
(* and nobody else was recorded.                                           *)
THEOREM TrueTimeline == Spec => []TimelineTrue
<1>1. IInv => TimelineTrue
    <2> SUFFICES ASSUME IInv PROVE TimelineTrue
        OBVIOUS
    <2>1. /\ Sorted(Recorded) /\ Positions(Recorded) /\ Complete(Recorded) /\ PagesOK
          /\ Numbers /\ sent \in Seq(Message) /\ out \in Seq(OutPage) /\ queue \in Seq(Entry)
        BY DEF IInv, Types
    <2>2. PICK r \in Seq(Entry) : r = Recorded
        BY <2>1, RecordedType
    <2>3. Sorted(r) /\ Positions(r) /\ Complete(r)
        BY <2>1, <2>2
    <2>4. PICK g \in Seq(Message) : g = Got(r) /\ Len(g) = Len(r) /\ \A i \in 1..Len(r) : g[i] = r[i].message
        BY GotType
    <2>5. ASSUME NEW n \in 1..Len(r) PROVE r[n].granule = Played(SubSeq(g, 1, n))
        BY <2>3, <2>4 DEF Positions
    <2>6. ASSUME NEW n \in 1..Len(r), faults = 0, skipped = {}, \A i \in 1..n : g[i].id > 0
          PROVE  r[n].granule = Played(SubSeq(sent, 1, g[n].id))
        <3>1. n \in Nat /\ \A i \in 1..n : i \in 1..Len(r)
            OBVIOUS
        <3>2. ASSUME NEW i \in 1..n PROVE i <= Len(sent) /\ g[i] = sent[i] /\ g[i].id = i
            <4>1. i \in 1..Len(r) /\ \A k \in 1..i : k \in 1..n
                BY <3>1
            <4>2. OnlyOurs(r, i)
                BY <2>4, <2>6, <3>1, <4>1 DEF OnlyOurs
            <4>3. r[i].message.id = i
                BY <2>3, <2>6, <4>1, <4>2 DEF Complete
            <4>4. i <= Len(sent) /\ r[i].message = sent[i]
                BY <2>1, <2>3, <4>1, <4>3, RecordedWereSent
            <4> QED
                BY <2>4, <4>1, <4>3, <4>4
        <3>3. n \in 1..n
            BY <3>1
        <3>4. n <= Len(sent) /\ n <= Len(g) /\ g[n].id = n
            BY <2>4, <3>2, <3>3
        <3>5. SubSeq(g, 1, n) = SubSeq(sent, 1, n)
            BY <2>1, <3>1, <3>2, <3>4, FirstMessages
        <3> QED
            BY <2>5, <3>4, <3>5
    <2>7. g = [i \in 1..Len(Recorded) |-> Recorded[i].message]
        BY <2>2, <2>4 DEF Got
    <2>8. Len(g) = Len(Recorded)
        BY <2>2, <2>4
    <2>9. \A i \in 1..Len(out) : out[i].granule = Last(out[i].packets).granule
        BY <2>1 DEF PagesOK
    <2> QED
        BY <2>2, <2>4, <2>5, <2>6, <2>7, <2>8, <2>9 DEF TimelineTrue
<1> QED
    BY <1>1, Invariance, PTL

(* Paced: the sender never runs ahead of the slots, and being late does    *)
(* not move them.                                                          *)
THEOREM SlotsAreKept == Spec => []Paced
<1>1. IInv => Paced
    BY DEF IInv, Slots, Paced
<1> QED
    BY <1>1, Invariance, PTL
=============================================================================
