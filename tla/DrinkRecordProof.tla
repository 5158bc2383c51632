-------------------------- MODULE DrinkRecordProof --------------------------
(***************************************************************************)
(* The files of the diary agree, wherever the process dies, for any years, *)
(* months, days, drinks and amounts.  What AvgActivity shows is left to    *)
(* TLC: its sums are a fold.                                               *)
(***************************************************************************)
EXTENDS DrinkRecord, TLAPS

(* The steps at which the file of the date is open.                        *)
Writing(date) == fileName = date /\ step \in {"openMonth", "write", "list", "save"}

(* What the steps so far have done: the file of the month is there before  *)
(* it is read, the record is written before its day is listed, and a date  *)
(* that can be saved is already listed.                                    *)
StepsDone ==
    /\ step \in {"write", "list"} => monthFile[Month(fileName)] # NoFile
    /\ step = "list" => dayFile[fileName] \in Records
    /\ fileName # NoDate /\ step \in {"idle", "save"} =>
          Day(fileName) \in Listed(Month(fileName))

(* The two agreements, also when a date has been picked and nothing of its *)
(* file been touched.                                                      *)
RecordsListed ==
    \A date \in Dates :
        dayFile[date] \in Records /\ ~Writing(date) /\ date \notin interrupted =>
            Day(date) \in Listed(Month(date))

Covered(date) == dayFile[date] \in Records \/ Writing(date) \/ date \in interrupted

ListRecorded ==
    \A m \in Months : \A d \in Listed(m) : \E y \in Years : Covered(<<y, m, d>>)

EmptySaved ==
    \A date \in Dates, k \in Drinks :
        dayFile[date] \in Records /\ dayFile[date][k] = Empty => date \in savedEmpty

IInv == /\ FilesOK /\ StepsDone /\ ListedOnce
        /\ RecordsListed /\ ListRecorded /\ EmptySaved

-----------------------------------------------------------------------------
(* A date is its year, month and day.                                      *)
LEMMA DateParts ==
    ASSUME NEW date \in Dates
    PROVE  /\ Year(date) \in Years /\ Month(date) \in Months /\ Day(date) \in Days
           /\ date = <<Year(date), Month(date), Day(date)>>
BY DEF Dates, Year, Month, Day

(* And any year, month and day make a date.                                *)
LEMMA PartsDate ==
    ASSUME NEW y \in Years, NEW m \in Months, NEW d \in Days
    PROVE  /\ <<y, m, d>> \in Dates
           /\ Year(<<y, m, d>>) = y /\ Month(<<y, m, d>>) = m /\ Day(<<y, m, d>>) = d
BY DEF Dates, Year, Month, Day

(* Appending a day that is not in a list adds it and keeps the list free   *)
(* of repetitions.                                                         *)
LEMMA AppendDay ==
    ASSUME NEW s \in Seq(Days), NEW d \in Days
    PROVE  /\ Append(s, d) \in Seq(Days)
           /\ ToSet(Append(s, d)) = ToSet(s) \cup {d}
           /\ IsInjective(s) /\ d \notin ToSet(s) => IsInjective(Append(s, d))
<1> DEFINE t == Append(s, d)
<1>1. /\ t \in Seq(Days) /\ Len(s) \in Nat
      /\ DOMAIN s = 1..Len(s) /\ DOMAIN t = 1..(Len(s) + 1)
    OBVIOUS
<1>2. (\A i \in 1..Len(s) : t[i] = s[i]) /\ t[Len(s) + 1] = d
    OBVIOUS
<1> HIDE DEF t
<1>3. ToSet(t) = ToSet(s) \cup {d}
    <2>1. \A i \in DOMAIN t : i \in DOMAIN s \/ i = Len(s) + 1
        BY <1>1
    <2>2. DOMAIN s \subseteq DOMAIN t /\ Len(s) + 1 \in DOMAIN t
        BY <1>1
    <2> QED
        BY <1>1, <1>2, <2>1, <2>2 DEF ToSet
<1>4. IsInjective(s) /\ d \notin ToSet(s) => IsInjective(t)
    <2> SUFFICES ASSUME IsInjective(s), d \notin ToSet(s),
                        NEW i \in DOMAIN t, NEW j \in DOMAIN t, t[i] = t[j]
                 PROVE  i = j
        BY DEF IsInjective
    <2>1. \A k \in DOMAIN s : s[k] # d
        BY DEF ToSet
    <2> QED
        BY <1>1, <1>2, <2>1 DEF IsInjective
<1> QED
    BY <1>1, <1>3, <1>4 DEF t

(* An empty list is a list without repetitions.                            *)
LEMMA EmptyList == ToSet(<<>>) = {} /\ IsInjective(<<>>) /\ <<>> \in Seq(Days)
BY DEF ToSet, IsInjective

(* No file and the empty file are not records.                             *)
LEMMA NoRecord == NoFile \notin Records /\ Blank \notin Records
BY DrinkRecordAssumption DEF Records, Values

(* The lists hold days.                                                    *)
LEMMA ListedDays ==
    ASSUME FilesOK, NEW m \in Months
    PROVE  Listed(m) \subseteq Days
<1>1. CASE monthFile[m] = NoFile
    BY <1>1 DEF Listed
<1>2. CASE monthFile[m] # NoFile
    <2>1. monthFile[m] \in Seq(Days)
        BY <1>2 DEF FilesOK
    <2> QED
        BY <1>2, <2>1 DEF Listed, ToSet
<1> QED
    BY <1>1, <1>2

(* A step that uncovers no date, and lists no day but one of a covered     *)
(* date, keeps every listed day covered.                                   *)
LEMMA KeepRecorded ==
    ASSUME FilesOK, ListRecorded,
           \A e \in Dates : Covered(e) => Covered(e)',
           \A m \in Months : \A d \in Listed(m)' \ Listed(m) :
               \E y \in Years : Covered(<<y, m, d>>)'
    PROVE  ListRecorded'
<1> SUFFICES ASSUME NEW m \in Months, NEW d \in Listed(m)'
             PROVE  \E y \in Years : Covered(<<y, m, d>>)'
    BY DEF ListRecorded
<1>1. CASE d \notin Listed(m)
    BY <1>1
<1>2. CASE d \in Listed(m)
    <2>1. PICK y \in Years : Covered(<<y, m, d>>)
        BY <1>2 DEF ListRecorded
    <2>2. <<y, m, d>> \in Dates
        BY <1>2, ListedDays, PartsDate
    <2> QED
        BY <2>1, <2>2
<1> QED
    BY <1>1, <1>2

(* It holds of an installation without files.                              *)
LEMMA InitIInv == Init => IInv
<1> SUFFICES ASSUME Init PROVE IInv
    OBVIOUS
<1>1. form \in Records
    BY DEF Init, Records, Values
<1> QED
    BY <1>1, NoRecord, DrinkRecordAssumption
    DEF Init, IInv, FilesOK, StepsDone, ListedOnce, RecordsListed, ListRecorded,
        EmptySaved, Listed

(* Steps that touch no file and begin or finish none.                      *)
LEMMA QuietIInv ==
    ASSUME IInv, step' = step, form' \in Records,
           fileName' = fileName \/ (step = "idle" /\ fileName' = NoDate), UNCHANGED <<files, interrupted, savedEmpty>>
    PROVE  IInv'
<1>1. FilesOK'
    BY DEF IInv, FilesOK, files
<1>2. StepsDone'
    BY DEF IInv, FilesOK, StepsDone, Listed, files, Month, Day
<1>3. ListedOnce' /\ EmptySaved'
    BY DEF IInv, ListedOnce, EmptySaved, files
<1>4. RecordsListed'
    BY DEF IInv, RecordsListed, Writing, Listed, files
<1>5. ListRecorded'
    BY KeepRecorded DEF IInv, Covered, Writing, Listed, files
<1> QED
    BY <1>1, <1>2, <1>3, <1>4, <1>5 DEF IInv

(* A death keeps the files and loses the date.                             *)
LEMMA DieIInv == IInv /\ Die => IInv'
<1> SUFFICES ASSUME IInv, Die PROVE IInv'
    OBVIOUS
<1>1. FilesOK'
    <2>1. [k \in Drinks |-> Empty] \in Records
        BY DEF Records, Values
    <2> QED
        BY <2>1, DrinkRecordAssumption DEF IInv, FilesOK, Die, files
<1>2. StepsDone'
    BY DrinkRecordAssumption DEF Die, StepsDone
<1>3. ListedOnce' /\ EmptySaved'
    BY DEF IInv, ListedOnce, EmptySaved, Die, files
<1>4. RecordsListed'
    BY DEF IInv, RecordsListed, Writing, Listed, Die, files
<1>5. ListRecorded'
    BY KeepRecorded DEF IInv, Covered, Writing, Listed, Die, files
<1> QED
    BY <1>1, <1>2, <1>3, <1>4, <1>5 DEF IInv

(* Picking a date creates files, and changes none that was there.          *)
LEMMA PickIInv ==
    ASSUME IInv, NEW date \in Dates, NEW last \in Days \cup {0}, PickDate(date, last)
    PROVE  IInv'
<1>1. \A e \in Dates : /\ dayFile'[e] \in Records <=> dayFile[e] \in Records
                       /\ dayFile[e] \in Records => dayFile'[e] = dayFile[e]
    BY NoRecord DEF PickDate, CreateFiles
<1>2. FilesOK'
    <2>1. dayFile' \in [Dates -> Records \cup {NoFile, Blank}]
        BY DEF IInv, FilesOK, PickDate, CreateFiles
    <2> QED
        BY <2>1, DrinkRecordAssumption DEF IInv, FilesOK, PickDate, Dates
<1>3. StepsDone'
    BY DEF PickDate, StepsDone
<1>4. ListedOnce' /\ EmptySaved'
    BY <1>1 DEF IInv, ListedOnce, EmptySaved, PickDate
<1>5. RecordsListed'
    BY <1>1 DEF IInv, RecordsListed, Writing, Listed, PickDate, AtForm
<1>6. ListRecorded'
    <2>1. \A e \in Dates : Covered(e) => Covered(e)'
        BY <1>1 DEF Covered, Writing, PickDate, AtForm
    <2>2. \A m \in Months : Listed(m)' = Listed(m)
        BY DEF Listed, PickDate
    <2> QED
        BY <2>1, <2>2, KeepRecorded DEF IInv
<1> QED
    BY <1>2, <1>3, <1>4, <1>5, <1>6 DEF IInv

(* The file of the date is emptied.                                        *)
LEMMA OpenIInv == IInv /\ (OpenDay \/ SaveOpen) => IInv'
<1> SUFFICES ASSUME IInv, OpenDay \/ SaveOpen PROVE IInv'
    OBVIOUS
<1>1. fileName \in Dates /\ fileName' = fileName /\ Writing(fileName)'
    BY DEF IInv, FilesOK, OpenDay, SaveOpen, Writing, AtForm
<1>2. \A e \in Dates \ {fileName} : dayFile'[e] = dayFile[e]
    BY DEF IInv, FilesOK, OpenDay, SaveOpen
<1>3. dayFile'[fileName] \notin Records
    BY <1>1, NoRecord DEF IInv, FilesOK, OpenDay, SaveOpen
<1>4. UNCHANGED <<monthFile, interrupted, savedEmpty>> /\ ~Writing(fileName)
      /\ \A e \in Dates : ~Writing(e)
    BY DEF OpenDay, SaveOpen, Writing, AtForm
<1>5. FilesOK'
    <2>1. dayFile' \in [Dates -> Records \cup {NoFile, Blank}]
        BY DEF IInv, FilesOK, OpenDay, SaveOpen
    <2> QED
        BY <2>1, <1>1, DrinkRecordAssumption DEF IInv, FilesOK, OpenDay, SaveOpen, Dates
<1>6. StepsDone'
    BY DEF IInv, StepsDone, OpenDay, SaveOpen, AtForm, Listed
<1>7. ListedOnce' /\ EmptySaved'
    BY <1>2, <1>3, <1>4 DEF IInv, ListedOnce, EmptySaved
<1>8. RecordsListed'
    BY <1>1, <1>2, <1>3, <1>4 DEF IInv, RecordsListed, Listed
<1>9. ListRecorded'
    <2>1. \A e \in Dates : Covered(e) => Covered(e)'
        BY <1>1, <1>2, <1>4 DEF Covered
    <2>2. \A m \in Months : Listed(m)' = Listed(m)
        BY <1>4 DEF Listed
    <2> QED
        BY <2>1, <2>2, KeepRecorded DEF IInv
<1> QED
    BY <1>5, <1>6, <1>7, <1>8, <1>9 DEF IInv
(* The file of the month is there from here on.                            *)
LEMMA OpenMonthIInv == IInv /\ OpenMonth => IInv'
<1> SUFFICES ASSUME IInv, OpenMonth PROVE IInv'
    OBVIOUS
<1> DEFINE mine == Month(fileName)
<1>1. fileName \in Dates /\ mine \in Months
    BY DateParts, DrinkRecordAssumption DEF IInv, FilesOK, OpenMonth
<1>2. monthFile \in [Months -> Seq(Days) \cup {NoFile}]
    BY DEF IInv, FilesOK
<1>3. /\ monthFile'[mine] = IF monthFile[mine] = NoFile THEN <<>> ELSE monthFile[mine]
      /\ \A m \in Months \ {mine} : monthFile'[m] = monthFile[m]
    BY <1>1, <1>2 DEF OpenMonth
<1>4. monthFile' \in [Months -> Seq(Days) \cup {NoFile}]
    BY <1>1, <1>2, EmptyList DEF OpenMonth
<1>5. UNCHANGED <<fileName, form, dayFile, interrupted, savedEmpty>>
      /\ step = "openMonth" /\ step' = "write"
    BY DEF OpenMonth
<1> HIDE DEF mine
<1>6. <<>> # NoFile
    BY EmptyList, DrinkRecordAssumption
<1>7. \A m \in Months : Listed(m)' = Listed(m)
    BY <1>3, <1>6, EmptyList DEF Listed
<1>8. FilesOK'
    BY <1>4, <1>5 DEF IInv, FilesOK, Dates
<1>9. StepsDone'
    BY <1>3, <1>5, <1>6 DEF StepsDone, mine, Month
<1>10. ListedOnce' /\ EmptySaved'
    BY <1>3, <1>5, <1>6, EmptyList DEF IInv, ListedOnce, EmptySaved
<1>11. RecordsListed'
    BY <1>5, <1>7, DateParts DEF IInv, RecordsListed, Writing
<1>12. ListRecorded'
    BY <1>5, <1>7, KeepRecorded DEF IInv, Covered, Writing
<1> QED
    BY <1>8, <1>9, <1>10, <1>11, <1>12 DEF IInv

(* A record is written into the open file of the date.                     *)
LEMMA WriteIInv == IInv /\ (WriteDay \/ SaveWrite) => IInv'
<1> SUFFICES ASSUME IInv, WriteDay \/ SaveWrite PROVE IInv'
    OBVIOUS
<1>1. fileName \in Dates /\ Month(fileName) \in Months
    BY DateParts, DrinkRecordAssumption DEF IInv, FilesOK, WriteDay, SaveWrite
<1>2. dayFile \in [Dates -> Records \cup {NoFile, Blank}] /\ form \in Records
    BY DEF IInv, FilesOK
<1>3. form' \in Records /\ dayFile' = [dayFile EXCEPT ![fileName] = form']
    BY <1>2, DrinkRecordAssumption DEF WriteDay, SaveWrite, Records, Values
<1>4. /\ dayFile' \in [Dates -> Records \cup {NoFile, Blank}]
      /\ dayFile'[fileName] = form'
      /\ \A e \in Dates \ {fileName} : dayFile'[e] = dayFile[e]
    BY <1>1, <1>2, <1>3
<1>5. UNCHANGED <<fileName, monthFile, interrupted>> /\ Writing(fileName)
      /\ \/ step = "write" /\ step' = "list"
         \/ step = "save" /\ step' = "idle"
    BY DEF WriteDay, SaveWrite, Writing
<1>6. /\ \A e \in Dates \ {fileName} : e \in savedEmpty => e \in savedEmpty'
      /\ (\E k \in Drinks : form'[k] = Empty) => fileName \in savedEmpty'
      /\ savedEmpty' \subseteq Dates
    <2>1. CASE WriteDay
        <3>1. \A k \in Drinks : form'[k] # Empty
            BY <1>2, <2>1, DrinkRecordAssumption DEF WriteDay, Records
        <3> QED
            BY <2>1, <3>1 DEF WriteDay, IInv, FilesOK
    <2>2. CASE SaveWrite
        BY <1>1, <2>2 DEF SaveWrite, IInv, FilesOK
    <2> QED
        BY <2>1, <2>2
<1>7. FilesOK'
    BY <1>3, <1>4, <1>5, <1>6 DEF IInv, FilesOK, Dates, Records, Values
<1>8. StepsDone'
    BY <1>3, <1>4, <1>5 DEF IInv, StepsDone, Listed
<1>9. ListedOnce' /\ EmptySaved'
    BY <1>4, <1>5, <1>6 DEF IInv, ListedOnce, EmptySaved
<1>10. RecordsListed'
    <2>1. \A e \in Dates \ {fileName} : Writing(e)' <=> Writing(e)
        BY DEF Writing, WriteDay, SaveWrite
    <2>2. step = "save" => Day(fileName) \in Listed(Month(fileName))
        BY <1>1, DrinkRecordAssumption DEF IInv, StepsDone, Dates
    <2>3. ~Writing(fileName)' => step = "save"
        BY <1>5 DEF Writing
    <2> QED
        BY <1>4, <1>5, <2>1, <2>2, <2>3 DEF IInv, RecordsListed, Listed
<1>11. ListRecorded'
    <2>1. \A e \in Dates : Covered(e) => Covered(e)'
        BY <1>3, <1>4, <1>5 DEF Covered, Writing
    <2>2. \A m \in Months : Listed(m)' = Listed(m)
        BY <1>5 DEF Listed
    <2> QED
        BY <2>1, <2>2, KeepRecorded DEF IInv
<1> QED
    BY <1>7, <1>8, <1>9, <1>10, <1>11 DEF IInv
(* The day of the date is on the list at the end.                          *)
LEMMA ListIInv == IInv /\ ListDay => IInv'
<1> SUFFICES ASSUME IInv, ListDay PROVE IInv'
    OBVIOUS
<1> DEFINE mine == Month(fileName)
           day == Day(fileName)
           old == monthFile[mine]
           new == monthFile'[mine]
<1>1. /\ fileName \in Dates /\ mine \in Months /\ day \in Days
      /\ Year(fileName) \in Years /\ fileName = <<Year(fileName), mine, day>>
    BY DateParts, DrinkRecordAssumption DEF IInv, FilesOK, ListDay
<1>2. /\ UNCHANGED <<form, fileName, dayFile, savedEmpty>>
      /\ step = "list" /\ step' = "idle" /\ interrupted' = interrupted \ {fileName}
    BY DEF ListDay
<1>3. old \in Seq(Days) /\ old # NoFile /\ dayFile[fileName] \in Records
    BY <1>1, <1>2 DEF IInv, FilesOK, StepsDone
<1>4. /\ new = IF day \in ToSet(old) THEN old ELSE Append(old, day)
      /\ \A m \in Months \ {mine} : monthFile'[m] = monthFile[m]
      /\ monthFile' = [monthFile EXCEPT ![mine] = new]
      /\ monthFile \in [Months -> Seq(Days) \cup {NoFile}]
    BY <1>1 DEF ListDay, IInv, FilesOK
<1>5. IsInjective(old)
    BY <1>1, <1>3 DEF IInv, ListedOnce
<1>6. /\ new \in Seq(Days) /\ new # NoFile /\ IsInjective(new)
      /\ ToSet(new) = ToSet(old) \cup {day}
    <2> HIDE DEF old, new, day
    <2>1. CASE day \in ToSet(old)
        BY <1>3, <1>4, <1>5, <2>1, DrinkRecordAssumption
    <2>2. CASE day \notin ToSet(old)
        <3>1. new = Append(old, day)
            BY <1>4, <2>2
        <3>2. /\ Append(old, day) \in Seq(Days) /\ IsInjective(Append(old, day))
              /\ ToSet(Append(old, day)) = ToSet(old) \cup {day}
            BY ONLY <1>1, <1>3, <1>5, <2>2, AppendDay
        <3> QED
            BY ONLY <3>1, <3>2, DrinkRecordAssumption
    <2> QED
        BY <2>1, <2>2
<1>7. monthFile' \in [Months -> Seq(Days) \cup {NoFile}]
    BY <1>1, <1>4, <1>6
<1>8. /\ Listed(mine)' = Listed(mine) \cup {day}
      /\ \A m \in Months \ {mine} : Listed(m)' = Listed(m)
    BY <1>2, <1>3, <1>4, <1>6 DEF Listed
<1>9. FilesOK'
    BY <1>2, <1>7 DEF IInv, FilesOK, Dates
<1>10. StepsDone'
    BY <1>1, <1>2, <1>8 DEF StepsDone, Day, Month
<1>11. ListedOnce' /\ EmptySaved'
    BY <1>2, <1>4, <1>6 DEF IInv, ListedOnce, EmptySaved
<1>12. RecordsListed'
    <2> SUFFICES ASSUME NEW e \in Dates, dayFile[e] \in Records,
                        e \notin interrupted \ {fileName}
                 PROVE  Day(e) \in Listed(Month(e))'
        BY <1>2, DateParts DEF RecordsListed
    <2>1. CASE e = fileName
        BY <1>1, <1>2, <1>8, <2>1 DEF Listed
    <2>2. CASE e # fileName
        <3>1. Day(e) \in Listed(Month(e)) /\ Month(e) \in Months
            BY <2>2, DateParts DEF IInv, RecordsListed, Writing
        <3> QED
            BY <1>2, <1>8, <3>1 DEF Listed
    <2> QED
        BY <2>1, <2>2
<1>13. ListRecorded'
    <2>1. \A e \in Dates : Covered(e) => Covered(e)'
        BY <1>2, <1>3 DEF Covered, Writing
    <2>2. \A m \in Months : \A d \in Listed(m)' \ Listed(m) : m = mine /\ d = day
        BY <1>2, <1>8 DEF Listed
    <2>3. PICK y \in Years : fileName = <<y, mine, day>>
        BY <1>1
    <2>4. \A m \in Months : \A d \in Listed(m)' \ Listed(m) : Covered(<<y, m, d>>)'
        BY <1>2, <1>3, <2>2, <2>3 DEF Covered
    <2> QED
        BY <2>1, <2>4, KeepRecorded DEF IInv
<1> QED
    BY <1>9, <1>10, <1>11, <1>12, <1>13 DEF IInv

(* Every step keeps it.                                                    *)
LEMMA NextIInv == IInv /\ [Next]_vars => IInv'
<1> SUFFICES ASSUME IInv, [Next]_vars PROVE IInv'
    OBVIOUS
<1>1. form \in Records /\ fileName \in Dates \cup {NoDate}
    BY DEF IInv, FilesOK
<1>2. ASSUME NEW k \in Drinks, NEW v \in Values, Type(k, v)
      PROVE  IInv'
    <2>1. form' \in Records
        BY <1>1, <1>2 DEF Type, Records
    <2> QED
        BY <1>2, <2>1, QuietIInv DEF Type, AtForm
<1>3. ASSUME NEW date \in Dates, NEW last \in Days \cup {0}, PickDate(date, last)
      PROVE  IInv'
    BY <1>3, PickIInv
<1>4. CASE OpenAvg
    BY <1>1, <1>4, QuietIInv DEF OpenAvg, AtForm
<1>5. CASE CloseAvg
    BY <1>1, <1>5, QuietIInv DEF CloseAvg
<1>6. CASE Rotate
    BY <1>1, <1>6, QuietIInv DEF Rotate, AtForm
<1>7. CASE AvgCrashes
    BY <1>7, DieIInv DEF AvgCrashes
<1>8. CASE UNCHANGED vars
    BY <1>1, <1>8, QuietIInv DEF vars, files
<1> QED
    BY <1>2, <1>3, <1>4, <1>5, <1>6, <1>7, <1>8,
       OpenIInv, OpenMonthIInv, WriteIInv, ListIInv, DieIInv DEF Next
(* The invariant holds in every reachable state.                           *)
LEMMA Invariance == Spec => []IInv
BY InitIInv, NextIInv, PTL DEF Spec

-----------------------------------------------------------------------------
(* The files and fields have their types in every reachable state.         *)
THEOREM FilesTypeCorrect == Spec => []FilesOK
<1>1. IInv => FilesOK
    BY DEF IInv
<1> QED
    BY <1>1, Invariance, PTL

(* No day is ever on the list of its month twice, so that AvgActivity,     *)
(* which counts the lines of that list, counts no day twice.               *)
THEOREM CountedOnce == Spec => []ListedOnce
<1>1. IInv => ListedOnce
    BY DEF IInv
<1> QED
    BY <1>1, Invariance, PTL

(* Whatever is recorded is counted, unless the process died in between.    *)
THEOREM RecordsCounted == Spec => []RecordedIsListed
<1>1. IInv => RecordedIsListed
    <2> SUFFICES ASSUME IInv, NEW date \in Dates,
                        dayFile[date] \in Records, ~Busy(date), date \notin interrupted
                 PROVE  Day(date) \in Listed(Month(date))
        BY DEF RecordedIsListed
    <2>1. ~Writing(date)
        BY DEF Busy, Writing
    <2> QED
        BY <2>1 DEF IInv, RecordsListed
<1> QED
    BY <1>1, Invariance, PTL

(* What is counted has a record, unless the process died in between.       *)
THEOREM CountedRecorded == Spec => []ListedIsRecorded
<1>1. IInv => ListedIsRecorded
    BY DEF IInv, ListRecorded, Covered, Writing, ListedIsRecorded, Busy
<1> QED
    BY <1>1, Invariance, PTL

(* AvgActivity is only ended by a text or by an empty field that "Save"    *)
(* stored.                                                                 *)
THEOREM CrashesHaveCause == Spec => []UnreadableHasCause
<1>1. IInv => UnreadableHasCause
    <2> SUFFICES ASSUME IInv, NEW m \in Months, Unreadable(m)
                 PROVE  \E d \in RecordedDays(AvgYear, m) :
                            \/ <<AvgYear, m, d>> \in savedEmpty
                            \/ \E k \in Drinks : dayFile[<<AvgYear, m, d>>][k] = Text
        BY DEF UnreadableHasCause
    <2>1. PICK d \in RecordedDays(AvgYear, m), k \in Drinks :
              dayFile[<<AvgYear, m, d>>][k] \notin Amounts
        BY DEF Unreadable
    <2>2. <<AvgYear, m, d>> \in Dates /\ dayFile[<<AvgYear, m, d>>] \in Records
        BY <2>1, PartsDate, DrinkRecordAssumption DEF RecordedDays
    <2>3. dayFile[<<AvgYear, m, d>>][k] \in {Empty, Text}
        BY <2>1, <2>2 DEF Records, Values
    <2> QED
        BY <2>1, <2>2, <2>3 DEF IInv, EmptySaved
<1> QED
    BY <1>1, Invariance, PTL

-----------------------------------------------------------------------------
(* Seen from outside the files are a diary.                                *)
Kept == [date \in Dates |-> IF dayFile[date] \in Records THEN dayFile[date] ELSE NoFile]

(* A step that gives the file of the date another content is a Put.        *)
LEMMA PutStep ==
    ASSUME FilesOK, fileName \in Dates, fileName' = fileName,
           dayFile' \in [Dates -> Records \cup {NoFile, Blank}],
           \A e \in Dates \ {fileName} : dayFile'[e] = dayFile[e]
    PROVE  \E entry \in Records \cup {NoFile} : Book!Put(entry)
<1> DEFINE entry == IF dayFile'[fileName] \in Records THEN dayFile'[fileName] ELSE NoFile
<1>1. Kept' = [Kept EXCEPT ![fileName] = entry]
    BY DEF Kept
<1>2. entry \in Records \cup {NoFile}
    OBVIOUS
<1> HIDE DEF entry
<1> QED
    BY <1>1, <1>2 DEF Book!Put, Kept

(* Every step of the files is a step of the diary or changes nothing in it.*)
LEMMA NextDiary == IInv /\ [Next]_vars => [Book!Next]_<<fileName, Kept>>
<1> SUFFICES ASSUME IInv, [Next]_vars
             PROVE  Book!Next \/ UNCHANGED <<fileName, Kept>>
    BY DEF Kept
<1>1. FilesOK /\ FilesOK'
    BY NextIInv DEF IInv
<1>2. CASE UNCHANGED dayFile
    <2>1. Kept' = Kept
        BY <1>2 DEF Kept
    <2>2. fileName' \in Dates \cup {NoDate}
        BY <1>1 DEF FilesOK
    <2> QED
        BY <2>1, <2>2 DEF Book!Next, Book!Choose, Kept
<1>3. ASSUME NEW date \in Dates, NEW last \in Days \cup {0}, PickDate(date, last)
      PROVE  Book!Next
    <2>1. Kept' = Kept
        BY <1>3, NoRecord DEF Kept, PickDate, CreateFiles
    <2> QED
        BY <1>3, <2>1 DEF Book!Next, Book!Choose, Kept, PickDate
<1>4. CASE OpenDay \/ SaveOpen \/ WriteDay \/ SaveWrite
    <2>1. fileName \in Dates /\ fileName' = fileName
        BY <1>1, <1>4 DEF FilesOK, OpenDay, SaveOpen, WriteDay, SaveWrite
    <2>2. \A e \in Dates \ {fileName} : dayFile'[e] = dayFile[e]
        BY <1>1, <1>4 DEF FilesOK, OpenDay, SaveOpen, WriteDay, SaveWrite
    <2>3. dayFile' \in [Dates -> Records \cup {NoFile, Blank}]
        BY <1>1 DEF FilesOK, Dates, Records, Values
    <2> QED
        BY <1>1, <2>1, <2>2, <2>3, PutStep DEF Book!Next
<1>5. CASE UNCHANGED vars
    BY <1>2, <1>5 DEF vars, files
<1> QED
    BY <1>2, <1>3, <1>4, <1>5
    DEF Next, Type, OpenMonth, ListDay, OpenAvg, CloseAvg, Die, AvgCrashes, Rotate, files

(* Picking, saving and dying only ever change the record of the chosen     *)
(* date: the files implement a diary.                                      *)
THEOREM ImplementsDiary == Spec => DiarySpec
<1>1. Init => Book!Init
    BY NoRecord DEF Init, Book!Init
<1>2. IInv /\ [Next]_vars => [Book!Next]_<<fileName, Kept>>
    BY NextDiary
<1> QED
    BY <1>1, <1>2, Invariance, PTL DEF Spec, DiarySpec, Book!Spec, Kept
=============================================================================
