---------------------------- MODULE DrinkRecord -----------------------------
(***************************************************************************)
(* The drinking diary.  DrinkRecordActivity keeps a file for each date,    *)
(* one line a drink, and for each month, whatever the year, a file of the  *)
(* days that have a record.  AvgActivity reads both.                       *)
(*                                                                         *)
(* Picking a date already writes the form into the file of that date, in   *)
(* several steps on the files; "Save" writes it again.  Both run on the    *)
(* main thread, so that only a failure or the death of the process comes   *)
(* in between.  A file name stands for the date or month it is made of:    *)
(* two dates, or two months, never have the same name.                     *)
(***************************************************************************)
EXTENDS Integers, Sequences, FiniteSets, SequencesExt

CONSTANTS Years, Months, Days,
          Drinks,       \* the lines of a record (beer, soju, wine)
          Amounts,      \* numbers of glasses the user may enter
          Empty,        \* an empty field or line
          Text,         \* a field or line that is not a number
          NoDate,       \* fileName is null
          NoFile, Blank \* there is no such file; it is empty

AvgYear == 2021         \* the year of the files that AvgActivity sums up

ASSUME DrinkRecordAssumption ==
    /\ AvgYear \in Years
    /\ Days \subseteq Nat /\ Amounts \subseteq Nat /\ 0 \in Amounts
    /\ IsFiniteSet(Days)
    /\ Empty \notin Amounts /\ Text \notin Amounts /\ Empty # Text
    /\ NoDate \notin Years \X Months \X Days
    /\ {NoFile, Blank} \cap [Drinks -> Amounts \cup {Empty, Text}] = {}
    /\ NoFile # Blank /\ NoFile \notin Seq(Days)

VARIABLES form,         \* the text fields of DrinkRecordActivity
          fileName,     \* the date picked; its month is the field "month"
          step,         \* how far the running handler is
          dayFile,      \* the file of each date
          monthFile,    \* the file of each month
          shown,        \* what AvgActivity shows, if it is in front
          interrupted,  \* history: dates whose record was not finished
          savedEmpty    \* history: dates saved with an empty field

files == <<dayFile, monthFile>>
vars == <<form, fileName, step, files, shown, interrupted, savedEmpty>>

Dates == Years \X Months \X Days
Values == Amounts \cup {Empty, Text}
Records == [Drinks -> Values]
NoScreen == [days |-> 0, sums |-> <<>>]

Year(date) == date[1]
Month(date) == date[2]
Day(date) == date[3]

Init ==
    /\ form = [k \in Drinks |-> Empty]
    /\ fileName = NoDate
    /\ step = "idle"
    /\ dayFile = [date \in Dates |-> NoFile]
    /\ monthFile = [m \in Months |-> NoFile]
    /\ shown = NoScreen
    /\ interrupted = {} /\ savedEmpty = {}

AtForm == step = "idle" /\ shown = NoScreen

-----------------------------------------------------------------------------
(* Picking a date.                                                         *)

(* The user types into a field.                                            *)
Type(k, v) ==
    /\ AtForm
    /\ form' = [form EXCEPT ![k] = v]
    /\ UNCHANGED <<fileName, step, files, shown, interrupted, savedEmpty>>

(* Fault: the files of the month are opened for writing, not appending.    *)
CreateTruncates(y, m, last) ==
    [date \in Dates |->
        IF Year(date) = y /\ Month(date) = m /\ Day(date) <= last
        THEN Blank ELSE dayFile[date]]

(* The files of the month are created, up to the first that cannot be      *)
(* opened: the streams are not closed, and too many are one reason.        *)
CreateFiles(y, m, last) ==
    [date \in Dates |->
        IF /\ Year(date) = y /\ Month(date) = m /\ Day(date) <= last
           /\ dayFile[date] = NoFile
        THEN Blank ELSE dayFile[date]]

PickDate(date, last) ==
    /\ AtForm
    /\ fileName' = date
    /\ dayFile' = CreateFiles(Year(date), Month(date), last)
    /\ step' = "open"
    /\ UNCHANGED <<form, monthFile, shown, interrupted, savedEmpty>>

(* Opening a file for writing empties it.                                  *)
OpenDay ==
    /\ step = "open"
    /\ dayFile' = [dayFile EXCEPT ![fileName] = Blank]
    /\ step' = "openMonth"
    /\ UNCHANGED <<form, fileName, monthFile, shown, interrupted, savedEmpty>>

OpenMonth ==
    /\ step = "openMonth"
    /\ monthFile' = [monthFile EXCEPT ![Month(fileName)] =
                        IF @ = NoFile THEN <<>> ELSE @]
    /\ step' = "write"
    /\ UNCHANGED <<form, fileName, dayFile, shown, interrupted, savedEmpty>>

(* Empty fields become zeros, on the screen too.                           *)
WriteDay ==
    LET filled == [k \in Drinks |-> IF form[k] = Empty THEN 0 ELSE form[k]] IN
    /\ step = "write"
    /\ form' = filled
    /\ dayFile' = [dayFile EXCEPT ![fileName] = filled]
    /\ savedEmpty' = savedEmpty \ {fileName}
    /\ step' = "list"
    /\ UNCHANGED <<fileName, monthFile, shown, interrupted>>

(* Fault: the day is appended without looking for it.                      *)
ListAgain ==
    /\ step = "list"
    /\ monthFile' = [monthFile EXCEPT ![Month(fileName)] = Append(@, Day(fileName))]
    /\ interrupted' = interrupted \ {fileName}
    /\ step' = "idle"
    /\ UNCHANGED <<form, fileName, dayFile, shown, savedEmpty>>

(* Fault: the loop that looks for the day finds any day.                   *)
ListFirstOnly ==
    /\ step = "list"
    /\ monthFile' = [monthFile EXCEPT ![Month(fileName)] =
                        IF @ # <<>> THEN @ ELSE Append(@, Day(fileName))]
    /\ interrupted' = interrupted \ {fileName}
    /\ step' = "idle"
    /\ UNCHANGED <<form, fileName, dayFile, shown, savedEmpty>>

(* The day is appended to the file of the month unless it is there.        *)
ListDay ==
    /\ step = "list"
    /\ monthFile' = [monthFile EXCEPT ![Month(fileName)] =
                        IF Day(fileName) \in ToSet(@) THEN @
                        ELSE Append(@, Day(fileName))]
    /\ interrupted' = interrupted \ {fileName}
    /\ step' = "idle"
    /\ UNCHANGED <<form, fileName, dayFile, shown, savedEmpty>>

-----------------------------------------------------------------------------
(* Save.  Without a date openFileOutput throws, and the exception is only  *)
(* printed.                                                                *)

SaveOpen ==
    /\ AtForm /\ fileName # NoDate
    /\ dayFile' = [dayFile EXCEPT ![fileName] = Blank]
    /\ step' = "save"
    /\ UNCHANGED <<form, fileName, monthFile, shown, interrupted, savedEmpty>>

SaveWrite ==
    /\ step = "save"
    /\ dayFile' = [dayFile EXCEPT ![fileName] = form]
    /\ savedEmpty' = IF \E k \in Drinks : form[k] = Empty
                     THEN savedEmpty \cup {fileName} ELSE savedEmpty \ {fileName}
    /\ step' = "idle"
    /\ UNCHANGED <<form, fileName, monthFile, shown, interrupted>>

-----------------------------------------------------------------------------
(* AvgActivity.                                                            *)

RecordedDays(y, m) == {d \in Days : dayFile[<<y, m, d>>] \in Records}

(* parseInt throws on a line that is not a number.                         *)
Unreadable(m) ==
    \E d \in RecordedDays(AvgYear, m), k \in Drinks :
        dayFile[<<AvgYear, m, d>>][k] \notin Amounts

Sum(y, m, k) == MapThenSumSet(LAMBDA d : dayFile[<<y, m, d>>][k], RecordedDays(y, m))

(* daySum - 1, where daySum stays 0 if there is no file.                   *)
DayCount(m) == IF monthFile[m] = NoFile THEN -1 ELSE Len(monthFile[m])

(* Without a date the month is null, and no file has that name.            *)
OpenAvg ==
    /\ AtForm
    /\ IF fileName = NoDate
       THEN shown' = [days |-> -1, sums |-> [k \in Drinks |-> 0]]
       ELSE LET m == Month(fileName) IN
            /\ ~Unreadable(m)
            /\ shown' = [days |-> DayCount(m),
                         sums |-> [k \in Drinks |-> Sum(AvgYear, m, k)]]
    /\ UNCHANGED <<form, fileName, step, files, interrupted, savedEmpty>>

CloseAvg ==
    /\ shown # NoScreen
    /\ shown' = NoScreen
    /\ UNCHANGED <<form, fileName, step, files, interrupted, savedEmpty>>

-----------------------------------------------------------------------------
(* Interruptions.                                                          *)

(* The process ends: killed, or by System.exit after a file could not be   *)
(* opened or read.  The app starts again with empty fields, or with those  *)
(* that Android has saved; the date is lost in any case.                   *)
Die ==
    /\ form' \in {form, [k \in Drinks |-> Empty]}
    /\ fileName' = NoDate
    /\ step' = "idle"
    /\ shown' = NoScreen
    /\ interrupted' = IF step \in {"openMonth", "write", "list", "save"}
                      THEN interrupted \cup {fileName} ELSE interrupted
    /\ UNCHANGED <<files, savedEmpty>>

(* Opening the average of a month with an unreadable line ends the app.    *)
AvgCrashes ==
    /\ AtForm /\ fileName # NoDate
    /\ Unreadable(Month(fileName))
    /\ Die

(* The device is turned: a new activity with the fields but no date.       *)
Rotate ==
    /\ AtForm
    /\ fileName' = NoDate
    /\ UNCHANGED <<form, step, files, shown, interrupted, savedEmpty>>

Next ==
    \/ \E k \in Drinks, v \in Values : Type(k, v)
    \/ \E date \in Dates, last \in Days \cup {0} : PickDate(date, last)
    \/ OpenDay \/ OpenMonth \/ WriteDay \/ ListDay
    \/ SaveOpen \/ SaveWrite
    \/ OpenAvg \/ CloseAvg
    \/ Die \/ AvgCrashes \/ Rotate

Spec == Init /\ [][Next]_vars

-----------------------------------------------------------------------------
(* Properties.                                                             *)

FilesOK ==
    /\ form \in Records
    /\ fileName \in Dates \cup {NoDate}
    /\ step \in {"idle", "open", "openMonth", "write", "list", "save"}
    /\ step # "idle" => fileName # NoDate
    /\ dayFile \in [Dates -> Records \cup {NoFile, Blank}]
    /\ monthFile \in [Months -> Seq(Days) \cup {NoFile}]
    /\ interrupted \subseteq Dates /\ savedEmpty \subseteq Dates

(* The values every variable can take.                                     *)
TypeOK ==
    /\ FilesOK
    /\ shown = NoScreen \/ shown \in [days : Int, sums : [Drinks -> Nat]]

Listed(m) == IF monthFile[m] = NoFile THEN {} ELSE ToSet(monthFile[m])
Busy(date) == step # "idle" /\ fileName = date

(* A day is counted once, however often it is picked, in whatever years,   *)
(* and wherever the process dies.                                          *)
ListedOnce ==
    \A m \in Months : monthFile[m] # NoFile => IsInjective(monthFile[m])

(* A record on a date puts its day on the list of the month, unless the    *)
(* process died between the two files.                                     *)
RecordedIsListed ==
    \A date \in Dates :
        dayFile[date] \in Records /\ ~Busy(date) /\ date \notin interrupted =>
            Day(date) \in Listed(Month(date))

(* A day on the list has a record in some year: picking other dates never  *)
(* empties a file, and only a death leaves one empty.                      *)
ListedIsRecorded ==
    \A m \in Months : \A d \in Listed(m) :
        \E y \in Years :
            \/ dayFile[<<y, m, d>>] \in Records
            \/ Busy(<<y, m, d>>) \/ <<y, m, d>> \in interrupted

(* AvgActivity dies of a text the user entered, or of an empty field that  *)
(* "Save" stored: picking a date never stores one.                         *)
UnreadableHasCause ==
    \A m \in Months : Unreadable(m) =>
        \E d \in RecordedDays(AvgYear, m) :
            \/ <<AvgYear, m, d>> \in savedEmpty
            \/ \E k \in Drinks : dayFile[<<AvgYear, m, d>>][k] = Text

(* Seen from outside there is one record a date: see Diary.                *)
Book == INSTANCE Diary
           WITH Entries <- Records, NoEntry <- NoFile, date <- fileName,
                record <- [date \in Dates |-> IF dayFile[date] \in Records
                                              THEN dayFile[date] ELSE NoFile]

DiarySpec == Book!Spec

=============================================================================
