------------------------------- MODULE Diary --------------------------------
(***************************************************************************)
(* What a diary promises, whatever files it is kept in: there is one       *)
(* record for each date, and only the record of the chosen date changes.   *)
(***************************************************************************)

CONSTANTS Dates,    \* the dates that can be chosen
          Entries,  \* what can be written for a date
          NoDate,   \* no date is chosen
          NoEntry   \* nothing is written for a date

VARIABLES date,     \* the chosen date
          record    \* date -> entry

Init ==
    /\ date = NoDate
    /\ record = [d \in Dates |-> NoEntry]

Choose(d) == date' = d /\ UNCHANGED record

(* The record of the chosen date is written or, on the way, erased.        *)
Put(entry) ==
    /\ date \in Dates
    /\ record' = [record EXCEPT ![date] = entry]
    /\ UNCHANGED date

Next ==
    \/ \E d \in Dates \cup {NoDate} : Choose(d)
    \/ \E entry \in Entries \cup {NoEntry} : Put(entry)

Spec == Init /\ [][Next]_<<date, record>>
=============================================================================
