--------------------------- MODULE MCDrinkRecord ----------------------------
(* Two years, so that the files of a month are shared between them.        *)
EXTENDS DrinkRecord
=============================================================================
