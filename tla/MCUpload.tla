-------------------------------- MODULE MCUpload --------------------------------
(***************************************************************************)
(* AppUpload on a small board.  CARD has the largest code image (it reaches*)
(* the icon's sector), CARD2 is a version of it with a data blob that ends *)
(* inside the last sector of its second slot, DISK is another app.         *)
(***************************************************************************)
EXTENDS AppUpload

MCApps == [CARD  |-> [id |-> "card", code |-> 3, data |-> 0, count |-> 1],
           CARD2 |-> [id |-> "card", code |-> 1, data |-> 5, count |-> 2],
           DISK  |-> [id |-> "disk", code |-> 2, data |-> 0, count |-> 1]]

\* An empty area, a card in the middle, a two-slot card first, and neighbours.
MCInstalled == {{}, {<<"CARD", 1>>}, {<<"CARD2", 0>>}, {<<"CARD", 0>>, <<"DISK", 1>>}}
===============================================================================
