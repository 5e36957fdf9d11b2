-------------------------------- MODULE MCMenu --------------------------------
(***************************************************************************)
(* Menu with a game in the first slot and SETTINGS in the second.           *)
(***************************************************************************)
EXTENDS Menu

MCApps == 1..2
MCTree ==
  [a \in MCApps |->
     IF a = 2 THEN [n \in {"ROOT", "HUB"} |->
                      IF n = "ROOT" THEN <<"HUB", "LCDTEST">> ELSE <<"INSTALLED", "SUSPEND">>]
     ELSE [n \in {"ROOT"} |-> <<"EDITOR">>]]
===============================================================================
