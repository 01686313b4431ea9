------------------------------- MODULE MCWindow -------------------------------
(* TLC instance of Window.  The user clicks a few times, wherever he likes.   *)
(* With two configurations protection is on or off from the start and is      *)
(* switched in window and tray, against startup and the first refresh; with   *)
(* the two others it is left alone, and there are updates, notifications and  *)
(* the closing instead.                                                       *)
EXTENDS Window

CONSTANTS c1, c2, t1

MCClicks == {c1, c2}
MCTrayToggles == {t1}

\* Protection on from the start, and off.
MCSwitching == {[protection |-> b, notifications |-> FALSE, minimize |-> FALSE] : b \in BOOLEAN}

\* Notifications and the close dialog, and neither of them.
MCClosing == {[protection |-> FALSE, notifications |-> TRUE, minimize |-> FALSE],
              [protection |-> FALSE, notifications |-> FALSE, minimize |-> TRUE]}

MCStartConfigs == MCSwitching \cup MCClosing
MCMaxActs == [c \in Configs |-> IF c \in MCSwitching THEN 2 ELSE 3]
MCMaxRounds == [c \in Configs |-> IF c \in MCSwitching THEN 0 ELSE 2]

===============================================================================
