-------------------------- MODULE ChallengeHistory --------------------------
(***************************************************************************)
(* How long the challenge table remembers an address.  The two variables   *)
(* are not in the code: they count the addresses that were new to the      *)
(* table since an address was itself.  The table knows only the second of  *)
(* an answer (svc.c, SVC_GetChallenge), so they count by seconds too.      *)
(***************************************************************************)
EXTENDS ChallengeTable

VARIABLES
  second,  \* how many addresses were new in this second
  later    \* of each address: how many others were new since the beginning
           \* of the second in which it was

historyVars == <<second, later>>

countedVars == <<tableVars, historyVars>>

(* More than the table has slots need not be counted.                      *)
More(n) == IF n < MaxChallenges THEN n + 1 ELSE n

(* The counts when a is new.                                               *)
Counted(a) == [b \in Client |-> IF b = a THEN second ELSE More(later[b])]

(* Who never had a challenge has none to lose.                             *)
HistoryInit ==
  /\ TableInit
  /\ second = 0
  /\ later = [a \in Client |-> MaxChallenges]

Asked(a) ==
  IF FindChallengeForAddr(a) = MaxChallenges
  THEN /\ second' = More(second)
       /\ later' = Counted(a)
  ELSE UNCHANGED historyVars

HistoryNext ==
  \/ \E a \in Client, proto \in Protos : SVC_GetChallenge(a, proto) /\ Asked(a)
  \/ Tick /\ second' = 0 /\ UNCHANGED later

HistorySpec == HistoryInit /\ [][HistoryNext]_countedVars

-----------------------------------------------------------------------------
(* An address keeps its challenge until as many others as there are slots  *)
(* have come, counted from the beginning of the second in which it got the *)
(* challenge: eviction goes by seconds, oldest first, whatever slots the   *)
(* addresses have and whoever asks again in between (SVC_GetChallenge).    *)
(* Counted from its own answer they may be fewer: once all slots are of    *)
(* one second, each new address takes slot 0, the newest.  Not after the   *)
(* clock has passed 0x7fffffff, see IsOldest.                              *)
KeptForATableful == \A a \in Client : later[a] < MaxChallenges => a \in Owned
=============================================================================
