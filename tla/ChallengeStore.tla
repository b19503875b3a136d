--------------------------- MODULE ChallengeStore ---------------------------
(***************************************************************************)
(* What the proxy's challenge table promises to the rest of the proxy.     *)
(*                                                                         *)
(* A client that wants to connect first asks for a challenge and has to    *)
(* present it in its connect request (SVC_GetChallenge, CheckChallenge and *)
(* SVC_DirectConnect in svc.c).  The table behind it is an array of        *)
(* MAX_CHALLENGES slots; here it is a function from the addresses that own *)
(* a slot to the contents of the slot, and a full table forgets SOME       *)
(* address when a new one asks.  ChallengeTable models the array, the      *)
(* search loop and the choice of the slot, and implements this module.     *)
(***************************************************************************)
EXTENDS Naturals, FiniteSets

CONSTANTS
  Client,         \* addresses the proxy can hear from on its own port
  Challenge,      \* the numbers rand() can give
  Protos,         \* the game protocols in use, some of "qw" and "q3"
  MaxChallenges   \* MAX_CHALLENGES, the size of the table

\* p->challenge of a peer whose server sent no challenge yet (zeroed memory)
NoChallenge == 0

ChallengeValue == Challenge \cup {NoChallenge}

ASSUME StoreAssumption ==
  /\ Challenge \subseteq Nat
  /\ Protos \subseteq {"qw", "q3"}
  /\ MaxChallenges \in Nat \ {0}

Slot == [challenge : ChallengeValue, proto : Protos]

Table == UNION {[as -> Slot] : as \in SUBSET Client}

(***************************************************************************)
(* Who owns a slot once `a' has asked: a known address changes nobody's    *)
(* slot, a new one takes a free slot or, in a full table, another's.       *)
(***************************************************************************)
Owners(tbl, a) ==
  IF a \in DOMAIN tbl
  THEN {DOMAIN tbl}
  ELSE IF Cardinality(DOMAIN tbl) < MaxChallenges
       THEN {DOMAIN tbl \cup {a}}
       ELSE {(DOMAIN tbl \ {b}) \cup {a} : b \in DOMAIN tbl}

(***************************************************************************)
(* The tables a getchallenge of `a' can leave behind.  `forced' is the     *)
(* challenge a connected q3 peer already uses, as a set of at most one     *)
(* value; otherwise a known address keeps its number and a new one gets a  *)
(* random number.  The protocol is overwritten in any case.                *)
(***************************************************************************)
Answers(tbl, a, proto, forced) ==
  LET numbers == IF forced # {} THEN forced
                 ELSE IF a \in DOMAIN tbl THEN {tbl[a].challenge}
                 ELSE Challenge
  IN  {[b \in owners |-> IF b = a THEN [challenge |-> n, proto |-> proto]
                                  ELSE tbl[b]] :
         n \in numbers, owners \in Owners(tbl, a)}

-----------------------------------------------------------------------------
(***************************************************************************)
(* The table alone: getchallenge requests of any address, with or without  *)
(* a connected q3 peer behind the address.                                 *)
(***************************************************************************)
VARIABLE challenges

Ask(a, proto) ==
  \E forced \in {{}} \cup {{n} : n \in ChallengeValue} :
    /\ proto = "qw" => forced = {}
    /\ challenges' \in Answers(challenges, a, proto, forced)

StoreInit == challenges = [a \in {} |-> NoChallenge]

StoreNext == \E a \in Client, proto \in Protos : Ask(a, proto)

StoreSpec == StoreInit /\ [][StoreNext]_challenges
=============================================================================
