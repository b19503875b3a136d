--------------------------- MODULE ChallengeTable ---------------------------
(***************************************************************************)
(* The challenge table as svc.c keeps it: an array of MAX_CHALLENGES slots *)
(* in zeroed memory, searched from the front by address, in which a new    *)
(* address overwrites the slot with the oldest time.  Times are whole      *)
(* seconds (time_t), so that many slots may be of the same time.           *)
(***************************************************************************)
EXTENDS Naturals, FiniteSets

CONSTANTS
  Client,         \* addresses that ask for challenges
  NoAddr,         \* the address in a zeroed slot, nobody's
  Challenge,      \* the numbers rand() can give
  Protos,         \* the game protocols, some of "qw" and "q3"
  MaxChallenges,  \* MAX_CHALLENGES
  Start,          \* the clock when the proxy starts
  OldestTime,     \* 0x7fffffff, where the search for the oldest time begins
  MaxTime         \* bound of the model: the clock stops there

NoChallenge == 0

ChallengeValue == Challenge \cup {NoChallenge}

ASSUME TableAssumption ==
  /\ NoAddr \notin Client
  /\ Challenge \subseteq Nat
  /\ Protos \subseteq {"qw", "q3"}
  /\ MaxChallenges \in Nat \ {0}
  /\ Start \in Nat \ {0}
  /\ OldestTime \in Nat \ {0}
  /\ MaxTime \in Nat

Index == 0..(MaxChallenges - 1)

VARIABLES
  slots,   \* the array `challenges'
  now      \* time(NULL)

tableVars == <<slots, now>>

MutTableInit ==    \* mutant: the unused slots carry the sentinel of the search
  /\ slots = [i \in Index |-> [adr |-> NoAddr, challenge |-> NoChallenge,
                               time |-> OldestTime, proto |-> "qw"]]
  /\ now = Start

TableInit ==
  /\ slots = [i \in Index |-> [adr |-> NoAddr, challenge |-> NoChallenge,
                               time |-> 0, proto |-> "qw"]]
  /\ now = Start

-----------------------------------------------------------------------------
(* FindChallengeForAddr: the first slot of an address, or MaxChallenges.   *)
FindChallengeForAddr(a) ==
  LET found == {i \in Index : slots[i].adr = a}
  IN  IF found = {} THEN MaxChallenges
      ELSE CHOOSE i \in found : \A j \in found : i <= j

MutIsOldest(i) ==    \* mutant: the comparison is the wrong way round
  \A j \in Index : \/ slots[j].time < slots[i].time
                   \/ slots[j].time = slots[i].time /\ i <= j

(* What the search leaves in `oldest': the first of the slots with the     *)
(* least time below 0x7fffffff, and slot 0 if there is none.               *)
IsOldest(i) ==
  LET past == {j \in Index : slots[j].time < OldestTime}
  IN  IF past = {} THEN i = 0
      ELSE /\ i \in past
           /\ \A j \in past : \/ slots[i].time < slots[j].time
                              \/ slots[i].time = slots[j].time /\ i <= j

(* SVC_GetChallenge for an address that has a slot: number and time stay,  *)
(* the protocol is overwritten, and the number of a connected q3 peer too. *)
KnownAddress(a, proto, forced) ==
  /\ FindChallengeForAddr(a) < MaxChallenges
  /\ LET i == FindChallengeForAddr(a)
     IN  \E n \in IF forced = {} THEN {slots[i].challenge} ELSE forced :
           slots' = [slots EXCEPT ![i] = [adr |-> a, challenge |-> n,
                                          time |-> slots[i].time, proto |-> proto]]
  /\ UNCHANGED now

MutNewAddress(a, proto, forced) ==    \* mutant: a slot found is not looked for
  /\ \E i \in Index, n \in IF forced = {} THEN Challenge ELSE forced :
       /\ IsOldest(i)
       /\ slots' = [slots EXCEPT ![i] = [adr |-> a, challenge |-> n,
                                         time |-> now, proto |-> proto]]
  /\ UNCHANGED now

(* SVC_GetChallenge for a new address: the oldest slot is overwritten.     *)
NewAddress(a, proto, forced) ==
  /\ FindChallengeForAddr(a) = MaxChallenges
  /\ \E i \in Index, n \in IF forced = {} THEN Challenge ELSE forced :
       /\ IsOldest(i)
       /\ slots' = [slots EXCEPT ![i] = [adr |-> a, challenge |-> n,
                                         time |-> now, proto |-> proto]]
  /\ UNCHANGED now

(* `forced' is p->challenge if the address has a connected q3 peer, which  *)
(* the table cannot know: any number, and none for qw.                     *)
SVC_GetChallenge(a, proto) ==
  \E forced \in {{}} \cup {{n} : n \in ChallengeValue} :
    /\ proto = "qw" => forced = {}
    /\ KnownAddress(a, proto, forced) \/ NewAddress(a, proto, forced)

Tick ==
  /\ now < MaxTime
  /\ now' = now + 1
  /\ UNCHANGED slots

TableNext ==
  \/ \E a \in Client, proto \in Protos : SVC_GetChallenge(a, proto)
  \/ Tick

TableSpec == TableInit /\ [][TableNext]_tableVars

-----------------------------------------------------------------------------
(* The types of the variables; no slot is from the future.                 *)
TypeOK ==
  /\ slots \in [Index -> [adr : Client \cup {NoAddr}, challenge : ChallengeValue,
                          time : 0..now, proto : Protos \cup {"qw"}]]
  /\ now \in Nat \ {0}

(* A slot nobody owns is older than any other, so that the search prefers  *)
(* it to every slot in use.                                                *)
UnusedAreOldest == \A i \in Index : slots[i].adr = NoAddr <=> slots[i].time = 0

(* An address never owns two slots, so that the number it was sent is the  *)
(* number it is checked against (FindChallengeForAddr takes the first).    *)
OneSlotPerAddress ==
  \A i, j \in Index : slots[i].adr = slots[j].adr /\ slots[i].adr # NoAddr => i = j

-----------------------------------------------------------------------------
(***************************************************************************)
(* The array implements the promise of ChallengeStore.                     *)
(***************************************************************************)
Owned == {slots[i].adr : i \in Index} \ {NoAddr}

StoreOf ==
  [a \in Owned |-> [challenge |-> slots[FindChallengeForAddr(a)].challenge,
                    proto     |-> slots[FindChallengeForAddr(a)].proto]]

Store == INSTANCE ChallengeStore WITH challenges <- StoreOf

(* An address that has a slot keeps it whoever else asks, as long as there *)
(* is a slot nobody owns; a full table forgets exactly one address for a   *)
(* new one; and an answer never changes another's challenge.               *)
ImplementsStore == Store!StoreSpec
=============================================================================
