------------------------------- MODULE BanList -------------------------------
(***************************************************************************)
(* What the ban list promises the administrator (ban.c): at most one rule  *)
(* for each address or network, and a copy in a file which, if a kill      *)
(* meets the writing of it, has a part of the rules and nothing else.      *)
(* Rules are lost only with the process.  Console, which has the array, the*)
(* lines of the file and the commands that change them, implements this.   *)
(***************************************************************************)
EXTENDS Integers, FiniteSets, Functions

CONSTANTS
  Key,         \* what a rule covers
  MaxFilters   \* MAX_IPFILTERS

VARIABLES
  rules,  \* the rules in force, by key
  saved,  \* those in the file
  up,     \* the process runs
  now     \* time(NULL)

listVars == <<rules, saved, up, now>>

Rule == [type : {"ban", "safe"}, until : Nat]

NoRules == [k \in {} |-> k]

ListInit == rules = NoRules /\ saved = NoRules /\ up = FALSE /\ now = 1

(* A rule for k, in place of the one k has or, unless the list is full, a  *)
(* new one.                                                                *)
Put(k) ==
  /\ up
  /\ k \in DOMAIN rules \/ Cardinality(DOMAIN rules) < MaxFilters
  /\ k \in DOMAIN rules' /\ rules'[k] \in Rule
  /\ rules' = [x \in DOMAIN rules \cup {k} |-> IF x = k THEN rules'[k] ELSE rules[x]]
  /\ UNCHANGED <<saved, up, now>>

Lift(k) ==
  /\ up
  /\ k \in DOMAIN rules
  /\ rules' = Restrict(rules, DOMAIN rules \ {k})
  /\ UNCHANGED <<saved, up, now>>

(* All rules that are over go, and no others.                              *)
Expire ==
  /\ up
  /\ rules' = Restrict(rules, {k \in DOMAIN rules : rules[k].until = 0 \/ rules[k].until > now})
  /\ UNCHANGED <<saved, up, now>>

Save ==
  /\ up
  /\ saved' = rules
  /\ UNCHANGED <<rules, up, now>>

(* The end of the process, perhaps in the middle of Save.                  *)
End ==
  /\ up /\ ~up'
  /\ rules' = NoRules
  /\ \/ UNCHANGED saved
     \/ \E part \in SUBSET DOMAIN rules : saved' = Restrict(rules, part)
  /\ UNCHANGED now

Start == ~up /\ up' /\ UNCHANGED <<rules, saved, now>>

Time == now' = now + 1 /\ UNCHANGED <<rules, saved, up>>

ListNext ==
  \/ \E k \in Key : Put(k) \/ Lift(k)
  \/ Expire \/ Save \/ End \/ Start \/ Time

ListSpec == ListInit /\ [][ListNext]_listVars
=============================================================================
