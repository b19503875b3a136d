----------------------------- MODULE Serverinfo -----------------------------
(***************************************************************************)
(* Console variables and the info string that status answers carry.        *)
(* Variables with the flag "serverinfo" are mirrored there, and the        *)
(* command serverinfo puts other keys next to them.                        *)
(*                                                                         *)
(* A string is a value with a length, the string that is left without      *)
(* control characters and the one in lower case.  The info string          *)
(* \key\value\key\value is the sequence of its pairs.                      *)
(***************************************************************************)
EXTENDS Integers, Sequences, SequencesExt

CONSTANTS
  Str,         \* strings: names, keys and values
  Empty,       \* ""
  Zero, One,   \* "0" and "1"
  Number,      \* texts of numbers other than zero
  Star,        \* strings that begin with *
  Unquotable,  \* strings with a backslash or a quote
  Length,      \* strlen
  Stripped,    \* without characters up to 13
  Folded,      \* in lower case, as stricmp compares
  MaxKey,      \* MAX_INFO_KEY
  MaxInfo,     \* MAX_INFO_STRING
  Names,       \* names and keys commands are given
  Values,      \* values commands are given
  Registered,  \* the variables of the program, in the order of Cvar_Get
  NumBasic,    \* how many of them are registered before the configuration runs
  Params       \* port and address on the command line, or Empty

ASSUME StringAssumption ==
  /\ {Empty, Zero, One} \subseteq Str /\ Number \subseteq Str
  /\ Names \subseteq Str /\ Values \subseteq Str /\ Params \subseteq Str
  /\ Length \in [Str -> Nat] /\ Stripped \in [Str -> Str] /\ Folded \in [Str -> Str]
  /\ Stripped[Empty] = Empty
  /\ \A s \in Str : Length[Stripped[s]] <= Length[s] /\ Stripped[Stripped[s]] = Stripped[s]
  /\ MaxKey \in Nat /\ MaxInfo \in Nat \ {0}

Flag == {"serverinfo", "noset", "readonly", "user_created"}

ASSUME RegisteredAssumption ==
  /\ Registered \in Seq([name : Str, value : Str, flags : SUBSET Flag])
  /\ NumBasic \in 0..Len(Registered)
  /\ \A i, j \in 1..Len(Registered) :
       Folded[Registered[i].name] = Folded[Registered[j].name] => i = j
  /\ \A i \in (NumBasic + 1)..Len(Registered) :
       Registered[i].flags \cap {"serverinfo", "readonly"} = {}

VARIABLES
  cvars,  \* name -> string and flags of the variables there are
  info,   \* ps.info, as a sequence of keys and values
  boot    \* how many of Registered there are

vars == <<cvars, info, boot>>

initialized == boot = Len(Registered)    \* ps.initialized

(* The configuration runs when the basic variables are there; the command  *)
(* line and the console come when all of them are.                         *)
Console == boot = NumBasic \/ initialized

-----------------------------------------------------------------------------
(* Info strings.                                                           *)
Pair == [key : Str, value : Str]

With(s, k) == {i \in 1..Len(s) : s[i].key = k}

FirstWith(s, k) == CHOOSE i \in With(s, k) : \A j \in With(s, k) : i <= j

Info_ValueForKey(s, k) ==
  IF k = Empty \/ With(s, k) = {} THEN Empty ELSE s[FirstWith(s, k)].value

Info_RemoveKey(s, k) ==
  IF With(s, k) = {} THEN s ELSE RemoveAt(s, FirstWith(s, k))

(* strlen of an info string.                                               *)
Size(s) ==
  LET size[n \in 0..Len(s)] ==
        IF n = 0 THEN 0 ELSE size[n - 1] + 2 + Length[s[n].key] + Length[s[n].value]
  IN  size[Len(s)]

CanCarry(k, v) ==
  {k, v} \cap Unquotable = {} /\ Length[k] < MaxKey /\ Length[v] < MaxKey

MutSetValueForStarKey(s, k, v) ==    \* mutant: the old value goes before the new one is known to fit
  LET rest == Info_RemoveKey(s, k)
  IN  IF ~CanCarry(k, v) THEN s
      ELSE IF v = Empty \/ Size(rest) + 2 + Length[k] + Length[v] + 1 > MaxInfo THEN rest
      ELSE Append(rest, [key |-> k, value |-> Stripped[v]])

MutSetTooMuch(s, k, v) ==    \* mutant: no room is left for the end of the string
  LET rest == Info_RemoveKey(s, k)
  IN  IF ~CanCarry(k, v) THEN s
      ELSE IF v = Empty \/ Size(rest) + 2 + Length[k] + Length[v] > MaxInfo THEN rest
      ELSE Append(rest, [key |-> k, value |-> Stripped[v]])

(* A value that has no room in place of the old one leaves the old one.    *)
Info_SetValueForStarKey(s, k, v) ==
  LET old   == Info_ValueForKey(s, k)
      rest  == Info_RemoveKey(s, k)
      noroom == old # Empty /\ Length[v] - Length[old] + Size(s) + 1 > MaxInfo
  IN  IF ~CanCarry(k, v) \/ noroom THEN s
      ELSE IF v = Empty \/ Size(rest) + 2 + Length[k] + Length[v] + 1 > MaxInfo THEN rest
      ELSE Append(rest, [key |-> Stripped[k], value |-> Stripped[v]])

Info_SetValueForKey(s, k, v) ==
  IF k \in Star THEN s ELSE Info_SetValueForStarKey(s, k, v)

-----------------------------------------------------------------------------
(* Variables are found whatever the case of the name.                      *)
MutKnown(n) == n \in DOMAIN cvars    \* mutant: the case is compared

Known(n) == \E m \in DOMAIN cvars : Folded[m] = Folded[n]

Cvar_Find(n) == CHOOSE m \in DOMAIN cvars : Folded[m] = Folded[n]

(* The variable n becomes v.                                               *)
Put(n, v, flags) ==
  /\ cvars' = [m \in DOMAIN cvars \cup {n} |->
                 IF m = n THEN [string |-> v, flags |-> flags] ELSE cvars[m]]
  /\ info' = IF "serverinfo" \in flags /\ v # Info_ValueForKey(info, n)
             THEN Info_SetValueForStarKey(info, n, v)
             ELSE info

MutWriteProtected(m) == "readonly" \in cvars[m].flags    \* mutant: noset is forgotten

WriteProtected(m) ==
  "readonly" \in cvars[m].flags \/ ("noset" \in cvars[m].flags /\ initialized)

Cvar_Set(n, v) ==
  LET m == Cvar_Find(n)
  IN  IF WriteProtected(m) THEN UNCHANGED <<cvars, info>>
      ELSE Put(m, v, cvars[m].flags)

(* A variable that the configuration has set keeps its value.              *)
Cvar_Get(n, v, flags) ==
  IF ~Known(n) \/ "readonly" \in flags
  THEN Put(IF Known(n) THEN Cvar_Find(n) ELSE n, v, flags)
  ELSE /\ cvars' = [cvars EXCEPT ![Cvar_Find(n)].flags = (@ \cup flags) \ {"user_created"}]
       /\ UNCHANGED info

Cvar_FullSet(n, v, flags) == Put(IF Known(n) THEN Cvar_Find(n) ELSE n, v, flags)

(* The next variable of the program; what the command line says of a noset *)
(* one goes before the configuration.                                      *)
Register ==
  /\ ~initialized
  /\ LET r == Registered[boot + 1]
     IN  \/ Cvar_Get(r.name, r.value, r.flags)
         \/ /\ "noset" \in r.flags
            /\ \E p \in Params \ {Empty} : Cvar_FullSet(r.name, p, r.flags)
  /\ boot' = boot + 1

Cvar_Set_f(n, v) ==
  /\ Console
  /\ IF Known(n) THEN Cvar_Set(n, v) ELSE Put(n, v, {"user_created"})
  /\ UNCHANGED boot

(* "name value" on the console.                                            *)
Cvar_Command(n, v) ==
  /\ Console
  /\ Known(n)
  /\ Cvar_Set(n, v)
  /\ UNCHANGED boot

Cvar_Toggle_f(n) ==
  /\ Console
  /\ Known(n)
  /\ Cvar_Set(n, IF cvars[Cvar_Find(n)].string \in Number THEN Zero ELSE One)
  /\ UNCHANGED boot

(* The sum is some number.                                                 *)
Cvar_Inc_f(n) ==
  /\ Console
  /\ Known(n)
  /\ \E sum \in Number \cup {Zero} : Cvar_Set(n, sum)
  /\ UNCHANGED boot

MutServerinfo_f(k, v) ==    \* mutant: the variable is not looked up
  /\ Console
  /\ info' = Info_SetValueForKey(info, k, v)
  /\ UNCHANGED <<cvars, boot>>

SV_Serverinfo_f(k, v) ==
  /\ Console
  /\ k \notin Star
  /\ IF Known(k) /\ "serverinfo" \in cvars[Cvar_Find(k)].flags
     THEN Cvar_Set(k, v)
     ELSE info' = Info_SetValueForKey(info, k, v) /\ UNCHANGED cvars
  /\ UNCHANGED boot

Init == cvars = <<>> /\ info = <<>> /\ boot = 0

Next ==
  \/ Register
  \/ \E n \in Names, v \in Values :
       Cvar_Set_f(n, v) \/ Cvar_Command(n, v) \/ SV_Serverinfo_f(n, v)
  \/ \E n \in Names : Cvar_Toggle_f(n) \/ Cvar_Inc_f(n)

Spec == Init /\ [][Next]_vars

-----------------------------------------------------------------------------
Mirrors(n) == "serverinfo" \in cvars[n].flags

(* There is one variable of each name.                                     *)
TypeOK ==
  /\ DOMAIN cvars \subseteq Str
  /\ \A n \in DOMAIN cvars : cvars[n] \in [string : Str, flags : SUBSET Flag]
  /\ \A m, n \in DOMAIN cvars : Folded[m] = Folded[n] => m = n
  /\ info \in Seq(Pair)
  /\ boot \in 0..Len(Registered)

(* A status answer has each key once, and the key of a mirrored variable   *)
(* only as the variable is written: serverinfo HOSTNAME must not put a     *)
(* second host name next to the variable's (main.c:80).  This takes keys   *)
(* without control characters: Info_SetValueForStarKeyEx removes the key   *)
(* as it is given and appends it without them.                             *)
KeysUnique ==
  /\ \A i, j \in 1..Len(info) : info[i].key = info[j].key => i = j
  /\ \A i \in 1..Len(info), n \in DOMAIN cvars :
       Mirrors(n) /\ Folded[info[i].key] = Folded[n] => info[i].key = n

(* The info string and its end fit into ps.info, whatever is set and reset.*)
InfoFits == Size(info) + 1 <= MaxInfo

(* A mirrored variable and the info string change together, unless the new *)
(* value cannot stand there or has no room: then the info string says what *)
(* it said of every key, this one included.                                *)
ChangesMirrored ==
  [][\A n \in DOMAIN cvars \cap DOMAIN cvars' :
       Mirrors(n) /\ cvars'[n].string # cvars[n].string =>
         \/ Info_ValueForKey(info', n) = Stripped[cvars'[n].string]
         \/ /\ \A k \in Str : Info_ValueForKey(info', k) = Info_ValueForKey(info, k)
            /\ \/ ~CanCarry(n, cvars'[n].string)
               \/ Size(Info_RemoveKey(info, n)) + 2 + Length[n]
                    + Length[cvars'[n].string] + 1 > MaxInfo]_vars

(* What the user may not change stays: a readonly variable from its start, *)
(* a noset variable once the program runs, and a star key of the info      *)
(* string, through every command that leads to one.                        *)
Protected ==
  [][/\ \A n \in DOMAIN cvars :
          "readonly" \in cvars[n].flags \/ ("noset" \in cvars[n].flags /\ initialized) =>
            n \in DOMAIN cvars' /\ cvars'[n].string = cvars[n].string
     /\ \A k \in Star :
          Info_ValueForKey(info, k) # Empty =>
            Info_ValueForKey(info', k) = Info_ValueForKey(info, k)]_vars
=============================================================================
