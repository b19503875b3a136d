-------------------------- MODULE ServerinfoProofs --------------------------
(***************************************************************************)
(* Proofs about Serverinfo, for any strings, variables and sizes: the info *)
(* string has each key once, and what is protected stays.                  *)
(***************************************************************************)
EXTENDS Serverinfo, ListProofs

(* Names have no control characters.  Of the variables of the program, the *)
(* mirrored ones whose names begin with a star are readonly.               *)
PlainNames ==
  /\ \A n \in Names : Stripped[n] = n
  /\ \A i \in 1..Len(Registered) : Stripped[Registered[i].name] = Registered[i].name

StarsReadonly ==
  \A i \in 1..Len(Registered) :
    Registered[i].name \in Star /\ "serverinfo" \in Registered[i].flags =>
      "readonly" \in Registered[i].flags

IsRegistered(n) == \E i \in 1..boot : Folded[Registered[i].name] = Folded[n]

(* While the program registers its first variables, the info string has    *)
(* nothing but theirs; later only they are mirrored or readonly.           *)
IInv ==
  /\ TypeOK
  /\ KeysUnique
  /\ \A n \in DOMAIN cvars :
       /\ Stripped[n] = n
       /\ cvars[n].flags \cap {"serverinfo", "readonly"} # {} => IsRegistered(n)
       /\ n \in Star /\ Mirrors(n) => "readonly" \in cvars[n].flags
  /\ boot < NumBasic =>
       /\ \A n \in DOMAIN cvars : IsRegistered(n)
       /\ \A i \in 1..Len(info) : info[i].key \in DOMAIN cvars

-----------------------------------------------------------------------------
(* Info strings with each key once.                                        *)
Once(s) == \A i, j \in 1..Len(s) : s[i].key = s[j].key => i = j

LEMMA FirstIsOne ==
  ASSUME NEW s \in Seq(Pair), NEW k, With(s, k) # {}, Once(s)
  PROVE  /\ FirstWith(s, k) \in 1..Len(s)
         /\ s[FirstWith(s, k)].key = k
<1>1. PICK i \in 1..Len(s) : s[i].key = k
  BY DEF With
<1>2. With(s, k) = {i}
  BY <1>1 DEF With, Once
<1>3. \E f \in With(s, k) : \A j \in With(s, k) : f <= j
  BY <1>1, <1>2
<1>4. FirstWith(s, k) \in With(s, k)
  BY <1>3 DEF FirstWith
<1>5. QED
  BY <1>4 DEF With

(* What an info string says of a key.                                      *)
LEMMA ValueIs ==
  ASSUME NEW s \in Seq(Pair), Once(s), NEW k, k # Empty
  PROVE  /\ \A i \in 1..Len(s) : s[i].key = k => Info_ValueForKey(s, k) = s[i].value
         /\ (\A i \in 1..Len(s) : s[i].key # k) => Info_ValueForKey(s, k) = Empty
<1>1. ASSUME NEW i \in 1..Len(s), s[i].key = k
      PROVE  Info_ValueForKey(s, k) = s[i].value
  <2>1. With(s, k) # {}
    BY <1>1 DEF With
  <2>2. FirstWith(s, k) = i
    BY <1>1, <2>1, FirstIsOne DEF Once
  <2>3. QED
    BY <2>1, <2>2 DEF Info_ValueForKey
<1>2. ASSUME \A i \in 1..Len(s) : s[i].key # k
      PROVE  Info_ValueForKey(s, k) = Empty
  BY <1>2 DEF Info_ValueForKey, With
<1>3. QED
  BY <1>1, <1>2

(* Strings with the same pairs say the same.                               *)
LEMMA SameValue ==
  ASSUME NEW s \in Seq(Pair), NEW t \in Seq(Pair), Once(s), Once(t), NEW k,
         \A i \in 1..Len(s) : s[i].key = k => \E j \in 1..Len(t) : t[j] = s[i],
         \A j \in 1..Len(t) : t[j].key = k => \E i \in 1..Len(s) : s[i] = t[j]
  PROVE  Info_ValueForKey(t, k) = Info_ValueForKey(s, k)
<1>1. CASE k = Empty
  BY <1>1 DEF Info_ValueForKey
<1>2. CASE k # Empty /\ \E i \in 1..Len(s) : s[i].key = k
  <2>1. PICK i \in 1..Len(s) : s[i].key = k
    BY <1>2
  <2>2. PICK j \in 1..Len(t) : t[j] = s[i]
    BY <2>1
  <2>3. Info_ValueForKey(s, k) = s[i].value
    BY <1>2, <2>1, ValueIs
  <2>4. Info_ValueForKey(t, k) = t[j].value
    BY <1>2, <2>1, <2>2, ValueIs
  <2>5. QED
    BY <2>2, <2>3, <2>4
<1>3. CASE k # Empty /\ ~\E i \in 1..Len(s) : s[i].key = k
  <2>1. \A j \in 1..Len(t) : t[j].key # k
    BY <1>3
  <2>2. QED
    BY <1>3, <2>1, ValueIs
<1>4. QED
  BY <1>1, <1>2, <1>3

LEMMA RemoveFacts ==
  ASSUME NEW s \in Seq(Pair), NEW f \in 1..Len(s)
  PROVE  /\ RemoveAt(s, f) \in Seq(Pair)
         /\ Len(RemoveAt(s, f)) = Len(s) - 1
         /\ \A i \in 1..(Len(s) - 1) : RemoveAt(s, f)[i] = s[IF i < f THEN i ELSE i + 1]
<1> DEFINE t == RemoveAt(s, f)
<1>1. /\ t \in Seq(Pair) /\ Len(t) = Len(s) - 1
      /\ \A i \in 1..(f - 1) : t[i] = s[i]
      /\ \A i \in f..(Len(s) - 1) : t[i] = s[i + 1]
  BY RemoveAtElements
<1>2. \A i \in 1..(Len(s) - 1) : IF i < f THEN i \in 1..(f - 1) ELSE i \in f..(Len(s) - 1)
  OBVIOUS
<1> HIDE DEF t
<1>3. QED
  BY <1>1, <1>2 DEF t

(* Without its key an info string has the other pairs.                     *)
LEMMA RestFacts ==
  ASSUME NEW s \in Seq(Pair), NEW k, Once(s)
  PROVE  /\ Info_RemoveKey(s, k) \in Seq(Pair)
         /\ Once(Info_RemoveKey(s, k))
         /\ \A j \in 1..Len(Info_RemoveKey(s, k)) :
              /\ Info_RemoveKey(s, k)[j].key # k
              /\ \E i \in 1..Len(s) : s[i] = Info_RemoveKey(s, k)[j]
         /\ \A i \in 1..Len(s) :
              s[i].key # k =>
                \E j \in 1..Len(Info_RemoveKey(s, k)) : Info_RemoveKey(s, k)[j] = s[i]
<1>1. CASE With(s, k) = {}
  BY <1>1 DEF Info_RemoveKey, With
<1>2. CASE With(s, k) # {}
  <2>1. PICK f \in 1..Len(s) : f = FirstWith(s, k) /\ s[f].key = k
    BY <1>2, FirstIsOne
  <2>2. PICK rest \in Seq(Pair) :
          /\ rest = Info_RemoveKey(s, k)
          /\ Len(rest) = Len(s) - 1
          /\ \A i \in 1..(Len(s) - 1) : rest[i] = s[IF i < f THEN i ELSE i + 1]
    BY <1>2, <2>1, RemoveFacts DEF Info_RemoveKey
  <2>3. Len(s) \in Nat /\ f \in Nat /\ 1 <= f /\ f <= Len(s)
    OBVIOUS
  <2>4. \A i \in 1..Len(s) : s[i].key = k => i = f
    BY <2>1 DEF Once
  <2> DEFINE at(j) == IF j < f THEN j ELSE j + 1
  <2>5. \A j \in 1..Len(rest) : at(j) \in 1..Len(s) /\ at(j) # f /\ rest[j] = s[at(j)]
    BY <2>2, <2>3
  <2>6. \A i, j \in 1..Len(rest) : at(i) = at(j) => i = j
    BY <2>2, <2>3
  <2>7. \A i \in 1..Len(s) : i # f => \E j \in 1..Len(rest) : at(j) = i
    <3>1. ASSUME NEW i \in 1..Len(s), i # f
          PROVE  \E j \in 1..Len(rest) : at(j) = i
      <4>1. CASE i < f
        <5>1. i \in 1..Len(rest) /\ at(i) = i
          BY <2>2, <2>3, <4>1
        <5>2. QED
          BY <5>1
      <4>2. CASE i > f
        <5>1. i - 1 \in 1..Len(rest) /\ at(i - 1) = i
          BY <2>2, <2>3, <4>2
        <5>2. QED
          BY <5>1
      <4>3. QED
        BY <2>3, <3>1, <4>1, <4>2
    <3>2. QED
      BY <3>1
  <2> HIDE DEF at
  <2>8. Once(rest)
    <3>1. ASSUME NEW i \in 1..Len(rest), NEW j \in 1..Len(rest), rest[i].key = rest[j].key
          PROVE  i = j
      <4>1. at(i) = at(j)
        BY <2>5, <3>1 DEF Once
      <4>2. QED
        BY <2>6, <4>1
    <3>2. QED
      BY <3>1 DEF Once
  <2>9. \A j \in 1..Len(rest) : rest[j].key # k /\ \E i \in 1..Len(s) : s[i] = rest[j]
    BY <2>4, <2>5
  <2>10. \A i \in 1..Len(s) : s[i].key # k => \E j \in 1..Len(rest) : rest[j] = s[i]
    BY <2>1, <2>5, <2>7
  <2>11. QED
    BY <2>2, <2>8, <2>9, <2>10
<1>3. QED
  BY <1>1, <1>2

(* Setting a key leaves each key once and every other key as it was.       *)
LEMMA SetFacts ==
  ASSUME NEW s \in Seq(Pair), NEW k \in Str, NEW v \in Str, Once(s), Stripped[k] = k
  PROVE  /\ Info_SetValueForStarKey(s, k, v) \in Seq(Pair)
         /\ Once(Info_SetValueForStarKey(s, k, v))
         /\ \A j \in 1..Len(Info_SetValueForStarKey(s, k, v)) :
              \/ Info_SetValueForStarKey(s, k, v)[j].key = k
              \/ \E i \in 1..Len(s) : s[i] = Info_SetValueForStarKey(s, k, v)[j]
         /\ \A x : x # k =>
              Info_ValueForKey(Info_SetValueForStarKey(s, k, v), x) = Info_ValueForKey(s, x)
<1>1. PICK rest \in Seq(Pair) :
        /\ rest = Info_RemoveKey(s, k)
        /\ Once(rest)
        /\ \A j \in 1..Len(rest) : rest[j].key # k /\ \E i \in 1..Len(s) : s[i] = rest[j]
        /\ \A i \in 1..Len(s) :
             s[i].key # k => \E j \in 1..Len(rest) : rest[j] = s[i]
  BY RestFacts
<1>2. PICK new \in Pair : new = [key |-> k, value |-> Stripped[v]] /\ new.key = k
  <2>1. Stripped[v] \in Str
    BY StringAssumption
  <2>2. [key |-> k, value |-> Stripped[v]] \in Pair
    BY <2>1 DEF Pair
  <2>3. QED
    BY <2>2
<1>3. Info_SetValueForStarKey(s, k, v) \in {s, rest, Append(rest, new)}
  BY <1>1, <1>2 DEF Info_SetValueForStarKey
<1>4. /\ Append(rest, new) \in Seq(Pair)
      /\ Len(Append(rest, new)) = Len(rest) + 1
      /\ \A i \in 1..Len(rest) : Append(rest, new)[i] = rest[i]
      /\ Append(rest, new)[Len(rest) + 1] = new
  BY <1>2, AppendProperties
<1>5. \A i \in 1..Len(Append(rest, new)) : i \in 1..Len(rest) \/ i = Len(rest) + 1
  BY <1>4
<1>6. Once(Append(rest, new))
  BY <1>1, <1>2, <1>4, <1>5 DEF Once
<1>7. \A j \in 1..Len(Append(rest, new)) :
        \/ Append(rest, new)[j].key = k
        \/ \E i \in 1..Len(s) : s[i] = Append(rest, new)[j]
  BY <1>1, <1>2, <1>4, <1>5
<1>8. ASSUME NEW x, x # k
      PROVE  /\ Info_ValueForKey(rest, x) = Info_ValueForKey(s, x)
             /\ Info_ValueForKey(Append(rest, new), x) = Info_ValueForKey(s, x)
  <2>1. \A i \in 1..Len(s) : s[i].key = x => \E j \in 1..Len(rest) : rest[j] = s[i]
    BY <1>1, <1>8
  <2>2. \A j \in 1..Len(rest) : rest[j].key = x => \E i \in 1..Len(s) : s[i] = rest[j]
    BY <1>1
  <2>3. Info_ValueForKey(rest, x) = Info_ValueForKey(s, x)
    <3>1. Once(rest)
      BY <1>1
    <3>2. QED
      BY <2>1, <2>2, <3>1, SameValue
  <2>4. \A i \in 1..Len(s) : s[i].key = x =>
          \E j \in 1..Len(Append(rest, new)) : Append(rest, new)[j] = s[i]
    <3>1. \A j \in 1..Len(rest) : j \in 1..Len(Append(rest, new))
      BY <1>4
    <3>2. QED
      BY <1>4, <2>1, <3>1
  <2>5. \A j \in 1..Len(Append(rest, new)) : Append(rest, new)[j].key = x =>
          \E i \in 1..Len(s) : s[i] = Append(rest, new)[j]
    BY <1>7, <1>8
  <2>6. Info_ValueForKey(Append(rest, new), x) = Info_ValueForKey(s, x)
    BY <1>4, <1>6, <2>4, <2>5, SameValue
  <2>7. QED
    BY <2>3, <2>6
<1>9. CASE Info_SetValueForStarKey(s, k, v) = s
  BY <1>9
<1>10. CASE Info_SetValueForStarKey(s, k, v) = rest
  BY <1>1, <1>8, <1>10
<1>11. CASE Info_SetValueForStarKey(s, k, v) = Append(rest, new)
  BY <1>4, <1>6, <1>7, <1>8, <1>11
<1>12. QED
  BY <1>3, <1>9, <1>10, <1>11

-----------------------------------------------------------------------------
(* Variables.                                                              *)
LEMMA FindFacts ==
  ASSUME TypeOK, NEW n, Known(n)
  PROVE  /\ Cvar_Find(n) \in DOMAIN cvars
         /\ Folded[Cvar_Find(n)] = Folded[n]
         /\ \A m \in DOMAIN cvars : Folded[m] = Folded[n] => m = Cvar_Find(n)
BY DEF TypeOK, Known, Cvar_Find

(* What must hold of a variable that is given a value and flags.           *)
MayPut(m, v, flags) ==
  /\ m \in Str /\ v \in Str /\ flags \in SUBSET Flag /\ Stripped[m] = m
  /\ m \in DOMAIN cvars \/ ~Known(m)
  /\ boot' \in 0..Len(Registered) /\ boot <= boot'
  /\ flags \cap {"serverinfo", "readonly"} # {} => IsRegistered(m)'
  /\ m \in Star /\ "serverinfo" \in flags => "readonly" \in flags
  /\ boot' < NumBasic => IsRegistered(m)'
  /\ "serverinfo" \in flags =>
       \/ m \in DOMAIN cvars /\ Mirrors(m)
       \/ \A i \in 1..Len(info) : Folded[info[i].key] # Folded[m]

LEMMA StillRegistered ==
  ASSUME boot \in Nat, boot' \in Nat, boot <= boot', NEW n, IsRegistered(n)
  PROVE  IsRegistered(n)'
BY DEF IsRegistered

LEMMA PutStep ==
  ASSUME IInv, NEW m, NEW v, NEW flags, Put(m, v, flags), MayPut(m, v, flags)
  PROVE  /\ IInv'
         /\ m \in DOMAIN cvars'
         /\ \A n \in DOMAIN cvars : n # m => n \in DOMAIN cvars' /\ cvars'[n] = cvars[n]
         /\ \A x : x # m => Info_ValueForKey(info', x) = Info_ValueForKey(info, x)
         /\ "serverinfo" \notin flags => info' = info
<1>1. /\ TypeOK /\ KeysUnique /\ boot \in Nat /\ boot' \in Nat /\ boot <= boot'
      /\ NumBasic \in Nat /\ info \in Seq(Pair) /\ Once(info)
      /\ m \in Str /\ v \in Str /\ flags \in SUBSET Flag /\ Stripped[m] = m
  BY RegisteredAssumption DEF IInv, TypeOK, MayPut, KeysUnique, Once
<1>2. /\ DOMAIN cvars' = DOMAIN cvars \cup {m}
      /\ cvars'[m] = [string |-> v, flags |-> flags]
      /\ \A n \in DOMAIN cvars : n # m => cvars'[n] = cvars[n]
  BY DEF Put
<1>3. cvars'[m].flags = flags /\ cvars'[m] \in [string : Str, flags : SUBSET Flag]
  BY <1>1, <1>2
<1>4. "serverinfo" \notin flags => info' = info
  BY DEF Put
<1>5. /\ info' \in Seq(Pair) /\ Once(info')
      /\ \A j \in 1..Len(info') :
           \/ info'[j].key = m /\ "serverinfo" \in flags
           \/ \E i \in 1..Len(info) : info[i] = info'[j]
      /\ \A x : x # m => Info_ValueForKey(info', x) = Info_ValueForKey(info, x)
  <2>1. CASE info' = info
    BY <1>1, <2>1
  <2>2. CASE "serverinfo" \in flags /\ info' = Info_SetValueForStarKey(info, m, v)
    <3>1. PICK t \in Seq(Pair) :
            /\ t = Info_SetValueForStarKey(info, m, v) /\ Once(t)
            /\ \A j \in 1..Len(t) : t[j].key = m \/ \E i \in 1..Len(info) : info[i] = t[j]
            /\ \A x : x # m => Info_ValueForKey(t, x) = Info_ValueForKey(info, x)
      <4> DEFINE u == Info_SetValueForStarKey(info, m, v)
      <4>1. /\ u \in Seq(Pair)
            /\ Once(u)
            /\ \A j \in 1..Len(u) : \/ u[j].key = m
                                    \/ \E i \in 1..Len(info) : info[i] = u[j]
            /\ \A x : x # m => Info_ValueForKey(u, x) = Info_ValueForKey(info, x)
        BY <1>1, SetFacts
      <4>2. u = Info_SetValueForStarKey(info, m, v)
        OBVIOUS
      <4> HIDE DEF u
      <4>3. QED
        BY <4>1, <4>2
    <3>2. QED
      BY <2>2, <3>1
  <2>3. QED
    BY <2>1, <2>2 DEF Put
<1>6. TypeOK'
  <2>1. DOMAIN cvars' \subseteq Str
    BY <1>1, <1>2 DEF TypeOK
  <2>2. \A n \in DOMAIN cvars' : cvars'[n] \in [string : Str, flags : SUBSET Flag]
    BY <1>1, <1>2, <1>3 DEF TypeOK
  <2>3. \A a, b \in DOMAIN cvars' : Folded[a] = Folded[b] => a = b
    BY <1>1, <1>2 DEF TypeOK, MayPut, Known
  <2>4. boot' \in 0..Len(Registered)
    BY DEF MayPut
  <2>5. QED
    BY <1>5, <2>1, <2>2, <2>3, <2>4 DEF TypeOK
<1>7. ASSUME NEW n \in DOMAIN cvars', Mirrors(n)'
      PROVE  \/ n = m /\ "serverinfo" \in flags
             \/ n # m /\ n \in DOMAIN cvars /\ Mirrors(n)
  <2>1. "serverinfo" \in cvars'[n].flags
    BY <1>7 DEF Mirrors
  <2>2. CASE n = m
    BY <1>3, <2>1, <2>2
  <2>3. CASE n # m
    BY <1>2, <2>1, <2>3 DEF Mirrors
  <2>4. QED
    BY <2>2, <2>3
<1>8. KeysUnique'
  <2>1. ASSUME NEW j \in 1..Len(info'), NEW n \in DOMAIN cvars',
               Mirrors(n)', Folded[info'[j].key] = Folded[n]
        PROVE  info'[j].key = n
    <3>1. CASE info'[j].key = m
      BY <1>2, <1>6, <2>1, <3>1 DEF TypeOK
    <3>2. CASE \E i \in 1..Len(info) : info[i] = info'[j]
      <4>1. PICK i \in 1..Len(info) : info[i] = info'[j]
        BY <3>2
      <4>2. CASE n \in DOMAIN cvars /\ Mirrors(n)
        BY <1>1, <2>1, <4>1, <4>2 DEF KeysUnique
      <4>3. CASE n = m /\ "serverinfo" \in flags /\ ~(m \in DOMAIN cvars /\ Mirrors(m))
        BY <2>1, <4>1, <4>3 DEF MayPut
      <4>4. QED
        BY <1>7, <2>1, <4>2, <4>3
    <3>3. QED
      BY <1>5, <3>1, <3>2
  <2>2. QED
    BY <1>5, <2>1 DEF KeysUnique, Once
<1>9. ASSUME NEW n \in DOMAIN cvars'
      PROVE  /\ Stripped[n] = n
             /\ cvars'[n].flags \cap {"serverinfo", "readonly"} # {} => IsRegistered(n)'
             /\ n \in Star /\ Mirrors(n)' => "readonly" \in cvars'[n].flags
  <2>1. CASE n = m
    BY <1>1, <1>3, <2>1 DEF MayPut, Mirrors
  <2>2. CASE n # m
    <3>1. n \in DOMAIN cvars /\ cvars'[n] = cvars[n]
      BY <1>2, <2>2
    <3>2. IsRegistered(n) => IsRegistered(n)'
      BY <1>1, StillRegistered
    <3>3. QED
      BY <3>1, <3>2 DEF IInv, Mirrors
  <2>3. QED
    BY <2>1, <2>2
<1>10. ASSUME boot' < NumBasic
       PROVE  /\ \A n \in DOMAIN cvars' : IsRegistered(n)'
              /\ \A j \in 1..Len(info') : info'[j].key \in DOMAIN cvars'
  <2>1. boot < NumBasic
    BY <1>1, <1>10
  <2>2. \A n \in DOMAIN cvars : IsRegistered(n)'
    BY <1>1, <2>1, StillRegistered DEF IInv
  <2>3. IsRegistered(m)'
    BY <1>10 DEF MayPut
  <2>4. \A i \in 1..Len(info) : info[i].key \in DOMAIN cvars
    BY <2>1 DEF IInv
  <2>5. QED
    BY <1>2, <1>5, <2>2, <2>3, <2>4
<1>11. IInv'
  BY <1>6, <1>8, <1>9, <1>10 DEF IInv
<1>12. QED
  BY <1>2, <1>4, <1>5, <1>11

-----------------------------------------------------------------------------
(* What a step leaves of what is protected.                                *)
Untouchable(n) ==
  "readonly" \in cvars[n].flags \/ ("noset" \in cvars[n].flags /\ initialized)

Leaves ==
  /\ \A n \in DOMAIN cvars :
       Untouchable(n) => n \in DOMAIN cvars' /\ cvars'[n].string = cvars[n].string
  /\ \A k \in Star :
       Info_ValueForKey(info, k) # Empty =>
         Info_ValueForKey(info', k) = Info_ValueForKey(info, k)

LEMMA NothingHappens ==
  ASSUME IInv, UNCHANGED <<cvars, info>>, boot' = boot
  PROVE  IInv' /\ Leaves
BY DEF IInv, TypeOK, KeysUnique, Mirrors, IsRegistered, Leaves

LEMMA ConsoleTime ==
  ASSUME IInv, Console
  PROVE  ~(boot < NumBasic)
BY RegisteredAssumption DEF IInv, TypeOK, Console, initialized

(* A variable that may be set is set.                                      *)
LEMMA SetStep ==
  ASSUME IInv, Console, NEW n, Known(n), NEW v \in Str, Cvar_Set(n, v), boot' = boot
  PROVE  IInv' /\ Leaves
<1>a. PICK m \in DOMAIN cvars : m = Cvar_Find(n)
  BY FindFacts DEF IInv
<1>b. PICK flags : flags = cvars[m].flags
  OBVIOUS
<1>1. CASE WriteProtected(m)
  BY <1>a, <1>1, NothingHappens DEF Cvar_Set
<1>2. CASE ~WriteProtected(m)
  <2>1. m \in DOMAIN cvars /\ TypeOK
    BY DEF IInv
  <2>2. Put(m, v, flags)
    BY <1>a, <1>b, <1>2 DEF Cvar_Set
  <2>3. ~Untouchable(m) /\ "readonly" \notin flags
    BY <1>b, <1>2 DEF WriteProtected, Untouchable
  <2>4. MayPut(m, v, flags)
    <3>1. m \in Str /\ flags \in SUBSET Flag /\ boot \in 0..Len(Registered)
      BY <1>b, <2>1 DEF TypeOK
    <3>2. /\ Stripped[m] = m
          /\ flags \cap {"serverinfo", "readonly"} # {} => IsRegistered(m)
          /\ m \in Star /\ Mirrors(m) => "readonly" \in flags
      BY <1>b, <2>1 DEF IInv
    <3>3. IsRegistered(m) => IsRegistered(m)'
      BY DEF IsRegistered
    <3>4. ~(boot' < NumBasic)
      BY ConsoleTime
    <3>5. boot <= boot' /\ boot' \in 0..Len(Registered)
      BY <3>1
    <3>6. "serverinfo" \in flags => Mirrors(m)
      BY <1>b DEF Mirrors
    <3>7. QED
      BY <2>1, <3>1, <3>2, <3>3, <3>4, <3>5, <3>6 DEF MayPut
  <2>5. /\ IInv'
        /\ \A x \in DOMAIN cvars : x # m => x \in DOMAIN cvars' /\ cvars'[x] = cvars[x]
        /\ \A x : x # m => Info_ValueForKey(info', x) = Info_ValueForKey(info, x)
        /\ "serverinfo" \notin flags => info' = info
    BY <2>2, <2>4, PutStep
  <2>6. m \in Star => "serverinfo" \notin flags
    BY <1>b, <2>1, <2>3 DEF IInv, Mirrors
  <2>7. Leaves
    BY <2>3, <2>5, <2>6 DEF Leaves
  <2>8. QED
    BY <2>5, <2>7
<1>3. QED
  BY <1>1, <1>2

(* The command set makes variables the user has named.                     *)
LEMMA CreateStep ==
  ASSUME IInv, PlainNames, Console, NEW n \in Names, ~Known(n), NEW v \in Str,
         Put(n, v, {"user_created"}), boot' = boot
  PROVE  IInv' /\ Leaves
<1> DEFINE flags == {"user_created"}
<1>1. n \notin DOMAIN cvars /\ n \in Str /\ Stripped[n] = n
  BY StringAssumption DEF Known, PlainNames
<1>2. MayPut(n, v, flags)
  <2>1. flags \in SUBSET Flag /\ "serverinfo" \notin flags /\ "readonly" \notin flags
    BY DEF Flag
  <2>2. boot \in Int /\ boot' \in 0..Len(Registered)
    BY DEF IInv, TypeOK
  <2>3. ~(boot' < NumBasic)
    BY ConsoleTime
  <2>4. boot <= boot'
    BY <2>2
  <2>5. QED
    BY <1>1, <2>1, <2>2, <2>3, <2>4 DEF MayPut
<1>3. /\ IInv'
      /\ \A x \in DOMAIN cvars : x # n => x \in DOMAIN cvars' /\ cvars'[x] = cvars[x]
      /\ "serverinfo" \notin flags => info' = info
  BY <1>2, PutStep
<1>4. Leaves
  BY <1>1, <1>3 DEF Leaves
<1>5. QED
  BY <1>3, <1>4

(* A key that is no mirrored variable's goes straight to the info string.  *)
LEMMA KeyStep ==
  ASSUME IInv, PlainNames, Console, NEW k \in Names, k \notin Star, NEW v \in Str,
         ~(Known(k) /\ "serverinfo" \in cvars[Cvar_Find(k)].flags),
         info' = Info_SetValueForKey(info, k, v), cvars' = cvars, boot' = boot
  PROVE  IInv' /\ Leaves
<1>1. TypeOK /\ KeysUnique /\ info \in Seq(Pair) /\ Once(info) /\ k \in Str /\ Stripped[k] = k
  BY StringAssumption DEF IInv, TypeOK, KeysUnique, Once, PlainNames
<1>2. PICK t \in Seq(Pair) :
        /\ t = Info_SetValueForStarKey(info, k, v) /\ Once(t)
        /\ \A j \in 1..Len(t) : t[j].key = k \/ \E i \in 1..Len(info) : info[i] = t[j]
        /\ \A x : x # k => Info_ValueForKey(t, x) = Info_ValueForKey(info, x)
  <2> DEFINE u == Info_SetValueForStarKey(info, k, v)
  <2>1. info \in Seq(Pair) /\ Once(info) /\ k \in Str /\ v \in Str /\ Stripped[k] = k
    BY <1>1
  <2>2. /\ u \in Seq(Pair)
        /\ Once(u)
        /\ \A j \in 1..Len(u) : \/ u[j].key = k
                                \/ \E i \in 1..Len(info) : info[i] = u[j]
        /\ \A x : x # k => Info_ValueForKey(u, x) = Info_ValueForKey(info, x)
    BY <2>1, SetFacts
  <2>3. u = Info_SetValueForStarKey(info, k, v)
    OBVIOUS
  <2> HIDE DEF u
  <2>4. QED
    BY <2>2, <2>3
<1>3. info' = t
  BY <1>2 DEF Info_SetValueForKey
<1>4. TypeOK'
  BY <1>1, <1>2, <1>3 DEF TypeOK
<1>5. \A n \in DOMAIN cvars : Mirrors(n) => Folded[n] # Folded[k]
  <2>1. ASSUME NEW n \in DOMAIN cvars, Mirrors(n), Folded[n] = Folded[k]
        PROVE  FALSE
    <3>1. Known(k)
      BY <2>1 DEF Known
    <3>2. n = Cvar_Find(k)
      BY <1>1, <2>1, <3>1, FindFacts
    <3>3. QED
      BY <2>1, <3>1, <3>2 DEF Mirrors
  <2>2. QED
    BY <2>1
<1>6. KeysUnique'
  <2>1. ASSUME NEW j \in 1..Len(t), NEW n \in DOMAIN cvars, Mirrors(n),
               Folded[t[j].key] = Folded[n]
        PROVE  t[j].key = n
    <3>1. t[j].key # k
      BY <1>5, <2>1
    <3>2. PICK i \in 1..Len(info) : info[i] = t[j]
      BY <1>2, <3>1
    <3>3. QED
      BY <1>1, <2>1, <3>2 DEF KeysUnique
  <2>2. \A n : Mirrors(n)' <=> Mirrors(n)
    BY DEF Mirrors
  <2>3. QED
    BY <1>2, <1>3, <2>1, <2>2 DEF KeysUnique, Once
<1>7. ~(boot' < NumBasic)
  BY ConsoleTime
<1>8. IInv'
  BY <1>4, <1>6, <1>7 DEF IInv, Mirrors, IsRegistered
<1>9. Leaves
  BY <1>2, <1>3 DEF Leaves
<1>10. QED
  BY <1>8, <1>9

(* Registering: a variable of the program is new, or one the user made     *)
(* that is neither mirrored nor readonly.                                  *)
LEMMA RegisterFacts ==
  ASSUME IInv, ~initialized, NEW r, r = Registered[boot + 1], boot' = boot + 1
  PROVE  /\ r \in [name : Str, value : Str, flags : SUBSET Flag]
         /\ boot + 1 \in 1..Len(Registered)
         /\ boot \in Nat
         /\ IsRegistered(r.name)'
         /\ \A n \in DOMAIN cvars :
              Folded[n] = Folded[r.name] =>
                /\ ~IsRegistered(n)
                /\ cvars[n].flags \cap {"serverinfo", "readonly"} = {}
                /\ ~(boot < NumBasic)
         /\ ~(boot < NumBasic) => r.flags \cap {"serverinfo", "readonly"} = {}
<1>1. /\ boot \in 0..Len(Registered) /\ boot # Len(Registered) /\ Len(Registered) \in Nat
      /\ NumBasic \in Nat
  BY RegisteredAssumption DEF IInv, TypeOK, initialized
<1>2. boot + 1 \in 1..Len(Registered) /\ boot \in Nat
  BY <1>1
<1>3. r \in [name : Str, value : Str, flags : SUBSET Flag]
  <2>1. Registered \in Seq([name : Str, value : Str, flags : SUBSET Flag])
    BY RegisteredAssumption
  <2>2. QED
    BY <1>2, <2>1, ElementOfSeq
<1>4. IsRegistered(r.name)'
  <2>1. boot + 1 \in 1..boot'
    BY <1>2
  <2>2. QED
    BY <2>1 DEF IsRegistered
<1>5. ASSUME NEW n \in DOMAIN cvars, Folded[n] = Folded[r.name]
      PROVE  /\ ~IsRegistered(n)
             /\ cvars[n].flags \cap {"serverinfo", "readonly"} = {}
             /\ ~(boot < NumBasic)
  <2>1. ~IsRegistered(n)
    <3>1. SUFFICES ASSUME NEW i \in 1..boot, Folded[Registered[i].name] = Folded[n]
                   PROVE  FALSE
      BY DEF IsRegistered
    <3>2. i \in 1..Len(Registered) /\ i # boot + 1
      BY <1>1
    <3>3. QED
      BY <1>2, <1>5, <3>1, <3>2, RegisteredAssumption
  <2>2. QED
    BY <2>1 DEF IInv
<1>6. ~(boot < NumBasic) => r.flags \cap {"serverinfo", "readonly"} = {}
  <2>1. ~(boot < NumBasic) => boot + 1 \in (NumBasic + 1)..Len(Registered)
    BY <1>1
  <2>2. QED
    BY <2>1, RegisteredAssumption
<1>7. QED
  BY <1>2, <1>3, <1>4, <1>5, <1>6

(* A variable of the program is put where it is or made.                   *)
LEMMA RegisterPut ==
  ASSUME IInv, PlainNames, StarsReadonly, ~initialized, boot' = boot + 1,
         NEW r, r = Registered[boot + 1], NEW m,
         IF Known(r.name) THEN m = Cvar_Find(r.name) ELSE m = r.name,
         NEW v \in Str, Put(m, v, r.flags)
  PROVE  IInv' /\ Leaves
<1>1. /\ r \in [name : Str, value : Str, flags : SUBSET Flag]
      /\ boot + 1 \in 1..Len(Registered)
      /\ boot \in Nat
      /\ IsRegistered(r.name)'
      /\ \A n \in DOMAIN cvars :
           Folded[n] = Folded[r.name] =>
             /\ ~IsRegistered(n)
             /\ cvars[n].flags \cap {"serverinfo", "readonly"} = {}
             /\ ~(boot < NumBasic)
      /\ ~(boot < NumBasic) => r.flags \cap {"serverinfo", "readonly"} = {}
  BY RegisterFacts
<1>2. /\ Folded[m] = Folded[r.name]
      /\ m \in DOMAIN cvars \/ (~Known(m) /\ m = r.name)
  BY FindFacts DEF IInv
<1>3. m \in Str /\ Stripped[m] = m
  <2>1. CASE m \in DOMAIN cvars
    BY <2>1 DEF IInv, TypeOK
  <2>2. CASE m = r.name
    BY <1>1, <2>2 DEF PlainNames
  <2>3. QED
    BY <1>2, <2>1, <2>2
<1>4. IsRegistered(m)'
  BY <1>1, <1>2 DEF IsRegistered
<1>5. m \in Star /\ "serverinfo" \in r.flags => "readonly" \in r.flags
  <2>1. CASE m = r.name
    BY <1>1, <2>1 DEF StarsReadonly
  <2>2. CASE m \in DOMAIN cvars
    BY <1>1, <1>2, <2>2
  <2>3. QED
    BY <1>2, <2>1, <2>2
<1>6. "serverinfo" \in r.flags =>
        m \notin DOMAIN cvars /\ \A i \in 1..Len(info) : Folded[info[i].key] # Folded[m]
  <2>1. ASSUME "serverinfo" \in r.flags
        PROVE  m \notin DOMAIN cvars /\ \A i \in 1..Len(info) : Folded[info[i].key] # Folded[m]
    <3>1. boot < NumBasic
      BY <1>1, <2>1
    <3>2. \A n \in DOMAIN cvars : Folded[n] # Folded[r.name]
      BY <1>1, <3>1
    <3>3. \A i \in 1..Len(info) : info[i].key \in DOMAIN cvars
      BY <3>1 DEF IInv
    <3>4. QED
      BY <1>2, <3>2, <3>3
  <2>2. QED
    BY <2>1
<1>7. MayPut(m, v, r.flags)
  <2>1. boot' \in 0..Len(Registered) /\ boot <= boot'
    BY <1>1
  <2>2. r.flags \in SUBSET Flag
    BY <1>1
  <2>3. QED
    BY <1>2, <1>3, <1>4, <1>5, <1>6, <2>1, <2>2 DEF MayPut
<1>8. /\ IInv'
      /\ \A n \in DOMAIN cvars : n # m => n \in DOMAIN cvars' /\ cvars'[n] = cvars[n]
      /\ \A x : x # m => Info_ValueForKey(info', x) = Info_ValueForKey(info, x)
      /\ "serverinfo" \notin r.flags => info' = info
  BY <1>7, PutStep
<1>9. ASSUME NEW n \in DOMAIN cvars, Untouchable(n)
      PROVE  n # m
  <2>1. "readonly" \in cvars[n].flags
    BY <1>9 DEF Untouchable
  <2>2. QED
    BY <1>1, <1>2, <2>1
<1>10. "serverinfo" \in r.flags => Info_ValueForKey(info, m) = Empty
  <2>1. info \in Seq(Pair) /\ Once(info)
    BY DEF IInv, TypeOK, KeysUnique, Once
  <2>2. CASE m = Empty
    BY <2>2 DEF Info_ValueForKey
  <2>3. CASE m # Empty
    BY <1>6, <2>1, <2>3, ValueIs
  <2>4. QED
    BY <2>2, <2>3
<1>11. Leaves
  BY <1>8, <1>9, <1>10 DEF Leaves
<1>12. QED
  BY <1>8, <1>11

(* A variable that the configuration made keeps its value.                 *)
LEMMA RegisterKnown ==
  ASSUME IInv, ~initialized, boot' = boot + 1, NEW r, r = Registered[boot + 1],
         Known(r.name), info' = info,
         cvars' = [cvars EXCEPT ![Cvar_Find(r.name)].flags =
                     (@ \cup r.flags) \ {"user_created"}]
  PROVE  IInv' /\ Leaves
<1>1. /\ r \in [name : Str, value : Str, flags : SUBSET Flag]
      /\ boot + 1 \in 1..Len(Registered)
      /\ boot \in Nat
      /\ IsRegistered(r.name)'
      /\ \A n \in DOMAIN cvars :
           Folded[n] = Folded[r.name] =>
             /\ ~IsRegistered(n)
             /\ cvars[n].flags \cap {"serverinfo", "readonly"} = {}
             /\ ~(boot < NumBasic)
      /\ ~(boot < NumBasic) => r.flags \cap {"serverinfo", "readonly"} = {}
  BY RegisterFacts
<1>2. PICK m \in DOMAIN cvars : m = Cvar_Find(r.name) /\ Folded[m] = Folded[r.name]
  BY FindFacts DEF IInv
<1>3. PICK f : f = (cvars[m].flags \cup r.flags) \ {"user_created"}
  OBVIOUS
<1>4. cvars[m] \in [string : Str, flags : SUBSET Flag]
  BY <1>2 DEF IInv, TypeOK
<1>5. /\ DOMAIN cvars' = DOMAIN cvars
      /\ \A n \in DOMAIN cvars : n # m => cvars'[n] = cvars[n]
      /\ cvars'[m] = [string |-> cvars[m].string, flags |-> f]
  BY <1>2, <1>3, <1>4
<1>6. f \in SUBSET Flag /\ f \cap {"serverinfo", "readonly"} = {}
  <2>1. r.flags \in SUBSET Flag /\ cvars[m].flags \in SUBSET Flag
    BY <1>1, <1>4
  <2>2. r.flags \cap {"serverinfo", "readonly"} = {}
    BY <1>1, <1>2
  <2>3. cvars[m].flags \cap {"serverinfo", "readonly"} = {}
    BY <1>1, <1>2
  <2>4. QED
    BY <1>3, <2>1, <2>2, <2>3
<1>7. \A n \in DOMAIN cvars :
        /\ Mirrors(n)' => Mirrors(n)
        /\ cvars'[n].string = cvars[n].string
  <2>1. ASSUME NEW n \in DOMAIN cvars
        PROVE  /\ "serverinfo" \in cvars'[n].flags => "serverinfo" \in cvars[n].flags
               /\ cvars'[n].string = cvars[n].string
    <3>1. CASE n = m
      <4>1. cvars'[n].flags = f /\ cvars'[n].string = cvars[n].string
        BY <1>5, <3>1
      <4>2. QED
        BY <1>6, <4>1
    <3>2. CASE n # m
      BY <1>5, <3>2
    <3>3. QED
      BY <3>1, <3>2
  <2>2. QED
    BY <2>1 DEF Mirrors
<1>8. TypeOK'
  <2>1. \A n \in DOMAIN cvars' : cvars'[n] \in [string : Str, flags : SUBSET Flag]
    BY <1>4, <1>5, <1>6 DEF IInv, TypeOK
  <2>2. boot' \in 0..Len(Registered)
    BY <1>1
  <2>3. QED
    BY <1>5, <2>1, <2>2 DEF IInv, TypeOK
<1>9. KeysUnique'
  BY <1>5, <1>7 DEF IInv, KeysUnique
<1>10. ~(boot' < NumBasic)
  <2>1. NumBasic \in Nat /\ ~(boot < NumBasic)
    BY <1>1, <1>2, RegisteredAssumption
  <2>2. QED
    BY <1>1, <2>1
<1>11. ASSUME NEW n \in DOMAIN cvars
       PROVE  /\ Stripped[n] = n
              /\ cvars'[n].flags \cap {"serverinfo", "readonly"} # {} => IsRegistered(n)'
              /\ n \in Star /\ Mirrors(n)' => "readonly" \in cvars'[n].flags
  <2>1. CASE n = m
    BY <1>5, <1>6, <2>1 DEF IInv, Mirrors
  <2>2. CASE n # m
    <3>1. cvars'[n] = cvars[n]
      BY <1>5, <2>2
    <3>2. IsRegistered(n) => IsRegistered(n)'
      BY <1>1, StillRegistered
    <3>3. QED
      BY <3>1, <3>2 DEF IInv, Mirrors
  <2>3. QED
    BY <2>1, <2>2
<1>12. IInv'
  BY <1>5, <1>8, <1>9, <1>10, <1>11 DEF IInv
<1>13. Leaves
  BY <1>5, <1>7 DEF Leaves
<1>14. QED
  BY <1>12, <1>13

-----------------------------------------------------------------------------
(* Every step.                                                             *)
LEMMA RegisterStep ==
  ASSUME IInv, PlainNames, StarsReadonly, Register
  PROVE  IInv' /\ Leaves
<1>1. PICK r : r = Registered[boot + 1]
  OBVIOUS
<1>2. ~initialized /\ boot' = boot + 1
  BY DEF Register
<1>3. r \in [name : Str, value : Str, flags : SUBSET Flag]
  BY <1>1, <1>2, RegisterFacts
<1>4. PICK m : IF Known(r.name) THEN m = Cvar_Find(r.name) ELSE m = r.name
  OBVIOUS
<1>5. CASE Cvar_Get(r.name, r.value, r.flags)
  <2>1. CASE ~Known(r.name) \/ "readonly" \in r.flags
    <3>1. Put(m, r.value, r.flags)
      BY <1>4, <1>5, <2>1 DEF Cvar_Get
    <3>2. r.value \in Str
      BY <1>3
    <3>3. QED
      BY <1>1, <1>2, <1>4, <3>1, <3>2, RegisterPut
  <2>2. CASE ~(~Known(r.name) \/ "readonly" \in r.flags)
    BY <1>1, <1>2, <1>5, <2>2, RegisterKnown DEF Cvar_Get
  <2>3. QED
    BY <2>1, <2>2
<1>6. ASSUME NEW p \in Params, Cvar_FullSet(r.name, p, r.flags)
      PROVE  IInv' /\ Leaves
  <2>1. Put(m, p, r.flags)
    BY <1>4, <1>6 DEF Cvar_FullSet
  <2>2. p \in Str
    BY StringAssumption
  <2>3. QED
    BY <1>1, <1>2, <1>4, <2>1, <2>2, RegisterPut
<1>7. QED
  BY <1>1, <1>5, <1>6 DEF Register

LEMMA InitOK ==
  ASSUME Init
  PROVE  IInv
<1>1. info = <<>> /\ info \in Seq(Pair) /\ Len(info) = 0 /\ boot = 0 /\ DOMAIN cvars = {}
  BY DEF Init
<1>2. Len(Registered) \in Nat
  BY RegisteredAssumption
<1>3. QED
  BY <1>1, <1>2 DEF IInv, TypeOK, KeysUnique

LEMMA NextStep ==
  ASSUME IInv, PlainNames, StarsReadonly, [Next]_vars
  PROVE  IInv' /\ Leaves
<1>1. CASE Register
  BY <1>1, RegisterStep
<1>2. ASSUME NEW n \in Names, NEW v \in Values, Cvar_Set_f(n, v)
      PROVE  IInv' /\ Leaves
  <2>1. v \in Str /\ Console /\ boot' = boot
    BY <1>2, StringAssumption DEF Cvar_Set_f
  <2>2. CASE Known(n)
    BY <1>2, <2>1, <2>2, SetStep DEF Cvar_Set_f
  <2>3. CASE ~Known(n)
    BY <1>2, <2>1, <2>3, CreateStep DEF Cvar_Set_f
  <2>4. QED
    BY <2>2, <2>3
<1>3. ASSUME NEW n \in Names, NEW v \in Values, Cvar_Command(n, v)
      PROVE  IInv' /\ Leaves
  BY <1>3, SetStep, StringAssumption DEF Cvar_Command
<1>4. ASSUME NEW n \in Names, NEW v \in Values, SV_Serverinfo_f(n, v)
      PROVE  IInv' /\ Leaves
  <2>1. v \in Str /\ Console /\ boot' = boot /\ n \notin Star
    BY <1>4, StringAssumption DEF SV_Serverinfo_f
  <2>2. CASE Known(n) /\ "serverinfo" \in cvars[Cvar_Find(n)].flags
    BY <1>4, <2>1, <2>2, SetStep DEF SV_Serverinfo_f
  <2>3. CASE ~(Known(n) /\ "serverinfo" \in cvars[Cvar_Find(n)].flags)
    BY <1>4, <2>1, <2>3, KeyStep DEF SV_Serverinfo_f
  <2>4. QED
    BY <2>2, <2>3
<1>5. ASSUME NEW n \in Names, Cvar_Toggle_f(n)
      PROVE  IInv' /\ Leaves
  <2>1. PICK v \in {Zero, One} : Cvar_Set(n, v)
    BY <1>5 DEF Cvar_Toggle_f
  <2>2. v \in Str
    BY StringAssumption
  <2>3. QED
    BY <1>5, <2>1, <2>2, SetStep DEF Cvar_Toggle_f
<1>6. ASSUME NEW n \in Names, Cvar_Inc_f(n)
      PROVE  IInv' /\ Leaves
  <2>1. PICK v \in Number \cup {Zero} : Cvar_Set(n, v)
    BY <1>6 DEF Cvar_Inc_f
  <2>2. v \in Str
    BY StringAssumption
  <2>3. QED
    BY <1>6, <2>1, <2>2, SetStep DEF Cvar_Inc_f
<1>7. CASE UNCHANGED vars
  BY <1>7, NothingHappens DEF vars
<1>8. QED
  BY <1>1, <1>2, <1>3, <1>4, <1>5, <1>6, <1>7 DEF Next

-----------------------------------------------------------------------------
(* The length of an info string.                                           *)
Entry(p) == 2 + Length[p.key] + Length[p.value]

LEMMA EntryNat ==
  ASSUME NEW p \in Pair
  PROVE  Entry(p) \in Nat
BY StringAssumption DEF Entry, Pair

(* size[n] is the length of the first n pairs of s.                        *)
SizesTo(size, s) ==
  /\ size \in [0..Len(s) -> Nat]
  /\ size[0] = 0
  /\ \A n \in 1..Len(s) : size[n] = size[n - 1] + Entry(s[n])

LEMMA SizeSteps ==
  ASSUME NEW s \in Seq(Pair)
  PROVE  \E size : SizesTo(size, s) /\ Size(s) = size[Len(s)]
<1> DEFINE N == Len(s)
           Step == [p \in Nat \X (1..N) |-> p[1] + Entry(s[p[2]])]
           IsSize(g) == g = [n \in 0..Len(s) |->
                               IF n = 0 THEN 0
                               ELSE g[n - 1] + 2 + Length[s[n].key] + Length[s[n].value]]
           size == CHOOSE g : IsSize(g)
<1>1. N \in Nat /\ \A n \in 1..N : Entry(s[n]) \in Nat
  BY EntryNat
<1>2. \A n \in 1..N, x \in Nat :
        x + Entry(s[n]) = x + 2 + Length[s[n].key] + Length[s[n].value]
  <2>1. SUFFICES ASSUME NEW n \in 1..N, NEW x \in Nat
                 PROVE  x + Entry(s[n]) = x + 2 + Length[s[n].key] + Length[s[n].value]
    OBVIOUS
  <2>2. s[n] \in Pair
    BY <1>1
  <2>3. Length[s[n].key] \in Nat /\ Length[s[n].value] \in Nat
    BY <2>2, StringAssumption DEF Pair
  <2> DEFINE a == Length[s[n].key]
             b == Length[s[n].value]
  <2>4. Entry(s[n]) = 2 + a + b
    BY DEF Entry
  <2>5. a \in Nat /\ b \in Nat /\ x \in Nat
    BY <2>1, <2>3
  <2> HIDE DEF a, b
  <2>6. x + Entry(s[n]) = x + 2 + a + b
    BY <2>4, <2>5
  <2>7. QED
    BY <2>6 DEF a, b
<1> HIDE DEF N
<1>3. Step \in [Nat \X (1..N) -> Nat]
  BY <1>1
<1> HIDE DEF Step
<1>4. PICK f : Iterates(f, Nat, 0, N, Step)
  BY <1>1, <1>3, RecursionTo
<1>5. ASSUME NEW n \in 1..N
      PROVE  /\ f[n - 1] \in Nat /\ f[n] = f[n - 1] + Entry(s[n])
             /\ f[n] = f[n - 1] + 2 + Length[s[n].key] + Length[s[n].value]
  <2>1. f[n - 1] \in Nat /\ f[n] = Step[<<f[n - 1], n>>]
    BY <1>1, <1>4 DEF Iterates
  <2>2. f[n] = f[n - 1] + Entry(s[n])
    BY <2>1 DEF Step
  <2>3. QED
    BY <1>2, <2>1, <2>2
<1>6. IsSize(f)
  <2>1. f \in [0..Len(s) -> Nat] /\ f[0] = 0
    BY <1>4 DEF Iterates, N
  <2>2. \A n \in 0..N : n # 0 => n \in 1..N
    BY <1>1
  <2>3. ASSUME NEW n \in 0..Len(s)
        PROVE  f[n] = IF n = 0 THEN 0
                      ELSE f[n - 1] + 2 + Length[s[n].key] + Length[s[n].value]
    BY <1>5, <2>1, <2>2, Zenon DEF N
  <2>4. QED
    BY <2>1, <2>3, Zenon
<1>7. IsSize(size)
  <2> HIDE DEF IsSize
  <2>1. QED
    BY <1>6
<1>8. Size(s) = size[N]
  BY DEF Size, N
<1> HIDE DEF size
<1>9. /\ size[0] = 0
      /\ \A n \in 1..N : size[n] = size[n - 1] + 2 + Length[s[n].key] + Length[s[n].value]
      /\ size = [n \in 0..N |-> size[n]]
  <2>1. \A n \in 0..N : size[n] = IF n = 0 THEN 0
                          ELSE size[n - 1] + 2 + Length[s[n].key] + Length[s[n].value]
    BY <1>7 DEF N
  <2>2. 0 \in 0..N /\ \A n \in 1..N : n \in 0..N /\ n # 0
    BY <1>1
  <2>3. size = [n \in 0..N |-> size[n]]
    BY <1>7, Zenon DEF N
  <2>4. QED
    BY <2>1, <2>2, <2>3
<1> DEFINE Same == {n \in 0..N : size[n] = f[n]}
<1>10. \A n \in 0..N : n \in Same
  <2>1. 0 \in Same
    BY <1>1, <1>4, <1>9 DEF Iterates
  <2>2. ASSUME NEW n \in 1..N, n - 1 \in Same PROVE n \in Same
    <3>1. n \in 0..N /\ size[n - 1] = f[n - 1]
      BY <1>1, <2>2
    <3>2. QED
      BY <1>5, <1>9, <3>1
  <2> HIDE DEF Same
  <2>3. QED
    BY <1>1, <2>1, <2>2, InductionTo
<1>11. SizesTo(f, s) /\ Size(s) = f[Len(s)]
  <2>1. N \in 0..N
    BY <1>1
  <2>2. Size(s) = f[N]
    BY <1>8, <1>10, <2>1
  <2>3. QED
    BY <1>4, <1>5, <2>2 DEF SizesTo, Iterates, N
<1>12. QED
  BY <1>11

(* A pair more.                                                            *)
LEMMA SizeAppend ==
  ASSUME NEW s \in Seq(Pair), NEW p \in Pair
  PROVE  Size(s) \in Nat /\ Size(Append(s, p)) = Size(s) + Entry(p)
<1> DEFINE t == Append(s, p)
           N == Len(s)
<1>1. N \in Nat
  OBVIOUS
<1>2. t \in Seq(Pair) /\ Len(t) = N + 1 /\ t[N + 1] = p /\ \A i \in 1..N : t[i] = s[i]
  BY AppendProperties
<1> HIDE DEF t
<1>3. PICK f : SizesTo(f, s) /\ Size(s) = f[N]
  BY SizeSteps
<1>4. PICK g : SizesTo(g, t) /\ Size(t) = g[Len(t)]
  BY <1>2, SizeSteps
<1> DEFINE Same == {n \in 0..N : g[n] = f[n]}
<1>5. 0 \in Same
  BY <1>1, <1>3, <1>4 DEF SizesTo
<1>6. ASSUME NEW n \in 1..N, n - 1 \in Same PROVE n \in Same
  <2>1. n \in 1..Len(t) /\ n \in 0..N /\ t[n] = s[n]
    BY <1>1, <1>2
  <2>2. QED
    BY <1>3, <1>4, <1>6, <2>1 DEF SizesTo
<1>7. g[N] = f[N]
  <2>1. \A n \in 0..N : n \in Same
    <3> HIDE DEF Same, N
    <3>1. QED
      BY <1>1, <1>5, <1>6, InductionTo
  <2>2. QED
    BY <1>1, <2>1
<1>8. g[N + 1] = g[N] + Entry(p)
  <2>1. N + 1 \in 1..Len(t) /\ (N + 1) - 1 = N
    BY <1>1, <1>2
  <2>2. QED
    BY <1>2, <1>4, <2>1 DEF SizesTo
<1>9. Size(s) \in Nat
  BY <1>1, <1>3 DEF SizesTo
<1>10. QED
  BY <1>2, <1>3, <1>4, <1>7, <1>8, <1>9 DEF t

(* A pair less.                                                            *)
LEMMA SizeRemove ==
  ASSUME NEW s \in Seq(Pair), NEW f \in 1..Len(s)
  PROVE  /\ Size(s) \in Nat /\ Size(RemoveAt(s, f)) \in Nat
         /\ Size(s) = Size(RemoveAt(s, f)) + Entry(s[f])
<1> DEFINE t == RemoveAt(s, f)
           N == Len(s)
           e == Entry(s[f])
<1>1. N \in Nat /\ f \in Nat /\ 1 <= f /\ f <= N
  OBVIOUS
<1>2. /\ t \in Seq(Pair) /\ Len(t) = N - 1 /\ N - 1 \in Nat
      /\ \A i \in 1..(f - 1) : t[i] = s[i]
      /\ \A i \in f..(N - 1) : t[i] = s[i + 1]
  BY <1>1, RemoveAtElements
<1>3. \A n \in 1..N : Entry(s[n]) \in Nat
  BY EntryNat
<1> HIDE DEF t
<1>4. PICK a : SizesTo(a, s) /\ Size(s) = a[N]
  BY SizeSteps
<1>5. PICK b : SizesTo(b, t) /\ Size(t) = b[Len(t)]
  BY <1>2, SizeSteps
<1> HIDE DEF N
<1>6. /\ \A n \in 0..N : a[n] \in Nat
      /\ \A n \in 0..(N - 1) : b[n] \in Nat
      /\ a[0] = 0 /\ b[0] = 0
      /\ \A n \in 1..N : a[n] = a[n - 1] + Entry(s[n])
      /\ \A n \in 1..(N - 1) : b[n] = b[n - 1] + Entry(t[n])
  BY <1>2, <1>4, <1>5 DEF SizesTo, N
<1> HIDE DEF e
<1>7. a[f] = a[f - 1] + e
  BY <1>1, <1>6 DEF e
<1>8. e \in Nat
  BY <1>1, <1>3 DEF e
<1> DEFINE Good == {n \in 0..(N - 1) : IF n < f THEN b[n] = a[n] ELSE a[n + 1] = b[n] + e}
<1>9. 0 \in Good
  BY <1>1, <1>2, <1>6
<1>10. ASSUME NEW n \in 1..(N - 1), n - 1 \in Good PROVE n \in Good
  <2>0. /\ n \in 0..(N - 1) /\ n \in 1..N /\ n + 1 \in 1..N /\ (n + 1) - 1 = n
        /\ n - 1 \in 0..(N - 1) /\ (n - 1) + 1 = n
    BY <1>1
  <2>1. /\ n \in 0..(N - 1) /\ n \in 1..N /\ n + 1 \in 1..N /\ (n + 1) - 1 = n
        /\ n - 1 \in 0..(N - 1) /\ b[n - 1] \in Nat /\ (n - 1) + 1 = n
    BY <1>6, <2>0
  <2>2. CASE n < f
    <3>1. b[n - 1] = a[n - 1] /\ t[n] = s[n]
      BY <1>1, <1>2, <1>10, <2>1, <2>2
    <3>2. QED
      BY <1>6, <2>1, <2>2, <3>1
  <2>3. CASE n = f
    <3>1. b[n - 1] = a[n - 1] /\ t[n] = s[n + 1]
      BY <1>1, <1>2, <1>10, <2>1, <2>3
    <3>2. a[n + 1] = a[n] + Entry(s[n + 1]) /\ b[n] = b[n - 1] + Entry(s[n + 1])
      BY <1>6, <2>1, <3>1
    <3>3. Entry(s[n + 1]) \in Nat
      BY <1>3, <2>1
    <3>4. a[n + 1] = b[n] + e
      BY <1>7, <1>8, <2>1, <2>3, <3>1, <3>2, <3>3
    <3>5. QED
      BY <2>1, <2>3, <3>4
  <2>4. CASE n > f
    <3>1. ~(n - 1 < f) /\ ~(n < f) /\ n \in f..(N - 1)
      BY <1>1, <2>1, <2>4
    <3>2. a[n] = b[n - 1] + e /\ t[n] = s[n + 1]
      BY <1>2, <1>10, <2>1, <3>1
    <3>3. a[n + 1] = a[n] + Entry(s[n + 1]) /\ b[n] = b[n - 1] + Entry(s[n + 1])
      BY <1>6, <2>1, <3>2
    <3>4. Entry(s[n + 1]) \in Nat
      BY <1>3, <2>1
    <3>5. a[n + 1] = b[n] + e
      BY <1>8, <2>1, <3>2, <3>3, <3>4
    <3>6. QED
      BY <2>1, <3>1, <3>5
  <2>5. QED
    BY <1>1, <2>1, <2>2, <2>3, <2>4
<1>11. N - 1 \in Good
  <2>1. \A n \in 0..(N - 1) : n \in Good
    <3> HIDE DEF Good
    <3>1. QED
      BY <1>2, <1>9, <1>10, InductionTo
  <2>2. N - 1 \in 0..(N - 1)
    BY <1>2
  <2>3. QED
    BY <2>1, <2>2
<1>12. a[N] = b[N - 1] + e
  <2>1. CASE N - 1 < f
    <3>1. N = f /\ b[N - 1] = a[N - 1]
      BY <1>1, <1>11, <2>1
    <3>2. QED
      BY <1>7, <3>1
  <2>2. CASE ~(N - 1 < f)
    <3>1. (N - 1) + 1 = N
      BY <1>1
    <3>2. QED
      BY <1>11, <2>2, <3>1
  <2>3. QED
    BY <2>1, <2>2
<1>13. a[N] \in Nat /\ b[N - 1] \in Nat
  BY <1>1, <1>2, <1>6
<1>14. QED
  BY <1>2, <1>4, <1>5, <1>12, <1>13 DEF t, e, N

-----------------------------------------------------------------------------
(* What stands in the info string fits and has no control characters.      *)
PlainValues(s) == \A i \in 1..Len(s) : Stripped[s[i].value] = s[i].value

Fits(s) == Size(s) + 1 <= MaxInfo

(* Without its key an info string is shorter by the pair that is gone.     *)
LEMMA RestSize ==
  ASSUME NEW s \in Seq(Pair), Once(s), NEW k
  PROVE  /\ Size(s) \in Nat /\ Size(Info_RemoveKey(s, k)) \in Nat
         /\ Size(Info_RemoveKey(s, k)) <= Size(s)
         /\ k # Empty /\ Info_ValueForKey(s, k) # Empty =>
              Size(s) = Size(Info_RemoveKey(s, k)) + 2 + Length[k]
                          + Length[Info_ValueForKey(s, k)]
<1>1. CASE With(s, k) = {}
  <2>1. Info_RemoveKey(s, k) = s /\ Info_ValueForKey(s, k) = Empty
    BY <1>1 DEF Info_RemoveKey, Info_ValueForKey
  <2>2. \E size : SizesTo(size, s) /\ Size(s) = size[Len(s)]
    BY SizeSteps
  <2>3. Size(s) \in Nat
    BY <2>2 DEF SizesTo
  <2>4. QED
    BY <2>1, <2>3
<1>2. CASE With(s, k) # {}
  <2>1. PICK f \in 1..Len(s) : f = FirstWith(s, k) /\ s[f].key = k
    BY <1>2, FirstIsOne
  <2>2. Info_RemoveKey(s, k) = RemoveAt(s, f)
    BY <1>2, <2>1 DEF Info_RemoveKey
  <2>3. /\ Size(s) \in Nat /\ Size(RemoveAt(s, f)) \in Nat
        /\ Size(s) = Size(RemoveAt(s, f)) + Entry(s[f])
    BY SizeRemove
  <2>4. Entry(s[f]) \in Nat
    BY EntryNat
  <2>5. k # Empty => Info_ValueForKey(s, k) = s[f].value
    BY <2>1, ValueIs
  <2>6. Length[s[f].key] \in Nat /\ Length[s[f].value] \in Nat
    <3>1. s[f] \in Pair
      OBVIOUS
    <3>2. s[f].key \in Str /\ s[f].value \in Str
      BY <3>1 DEF Pair
    <3>3. QED
      BY <3>2, StringAssumption
  <2> DEFINE all == Size(s)
             rest == Size(RemoveAt(s, f))
             a == Length[s[f].key]
             b == Length[s[f].value]
  <2>7. Entry(s[f]) = 2 + a + b /\ a \in Nat /\ b \in Nat
    BY <2>6 DEF Entry
  <2> HIDE DEF all, rest, a, b
  <2>8. all \in Nat /\ rest \in Nat /\ rest <= all /\ all = rest + 2 + a + b
    BY <2>3, <2>4, <2>7 DEF all, rest
  <2>9. QED
    BY <2>1, <2>2, <2>5, <2>8 DEF all, rest, a, b
<1>3. QED
  BY <1>1, <1>2

(* Whatever is set, an info string that fits is left as one that fits.     *)
LEMMA SetFits ==
  ASSUME NEW s \in Seq(Pair), Once(s), Fits(s), PlainValues(s), NEW k \in Str, NEW v \in Str
  PROVE  /\ Fits(Info_SetValueForStarKey(s, k, v))
         /\ PlainValues(Info_SetValueForStarKey(s, k, v))
<1>1. PICK rest \in Seq(Pair) :
        /\ rest = Info_RemoveKey(s, k)
        /\ \A j \in 1..Len(rest) : \E i \in 1..Len(s) : s[i] = rest[j]
        /\ Size(s) \in Nat /\ Size(rest) \in Nat /\ Size(rest) <= Size(s)
  <2> DEFINE r == Info_RemoveKey(s, k)
  <2>1. r \in Seq(Pair) /\ \A j \in 1..Len(r) : \E i \in 1..Len(s) : s[i] = r[j]
    BY RestFacts
  <2>2. Size(s) \in Nat /\ Size(r) \in Nat /\ Size(r) <= Size(s)
    BY RestSize
  <2> HIDE DEF r
  <2>3. QED
    BY <2>1, <2>2 DEF r
<1>2. PICK new \in Pair : new = [key |-> Stripped[k], value |-> Stripped[v]]
  BY StringAssumption DEF Pair
<1>3. Fits(rest) /\ PlainValues(rest)
  <2>1. Fits(rest)
    <3> DEFINE n == Size(s)
               m == Size(rest)
    <3>1. n \in Nat /\ m \in Nat /\ m <= n /\ n + 1 <= MaxInfo
      BY <1>1 DEF Fits
    <3> HIDE DEF n, m
    <3>2. m + 1 <= MaxInfo
      BY <3>1, StringAssumption
    <3>3. QED
      BY <3>2 DEF m, Fits
  <2>2. PlainValues(rest)
    BY <1>1 DEF PlainValues
  <2>3. QED
    BY <2>1, <2>2
<1>4. /\ Append(rest, new) \in Seq(Pair)
      /\ Len(Append(rest, new)) = Len(rest) + 1
      /\ \A i \in 1..Len(rest) : Append(rest, new)[i] = rest[i]
      /\ Append(rest, new)[Len(rest) + 1] = new
  BY <1>2, AppendProperties
<1>5. PlainValues(Append(rest, new))
  <2>1. Stripped[new.value] = new.value
    BY <1>2, StringAssumption
  <2>2. \A i \in 1..Len(Append(rest, new)) : i \in 1..Len(rest) \/ i = Len(rest) + 1
    BY <1>4
  <2>3. QED
    BY <1>3, <1>4, <2>1, <2>2 DEF PlainValues
<1>6. ASSUME ~(Size(rest) + 2 + Length[k] + Length[v] + 1 > MaxInfo)
      PROVE  Fits(Append(rest, new))
  <2>1. Size(Append(rest, new)) = Size(rest) + Entry(new)
    BY <1>2, SizeAppend
  <2>2. Entry(new) = 2 + Length[Stripped[k]] + Length[Stripped[v]]
    BY <1>2 DEF Entry
  <2>3. /\ Length[k] \in Nat /\ Length[v] \in Nat
        /\ Length[Stripped[k]] \in Nat /\ Length[Stripped[v]] \in Nat
        /\ Length[Stripped[k]] <= Length[k] /\ Length[Stripped[v]] <= Length[v]
    BY StringAssumption
  <2> DEFINE n == Size(rest)
             t == Append(rest, new)
             ak == Length[k]
             av == Length[v]
             bk == Length[Stripped[k]]
             bv == Length[Stripped[v]]
  <2>4. /\ Size(t) = n + (2 + bk + bv) /\ ~(n + 2 + ak + av + 1 > MaxInfo) /\ n \in Nat
        /\ ak \in Nat /\ av \in Nat /\ bk \in Nat /\ bv \in Nat /\ bk <= ak /\ bv <= av
    BY <1>1, <1>6, <2>1, <2>2, <2>3
  <2> HIDE DEF n, t, ak, av, bk, bv
  <2>5. Size(t) + 1 <= MaxInfo
    BY <2>4, StringAssumption
  <2>6. QED
    BY <2>5 DEF Fits, t
<1>7. \/ Info_SetValueForStarKey(s, k, v) \in {s, rest}
      \/ /\ Info_SetValueForStarKey(s, k, v) = Append(rest, new)
         /\ ~(Size(rest) + 2 + Length[k] + Length[v] + 1 > MaxInfo)
  BY <1>1, <1>2 DEF Info_SetValueForStarKey
<1>8. QED
  BY <1>3, <1>5, <1>6, <1>7

(* The info string changes by the setting of a key.                        *)
SetsKey ==
  \/ info' = info
  \/ \E k \in Str, v \in Str : info' = Info_SetValueForStarKey(info, k, v)

LEMMA SetStepSetsKey ==
  ASSUME IInv, NEW n, Known(n), NEW v \in Str, Cvar_Set(n, v)
  PROVE  SetsKey
<1>1. Cvar_Find(n) \in Str
  BY FindFacts DEF IInv, TypeOK
<1>2. QED
  BY <1>1 DEF Cvar_Set, Put, SetsKey

LEMMA NextSetsKey ==
  ASSUME IInv, [Next]_vars
  PROVE  SetsKey
<1>1. CASE Register
  <2>1. PICK r : r = Registered[boot + 1]
    OBVIOUS
  <2>2. /\ ~initialized /\ boot' = boot + 1
        /\ \/ Cvar_Get(r.name, r.value, r.flags)
           \/ \E p \in Params \ {Empty} : Cvar_FullSet(r.name, p, r.flags)
    BY <1>1, <2>1 DEF Register
  <2>3. r \in [name : Str, value : Str, flags : SUBSET Flag]
    BY <2>1, <2>2, RegisterFacts
  <2>4. PICK m \in Str : m = IF Known(r.name) THEN Cvar_Find(r.name) ELSE r.name
    BY <2>3, FindFacts DEF IInv, TypeOK
  <2>5. CASE Cvar_Get(r.name, r.value, r.flags)
    <3>1. Put(m, r.value, r.flags) \/ UNCHANGED info
      BY <2>4, <2>5 DEF Cvar_Get
    <3>2. QED
      BY <2>3, <3>1 DEF Put, SetsKey
  <2>6. ASSUME NEW p \in Params, Cvar_FullSet(r.name, p, r.flags) PROVE SetsKey
    <3>1. Put(m, p, r.flags) /\ p \in Str
      BY <2>4, <2>6, StringAssumption DEF Cvar_FullSet
    <3>2. QED
      BY <3>1 DEF Put, SetsKey
  <2>7. QED
    BY <2>2, <2>5, <2>6
<1>2. ASSUME NEW n \in Names, NEW v \in Values,
             Cvar_Set_f(n, v) \/ Cvar_Command(n, v) \/ SV_Serverinfo_f(n, v)
      PROVE  SetsKey
  <2>1. n \in Str /\ v \in Str
    BY StringAssumption
  <2>2. CASE Known(n) /\ Cvar_Set(n, v)
    BY <2>1, <2>2, SetStepSetsKey
  <2>3. CASE Put(n, v, {"user_created"})
    BY <2>1, <2>3 DEF Put, SetsKey
  <2>4. CASE info' = Info_SetValueForKey(info, n, v)
    BY <2>1, <2>4 DEF Info_SetValueForKey, SetsKey
  <2>5. QED
    BY <1>2, <2>2, <2>3, <2>4 DEF Cvar_Set_f, Cvar_Command, SV_Serverinfo_f
<1>3. ASSUME NEW n \in Names, Cvar_Toggle_f(n) \/ Cvar_Inc_f(n)
      PROVE  SetsKey
  <2>1. PICK v \in Str : Cvar_Set(n, v)
    BY <1>3, StringAssumption DEF Cvar_Toggle_f, Cvar_Inc_f
  <2>2. QED
    BY <1>3, <2>1, SetStepSetsKey DEF Cvar_Toggle_f, Cvar_Inc_f
<1>4. CASE UNCHANGED vars
  BY <1>4 DEF vars, SetsKey
<1>5. QED
  BY <1>1, <1>2, <1>3, <1>4 DEF Next

(* The info string fits and is plain, besides what IInv says of it.        *)
FitInv == IInv /\ Fits(info) /\ PlainValues(info)

LEMMA InitFit ==
  ASSUME Init
  PROVE  FitInv
<1>1. info = <<>> /\ info \in Seq(Pair) /\ Len(info) = 0
  BY DEF Init
<1>2. PICK size : SizesTo(size, info) /\ Size(info) = size[0]
  BY <1>1, SizeSteps
<1>3. QED
  BY <1>1, <1>2, InitOK, StringAssumption DEF FitInv, Fits, PlainValues, SizesTo

LEMMA NextFit ==
  ASSUME FitInv, PlainNames, StarsReadonly, [Next]_vars
  PROVE  FitInv'
<1>1. IInv /\ IInv' /\ SetsKey
  BY NextStep, NextSetsKey DEF FitInv
<1>2. info \in Seq(Pair) /\ Once(info) /\ Fits(info) /\ PlainValues(info)
  BY DEF FitInv, IInv, TypeOK, KeysUnique, Once
<1>3. CASE info' = info
  BY <1>1, <1>2, <1>3 DEF FitInv
<1>4. ASSUME NEW k \in Str, NEW v \in Str, info' = Info_SetValueForStarKey(info, k, v)
      PROVE  FitInv'
  <2>1. /\ Fits(Info_SetValueForStarKey(info, k, v))
        /\ PlainValues(Info_SetValueForStarKey(info, k, v))
    BY <1>2, SetFits
  <2>2. QED
    BY <1>1, <1>4, <2>1 DEF FitInv
<1>5. QED
  BY <1>1, <1>3, <1>4 DEF SetsKey

-----------------------------------------------------------------------------
(* Mirroring.  A name in the info string is not empty: Info_ValueForKey    *)
(* cannot look the empty one up.                                           *)
NamesNotEmpty ==
  \A i \in 1..Len(Registered) : Folded[Registered[i].name] # Folded[Empty]

(* What a step must leave of the variable n if it changes its value.       *)
Follows(n) ==
  \/ Info_ValueForKey(info', n) = Stripped[cvars'[n].string]
  \/ /\ \A k \in Str : Info_ValueForKey(info', k) = Info_ValueForKey(info, k)
     /\ \/ ~CanCarry(n, cvars'[n].string)
        \/ Size(Info_RemoveKey(info, n)) + 2 + Length[n]
             + Length[cvars'[n].string] + 1 > MaxInfo

Mirrored ==
  \A n \in DOMAIN cvars \cap DOMAIN cvars' :
    Mirrors(n) /\ cvars'[n].string # cvars[n].string => Follows(n)

LEMMA MirrorHasName ==
  ASSUME IInv, NamesNotEmpty, NEW n \in DOMAIN cvars, Mirrors(n)
  PROVE  n # Empty /\ n \in Str /\ Stripped[n] = n
<1>1. IsRegistered(n) /\ n \in Str /\ Stripped[n] = n
  BY DEF IInv, Mirrors, TypeOK
<1>2. PICK i \in 1..boot : Folded[Registered[i].name] = Folded[n]
  BY <1>1 DEF IsRegistered
<1>3. i \in 1..Len(Registered)
  BY <1>2, RegisteredAssumption DEF IInv, TypeOK
<1>4. QED
  BY <1>1, <1>2, <1>3 DEF NamesNotEmpty

(* What a string says of a key is plain, too.                              *)
LEMMA ValuePlain ==
  ASSUME NEW s \in Seq(Pair), Once(s), PlainValues(s), NEW k
  PROVE  Stripped[Info_ValueForKey(s, k)] = Info_ValueForKey(s, k)
<1>1. CASE Info_ValueForKey(s, k) = Empty
  BY <1>1, StringAssumption
<1>2. CASE Info_ValueForKey(s, k) # Empty
  <2>1. k # Empty /\ With(s, k) # {}
    BY <1>2 DEF Info_ValueForKey
  <2>2. FirstWith(s, k) \in 1..Len(s)
    BY <2>1, FirstIsOne
  <2>3. QED
    BY <2>1, <2>2 DEF Info_ValueForKey, PlainValues
<1>3. QED
  BY <1>1, <1>2

(* Setting the key k gives it the value, or there is no room.              *)
LEMMA SetValue ==
  ASSUME NEW s \in Seq(Pair), Once(s), NEW k \in Str, k # Empty, Stripped[k] = k, NEW v \in Str
  PROVE  \/ Info_ValueForKey(Info_SetValueForStarKey(s, k, v), k) = Stripped[v]
         \/ /\ \A x \in Str : Info_ValueForKey(Info_SetValueForStarKey(s, k, v), x)
                               = Info_ValueForKey(s, x)
            /\ \/ ~CanCarry(k, v)
               \/ Size(Info_RemoveKey(s, k)) + 2 + Length[k] + Length[v] + 1 > MaxInfo
<1> DEFINE old == Info_ValueForKey(s, k)
           rest == Info_RemoveKey(s, k)
           new == [key |-> k, value |-> Stripped[v]]
           set == Info_SetValueForStarKey(s, k, v)
           full == Size(rest) + 2 + Length[k] + Length[v] + 1 > MaxInfo
           noroom == old # Empty /\ Length[v] - Length[old] + Size(s) + 1 > MaxInfo
<1>1. set = IF ~CanCarry(k, v) \/ noroom THEN s
            ELSE IF v = Empty \/ full THEN rest ELSE Append(rest, new)
  BY DEF Info_SetValueForStarKey
<1>2. \A x : x # k => Info_ValueForKey(set, x) = Info_ValueForKey(s, x)
  BY SetFacts
<1>3. rest \in Seq(Pair) /\ Once(rest) /\ \A j \in 1..Len(rest) : rest[j].key # k
  BY RestFacts
<1>4. Info_ValueForKey(rest, k) = Empty
  <2> HIDE DEF rest
  <2>1. QED
    BY <1>3, ValueIs
<1>5. noroom => full
  <2>1. ASSUME noroom PROVE full
    <3>1. /\ Size(s) = Size(rest) + 2 + Length[k] + Length[old]
          /\ Size(s) \in Nat /\ Size(rest) \in Nat
      BY <2>1, RestSize
    <3>2. old \in Str
      <4>1. With(s, k) # {}
        BY <2>1 DEF Info_ValueForKey
      <4>2. FirstWith(s, k) \in 1..Len(s) /\ old = s[FirstWith(s, k)].value
        BY <2>1, <4>1, FirstIsOne DEF Info_ValueForKey
      <4>3. s[FirstWith(s, k)] \in Pair
        BY <4>2
      <4>4. QED
        BY <4>2, <4>3 DEF Pair
    <3>3. Length[k] \in Nat /\ Length[v] \in Nat /\ Length[old] \in Nat
      BY <3>2, StringAssumption
    <3> DEFINE a == Length[k]
               b == Length[v]
               c == Length[old]
               n == Size(s)
               m == Size(rest)
    <3>4. /\ n = m + 2 + a + c /\ n \in Nat /\ m \in Nat /\ a \in Nat /\ b \in Nat /\ c \in Nat
          /\ b - c + n + 1 > MaxInfo
      BY <2>1, <3>1, <3>3
    <3> HIDE DEF a, b, c, n, m
    <3>5. m + 2 + a + b + 1 > MaxInfo
      BY <3>4, StringAssumption
    <3>6. QED
      BY <3>5 DEF a, b, m
  <2>2. QED
    BY <2>1
<1> HIDE DEF old, rest, new, set, full, noroom
<1>6. CASE ~CanCarry(k, v) \/ noroom
  <2>1. set = s /\ (~CanCarry(k, v) \/ full)
    BY <1>1, <1>5, <1>6
  <2>2. QED
    BY <2>1 DEF set, full, rest
<1>7. CASE ~(~CanCarry(k, v) \/ noroom) /\ v = Empty
  <2>1. set = rest
    BY <1>1, <1>7
  <2>2. QED
    BY <1>4, <1>7, <2>1, StringAssumption DEF set
<1>8. CASE ~(~CanCarry(k, v) \/ noroom) /\ v # Empty /\ full
  <2>1. set = rest
    BY <1>1, <1>8
  <2>2. old = Empty
    <3>1. SUFFICES ASSUME old # Empty PROVE FALSE
      OBVIOUS
    <3>2. /\ Size(s) = Size(rest) + 2 + Length[k] + Length[old]
          /\ Size(s) \in Nat /\ Size(rest) \in Nat
      BY <3>1, RestSize DEF rest, old
    <3>3. old \in Str
      <4>1. With(s, k) # {}
        BY <3>1 DEF Info_ValueForKey, old
      <4>2. FirstWith(s, k) \in 1..Len(s) /\ old = s[FirstWith(s, k)].value
        BY <4>1, FirstIsOne DEF Info_ValueForKey, old
      <4>3. s[FirstWith(s, k)] \in Pair
        BY <4>2
      <4>4. QED
        BY <4>2, <4>3 DEF Pair
    <3>4. Length[k] \in Nat /\ Length[v] \in Nat /\ Length[old] \in Nat
      BY <3>3, StringAssumption
    <3> DEFINE a == Length[k]
               b == Length[v]
               c == Length[old]
               n == Size(s)
               m == Size(rest)
    <3>5. /\ n = m + 2 + a + c /\ n \in Nat /\ m \in Nat /\ a \in Nat /\ b \in Nat /\ c \in Nat
          /\ ~(b - c + n + 1 > MaxInfo) /\ m + 2 + a + b + 1 > MaxInfo
      BY <1>8, <3>1, <3>2, <3>4 DEF noroom, full
    <3> HIDE DEF a, b, c, n, m
    <3>6. QED
      BY <3>5, StringAssumption
  <2>3. \A x \in Str : Info_ValueForKey(set, x) = Info_ValueForKey(s, x)
    BY <1>2, <1>4, <2>1, <2>2 DEF old
  <2>4. QED
    BY <1>8, <2>3 DEF set, full, rest
<1>9. CASE ~(~CanCarry(k, v) \/ noroom) /\ v # Empty /\ ~full
  <2>1. set = Append(rest, new)
    BY <1>1, <1>9
  <2>2. new \in Pair /\ new.key = k /\ new.value = Stripped[v]
    BY StringAssumption DEF new, Pair
  <2>3. /\ Append(rest, new) \in Seq(Pair)
        /\ Len(Append(rest, new)) = Len(rest) + 1
        /\ Append(rest, new)[Len(rest) + 1] = new
    BY <1>3, <2>2, AppendProperties
  <2>4. Once(set)
    BY SetFacts DEF set
  <2>5. Len(rest) + 1 \in 1..Len(set)
    BY <1>3, <2>1, <2>3
  <2>6. Info_ValueForKey(set, k) = Stripped[v]
    BY <2>1, <2>2, <2>3, <2>4, <2>5, ValueIs
  <2>7. QED
    BY <2>6 DEF set
<1>10. QED
  BY <1>6, <1>7, <1>8, <1>9

(* A mirrored variable that is given a value stays mirrored.               *)
LEMMA PutMirrors ==
  ASSUME FitInv, NamesNotEmpty, NEW m, NEW v \in Str, NEW flags, Put(m, v, flags),
         m \in DOMAIN cvars /\ Mirrors(m) => "serverinfo" \in flags
  PROVE  Mirrored
<1>1. SUFFICES ASSUME NEW n \in DOMAIN cvars, Mirrors(n), cvars'[n].string # cvars[n].string
               PROVE  Follows(n)
  BY DEF Mirrored
<1>2. IInv /\ info \in Seq(Pair) /\ Once(info) /\ PlainValues(info)
  BY DEF FitInv, IInv, TypeOK, KeysUnique, Once
<1>3. n # Empty /\ n \in Str /\ Stripped[n] = n
  BY <1>1, <1>2, MirrorHasName
<1>4. n = m /\ cvars'[n].string = v
  BY <1>1 DEF Put
<1>5. "serverinfo" \in flags
  BY <1>1, <1>4
<1>6. CASE v = Info_ValueForKey(info, n)
  <2>1. info' = info
    BY <1>4, <1>6 DEF Put
  <2>2. Stripped[v] = v
    BY <1>2, <1>6, ValuePlain
  <2>3. QED
    BY <1>4, <1>6, <2>1, <2>2 DEF Follows
<1>7. CASE v # Info_ValueForKey(info, n)
  <2>1. info' = Info_SetValueForStarKey(info, n, v)
    BY <1>4, <1>5, <1>7 DEF Put
  <2>2. \/ Info_ValueForKey(Info_SetValueForStarKey(info, n, v), n) = Stripped[v]
        \/ /\ \A x \in Str : Info_ValueForKey(Info_SetValueForStarKey(info, n, v), x)
                              = Info_ValueForKey(info, x)
           /\ \/ ~CanCarry(n, v)
              \/ Size(Info_RemoveKey(info, n)) + 2 + Length[n] + Length[v] + 1 > MaxInfo
    BY <1>2, <1>3, SetValue
  <2>3. QED
    BY <1>4, <2>1, <2>2 DEF Follows
<1>8. QED
  BY <1>6, <1>7

LEMMA SetStepMirrors ==
  ASSUME FitInv, NamesNotEmpty, NEW n, Known(n), NEW v \in Str, Cvar_Set(n, v)
  PROVE  Mirrored
<1>1. CASE UNCHANGED cvars
  BY <1>1 DEF Mirrored
<1>2. CASE Put(Cvar_Find(n), v, cvars[Cvar_Find(n)].flags)
  BY <1>2, PutMirrors DEF Mirrors
<1>3. QED
  BY <1>1, <1>2 DEF Cvar_Set

LEMMA NextMirrors ==
  ASSUME FitInv, NamesNotEmpty, [Next]_vars
  PROVE  Mirrored
<1>0. IInv
  BY DEF FitInv
<1>1. CASE Register
  <2>1. PICK r : r = Registered[boot + 1]
    OBVIOUS
  <2>2. /\ ~initialized /\ boot' = boot + 1
        /\ \/ Cvar_Get(r.name, r.value, r.flags)
           \/ \E p \in Params \ {Empty} : Cvar_FullSet(r.name, p, r.flags)
    BY <1>1, <2>1 DEF Register
  <2>3. /\ r \in [name : Str, value : Str, flags : SUBSET Flag]
        /\ \A n \in DOMAIN cvars :
             Folded[n] = Folded[r.name] => "serverinfo" \notin cvars[n].flags
    <3>1. /\ r \in [name : Str, value : Str, flags : SUBSET Flag]
          /\ \A n \in DOMAIN cvars :
               Folded[n] = Folded[r.name] =>
                 cvars[n].flags \cap {"serverinfo", "readonly"} = {}
      BY <1>0, <2>1, <2>2, RegisterFacts
    <3>2. QED
      BY <3>1
  <2>4. PICK m : m = IF Known(r.name) THEN Cvar_Find(r.name) ELSE r.name
    OBVIOUS
  <2>5. m \in DOMAIN cvars => ~Mirrors(m)
    BY <1>0, <2>3, <2>4, FindFacts DEF IInv, Mirrors
  <2>6. CASE Cvar_Get(r.name, r.value, r.flags)
    <3>1. CASE ~Known(r.name) \/ "readonly" \in r.flags
      <4>1. Put(m, r.value, r.flags) /\ r.value \in Str
        BY <2>3, <2>4, <2>6, <3>1 DEF Cvar_Get
      <4>2. QED
        BY <2>5, <4>1, PutMirrors
    <3>2. CASE ~(~Known(r.name) \/ "readonly" \in r.flags)
      <4>1. PICK flags :
              cvars' = [cvars EXCEPT ![Cvar_Find(r.name)].flags = flags]
        BY <2>6, <3>2 DEF Cvar_Get
      <4>2. \A n \in DOMAIN cvars : cvars[n] \in [string : Str, flags : SUBSET Flag]
        BY <1>0 DEF IInv, TypeOK
      <4>3. \A n \in DOMAIN cvars : cvars'[n].string = cvars[n].string
        BY <4>1, <4>2
      <4>4. QED
        BY <4>3 DEF Mirrored
    <3>3. QED
      BY <3>1, <3>2
  <2>7. ASSUME NEW p \in Params, Cvar_FullSet(r.name, p, r.flags) PROVE Mirrored
    <3>1. Put(m, p, r.flags) /\ p \in Str
      BY <2>4, <2>7, StringAssumption DEF Cvar_FullSet
    <3>2. QED
      BY <2>5, <3>1, PutMirrors
  <2>8. QED
    BY <2>2, <2>6, <2>7
<1>2. ASSUME NEW n \in Names, NEW v \in Values,
             Cvar_Set_f(n, v) \/ Cvar_Command(n, v) \/ SV_Serverinfo_f(n, v)
      PROVE  Mirrored
  <2>1. n \in Str /\ v \in Str
    BY StringAssumption
  <2>2. CASE Known(n) /\ Cvar_Set(n, v)
    BY <2>1, <2>2, SetStepMirrors
  <2>3. CASE ~Known(n) /\ Put(n, v, {"user_created"})
    <3>1. n \notin DOMAIN cvars
      BY <2>3 DEF Known
    <3>2. QED
      BY <2>1, <2>3, <3>1, PutMirrors
  <2>4. CASE UNCHANGED cvars
    BY <2>4 DEF Mirrored
  <2>5. QED
    BY <1>2, <2>2, <2>3, <2>4 DEF Cvar_Set_f, Cvar_Command, SV_Serverinfo_f
<1>3. ASSUME NEW n \in Names, Cvar_Toggle_f(n) \/ Cvar_Inc_f(n)
      PROVE  Mirrored
  <2>1. PICK v \in Str : Cvar_Set(n, v)
    BY <1>3, StringAssumption DEF Cvar_Toggle_f, Cvar_Inc_f
  <2>2. QED
    BY <1>3, <2>1, SetStepMirrors DEF Cvar_Toggle_f, Cvar_Inc_f
<1>4. CASE UNCHANGED vars
  BY <1>4 DEF vars, Mirrored
<1>5. QED
  BY <1>1, <1>2, <1>3, <1>4 DEF Next

(* Names are found whatever their case, so that none is there twice, and   *)
(* the info string stays a sequence of pairs.                              *)
THEOREM TypeCorrect ==
  ASSUME PlainNames, StarsReadonly
  PROVE  Spec => []TypeOK
<1>1. Init => IInv
  BY InitOK
<1>2. IInv /\ [Next]_vars => IInv'
  BY NextStep
<1>3. IInv => TypeOK
  BY DEF IInv
<1>4. QED
  BY <1>1, <1>2, <1>3, PTL DEF Spec

(* However variables and keys are set, and in whatever case they are       *)
(* written, a status answer has each key once.                             *)
THEOREM EachKeyOnce ==
  ASSUME PlainNames, StarsReadonly
  PROVE  Spec => []KeysUnique
<1>1. Init => IInv
  BY InitOK
<1>2. IInv /\ [Next]_vars => IInv'
  BY NextStep
<1>3. IInv => KeysUnique
  BY DEF IInv
<1>4. QED
  BY <1>1, <1>2, <1>3, PTL DEF Spec

(* The info string and its end fit into ps.info, however long the keys and *)
(* values that are set and reset, and although control characters are only *)
(* left out after the room was measured (Info_SetValueForStarKeyEx).       *)
THEOREM InfoStringFits ==
  ASSUME PlainNames, StarsReadonly
  PROVE  Spec => []InfoFits
<1>1. Init => FitInv
  BY InitFit
<1>2. FitInv /\ [Next]_vars => FitInv'
  BY NextFit
<1>3. FitInv => InfoFits
  BY DEF FitInv, Fits, InfoFits
<1>4. QED
  BY <1>1, <1>2, <1>3, PTL DEF Spec

(* A mirrored variable and the info string change together; only a value   *)
(* that cannot stand there or has no room leaves it as it was, to the old  *)
(* value of that variable (Cvar_Set2, Info_SetValueForStarKeyEx).          *)
THEOREM MirrorsFollow ==
  ASSUME PlainNames, StarsReadonly, NamesNotEmpty
  PROVE  Spec => ChangesMirrored
<1>1. Init => FitInv
  BY InitFit
<1>2. FitInv /\ [Next]_vars => FitInv' /\ Mirrored
  BY NextFit, NextMirrors
<1>3. Mirrored =>
        \A n \in DOMAIN cvars \cap DOMAIN cvars' :
          Mirrors(n) /\ cvars'[n].string # cvars[n].string =>
            \/ Info_ValueForKey(info', n) = Stripped[cvars'[n].string]
            \/ /\ \A k \in Str : Info_ValueForKey(info', k) = Info_ValueForKey(info, k)
               /\ \/ ~CanCarry(n, cvars'[n].string)
                  \/ Size(Info_RemoveKey(info, n)) + 2 + Length[n]
                       + Length[cvars'[n].string] + 1 > MaxInfo
  BY DEF Mirrored, Follows
<1>4. QED
  BY <1>1, <1>2, <1>3, PTL DEF Spec, ChangesMirrored

(* No sequence of commands changes what the user may not change, and no    *)
(* registering undoes it.                                                  *)
THEOREM ProtectedStays ==
  ASSUME PlainNames, StarsReadonly
  PROVE  Spec => Protected
<1>1. Init => IInv
  BY InitOK
<1>2. IInv /\ [Next]_vars => IInv' /\ Leaves
  BY NextStep
<1>3. Leaves =>
        /\ \A n \in DOMAIN cvars :
             "readonly" \in cvars[n].flags \/ ("noset" \in cvars[n].flags /\ initialized) =>
               n \in DOMAIN cvars' /\ cvars'[n].string = cvars[n].string
        /\ \A k \in Star :
             Info_ValueForKey(info, k) # Empty =>
               Info_ValueForKey(info', k) = Info_ValueForKey(info, k)
  BY DEF Leaves, Untouchable
<1>4. QED
  BY <1>1, <1>2, <1>3, PTL DEF Spec, Protected
=============================================================================
