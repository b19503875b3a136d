---------------------------- MODULE MastersProofs ----------------------------
(***************************************************************************)
(* The safety properties of Masters hold for every value of its constants. *)
(***************************************************************************)
EXTENDS Masters, TLAPS

-----------------------------------------------------------------------------
(* While the array is filled or in use, and until `masters' is set, its    *)
(* names and those still to be added are on the list.                      *)
OnTheList(n, l) == \E k \in DOMAIN l : l[k] = n

FromTheList ==
  /\ stage \in {"adding", "query", "heartbeat"} \/ ~modified
       => \A i \in DOMAIN master : OnTheList(master[i].name, list)
  /\ stage = "adding" => \A k \in DOMAIN todo : OnTheList(todo[k], list)

(* next_query has not passed while the last query, or the last answer, is  *)
(* younger than it has to be; addresses that are no master's have neither. *)
NotBefore ==
  /\ \A i \in DOMAIN master :
       /\ \/ asked[master[i].addr] = LongAsked
          \/ master[i].next_query >= QueryTimeShort - asked[master[i].addr]
       /\ \/ heard[master[i].addr] = LongHeard
          \/ master[i].next_query >= QueryTime - heard[master[i].addr]
  /\ \A a \in Addr \ Addresses(master) :
       asked[a] = LongAsked /\ heard[a] = LongHeard

Inv ==
  /\ TypeOK
  /\ OneSlotPerMaster
  /\ PacketsFollowTheList
  /\ FromTheList
  /\ NotBefore

-----------------------------------------------------------------------------
(* Slots that are changed one by one make a sequence of the same length.   *)
LEMMA Mapped ==
  ASSUME NEW ms \in Seq(Master), NEW new,
         new = [i \in DOMAIN ms |-> new[i]],
         \A i \in DOMAIN ms : new[i] \in Master
  PROVE  /\ new \in Seq(Master)
         /\ DOMAIN new = DOMAIN ms
         /\ Len(new) = Len(ms)
<1>1. DOMAIN ms = 1..Len(ms) /\ Len(ms) \in Nat
  OBVIOUS
<1>2. new \in [1..Len(ms) -> Master]
  BY <1>1
<1> QED
  BY <1>1, <1>2

(* A slot that is appended comes behind the others, which stay.            *)
LEMMA Appended ==
  ASSUME NEW ms \in Seq(Master), NEW m \in Master
  PROVE  /\ Append(ms, m) \in Seq(Master)
         /\ Len(Append(ms, m)) = Len(ms) + 1
         /\ DOMAIN Append(ms, m) = DOMAIN ms \cup {Len(ms) + 1}
         /\ Len(ms) + 1 \notin DOMAIN ms
         /\ \A i \in DOMAIN ms : Append(ms, m)[i] = ms[i]
         /\ Append(ms, m)[Len(ms) + 1] = m
OBVIOUS

(* The rest of the names are among the names.                              *)
LEMMA Rest ==
  ASSUME NEW s \in Seq(Name), s # <<>>
  PROVE  /\ Tail(s) \in Seq(Name)
         /\ Head(s) \in Name
         /\ 1 \in DOMAIN s /\ s[1] = Head(s)
         /\ \A k \in DOMAIN Tail(s) : k + 1 \in DOMAIN s /\ s[k + 1] = Tail(s)[k]
OBVIOUS

-----------------------------------------------------------------------------
LEMMA Initially ==
  Init => Inv
<1> USE MastersAssumption
<1> SUFFICES ASSUME Init PROVE Inv
  OBVIOUS
<1>1. master = <<>> /\ DOMAIN master = {} /\ Len(master) = 0 /\ todo = <<>>
  BY DEF Init
<1>2. asked \in [Addr -> 0..LongAsked] /\ heard \in [Addr -> 0..LongHeard]
  BY DEF Init, LongAsked, LongHeard
<1>3. TypeOK
  BY <1>1, <1>2 DEF Init, TypeOK, Stages
<1>4. NotBefore
  BY <1>1 DEF Init, NotBefore
<1> QED
  BY <1>1, <1>3, <1>4 DEF Init, Inv, OneSlotPerMaster, PacketsFollowTheList, FromTheList

(* The array is cleared, and what is still to be added is the list.        *)
LEMMA ReInitKeeps ==
  ASSUME Inv, ReInit
  PROVE  Inv'
<1> USE MastersAssumption
<1>1. master' = <<>> /\ DOMAIN master' = {} /\ Len(master') = 0
  BY DEF ReInit, QRY_MastersInit
<1>2. todo' = list /\ list' = list /\ list \in Seq(Name) /\ sent' = {} /\ stage' = "adding"
  BY DEF ReInit, cvars, Inv, TypeOK
<1>3. asked' = [a \in Addr |-> LongAsked] /\ heard' = [a \in Addr |-> LongHeard]
  BY DEF ReInit, QRY_MastersInit
<1>4. asked' \in [Addr -> 0..LongAsked] /\ heard' \in [Addr -> 0..LongHeard]
  BY <1>3 DEF LongAsked, LongHeard
<1>5. TypeOK'
  BY <1>1, <1>2, <1>4 DEF ReInit, QRY_MastersInit, cvars, Inv, TypeOK, Stages
<1>6. NotBefore'
  BY <1>1, <1>3 DEF NotBefore
<1>7. FromTheList'
  BY <1>1, <1>2 DEF FromTheList, OnTheList
<1> QED
  BY <1>1, <1>2, <1>5, <1>6, <1>7 DEF Inv, OneSlotPerMaster, PacketsFollowTheList

(* A master is only appended if it has an address of its own.              *)
LEMMA AddMasterKeeps ==
  ASSUME Inv, QRY_AddMaster
  PROVE  Inv'
<1> USE MastersAssumption
<1> DEFINE n == Head(todo)
           m == [name |-> n, addr |-> dns[n], next_query |-> -1]
<1>1. /\ master \in Seq(Master) /\ todo \in Seq(Name) /\ todo # <<>>
      /\ dns \in [Name -> Addr \cup {NoAddr}] /\ stage = "adding"
  BY DEF Inv, TypeOK, QRY_AddMaster
<1>2. n \in Name /\ todo' = Tail(todo) /\ todo' \in Seq(Name)
  BY <1>1, Rest DEF QRY_AddMaster
<1>3. /\ sent' = {} /\ list' = list /\ stage' = stage /\ asked' = asked /\ heard' = heard
      /\ modified' = modified
  BY DEF QRY_AddMaster, ages, cvars
<1>4. /\ OnTheList(n, list)
      /\ \A k \in DOMAIN todo' : OnTheList(todo'[k], list)
      /\ \A i \in DOMAIN master : OnTheList(master[i].name, list)
  <2>1. \A k \in DOMAIN todo : OnTheList(todo[k], list)
    BY <1>1 DEF Inv, FromTheList
  <2> QED
    BY <1>1, <1>2, <2>1, Rest DEF Inv, FromTheList
<1>5. CASE Addable(dns[n])
  <2>1. master' = Append(master, m) /\ dns[n] \in Addr /\ m \in Master
    BY <1>1, <1>2, <1>5 DEF QRY_AddMaster, Addable, Master
  <2>2. /\ master' \in Seq(Master)
        /\ Len(master') = Len(master) + 1
        /\ DOMAIN master' = DOMAIN master \cup {Len(master) + 1}
        /\ \A i \in DOMAIN master : master'[i] = master[i]
        /\ master'[Len(master) + 1] = m
    BY <1>1, <2>1, Appended
  <2>3. TypeOK'
    <3>1. Len(master') <= MaxMasters
      BY <1>1, <1>5, <2>2 DEF Addable
    <3> QED
      BY <1>2, <1>3, <2>2, <3>1 DEF QRY_AddMaster, Inv, TypeOK, ages, cvars
  <2>4. OneSlotPerMaster'
    BY <1>5, <2>2 DEF Inv, OneSlotPerMaster, Addable, Addresses
  <2>5. FromTheList'
    BY <1>3, <1>4, <2>2 DEF FromTheList
  <2>6. NotBefore'
    <3>1. asked[dns[n]] = LongAsked /\ heard[dns[n]] = LongHeard
      BY <1>5, <2>1 DEF Inv, NotBefore, Addable
    <3>2. Addresses(master') = Addresses(master) \cup {dns[n]}
      BY <2>2 DEF Addresses
    <3> QED
      BY <1>3, <2>2, <3>1, <3>2 DEF Inv, NotBefore, LongAsked, LongHeard
  <2> QED
    BY <1>3, <2>3, <2>4, <2>5, <2>6 DEF Inv, PacketsFollowTheList
<1>6. CASE ~Addable(dns[n])
  <2>1. master' = master
    BY <1>6 DEF QRY_AddMaster
  <2>2. TypeOK'
    BY <1>2, <1>3, <2>1 DEF QRY_AddMaster, Inv, TypeOK, ages, cvars
  <2>3. FromTheList'
    BY <1>3, <1>4, <2>1 DEF FromTheList
  <2> QED
    BY <1>3, <2>1, <2>2, <2>3 DEF Inv, OneSlotPerMaster, PacketsFollowTheList, NotBefore
<1> QED
  BY <1>5, <1>6

(* Steps that leave the array and the ages alone, and send nothing.        *)
LEMMA QuietKeeps ==
  ASSUME Inv,
         \/ QRY_Frame \/ NotModified \/ Added \/ QRY_Cmd_Heartbeat_f
         \/ \E l \in Lists : SetMasters(l)
         \/ \E b \in BOOLEAN : SetMastersQuery(b) \/ SetMastersHeartbeat(b)
         \/ \E r \in Resolutions : DnsChanges(r)
  PROVE  Inv'
<1> USE MastersAssumption
<1> DEFINE same == master' = master /\ asked' = asked /\ heard' = heard /\ sent' = {}
<1>1. ASSUME QRY_Frame \/ NotModified
      PROVE  same /\ TypeOK' /\ FromTheList'
  BY <1>1 DEF QRY_Frame, NotModified, Inv, TypeOK, FromTheList, ages, cvars, Stages
<1>2. ASSUME Added
      PROVE  same /\ TypeOK' /\ FromTheList'
  BY <1>2 DEF Added, Inv, TypeOK, FromTheList, ages, cvars, Stages
<1>3. ASSUME QRY_Cmd_Heartbeat_f
      PROVE  same /\ TypeOK' /\ FromTheList'
  BY <1>3 DEF QRY_Cmd_Heartbeat_f, Inv, TypeOK, FromTheList, cvars
<1>4. ASSUME NEW l \in Lists, SetMasters(l)
      PROVE  same /\ TypeOK' /\ FromTheList'
  BY <1>4 DEF SetMasters, Inv, TypeOK, FromTheList, ages
<1>5. ASSUME NEW b \in BOOLEAN, SetMastersQuery(b)
      PROVE  same /\ TypeOK' /\ FromTheList'
  BY <1>5 DEF SetMastersQuery, Inv, TypeOK, FromTheList, ages
<1>6. ASSUME NEW b \in BOOLEAN, SetMastersHeartbeat(b)
      PROVE  same /\ TypeOK' /\ FromTheList'
  BY <1>6 DEF SetMastersHeartbeat, Inv, TypeOK, FromTheList, ages
<1>7. ASSUME NEW r \in Resolutions, DnsChanges(r)
      PROVE  same /\ TypeOK' /\ FromTheList'
  BY <1>7 DEF DnsChanges, Inv, TypeOK, FromTheList, ages, cvars
<1>8. same /\ TypeOK' /\ FromTheList'
  BY <1>1, <1>2, <1>3, <1>4, <1>5, <1>6, <1>7
<1> QED
  BY <1>8 DEF Inv, OneSlotPerMaster, PacketsFollowTheList, NotBefore

(* A heartbeat goes to the masters, whose names are on the list.           *)
LEMMA HeartbeatKeeps ==
  ASSUME Inv, QRY_HeartbeatMasters
  PROVE  Inv'
<1> USE MastersAssumption
<1>1. /\ master' = master /\ asked' = asked /\ heard' = heard /\ list' = list
      /\ todo' = todo /\ modified' = modified
      /\ stage = "heartbeat" /\ stage' = "commands"
  BY DEF QRY_HeartbeatMasters, cvars
<1>2. \A i \in DOMAIN master : OnTheList(master[i].name, list)
  BY <1>1 DEF Inv, FromTheList
<1>3. \A p \in sent' : p.kind = "heartbeat" /\ p.to \in Addresses(master)
  BY DEF QRY_HeartbeatMasters, Packet
<1>4. sent' \subseteq [kind : {"query", "heartbeat"}, to : Addr]
  <2>1. \A i \in DOMAIN master : master[i].addr \in Addr
    <3>1. \A i \in DOMAIN master : master[i] \in Master
      BY DEF Inv, TypeOK
    <3> QED
      BY <3>1 DEF Master
  <2>2. \A a \in Addresses(master) : a \in Addr
    BY <2>1 DEF Addresses
  <2> QED
    BY <2>2 DEF QRY_HeartbeatMasters, Packet
<1>5. TypeOK'
  BY <1>1, <1>4 DEF QRY_HeartbeatMasters, cvars, Inv, TypeOK, Stages
<1>6. PacketsFollowTheList'
  BY <1>1, <1>2, <1>3 DEF PacketsFollowTheList, OnTheList, Addresses
<1>7. FromTheList'
  BY <1>1, <1>2 DEF FromTheList
<1> QED
  BY <1>1, <1>5, <1>6, <1>7 DEF Inv, OneSlotPerMaster, NotBefore

(* What a query changes: next_query of the masters that are due, and the   *)
(* age of their last query.                                                *)
LEMMA Queried ==
  ASSUME Inv, QRY_QueryMasters
  PROVE  /\ master' \in Seq(Master)
         /\ DOMAIN master' = DOMAIN master
         /\ Len(master') = Len(master)
         /\ \A i \in DOMAIN master :
              /\ master'[i].addr = master[i].addr /\ master'[i].name = master[i].name
              /\ Due(i) => /\ master'[i].next_query = QueryTimeShort
                           /\ asked'[master[i].addr] = 0
              /\ ~Due(i) => /\ master'[i] = master[i]
                            /\ asked'[master[i].addr] = asked[master[i].addr]
         /\ \A a \in Addr \ Addresses(master) : asked'[a] = asked[a]
         /\ \A p \in sent' :
              p.kind = "query" /\ \E i \in DOMAIN master : Due(i) /\ p.to = master[i].addr
         /\ asked' \in [Addr -> 0..LongAsked]
         /\ sent' \subseteq [kind : {"query", "heartbeat"}, to : Addr]
<1> USE MastersAssumption
<1> DEFINE due == {i \in DOMAIN master : Due(i)}
           to  == {master[i].addr : i \in due}
<1>1. master \in Seq(Master) /\ \A i \in DOMAIN master : master[i] \in Master
  BY DEF Inv, TypeOK
<1>2. /\ master' = [i \in DOMAIN master |->
                      IF i \in due THEN [master[i] EXCEPT !.next_query = QueryTimeShort]
                      ELSE master[i]]
      /\ sent' = {Packet("query", a) : a \in to}
      /\ asked' = [a \in Addr |-> IF a \in to THEN 0 ELSE asked[a]]
  BY DEF QRY_QueryMasters
<1>3. ASSUME NEW i \in DOMAIN master
      PROVE  master'[i] \in Master
  <2>1. master[i] \in Master
    BY <1>1
  <2>2. [master[i] EXCEPT !.next_query = QueryTimeShort] \in Master
    BY <2>1 DEF Master
  <2> QED
    BY <1>2, <2>1, <2>2
<1>4. master' \in Seq(Master) /\ DOMAIN master' = DOMAIN master /\ Len(master') = Len(master)
  BY <1>1, <1>2, <1>3, Mapped
<1>5. \A a \in to : a \in Addr /\ a \in Addresses(master)
  BY <1>1 DEF Master, Addresses
<1>6. ASSUME NEW i \in DOMAIN master
      PROVE  /\ master'[i].addr = master[i].addr /\ master'[i].name = master[i].name
             /\ Due(i) => /\ master'[i].next_query = QueryTimeShort
                          /\ asked'[master[i].addr] = 0
             /\ ~Due(i) => /\ master'[i] = master[i]
                           /\ asked'[master[i].addr] = asked[master[i].addr]
  <2>1. master[i] \in Master /\ master[i].addr \in Addr
    BY <1>1 DEF Master
  <2>2. i \in due <=> master[i].addr \in to
    BY DEF Inv, OneSlotPerMaster
  <2> QED
    BY <1>2, <2>1, <2>2 DEF Master
<1>7. asked' \in [Addr -> 0..LongAsked]
  BY <1>2 DEF Inv, TypeOK, LongAsked
<1>8. sent' \subseteq [kind : {"query", "heartbeat"}, to : Addr]
  BY <1>2, <1>5 DEF Packet
<1>9. \A p \in sent' :
        p.kind = "query" /\ \E i \in DOMAIN master : Due(i) /\ p.to = master[i].addr
  BY <1>2 DEF Packet
<1> QED
  BY <1>2, <1>4, <1>5, <1>6, <1>7, <1>8, <1>9

LEMMA QueryKeeps ==
  ASSUME Inv, QRY_QueryMasters
  PROVE  Inv'
<1> USE MastersAssumption
<1>1. /\ heard' = heard /\ list' = list /\ todo' = todo /\ modified' = modified
      /\ stage = "query" /\ stage' = "heartbeat"
  BY DEF QRY_QueryMasters, cvars
<1>2. TypeOK'
  BY Queried DEF QRY_QueryMasters, cvars, Inv, TypeOK, Stages
<1>3. OneSlotPerMaster'
  BY Queried DEF Inv, OneSlotPerMaster
<1>4. FromTheList'
  BY <1>1, Queried DEF Inv, FromTheList
<1>5. PacketsFollowTheList'
  <2>1. \A i \in DOMAIN master : OnTheList(master[i].name, list)
    BY <1>1 DEF Inv, FromTheList
  <2> QED
    BY <1>1, <2>1, Queried DEF PacketsFollowTheList, OnTheList
<1>6. NotBefore'
  <2>1. Addresses(master') = Addresses(master)
    BY Queried DEF Addresses
  <2>2. ASSUME NEW i \in DOMAIN master'
        PROVE  /\ \/ asked'[master'[i].addr] = LongAsked
                  \/ master'[i].next_query >= QueryTimeShort - asked'[master'[i].addr]
               /\ \/ heard'[master'[i].addr] = LongHeard
                  \/ master'[i].next_query >= QueryTime - heard'[master'[i].addr]
    <3>1. i \in DOMAIN master /\ master[i] \in Master
      BY Queried DEF Inv, TypeOK
    <3>2. /\ heard[master[i].addr] \in 0..LongHeard
          /\ \/ heard[master[i].addr] = LongHeard
             \/ master[i].next_query >= QueryTime - heard[master[i].addr]
      BY <3>1 DEF Inv, TypeOK, NotBefore, Master
    <3>3. CASE Due(i)
      <4>1. master[i].next_query \in -1..QueryTime /\ master[i].next_query < 0
        BY <3>1, <3>3 DEF Due, Master
      <4>2. heard[master[i].addr] = LongHeard
        BY <3>2, <4>1 DEF LongHeard
      <4>3. /\ master'[i].addr = master[i].addr
            /\ master'[i].next_query = QueryTimeShort
            /\ asked'[master[i].addr] = 0
        BY <3>1, <3>3, Queried
      <4> QED
        BY <1>1, <4>2, <4>3
    <3>4. CASE ~Due(i)
      BY <1>1, <3>1, <3>4, Queried DEF Inv, NotBefore
    <3> QED
      BY <3>3, <3>4
  <2> QED
    BY <1>1, <2>1, <2>2, Queried DEF Inv, NotBefore
<1> QED
  BY <1>2, <1>3, <1>4, <1>5, <1>6 DEF Inv

(* An answer puts off the query of the one master it comes from.           *)
LEMMA ReplyKeeps ==
  ASSUME Inv, NEW a \in Addr, SVC_QRY_ParseMasterReply(a)
  PROVE  Inv'
<1> USE MastersAssumption
<1>1. /\ asked' = asked /\ list' = list /\ todo' = todo /\ modified' = modified
      /\ stage = "commands" /\ stage' = stage /\ sent' = {}
      /\ heard' = [heard EXCEPT ![a] = 0]
      /\ a \in Addresses(master)
  BY DEF SVC_QRY_ParseMasterReply, cvars
<1>2. \A i \in DOMAIN master : master[i] \in Master
  BY DEF Inv, TypeOK
<1>3. master' = [i \in DOMAIN master |->
                   IF master[i].addr = a
                   THEN [master[i] EXCEPT !.next_query = QueryTime] ELSE master[i]]
  BY DEF SVC_QRY_ParseMasterReply, PutOff
<1>4. ASSUME NEW i \in DOMAIN master
      PROVE  /\ master'[i] \in Master
             /\ master'[i].addr = master[i].addr /\ master'[i].name = master[i].name
             /\ master[i].addr = a => master'[i].next_query = QueryTime
             /\ master[i].addr # a => master'[i] = master[i]
  <2>1. master[i] \in Master
    BY <1>2
  <2>2. [master[i] EXCEPT !.next_query = QueryTime] \in Master
    BY <2>1 DEF Master
  <2> QED
    BY <1>3, <2>1, <2>2 DEF Master
<1>5. master' \in Seq(Master) /\ DOMAIN master' = DOMAIN master /\ Len(master') = Len(master)
  <2>1. master \in Seq(Master)
    BY DEF Inv, TypeOK
  <2>2. master' = [i \in DOMAIN master |-> master'[i]]
    BY <1>3
  <2>3. \A i \in DOMAIN master : master'[i] \in Master
    BY <1>4
  <2> QED
    BY <2>1, <2>2, <2>3, Mapped
<1>6. heard \in [Addr -> 0..LongHeard] /\ asked \in [Addr -> 0..LongAsked]
  BY DEF Inv, TypeOK
<1>7. heard' \in [Addr -> 0..LongHeard]
  BY <1>1, <1>6 DEF LongHeard
<1>8. TypeOK'
  BY <1>5, <1>7 DEF SVC_QRY_ParseMasterReply, cvars, Inv, TypeOK
<1>9. OneSlotPerMaster'
  BY <1>4, <1>5 DEF Inv, OneSlotPerMaster
<1>10. FromTheList'
  BY <1>1, <1>4, <1>5 DEF Inv, FromTheList
<1>11. NotBefore'
  <2>1. Addresses(master') = Addresses(master)
    BY <1>4, <1>5 DEF Addresses
  <2>2. ASSUME NEW i \in DOMAIN master'
        PROVE  /\ \/ asked'[master'[i].addr] = LongAsked
                  \/ master'[i].next_query >= QueryTimeShort - asked'[master'[i].addr]
               /\ \/ heard'[master'[i].addr] = LongHeard
                  \/ master'[i].next_query >= QueryTime - heard'[master'[i].addr]
    <3>1. i \in DOMAIN master /\ master[i] \in Master
      BY <1>2, <1>5
    <3>2. asked[master[i].addr] \in Nat
      BY <1>6, <3>1 DEF Master, LongAsked
    <3>3. CASE master[i].addr = a
      <4>1. heard'[a] = 0
        BY <1>1, <1>6
      <4> QED
        BY <1>1, <1>4, <3>1, <3>2, <3>3, <4>1
    <3>4. CASE master[i].addr # a
      <4>1. heard'[master[i].addr] = heard[master[i].addr]
        BY <1>1, <1>6, <3>1, <3>4 DEF Master
      <4> QED
        BY <1>1, <1>4, <3>1, <3>4, <4>1 DEF Inv, NotBefore
    <3> QED
      BY <3>3, <3>4
  <2> QED
    BY <1>1, <1>6, <2>1, <2>2 DEF Inv, NotBefore
<1> QED
  BY <1>1, <1>8, <1>9, <1>10, <1>11 DEF Inv, PacketsFollowTheList

(* A second lets the ages grow and what next_query is short of shrink.     *)
LEMMA TickKeeps ==
  ASSUME Inv, Tick
  PROVE  Inv'
<1> USE MastersAssumption
<1>1. /\ list' = list /\ todo' = todo /\ modified' = modified
      /\ stage' = stage /\ sent' = {}
      /\ asked' = [a \in Addr |-> Older(asked[a], LongAsked)]
      /\ heard' = [a \in Addr |-> Older(heard[a], LongHeard)]
  BY DEF Tick, cvars
<1>2. \A i \in DOMAIN master : master[i] \in Master
  BY DEF Inv, TypeOK
<1>3. master' = [i \in DOMAIN master |->
                   IF master[i].next_query >= 0
                   THEN [master[i] EXCEPT !.next_query = @ - 1] ELSE master[i]]
  BY DEF Tick
<1>4. ASSUME NEW i \in DOMAIN master
      PROVE  /\ master'[i] \in Master
             /\ master'[i].addr = master[i].addr /\ master'[i].name = master[i].name
             /\ master[i].next_query >= 0 => master'[i].next_query = master[i].next_query - 1
             /\ master[i].next_query < 0 => master'[i] = master[i]
  <2>1. master[i] \in Master /\ master[i].next_query \in -1..QueryTime
    BY <1>2 DEF Master
  <2>2. CASE master[i].next_query >= 0
    <3>1. master'[i] = [master[i] EXCEPT !.next_query = master[i].next_query - 1]
      BY <1>3, <2>2
    <3>2. master[i].next_query - 1 \in -1..QueryTime
      BY <2>1, <2>2
    <3> QED
      BY <2>1, <2>2, <3>1, <3>2 DEF Master
  <2>3. CASE master[i].next_query < 0
    BY <1>3, <2>1, <2>3
  <2> QED
    BY <2>1, <2>2, <2>3
<1>5. master' \in Seq(Master) /\ DOMAIN master' = DOMAIN master /\ Len(master') = Len(master)
  <2>1. master \in Seq(Master)
    BY DEF Inv, TypeOK
  <2>2. master' = [i \in DOMAIN master |-> master'[i]]
    BY <1>3
  <2>3. \A i \in DOMAIN master : master'[i] \in Master
    BY <1>4
  <2> QED
    BY <2>1, <2>2, <2>3, Mapped
<1>6. heard \in [Addr -> 0..LongHeard] /\ asked \in [Addr -> 0..LongAsked]
  BY DEF Inv, TypeOK
<1>7. heard' \in [Addr -> 0..LongHeard] /\ asked' \in [Addr -> 0..LongAsked]
  BY <1>1, <1>6 DEF LongHeard, LongAsked, Older
<1>8. TypeOK'
  BY <1>5, <1>7 DEF Tick, cvars, Inv, TypeOK, Older
<1>9. OneSlotPerMaster'
  BY <1>4, <1>5 DEF Inv, OneSlotPerMaster
<1>10. FromTheList'
  BY <1>1, <1>4, <1>5 DEF Inv, FromTheList
<1>11. NotBefore'
  <2>1. Addresses(master') = Addresses(master)
    BY <1>4, <1>5 DEF Addresses
  <2>2. ASSUME NEW i \in DOMAIN master'
        PROVE  /\ \/ asked'[master'[i].addr] = LongAsked
                  \/ master'[i].next_query >= QueryTimeShort - asked'[master'[i].addr]
               /\ \/ heard'[master'[i].addr] = LongHeard
                  \/ master'[i].next_query >= QueryTime - heard'[master'[i].addr]
    <3> DEFINE b == master[i].addr
    <3>1. i \in DOMAIN master /\ b \in Addr /\ master[i].next_query \in -1..QueryTime
      BY <1>2, <1>5 DEF Master
    <3>2. asked[b] \in 0..LongAsked /\ heard[b] \in 0..LongHeard
      BY <1>6, <3>1
    <3>3. asked'[b] = Older(asked[b], LongAsked) /\ heard'[b] = Older(heard[b], LongHeard)
      BY <1>1, <3>1
    <3>4. /\ asked[b] = LongAsked \/ master[i].next_query >= QueryTimeShort - asked[b]
          /\ heard[b] = LongHeard \/ master[i].next_query >= QueryTime - heard[b]
      BY <3>1 DEF Inv, NotBefore
    <3>5. /\ master'[i].addr = b
          /\ master[i].next_query >= 0 => master'[i].next_query = master[i].next_query - 1
          /\ master[i].next_query < 0 => master'[i].next_query = master[i].next_query
      BY <1>4, <3>1
    <3> HIDE DEF b
    <3>6. \/ asked'[b] = LongAsked
          \/ master'[i].next_query >= QueryTimeShort - asked'[b]
      BY <3>1, <3>2, <3>3, <3>4, <3>5 DEF Older, LongAsked
    <3>7. \/ heard'[b] = LongHeard
          \/ master'[i].next_query >= QueryTime - heard'[b]
      BY <3>1, <3>2, <3>3, <3>4, <3>5 DEF Older, LongHeard
    <3> QED
      BY <3>5, <3>6, <3>7
  <2>3. \A a \in Addr \ Addresses(master') : asked'[a] = LongAsked /\ heard'[a] = LongHeard
    BY <1>1, <2>1 DEF Inv, NotBefore, Older, LongAsked, LongHeard
  <2> QED
    BY <2>2, <2>3 DEF NotBefore
<1> QED
  BY <1>1, <1>8, <1>9, <1>10, <1>11 DEF Inv, PacketsFollowTheList

-----------------------------------------------------------------------------
(* The conjunction is inductive.                                           *)
THEOREM Invariance ==
  Spec => []Inv
<1>1. Init => Inv
  BY Initially
<1>2. Inv /\ [Next]_vars => Inv'
  <2> SUFFICES ASSUME Inv, [Next]_vars PROVE Inv'
    OBVIOUS
  <2>1. CASE Frame
    BY <2>1, ReInitKeeps, AddMasterKeeps, QuietKeeps, QueryKeeps, HeartbeatKeeps DEF Frame
  <2>2. CASE \E a \in Addr : SVC_QRY_ParseMasterReply(a)
    BY <2>2, ReplyKeeps
  <2>3. CASE \/ QRY_Cmd_Heartbeat_f
             \/ \E l \in Lists : SetMasters(l)
             \/ \E b \in BOOLEAN : SetMastersQuery(b) \/ SetMastersHeartbeat(b)
             \/ \E r \in Resolutions : DnsChanges(r)
    BY <2>3, QuietKeeps
  <2>4. CASE Tick
    BY <2>4, TickKeeps
  <2>5. CASE UNCHANGED vars
    BY <2>5 DEF vars, Inv, TypeOK, OneSlotPerMaster, PacketsFollowTheList, FromTheList,
                NotBefore
  <2> QED
    BY <2>1, <2>2, <2>3, <2>4, <2>5 DEF Next
<1> QED
  BY <1>1, <1>2, PTL DEF Spec

(* The types of the variables, the bound of the array among them.          *)
THEOREM TypeCorrect ==
  Spec => []TypeOK
<1>1. Inv => TypeOK
  BY DEF Inv
<1> QED
  BY <1>1, Invariance, PTL

(* No master has two slots, however names resolve (QRY_AddMaster).         *)
THEOREM NoDoubleMaster ==
  Spec => []OneSlotPerMaster
<1>1. Inv => OneSlotPerMaster
  BY DEF Inv
<1> QED
  BY <1>1, Invariance, PTL

(* Packets only go to masters of the present list.                         *)
THEOREM OnlyToTheList ==
  Spec => []PacketsFollowTheList
<1>1. Inv => PacketsFollowTheList
  BY DEF Inv
<1> QED
  BY <1>1, Invariance, PTL

(* A master is left alone after a query and after an answer, for any       *)
(* number of masters and any two intervals of which the short one is not   *)
(* the longer (QRY_QueryMasters, SVC_QRY_ParseMasterReply).                *)
THEOREM LeftAlone ==
  Spec => QueriesSpaced
<1> USE MastersAssumption
<1> DEFINE Spaced == \A a \in Addr : Packet("query", a) \in sent'
                       => asked[a] > QueryTimeShort /\ heard[a] > QueryTime
<1>1. Inv /\ [Next]_vars => [Spaced]_vars
  <2> SUFFICES ASSUME Inv, Next, NEW a \in Addr, Packet("query", a) \in sent'
               PROVE  asked[a] > QueryTimeShort /\ heard[a] > QueryTime
    BY DEF QueriesSpaced
  <2>1. QRY_QueryMasters
    BY DEF Next, Frame, QRY_Frame, ReInit, NotModified, QRY_AddMaster, Added,
           QRY_HeartbeatMasters, SVC_QRY_ParseMasterReply, QRY_Cmd_Heartbeat_f, SetMasters,
           SetMastersQuery, SetMastersHeartbeat, DnsChanges, Tick, Packet
  <2>2. PICK i \in DOMAIN master : Due(i) /\ a = master[i].addr
    BY <2>1, Queried DEF Packet
  <2>3. master[i].next_query \in -1..QueryTime /\ master[i].next_query < 0
    <3>1. master[i] \in Master
      BY <2>2 DEF Inv, TypeOK
    <3> QED
      BY <2>2, <3>1 DEF Master, Due
  <2>4. asked[a] \in 0..LongAsked /\ heard[a] \in 0..LongHeard
    BY DEF Inv, TypeOK
  <2>5. /\ asked[a] = LongAsked \/ master[i].next_query >= QueryTimeShort - asked[a]
        /\ heard[a] = LongHeard \/ master[i].next_query >= QueryTime - heard[a]
    BY <2>2 DEF Inv, NotBefore
  <2> QED
    BY <2>3, <2>4, <2>5 DEF LongAsked, LongHeard
<1> QED
  BY <1>1, Invariance, PTL DEF Spec, QueriesSpaced
=============================================================================
