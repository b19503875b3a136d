------------------------------ MODULE MCConsole ------------------------------
(***************************************************************************)
(* Console on small instances.                                             *)
(***************************************************************************)
EXTENDS Console

CONSTANTS k1, k2, h1, h2, h3

White(a) == Whitelisting("whitelistadd", a)

(* One file has its wait before all of the list, and an alias that bans;   *)
(* the other fills the list, so that an address is refused, waits before   *)
(* it makes room, and names an alias like a command to come.               *)
TwoConfigs ==
  {<<Alias("block", <<BanIP(k1, 0)>>), Plain("wait"), White(h1)>>,
   <<Alias("addip", <<Plain("other")>>), White(h3), Plain("whitelistpurge"), White(h1), White(h2), White(h3),
     Plain("wait"), Whitelisting("whitelistremove", h1)>>}

(* An alias that keeps k2 from being banned, for as long as it is there.   *)
Guard == Alias("guard", <<RemoveIP(k2), Plain("wait"), Plain("guard")>>)

(* Bans for a second and for ever, their removal, and what an              *)
(* administrator may put between.                                          *)
SomeLines ==
  {<<BanIP(k1, 0)>>, <<BanIP(k2, 1), Plain("wait"), Plain("quit")>>,
   <<BanRemove(0)>>, <<If(<<Plain("block")>>, <<>>)>>,
   <<Guard, Plain("guard")>>, <<UnAlias("guard")>>, <<Plain("unaliasall")>>,
   <<Plain("other"), AddIP(k1, "safe", 0, "epoch")>>}

Of(t, op) == {t[i] : i \in {i \in DOMAIN t : t[i].op = op}}

TextsOf(t) ==
  {t} \cup {c.text : c \in Of(t, "alias")}
      \cup {c.then : c \in Of(t, "if")} \cup {c.else : c \in Of(t, "if")}

(* Every command of the files, of the lines and of the texts in them.      *)
SomeCommands ==
  UNION {{t[i] : i \in DOMAIN t} :
           t \in UNION {TextsOf(u) : u \in TwoConfigs \cup SomeLines}}

OneConfig == {<<>>}

BanLines == {<<BanIP(k, 0)>> : k \in Key}

BanCommandsOnly == {BanIP(k, 0) : k \in Key}
=============================================================================
