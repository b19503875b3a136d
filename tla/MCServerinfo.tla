---------------------------- MODULE MCServerinfo ----------------------------
(***************************************************************************)
(* Serverinfo on small instances.                                          *)
(***************************************************************************)
EXTENDS Serverinfo

Strings == {"", "0", "1", "ab", "a\tb", "\t", "long", "toolong", "q\"", "*v", "host", "HOST",
            "key", "port"}

SomeStar == {"*v"}

SomeUnquotable == {"q\""}

Lengths == [s \in Strings |-> Len(s)]

(* A tab is a control character, and may be all there is.                  *)
Printed ==
  [s \in Strings |-> CASE s = "a\tb" -> "ab" [] s = "\t" -> "" [] OTHER -> s]

LowerCase == [s \in Strings |-> IF s = "HOST" THEN "host" ELSE s]

SomeNames == {"*v", "host", "HOST", "key", "port"}

SomeValues == {"", "a\tb", "\t", "long", "toolong", "q\""}

(* A readonly one, a mirrored one and, after the configuration, one that   *)
(* cannot be set from the console.                                         *)
Variables ==
  <<[name |-> "*v",   value |-> "1",  flags |-> {"readonly", "serverinfo"}],
    [name |-> "host", value |-> "ab", flags |-> {"serverinfo"}],
    [name |-> "port", value |-> "0",  flags |-> {"noset"}]>>
=============================================================================
