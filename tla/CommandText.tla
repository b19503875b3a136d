----------------------------- MODULE CommandText -----------------------------
(***************************************************************************)
(* What the command buffer promises: a text of limited length.  Text is    *)
(* put in before or behind it, whole or not at all, and the first line is  *)
(* taken out.  CommandBuffer keeps it in an array of bytes.                *)
(***************************************************************************)
EXTENDS Integers, Sequences, FiniteSets

CONSTANTS
  Char,      \* bytes
  NL,        \* the byte \n
  Semi,      \* the byte ;
  Quote,     \* the byte "
  MaxBuf,    \* MAXCMDBUF
  MaxLine,   \* size of a line with its end
  Inserted,  \* texts that are inserted
  Added      \* texts that are added

VARIABLES
  text,  \* what is pending
  line   \* the line taken last

-----------------------------------------------------------------------------
(* The lines of a text end at a newline, or at a semicolon that an even    *)
(* number of quotes precedes.                                              *)
Quotes(s, i) == Cardinality({j \in 1..(i - 1) : s[j] = Quote})

Breaks(s, i) == s[i] = NL \/ (s[i] = Semi /\ Quotes(s, i) % 2 = 0)

FirstBreaks(s) ==
  {i \in 1..Len(s) : Breaks(s, i) /\ \A j \in 1..(i - 1) : ~Breaks(s, j)}

(* The bytes before the first break.                                       *)
LineLen(s) == IF FirstBreaks(s) = {} THEN Len(s)
              ELSE (CHOOSE i \in FirstBreaks(s) : TRUE) - 1

(* A line that is too long is thrown away.  The code also takes a DOS end  *)
(* of line, one \r, off the copy; that byte is left in here.               *)
LineOf(s) == IF LineLen(s) < MaxLine THEN SubSeq(s, 1, LineLen(s)) ELSE <<>>

Fits(s) == Len(s) <= MaxBuf

Insert(t) ==
  /\ text' = IF Fits(t \o <<NL>> \o text) THEN t \o <<NL>> \o text ELSE text
  /\ UNCHANGED line

Add(t) ==
  /\ text' = IF Fits(text \o t) THEN text \o t ELSE text
  /\ UNCHANGED line

Take ==
  /\ text # <<>>
  /\ line' = LineOf(text)
  /\ text' = SubSeq(text, LineLen(text) + 2, Len(text))

TextInit == text = <<>> /\ line = <<>>

TextNext ==
  \/ \E t \in Inserted : Insert(t)
  \/ \E t \in Added : Add(t)
  \/ Take

TextSpec == TextInit /\ [][TextNext]_<<text, line>>
=============================================================================
