---------------------------- MODULE CommandBuffer ----------------------------
(***************************************************************************)
(* The command buffer as cmd.c keeps it: an array of bytes with the        *)
(* pending text somewhere in it.  The text grows at both ends and is moved *)
(* to the middle when it meets an end of the array.                        *)
(*                                                                         *)
(* Cbuf_AddTextEx moves it with memcpy although the two places overlap.    *)
(* What C leaves undefined there is the order in which bytes are copied:   *)
(* CopyOrders are those of the libraries considered.                       *)
(***************************************************************************)
EXTENDS Integers, Sequences

CONSTANTS Char, Zero, NL, Semi, Quote, MaxBuf, MaxLine, Inserted, Added,
          CopyOrders    \* of memcpy: "up", from the first byte on, or "down"

ASSUME BufferAssumption ==
  /\ NL \in Char /\ Zero \in Char
  /\ MaxBuf \in Nat \ {0} /\ MaxLine \in Nat
  /\ Inserted \subseteq Seq(Char) /\ Added \subseteq Seq(Char)
  /\ CopyOrders \subseteq {"up", "down"}

VARIABLES
  text_buf,    \* the bytes; index 1 is byte 0
  text_start,  \* bytes before the text
  text_end,    \* bytes up to its end
  line         \* the line given to Cmd_ExecuteString last

vars == <<text_buf, text_start, text_end, line>>

Size == text_end - text_start

(* The pending text.                                                       *)
Text == [i \in 1..Size |-> text_buf[text_start + i]]

Abstract == INSTANCE CommandText WITH text <- Text

-----------------------------------------------------------------------------
(* The array b after the bytes s were written behind position p.           *)
Written(b, p, s) == [i \in DOMAIN b |-> IF i - p \in DOMAIN s THEN s[i - p] ELSE b[i]]

(* The n bytes behind position p.                                          *)
Bytes(b, p, n) == [i \in 1..n |-> b[p + i]]

(* memcpy of n bytes from position `from' to an earlier one.  Copying down *)
(* a byte that was overwritten before is read again.                       *)
Copied(b, from, to, n, order) ==
  LET gap  == from - to
      i(j) == IF order = "up" THEN j ELSE j + ((n - j) \div gap) * gap
  IN  Written(b, to, [j \in 1..n |-> b[from + i(j)]])

Middle(size) == (MaxBuf - size) \div 2

(* At the end, with the array as it is ...                                 *)
AddBehind(t) ==
  /\ text_end + Len(t) <= MaxBuf
  /\ text_buf' = Written(text_buf, text_end, t)
  /\ text_end' = text_end + Len(t)
  /\ UNCHANGED <<text_start, line>>

(* ... or with the text moved to the middle.                               *)
AddMoved(t) ==
  /\ text_end + Len(t) > MaxBuf
  /\ Size + Len(t) <= MaxBuf
  /\ LET new_start == Middle(Size + Len(t))
     IN  /\ \E order \in CopyOrders :
              text_buf' = Written(Copied(text_buf, text_start, new_start, Size, order),
                                  new_start + Size, t)
         /\ text_start' = new_start
         /\ text_end' = new_start + Size + Len(t)
  /\ UNCHANGED line

AddOverflow(t) ==
  /\ text_end + Len(t) > MaxBuf
  /\ Size + Len(t) > MaxBuf
  /\ UNCHANGED vars

Cbuf_AddTextEx(t) == AddBehind(t) \/ AddMoved(t) \/ AddOverflow(t)

(* A newline goes between the text inserted and the rest.                  *)
MutBeforeStart(t) ==    \* mutant: the test forgets the newline
  /\ Len(t) <= text_start
  /\ text_buf' = Written(text_buf, text_start - Len(t) - 1, Append(t, NL))
  /\ text_start' = text_start - Len(t) - 1
  /\ UNCHANGED <<text_end, line>>

MutInsertBefore(t) ==    \* mutant: no newline is written
  /\ Len(t) < text_start
  /\ text_buf' = Written(text_buf, text_start - Len(t) - 1, t)
  /\ text_start' = text_start - Len(t) - 1
  /\ UNCHANGED <<text_end, line>>

InsertBefore(t) ==
  /\ Len(t) < text_start
  /\ text_buf' = Written(text_buf, text_start - Len(t) - 1, Append(t, NL))
  /\ text_start' = text_start - Len(t) - 1
  /\ UNCHANGED <<text_end, line>>

MutInsertMoved(t) ==    \* mutant: the bytes are moved after the new ones are written
  /\ Len(t) >= text_start
  /\ Size + Len(t) + 1 <= MaxBuf
  /\ LET new_start == Middle(Size + Len(t) + 1)
         put       == Written(text_buf, new_start, Append(t, NL))
     IN  /\ text_buf' = Written(put, new_start + Len(t) + 1, Bytes(put, text_start, Size))
         /\ text_start' = new_start
         /\ text_end' = new_start + Size + Len(t) + 1
  /\ UNCHANGED line

InsertMoved(t) ==
  /\ Len(t) >= text_start
  /\ Size + Len(t) + 1 <= MaxBuf
  /\ LET new_start == Middle(Size + Len(t) + 1)
         moved     == Written(text_buf, new_start + Len(t) + 1,
                              Bytes(text_buf, text_start, Size))
     IN  /\ text_buf' = Written(moved, new_start, Append(t, NL))
         /\ text_start' = new_start
         /\ text_end' = new_start + Size + Len(t) + 1
  /\ UNCHANGED line

InsertOverflow(t) ==
  /\ Len(t) >= text_start
  /\ Size + Len(t) + 1 > MaxBuf
  /\ UNCHANGED vars

Cbuf_InsertTextEx(t) == InsertBefore(t) \/ InsertMoved(t) \/ InsertOverflow(t)

(* One turn of the loop of Cbuf_ExecuteEx, up to Cmd_ExecuteString, which  *)
(* may insert and add.  An empty buffer starts in the middle again.        *)
Cbuf_ExecuteEx ==
  /\ text_end > text_start
  /\ line' = Abstract!LineOf(Text)
  /\ LET i == Abstract!LineLen(Text)
     IN  IF i = Size
         THEN text_start' = MaxBuf \div 2 /\ text_end' = MaxBuf \div 2
         ELSE text_start' = text_start + i + 1 /\ UNCHANGED text_end
  /\ UNCHANGED text_buf

Cbuf_Init ==
  /\ text_buf = [i \in 1..MaxBuf |-> Zero]
  /\ text_start = MaxBuf \div 2
  /\ text_end = MaxBuf \div 2
  /\ line = <<>>

Next ==
  \/ \E t \in Inserted : Cbuf_InsertTextEx(t)
  \/ \E t \in Added : Cbuf_AddTextEx(t)
  \/ Cbuf_ExecuteEx

Spec == Cbuf_Init /\ [][Next]_vars

-----------------------------------------------------------------------------
(* The text stays within the array, at both ends.                          *)
TypeOK ==
  /\ text_buf \in [1..MaxBuf -> Char]
  /\ text_start \in 0..MaxBuf
  /\ text_end \in text_start..MaxBuf
  /\ line \in Seq(Char)

(* Pending commands never run into each other: what Cbuf_AddTextEx is      *)
(* given goes right behind the pending text, without a newline before it,  *)
(* so that this text must always end in one (ban.c:451).                   *)
EndsInNewline == Size > 0 => text_buf[text_end] = NL

(* The array with its two ends behaves as the text it stands for: every    *)
(* text goes in whole or not at all, where it belongs, nothing pending is  *)
(* lost or changed by being moved, and the same lines come out.            *)
ImplementsText == Abstract!TextSpec
=============================================================================
