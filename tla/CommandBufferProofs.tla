------------------------- MODULE CommandBufferProofs -------------------------
(***************************************************************************)
(* Proofs about CommandBuffer, for an array of any size: the text stays in *)
(* the array, pending commands stay apart, and the array implements        *)
(* CommandText.  They assume that memcpy copies up, which is what moving   *)
(* to an earlier place needs, and that what is added ends in a newline.    *)
(***************************************************************************)
EXTENDS CommandBuffer, TLAPS, SequenceTheorems

(* The bytes of array b behind position st, up to en.                      *)
Part(b, st, en) == [i \in 1..(en - st) |-> b[st + i]]

AreLines(texts) == \A t \in texts : Len(t) > 0 => t[Len(t)] = NL

LEMMA PartIsText ==
  ASSUME NEW b \in [1..MaxBuf -> Char], NEW st \in 0..MaxBuf, NEW en \in st..MaxBuf
  PROVE  /\ Part(b, st, en) \in Seq(Char)
         /\ Len(Part(b, st, en)) = en - st
         /\ \A i \in 1..(en - st) : Part(b, st, en)[i] = b[st + i]
<1>1. en - st \in Nat
  BY BufferAssumption
<1>2. \A i \in 1..(en - st) : b[st + i] \in Char
  BY BufferAssumption
<1>3. Part(b, st, en) \in [1..(en - st) -> Char]
  BY <1>2 DEF Part
<1>4. QED
  BY <1>1, <1>3 DEF Part

(* The first line is a part of the text, without the byte that ends it.    *)
LEMMA LineFacts ==
  ASSUME NEW s \in Seq(Char)
  PROVE  /\ Abstract!LineLen(s) \in 0..Len(s)
         /\ Abstract!LineOf(s) \in Seq(Char)
<1>1. Abstract!LineLen(s) \in 0..Len(s)
  <2>1. CASE Abstract!FirstBreaks(s) = {}
    BY <2>1 DEF Abstract!LineLen
  <2>2. CASE Abstract!FirstBreaks(s) # {}
    <3>1. (CHOOSE i \in Abstract!FirstBreaks(s) : TRUE) \in Abstract!FirstBreaks(s)
      BY <2>2
    <3>2. (CHOOSE i \in Abstract!FirstBreaks(s) : TRUE) \in 1..Len(s)
      BY <3>1 DEF Abstract!FirstBreaks
    <3>3. Abstract!LineLen(s) = (CHOOSE i \in Abstract!FirstBreaks(s) : TRUE) - 1
      BY <2>2 DEF Abstract!LineLen
    <3>4. QED
      BY <3>2, <3>3
  <2>3. QED
    BY <2>1, <2>2
<1>2. SubSeq(s, 1, Abstract!LineLen(s)) \in Seq(Char)
  BY <1>1, SubSeqProperties, ElementOfSeq
<1>3. QED
  BY <1>1, <1>2 DEF Abstract!LineOf

(* Writing a sequence that fits leaves an array of bytes, in which it      *)
(* stands where it was put, with everything else as it was.                *)
LEMMA WrittenFacts ==
  ASSUME NEW b \in [1..MaxBuf -> Char], NEW p \in 0..MaxBuf, NEW s \in Seq(Char),
         p + Len(s) <= MaxBuf
  PROVE  /\ Written(b, p, s) \in [1..MaxBuf -> Char]
         /\ \A i \in 1..Len(s) : Written(b, p, s)[p + i] = s[i]
         /\ \A i \in 1..MaxBuf : i <= p \/ i > p + Len(s) => Written(b, p, s)[i] = b[i]
<1>1. DOMAIN s = 1..Len(s) /\ Len(s) \in Nat /\ \A i \in 1..Len(s) : s[i] \in Char
  OBVIOUS
<1>2. DOMAIN b = 1..MaxBuf
  OBVIOUS
<1>3. \A i \in 1..MaxBuf : Written(b, p, s)[i] = IF i - p \in 1..Len(s) THEN s[i - p] ELSE b[i]
  BY <1>1, <1>2 DEF Written
<1>4. Written(b, p, s) \in [1..MaxBuf -> Char]
  BY <1>1, <1>2 DEF Written
<1>5. ASSUME NEW i \in 1..Len(s)
      PROVE  Written(b, p, s)[p + i] = s[i]
  <2>1. p + i \in 1..MaxBuf /\ (p + i) - p = i
    BY <1>1, BufferAssumption
  <2>2. QED
    BY <1>3, <2>1
<1>6. ASSUME NEW i \in 1..MaxBuf, i <= p \/ i > p + Len(s)
      PROVE  Written(b, p, s)[i] = b[i]
  BY <1>1, <1>3, <1>6, BufferAssumption
<1>7. QED
  BY <1>4, <1>5, <1>6

(* Copying up, the bytes arrive as they were.                              *)
LEMMA CopiedUp ==
  ASSUME NEW b, NEW from, NEW to, NEW n
  PROVE  Copied(b, from, to, n, "up") = Written(b, to, Bytes(b, from, n))
BY DEF Copied, Bytes

(* An array that has the bytes of s in a place reads as s there.           *)
LEMMA Reads ==
  ASSUME NEW b \in [1..MaxBuf -> Char], NEW st \in 0..MaxBuf, NEW en \in st..MaxBuf,
         NEW s \in Seq(Char), Len(s) = en - st,
         \A i \in 1..Len(s) : b[st + i] = s[i]
  PROVE  Part(b, st, en) = s
<1>1. /\ Part(b, st, en) \in Seq(Char)
      /\ Len(Part(b, st, en)) = Len(s)
      /\ \A i \in 1..Len(s) : Part(b, st, en)[i] = s[i]
  BY PartIsText
<1>2. \A i \in 1..Len(Part(b, st, en)) : Part(b, st, en)[i] = s[i]
  BY <1>1
<1>3. QED
  BY <1>1, <1>2, SeqEqual

LEMMA TextFacts ==
  ASSUME TypeOK
  PROVE  /\ Text = Part(text_buf, text_start, text_end)
         /\ Text \in Seq(Char)
         /\ Len(Text) = Size
         /\ Size \in Nat
         /\ \A i \in 1..Size : Text[i] = text_buf[text_start + i]
<1>1. Text = Part(text_buf, text_start, text_end)
  BY DEF Text, Part, Size
<1>2. text_buf \in [1..MaxBuf -> Char] /\ text_start \in 0..MaxBuf
      /\ text_end \in text_start..MaxBuf
  BY DEF TypeOK
<1>3. Size \in Nat /\ Size = text_end - text_start
  BY <1>2, BufferAssumption DEF Size
<1>4. QED
  BY <1>1, <1>2, <1>3, PartIsText

LEMMA TextFactsNext ==
  ASSUME TypeOK'
  PROVE  Text' = Part(text_buf', text_start', text_end')
BY DEF Text, Part, Size

(* A step to an array with s in it, where s ends in a newline if anything  *)
(* does, is a step to the text s.                                          *)
LEMMA Becomes ==
  ASSUME TypeOK', NEW s \in Seq(Char), Len(s) = text_end' - text_start',
         \A i \in 1..Len(s) : text_buf'[text_start' + i] = s[i]
  PROVE  /\ Text' = s
         /\ (Len(s) > 0 => s[Len(s)] = NL) => EndsInNewline'
<1>1. Text' = s
  BY TextFactsNext, Reads DEF TypeOK
<1>2. ASSUME Len(s) > 0, s[Len(s)] = NL
      PROVE  EndsInNewline'
  <2>1. Len(s) \in 1..Len(s)
    BY <1>2
  <2>2. text_buf'[text_start' + Len(s)] = NL
    BY <1>2, <2>1
  <2>3. text_start' + Len(s) = text_end'
    <3>1. text_start' \in Int /\ text_end' \in Int
      BY BufferAssumption DEF TypeOK
    <3>2. \A st \in Int, en \in Int : st + (en - st) = en
      OBVIOUS
    <3>3. QED
      BY <3>1, <3>2
  <2>4. QED
    BY <2>2, <2>3 DEF EndsInNewline
<1>3. CASE Len(s) = 0
  <2>1. Size' = 0
    BY <1>3 DEF Size
  <2>2. ~(Size' > 0)
    BY <2>1
  <2>3. QED
    BY <1>1, <2>2 DEF EndsInNewline
<1>4. QED
  BY <1>1, <1>2, <1>3

(* Two sequences written one behind the other, in either order, read as    *)
(* their concatenation.                                                    *)
LEMMA BothWritten ==
  ASSUME NEW b \in [1..MaxBuf -> Char], NEW st \in 0..MaxBuf,
         NEW s \in Seq(Char), NEW t \in Seq(Char), st + Len(s) + Len(t) <= MaxBuf
  PROVE  \A nb \in {Written(Written(b, st, s), st + Len(s), t),
                     Written(Written(b, st + Len(s), t), st, s)} :
           /\ nb \in [1..MaxBuf -> Char]
           /\ \A i \in 1..Len(s \o t) : nb[st + i] = (s \o t)[i]
<1> SUFFICES ASSUME NEW nb,
                    \/ nb = Written(Written(b, st, s), st + Len(s), t)
                    \/ nb = Written(Written(b, st + Len(s), t), st, s)
             PROVE  /\ nb \in [1..MaxBuf -> Char]
                    /\ \A i \in 1..Len(s \o t) : nb[st + i] = (s \o t)[i]
  OBVIOUS
<1>1. /\ Len(s) \in Nat /\ Len(t) \in Nat /\ MaxBuf \in Nat /\ st \in Nat
      /\ st + Len(s) \in 0..MaxBuf /\ (st + Len(s)) + Len(t) <= MaxBuf
  BY BufferAssumption
<1>2. /\ s \o t \in Seq(Char) /\ Len(s \o t) = Len(s) + Len(t)
      /\ \A i \in 1..(Len(s) + Len(t)) :
           (s \o t)[i] = IF i <= Len(s) THEN s[i] ELSE t[i - Len(s)]
  BY ConcatProperties
<1>3. /\ nb \in [1..MaxBuf -> Char]
      /\ \A i \in 1..Len(s) : nb[st + i] = s[i]
      /\ \A i \in 1..Len(t) : nb[(st + Len(s)) + i] = t[i]
  <2>1. CASE nb = Written(Written(b, st, s), st + Len(s), t)
    <3> DEFINE m == Written(b, st, s)
    <3>1. m \in [1..MaxBuf -> Char] /\ \A i \in 1..Len(s) : m[st + i] = s[i]
      <4>1. st + Len(s) <= MaxBuf
        BY <1>1
      <4>2. QED
        BY <4>1, WrittenFacts
    <3>2. nb = Written(m, st + Len(s), t)
      BY <2>1
    <3> HIDE DEF m
    <3>3. /\ nb \in [1..MaxBuf -> Char]
          /\ \A i \in 1..Len(t) : nb[(st + Len(s)) + i] = t[i]
          /\ \A i \in 1..MaxBuf : i <= st + Len(s) => nb[i] = m[i]
      BY <1>1, <3>2, <3>1, WrittenFacts
    <3>4. \A i \in 1..Len(s) : st + i \in 1..MaxBuf /\ st + i <= st + Len(s)
      BY <1>1
    <3>5. QED
      BY <3>1, <3>3, <3>4
  <2>2. CASE nb = Written(Written(b, st + Len(s), t), st, s)
    <3> DEFINE m == Written(b, st + Len(s), t)
    <3>1. /\ m \in [1..MaxBuf -> Char]
          /\ \A i \in 1..Len(t) : m[(st + Len(s)) + i] = t[i]
      BY <1>1, WrittenFacts
    <3>2. nb = Written(m, st, s)
      BY <2>2
    <3> HIDE DEF m
    <3>3. /\ nb \in [1..MaxBuf -> Char]
          /\ \A i \in 1..Len(s) : nb[st + i] = s[i]
          /\ \A i \in 1..MaxBuf : i > st + Len(s) => nb[i] = m[i]
      <4>1. st + Len(s) <= MaxBuf
        BY <1>1
      <4>2. QED
        BY <3>2, <3>1, <4>1, WrittenFacts
    <3>4. \A i \in 1..Len(t) :
            (st + Len(s)) + i \in 1..MaxBuf /\ (st + Len(s)) + i > st + Len(s)
      BY <1>1
    <3>5. QED
      BY <3>1, <3>3, <3>4
  <2>3. QED
    BY <2>1, <2>2
<1>4. ASSUME NEW i \in 1..(Len(s) + Len(t))
      PROVE  nb[st + i] = (s \o t)[i]
  <2>1. CASE i <= Len(s)
    BY <1>2, <1>3, <2>1
  <2>2. CASE i > Len(s)
    <3>1. i - Len(s) \in 1..Len(t) /\ (st + Len(s)) + (i - Len(s)) = st + i
      BY <1>1, <2>2
    <3>2. (s \o t)[i] = t[i - Len(s)]
      BY <1>1, <1>2, <2>2
    <3>3. nb[(st + Len(s)) + (i - Len(s))] = t[i - Len(s)]
      BY <1>3, <3>1
    <3>4. QED
      BY <3>1, <3>2, <3>3
  <2>3. QED
    BY <2>1, <2>2, <1>1
<1>5. QED
  BY <1>2, <1>3, <1>4

(* The place a text of a size that fits is moved to has room for it.       *)
LEMMA MiddleFits ==
  ASSUME NEW size \in 0..MaxBuf
  PROVE  Middle(size) \in 0..MaxBuf /\ Middle(size) + size <= MaxBuf
BY BufferAssumption DEF Middle

(* A sequence that ends in a newline after another, or in nothing after    *)
(* one that does.                                                          *)
LEMMA LastIsNewline ==
  ASSUME NEW s \in Seq(Char), NEW t \in Seq(Char),
         Len(t) > 0 => t[Len(t)] = NL, Len(s) > 0 => s[Len(s)] = NL
  PROVE  Len(s \o t) > 0 => (s \o t)[Len(s \o t)] = NL
<1>1. /\ Len(s) \in Nat /\ Len(t) \in Nat /\ Len(s \o t) = Len(s) + Len(t)
      /\ \A i \in 1..(Len(s) + Len(t)) :
           (s \o t)[i] = IF i <= Len(s) THEN s[i] ELSE t[i - Len(s)]
  BY ConcatProperties
<1>2. CASE Len(t) = 0
  BY <1>1, <1>2
<1>3. CASE Len(t) > 0
  <2>1. Len(s) + Len(t) \in 1..(Len(s) + Len(t)) /\ (Len(s) + Len(t)) - Len(s) = Len(t)
    BY <1>1, <1>3
  <2>2. QED
    BY <1>1, <1>3, <2>1
<1>4. QED
  BY <1>1, <1>2, <1>3

LEMMA NewlineAtEnd ==
  ASSUME TypeOK, EndsInNewline
  PROVE  Len(Text) > 0 => Text[Len(Text)] = NL
<1>1. ASSUME Len(Text) > 0
      PROVE  Text[Len(Text)] = NL
  <2>1. Size \in 1..Size /\ Len(Text) = Size
    BY <1>1, TextFacts
  <2>2. text_start + Size = text_end
    BY BufferAssumption DEF TypeOK, Size
  <2>3. QED
    BY <2>1, <2>2, TextFacts DEF EndsInNewline
<1>2. QED
  BY <1>1

-----------------------------------------------------------------------------
(* Adding.                                                                 *)
LEMMA AddBehindStep ==
  ASSUME TypeOK, NEW t \in Added, AddBehind(t)
  PROVE  /\ TypeOK'
         /\ Text' = Text \o t
         /\ Len(Text \o t) <= MaxBuf
         /\ EndsInNewline /\ AreLines({t}) => EndsInNewline'
<1>1. t \in Seq(Char) /\ Len(t) \in Nat /\ Size \in Nat /\ MaxBuf \in Nat
  BY BufferAssumption, TextFacts
<1>2. /\ text_start \in Nat /\ text_end \in 0..MaxBuf /\ text_start + Size = text_end
      /\ text_end + Len(t) <= MaxBuf
  BY <1>1 DEF TypeOK, AddBehind, Size
<1>3. /\ text_buf' \in [1..MaxBuf -> Char]
      /\ \A i \in 1..Len(t) : text_buf'[text_end + i] = t[i]
      /\ \A i \in 1..MaxBuf : i <= text_end => text_buf'[i] = text_buf[i]
  BY <1>1, <1>2, WrittenFacts DEF TypeOK, AddBehind
<1>4. TypeOK'
  BY <1>1, <1>2, <1>3 DEF TypeOK, AddBehind
<1>5. /\ Text \in Seq(Char) /\ Len(Text) = Size
      /\ \A i \in 1..Size : Text[i] = text_buf[text_start + i]
      /\ Text \o t \in Seq(Char) /\ Len(Text \o t) = Size + Len(t)
      /\ \A i \in 1..(Size + Len(t)) :
           (Text \o t)[i] = IF i <= Size THEN Text[i] ELSE t[i - Size]
  <2>1. /\ Text \in Seq(Char) /\ Len(Text) = Size
        /\ \A i \in 1..Size : Text[i] = text_buf[text_start + i]
    BY TextFacts
  <2>2. QED
    BY <1>1, <2>1, ConcatProperties
<1>6. Len(Text \o t) = text_end' - text_start'
  <2>1. text_end' = text_end + Len(t) /\ text_start' = text_start
    BY DEF AddBehind
  <2>2. QED
    BY <1>1, <1>2, <1>5, <2>1
<1>7. ASSUME NEW i \in 1..Len(Text \o t)
      PROVE  text_buf'[text_start' + i] = (Text \o t)[i]
  <2>1. text_start' = text_start /\ i \in 1..(Size + Len(t))
    BY <1>5 DEF AddBehind
  <2>2. CASE i <= Size
    <3>1. text_start + i \in 1..MaxBuf /\ text_start + i <= text_end /\ i \in 1..Size
      BY <1>1, <1>2, <2>1, <2>2
    <3>2. QED
      BY <1>3, <1>5, <2>1, <2>2, <3>1
  <2>3. CASE i > Size
    <3>1. i - Size \in 1..Len(t) /\ text_start + i = text_end + (i - Size)
      BY <1>1, <1>2, <2>1, <2>3
    <3>2. (Text \o t)[i] = t[i - Size]
      BY <1>1, <1>5, <2>1, <2>3
    <3>3. text_buf'[text_end + (i - Size)] = t[i - Size]
      BY <1>3, <3>1
    <3>4. QED
      BY <2>1, <3>1, <3>2, <3>3
  <2>4. QED
    BY <1>1, <2>1, <2>2, <2>3
<1>8. /\ Text' = Text \o t
      /\ (Len(Text \o t) > 0 => (Text \o t)[Len(Text \o t)] = NL) => EndsInNewline'
  BY <1>4, <1>5, <1>6, <1>7, Becomes
<1>9. ASSUME EndsInNewline, AreLines({t})
      PROVE  EndsInNewline'
  <2>1. Len(t) > 0 => t[Len(t)] = NL
    BY <1>9 DEF AreLines
  <2>2. QED
    BY <1>1, <1>5, <1>8, <1>9, <2>1, NewlineAtEnd, LastIsNewline
<1>10. Len(Text \o t) <= MaxBuf
  BY <1>1, <1>2, <1>5
<1>11. QED
  BY <1>4, <1>8, <1>9, <1>10

LEMMA AddMovedStep ==
  ASSUME TypeOK, NEW t \in Added, AddMoved(t), CopyOrders \subseteq {"up"}
  PROVE  /\ TypeOK'
         /\ Text' = Text \o t
         /\ Len(Text \o t) <= MaxBuf
         /\ EndsInNewline /\ AreLines({t}) => EndsInNewline'
<1>1. t \in Seq(Char) /\ Len(t) \in Nat /\ Size \in Nat /\ MaxBuf \in Nat
  BY BufferAssumption, TextFacts
<1>2. /\ Text \in Seq(Char) /\ Len(Text) = Size
      /\ Bytes(text_buf, text_start, Size) = Text
      /\ Text \o t \in Seq(Char) /\ Len(Text \o t) = Size + Len(t)
  BY <1>1, TextFacts, ConcatProperties DEF Bytes, Text
<1>3. PICK st \in 0..MaxBuf : st = Middle(Size + Len(t)) /\ st + (Size + Len(t)) <= MaxBuf
  BY <1>1, MiddleFits DEF AddMoved
<1>4. /\ text_buf' = Written(Written(text_buf, st, Text), st + Len(Text), t)
      /\ text_start' = st
      /\ text_end' = st + Size + Len(t)
      /\ line' = line
  <2>1. PICK order \in CopyOrders :
          text_buf' = Written(Copied(text_buf, text_start, st, Size, order), st + Size, t)
    BY <1>3 DEF AddMoved
  <2>2. order = "up"
    BY <2>1
  <2>3. QED
    BY <1>2, <1>3, <2>1, <2>2, CopiedUp DEF AddMoved
<1>5. /\ text_buf' \in [1..MaxBuf -> Char]
      /\ \A i \in 1..Len(Text \o t) : text_buf'[st + i] = (Text \o t)[i]
  <2>1. st + Len(Text) + Len(t) <= MaxBuf
    BY <1>1, <1>2, <1>3
  <2>2. text_buf \in [1..MaxBuf -> Char]
    BY DEF TypeOK
  <2>3. text_buf' \in {Written(Written(text_buf, st, Text), st + Len(Text), t),
                       Written(Written(text_buf, st + Len(Text), t), st, Text)}
    BY <1>4
  <2>4. t \in Seq(Char) /\ Text \in Seq(Char)
    BY <1>1, <1>2
  <2>5. QED
    BY <2>1, <2>2, <2>3, <2>4, BothWritten
<1>6. TypeOK'
  <2>1. st + Size + Len(t) \in st..MaxBuf
    BY <1>1, <1>3
  <2>2. QED
    BY <1>4, <1>5, <2>1 DEF TypeOK
<1>7. Len(Text \o t) = text_end' - text_start'
  BY <1>1, <1>2, <1>3, <1>4
<1>8. /\ Text' = Text \o t
      /\ (Len(Text \o t) > 0 => (Text \o t)[Len(Text \o t)] = NL) => EndsInNewline'
  BY <1>2, <1>4, <1>5, <1>6, <1>7, Becomes
<1>9. ASSUME EndsInNewline, AreLines({t})
      PROVE  EndsInNewline'
  <2>1. Len(t) > 0 => t[Len(t)] = NL
    BY <1>9 DEF AreLines
  <2>2. QED
    BY <1>1, <1>2, <1>8, <1>9, <2>1, NewlineAtEnd, LastIsNewline
<1>10. QED
  BY <1>1, <1>2, <1>3, <1>6, <1>8, <1>9

-----------------------------------------------------------------------------
(* Inserting: a text and a newline.                                        *)
LEMMA WithNewline ==
  ASSUME NEW t \in Inserted
  PROVE  /\ t \in Seq(Char) /\ Len(t) \in Nat
         /\ Append(t, NL) \in Seq(Char)
         /\ Len(Append(t, NL)) = Len(t) + 1
         /\ Append(t, NL) = t \o <<NL>>
         /\ Len(Append(t, NL)) > 0 => Append(t, NL)[Len(Append(t, NL))] = NL
<1>1. t \in Seq(Char) /\ NL \in Char
  BY BufferAssumption
<1>2. /\ Append(t, NL) \in Seq(Char) /\ Len(Append(t, NL)) = Len(t) + 1
      /\ Append(t, NL)[Len(t) + 1] = NL
  BY <1>1, AppendProperties
<1>3. Append(t, NL) = t \o <<NL>>
  BY <1>1, AppendIsConcat
<1>4. QED
  BY <1>1, <1>2, <1>3

LEMMA InsertBeforeStep ==
  ASSUME TypeOK, NEW t \in Inserted, InsertBefore(t)
  PROVE  /\ TypeOK'
         /\ Text' = t \o <<NL>> \o Text
         /\ Len(t \o <<NL>> \o Text) <= MaxBuf
         /\ EndsInNewline => EndsInNewline'
<1>a. PICK u \in Seq(Char) : u = Append(t, NL) /\ u = t \o <<NL>>
  BY WithNewline
<1>b. Len(u) > 0 => u[Len(u)] = NL
  BY <1>a, WithNewline
<1>1. /\ Size \in Nat /\ MaxBuf \in Nat /\ u \in Seq(Char) /\ Len(u) \in Nat
      /\ Len(u) = Len(t) + 1 /\ Len(t) \in Nat
  BY <1>a, BufferAssumption, TextFacts, WithNewline
<1>2. PICK st \in 0..MaxBuf : st = text_start - Len(t) - 1 /\ st + Len(u) = text_start
  <2>1. Len(t) \in Nat /\ Len(t) < text_start /\ text_start \in 0..MaxBuf
    BY WithNewline DEF InsertBefore, TypeOK
  <2>2. text_start - Len(t) - 1 \in 0..MaxBuf
    BY <1>1, <2>1
  <2>3. (text_start - Len(t) - 1) + Len(u) = text_start
    BY <1>1, <2>1
  <2>4. QED
    BY <2>2, <2>3
<1>3. /\ text_buf' = Written(text_buf, st, u) /\ text_start' = st
      /\ text_end' = text_end /\ line' = line
  BY <1>a, <1>2 DEF InsertBefore
<1>4. /\ text_start \in 0..MaxBuf /\ text_end \in text_start..MaxBuf
      /\ text_start + Size = text_end
  BY <1>1 DEF TypeOK, Size
<1>5. /\ text_buf' \in [1..MaxBuf -> Char]
      /\ \A i \in 1..Len(u) : text_buf'[st + i] = u[i]
      /\ \A i \in 1..MaxBuf : i > text_start => text_buf'[i] = text_buf[i]
  <2>1. text_buf \in [1..MaxBuf -> Char] /\ st + Len(u) <= MaxBuf
    BY <1>2, <1>4, <1>1 DEF TypeOK
  <2>2. QED
    BY <1>1, <1>2, <1>3, <2>1, WrittenFacts
<1>6. TypeOK'
  <2>1. text_end \in st..MaxBuf
    BY <1>1, <1>2, <1>4
  <2>2. QED
    BY <1>3, <1>5, <2>1 DEF TypeOK
<1>7. /\ Text \in Seq(Char) /\ Len(Text) = Size
      /\ \A i \in 1..Size : Text[i] = text_buf[text_start + i]
  BY TextFacts
<1>8. /\ u \o Text \in Seq(Char) /\ Len(u \o Text) = Len(u) + Size
      /\ \A i \in 1..(Len(u) + Size) :
           (u \o Text)[i] = IF i <= Len(u) THEN u[i] ELSE Text[i - Len(u)]
  BY <1>1, <1>7, ConcatProperties
<1>9. Len(u \o Text) = text_end' - text_start'
  <2>1. Len(u) + Size = text_end - st
    BY <1>1, <1>2, <1>4
  <2>2. QED
    BY <1>3, <1>8, <2>1
<1>10. ASSUME NEW i \in 1..Len(u \o Text)
       PROVE  text_buf'[text_start' + i] = (u \o Text)[i]
  <2>1. i \in 1..(Len(u) + Size)
    BY <1>8
  <2>2. CASE i <= Len(u)
    BY <1>1, <1>3, <1>5, <1>8, <2>1, <2>2
  <2>3. CASE i > Len(u)
    <3>1. /\ i - Len(u) \in 1..Size /\ st + i = text_start + (i - Len(u))
          /\ st + i \in 1..MaxBuf /\ st + i > text_start
      BY <1>1, <1>2, <1>4, <2>1, <2>3
    <3>2. (u \o Text)[i] = text_buf[text_start + (i - Len(u))]
      BY <1>1, <1>7, <1>8, <2>1, <2>3, <3>1
    <3>3. text_buf'[st + i] = text_buf[st + i]
      BY <1>5, <3>1
    <3>4. QED
      BY <1>3, <3>1, <3>2, <3>3
  <2>4. QED
    BY <1>1, <2>1, <2>2, <2>3
<1>11. /\ Text' = u \o Text
       /\ (Len(u \o Text) > 0 => (u \o Text)[Len(u \o Text)] = NL) => EndsInNewline'
  BY <1>6, <1>8, <1>9, <1>10, Becomes
<1>12. EndsInNewline => EndsInNewline'
  BY <1>b, <1>7, <1>11, NewlineAtEnd, LastIsNewline
<1>13. Len(u \o Text) <= MaxBuf
  BY <1>1, <1>2, <1>4, <1>8
<1>14. QED
  BY <1>a, <1>6, <1>11, <1>12, <1>13

LEMMA InsertMovedStep ==
  ASSUME TypeOK, NEW t \in Inserted, InsertMoved(t)
  PROVE  /\ TypeOK'
         /\ Text' = t \o <<NL>> \o Text
         /\ Len(t \o <<NL>> \o Text) <= MaxBuf
         /\ EndsInNewline => EndsInNewline'
<1>a. PICK u \in Seq(Char) : u = Append(t, NL) /\ u = t \o <<NL>>
  BY WithNewline
<1>b. Len(u) > 0 => u[Len(u)] = NL
  BY <1>a, WithNewline
<1>1. /\ Size \in Nat /\ MaxBuf \in Nat /\ u \in Seq(Char) /\ Len(u) \in Nat
      /\ Len(u) = Len(t) + 1 /\ Len(t) \in Nat
  BY <1>a, BufferAssumption, TextFacts, WithNewline
<1>2. /\ Text \in Seq(Char) /\ Len(Text) = Size
      /\ Bytes(text_buf, text_start, Size) = Text
  BY TextFacts DEF Bytes, Text
<1>3. PICK st \in 0..MaxBuf :
        /\ st = Middle(Size + Len(t) + 1)
        /\ st + Len(u) + Size <= MaxBuf
        /\ st + Len(t) + 1 = st + Len(u)
  <2>1. Size + Len(t) + 1 \in 0..MaxBuf
    BY <1>1 DEF InsertMoved
  <2>2. /\ Middle(Size + Len(t) + 1) \in 0..MaxBuf
        /\ Middle(Size + Len(t) + 1) + (Size + Len(t) + 1) <= MaxBuf
    BY <2>1, MiddleFits
  <2>3. QED
    BY <1>1, <2>2
<1>4. /\ text_buf' = Written(Written(text_buf, st + Len(u), Text), st, u)
      /\ text_start' = st
      /\ text_end' = st + Size + Len(t) + 1
      /\ line' = line
  BY <1>a, <1>2, <1>3 DEF InsertMoved
<1>5. /\ text_buf' \in [1..MaxBuf -> Char]
      /\ \A i \in 1..Len(u \o Text) : text_buf'[st + i] = (u \o Text)[i]
  <2>1. text_buf \in [1..MaxBuf -> Char] /\ st + Len(u) + Len(Text) <= MaxBuf
    BY <1>2, <1>3 DEF TypeOK
  <2>2. text_buf' \in {Written(Written(text_buf, st, u), st + Len(u), Text),
                       Written(Written(text_buf, st + Len(u), Text), st, u)}
    BY <1>4
  <2>3. u \in Seq(Char) /\ Text \in Seq(Char)
    BY <1>1, <1>2
  <2>4. QED
    BY <2>1, <2>2, <2>3, BothWritten
<1>6. TypeOK'
  <2>1. st + Size + Len(t) + 1 \in st..MaxBuf
    BY <1>1, <1>3
  <2>2. QED
    BY <1>4, <1>5, <2>1 DEF TypeOK
<1>7. u \o Text \in Seq(Char) /\ Len(u \o Text) = Len(u) + Size
  BY <1>1, <1>2, ConcatProperties
<1>8. Len(u \o Text) = text_end' - text_start'
  <2>1. Len(u) + Size = (st + Size + Len(t) + 1) - st
    BY <1>1, <1>3
  <2>2. QED
    BY <1>4, <1>7, <2>1
<1>9. /\ Text' = u \o Text
      /\ (Len(u \o Text) > 0 => (u \o Text)[Len(u \o Text)] = NL) => EndsInNewline'
  BY <1>4, <1>5, <1>6, <1>7, <1>8, Becomes
<1>10. EndsInNewline => EndsInNewline'
  BY <1>b, <1>2, <1>9, NewlineAtEnd, LastIsNewline
<1>11. Len(u \o Text) <= MaxBuf
  BY <1>1, <1>3, <1>7
<1>12. QED
  BY <1>a, <1>6, <1>9, <1>10, <1>11

-----------------------------------------------------------------------------
(* Taking a line leaves what follows the break.                            *)
LEMMA Rest ==
  ASSUME NEW s \in Seq(Char), NEW i \in 0..Len(s)
  PROVE  /\ SubSeq(s, i + 2, Len(s)) \in Seq(Char)
         /\ Len(SubSeq(s, i + 2, Len(s))) = IF i = Len(s) THEN 0 ELSE Len(s) - (i + 1)
         /\ \A j \in 1..(Len(s) - (i + 1)) : SubSeq(s, i + 2, Len(s))[j] = s[i + 1 + j]
<1>1. Len(s) \in Nat /\ i \in Nat /\ i <= Len(s)
  OBVIOUS
<1>2. \A j \in (i + 2)..Len(s) : s[j] \in Char
  BY <1>1, ElementOfSeq
<1>3. /\ SubSeq(s, i + 2, Len(s)) \in Seq(Char)
      /\ Len(SubSeq(s, i + 2, Len(s))) = IF i + 2 <= Len(s) THEN Len(s) - (i + 2) + 1 ELSE 0
      /\ \A j \in 1..(Len(s) - (i + 2) + 1) : SubSeq(s, i + 2, Len(s))[j] = s[(i + 2) + j - 1]
  BY <1>1, <1>2, SubSeqProperties
<1>4. QED
  BY <1>1, <1>3

LEMMA ExecuteStep ==
  ASSUME TypeOK, Cbuf_ExecuteEx
  PROVE  /\ TypeOK'
         /\ Text' = SubSeq(Text, Abstract!LineLen(Text) + 2, Len(Text))
         /\ EndsInNewline => EndsInNewline'
<1> DEFINE rest == SubSeq(Text, Abstract!LineLen(Text) + 2, Len(Text))
<1>1. /\ Text \in Seq(Char) /\ Len(Text) = Size /\ Size \in Nat /\ MaxBuf \in Nat
      /\ \A i \in 1..Size : Text[i] = text_buf[text_start + i]
  BY TextFacts, BufferAssumption
<1>2. PICK i \in 0..Size : i = Abstract!LineLen(Text)
  BY <1>1, LineFacts
<1>3. /\ rest \in Seq(Char)
      /\ Len(rest) = IF i = Size THEN 0 ELSE Size - (i + 1)
      /\ \A j \in 1..(Size - (i + 1)) : rest[j] = Text[i + 1 + j]
  BY <1>1, <1>2, Rest
<1>4. /\ text_start \in 0..MaxBuf /\ text_end \in text_start..MaxBuf
      /\ text_start + Size = text_end
  BY <1>1 DEF TypeOK, Size
<1>5. text_buf' = text_buf /\ text_buf \in [1..MaxBuf -> Char] /\ line' \in Seq(Char)
  BY <1>1, LineFacts DEF Cbuf_ExecuteEx, TypeOK
<1> HIDE DEF rest
<1>6. CASE i = Size
  <2>1. text_start' = MaxBuf \div 2 /\ text_end' = MaxBuf \div 2
    BY <1>2, <1>6 DEF Cbuf_ExecuteEx
  <2>2. MaxBuf \div 2 \in 0..MaxBuf
    BY <1>1
  <2>3. TypeOK'
    <3>1. MaxBuf \div 2 \in (MaxBuf \div 2)..MaxBuf
      BY <2>2
    <3>2. QED
      BY <1>5, <2>1, <2>2, <3>1 DEF TypeOK
  <2>4. Len(rest) = 0 /\ text_end' - text_start' = 0
    BY <1>3, <1>6, <2>1, <2>2
  <2>5. Text' = rest /\ EndsInNewline'
    <3>1. /\ rest \in Seq(Char) /\ Len(rest) = text_end' - text_start'
          /\ \A j \in 1..Len(rest) : text_buf'[text_start' + j] = rest[j]
          /\ Len(rest) > 0 => rest[Len(rest)] = NL
      BY <1>3, <2>4
    <3>2. QED
      BY <2>3, <3>1, Becomes
  <2>6. QED
    BY <2>3, <2>5 DEF rest
<1>7. CASE i # Size
  <2>1. text_start' = text_start + i + 1 /\ text_end' = text_end
    BY <1>2, <1>7 DEF Cbuf_ExecuteEx
  <2>2. text_start + i + 1 \in 0..MaxBuf /\ text_end \in (text_start + i + 1)..MaxBuf
    BY <1>1, <1>2, <1>4, <1>7
  <2>3. TypeOK'
    BY <1>5, <2>1, <2>2 DEF TypeOK
  <2>4. Len(rest) = Size - (i + 1) /\ Len(rest) = text_end' - text_start'
    <3>1. Size - (i + 1) = text_end - (text_start + i + 1)
      BY <1>1, <1>2, <1>4
    <3>2. Len(rest) = Size - (i + 1)
      BY <1>3, <1>7
    <3>3. QED
      BY <2>1, <3>1, <3>2
  <2>5. ASSUME NEW j \in 1..Len(rest)
        PROVE  text_buf'[text_start' + j] = rest[j]
    <3>1. /\ i + 1 + j \in 1..Size
          /\ text_start + (i + 1 + j) = (text_start + i + 1) + j
          /\ j \in 1..(Size - (i + 1))
      <4>1. j \in 1..(Size - (i + 1))
        BY <2>4
      <4>2. i \in Nat /\ Size \in Nat /\ j \in Nat /\ text_start \in Nat
        BY <1>1, <1>4, <4>1
      <4>3. QED
        BY <4>1, <4>2
    <3>2. rest[j] = text_buf[text_start + (i + 1 + j)]
      BY <1>1, <1>3, <3>1
    <3>3. QED
      BY <1>5, <2>1, <3>1, <3>2
  <2>6. Text' = rest
    BY <1>3, <2>3, <2>4, <2>5, Becomes
  <2>7. ASSUME EndsInNewline
        PROVE  EndsInNewline'
    <3>1. CASE Len(rest) = 0
      <4>1. (Len(rest) > 0 => rest[Len(rest)] = NL)
        BY <3>1
      <4>2. QED
        BY <1>3, <2>3, <2>4, <2>5, <4>1, Becomes
    <3>2. CASE Len(rest) > 0
      <4>1. /\ Size > 0 /\ Len(rest) \in 1..(Size - (i + 1))
            /\ i + 1 + Len(rest) = Size
        <5>1. Len(rest) \in Nat /\ Len(rest) = Size - (i + 1)
          BY <1>3, <2>4
        <5>2. QED
          BY <1>1, <1>2, <3>2, <5>1
      <4>2. rest[Len(rest)] = Text[Size]
        BY <1>3, <4>1
      <4>3. Text[Size] = NL
        BY <1>1, <2>7, <4>1, NewlineAtEnd
      <4>4. (Len(rest) > 0 => rest[Len(rest)] = NL)
        BY <4>2, <4>3
      <4>5. QED
        BY <1>3, <2>3, <2>4, <2>5, <4>4, Becomes
    <3>3. Len(rest) \in Nat
      BY <1>3
    <3>4. QED
      BY <3>1, <3>2, <3>3
  <2>8. QED
    BY <2>3, <2>6, <2>7 DEF rest
<1>8. QED
  BY <1>6, <1>7

-----------------------------------------------------------------------------
(* The behaviours.                                                         *)
LEMMA InitOK ==
  ASSUME Cbuf_Init
  PROVE  TypeOK /\ EndsInNewline /\ Text = <<>>
<1>1. MaxBuf \in Nat /\ MaxBuf \div 2 \in 0..MaxBuf /\ Zero \in Char
  BY BufferAssumption
<1>2. TypeOK
  <2>1. [i \in 1..MaxBuf |-> Zero] \in [1..MaxBuf -> Char]
    BY <1>1
  <2>2. MaxBuf \div 2 \in (MaxBuf \div 2)..MaxBuf
    BY <1>1
  <2>3. <<>> \in Seq(Char)
    OBVIOUS
  <2>4. QED
    BY <1>1, <2>1, <2>2, <2>3 DEF Cbuf_Init, TypeOK
<1>3. Size = 0
  BY <1>1 DEF Cbuf_Init, Size
<1>4. Text \in Seq(Char) /\ Len(Text) = 0
  BY <1>2, <1>3, TextFacts
<1>5. Text = <<>>
  BY <1>4, EmptySeq
<1>6. EndsInNewline
  BY <1>3 DEF EndsInNewline
<1>7. QED
  BY <1>2, <1>5, <1>6

LEMMA StutterStep ==
  ASSUME UNCHANGED vars
  PROVE  /\ TypeOK => TypeOK'
         /\ EndsInNewline => EndsInNewline'
         /\ Text' = Text
         /\ line' = line
BY DEF vars, TypeOK, EndsInNewline, Text, Size

(* One step of the array is one of the text.                               *)
LEMMA StepOK ==
  ASSUME TypeOK, [Next]_vars, CopyOrders \subseteq {"up"}
  PROVE  /\ TypeOK'
         /\ EndsInNewline /\ AreLines(Added) => EndsInNewline'
         /\ [Abstract!TextNext]_<<Text, line>>
<1>1. ASSUME NEW t \in Inserted, Cbuf_InsertTextEx(t)
      PROVE  /\ TypeOK'
             /\ EndsInNewline => EndsInNewline'
             /\ [Abstract!TextNext]_<<Text, line>>
  <2>1. ASSUME InsertBefore(t) \/ InsertMoved(t)
        PROVE  /\ TypeOK'
               /\ EndsInNewline => EndsInNewline'
               /\ Abstract!Insert(t)
    <3>1. /\ TypeOK'
          /\ Text' = t \o <<NL>> \o Text
          /\ Len(t \o <<NL>> \o Text) <= MaxBuf
          /\ EndsInNewline => EndsInNewline'
      BY <2>1, InsertBeforeStep, InsertMovedStep
    <3>2. line' = line
      BY <2>1 DEF InsertBefore, InsertMoved
    <3>3. QED
      BY <3>1, <3>2 DEF Abstract!Insert, Abstract!Fits
  <2>2. CASE InsertOverflow(t)
    BY <2>2, StutterStep DEF InsertOverflow
  <2>3. Abstract!Insert(t) => Abstract!TextNext
    BY DEF Abstract!TextNext
  <2>4. QED
    BY <1>1, <2>1, <2>2, <2>3 DEF Cbuf_InsertTextEx
<1>2. ASSUME NEW t \in Added, Cbuf_AddTextEx(t)
      PROVE  /\ TypeOK'
             /\ EndsInNewline /\ AreLines(Added) => EndsInNewline'
             /\ [Abstract!TextNext]_<<Text, line>>
  <2>1. ASSUME AddBehind(t) \/ AddMoved(t)
        PROVE  /\ TypeOK'
               /\ EndsInNewline /\ AreLines(Added) => EndsInNewline'
               /\ Abstract!Add(t)
    <3>1. /\ TypeOK'
          /\ Text' = Text \o t
          /\ Len(Text \o t) <= MaxBuf
          /\ EndsInNewline /\ AreLines({t}) => EndsInNewline'
      BY <2>1, AddBehindStep, AddMovedStep
    <3>2. AreLines(Added) => AreLines({t})
      BY DEF AreLines
    <3>3. line' = line
      BY <2>1 DEF AddBehind, AddMoved
    <3>4. QED
      BY <3>1, <3>2, <3>3 DEF Abstract!Add, Abstract!Fits
  <2>2. CASE AddOverflow(t)
    BY <2>2, StutterStep DEF AddOverflow
  <2>3. Abstract!Add(t) => Abstract!TextNext
    BY DEF Abstract!TextNext
  <2>4. QED
    BY <1>2, <2>1, <2>2, <2>3 DEF Cbuf_AddTextEx
<1>3. ASSUME Cbuf_ExecuteEx
      PROVE  /\ TypeOK'
             /\ EndsInNewline => EndsInNewline'
             /\ [Abstract!TextNext]_<<Text, line>>
  <2>1. /\ TypeOK'
        /\ Text' = SubSeq(Text, Abstract!LineLen(Text) + 2, Len(Text))
        /\ EndsInNewline => EndsInNewline'
    BY <1>3, ExecuteStep
  <2>2. Text # <<>>
    <3>1. Len(Text) > 0
      BY <1>3, TextFacts, BufferAssumption DEF Cbuf_ExecuteEx, TypeOK, Size
    <3>2. QED
      BY <3>1
  <2>3. line' = Abstract!LineOf(Text)
    BY <1>3 DEF Cbuf_ExecuteEx
  <2>4. Abstract!Take
    BY <2>1, <2>2, <2>3 DEF Abstract!Take
  <2>5. QED
    BY <2>1, <2>4 DEF Abstract!TextNext
<1>4. CASE UNCHANGED vars
  BY <1>4, StutterStep
<1>5. QED
  BY <1>1, <1>2, <1>3, <1>4 DEF Next

(* Wherever the text is moved, it stays in the array: the copies of        *)
(* Cbuf_AddTextEx and Cbuf_InsertTextEx write no byte outside it.          *)
THEOREM TypeCorrect ==
  ASSUME CopyOrders \subseteq {"up"}
  PROVE  Spec => []TypeOK
<1>1. Cbuf_Init => TypeOK
  BY InitOK
<1>2. TypeOK /\ [Next]_vars => TypeOK'
  BY StepOK
<1>3. QED
  BY <1>1, <1>2, PTL DEF Spec

(* Pending commands stay apart, provided that every text that is added     *)
(* ends in a newline, as the callers of Cbuf_AddText write it.             *)
THEOREM CommandsApart ==
  ASSUME CopyOrders \subseteq {"up"}, AreLines(Added)
  PROVE  Spec => []EndsInNewline
<1>1. Cbuf_Init => TypeOK /\ EndsInNewline
  BY InitOK
<1>2. (TypeOK /\ EndsInNewline) /\ [Next]_vars => (TypeOK /\ EndsInNewline)'
  BY StepOK
<1>3. QED
  BY <1>1, <1>2, PTL DEF Spec

(* The array implements the text: nothing that was put in is lost, changed *)
(* or put elsewhere by the moves.                                          *)
THEOREM Implements ==
  ASSUME CopyOrders \subseteq {"up"}
  PROVE  Spec => ImplementsText
<1>1. Cbuf_Init => Abstract!TextInit
  BY InitOK DEF Abstract!TextInit, Cbuf_Init
<1>2. TypeOK /\ [Next]_vars => [Abstract!TextNext]_<<Text, line>>
  BY StepOK
<1>3. Spec => []TypeOK
  BY TypeCorrect
<1>4. QED
  BY <1>1, <1>2, <1>3, PTL DEF Spec, ImplementsText, Abstract!TextSpec
=============================================================================
