--------------------------- MODULE KeyboardProofs ---------------------------
(***************************************************************************)
(* What holds of line input for every size of the buffer and the screen,   *)
(* width of a tab and habit of the person at the keyboard: the cursor stays*)
(* in the text, what the program is handed is the line as it was edited,   *)
(* and the screen shows it while it is.                                    *)
(***************************************************************************)
EXTENDS Console, SequenceTheorems, WellFoundedInduction, TLAPS

(***************************************************************************)
(* Eight-bit indices.                                                      *)
(***************************************************************************)
LEMMA WrapByte ==
  /\ \A i \in Int : Wrap(i) \in Indices
  /\ \A i \in Indices : Wrap(i) = i
BY BufferAssumption DEF Wrap, Indices

\* What is typed fits: neither index wraps around.
LEMMA FittingRoom ==
  ASSUME buffer_index_max \in Indices, NEW n \in Nat
  PROVE  /\ Fitting(n) \in Nat
         /\ buffer_index_max + Fitting(n) \in Indices
BY BufferAssumption DEF Fitting, Full, Indices

(***************************************************************************)
(* The inductive invariant.  CursorInText is about open lines, and a line  *)
(* is opened from the indices that the last one has left: they must be     *)
(* back at 0 whenever the program may ask for a line.                      *)
(***************************************************************************)
Ready ==
  /\ input_on => at = "spin"
  /\ at = "user" => buffer_index = 0 /\ buffer_index_max = 0

Edited == TypeOK /\ CursorInText /\ Ready

LEMMA InitEdited == Init => Edited
<1>. SUFFICES ASSUME Init PROVE Edited
  OBVIOUS
<1>1. 0 \in Indices
  BY BufferAssumption DEF Indices
<1>. QED BY <1>1 DEF Init, Edited, TypeOK, CursorInText, Ready, ClearBuffer

\* What one more character, or several, make of an open line.
LEMMA TypeEdited ==
  ASSUME Edited, input_on, NEW ch \in Chars, NEW n \in Nat, Type(ch, n)
  PROVE  /\ buffer' \in [Indices -> Chars \cup {NUL}]
         /\ buffer_index' = buffer_index + Fitting(n) /\ buffer_index' \in Indices
         /\ buffer_index_max' = buffer_index_max + Fitting(n) /\ buffer_index_max' \in Indices
         /\ buffer_index' <= buffer_index_max'
         /\ \A i \in 0 .. buffer_index_max' - 1 :
              buffer'[i] = IF i < buffer_index THEN buffer[i]
                           ELSE IF i < buffer_index' THEN ch
                           ELSE buffer[i - Fitting(n)]
         /\ \A i \in 0 .. buffer_index_max' - 1 : buffer'[i] # NUL
         /\ UNCHANGED <<input_on, hung>>
<1>. DEFINE k == Fitting(n)
<1>1. /\ buffer_index \in Nat /\ buffer_index_max \in Nat
      /\ buffer_index \in Indices /\ buffer_index_max \in Indices
      /\ buffer_index <= buffer_index_max
      /\ buffer \in [Indices -> Chars \cup {NUL}]
      /\ \A i \in 0 .. buffer_index_max - 1 : buffer[i] # NUL
  BY DEF Edited, TypeOK, CursorInText, Indices
<1>2. k \in Nat /\ buffer_index_max + k \in Indices
  BY <1>1, FittingRoom
<1>3. buffer_index + k \in Indices
  BY <1>1, <1>2, BufferAssumption DEF Indices
<1>4. /\ buffer' = Inserted(ch, k)
      /\ buffer_index' = buffer_index + k
      /\ buffer_index_max' = buffer_index_max + k
      /\ UNCHANGED <<input_on, hung>>
  <2>1. /\ buffer' = Inserted(ch, k)
        /\ buffer_index' = Wrap(buffer_index + k)
        /\ buffer_index_max' = Wrap(buffer_index_max + k)
        /\ UNCHANGED <<input_on, hung>>
    BY DEF Type, keyboard_insert
  <2>. QED BY <1>2, <1>3, <2>1, WrapByte
<1>. HIDE DEF k
<1>5. ASSUME NEW i \in 0 .. buffer_index_max' - 1
      PROVE  /\ buffer'[i] = IF i < buffer_index THEN buffer[i]
                             ELSE IF i < buffer_index' THEN ch
                             ELSE buffer[i - k]
             /\ buffer'[i] # NUL
  <2>1. i \in Indices
    BY <1>1, <1>2, <1>4, BufferAssumption DEF Indices
  <2>2. buffer'[i] = IF i \in buffer_index .. buffer_index + k - 1 THEN ch
                     ELSE IF i \in buffer_index + k .. buffer_index_max + k - 1
                       THEN buffer[i - k]
                     ELSE buffer[i]
    BY <1>4, <2>1 DEF Inserted
  <2>3. buffer'[i] = IF i < buffer_index THEN buffer[i]
                     ELSE IF i < buffer_index' THEN ch
                     ELSE buffer[i - k]
    BY <1>1, <1>2, <1>4, <2>2
  <2>4. CASE i < buffer_index
    BY <1>1, <2>3, <2>4
  <2>5. CASE i >= buffer_index /\ i < buffer_index'
    BY <1>1, <2>3, <2>5, CharAssumption
  <2>6. CASE i >= buffer_index /\ i >= buffer_index'
    <3>1. i - k \in 0 .. buffer_index_max - 1
      BY <1>1, <1>2, <1>4, <2>6
    <3>2. ~ (i < buffer_index) /\ ~ (i < buffer_index')
      BY <1>1, <1>2, <1>4, <2>6
    <3>3. buffer'[i] = buffer[i - k]
      BY <2>3, <3>2
    <3>4. buffer[i - k] # NUL
      BY <1>1, <3>1
    <3>. QED BY <2>3, <3>3, <3>4
  <2>7. i \in Int /\ buffer_index' \in Int
    BY <1>1, <1>2, <1>4
  <2>8. \/ i < buffer_index
        \/ i >= buffer_index /\ i < buffer_index'
        \/ i >= buffer_index /\ i >= buffer_index'
    BY <1>1, <2>7
  <2>. QED BY <2>4, <2>5, <2>6, <2>8
<1>6. buffer' \in [Indices -> Chars \cup {NUL}]
  <2>1. ASSUME NEW i \in Indices
        PROVE  Inserted(ch, k)[i] \in Chars \cup {NUL}
    <3>1. i \in buffer_index + k .. buffer_index_max + k - 1 => i - k \in Indices
      BY <1>1, <1>2, BufferAssumption DEF Indices
    <3>. QED BY <1>1, <3>1 DEF Inserted
  <2>. QED BY <1>4, <2>1 DEF Inserted
<1>7. buffer_index' <= buffer_index_max'
  BY <1>1, <1>2, <1>4
<1>. QED BY <1>2, <1>3, <1>4, <1>5, <1>6, <1>7 DEF k

\* What backspace makes of it.
LEMMA DeleteEdited ==
  ASSUME Edited, input_on, keyboard_delete
  PROVE  \/ UNCHANGED keyboard_state /\ hung' \in BOOLEAN
         \/ /\ buffer_index > 0
            /\ buffer' \in [Indices -> Chars \cup {NUL}]
            /\ buffer_index' = buffer_index - 1 /\ buffer_index' \in Indices
            /\ buffer_index_max' = buffer_index_max - 1 /\ buffer_index_max' \in Indices
            /\ buffer_index' <= buffer_index_max'
            /\ \A i \in 0 .. buffer_index_max' - 1 :
                 buffer'[i] = IF i < buffer_index' THEN buffer[i] ELSE buffer[i + 1]
            /\ \A i \in 0 .. buffer_index_max' - 1 : buffer'[i] # NUL
            /\ UNCHANGED <<input_on, hung>>
<1>1. /\ buffer_index \in Nat /\ buffer_index_max \in Nat
      /\ buffer_index \in Indices /\ buffer_index_max \in Indices
      /\ buffer_index <= buffer_index_max
      /\ buffer \in [Indices -> Chars \cup {NUL}]
      /\ \A i \in 0 .. buffer_index_max - 1 : buffer[i] # NUL
      /\ hung \in BOOLEAN
  BY DEF Edited, TypeOK, CursorInText, Indices
<1>2. CASE buffer_index = 0 \/ buffer_index_max = Full
  BY <1>1, <1>2 DEF keyboard_delete, keyboard_state
<1>3. CASE buffer_index # 0 /\ buffer_index_max # Full
  <2>1. /\ buffer' = [i \in Indices |->
             IF i = buffer_index_max THEN Space
             ELSE IF i \in buffer_index - 1 .. buffer_index_max THEN buffer[i + 1]
             ELSE buffer[i]]
        /\ buffer_index' = Wrap(buffer_index - 1)
        /\ buffer_index_max' = Wrap(buffer_index_max - 1)
        /\ UNCHANGED <<input_on, hung>>
    BY <1>3 DEF keyboard_delete
  <2>2. /\ buffer_index > 0
        /\ buffer_index - 1 \in Indices /\ buffer_index_max - 1 \in Indices
        /\ buffer_index_max + 1 \in Indices
    BY <1>1, <1>3, BufferAssumption DEF Indices, Full
  <2>3. buffer_index' = buffer_index - 1 /\ buffer_index_max' = buffer_index_max - 1
    BY <2>1, <2>2, WrapByte
  <2>4. ASSUME NEW i \in 0 .. buffer_index_max' - 1
        PROVE  /\ buffer'[i] = IF i < buffer_index' THEN buffer[i] ELSE buffer[i + 1]
               /\ buffer'[i] # NUL
    <3>1. /\ i \in Indices /\ i # buffer_index_max
          /\ i \in 0 .. buffer_index_max - 1 /\ i + 1 \in 0 .. buffer_index_max - 1
      BY <1>1, <2>3, BufferAssumption DEF Indices
    <3>2. buffer'[i] = IF i \in buffer_index - 1 .. buffer_index_max THEN buffer[i + 1]
                       ELSE buffer[i]
      BY <2>1, <3>1
    <3>. QED BY <1>1, <2>3, <3>1, <3>2
  <2>5. buffer' \in [Indices -> Chars \cup {NUL}]
    <3>1. ASSUME NEW i \in Indices, i \in buffer_index - 1 .. buffer_index_max
          PROVE  i + 1 \in Indices
      BY <1>1, <2>2, <3>1, BufferAssumption DEF Indices
    <3>. QED BY <1>1, <2>1, <3>1, CharAssumption
  <2>. QED BY <1>1, <2>1, <2>2, <2>3, <2>4, <2>5
<1>. QED BY <1>2, <1>3

LEMMA StepEdited == Edited /\ [Next]_vars => Edited'
<1>. SUFFICES ASSUME Edited, [Next]_vars PROVE Edited'
  OBVIOUS
<1>. USE DEF Edited
<1>0. 0 \in Indices
  BY BufferAssumption DEF Indices
<1>1. ASSUME NEW k \in Keys, Press(k)
      PROVE  Edited'
  BY <1>1 DEF Press, TypeOK, CursorInText, Ready, keyboard_state
<1>2. CASE IsrInputOff
  BY <1>0, <1>2 DEF IsrInputOff, TypeOK, CursorInText, Ready
<1>3. CASE IsrInputOn
  <2>. SUFFICES /\ buffer_index' \in Indices /\ buffer_index_max' \in Indices
                /\ buffer' \in [Indices -> Chars \cup {NUL}]
                /\ input_on' \in BOOLEAN /\ hung' \in BOOLEAN
                /\ CursorInText'
    BY <1>3 DEF IsrInputOn, TypeOK, Ready
  <2>1. ASSUME NEW ch \in Chars, NEW n \in Nat, Type(ch, n)
        PROVE  /\ buffer_index' \in Indices /\ buffer_index_max' \in Indices
               /\ buffer' \in [Indices -> Chars \cup {NUL}]
               /\ input_on' \in BOOLEAN /\ hung' \in BOOLEAN
               /\ CursorInText'
    <3>1. input_on
      BY <1>3 DEF IsrInputOn
    <3>. QED BY <2>1, <3>1, TypeEdited DEF TypeOK, CursorInText
  <2>2. CASE keyboard_delete
    <3>1. input_on
      BY <1>3 DEF IsrInputOn
    <3>. QED BY <2>2, <3>1, DeleteEdited DEF TypeOK, CursorInText, keyboard_state
  <2>3. CASE Enter
    <3>1. buffer_index + 1 \in Int /\ buffer_index_max + 1 \in Int
      BY BufferAssumption DEF TypeOK, Indices
    <3>2. buffer_index' \in Indices /\ buffer_index_max' \in Indices
      BY <2>3, <3>1, WrapByte DEF Enter
    <3>. QED BY <2>3, <3>2 DEF Enter, TypeOK, CursorInText
  <2>4. CASE MoveCursor(port)
    <3>1. /\ input_on
          /\ buffer_index \in Int /\ buffer_index_max \in Int
          /\ buffer_index <= buffer_index_max
      BY <1>3, BufferAssumption DEF IsrInputOn, TypeOK, CursorInText, Indices
    <3>2. buffer_index' \in Indices /\ buffer_index' <= buffer_index_max
      BY <2>4, <3>1, BufferAssumption DEF MoveCursor, TypeOK, Indices
    <3>. QED BY <2>4, <3>1, <3>2 DEF MoveCursor, TypeOK, CursorInText
  <2>. QED BY <1>3, <2>1, <2>2, <2>3, <2>4, BufferAssumption, CharAssumption
           DEF IsrInputOn
<1>4. CASE Activate
  <2>1. 0 .. 0 - 1 = {}
    OBVIOUS
  <2>. QED BY <1>4, <2>1 DEF Activate, TypeOK, CursorInText, Ready
<1>5. CASE CopyLine
  BY <1>5 DEF CopyLine, TypeOK, CursorInText, Ready, keyboard_state
<1>6. CASE keyboard_clear_buffer
  BY <1>0, <1>6 DEF keyboard_clear_buffer, ClearBuffer, TypeOK, CursorInText, Ready
<1>7. CASE UNCHANGED vars
  BY <1>7 DEF vars, keyboard_state, TypeOK, CursorInText, Ready
<1>. QED BY <1>1, <1>2, <1>3, <1>4, <1>5, <1>6, <1>7 DEF Next

\* The cursor is within the text and the text within the buffer, for a buffer
\* of any size: no key, at any place, makes an index of an open line wrap.
THEOREM SpecCursorInText == Spec => []CursorInText
<1>1. Edited => CursorInText
  BY DEF Edited
<1>. QED BY <1>1, InitEdited, StepEdited, PTL DEF Spec

(***************************************************************************)
(* The abstract editor works on sequences, the routine on an array.        *)
(***************************************************************************)
\* What is behind position c moved up by k, and the gap filled.
Spliced(s, c, k, ch) ==
  [i \in 1 .. Len(s) + k |-> IF i <= c THEN s[i]
                             ELSE IF i <= c + k THEN ch ELSE s[i - k]]

Repeated(ch, k) == [i \in 1 .. k |-> ch]

LEMMA Splice ==
  ASSUME NEW S, NEW s \in Seq(S), NEW c \in 0 .. Len(s), NEW k \in Nat, NEW ch \in S
  PROVE  Spliced(s, c, k, ch) =
           SubSeq(s, 1, c) \o Repeated(ch, k) \o SubSeq(s, c + 1, Len(s))
<1>0. PICK t : t = Spliced(s, c, k, ch)
  OBVIOUS
<1>. DEFINE a == SubSeq(s, 1, c)
            b == Repeated(ch, k)
            d == SubSeq(s, c + 1, Len(s))
<1>1. Len(s) \in Nat /\ c \in Int /\ c + 1 \in Int /\ \A i \in 1 .. Len(s) : s[i] \in S
  OBVIOUS
<1>2. /\ a \in Seq(S) /\ Len(a) = c
      /\ \A i \in 1 .. c : a[i] = s[i]
  <2>1. \A i \in 1 .. c : s[i] \in S
    BY <1>1
  <2>2. /\ a \in Seq(S)
        /\ Len(a) = IF 1 <= c THEN c - 1 + 1 ELSE 0
        /\ \A i \in 1 .. c - 1 + 1 : a[i] = s[1 + i - 1]
    BY <1>1, <2>1, SubSeqProperties
  <2>. QED BY <1>1, <2>2
<1>3. b \in Seq(S) /\ Len(b) = k /\ \A i \in 1 .. k : b[i] = ch
  BY DEF Repeated
<1>4. /\ d \in Seq(S) /\ Len(d) = Len(s) - c
      /\ \A i \in 1 .. Len(s) - c : d[i] = s[c + i]
  <2>1. \A i \in c + 1 .. Len(s) : s[i] \in S
    BY <1>1
  <2>2. /\ d \in Seq(S)
        /\ Len(d) = IF c + 1 <= Len(s) THEN Len(s) - (c + 1) + 1 ELSE 0
        /\ \A i \in 1 .. Len(s) - (c + 1) + 1 : d[i] = s[c + 1 + i - 1]
    BY <1>1, <2>1, SubSeqProperties
  <2>. QED BY <1>1, <2>2
<1>. HIDE DEF a, b, d
<1>5. /\ a \o b \in Seq(S) /\ Len(a \o b) = c + k
      /\ \A i \in 1 .. c + k : (a \o b)[i] = IF i <= c THEN a[i] ELSE b[i - c]
  <2>1. a \in Seq(S) /\ b \in Seq(S)
    BY <1>2, <1>3
  <2>2. /\ a \o b \in Seq(S) /\ Len(a \o b) = Len(a) + Len(b)
        /\ \A i \in 1 .. Len(a) + Len(b) :
             (a \o b)[i] = IF i <= Len(a) THEN a[i] ELSE b[i - Len(a)]
    BY <2>1, ConcatProperties, Zenon
  <2>3. Len(a) = c /\ Len(b) = k
    BY <1>2, <1>3
  <2>. QED BY <2>2, <2>3
<1>6. /\ (a \o b) \o d \in Seq(S)
      /\ Len((a \o b) \o d) = Len(s) + k
      /\ \A i \in 1 .. Len(s) + k :
           ((a \o b) \o d)[i] = IF i <= c + k THEN (a \o b)[i] ELSE d[i - (c + k)]
  <2>1. c + k + (Len(s) - c) = Len(s) + k
    BY <1>1
  <2>. DEFINE x == a \o b
  <2>. HIDE DEF x
  <2>2. x \in Seq(S) /\ Len(x) = c + k
    BY <1>5 DEF x
  <2>3. /\ x \o d \in Seq(S)
        /\ Len(x \o d) = Len(x) + Len(d)
        /\ \A i \in 1 .. Len(x) + Len(d) :
             (x \o d)[i] = IF i <= Len(x) THEN x[i] ELSE d[i - Len(x)]
    BY <1>4, <2>2, ConcatProperties
  <2>4. Len(x) + Len(d) = Len(s) + k
    BY <1>4, <2>1, <2>2
  <2>. QED BY <2>2, <2>3, <2>4 DEF x
<1>10. t = [i \in 1 .. Len(s) + k |-> IF i <= c THEN s[i]
                                        ELSE IF i <= c + k THEN ch ELSE s[i - k]]
  BY <1>0 DEF Spliced
<1>7. ASSUME NEW i \in 1 .. Len(s) + k
      PROVE  t[i] = ((a \o b) \o d)[i]
  <2>1. CASE i <= c
    BY <1>1, <1>2, <1>5, <1>6, <1>10, <2>1
  <2>2. CASE i > c /\ i <= c + k
    BY <1>1, <1>3, <1>5, <1>6, <1>10, <2>2
  <2>3. CASE i > c + k
    <3>1. i - (c + k) \in 1 .. Len(s) - c /\ c + (i - (c + k)) = i - k
      BY <1>1, <2>3
    <3>2. t[i] = s[i - k]
      BY <1>1, <1>10, <2>3
    <3>3. ((a \o b) \o d)[i] = d[i - (c + k)]
      <4>1. ~ (i <= c + k)
        BY <1>1, <2>3
      <4>. QED BY <1>6, <4>1
    <3>. QED BY <1>4, <3>1, <3>2, <3>3
  <2>4. i <= c \/ (i > c /\ i <= c + k) \/ i > c + k
    BY <1>1
  <2>. QED BY <2>1, <2>2, <2>3, <2>4
<1>8. t \in Seq(S) /\ Len(t) = Len(s) + k
  <2>1. \A i \in 1 .. Len(s) + k : t[i] \in S
    <3>. TAKE i \in 1 .. Len(s) + k
    <3>1. i > c + k => i - k \in 1 .. Len(s)
      BY <1>1
    <3>. QED BY <1>1, <1>10, <3>1
  <2>2. t = [i \in 1 .. Len(s) + k |-> t[i]] /\ Len(s) + k \in Nat
    BY <1>1, <1>10
  <2>. QED BY <2>1, <2>2
<1>9. t = (a \o b) \o d
  BY <1>6, <1>7, <1>8, SeqEqual
<1>. QED BY <1>0, <1>9 DEF a, b, d

\* What is behind position c moved down by one.
Shortened(s, c) == [i \in 1 .. Len(s) - 1 |-> IF i < c THEN s[i] ELSE s[i + 1]]

LEMMA Cut ==
  ASSUME NEW S, NEW s \in Seq(S), NEW c \in 1 .. Len(s)
  PROVE  Shortened(s, c) = SubSeq(s, 1, c - 1) \o SubSeq(s, c + 1, Len(s))
<1>0. PICK t : t = Shortened(s, c)
  OBVIOUS
<1>. DEFINE a == SubSeq(s, 1, c - 1)
            d == SubSeq(s, c + 1, Len(s))
<1>1. /\ Len(s) \in Nat /\ c \in Int /\ c + 1 \in Int /\ c - 1 \in Int
      /\ \A i \in 1 .. Len(s) : s[i] \in S
  OBVIOUS
<1>2. /\ a \in Seq(S) /\ Len(a) = c - 1
      /\ \A i \in 1 .. c - 1 : a[i] = s[i]
  <2>1. \A i \in 1 .. c - 1 : s[i] \in S
    BY <1>1
  <2>2. /\ a \in Seq(S)
        /\ Len(a) = IF 1 <= c - 1 THEN c - 1 - 1 + 1 ELSE 0
        /\ \A i \in 1 .. c - 1 - 1 + 1 : a[i] = s[1 + i - 1]
    BY <1>1, <2>1, SubSeqProperties
  <2>. QED BY <1>1, <2>2
<1>4. /\ d \in Seq(S) /\ Len(d) = Len(s) - c
      /\ \A i \in 1 .. Len(s) - c : d[i] = s[c + i]
  <2>1. \A i \in c + 1 .. Len(s) : s[i] \in S
    BY <1>1
  <2>2. /\ d \in Seq(S)
        /\ Len(d) = IF c + 1 <= Len(s) THEN Len(s) - (c + 1) + 1 ELSE 0
        /\ \A i \in 1 .. Len(s) - (c + 1) + 1 : d[i] = s[c + 1 + i - 1]
    BY <1>1, <2>1, SubSeqProperties
  <2>. QED BY <1>1, <2>2
<1>. HIDE DEF a, d
<1>6. /\ a \o d \in Seq(S)
      /\ Len(a \o d) = Len(s) - 1
      /\ \A i \in 1 .. Len(s) - 1 : (a \o d)[i] = IF i <= c - 1 THEN a[i] ELSE d[i - (c - 1)]
  <2>1. /\ a \o d \in Seq(S)
        /\ Len(a \o d) = Len(a) + Len(d)
        /\ \A i \in 1 .. Len(a) + Len(d) :
             (a \o d)[i] = IF i <= Len(a) THEN a[i] ELSE d[i - Len(a)]
    BY <1>2, <1>4, ConcatProperties
  <2>2. Len(a) + Len(d) = Len(s) - 1
    BY <1>1, <1>2, <1>4
  <2>. QED BY <1>2, <2>1, <2>2
<1>10. t = [i \in 1 .. Len(s) - 1 |-> IF i < c THEN s[i] ELSE s[i + 1]]
  BY <1>0 DEF Shortened
<1>7. ASSUME NEW i \in 1 .. Len(s) - 1
      PROVE  t[i] = (a \o d)[i]
  <2>1. CASE i < c
    BY <1>1, <1>2, <1>6, <1>10, <2>1
  <2>2. CASE i >= c
    <3>1. i - (c - 1) \in 1 .. Len(s) - c /\ c + (i - (c - 1)) = i + 1
      BY <1>1, <2>2
    <3>2. t[i] = s[i + 1]
      BY <1>1, <1>10, <2>2
    <3>3. (a \o d)[i] = d[i - (c - 1)]
      <4>1. ~ (i <= c - 1)
        BY <1>1, <2>2
      <4>. QED BY <1>6, <4>1
    <3>. QED BY <1>4, <3>1, <3>2, <3>3
  <2>3. i < c \/ i >= c
    BY <1>1
  <2>. QED BY <2>1, <2>2, <2>3
<1>8. t \in Seq(S) /\ Len(t) = Len(s) - 1
  <2>1. \A i \in 1 .. Len(s) - 1 : t[i] \in S
    BY <1>1, <1>10
  <2>2. t = [i \in 1 .. Len(s) - 1 |-> t[i]] /\ Len(s) - 1 \in Nat
    BY <1>1, <1>10
  <2>. QED BY <2>1, <2>2
<1>9. t = a \o d
  BY <1>6, <1>7, <1>8, SeqEqual
<1>. QED BY <1>0, <1>9 DEF a, d

(***************************************************************************)
(* The routine implements the abstract editor.                             *)
(***************************************************************************)
LEMMA OpenText ==
  ASSUME Edited, input_on
  PROVE  /\ Text \in Seq(Chars) /\ Len(Text) = buffer_index_max
         /\ \A i \in 1 .. buffer_index_max : Text[i] = buffer[i - 1]
         /\ Cursor = buffer_index /\ Cursor \in 0 .. Len(Text)
         /\ buffer_index \in Nat /\ buffer_index_max \in Nat
<1>1. /\ buffer_index \in Nat /\ buffer_index_max \in Nat
      /\ buffer_index_max < BufferSize /\ buffer_index <= buffer_index_max
      /\ buffer \in [Indices -> Chars \cup {NUL}]
      /\ \A i \in 0 .. buffer_index_max - 1 : buffer[i] # NUL
  BY BufferAssumption DEF Edited, TypeOK, CursorInText, Indices
<1>2. ASSUME NEW i \in 1 .. buffer_index_max
      PROVE  buffer[i - 1] \in Chars
  <2>1. i - 1 \in 0 .. buffer_index_max - 1 /\ i - 1 \in Indices
    BY <1>1, BufferAssumption DEF Indices
  <2>. QED BY <1>1, <2>1
<1>3. Text = [i \in 1 .. buffer_index_max |-> buffer[i - 1]] /\ Cursor = buffer_index
  BY DEF Text, Cursor
<1>. QED BY <1>1, <1>2, <1>3

\* The characters up to the first NUL.
LEMMA CStringEnds ==
  ASSUME NEW b, NEW n \in Indices, b[n] = NUL, \A i \in 0 .. n - 1 : b[i] # NUL
  PROVE  CString(b) = [i \in 1 .. n |-> b[i - 1]]
<1>. DEFINE ends == {i \in Indices : b[i] = NUL}
<1>1. n \in ends /\ n \in Int
  BY BufferAssumption DEF Indices
<1>2. ASSUME NEW j \in ends
      PROVE  n <= j /\ j \in Int
  <2>1. j \in Int /\ j >= 0 /\ (j < n => j \in 0 .. n - 1)
    BY <1>1, BufferAssumption DEF Indices
  <2>. QED BY <1>1, <2>1
<1>3. CString(b) = LET m == IF ends = {} THEN BufferSize
                            ELSE CHOOSE i \in ends : \A j \in ends : i <= j
                   IN  [i \in 1 .. m |-> b[i - 1]]
  BY DEF CString
<1>. HIDE DEF ends
<1>4. \A i \in ends : (\A j \in ends : i <= j) => i = n
  BY <1>1, <1>2
<1>5. (CHOOSE i \in ends : \A j \in ends : i <= j) = n
  BY <1>1, <1>2, <1>4
<1>. QED BY <1>1, <1>3, <1>5

LEMMA TypeIsInsert ==
  ASSUME Edited, input_on, NEW ch \in Chars, NEW n \in Nat, Type(ch, n),
         UNCHANGED <<at, line>>
  PROVE  Editor!Insert(ch, n)
<1>. DEFINE k == Fitting(n)
<1>1. /\ Text \in Seq(Chars) /\ Len(Text) = buffer_index_max
      /\ \A i \in 1 .. buffer_index_max : Text[i] = buffer[i - 1]
      /\ Cursor = buffer_index /\ Cursor \in 0 .. Len(Text)
      /\ buffer_index \in Nat /\ buffer_index_max \in Nat
  BY OpenText
<1>2. /\ buffer_index' = buffer_index + k
      /\ buffer_index_max' = buffer_index_max + k
      /\ \A i \in 0 .. buffer_index_max' - 1 :
           buffer'[i] = IF i < buffer_index THEN buffer[i]
                        ELSE IF i < buffer_index' THEN ch
                        ELSE buffer[i - k]
      /\ UNCHANGED input_on
  BY TypeEdited
<1>3. k \in Nat
  BY FittingRoom DEF Edited, TypeOK
<1>4. k = IF n < Full - Len(Text) THEN n ELSE Full - Len(Text)
  BY <1>1 DEF Fitting
<1>. HIDE DEF k
<1>5. /\ Text' = [i \in 1 .. buffer_index_max + k |-> buffer'[i - 1]]
      /\ Cursor' = Cursor + k
      /\ Finished' = Finished
  BY <1>1, <1>2 DEF Text, Cursor, Finished
<1>6. ASSUME NEW i \in 1 .. buffer_index_max + k
      PROVE  buffer'[i - 1] = IF i <= Cursor THEN Text[i]
                              ELSE IF i <= Cursor + k THEN ch ELSE Text[i - k]
  <2>1. /\ i - 1 \in 0 .. buffer_index_max' - 1
        /\ i - 1 < buffer_index <=> i <= Cursor
        /\ i - 1 < buffer_index' <=> i <= Cursor + k
    BY <1>1, <1>2, <1>3
  <2>2. buffer'[i - 1] = IF i <= Cursor THEN buffer[i - 1]
                         ELSE IF i <= Cursor + k THEN ch
                         ELSE buffer[(i - 1) - k]
    BY <1>2, <2>1
  <2>3. CASE i <= Cursor
    <3>1. i \in 1 .. buffer_index_max
      BY <1>1, <1>3, <2>3
    <3>. QED BY <1>1, <2>2, <2>3, <3>1
  <2>4. CASE ~ (i <= Cursor) /\ i <= Cursor + k
    BY <2>2, <2>4
  <2>5. CASE ~ (i <= Cursor) /\ ~ (i <= Cursor + k)
    <3>1. i - k \in 1 .. buffer_index_max /\ (i - 1) - k = (i - k) - 1
      BY <1>1, <1>3, <2>5
    <3>2. Text[i - k] = buffer[(i - 1) - k]
      BY <1>1, <3>1
    <3>. QED BY <2>2, <2>5, <3>2
  <2>. QED BY <2>3, <2>4, <2>5
<1>7. Text' = [i \in 1 .. Len(Text) + k |->
                 IF i <= Cursor THEN Text[i]
                 ELSE IF i <= Cursor + k THEN ch ELSE Text[i - k]]
  BY <1>1, <1>5, <1>6
<1>8. Text' = SubSeq(Text, 1, Cursor) \o Repeated(ch, k)
                \o SubSeq(Text, Cursor + 1, Len(Text))
  <2>1. Text \in Seq(Chars) /\ Cursor \in 0 .. Len(Text)
    BY <1>1
  <2>2. Text' = Spliced(Text, Cursor, k, ch)
    BY <1>7 DEF Spliced
  <2>3. Spliced(Text, Cursor, k, ch) =
          SubSeq(Text, 1, Cursor) \o Repeated(ch, k) \o SubSeq(Text, Cursor + 1, Len(Text))
    BY <1>3, <2>1, Splice
  <2>. QED BY <2>2, <2>3
<1>. QED BY <1>2, <1>4, <1>5, <1>8 DEF Editor!Insert, Editor!Before, Editor!After, Repeated

LEMMA DeleteIsErase ==
  ASSUME Edited, input_on, keyboard_delete, UNCHANGED <<at, line>>
  PROVE  Editor!Erase \/ UNCHANGED <<input_on, Text, Cursor, Finished>>
<1>1. CASE UNCHANGED keyboard_state
  BY <1>1 DEF keyboard_state, Text, Cursor, Finished
<1>2. CASE /\ buffer_index > 0
           /\ buffer_index' = buffer_index - 1
           /\ buffer_index_max' = buffer_index_max - 1
           /\ \A i \in 0 .. buffer_index_max' - 1 :
                buffer'[i] = IF i < buffer_index' THEN buffer[i] ELSE buffer[i + 1]
           /\ UNCHANGED input_on
  <2>1. /\ Text \in Seq(Chars) /\ Len(Text) = buffer_index_max
        /\ \A i \in 1 .. buffer_index_max : Text[i] = buffer[i - 1]
        /\ Cursor = buffer_index /\ Cursor \in 1 .. Len(Text)
        /\ buffer_index \in Nat /\ buffer_index_max \in Nat
    BY <1>2, OpenText
  <2>2. /\ Text' = [i \in 1 .. buffer_index_max - 1 |-> buffer'[i - 1]]
        /\ Cursor' = Cursor - 1
        /\ Finished' = Finished
    BY <1>2, <2>1 DEF Text, Cursor, Finished
  <2>3. ASSUME NEW i \in 1 .. buffer_index_max - 1
        PROVE  buffer'[i - 1] = IF i < Cursor THEN Text[i] ELSE Text[i + 1]
    <3>1. /\ i - 1 \in 0 .. buffer_index_max' - 1
          /\ i - 1 < buffer_index' <=> i < Cursor
          /\ i \in 1 .. buffer_index_max /\ i + 1 \in 1 .. buffer_index_max
          /\ (i - 1) + 1 = (i + 1) - 1
      BY <1>2, <2>1
    <3>2. buffer'[i - 1] = IF i < Cursor THEN buffer[i - 1] ELSE buffer[(i - 1) + 1]
      BY <1>2, <3>1
    <3>3. Text[i] = buffer[i - 1] /\ Text[i + 1] = buffer[(i - 1) + 1]
      BY <2>1, <3>1
    <3>. QED BY <3>2, <3>3
  <2>4. Text' = [i \in 1 .. Len(Text) - 1 |-> IF i < Cursor THEN Text[i] ELSE Text[i + 1]]
    BY <2>1, <2>2, <2>3
  <2>5. Text' = SubSeq(Text, 1, Cursor - 1) \o SubSeq(Text, Cursor + 1, Len(Text))
    <3>1. Text \in Seq(Chars) /\ Cursor \in 1 .. Len(Text)
      BY <2>1
    <3>2. Text' = Shortened(Text, Cursor)
      BY <2>4 DEF Shortened
    <3>. QED BY <3>1, <3>2, Cut
  <2>. QED BY <1>2, <2>1, <2>2, <2>5 DEF Editor!Erase, Editor!After
<1>. QED BY <1>1, <1>2, DeleteEdited

LEMMA EnterIsFinish ==
  ASSUME Edited, input_on, Enter, UNCHANGED <<at, line>>
  PROVE  Editor!Finish
<1>1. /\ Text \in Seq(Chars) /\ Len(Text) = buffer_index_max
      /\ \A i \in 1 .. buffer_index_max : Text[i] = buffer[i - 1]
      /\ Cursor = buffer_index /\ Cursor \in 0 .. Len(Text)
      /\ buffer_index \in Nat /\ buffer_index_max \in Nat
  BY OpenText
<1>2. /\ buffer_index \in Indices
      /\ buffer \in [Indices -> Chars \cup {NUL}]
      /\ \A i \in 0 .. buffer_index_max - 1 : buffer[i] # NUL
  BY DEF Edited, TypeOK, CursorInText
<1>3. /\ buffer' = [buffer EXCEPT ![buffer_index] = NUL]
      /\ input_on' = FALSE
  BY DEF Enter
<1>4. /\ buffer'[buffer_index] = NUL
      /\ \A i \in 0 .. buffer_index - 1 : buffer'[i] = buffer[i] /\ buffer[i] # NUL
  <2>1. ASSUME NEW i \in 0 .. buffer_index - 1
        PROVE  i \in Indices /\ i # buffer_index /\ i \in 0 .. buffer_index_max - 1
    BY <1>1, <1>2, BufferAssumption DEF Indices
  <2>. QED BY <1>2, <1>3, <2>1
<1>5. CString(buffer') = [i \in 1 .. buffer_index |-> buffer'[i - 1]]
  BY <1>2, <1>4, CStringEnds
<1>6. \A i \in 1 .. buffer_index : buffer'[i - 1] = Text[i]
  <2>1. ASSUME NEW i \in 1 .. buffer_index
        PROVE  i - 1 \in 0 .. buffer_index - 1 /\ i \in 1 .. buffer_index_max
    BY <1>1
  <2>. QED BY <1>1, <1>4, <2>1
<1>7. Finished' = CString(buffer') /\ Text' = <<>> /\ Cursor' = 0
  BY <1>3 DEF Finished, Text, Cursor, Edited, Ready
<1>8. SubSeq(Text, 1, Cursor) = [i \in 1 .. Cursor |-> Text[i]]
  BY <1>1
<1>9. Finished' = SubSeq(Text, 1, Cursor)
  BY <1>1, <1>5, <1>6, <1>7, <1>8
<1>. QED BY <1>3, <1>7, <1>9 DEF Editor!Finish, Editor!Before

LEMMA StepDelivers ==
  Edited /\ [Next]_vars => [Editor!Next]_(Editor!editorVars)
<1>. SUFFICES ASSUME Edited, [Next]_vars
              PROVE  Editor!Next \/ UNCHANGED <<input_on, Text, Cursor, Finished>>
  BY DEF Editor!editorVars
<1>1. ASSUME NEW k \in Keys, Press(k)
      PROVE  UNCHANGED <<input_on, Text, Cursor, Finished>>
  BY <1>1 DEF Press, keyboard_state, Text, Cursor, Finished
<1>2. CASE IsrInputOff
  BY <1>2 DEF IsrInputOff, Text, Cursor, Finished
<1>3. CASE IsrInputOn
  <2>1. input_on /\ UNCHANGED <<at, line>>
    BY <1>3 DEF IsrInputOn
  <2>2. CASE port \in Chars /\ Type(port, 1)
    BY <2>1, <2>2, TypeIsInsert DEF Editor!Next
  <2>3. CASE Type(Space, TabWidth)
    BY <2>1, <2>3, TypeIsInsert, BufferAssumption, CharAssumption DEF Editor!Next
  <2>4. CASE keyboard_delete
    BY <2>1, <2>4, DeleteIsErase DEF Editor!Next
  <2>5. CASE Enter
    BY <2>1, <2>5, EnterIsFinish DEF Editor!Next
  <2>6. CASE MoveCursor(port)
    <3>1. /\ Cursor = buffer_index /\ Len(Text) = buffer_index_max
          /\ buffer_index \in Nat /\ buffer_index_max \in Nat
          /\ Cursor \in 0 .. Len(Text)
      BY <2>1, OpenText
    <3>2. /\ input_on' /\ UNCHANGED input_on
          /\ Text' = Text /\ Cursor' = buffer_index' /\ Finished' = Finished
      BY <2>1, <2>6 DEF MoveCursor, Text, Cursor, Finished
    <3>3. \/ buffer_index' = buffer_index
          \/ /\ buffer_index' \in {Cursor - 1, Cursor + 1}
             /\ buffer_index' \in 0 .. Len(Text)
      BY <2>6, <3>1 DEF MoveCursor
    <3>. QED BY <2>1, <3>1, <3>2, <3>3 DEF Editor!Next, Editor!Move
  <2>. QED BY <1>3, <2>2, <2>3, <2>4, <2>5, <2>6 DEF IsrInputOn
<1>4. CASE Activate
  <2>1. at = "user" /\ at' = "spin" /\ input_on' = TRUE /\ UNCHANGED <<line, buffer_index, buffer_index_max>>
    BY <1>4 DEF Activate
  <2>2. ~ input_on /\ buffer_index' = 0 /\ buffer_index_max' = 0
    BY <2>1 DEF Edited, Ready
  <2>3. Text = <<>> /\ Cursor = 0 /\ Finished = line
    BY <2>1, <2>2 DEF Text, Cursor, Finished
  <2>4. Text' = <<>>
    <3>1. Text' = [i \in 1 .. 0 |-> buffer'[i - 1]]
      BY <2>1, <2>2 DEF Text
    <3>. QED BY <3>1
  <2>5. Cursor' = 0 /\ Finished' = line
    BY <2>1, <2>2 DEF Cursor, Finished
  <2>. QED BY <2>1, <2>2, <2>3, <2>4, <2>5 DEF Editor!Next, Editor!Begin
<1>5. CASE CopyLine
  BY <1>5 DEF CopyLine, keyboard_state, Text, Cursor, Finished
<1>6. CASE keyboard_clear_buffer
  BY <1>6 DEF keyboard_clear_buffer, Text, Cursor, Finished, Edited, Ready
<1>7. CASE UNCHANGED vars
  BY <1>7 DEF vars, keyboard_state, Text, Cursor, Finished
<1>. QED BY <1>1, <1>2, <1>3, <1>4, <1>5, <1>6, <1>7 DEF Next

\* What system call 4 delivers is the line as it was edited, for a buffer of any
\* size and whenever keys arrive, those pressed while nobody waits included.
THEOREM SpecDeliversLine == Spec => DeliversLine
<1>1. Init => Editor!Init
  BY DEF Init, Editor!Init, Text, Cursor, Finished
<1>. QED BY <1>1, InitEdited, StepEdited, StepDelivers, PTL
         DEF Spec, DeliversLine, Editor!Spec

(***************************************************************************)
(* The screen takes no part in it: what Console adds to a step of the      *)
(* service routine or of the program leaves the keyboard's state alone.    *)
(***************************************************************************)
LEMMA ConsoleStep == [ConsoleNext]_consoleVars => [Next]_vars
<1>1. ASSUME Puts PROVE UNCHANGED vars
  BY <1>1 DEF Puts
<1>2. ASSUME UNCHANGED consoleVars PROVE UNCHANGED vars
  BY <1>2 DEF consoleVars
<1>. QED BY <1>1, <1>2 DEF ConsoleNext, Next, ShowInput, BeginLine, EndLine

\* With the screen in the picture the line is delivered all the same.
THEOREM ConsoleDeliversLine == ConsoleSpec => DeliversLine
<1>1. ConsoleInit => Init /\ Editor!Init
  BY DEF ConsoleInit, Init, Editor!Init, Text, Cursor, Finished
<1>. QED BY <1>1, ConsoleStep, InitEdited, StepEdited, StepDelivers, PTL
         DEF ConsoleSpec, DeliversLine, Editor!Spec

\* The screen in the picture, the indices stay bytes and the buffer holds
\* characters, whatever is typed.
THEOREM ConsoleTypeOK == ConsoleSpec => []TypeOK
<1>1. ConsoleInit => Init
  BY DEF ConsoleInit
<1>2. Edited => TypeOK
  BY DEF Edited
<1>. QED BY <1>1, <1>2, ConsoleStep, InitEdited, StepEdited, PTL DEF ConsoleSpec

\* And no index of an open line wraps.
THEOREM ConsoleCursorInText == ConsoleSpec => [](TypeOK /\ CursorInText)
<1>1. ConsoleInit => Init
  BY DEF ConsoleInit
<1>2. Edited => TypeOK /\ CursorInText
  BY DEF Edited
<1>. QED BY <1>1, <1>2, ConsoleStep, InitEdited, StepEdited, PTL DEF ConsoleSpec

(***************************************************************************)
(* Rows and columns.  The routine splits the cursor's register into eight- *)
(* bit halves and puts it together again: that comes out right as long as  *)
(* the rows that a line can reach are numbered by a byte.                  *)
(***************************************************************************)
Roomy == VGA_WIDTH * VGA_HEIGHT + BufferSize <= VGA_WIDTH * BufferSize

\* Places whose row is a byte.
Reach == {p \in Nat : p < VGA_WIDTH * BufferSize}

LEMMA Sizes ==
  /\ VGA_WIDTH \in Nat /\ VGA_WIDTH > 0 /\ VGA_WIDTH < BufferSize
  /\ VGA_HEIGHT \in Nat /\ VGA_HEIGHT > 0 /\ VGA_HEIGHT < BufferSize
  /\ BufferSize \in Nat /\ VGA_WIDTH * BufferSize \in Nat /\ VGA_WIDTH * VGA_HEIGHT \in Nat
BY ScreenAssumption, BufferAssumption

LEMMA Split ==
  ASSUME NEW p \in Nat
  PROVE  /\ p \div VGA_WIDTH \in Nat /\ p % VGA_WIDTH \in 0 .. VGA_WIDTH - 1
         /\ p = (p \div VGA_WIDTH) * VGA_WIDTH + (p % VGA_WIDTH)
BY Sizes

LEMMA RowBefore ==
  ASSUME NEW r \in Nat, NEW c \in Nat, NEW n \in Nat, r * VGA_WIDTH + c < VGA_WIDTH * n
  PROVE  r < n
<1>1. ASSUME r >= n
      PROVE  r * VGA_WIDTH >= n * VGA_WIDTH
  BY <1>1, Sizes
<1>2. n * VGA_WIDTH = VGA_WIDTH * n /\ r * VGA_WIDTH \in Nat
  BY Sizes
<1>. QED BY <1>1, <1>2, Sizes

LEMMA RowWithin ==
  ASSUME NEW r \in Nat, NEW n \in Nat, r < n, NEW c \in 0 .. VGA_WIDTH - 1
  PROVE  r * VGA_WIDTH + c \in Nat /\ r * VGA_WIDTH + c < VGA_WIDTH * n
<1>1. (r + 1) * VGA_WIDTH <= n * VGA_WIDTH
  BY Sizes
<1>2. (r + 1) * VGA_WIDTH = r * VGA_WIDTH + VGA_WIDTH /\ r * VGA_WIDTH \in Nat
  BY Sizes
<1>3. n * VGA_WIDTH = VGA_WIDTH * n
  BY Sizes
<1>. QED BY <1>1, <1>2, <1>3, Sizes

LEMMA ByteIs == \A n \in 0 .. BufferSize - 1 : Byte(n) = n
BY BufferAssumption DEF Byte

LEMMA AtIs ==
  ASSUME NEW r \in Nat, r < BufferSize, NEW c \in Nat, c < BufferSize
  PROVE  At(r, c) = r * VGA_WIDTH + c
<1>1. Byte(r) = r /\ Byte(c) = c
  BY ByteIs, Sizes
<1>. QED BY <1>1 DEF At

LEMMA ReachRow ==
  ASSUME NEW p \in Reach
  PROVE  /\ p \in Nat /\ p \div VGA_WIDTH \in Nat /\ p \div VGA_WIDTH < BufferSize
         /\ Byte(p \div VGA_WIDTH) = p \div VGA_WIDTH
         /\ p % VGA_WIDTH \in 0 .. VGA_WIDTH - 1
         /\ p = (p \div VGA_WIDTH) * VGA_WIDTH + (p % VGA_WIDTH)
         /\ (p \div VGA_WIDTH) * VGA_WIDTH \in Nat
<1>1. PICK r, c : r = p \div VGA_WIDTH /\ c = p % VGA_WIDTH
  OBVIOUS
<1>2. p \in Nat /\ p < VGA_WIDTH * BufferSize
  BY DEF Reach
<1>3. r \in Nat /\ c \in 0 .. VGA_WIDTH - 1 /\ p = r * VGA_WIDTH + c
  BY <1>1, <1>2, Split
<1>4. r < BufferSize
  BY <1>2, <1>3, Sizes, RowBefore
<1>5. Byte(r) = r
  BY <1>3, <1>4, Sizes, ByteIs
<1>6. r * VGA_WIDTH \in Nat
  BY <1>3, Sizes
<1>. QED BY <1>1, <1>2, <1>3, <1>4, <1>5, <1>6

\* One place further on, by the column or into the next row.
LEMMA NextPlace ==
  ASSUME NEW p \in Reach, p + 1 \in Reach
  PROVE  /\ At(p \div VGA_WIDTH, (p % VGA_WIDTH) + 1) = p + 1
         /\ p % VGA_WIDTH = VGA_WIDTH - 1 => At((p \div VGA_WIDTH) + 1, 0) = p + 1
<1>1. PICK r, c : r = p \div VGA_WIDTH /\ c = p % VGA_WIDTH
  OBVIOUS
<1>2. /\ p \in Nat /\ r \in Nat /\ r < BufferSize /\ c \in 0 .. VGA_WIDTH - 1
      /\ p = r * VGA_WIDTH + c
  BY <1>1, ReachRow
<1>3. At(r, c + 1) = p + 1
  <2>1. c + 1 \in Nat /\ c + 1 < BufferSize
    BY <1>2, Sizes
  <2>2. At(r, c + 1) = r * VGA_WIDTH + (c + 1)
    BY <1>2, <2>1, AtIs
  <2>3. r * VGA_WIDTH \in Nat
    BY <1>2, Sizes
  <2>. QED BY <1>2, <2>2, <2>3
<1>4. ASSUME c = VGA_WIDTH - 1
      PROVE  At(r + 1, 0) = p + 1
  <2>1. (r + 1) * VGA_WIDTH = r * VGA_WIDTH + VGA_WIDTH /\ r * VGA_WIDTH \in Nat
    BY <1>2, Sizes
  <2>2. p + 1 = (r + 1) * VGA_WIDTH + 0
    BY <1>2, <1>4, <2>1, Sizes
  <2>3. p + 1 < VGA_WIDTH * BufferSize
    BY DEF Reach
  <2>4. r + 1 < BufferSize
    BY <1>2, <2>2, <2>3, Sizes, RowBefore
  <2>. QED BY <1>2, <2>2, <2>4, Sizes, AtIs
<1>. QED BY <1>1, <1>3, <1>4

\* One place back.
LEMMA LastPlace ==
  ASSUME NEW p \in Reach, p > 0
  PROVE  /\ p % VGA_WIDTH # 0 => At(p \div VGA_WIDTH, (p % VGA_WIDTH) - 1) = p - 1
         /\ p % VGA_WIDTH = 0 => At((p \div VGA_WIDTH) - 1, VGA_WIDTH - 1) = p - 1
<1>1. PICK r, c : r = p \div VGA_WIDTH /\ c = p % VGA_WIDTH
  OBVIOUS
<1>2. /\ p \in Nat /\ r \in Nat /\ r < BufferSize /\ c \in 0 .. VGA_WIDTH - 1
      /\ p = r * VGA_WIDTH + c /\ r * VGA_WIDTH \in Nat
  BY <1>1, ReachRow
<1>3. ASSUME c # 0
      PROVE  At(r, c - 1) = p - 1
  <2>1. c - 1 \in Nat /\ c - 1 < BufferSize
    BY <1>2, <1>3, Sizes
  <2>2. At(r, c - 1) = r * VGA_WIDTH + (c - 1)
    BY <1>2, <2>1, AtIs
  <2>. QED BY <1>2, <2>2
<1>4. ASSUME c = 0
      PROVE  At(r - 1, VGA_WIDTH - 1) = p - 1
  <2>1. r # 0
    BY <1>2, <1>4, Sizes
  <2>2. r - 1 \in Nat /\ r - 1 < BufferSize
    BY <1>2, <2>1, Sizes
  <2>3. (r - 1) * VGA_WIDTH + VGA_WIDTH = r * VGA_WIDTH /\ (r - 1) * VGA_WIDTH \in Nat
    BY <1>2, <2>2, Sizes
  <2>4. At(r - 1, VGA_WIDTH - 1) = (r - 1) * VGA_WIDTH + (VGA_WIDTH - 1)
    BY <2>2, Sizes, AtIs
  <2>. QED BY <1>2, <1>4, <2>3, <2>4, Sizes
<1>. QED BY <1>1, <1>3, <1>4

\* Counted on from a row's beginning by no more than a byte.
LEMMA PlaceIs ==
  ASSUME NEW p \in Reach, NEW j \in 0 .. BufferSize - 1, NEW q \in Reach,
         q = (p - (p % VGA_WIDTH)) + j
  PROVE  Place(Byte(p \div VGA_WIDTH), j) = q
<1>1. PICK r, c, s, d :
        /\ r = p \div VGA_WIDTH /\ c = p % VGA_WIDTH
        /\ s = j \div VGA_WIDTH /\ d = j % VGA_WIDTH
  OBVIOUS
<1>2. /\ r \in Nat /\ c \in 0 .. VGA_WIDTH - 1 /\ Byte(r) = r
      /\ p \in Nat /\ p = r * VGA_WIDTH + c /\ r * VGA_WIDTH \in Nat
  BY <1>1, ReachRow
<1>3. j \in Nat /\ Byte(j) = j
  BY Sizes, ByteIs
<1>4. s \in Nat /\ d \in 0 .. VGA_WIDTH - 1 /\ j = s * VGA_WIDTH + d /\ s * VGA_WIDTH \in Nat
  BY <1>1, <1>3, Split, Sizes
<1>5. (r + s) * VGA_WIDTH = r * VGA_WIDTH + s * VGA_WIDTH
  BY <1>2, <1>4, Sizes
<1>6. q = (r + s) * VGA_WIDTH + d
  BY <1>1, <1>2, <1>4, <1>5
<1>7. q < VGA_WIDTH * BufferSize
  BY DEF Reach
<1>8. r + s \in Nat /\ r + s < BufferSize /\ d \in Nat /\ d < BufferSize
  BY <1>2, <1>4, <1>6, <1>7, Sizes, RowBefore
<1>9. At(r + s, d) = (r + s) * VGA_WIDTH + d
  BY <1>8, AtIs
<1>10. Place(r, j) = At(r + s, d)
  BY <1>1, <1>3 DEF Place
<1>. QED BY <1>1, <1>2, <1>6, <1>9, <1>10

(***************************************************************************)
(* What is drawn.                                                          *)
(***************************************************************************)
\* The line begins at s, the cursor is at p, where its character from belongs,
\* and those from first to last can be counted on from the cursor's row.
Countable(p, s, first, last, from) ==
  /\ p \in Reach /\ s \in Nat /\ first \in Nat /\ last \in Nat /\ from \in Nat
  /\ p = s + from /\ (p % VGA_WIDTH) + first >= from
  /\ (p % VGA_WIDTH) + last < BufferSize + from /\ s + last < VGA_WIDTH * BufferSize

\* Each character in the cell that the beginning of the line gives it.
LEMMA ShownIs ==
  ASSUME NEW p, NEW s, NEW first, NEW last, NEW from, Countable(p, s, first, last, from),
         NEW screen, NEW b
  PROVE  Shown(screen, Byte(p \div VGA_WIDTH), p % VGA_WIDTH, b, first, last, from) =
           [x \in Cells |-> IF x - s \in first .. last THEN b[x - s] ELSE screen[x]]
<1>0. /\ p \in Reach /\ s \in Nat /\ first \in Nat /\ last \in Nat /\ from \in Nat
      /\ p = s + from /\ (p % VGA_WIDTH) + first >= from
      /\ (p % VGA_WIDTH) + last < BufferSize + from /\ s + last < VGA_WIDTH * BufferSize
  BY DEF Countable
<1>1. PICK r, c : r = Byte(p \div VGA_WIDTH) /\ c = p % VGA_WIDTH
  OBVIOUS
<1>2. c \in Nat /\ p \in Nat /\ c + first >= from /\ c + last < BufferSize + from
  BY <1>0, <1>1, ReachRow
<1>3. ASSUME NEW i \in first .. last
      PROVE  Place(r, c + i - from) = s + i
  <2>1. PICK j : j = c + i - from
    OBVIOUS
  <2>2. j \in 0 .. BufferSize - 1
    BY <1>0, <1>2, <2>1, Sizes
  <2>3. s + i \in Reach
    BY <1>0, Sizes DEF Reach
  <2>4. s + i = (p - c) + j
    BY <1>0, <1>2, <2>1
  <2>. QED BY <1>0, <1>1, <2>1, <2>2, <2>3, <2>4, PlaceIs
<1>. DEFINE here(x) == {i \in first .. last : Place(r, c + i - from) = x}
<1>4. Shown(screen, r, c, b, first, last, from) =
        [x \in Cells |-> IF here(x) = {} THEN screen[x] ELSE b[CHOOSE i \in here(x) : TRUE]]
  BY DEF Shown
<1>5. ASSUME NEW x \in Cells
      PROVE  /\ x - s \in first .. last => here(x) = {x - s}
             /\ x - s \notin first .. last => here(x) = {}
  <2>1. x \in Int
    BY DEF Cells
  <2>2. \A i \in first .. last : Place(r, c + i - from) = x <=> i = x - s
    BY <1>0, <1>3, <2>1
  <2>. QED BY <2>2
<1>. HIDE DEF here
<1>6. ASSUME NEW x \in Cells
      PROVE  (IF here(x) = {} THEN screen[x] ELSE b[CHOOSE i \in here(x) : TRUE]) =
             IF x - s \in first .. last THEN b[x - s] ELSE screen[x]
  <2>1. CASE x - s \in first .. last
    <3>1. PICK y : y = x - s
      OBVIOUS
    <3>2. here(x) = {y}
      BY <1>5, <2>1, <3>1
    <3>3. {y} # {} /\ (CHOOSE i \in {y} : TRUE) = y
      OBVIOUS
    <3>. QED BY <2>1, <3>1, <3>2, <3>3
  <2>2. CASE x - s \notin first .. last
    BY <1>5, <2>2
  <2>. QED BY <2>1, <2>2
<1>. QED BY <1>1, <1>4, <1>6

\* An open line as it is on the screen, and room for n characters more.
Echoing(n) ==
  /\ Roomy
  /\ buffer_index \in Nat /\ buffer_index_max \in Nat /\ buffer_index <= buffer_index_max
  /\ n \in Nat /\ buffer_index_max + n < BufferSize
  /\ start \in Cells /\ pos = start + buffer_index
  /\ VGA_WIDTH + buffer_index_max - buffer_index <= BufferSize
  /\ \A x \in Cells : x - start \in 0 .. buffer_index_max - 1 => cells[x] = buffer[x - start]

\* Nowhere on its way does the cursor leave the rows that a byte numbers.
LEMMA EchoReach ==
  ASSUME NEW n, Echoing(n), NEW i \in Nat, i <= buffer_index_max + n
  PROVE  start \in Nat /\ start + i \in Reach /\ start + i < VGA_WIDTH * BufferSize
<1>1. start \in Nat /\ start < VGA_WIDTH * VGA_HEIGHT
  BY Sizes DEF Echoing, Cells
<1>2. i < BufferSize
  BY Sizes DEF Echoing
<1>3. start + i < VGA_WIDTH * BufferSize
  BY <1>1, <1>2, Sizes DEF Echoing, Roomy
<1>. QED BY <1>1, <1>3 DEF Reach

\* What k characters leave of the screen.
Drawn(ch, k) ==
  [x \in Cells |-> IF x - start \in 0 .. buffer_index_max + k - 1
                     THEN Inserted(ch, k)[x - start] ELSE cells[x]]

LEMMA DrawnNone ==
  ASSUME Echoing(0), NEW ch, NEW x \in Cells
  PROVE  Drawn(ch, 0)[x] = cells[x]
<1>1. ASSUME NEW i \in 0 .. buffer_index_max - 1
      PROVE  Inserted(ch, 0)[i] = buffer[i]
  <2>1. i \in Indices /\ buffer_index + 0 = buffer_index
    BY Sizes DEF Echoing, Indices
  <2>2. i \notin buffer_index .. buffer_index + 0 - 1
    BY DEF Echoing
  <2>3. i - 0 = i
    OBVIOUS
  <2>. QED BY <2>1, <2>2, <2>3 DEF Inserted
<1>2. buffer_index_max + 0 - 1 = buffer_index_max - 1
  BY DEF Echoing
<1>. QED BY <1>1, <1>2 DEF Drawn, Echoing

LEMMA DrawnNext ==
  ASSUME NEW n, Echoing(n), NEW ch, NEW k \in 1 .. n, NEW screen,
         \A x \in Cells : screen[x] = Drawn(ch, k - 1)[x],
         NEW p, p = pos + (k - 1)
  PROVE  Shown(screen, Byte(p \div VGA_WIDTH), p % VGA_WIDTH, Inserted(ch, k),
               buffer_index + k - 1, buffer_index_max + k - 1, buffer_index + k - 1)
           = Drawn(ch, k)
<1>1. PICK first, last : first = buffer_index + k - 1 /\ last = buffer_index_max + k - 1
  OBVIOUS
<1>2. /\ buffer_index \in Nat /\ buffer_index_max \in Nat /\ buffer_index <= buffer_index_max
      /\ first \in Nat /\ last \in Nat /\ first <= last
      /\ first <= buffer_index_max + n /\ last <= buffer_index_max + n
      /\ buffer_index_max + k < BufferSize /\ k \in Nat /\ k >= 1
  BY <1>1, Sizes DEF Echoing
<1>3. start \in Nat /\ start + first \in Reach /\ start + last < VGA_WIDTH * BufferSize
  BY <1>2, EchoReach
<1>4. p = start + first /\ p \in Reach
  BY <1>1, <1>2, <1>3 DEF Echoing
<1>5. p % VGA_WIDTH \in 0 .. VGA_WIDTH - 1
  BY <1>3, <1>4, ReachRow
<1>6. (p % VGA_WIDTH) + first >= first /\ (p % VGA_WIDTH) + last < BufferSize + first
  BY <1>1, <1>2, <1>5, Sizes DEF Echoing
<1>7. Shown(screen, Byte(p \div VGA_WIDTH), p % VGA_WIDTH, Inserted(ch, k), first, last, first) =
        [x \in Cells |-> IF x - start \in first .. last THEN Inserted(ch, k)[x - start] ELSE screen[x]]
  <2>1. PICK b : b = Inserted(ch, k)
    OBVIOUS
  <2>2. Shown(screen, Byte(p \div VGA_WIDTH), p % VGA_WIDTH, b, first, last, first) =
          [x \in Cells |-> IF x - start \in first .. last THEN b[x - start] ELSE screen[x]]
    <3>1. Countable(p, start, first, last, first)
      BY <1>2, <1>3, <1>4, <1>6 DEF Countable
    <3>. QED BY <3>1, ShownIs
  <2>. QED BY <2>1, <2>2
<1>8. ASSUME NEW x \in Cells
      PROVE  (IF x - start \in first .. last THEN Inserted(ch, k)[x - start] ELSE screen[x]) =
             Drawn(ch, k)[x]
  <2>1. PICK i \in Int : i = x - start
    BY <1>3 DEF Cells
  <2>2. Drawn(ch, k)[x] = IF i \in 0 .. buffer_index_max + k - 1
                            THEN Inserted(ch, k)[i] ELSE cells[x]
    BY <2>1 DEF Drawn
  <2>3. screen[x] = IF i \in 0 .. buffer_index_max + (k - 1) - 1
                      THEN Inserted(ch, k - 1)[i] ELSE cells[x]
    BY <2>1 DEF Drawn
  <2>4. CASE i \in first .. last
    <3>1. i \in 0 .. buffer_index_max + k - 1
      BY <1>1, <1>2, <2>4
    <3>. QED BY <2>1, <2>2, <2>4, <3>1
  <2>5. CASE i < 0 \/ i > last
    <3>1. /\ i \notin first .. last /\ i \notin 0 .. buffer_index_max + k - 1
          /\ i \notin 0 .. buffer_index_max + (k - 1) - 1
      BY <1>1, <1>2, <2>5
    <3>. QED BY <2>1, <2>2, <2>3, <3>1
  <2>6. CASE i \in 0 .. first - 1
    <3>1. /\ i \notin first .. last /\ i \in 0 .. buffer_index_max + k - 1
          /\ i \in 0 .. buffer_index_max + (k - 1) - 1 /\ i \in Indices
      BY <1>1, <1>2, <2>6, Sizes DEF Indices
    <3>2. /\ Inserted(ch, k)[i] = IF i < buffer_index THEN buffer[i] ELSE ch
          /\ Inserted(ch, k - 1)[i] = IF i < buffer_index THEN buffer[i] ELSE ch
      <4>1. /\ i \in buffer_index .. buffer_index + k - 1 <=> ~ (i < buffer_index)
            /\ i \in buffer_index .. buffer_index + (k - 1) - 1 <=> ~ (i < buffer_index)
            /\ i \notin buffer_index + k .. buffer_index_max + k - 1
            /\ i \notin buffer_index + (k - 1) .. buffer_index_max + (k - 1) - 1
        BY <1>1, <1>2, <2>6
      <4>. QED BY <3>1, <4>1 DEF Inserted
    <3>. QED BY <2>1, <2>2, <2>3, <3>1, <3>2
  <2>. QED BY <1>2, <2>4, <2>5, <2>6
<1>9. Drawn(ch, k) = [x \in Cells |-> Drawn(ch, k)[x]]
  BY DEF Drawn
<1>. QED BY <1>1, <1>7, <1>8, <1>9

\* The cursors and the screens between one keyboard_insert and the next.
Cursors(g, n) ==
  g = [k \in 0 .. n |-> IF k = 0 THEN pos
                        ELSE At(g[k - 1] \div VGA_WIDTH, (g[k - 1] % VGA_WIDTH) + 1)]

Screens(g, ch, n, cursor) ==
  g = [k \in 0 .. n |->
        IF k = 0 THEN cells
        ELSE Shown(g[k - 1], Byte(cursor[k - 1] \div VGA_WIDTH), cursor[k - 1] % VGA_WIDTH,
                   Inserted(ch, k), buffer_index + k - 1, buffer_index_max + k - 1,
                   buffer_index + k - 1)]

LEMMA DrawInsertsIs ==
  ASSUME NEW ch, NEW n, DrawInserts(ch, n)
  PROVE  \E cursor, screen :
           /\ cursor = CHOOSE g : Cursors(g, n)
           /\ screen = CHOOSE g : Screens(g, ch, n, cursor)
           /\ cells' = screen[n] /\ pos' = cursor[n]
BY DEF DrawInserts, Cursors, Screens


LEMMA LeastOf ==
  ASSUME NEW T, T \subseteq Nat, T # {}
  PROVE  \E n \in T : \A m \in T : n <= m
<1>. DEFINE R == OpToRel(<, Nat)
<1>1. IsWellFoundedOn(R, Nat)
  BY NatLessThanWellFounded
<1>2. R = {p \in Nat \X Nat : p[1] < p[2]}
  BY DEF OpToRel
<1>. HIDE DEF R
<1>3. PICK n \in T : \A m \in T : ~ (<<m, n>> \in R)
  BY <1>1, WFMin
<1>4. \A m, n1 \in Nat : m < n1 => <<m, n1>> \in R
  BY <1>2
<1>5. ASSUME NEW m \in T
      PROVE  n <= m
  <2>1. m \in Nat /\ n \in Nat /\ ~ (m < n)
    BY <1>3, <1>4
  <2>. QED BY <2>1
<1>. QED BY <1>5

LEMMA CursorsAre ==
  ASSUME NEW n, Echoing(n), NEW cursor, cursor = CHOOSE g : Cursors(g, n)
  PROVE  \A k \in 0 .. n : cursor[k] = pos + k
<1>1. n \in Nat
  BY DEF Echoing
<1>2. ASSUME NEW k \in 1 .. n, NEW p, p = pos + (k - 1)
      PROVE  At(p \div VGA_WIDTH, (p % VGA_WIDTH) + 1) = pos + k
  <2>1. PICK i \in Nat : i = buffer_index + (k - 1)
    BY <1>1 DEF Echoing
  <2>2. /\ i + 1 \in Nat /\ i <= buffer_index_max + n /\ i + 1 <= buffer_index_max + n
    BY <1>1, <2>1 DEF Echoing
  <2>3. start \in Nat /\ start + i \in Reach /\ start + (i + 1) \in Reach
    BY <2>2, EchoReach
  <2>4. p = start + i /\ p + 1 = start + (i + 1) /\ p + 1 = pos + k
    BY <1>1, <1>2, <2>1, <2>3 DEF Echoing
  <2>. QED BY <2>3, <2>4, NextPlace
<1>3. pos + 0 = pos
  BY Sizes DEF Echoing, Cells
<1>4. Cursors(cursor, n)
  <2>1. PICK g : g = [k \in 0 .. n |-> pos + k]
    OBVIOUS
  <2>2. ASSUME NEW k \in 0 .. n
        PROVE  g[k] = IF k = 0 THEN pos
                      ELSE At(g[k - 1] \div VGA_WIDTH, (g[k - 1] % VGA_WIDTH) + 1)
    <3>1. CASE k = 0
      BY <1>3, <2>1, <3>1
    <3>2. CASE k # 0
      <4>1. k \in 1 .. n /\ k - 1 \in 0 .. n
        BY <1>1, <3>2
      <4>2. g[k] = pos + k /\ g[k - 1] = pos + (k - 1)
        BY <2>1, <4>1
      <4>. QED BY <1>2, <3>2, <4>1, <4>2
    <3>. QED BY <3>1, <3>2
  <2>3. Cursors(g, n)
    BY <2>1, <2>2 DEF Cursors
  <2>. QED BY <2>3
<1>. DEFINE Bad == {k \in 0 .. n : cursor[k] # pos + k}
<1>5. SUFFICES ASSUME Bad # {} PROVE FALSE
  OBVIOUS
<1>6. PICK k \in Bad : \A m \in Bad : k <= m
  <2>1. Bad \subseteq Nat
    BY <1>1
  <2>. HIDE DEF Bad
  <2>. QED BY <1>5, <2>1, LeastOf
<1>7. \A m \in 0 .. n : cursor[m] = IF m = 0 THEN pos
                        ELSE At(cursor[m - 1] \div VGA_WIDTH, (cursor[m - 1] % VGA_WIDTH) + 1)
  BY <1>4 DEF Cursors
<1>8. k # 0
  BY <1>3, <1>6, <1>7
<1>9. k \in 1 .. n /\ k - 1 \in 0 .. n /\ ~ (k <= k - 1)
  BY <1>1, <1>6, <1>8
<1>10. cursor[k - 1] = pos + (k - 1)
  BY <1>6, <1>9
<1>11. cursor[k] = pos + k
  BY <1>2, <1>7, <1>8, <1>9, <1>10
<1>. QED BY <1>6, <1>11

LEMMA ScreensAre ==
  ASSUME NEW n, Echoing(n), Echoing(0), NEW ch,
         NEW cursor, \A k \in 0 .. n : cursor[k] = pos + k,
         NEW screen, screen = CHOOSE g : Screens(g, ch, n, cursor)
  PROVE  \A x \in Cells : screen[n][x] = Drawn(ch, n)[x]
<1>1. n \in Nat
  BY DEF Echoing
<1>2. ASSUME NEW k \in 1 .. n, NEW s, \A x \in Cells : s[x] = Drawn(ch, k - 1)[x]
      PROVE  Shown(s, Byte(cursor[k - 1] \div VGA_WIDTH), cursor[k - 1] % VGA_WIDTH,
                   Inserted(ch, k), buffer_index + k - 1, buffer_index_max + k - 1,
                   buffer_index + k - 1) = Drawn(ch, k)
  <2>1. PICK p : p = pos + (k - 1) /\ p = cursor[k - 1]
    BY <1>1
  <2>. QED BY <1>2, <2>1, DrawnNext
<1>3. \A x \in Cells : cells[x] = Drawn(ch, 0)[x]
  BY DrawnNone
<1>4. Screens(screen, ch, n, cursor)
  <2>1. PICK g : g = [k \in 0 .. n |-> IF k = 0 THEN cells ELSE Drawn(ch, k)]
    OBVIOUS
  <2>2. ASSUME NEW k \in 0 .. n
        PROVE  g[k] = IF k = 0 THEN cells
                      ELSE Shown(g[k - 1], Byte(cursor[k - 1] \div VGA_WIDTH),
                                 cursor[k - 1] % VGA_WIDTH, Inserted(ch, k),
                                 buffer_index + k - 1, buffer_index_max + k - 1,
                                 buffer_index + k - 1)
    <3>1. CASE k = 0
      BY <2>1, <3>1
    <3>2. CASE k # 0
      <4>1. k \in 1 .. n /\ k - 1 \in 0 .. n
        BY <1>1, <3>2
      <4>2. PICK s : s = g[k - 1]
        OBVIOUS
      <4>3. \A x \in Cells : s[x] = Drawn(ch, k - 1)[x]
        BY <1>3, <2>1, <4>1, <4>2
      <4>4. g[k] = Drawn(ch, k)
        BY <2>1, <3>2
      <4>. QED BY <1>2, <3>2, <4>1, <4>2, <4>3, <4>4
    <3>. QED BY <3>1, <3>2
  <2>3. Screens(g, ch, n, cursor)
    BY <2>1, <2>2 DEF Screens
  <2>. QED BY <2>3
<1>. DEFINE Right(k) == \A x \in Cells : screen[k][x] = Drawn(ch, k)[x]
            Bad == {k \in 0 .. n : ~ Right(k)}
<1>5. SUFFICES ASSUME Bad # {} PROVE FALSE
  BY <1>1
<1>6. PICK k \in Bad : \A m \in Bad : k <= m
  <2>1. Bad \subseteq Nat
    BY <1>1
  <2>. HIDE DEF Bad
  <2>. QED BY <1>5, <2>1, LeastOf
<1>7. \A m \in 0 .. n :
        screen[m] = IF m = 0 THEN cells
                    ELSE Shown(screen[m - 1], Byte(cursor[m - 1] \div VGA_WIDTH),
                               cursor[m - 1] % VGA_WIDTH, Inserted(ch, m),
                               buffer_index + m - 1, buffer_index_max + m - 1,
                               buffer_index + m - 1)
  BY <1>4 DEF Screens
<1>8. k # 0
  <2>1. screen[0] = cells
    BY <1>1, <1>7
  <2>. QED BY <1>3, <1>6, <2>1
<1>9. k \in 1 .. n /\ k - 1 \in 0 .. n /\ ~ (k <= k - 1)
  BY <1>1, <1>6, <1>8
<1>10. Right(k - 1)
  BY <1>6, <1>9
<1>11. PICK s : s = screen[k - 1]
  OBVIOUS
<1>12. screen[k] = Drawn(ch, k)
  BY <1>2, <1>7, <1>8, <1>9, <1>10, <1>11
<1>. QED BY <1>6, <1>12

(***************************************************************************)
(* The inductive invariant.  Besides the echo itself: a line is begun on   *)
(* the screen, from a buffer with nothing in it, and behind the text the   *)
(* buffer holds only what erasing leaves there, for the next erasure draws *)
(* one of those cells.                                                     *)
(***************************************************************************)
Onscreen ==
  ~ lost =>
    /\ start \in Cells
    /\ ~ input_on => pos \in Cells
    /\ at = "user" => cells = OldScreen
    /\ EchoShowsLine

Vacant ==
  input_on /\ ~ lost => \A j \in buffer_index_max .. Full : buffer[j] \in {NUL, Space}

Echoed ==
  /\ at = "user" => buffer = ClearBuffer
  /\ Vacant
  /\ Onscreen

LEMMA OpenEchoing ==
  ASSUME Roomy, Edited, Echoed, input_on, ~ lost, NEW n \in Nat,
         buffer_index_max + n < BufferSize,
         VGA_WIDTH + buffer_index_max - buffer_index <= BufferSize
  PROVE  Echoing(n) /\ Echoing(0)
<1>1. /\ buffer_index \in Nat /\ buffer_index_max \in Nat /\ buffer_index <= buffer_index_max
      /\ start \in Cells /\ pos = start + buffer_index
      /\ buffer_index_max < BufferSize
  BY Sizes DEF Edited, TypeOK, CursorInText, Echoed, Onscreen, EchoShowsLine, Indices
<1>2. ASSUME NEW x \in Cells, x - start \in 0 .. buffer_index_max - 1
      PROVE  cells[x] = buffer[x - start]
  <2>1. PICK i : i = x - start
    OBVIOUS
  <2>2. i \in 0 .. buffer_index_max - 1
    BY <1>2, <2>1
  <2>3. ~ (i < 0) /\ i < buffer_index_max
    BY <1>1, <2>2
  <2>4. cells[x] = IF i < 0 THEN Old ELSE IF i < buffer_index_max THEN buffer[i]
                   ELSE cells[x]
    BY <2>1, <2>3 DEF Echoed, Onscreen, EchoShowsLine
  <2>. QED BY <2>1, <2>3, <2>4
<1>3. 0 \in Nat /\ buffer_index_max + 0 < BufferSize
  BY <1>1
<1>. QED BY <1>1, <1>2, <1>3 DEF Echoing

\* A cell of an open line.
LEMMA CellShows ==
  ASSUME Echoed, input_on, ~ lost, NEW x \in Cells, NEW i, i = x - start
  PROVE  /\ i < 0 => cells[x] = Old
         /\ ~ (i < 0) /\ i < buffer_index_max => cells[x] = buffer[i]
         /\ ~ (i < 0) /\ ~ (i < buffer_index_max) => cells[x] \in {Old, Space, NUL}
BY DEF Echoed, Onscreen, EchoShowsLine

(***************************************************************************)
(* The steps of the routine.                                               *)
(***************************************************************************)
LEMMA TypeShows ==
  ASSUME Roomy, Edited, Echoed, input_on, ~ lost, ~ lost', NEW ch \in Chars, NEW n \in Nat,
         Type(ch, n), DrawInserts(ch, Fitting(n)),
         VGA_WIDTH + buffer_index_max - buffer_index <= BufferSize,
         start' = start, at' = at
  PROVE  Echoed'
<1>1. PICK k : k = Fitting(n)
  OBVIOUS
<1>2. /\ buffer' = Inserted(ch, k)
      /\ buffer_index' = buffer_index + k /\ buffer_index_max' = buffer_index_max + k
      /\ buffer_index_max' \in Indices /\ input_on'
  BY <1>1, TypeEdited DEF Type, keyboard_insert
<1>3. /\ k \in Nat /\ buffer_index_max + k < BufferSize
      /\ buffer_index \in Nat /\ buffer_index_max \in Nat /\ buffer_index <= buffer_index_max
      /\ start \in Nat /\ start \in Cells /\ pos = start + buffer_index
  <2>1. k \in Nat
    BY <1>1, FittingRoom DEF Edited, TypeOK
  <2>. QED BY <1>2, <2>1, Sizes
           DEF Indices, Edited, TypeOK, CursorInText, Echoed, Onscreen, EchoShowsLine, Cells
<1>4. Echoing(k) /\ Echoing(0)
  BY <1>3, OpenEchoing
<1>5. PICK cursor, screen :
        /\ cursor = CHOOSE g : Cursors(g, k)
        /\ screen = CHOOSE g : Screens(g, ch, k, cursor)
        /\ cells' = screen[k] /\ pos' = cursor[k]
  BY <1>1, DrawInsertsIs
<1>6. \A j \in 0 .. k : cursor[j] = pos + j
  BY <1>4, <1>5, CursorsAre
<1>7. \A x \in Cells : screen[k][x] = Drawn(ch, k)[x]
  BY <1>4, <1>5, <1>6, ScreensAre
<1>8. pos' = start' + buffer_index'
  BY <1>2, <1>3, <1>5, <1>6
<1>9. ASSUME NEW x \in Cells, NEW i, i = x - start'
      PROVE  /\ i < 0 => cells'[x] = Old
             /\ ~ (i < 0) /\ i < buffer_index_max' => cells'[x] = buffer'[i]
             /\ ~ (i < 0) /\ ~ (i < buffer_index_max') => cells'[x] \in {Old, Space, NUL}
  <2>1. i \in Int /\ i = x - start
    BY <1>3, <1>9 DEF Cells
  <2>2. cells'[x] = IF i \in 0 .. buffer_index_max + k - 1 THEN Inserted(ch, k)[i] ELSE cells[x]
    BY <1>5, <1>7, <2>1 DEF Drawn
  <2>3. i \in 0 .. buffer_index_max + k - 1 <=> ~ (i < 0) /\ i < buffer_index_max'
    BY <1>2, <1>3, <2>1
  <2>4. ~ (i < buffer_index_max') => ~ (i < buffer_index_max)
    BY <1>2, <1>3, <2>1
  <2>. QED BY <1>2, <2>1, <2>2, <2>3, <2>4, CellShows
<1>10. EchoShowsLine'
  <2>. SUFFICES ASSUME NEW x \in Cells
                PROVE  LET i == x - start'
                       IN  IF i < 0 THEN cells'[x] = Old
                           ELSE IF i < buffer_index_max' THEN cells'[x] = buffer'[i]
                           ELSE cells'[x] \in {Old, Space, NUL}
    BY <1>8 DEF EchoShowsLine
  <2>1. PICK i : i = x - start'
    OBVIOUS
  <2>. QED BY <1>9, <2>1
<1>11. Vacant'
  <2>. SUFFICES ASSUME NEW j \in buffer_index_max + k .. Full
                PROVE  Inserted(ch, k)[j] \in {NUL, Space}
    BY <1>2 DEF Vacant
  <2>1. /\ j \in Indices /\ j \in buffer_index_max .. Full
        /\ j \notin buffer_index .. buffer_index + k - 1
        /\ j \notin buffer_index + k .. buffer_index_max + k - 1
    BY <1>3, Sizes DEF Indices, Full
  <2>. QED BY <2>1 DEF Inserted, Echoed, Vacant
<1>12. at' # "user"
  BY DEF Edited, Ready
<1>. QED BY <1>2, <1>3, <1>10, <1>11, <1>12 DEF Echoed, Onscreen

LEMMA DeleteShows ==
  ASSUME Roomy, Edited, Echoed, input_on, ~ lost, ~ lost', keyboard_delete,
         IF buffer_index = 0 \/ hung' THEN UNCHANGED <<pos, cells>> ELSE DrawDelete,
         VGA_WIDTH + buffer_index_max - buffer_index <= BufferSize,
         ~ (buffer_index > 0 /\ Column = 0), hung = FALSE,
         start' = start, at' = at
  PROVE  Echoed'
<1>1. /\ buffer_index \in Nat /\ buffer_index_max \in Nat /\ buffer_index <= buffer_index_max
      /\ buffer_index_max \in Indices /\ buffer_index_max <= Full /\ Full \in Nat
      /\ start \in Nat /\ start \in Cells /\ pos = start + buffer_index
      /\ at' # "user"
  BY Sizes DEF Indices, Full, Edited, TypeOK, CursorInText, Ready, Echoed, Onscreen,
               EchoShowsLine, Cells
<1>2. CASE buffer_index = 0 \/ buffer_index_max = Full
  <2>1. UNCHANGED <<pos, cells>> /\ UNCHANGED keyboard_state
    BY <1>2 DEF keyboard_delete, keyboard_state
  <2>2. UNCHANGED <<input_on, buffer_index, buffer_index_max, buffer>>
    BY <2>1 DEF keyboard_state
  <2>. QED BY <1>1, <2>1, <2>2 DEF Echoed, Vacant, Onscreen, EchoShowsLine
<1>3. CASE buffer_index # 0 /\ buffer_index_max # Full
  <2>1. /\ buffer' = [i \in Indices |->
             IF i = buffer_index_max THEN Space
             ELSE IF i \in buffer_index - 1 .. buffer_index_max THEN buffer[i + 1]
             ELSE buffer[i]]
        /\ UNCHANGED <<input_on, hung>>
    BY <1>3 DEF keyboard_delete
  <2>2. buffer_index' = buffer_index - 1 /\ buffer_index_max' = buffer_index_max - 1
    <3>1. keyboard_delete => /\ buffer_index' = Wrap(buffer_index - 1)
                             /\ buffer_index_max' = Wrap(buffer_index_max - 1)
      BY <1>3 DEF keyboard_delete
    <3>2. buffer_index - 1 \in Indices /\ buffer_index_max - 1 \in Indices
      BY <1>1, <1>3, Sizes DEF Indices, Full
    <3>. QED BY <3>1, <3>2, WrapByte
  <2>3. /\ DrawDelete /\ Column # 0 /\ buffer_index > 0
        /\ buffer_index_max < Full /\ Full < BufferSize
    BY <1>1, <1>3, <2>1, Sizes DEF Full
  <2>4. Echoing(0)
    <3>1. 0 \in Nat /\ buffer_index_max + 0 < BufferSize
      BY <1>1, <2>3, Sizes
    <3>. QED BY <3>1, OpenEchoing
  <2>5. pos \in Reach /\ pos > 0 /\ start + buffer_index_max < VGA_WIDTH * BufferSize
    BY <1>1, <2>3, <2>4, EchoReach
  <2>6. pos' = pos - 1
    <3>1. pos' = At(Row, Column - 1) /\ Row = pos \div VGA_WIDTH
      BY <2>3, <2>5, ReachRow DEF DrawDelete, framebuffer_set_cursor, Row
    <3>. QED BY <2>3, <2>5, <3>1, LastPlace DEF Column
  <2>7. cells' = [x \in Cells |-> IF x - start \in buffer_index - 1 .. buffer_index_max
                                    THEN buffer'[x - start] ELSE cells[x]]
    <3>1. PICK first, b : first = buffer_index - 1 /\ b = buffer'
      OBVIOUS
    <3>2. cells' = Shown(cells, Byte(pos \div VGA_WIDTH), pos % VGA_WIDTH, b, first,
                         buffer_index_max, buffer_index)
      BY <2>3, <3>1 DEF DrawDelete, Row, Column
    <3>3. pos % VGA_WIDTH \in 0 .. VGA_WIDTH - 1 /\ pos % VGA_WIDTH # 0
      BY <2>3, <2>5, ReachRow DEF Column
    <3>4. Countable(pos, start, first, buffer_index_max, buffer_index)
      <4>1. first \in Nat /\ (pos % VGA_WIDTH) + first >= buffer_index
        BY <1>1, <2>3, <3>1, <3>3, Sizes
      <4>2. (pos % VGA_WIDTH) + buffer_index_max < BufferSize + buffer_index
        BY <1>1, <3>3, Sizes
      <4>. QED BY <1>1, <2>5, <4>1, <4>2 DEF Countable
    <3>. QED BY <3>1, <3>2, <3>4, ShownIs
  <2>8. pos' = start' + buffer_index'
    BY <1>1, <2>2, <2>6
  <2>9. \A j \in buffer_index_max - 1 .. Full : buffer'[j] \in {NUL, Space}
    <3>. SUFFICES ASSUME NEW j \in buffer_index_max - 1 .. Full
                  PROVE  buffer'[j] \in {NUL, Space}
      OBVIOUS
    <3>1. j \in Indices /\ j \in Int
      BY <1>1, <1>3, Sizes DEF Indices, Full
    <3>2. buffer'[j] = IF j = buffer_index_max THEN Space
                       ELSE IF j \in buffer_index - 1 .. buffer_index_max THEN buffer[j + 1]
                       ELSE buffer[j]
      BY <2>1, <3>1
    <3>3. CASE j = buffer_index_max
      BY <3>2, <3>3
    <3>4. CASE j = buffer_index_max - 1
      <4>1. /\ j # buffer_index_max /\ j \in buffer_index - 1 .. buffer_index_max
            /\ j + 1 = buffer_index_max /\ buffer_index_max \in buffer_index_max .. Full
        BY <1>1, <3>4
      <4>. QED BY <3>2, <4>1 DEF Echoed, Vacant
    <3>5. CASE j > buffer_index_max
      <4>1. /\ j # buffer_index_max /\ j \notin buffer_index - 1 .. buffer_index_max
            /\ j \in buffer_index_max .. Full
        BY <1>1, <3>5
      <4>. QED BY <3>2, <4>1 DEF Echoed, Vacant
    <3>. QED BY <1>1, <3>1, <3>3, <3>4, <3>5
  <2>10. ASSUME NEW x \in Cells, NEW i, i = x - start'
         PROVE  /\ i < 0 => cells'[x] = Old
                /\ ~ (i < 0) /\ i < buffer_index_max' => cells'[x] = buffer'[i]
                /\ ~ (i < 0) /\ ~ (i < buffer_index_max') => cells'[x] \in {Old, Space, NUL}
    <3>1. i \in Int /\ i = x - start
      BY <1>1, <2>10 DEF Cells
    <3>2. cells'[x] = IF i \in buffer_index - 1 .. buffer_index_max THEN buffer'[i] ELSE cells[x]
      BY <2>7, <3>1
    <3>3. CASE i < buffer_index - 1
      <4>1. /\ i \notin buffer_index - 1 .. buffer_index_max
            /\ i < buffer_index_max /\ i < buffer_index_max'
        BY <1>1, <2>2, <3>1, <3>3
      <4>2. ~ (i < 0) => buffer'[i] = buffer[i]
        <5>1. ~ (i < 0) => i \in Indices /\ i # buffer_index_max
          BY <1>1, <3>1, <4>1, Sizes DEF Indices, Full
        <5>. QED BY <2>1, <4>1, <5>1
      <4>. QED BY <3>1, <3>2, <4>1, <4>2, CellShows
    <3>4. CASE i \in buffer_index - 1 .. buffer_index_max
      <4>1. ~ (i < 0) /\ (~ (i < buffer_index_max') => i \in buffer_index_max - 1 .. Full)
        BY <1>1, <2>2, <2>3, <3>1, <3>4
      <4>. QED BY <2>9, <3>2, <3>4, <4>1
    <3>5. CASE i > buffer_index_max
      <4>1. /\ i \notin buffer_index - 1 .. buffer_index_max
            /\ ~ (i < 0) /\ ~ (i < buffer_index_max) /\ ~ (i < buffer_index_max')
        BY <1>1, <2>2, <3>1, <3>5
      <4>. QED BY <3>1, <3>2, <4>1, CellShows
    <3>. QED BY <1>1, <3>1, <3>3, <3>4, <3>5
  <2>11. EchoShowsLine'
    <3>. SUFFICES ASSUME NEW x \in Cells
                  PROVE  LET i == x - start'
                         IN  IF i < 0 THEN cells'[x] = Old
                             ELSE IF i < buffer_index_max' THEN cells'[x] = buffer'[i]
                             ELSE cells'[x] \in {Old, Space, NUL}
      BY <2>8 DEF EchoShowsLine
    <3>1. PICK i : i = x - start'
      OBVIOUS
    <3>. QED BY <2>10, <3>1
  <2>12. Vacant'
    BY <2>2, <2>9 DEF Vacant
  <2>. QED BY <1>1, <2>1, <2>11, <2>12 DEF Echoed, Onscreen
<1>. QED BY <1>2, <1>3

LEMMA MoveShows ==
  ASSUME Roomy, Edited, Echoed, input_on, ~ lost, ~ lost', NEW k, MoveCursor(k), DrawMove(k),
         start' = start, at' = at
  PROVE  Echoed'
<1>1. /\ buffer_index \in Nat /\ buffer_index_max \in Nat /\ buffer_index <= buffer_index_max
      /\ buffer_index_max < BufferSize
      /\ start \in Nat /\ start \in Cells /\ pos = start + buffer_index
      /\ at' # "user" /\ start < VGA_WIDTH * VGA_HEIGHT
  BY Sizes DEF Indices, Edited, TypeOK, CursorInText, Ready, Echoed, Onscreen, EchoShowsLine, Cells
<1>2. /\ UNCHANGED <<input_on, buffer_index_max, buffer, hung>> /\ cells' = cells
  BY DEF MoveCursor, DrawMove
<1>3. ASSUME NEW i \in Nat, i <= buffer_index_max
      PROVE  start + i \in Reach
  BY <1>1, <1>3, Sizes DEF Reach, Roomy
<1>4. pos \in Reach
  BY <1>1, <1>3
<1>5. Row = pos \div VGA_WIDTH /\ Column = pos % VGA_WIDTH
  BY <1>4, ReachRow DEF Row, Column
<1>6. pos' = start' + buffer_index'
  <2>1. CASE k = "left" /\ buffer_index > 0
    <3>1. buffer_index' = buffer_index - 1
      BY <2>1 DEF MoveCursor
    <3>2. pos' = IF pos % VGA_WIDTH = 0 THEN At((pos \div VGA_WIDTH) - 1, VGA_WIDTH - 1)
                                        ELSE At(pos \div VGA_WIDTH, (pos % VGA_WIDTH) - 1)
      BY <1>5, <2>1 DEF DrawMove, framebuffer_set_cursor
    <3>3. pos > 0
      BY <1>1, <2>1
    <3>4. pos' = pos - 1
      BY <1>4, <3>2, <3>3, LastPlace
    <3>. QED BY <1>1, <3>1, <3>4
  <2>2. CASE ~ (k = "left" /\ buffer_index > 0) /\ k = "right" /\ buffer_index < buffer_index_max
    <3>1. buffer_index' = buffer_index + 1
      BY <2>2 DEF MoveCursor
    <3>2. pos' = IF pos % VGA_WIDTH = VGA_WIDTH - 1 THEN At((pos \div VGA_WIDTH) + 1, 0)
                                        ELSE At(pos \div VGA_WIDTH, (pos % VGA_WIDTH) + 1)
      BY <1>5, <2>2 DEF DrawMove, framebuffer_set_cursor
    <3>3. buffer_index + 1 \in Nat /\ buffer_index + 1 <= buffer_index_max
      BY <1>1, <2>2
    <3>4. pos + 1 \in Reach
      <4>1. pos + 1 = start + (buffer_index + 1)
        BY <1>1
      <4>. QED BY <1>3, <3>3, <4>1
    <3>5. pos' = pos + 1
      BY <1>4, <3>2, <3>4, NextPlace
    <3>. QED BY <1>1, <3>1, <3>5
  <2>3. CASE /\ ~ (k = "left" /\ buffer_index > 0)
             /\ ~ (k = "right" /\ buffer_index < buffer_index_max)
    BY <1>1, <2>3 DEF MoveCursor, DrawMove
  <2>. QED BY <2>1, <2>2, <2>3
<1>7. EchoShowsLine'
  <2>. SUFFICES ASSUME NEW x \in Cells
                PROVE  LET i == x - start'
                       IN  IF i < 0 THEN cells'[x] = Old
                           ELSE IF i < buffer_index_max' THEN cells'[x] = buffer'[i]
                           ELSE cells'[x] \in {Old, Space, NUL}
    BY <1>6 DEF EchoShowsLine
  <2>1. PICK i : i = x - start /\ i = x - start'
    OBVIOUS
  <2>. QED BY <1>2, <2>1, CellShows
<1>. QED BY <1>1, <1>2, <1>7 DEF Echoed, Vacant, Onscreen

\* A new line begins on the screen when the last one has not run off it.
LEMMA NewlineWithin ==
  ASSUME pos \in Cells, Newline
  PROVE  pos' \in Cells
<1>1. pos \in Nat /\ pos < VGA_WIDTH * VGA_HEIGHT
  BY Sizes DEF Cells
<1>2. PICK r, c : r = pos \div VGA_WIDTH /\ c = pos % VGA_WIDTH
  OBVIOUS
<1>3. r \in Nat /\ c \in 0 .. VGA_WIDTH - 1 /\ pos = r * VGA_WIDTH + c /\ r < VGA_HEIGHT
  <2>1. r \in Nat /\ c \in 0 .. VGA_WIDTH - 1 /\ pos = r * VGA_WIDTH + c
    BY <1>1, <1>2, Split
  <2>. QED BY <1>1, <2>1, Sizes, RowBefore
<1>4. Row = r
  <2>1. r \in 0 .. BufferSize - 1
    BY <1>3, Sizes
  <2>. QED BY <1>2, <2>1, ByteIs DEF Row
<1>5. PICK q : q = (IF Row = LastRow THEN LastRow ELSE Row + 1)
  OBVIOUS
<1>6. q \in Nat /\ q < VGA_HEIGHT /\ q < BufferSize
  BY <1>3, <1>4, <1>5, Sizes DEF LastRow
<1>7. pos' = At(q, 0)
  BY <1>5 DEF Newline, framebuffer_set_cursor
<1>8. At(q, 0) = q * VGA_WIDTH + 0
  BY <1>6, Sizes, AtIs
<1>9. 0 \in 0 .. VGA_WIDTH - 1
  BY Sizes
<1>10. q * VGA_WIDTH + 0 \in Nat /\ q * VGA_WIDTH + 0 < VGA_WIDTH * VGA_HEIGHT
  BY <1>6, <1>9, Sizes, RowWithin
<1>. QED BY <1>7, <1>8, <1>10, Sizes DEF Cells

LEMMA EnterShows ==
  ASSUME Edited, input_on, Enter, Newline, ~ lost', start \in Cells, pos \in Cells,
         start' = start, at' = at
  PROVE  Echoed'
<1>1. at' # "user" /\ ~ input_on'
  BY DEF Edited, Ready, Enter
<1>2. pos' \in Cells
  BY NewlineWithin
<1>. QED BY <1>1, <1>2 DEF Echoed, Vacant, Onscreen, EchoShowsLine

LEMMA PutsWithin ==
  ASSUME Puts, pos \in Cells
  PROVE  pos' \in Cells
<1>1. pos \in Nat /\ pos < VGA_WIDTH * VGA_HEIGHT
  BY Sizes DEF Cells
<1>2. PICK r, c : r = pos \div VGA_WIDTH /\ c = pos % VGA_WIDTH
  OBVIOUS
<1>3. r \in Nat /\ c \in 0 .. VGA_WIDTH - 1 /\ pos = r * VGA_WIDTH + c /\ r < VGA_HEIGHT
  <2>1. r \in Nat /\ c \in 0 .. VGA_WIDTH - 1 /\ pos = r * VGA_WIDTH + c
    BY <1>1, <1>2, Split
  <2>. QED BY <1>1, <2>1, Sizes, RowBefore
<1>4. Row = r /\ Column = c
  <2>1. r \in 0 .. BufferSize - 1
    BY <1>3, Sizes
  <2>. QED BY <1>2, <2>1, ByteIs DEF Row, Column
<1>5. \E q \in Nat, d \in 0 .. VGA_WIDTH - 1 : q < VGA_HEIGHT /\ pos' = At(q, d)
  <2>1. CASE Column < VGA_WIDTH - 1 /\ framebuffer_set_cursor(Row, Column + 1)
    <3>1. c + 1 \in 0 .. VGA_WIDTH - 1
      BY <1>3, <1>4, <2>1, Sizes
    <3>. QED BY <1>3, <1>4, <2>1, <3>1 DEF framebuffer_set_cursor
  <2>2. CASE framebuffer_set_cursor(IF Row = LastRow THEN Row ELSE Row + 1, 0)
    <3>1. PICK q : q = IF Row = LastRow THEN Row ELSE Row + 1
      OBVIOUS
    <3>2. q \in Nat /\ q < VGA_HEIGHT /\ 0 \in 0 .. VGA_WIDTH - 1
      BY <1>3, <1>4, <3>1, Sizes DEF LastRow
    <3>. QED BY <2>2, <3>1, <3>2 DEF framebuffer_set_cursor
  <2>. QED BY <2>1, <2>2 DEF Puts
<1>6. PICK q \in Nat, d \in 0 .. VGA_WIDTH - 1 : q < VGA_HEIGHT /\ pos' = At(q, d)
  BY <1>5
<1>7. pos' = q * VGA_WIDTH + d
  <2>1. q < BufferSize /\ d \in Nat /\ d < BufferSize
    BY <1>6, Sizes
  <2>. QED BY <1>6, <2>1, AtIs
<1>8. q * VGA_WIDTH + d \in Nat /\ q * VGA_WIDTH + d < VGA_WIDTH * VGA_HEIGHT
  BY <1>6, Sizes, RowWithin
<1>. QED BY <1>7, <1>8, Sizes DEF Cells

(***************************************************************************)
(* The steps.                                                              *)
(***************************************************************************)
LEMMA InitEchoed == ConsoleInit => Echoed
<1>. SUFFICES ASSUME ConsoleInit PROVE Echoed
  OBVIOUS
<1>1. 0 \in Cells
  <2>1. VGA_WIDTH * VGA_HEIGHT # 0
    BY Sizes
  <2>. QED BY <2>1, Sizes DEF Cells
<1>. QED BY <1>1 DEF ConsoleInit, Init, Echoed, Vacant, Onscreen, EchoShowsLine

LEMMA ShowInputEchoed ==
  ASSUME Roomy
  PROVE  Edited /\ Echoed /\ ShowInput => Echoed'
<1>. SUFFICES ASSUME Edited, Echoed, ShowInput PROVE Echoed'
  OBVIOUS
<1>1. /\ IsrInputOn /\ input_on /\ at' = at /\ at' # "user" /\ hung = FALSE /\ line' = line
      /\ lost' = (lost \/ Beyond)
  BY DEF ShowInput, IsrInputOn, InterruptsEnabled, Edited, Ready, TypeOK
<1>2. CASE lost'
  BY <1>1, <1>2 DEF Echoed, Vacant, Onscreen
<1>3. CASE ~ lost'
  <2>1. ~ lost /\ ~ Beyond /\ Draw /\ start' = start /\ start \in Cells
    BY <1>1, <1>3 DEF ShowInput, Echoed, Onscreen
  <2>2. port \in Chars \cup {"tab", "backspace"} =>
          VGA_WIDTH + buffer_index_max - buffer_index <= BufferSize
    BY <2>1, Sizes DEF Beyond, Edited, TypeOK, Indices
  <2>3. CASE port \in Chars
    <3>1. Type(port, 1) /\ DrawInserts(port, Fitting(1)) /\ 1 \in Nat
      BY <1>1, <2>1, <2>3, CharAssumption DEF IsrInputOn, Draw
    <3>. QED BY <1>1, <1>3, <2>1, <2>2, <2>3, <3>1, TypeShows
  <2>4. CASE port = "tab"
    <3>1. Type(Space, TabWidth) /\ DrawInserts(Space, Fitting(TabWidth))
      BY <1>1, <2>1, <2>4, CharAssumption DEF IsrInputOn, Draw
    <3>. QED BY <1>1, <1>3, <2>1, <2>2, <2>4, <3>1, TypeShows, CharAssumption, BufferAssumption
  <2>5. CASE port = "backspace"
    <3>1. /\ keyboard_delete
          /\ IF buffer_index = 0 \/ hung' THEN UNCHANGED <<pos, cells>> ELSE DrawDelete
      BY <1>1, <2>1, <2>5, CharAssumption DEF IsrInputOn, Draw
    <3>2. ~ (buffer_index > 0 /\ Column = 0)
      BY <2>1, <2>5 DEF Beyond
    <3>. QED BY <1>1, <1>3, <2>1, <2>2, <2>5, <3>1, <3>2, DeleteShows
  <2>6. CASE port = "enter"
    <3>1. Enter /\ Newline /\ pos \in Cells
      BY <1>1, <2>1, <2>6, CharAssumption DEF IsrInputOn, Draw, Beyond
    <3>. QED BY <1>1, <1>3, <2>1, <3>1, EnterShows
  <2>7. CASE port \in {"left", "right", "other"}
    <3>1. MoveCursor(port) /\ DrawMove(port)
      BY <1>1, <2>1, <2>7, CharAssumption DEF IsrInputOn, Draw
    <3>. QED BY <1>1, <1>3, <2>1, <3>1, MoveShows
  <2>. QED BY <1>1, <2>3, <2>4, <2>5, <2>6, <2>7 DEF IsrInputOn
<1>. QED BY <1>2, <1>3

LEMMA BeginLineEchoed ==
  ASSUME Edited, Echoed, BeginLine
  PROVE  Echoed'
<1>1. /\ at = "user" /\ at' = "spin" /\ ~ input_on /\ input_on'
      /\ UNCHANGED <<pos, cells, lost, buffer>> /\ start' = pos
      /\ buffer_index' = 0 /\ buffer_index_max' = 0
  BY DEF BeginLine, Activate, Edited, Ready
<1>2. Vacant'
  <2>. SUFFICES ASSUME NEW j \in 0 .. Full PROVE buffer[j] \in {NUL, Space}
    BY <1>1 DEF Vacant
  <2>1. j \in Indices
    BY DEF Indices, Full
  <2>. QED BY <1>1, <2>1 DEF Echoed, ClearBuffer
<1>3. CASE ~ lost
  <2>1. pos \in Cells /\ cells = OldScreen /\ pos \in Int
    BY <1>1, <1>3 DEF Echoed, Onscreen, Cells
  <2>2. \A x \in Cells : cells[x] = Old
    BY <2>1 DEF OldScreen
  <2>3. pos' = start' + buffer_index'
    BY <1>1, <2>1
  <2>4. EchoShowsLine'
    <3>. SUFFICES ASSUME NEW x \in Cells
                  PROVE  LET i == x - start'
                         IN  IF i < 0 THEN cells'[x] = Old
                             ELSE IF i < buffer_index_max' THEN cells'[x] = buffer'[i]
                             ELSE cells'[x] \in {Old, Space, NUL}
      BY <2>3 DEF EchoShowsLine
    <3>1. PICK i \in Int : i = x - start'
      BY <1>1, <2>1 DEF Cells
    <3>. QED BY <1>1, <2>2, <3>1
  <2>. QED BY <1>1, <1>2, <2>1, <2>4 DEF Echoed, Onscreen
<1>4. CASE lost
  BY <1>1, <1>2, <1>4 DEF Echoed, Onscreen
<1>. QED BY <1>3, <1>4

LEMMA EchoedStep ==
  ASSUME Roomy
  PROVE  Edited /\ Echoed /\ [ConsoleNext]_consoleVars => Echoed'
<1>. SUFFICES ASSUME Edited, Echoed, [ConsoleNext]_consoleVars PROVE Echoed'
  OBVIOUS
\* What the screen's part of the invariant is about.
<1>. DEFINE seen == <<input_on, buffer_index, buffer_index_max, buffer>>
<1>1. ASSUME UNCHANGED seen, UNCHANGED screenVars, at' = "user" => at = "user"
      PROVE  Echoed'
  BY <1>1 DEF screenVars, Echoed, Vacant, Onscreen, EchoShowsLine
<1>2. ASSUME NEW k \in Keys, Press(k), UNCHANGED screenVars
      PROVE  Echoed'
  BY <1>1, <1>2 DEF Press, keyboard_state
<1>3. CASE IsrInputOff /\ UNCHANGED screenVars
  <2>1. ~ input_on' /\ UNCHANGED <<input_on, buffer_index_max, buffer, at>>
    BY <1>3 DEF IsrInputOff
  <2>. QED BY <1>3, <2>1 DEF IsrInputOff, screenVars, Echoed, Vacant, Onscreen, EchoShowsLine
<1>4. CASE ShowInput
  BY <1>4, ShowInputEchoed
<1>5. CASE BeginLine
  BY <1>5, BeginLineEchoed
<1>6. CASE CopyLine /\ UNCHANGED screenVars
  BY <1>1, <1>6 DEF CopyLine, keyboard_state
<1>7. CASE EndLine
  <2>1. /\ buffer' = ClearBuffer /\ input_on' = input_on /\ ~ input_on
        /\ cells' = OldScreen /\ start' = 0 /\ pos' = pos /\ lost' = lost
    <3>1. at = "copied"
      BY <1>7 DEF EndLine, keyboard_clear_buffer
    <3>. QED BY <1>7, <3>1 DEF EndLine, keyboard_clear_buffer, Edited, Ready
  <2>2. 0 \in Cells
    <3>1. VGA_WIDTH * VGA_HEIGHT # 0
      BY Sizes
    <3>. QED BY <3>1, Sizes DEF Cells
  <2>. QED BY <2>1, <2>2 DEF Echoed, Vacant, Onscreen, EchoShowsLine
<1>8. CASE Puts
  <2>1. /\ UNCHANGED vars /\ UNCHANGED <<cells, start, lost>> /\ at = "user" /\ ~ lost
        /\ ~ input_on
    BY <1>8 DEF Puts, Edited, Ready
  <2>2. UNCHANGED <<input_on, buffer_index, buffer_index_max, buffer, at>>
    BY <2>1 DEF vars, keyboard_state
  <2>3. pos' \in Cells
    BY <1>8, <2>1, PutsWithin DEF Echoed, Onscreen
  <2>. QED BY <2>1, <2>2, <2>3 DEF Echoed, Vacant, Onscreen, EchoShowsLine
<1>9. CASE UNCHANGED consoleVars
  BY <1>1, <1>9 DEF consoleVars, vars, keyboard_state
<1>. QED BY <1>2, <1>3, <1>4, <1>5, <1>6, <1>7, <1>8, <1>9 DEF ConsoleNext

(***************************************************************************)
(* The theorems on the screen.  One hypothesis, Roomy: what a line that    *)
(* begins on the screen reaches has a row that a byte numbers.  It holds   *)
(* of 80 columns, 25 rows and 256 characters with room to spare.           *)
(***************************************************************************)
\* The screen shows the line that is being edited, for every size of the screen,
\* the buffer and the tab: no insertion, erasure or move of the cursor, at the
\* end of a row or behind the last one, draws a character in another's cell.
THEOREM ConsoleShowsLine ==
  ASSUME Roomy
  PROVE  ConsoleSpec => []EchoShowsLine
<1>1. ConsoleInit => Init
  BY DEF ConsoleInit
<1>2. Echoed => EchoShowsLine
  BY DEF Echoed, Onscreen, EchoShowsLine
<1>. QED BY <1>1, <1>2, ConsoleStep, InitEdited, StepEdited, InitEchoed, EchoedStep, PTL
         DEF ConsoleSpec

\* Neither wrapping nor scrolling nor what is printed takes the cursor behind
\* the last row, as long as the lines are not typed over it.
THEOREM ConsoleCursorStays ==
  ASSUME Roomy
  PROVE  ConsoleSpec => []CursorOnScreen
<1>1. ConsoleInit => Init
  BY DEF ConsoleInit
<1>2. Edited /\ Echoed => CursorOnScreen
  <2>. SUFFICES ASSUME Edited, Echoed, ~ lost, start + buffer_index_max \in Cells
                PROVE  pos \in Cells
    BY DEF CursorOnScreen
  <2>1. CASE ~ input_on
    BY <2>1 DEF Echoed, Onscreen
  <2>2. CASE input_on
    <3>1. /\ pos = start + buffer_index /\ buffer_index <= buffer_index_max
          /\ buffer_index \in Nat /\ buffer_index_max \in Nat /\ start \in Cells
      BY <2>2, Sizes DEF Edited, TypeOK, CursorInText, Indices, Echoed, Onscreen, EchoShowsLine
    <3>. QED BY <3>1, Sizes DEF Cells
  <2>. QED BY <2>1, <2>2
<1>. QED BY <1>1, <1>2, ConsoleStep, InitEdited, StepEdited, InitEchoed, EchoedStep, PTL
         DEF ConsoleSpec
=============================================================================
