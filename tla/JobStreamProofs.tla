-------------------------- MODULE JobStreamProofs ---------------------------
(***************************************************************************)
(* The live log (sse.go handleJobEvents), for every log and any number of  *)
(* watchers.  First what FlattenSeq and Split compute, by induction on     *)
(* their lengths: splitting the partial line and what is new, after the    *)
(* lines already sent, shows the same characters.  Then StreamInv, step by *)
(* step, and what it means for the properties.                             *)
(***************************************************************************)
EXTENDS JobStream, SequenceTheorems, InductionLemmas

\* The equation FlattenSeq defines a function by, and what it says.
Flattened(f, seqs, n) == [i \in 1..n |-> IF i = 1 THEN seqs[i] ELSE f[i - 1] \o seqs[i]]
IsFlat(f, seqs, n) == f = Flattened(f, seqs, n)

\* One entry of the equation.
LEMMA FlatAt ==
  ASSUME NEW seqs, NEW n, NEW f, IsFlat(f, seqs, n), NEW i \in 1..n
  PROVE  f[i] = IF i = 1 THEN seqs[i] ELSE f[i - 1] \o seqs[i]
<1> DEFINE h == Flattened(f, seqs, n)
<1>1. h[i] = IF i = 1 THEN seqs[i] ELSE f[i - 1] \o seqs[i]
  BY DEF Flattened
<1>2. f = h
  BY DEF IsFlat
<1> QED
  BY <1>1, <1>2, Zenon

\* It has a solution,
LEMMA FlatExists ==
  ASSUME NEW seqs
  PROVE  \A n \in Nat : \E f : IsFlat(f, seqs, n)
<1> DEFINE Ns == {n \in Nat : \E f : IsFlat(f, seqs, n)}
<1>1. 0 \in Ns
  <2>1. IsFlat([i \in 1..0 |-> {}], seqs, 0)
    BY DEF IsFlat, Flattened
  <2> QED
    BY <2>1
<1>2. ASSUME NEW n \in Nat, n \in Ns PROVE n + 1 \in Ns
  <2>1. PICK f : IsFlat(f, seqs, n)
    BY <1>2
  <2> DEFINE g == Flattened(f, seqs, n + 1)
  <2>2. \A i \in 1..(n + 1) : g[i] = IF i = 1 THEN seqs[i] ELSE f[i - 1] \o seqs[i]
    BY DEF Flattened
  <2>3. \A i \in 1..n : g[i] = f[i]
    BY <2>1, <2>2, FlatAt
  <2>4. \A i \in 1..(n + 1) : i # 1 => i - 1 \in 1..n
    OBVIOUS
  <2> HIDE DEF g
  <2>5. Flattened(g, seqs, n + 1) = Flattened(f, seqs, n + 1)
    BY <2>3, <2>4 DEF Flattened
  <2>6. IsFlat(g, seqs, n + 1)
    BY <2>5 DEF IsFlat, g
  <2> QED
    BY <2>6
<1> HIDE DEF Ns
<1>3. \A n \in Nat : n \in Ns
  BY <1>1, <1>2, InductionOn
<1> QED
  BY <1>3 DEF Ns

\* which is what FlattenSeq computes with.
LEMMA FlatIs ==
  ASSUME NEW S, NEW seqs \in Seq(Seq(S)), seqs # <<>>
  PROVE  \E f : IsFlat(f, seqs, Len(seqs)) /\ FlattenSeq(seqs) = f[Len(seqs)]
<1> DEFINE n == Len(seqs)
           f == CHOOSE g : g = [i \in 1..n |-> IF i = 1 THEN seqs[i] ELSE g[i - 1] \o seqs[i]]
<1>1. n \in Nat /\ n # 0
  BY EmptySeq
<1>2. \E g : g = [i \in 1..n |-> IF i = 1 THEN seqs[i] ELSE g[i - 1] \o seqs[i]]
  BY <1>1, FlatExists DEF IsFlat, Flattened
<1>3. IsFlat(f, seqs, n)
  BY <1>2, Zenon DEF IsFlat, Flattened
<1>4. FlattenSeq(seqs) = f[n]
  BY <1>1 DEF FlattenSeq
<1> QED
  BY <1>3, <1>4

\* Flattening puts what is appended at the end.
LEMMA FlattenAppend ==
  ASSUME NEW S, NEW seqs \in Seq(Seq(S)), NEW x \in Seq(S)
  PROVE  FlattenSeq(Append(seqs, x)) = FlattenSeq(seqs) \o x
<1> DEFINE n == Len(seqs)
           more == Append(seqs, x)
<1>1. /\ more \in Seq(Seq(S)) /\ more # <<>> /\ Len(more) = n + 1 /\ n \in Nat
      /\ \A i \in 1..n : more[i] = seqs[i]
      /\ more[n + 1] = x
  BY AppendProperties
<1> HIDE DEF more
<1>2. PICK f : IsFlat(f, more, n + 1) /\ FlattenSeq(more) = f[n + 1]
  BY <1>1, FlatIs
<1>3. CASE seqs = <<>>
  <2>1. FlattenSeq(seqs) = <<>> /\ n = 0
    BY <1>3 DEF FlattenSeq
  <2>2. f[1] = x
    BY <1>1, <1>2, <2>1, FlatAt
  <2> QED
    BY <1>2, <2>1, <2>2, ConcatEmptySeq DEF more
<1>4. CASE seqs # <<>>
  <2>1. PICK g : IsFlat(g, seqs, n) /\ FlattenSeq(seqs) = g[n]
    BY <1>4, FlatIs
  <2> DEFINE Ns == {i \in Nat : i \in 1..n => f[i] = g[i]}
  <2>2. 0 \in Ns
    OBVIOUS
  <2>3. ASSUME NEW i \in Nat, i \in Ns PROVE i + 1 \in Ns
    <3> SUFFICES ASSUME i + 1 \in 1..n PROVE f[i + 1] = g[i + 1]
      OBVIOUS
    <3>1. f[i + 1] = IF i + 1 = 1 THEN more[i + 1] ELSE f[i] \o more[i + 1]
      BY <1>1, <1>2, FlatAt, SMTT(30)
    <3>2. g[i + 1] = IF i + 1 = 1 THEN seqs[i + 1] ELSE g[i] \o seqs[i + 1]
      BY <2>1, FlatAt
    <3>3. i # 0 => f[i] = g[i]
      BY <1>1, <2>3
    <3> QED
      BY <1>1, <3>1, <3>2, <3>3
  <2> HIDE DEF Ns
  <2>4. n \in Ns
    BY <1>1, <2>2, <2>3, InductionOn
  <2>5. n \in 1..n /\ n + 1 \in 1..(n + 1) /\ n + 1 # 1 /\ (n + 1) - 1 = n
    BY <1>1, <1>4, EmptySeq
  <2>6. f[n] = g[n]
    BY <2>4, <2>5 DEF Ns
  <2>7. f[n + 1] = f[n] \o more[n + 1]
    <3>1. \A i \in 1..(n + 1) : f[i] = IF i = 1 THEN more[i] ELSE f[i - 1] \o more[i]
      BY <1>2, FlatAt
    <3> QED
      BY <2>5, <3>1
  <2> QED
    BY <1>1, <1>2, <2>1, <2>6, <2>7 DEF more
<1> QED
  BY <1>3, <1>4

\* and makes one sequence of characters of many.
LEMMA FlattenType ==
  ASSUME NEW S
  PROVE  \A seqs \in Seq(Seq(S)) : FlattenSeq(seqs) \in Seq(S)
<1> DEFINE Ns == {n \in Nat : \A seqs \in Seq(Seq(S)) : Len(seqs) = n => FlattenSeq(seqs) \in Seq(S)}
<1>1. 0 \in Ns
  <2>1. ASSUME NEW seqs \in Seq(Seq(S)), Len(seqs) = 0 PROVE FlattenSeq(seqs) \in Seq(S)
    <3>1. seqs = <<>>
      BY <2>1, EmptySeq
    <3> QED
      BY <3>1 DEF FlattenSeq
  <2> QED
    BY <2>1
<1>2. ASSUME NEW n \in Nat, n \in Ns PROVE n + 1 \in Ns
  <2>1. ASSUME NEW seqs \in Seq(Seq(S)), Len(seqs) = n + 1 PROVE FlattenSeq(seqs) \in Seq(S)
    <3>1. seqs # <<>>
      BY <2>1
    <3>2. PICK s \in Seq(Seq(S)), x \in Seq(S) : seqs = Append(s, x)
      BY <3>1, SequenceEmptyOrAppend
    <3>3. Len(s) = n
      BY <2>1, <3>2, AppendProperties, LenProperties
    <3>4. FlattenSeq(s) \in Seq(S)
      BY <1>2, <3>3
    <3> QED
      BY <3>2, <3>4, FlattenAppend, ConcatProperties
  <2> QED
    BY <2>1
<1> HIDE DEF Ns
<1>3. \A n \in Nat : n \in Ns
  BY <1>1, <1>2, InductionOn
<1> QED
  BY <1>3, LenProperties DEF Ns
-----------------------------------------------------------------------------
(* What the browser shows of the lines it was sent.                        *)

ShownOf(lines) == FlattenSeq([i \in DOMAIN lines |-> Append(lines[i], NL)])

\* A line more is shown at the end, with its newline.
LEMMA ShownAppend ==
  ASSUME NEW lines \in Seq(Seq(Chars)), NEW x \in Seq(Chars)
  PROVE  /\ ShownOf(lines) \in Seq(Chars)
         /\ ShownOf(Append(lines, x)) = ShownOf(lines) \o Append(x, NL)
<1> DEFINE with(ls) == [i \in DOMAIN ls |-> Append(ls[i], NL)]
<1>1. NL \in Chars
  BY JobStreamAssumption DEF NL, Chars
<1>2. ASSUME NEW ls \in Seq(Seq(Chars))
      PROVE  /\ with(ls) \in Seq(Seq(Chars)) /\ Len(with(ls)) = Len(ls)
             /\ \A i \in 1..Len(ls) : with(ls)[i] = Append(ls[i], NL)
  <2>1. \A i \in 1..Len(ls) : Append(ls[i], NL) \in Seq(Chars)
    BY <1>1, AppendProperties, ElementOfSeq
  <2>2. DOMAIN ls = 1..Len(ls) /\ Len(ls) \in Nat
    BY LenProperties
  <2> QED
    BY <2>1, <2>2
<1>3. ShownOf(lines) \in Seq(Chars)
  BY <1>2, FlattenType DEF ShownOf
<1>4. Append(lines, x) \in Seq(Seq(Chars)) /\ Append(x, NL) \in Seq(Chars)
  BY <1>1, AppendProperties
<1>5. with(Append(lines, x)) = Append(with(lines), Append(x, NL))
  <2> DEFINE a == with(Append(lines, x))
             b == Append(with(lines), Append(x, NL))
  <2>1. /\ Len(Append(lines, x)) = Len(lines) + 1 /\ Len(lines) \in Nat
        /\ \A i \in 1..Len(lines) : Append(lines, x)[i] = lines[i]
        /\ Append(lines, x)[Len(lines) + 1] = x
    BY AppendProperties, LenProperties
  <2>2. a \in Seq(Seq(Chars)) /\ Len(a) = Len(lines) + 1
        /\ \A i \in 1..(Len(lines) + 1) : a[i] = Append(Append(lines, x)[i], NL)
    BY <1>2, <1>4, <2>1
  <2>3. with(lines) \in Seq(Seq(Chars)) /\ Len(with(lines)) = Len(lines)
        /\ \A i \in 1..Len(lines) : with(lines)[i] = Append(lines[i], NL)
    BY <1>2
  <2> HIDE DEF with
  <2>4. /\ b \in Seq(Seq(Chars)) /\ Len(b) = Len(lines) + 1
        /\ \A i \in 1..Len(lines) : b[i] = Append(lines[i], NL)
        /\ b[Len(lines) + 1] = Append(x, NL)
    BY <1>4, <2>3, AppendProperties
  <2> HIDE DEF a, b
  <2>5. ASSUME NEW i \in 1..(Len(lines) + 1) PROVE a[i] = b[i]
    <3>1. CASE i \in 1..Len(lines)
      BY <3>1, <2>1, <2>2, <2>4
    <3>2. CASE i = Len(lines) + 1
      <4>1. a[i] = Append(Append(lines, x)[i], NL)
        BY <2>2
      <4>2. Append(lines, x)[i] = x
        BY <3>2, <2>1
      <4>3. b[i] = Append(x, NL)
        BY <3>2, <2>4, Zenon
      <4> QED
        BY <4>1, <4>2, <4>3, Zenon
    <3> QED
      BY <2>1, <3>1, <3>2
  <2> QED
    BY <2>2, <2>4, <2>5, SeqEqual DEF a, b
<1> QED
  BY <1>2, <1>3, <1>4, <1>5, FlattenAppend DEF ShownOf

\* The lines of at most n characters.
LinesTo(n) == {line \in Seq(Chars) : Len(line) <= n /\ ~Contains(line, NL)}

\* Nothing shows nothing, and is a line of any length.
LEMMA NoLine ==
  /\ ShownOf(<<>>) = <<>>
  /\ \A n \in Nat : <<>> \in LinesTo(n)
  BY DEF ShownOf, FlattenSeq, LinesTo, Contains

-----------------------------------------------------------------------------
(* Splitting.                                                              *)

\* The equation Split defines a function by.
OneMore(f, text, i) ==
  IF i = 0 THEN [lines |-> <<>>, rest |-> <<>>]
  ELSE IF text[i] = NL
    THEN [lines |-> Append(f[i - 1].lines, f[i - 1].rest), rest |-> <<>>]
    ELSE [f[i - 1] EXCEPT !.rest = Append(@, text[i])]
Splitting(f, text, n) == [i \in 0..n |-> OneMore(f, text, i)]
IsSplit(f, text, n) == f = Splitting(f, text, n)

\* One entry of the equation.
LEMMA SplitAt ==
  ASSUME NEW text, NEW n, NEW f, IsSplit(f, text, n), NEW i \in 0..n
  PROVE  f[i] = OneMore(f, text, i)
<1> DEFINE h == Splitting(f, text, n)
<1>1. h[i] = OneMore(f, text, i)
  BY DEF Splitting
<1>2. f = h
  BY DEF IsSplit
<1> QED
  BY <1>1, <1>2, Zenon

\* It has a solution, so that is what Split computes with.
LEMMA SplitExists ==
  ASSUME NEW text
  PROVE  \A n \in Nat : \E f : IsSplit(f, text, n)
<1> DEFINE Ns == {n \in Nat : \E f : IsSplit(f, text, n)}
<1>1. 0 \in Ns
  <2>1. IsSplit([i \in 0..0 |-> [lines |-> <<>>, rest |-> <<>>]], text, 0)
    BY DEF IsSplit, Splitting, OneMore
  <2> QED
    BY <2>1
<1>2. ASSUME NEW n \in Nat, n \in Ns PROVE n + 1 \in Ns
  <2>1. PICK f : IsSplit(f, text, n)
    BY <1>2
  <2> DEFINE g == Splitting(f, text, n + 1)
  <2>2. \A i \in 0..n : g[i] = f[i]
    <3>1. \A i \in 0..(n + 1) : g[i] = OneMore(f, text, i)
      BY DEF Splitting
    <3>2. \A i \in 0..n : f[i] = OneMore(f, text, i)
      BY <2>1, SplitAt
    <3> QED
      BY <3>1, <3>2
  <2>3. \A i \in 0..(n + 1) : i # 0 => i - 1 \in 0..n
    OBVIOUS
  <2> HIDE DEF g
  <2>4. Splitting(g, text, n + 1) = Splitting(f, text, n + 1)
    <3>1. \A i \in 0..(n + 1) : OneMore(g, text, i) = OneMore(f, text, i)
      BY <2>2, <2>3 DEF OneMore
    <3> QED
      BY <3>1 DEF Splitting
  <2>5. IsSplit(g, text, n + 1)
    BY <2>4 DEF IsSplit, g
  <2> QED
    BY <2>5
<1> HIDE DEF Ns
<1>3. \A n \in Nat : n \in Ns
  BY <1>1, <1>2, InductionOn
<1> QED
  BY <1>3 DEF Ns

\* Split takes the last entry of such a solution.
LEMMA SplitIs ==
  ASSUME NEW text \in Seq(Chars)
  PROVE  \E f : IsSplit(f, text, Len(text)) /\ Split(text) = f[Len(text)]
<1> DEFINE f == CHOOSE g : g = Splitting(g, text, Len(text))
<1>1. \E g : g = Splitting(g, text, Len(text))
  BY SplitExists, LenProperties DEF IsSplit
<1>2. IsSplit(f, text, Len(text))
  BY <1>1, Zenon DEF IsSplit
<1>3. Split(text) = f[Len(text)]
  BY DEF Split, Splitting, OneMore
<1> QED
  BY <1>2, <1>3

\* A character more: it ends the line, or is in it; either way it is shown next.
WithOne(p, c) == IF c = NL THEN [lines |-> Append(p.lines, p.rest), rest |-> <<>>]
                 ELSE [p EXCEPT !.rest = Append(@, c)]

\* A character more lengthens the rest by one at most.
LEMMA WithOneType ==
  ASSUME NEW n \in Nat, NEW i \in 0..(n - 1), NEW c \in Chars, NEW p \in [lines : Seq(LinesTo(n)), rest : LinesTo(i)]
  PROVE  WithOne(p, c) \in [lines : Seq(LinesTo(n)), rest : LinesTo(i + 1)]
<1>1. p.lines \in Seq(LinesTo(n)) /\ p.rest \in LinesTo(i)
  OBVIOUS
<1>2. p.rest \in LinesTo(n) /\ p.rest \in Seq(Chars) /\ Len(p.rest) <= i /\ ~Contains(p.rest, NL)
  BY <1>1, LenProperties DEF LinesTo
<1>3. Append(p.lines, p.rest) \in Seq(LinesTo(n))
  BY <1>1, <1>2, AppendProperties
<1>4. ASSUME c # NL PROVE Append(p.rest, c) \in LinesTo(i + 1)
  <2>1. /\ Append(p.rest, c) \in Seq(Chars) /\ Len(Append(p.rest, c)) = Len(p.rest) + 1 /\ Len(p.rest) \in Nat
        /\ \A k \in 1..Len(p.rest) : Append(p.rest, c)[k] = p.rest[k]
        /\ Append(p.rest, c)[Len(p.rest) + 1] = c
    BY <1>2, AppendProperties, LenProperties
  <2>2. ASSUME NEW k \in 1..Len(Append(p.rest, c)) PROVE Append(p.rest, c)[k] # NL
    <3>1. k \in 1..Len(p.rest) \/ k = Len(p.rest) + 1
      BY <2>1
    <3> QED
      BY <1>2, <1>4, <2>1, <3>1 DEF Contains
  <2>3. ~Contains(Append(p.rest, c), NL)
    BY <2>2 DEF Contains
  <2>4. Len(Append(p.rest, c)) <= i + 1
    BY <1>2, <2>1
  <2> QED
    BY <2>1, <2>3, <2>4 DEF LinesTo
<1>5. i + 1 \in Nat /\ <<>> \in LinesTo(i + 1)
  BY NoLine
<1>6. \A line \in LinesTo(i + 1) : [p EXCEPT !.rest = line] \in [lines : Seq(LinesTo(n)), rest : LinesTo(i + 1)]
  BY <1>1
<1> QED
  BY <1>3, <1>4, <1>5, <1>6 DEF WithOne

\* Appending one element to a concatenation.
LEMMA OneAssociative ==
  ASSUME NEW S, NEW a \in Seq(S), NEW b \in Seq(S), NEW c \in S
  PROVE  (a \o b) \o <<c>> = a \o (b \o <<c>>)
<1>1. PICK u : u = <<c>>
  OBVIOUS
<1>2. u \in Seq(S)
  BY <1>1
<1>3. (a \o b) \o u = a \o (b \o u)
  BY <1>2, ConcatAssociative
<1> QED
  BY <1>1, <1>3, Zenon

\* The same for characters, and for lines.
LEMMA CharAssociative ==
  /\ \A a, b \in Seq(Chars), c \in Chars : (a \o b) \o <<c>> = a \o (b \o <<c>>)
  /\ \A a, b \in Seq(Seq(Chars)), c \in Seq(Chars) : (a \o b) \o <<c>> = a \o (b \o <<c>>)
  BY OneAssociative, SMTT(30)

\* Concatenation of texts.
LEMMA TextAssociative == \A a, b, c \in Seq(Chars) : a \o (b \o c) = (a \o b) \o c
  BY ConcatAssociative, SMTT(30)

\* A text is what has been read of it and what has not.
LEMMA TextCut ==
  \A text \in Seq(Chars) : \A k \in 0..Len(text) :
    SubSeq(text, 1, k) \o SubSeq(text, k + 1, Len(text)) = SubSeq(text, 1, Len(text))
<1> SUFFICES ASSUME NEW text \in Seq(Chars), NEW k \in 0..Len(text)
             PROVE  SubSeq(text, 1, k) \o SubSeq(text, k + 1, Len(text)) = SubSeq(text, 1, Len(text))
  OBVIOUS
<1>1. PICK n \in Nat, one \in Nat : n = Len(text) /\ one = 1
  BY LenProperties
<1>2. one \in 1..(n + 1) /\ k \in (one - 1)..n /\ n \in k..n
  BY <1>1
<1>3. SubSeq(text, one, k) \o SubSeq(text, k + 1, n) = SubSeq(text, one, n)
  BY <1>1, <1>2, ConcatAdjacentSubSeq
<1> QED
  BY <1>1, <1>3, Zenon

\* What is appended comes after.
LEMMA TextAppend ==
  \A text \in Seq(Chars), c \in Chars : \A k \in 0..Len(text) : SubSeq(Append(text, c), 1, k) = SubSeq(text, 1, k)
<1> SUFFICES ASSUME NEW text \in Seq(Chars), NEW c \in Chars, NEW k \in 0..Len(text)
             PROVE  SubSeq(Append(text, c), 1, k) = SubSeq(text, 1, k)
  OBVIOUS
<1>1. PICK more : more = Append(text, c)
  OBVIOUS
<1>2. /\ more \in Seq(Chars) /\ Len(more) = Len(text) + 1 /\ Len(text) \in Nat
      /\ \A i \in 1..Len(text) : more[i] = text[i] /\ text[i] \in Chars
  BY <1>1, AppendProperties, LenProperties, ElementOfSeq
<1>3. PICK a, b : a = SubSeq(more, 1, k) /\ b = SubSeq(text, 1, k)
  OBVIOUS
<1>4. a \in Seq(Chars) /\ Len(a) = k /\ \A i \in 1..k : a[i] = more[i]
  BY <1>2, <1>3, SubSeqProperties
<1>5. b \in Seq(Chars) /\ Len(b) = k /\ \A i \in 1..k : b[i] = text[i]
  BY <1>2, <1>3, SubSeqProperties
<1>6. a = b
  BY <1>2, <1>4, <1>5, SeqEqual
<1> QED
  BY <1>1, <1>3, <1>6, Zenon

\* What is shown and held back grows by exactly that character.
LEMMA WithOneShown ==
  ASSUME NEW c \in Chars, NEW sent \in Seq(Seq(Chars)), NEW p \in [lines : Seq(Seq(Chars)), rest : Seq(Chars)]
  PROVE  ShownOf(sent \o WithOne(p, c).lines) \o WithOne(p, c).rest = (ShownOf(sent \o p.lines) \o p.rest) \o <<c>>
<1>0. PICK lines \in Seq(Seq(Chars)), rest \in Seq(Chars) : lines = p.lines /\ rest = p.rest
  OBVIOUS
<1> DEFINE all == sent \o lines
           so == ShownOf(sent \o lines)
<1>1. all \in Seq(Seq(Chars)) /\ so \in Seq(Chars) /\ <<c>> \in Seq(Chars) /\ <<rest>> \in Seq(Seq(Chars))
  <2>1. sent \o lines \in Seq(Seq(Chars))
    BY ConcatProperties
  <2>2. ShownOf(sent \o lines) \in Seq(Chars)
    BY <2>1, ShownAppend
  <2> QED
    BY <2>1, <2>2
<1>2. so \o Append(rest, c) = (so \o rest) \o <<c>>
  <2> HIDE DEF so
  <2>1. Append(rest, c) = rest \o <<c>>
    BY AppendIsConcat
  <2>2. (so \o rest) \o <<c>> = so \o (rest \o <<c>>)
    BY <1>1, CharAssociative, Zenon
  <2> QED
    BY <2>1, <2>2, Zenon
<1>3. CASE c = NL
  <2>1. ShownOf(Append(all, rest)) = ShownOf(all) \o Append(rest, NL)
    BY <1>1, ShownAppend
  <2>2. Append(lines, rest) = lines \o <<rest>>
    BY AppendIsConcat
  <2>3. (sent \o lines) \o <<rest>> = sent \o (lines \o <<rest>>)
    BY CharAssociative, Zenon
  <2>4. Append(all, rest) = all \o <<rest>>
    BY <1>1, AppendIsConcat
  <2>5. sent \o Append(lines, rest) = Append(all, rest)
    BY <2>2, <2>3, <2>4, Zenon
  <2>6. WithOne(p, c).lines = Append(lines, rest) /\ WithOne(p, c).rest = <<>>
    BY <1>0, <1>3 DEF WithOne
  <2>7. ShownOf(sent \o WithOne(p, c).lines) = so \o Append(rest, c)
    BY <1>3, <2>1, <2>5, <2>6, Zenon
  <2>8. so \o Append(rest, c) \in Seq(Chars)
    BY <1>1, AppendProperties, ConcatProperties
  <2>9. (so \o Append(rest, c)) \o <<>> = so \o Append(rest, c)
    BY <2>8, ConcatEmptySeq
  <2> QED
    BY <1>0, <1>2, <2>6, <2>7, <2>9, Zenon
<1>4. CASE c # NL
  <2>1. WithOne(p, c).lines = lines /\ WithOne(p, c).rest = Append(rest, c)
    BY <1>0, <1>4 DEF WithOne
  <2> QED
    BY <1>0, <1>2, <2>1, Zenon
<1> QED
  BY <1>3, <1>4

\* Splitting loses, repeats and moves nothing, after any lines sent before.
Splits(f, text, sent, i) ==
  /\ f[i] \in [lines : Seq(LinesTo(Len(text))), rest : LinesTo(i)]
  /\ ShownOf(sent \o f[i].lines) \o f[i].rest = ShownOf(sent) \o SubSeq(text, 1, i)

\* If that is so up to a character, it is so with the character.
LEMMA SplitStep ==
  ASSUME NEW text \in Seq(Chars), NEW sent \in Seq(Seq(Chars)), NEW f, IsSplit(f, text, Len(text)),
         NEW i \in 0..(Len(text) - 1), Splits(f, text, sent, i)
  PROVE  Splits(f, text, sent, i + 1)
<1>1. Len(text) \in Nat /\ i + 1 \in 1..Len(text) /\ (i + 1) - 1 = i /\ i + 1 # 0 /\ i + 1 \in 0..Len(text)
  BY LenProperties
<1>2. PICK c : c = text[i + 1]
  OBVIOUS
<1>3. c \in Chars
  BY <1>1, <1>2, ElementOfSeq
<1>4. PICK p : p = f[i]
  OBVIOUS
<1>5. f[i + 1] = WithOne(p, c)
  <2>1. \A k \in 0..Len(text) : f[k] = OneMore(f, text, k)
    BY SplitAt
  <2>2. f[i + 1] = OneMore(f, text, i + 1)
    BY <1>1, <2>1
  <2> QED
    BY <1>1, <1>2, <1>4, <2>2 DEF OneMore, WithOne
<1>6. p \in [lines : Seq(LinesTo(Len(text))), rest : LinesTo(i)]
  BY <1>4 DEF Splits
<1>7. PICK lines \in Seq(LinesTo(Len(text))), rest \in LinesTo(i) : p = [lines |-> lines, rest |-> rest]
  BY <1>6
<1>8. lines \in Seq(Seq(Chars)) /\ rest \in Seq(Chars)
  BY SeqMonotonic DEF LinesTo
<1>9. PICK head : head = SubSeq(text, 1, i)
  OBVIOUS
<1>10. head \in Seq(Chars) /\ SubSeq(text, 1, i + 1) = head \o <<c>>
  <2>1. head \in Seq(Chars)
    BY <1>1, <1>9, SubSeqProperties, ElementOfSeq
  <2>2. SubSeq(text, 1, i + 1) = SubSeq(text, 1, (i + 1) - 1) \o <<text[i + 1]>>
    BY <1>1, SubSeqRecursiveSecond
  <2> QED
    BY <1>1, <1>2, <1>9, <2>1, <2>2
<1>11. ShownOf(sent) \in Seq(Chars) /\ <<c>> \in Seq(Chars)
  <2>1. ShownOf(sent) \in Seq(Chars)
    BY <1>8, ShownAppend
  <2> QED
    BY <1>3, <2>1
<1>12. ShownOf(sent \o lines) \o rest = ShownOf(sent) \o head
  <2>1. f[i].lines = lines /\ f[i].rest = rest
    BY <1>4, <1>7
  <2>2. ShownOf(sent \o f[i].lines) \o f[i].rest = ShownOf(sent) \o SubSeq(text, 1, i)
    BY DEF Splits
  <2> QED
    BY <1>9, <2>1, <2>2, Zenon
<1>13. (ShownOf(sent) \o head) \o <<c>> = ShownOf(sent) \o (head \o <<c>>)
  <2> DEFINE so == ShownOf(sent)
  <2> HIDE DEF so
  <2>1. so \in Seq(Chars)
    BY <1>11 DEF so
  <2> QED
    BY <1>3, <1>10, <2>1, CharAssociative, Zenon DEF so
<1>14. ShownOf(sent \o WithOne(p, c).lines) \o WithOne(p, c).rest = (ShownOf(sent \o lines) \o rest) \o <<c>>
  <2>1. p \in [lines : Seq(Seq(Chars)), rest : Seq(Chars)] /\ p.lines = lines /\ p.rest = rest
    BY <1>7, <1>8
  <2>2. ShownOf(sent \o WithOne(p, c).lines) \o WithOne(p, c).rest = (ShownOf(sent \o p.lines) \o p.rest) \o <<c>>
    BY <1>3, <2>1, WithOneShown
  <2> QED
    BY <2>1, <2>2, Zenon
<1>15. WithOne(p, c) \in [lines : Seq(LinesTo(Len(text))), rest : LinesTo(i + 1)]
  BY <1>1, <1>3, <1>6, WithOneType
<1> QED
  BY <1>5, <1>10, <1>12, <1>13, <1>14, <1>15, Zenon DEF Splits

\* It is so for the whole text.
LEMMA SplitWhole ==
  ASSUME NEW text \in Seq(Chars), NEW sent \in Seq(Seq(Chars))
  PROVE  /\ Split(text) \in [lines : Seq(LinesTo(Len(text))), rest : LinesTo(Len(text))]
         /\ ShownOf(sent \o Split(text).lines) \o Split(text).rest = ShownOf(sent) \o text
<1>1. PICK f : IsSplit(f, text, Len(text)) /\ Split(text) = f[Len(text)]
  BY SplitIs
<1> DEFINE Is == {i \in Nat : i \in 0..Len(text) => Splits(f, text, sent, i)}
<1>2. Len(text) \in Nat
  BY LenProperties
<1>3. 0 \in Is
  <2>1. f[0] = [lines |-> <<>>, rest |-> <<>>]
    <3>1. \A k \in 0..Len(text) : f[k] = OneMore(f, text, k)
      BY <1>1, SplitAt
    <3>2. f[0] = OneMore(f, text, 0)
      BY <1>2, <3>1
    <3> QED
      BY <3>2 DEF OneMore
  <2>2. <<>> \in Seq(LinesTo(Len(text))) /\ <<>> \in LinesTo(0)
    BY NoLine, EmptySeq
  <2>3. sent \o <<>> = sent /\ ShownOf(sent) \o <<>> = ShownOf(sent) /\ SubSeq(text, 1, 0) = <<>>
    BY ShownAppend, EmptySeq, ConcatEmptySeq, SubSeqEmpty
  <2>4. f[0].lines = <<>> /\ f[0].rest = <<>> /\ f[0] \in [lines : Seq(LinesTo(Len(text))), rest : LinesTo(0)]
    BY <2>1, <2>2
  <2>5. Splits(f, text, sent, 0)
    BY <2>3, <2>4, Zenon DEF Splits
  <2> QED
    BY <2>5
<1>4. ASSUME NEW i \in Nat, i \in Is PROVE i + 1 \in Is
  <2> SUFFICES ASSUME i + 1 \in 0..Len(text) PROVE Splits(f, text, sent, i + 1)
    OBVIOUS
  <2>1. i \in 0..(Len(text) - 1) /\ i \in 0..Len(text)
    BY <1>2
  <2> QED
    BY <1>1, <1>4, <2>1, SplitStep
<1> HIDE DEF Is
<1>5. Len(text) \in Is
  BY <1>2, <1>3, <1>4, InductionOn
<1>6. Splits(f, text, sent, Len(text))
  BY <1>2, <1>5 DEF Is
<1>7. SubSeq(text, 1, Len(text)) = text
  BY SubSeqFull
<1> QED
  BY <1>1, <1>6, <1>7 DEF Splits
-----------------------------------------------------------------------------
(* The stream.                                                             *)

StreamStates ==
  [at : {"off", "poll", "check", "wait", "done"}, path : BOOLEAN, offset : Nat, pending : Seq(Chars),
   sent : Seq(LinesTo(MaxLog)), final : {"none", "ok", "failed"}, late : BOOLEAN, err : BOOLEAN]

JobTyped == /\ job \in {"created", "writing", "ended", "dead"}
            /\ log \in Seq(Chars) /\ Len(log) <= MaxLog
            /\ status \in {"running", "ok", "failed"}
            /\ stream \in [Watchers -> StreamStates]

\* The row says "running" until the job is over.
StatusFollows == status = "running" <=> job \in {"created", "writing"}

\* A handler has read what is in the log; what it holds back is part of that,
\* and a line.
HeldBack(s) == s.offset <= Len(log) /\ s.pending \in LinesTo(s.offset)

ShowsPrefix(s) == s.at \notin {"off", "done"} => Shown(s) \o s.pending = SubSeq(log, 1, s.offset)

\* "done" is sent once, for a row that will not change, or could not be read.
DoneIsFinal(s) == /\ s.final # "none" <=> s.at = "done"
                  /\ s.final # "none" => IF s.err THEN s.final = "failed"
                                         ELSE s.final = status /\ status # "running"

\* A stream that was opened late finds the whole log at its first poll.
LateReadsAll(s) == s.late => /\ status # "running" /\ s.at # "wait"
                             /\ s.at = "check" /\ s.path => s.offset = Len(log)

ReplaysWhole(s) == s.late /\ s.at = "done" /\ s.path => WholeLogShown(s)

Sound(s) == HeldBack(s) /\ ShowsPrefix(s) /\ DoneIsFinal(s) /\ LateReadsAll(s) /\ ReplaysWhole(s)

StreamInv == JobTyped /\ StatusFollows /\ \A w \in Watchers : Sound(stream[w])
-----------------------------------------------------------------------------
\* Lines that fit fit where there is more room.
LEMMA LinesGrow == \A m, n \in Nat : m <= n => LinesTo(m) \subseteq LinesTo(n)
<1>1. ASSUME NEW m \in Nat, NEW n \in Nat, m <= n, NEW line \in LinesTo(m) PROVE line \in LinesTo(n)
  <2>1. line \in Seq(Chars) /\ Len(line) <= m /\ Len(line) \in Nat /\ ~Contains(line, NL)
    BY LenProperties DEF LinesTo
  <2>2. Len(line) <= n
    BY <1>1, <2>1
  <2> QED
    BY <2>1, <2>2 DEF LinesTo
<1> QED
  BY <1>1

\* One read of the file: what is shown and held back is all of the log.
LEMMA ReadsAll ==
  ASSUME log \in Seq(Chars), Len(log) <= MaxLog, NEW s \in StreamStates,
         s.offset <= Len(log), s.pending \in LinesTo(s.offset),
         Shown(s) \o s.pending = SubSeq(log, 1, s.offset)
  PROVE  /\ Read(s) \in StreamStates
         /\ Read(s).offset = Len(log) /\ Read(s).pending \in LinesTo(Len(log))
         /\ Shown(Read(s)) \o Read(s).pending = SubSeq(log, 1, Len(log))
         /\ Read(s).at = s.at /\ Read(s).path = s.path /\ Read(s).final = s.final
         /\ Read(s).late = s.late /\ Read(s).err = s.err
<1>1. PICK new : new = SubSeq(log, s.offset + 1, Len(log))
  OBVIOUS
<1>2. Len(log) \in Nat /\ s.offset \in 0..Len(log) /\ s.pending \in Seq(Chars) /\ s.sent \in Seq(LinesTo(MaxLog))
  BY LenProperties DEF StreamStates
<1>3. new \in Seq(Chars) /\ Len(new) = Len(log) - s.offset
  BY <1>1, <1>2, SubSeqProperties, ElementOfSeq
<1>4. PICK text : text = s.pending \o new
  OBVIOUS
<1>5. text \in Seq(Chars) /\ Len(text) \in Nat /\ Len(text) <= Len(log)
  <2>1. text \in Seq(Chars) /\ Len(text) = Len(s.pending) + Len(new)
    BY <1>2, <1>3, <1>4, ConcatProperties, ZenonT(30)
  <2>2. Len(s.pending) \in Nat /\ Len(s.pending) <= s.offset
    BY <1>2, LenProperties DEF LinesTo
  <2> QED
    BY <1>2, <1>3, <2>1, <2>2
<1>6. PICK lines, rest : lines = Split(text).lines /\ rest = Split(text).rest
  OBVIOUS
<1>7. s.sent \in Seq(Seq(Chars))
  BY <1>2, SeqMonotonic DEF LinesTo
<1>8. /\ Split(text) \in [lines : Seq(LinesTo(Len(text))), rest : LinesTo(Len(text))]
      /\ ShownOf(s.sent \o lines) \o rest = ShownOf(s.sent) \o text
  BY <1>5, <1>6, <1>7, SplitWhole
<1>9. lines \in Seq(LinesTo(MaxLog)) /\ rest \in LinesTo(Len(log)) /\ rest \in Seq(Chars)
  <2>1. LinesTo(Len(text)) \subseteq LinesTo(MaxLog) /\ LinesTo(Len(text)) \subseteq LinesTo(Len(log))
    BY <1>2, <1>5, LinesGrow, JobStreamAssumption
  <2>2. lines \in Seq(LinesTo(Len(text))) /\ rest \in LinesTo(Len(text))
    BY <1>6, <1>8
  <2> QED
    BY <2>1, <2>2, SeqMonotonic DEF LinesTo
<1>10. ShownOf(s.sent) \o text = SubSeq(log, 1, Len(log))
  <2>1. PICK shown : shown = ShownOf(s.sent)
    OBVIOUS
  <2>2. ShownOf(s.sent) \o (s.pending \o new) = (ShownOf(s.sent) \o s.pending) \o new
    <3>1. shown \in Seq(Chars)
      BY <1>7, <2>1, ShownAppend
    <3>2. PICK pending \in Seq(Chars) : pending = s.pending
      BY <1>2
    <3>3. shown \o (pending \o new) = (shown \o pending) \o new
      BY <1>3, <3>1, TextAssociative, Zenon
    <3> QED
      BY <2>1, <3>2, <3>3, Zenon
  <2>3. ShownOf(s.sent) \o s.pending = SubSeq(log, 1, s.offset)
    BY DEF Shown, ShownOf
  <2>4. SubSeq(log, 1, s.offset) \o SubSeq(log, s.offset + 1, Len(log)) = SubSeq(log, 1, Len(log))
    <3>1. PICK k \in 0..Len(log) : k = s.offset
      BY <1>2
    <3>2. SubSeq(log, 1, k) \o SubSeq(log, k + 1, Len(log)) = SubSeq(log, 1, Len(log))
      BY <1>2, TextCut, Zenon
    <3> QED
      BY <3>1, <3>2
  <2> QED
    BY <1>1, <1>4, <2>2, <2>3, <2>4, Zenon
<1>11. s.sent \o lines \in Seq(LinesTo(MaxLog))
  BY <1>2, <1>9, ConcatProperties
<1>12. Read(s) = [s EXCEPT !.offset = Len(log), !.pending = rest, !.sent = s.sent \o lines]
  BY <1>1, <1>4, <1>6 DEF Read
<1>13. /\ Read(s) \in StreamStates
       /\ Read(s).offset = Len(log) /\ Read(s).pending = rest /\ Read(s).sent = s.sent \o lines
       /\ Read(s).at = s.at /\ Read(s).path = s.path /\ Read(s).final = s.final
       /\ Read(s).late = s.late /\ Read(s).err = s.err
  BY <1>2, <1>9, <1>11, <1>12 DEF StreamStates
<1>14. Shown(Read(s)) = ShownOf(s.sent \o lines)
  BY <1>13 DEF Shown, ShownOf
<1> QED
  BY <1>8, <1>9, <1>10, <1>13, <1>14, Zenon

\* The end of a stream: the partial line becomes a line.
LEMMA EndsWhole ==
  ASSUME log \in Seq(Chars), Len(log) <= MaxLog, NEW s \in StreamStates,
         s.offset <= Len(log), s.pending \in LinesTo(s.offset),
         Shown(s) \o s.pending = SubSeq(log, 1, s.offset), NEW final \in {"ok", "failed"}
  PROVE  /\ Ended(s, final) \in StreamStates
         /\ Ended(s, final).at = "done" /\ Ended(s, final).final = final
         /\ Ended(s, final).pending = <<>> /\ Ended(s, final).offset = s.offset
         /\ Ended(s, final).path = s.path /\ Ended(s, final).late = s.late /\ Ended(s, final).err = s.err
         /\ s.offset = Len(log) => WholeLogShown(Ended(s, final))
<1>1. Len(log) \in Nat /\ s.offset \in 0..Len(log) /\ s.pending \in Seq(Chars) /\ s.sent \in Seq(LinesTo(MaxLog))
  BY LenProperties DEF StreamStates
<1>2. s.sent \in Seq(Seq(Chars)) /\ s.pending \in LinesTo(MaxLog)
  BY <1>1, SeqMonotonic, LinesGrow, JobStreamAssumption DEF LinesTo
<1>3. Flush(s) \in Seq(LinesTo(MaxLog))
  BY <1>1, <1>2, AppendProperties DEF Flush
<1>4. /\ Ended(s, final) \in StreamStates
      /\ Ended(s, final).at = "done" /\ Ended(s, final).final = final
      /\ Ended(s, final).pending = <<>> /\ Ended(s, final).offset = s.offset
      /\ Ended(s, final).path = s.path /\ Ended(s, final).late = s.late /\ Ended(s, final).err = s.err
      /\ Ended(s, final).sent = Flush(s)
  <2>1. PICK flush \in Seq(LinesTo(MaxLog)) : flush = Flush(s)
    BY <1>3
  <2>2. Ended(s, final) = [s EXCEPT !.at = "done", !.sent = flush, !.pending = <<>>, !.final = final]
    BY <2>1 DEF Ended
  <2>3. <<>> \in Seq(Chars)
    BY EmptySeq
  <2> QED
    BY <2>1, <2>2, <2>3 DEF StreamStates
<1>5. ASSUME s.offset = Len(log) PROVE ShownOf(Flush(s)) \in {log, Append(log, NL)}
  <2>1. ShownOf(s.sent) \in Seq(Chars) /\ NL \in Chars
    BY <1>1, <1>2, ShownAppend, JobStreamAssumption DEF NL, Chars
  <2>2. ShownOf(s.sent) \o s.pending = log
    BY <1>5, SubSeqFull DEF Shown, ShownOf
  <2>3. CASE s.pending = <<>>
    BY <2>1, <2>2, <2>3, ConcatEmptySeq DEF Flush
  <2>4. CASE s.pending # <<>>
    <3>1. ShownOf(Flush(s)) = ShownOf(s.sent) \o Append(s.pending, NL)
      BY <1>1, <1>2, <2>4, ShownAppend DEF Flush
    <3>2. Append(s.pending, NL) = s.pending \o <<NL>> /\ Append(log, NL) = log \o <<NL>>
      BY <1>1, <2>1, AppendIsConcat
    <3>3. (ShownOf(s.sent) \o s.pending) \o <<NL>> = ShownOf(s.sent) \o (s.pending \o <<NL>>)
      BY <1>1, <2>1, CharAssociative, Zenon
    <3>4. ShownOf(Flush(s)) = Append(log, NL)
      BY <2>2, <3>1, <3>2, <3>3, Zenon
    <3> QED
      BY <3>4
  <2> QED
    BY <2>3, <2>4
<1> QED
  BY <1>4, <1>5 DEF WholeLogShown, Shown, ShownOf
-----------------------------------------------------------------------------
(* The invariant.                                                          *)

\* A stream that is not open.
LEMMA ClosedIsSound == Closed \in StreamStates /\ (log \in Seq(Chars) => Sound(Closed))
<1>1. /\ Closed.at = "off" /\ Closed.path = FALSE /\ Closed.offset = 0 /\ Closed.pending = <<>>
      /\ Closed.sent = <<>> /\ Closed.final = "none" /\ Closed.late = FALSE /\ Closed.err = FALSE
  BY DEF Closed
<1>2. Closed \in StreamStates
  BY EmptySeq DEF Closed, StreamStates
<1>3. <<>> \in LinesTo(0)
  BY NoLine
<1>4. log \in Seq(Chars) => Sound(Closed)
  BY <1>1, <1>3, LenProperties DEF Sound, HeldBack, ShowsPrefix, DoneIsFinal, LateReadsAll, ReplaysWhole
<1> QED
  BY <1>2, <1>4

\* Every stream is closed at the start.
LEMMA StreamInitially == Init => StreamInv
<1> SUFFICES ASSUME Init PROVE StreamInv
  OBVIOUS
<1>1. log \in Seq(Chars) /\ Len(log) <= MaxLog
  BY EmptySeq, JobStreamAssumption DEF Init
<1>2. Closed \in StreamStates /\ Sound(Closed)
  BY <1>1, ClosedIsSound
<1> QED
  BY <1>1, <1>2 DEF Init, StreamInv, JobTyped, StatusFollows

\* A step of one handler needs only be looked at there.
LEMMA StreamStep ==
  ASSUME StreamInv, NEW w \in Watchers, NEW s \in StreamStates, Sound(s), Step(w, s)
  PROVE  StreamInv'
<1>1. stream' = [stream EXCEPT ![w] = s] /\ job' = job /\ log' = log /\ status' = status
  BY DEF Step
<1>2. stream' \in [Watchers -> StreamStates]
  BY <1>1 DEF StreamInv, JobTyped
<1>3. ASSUME NEW v \in Watchers PROVE Sound(stream'[v])
  BY <1>1 DEF StreamInv, JobTyped
<1>4. ASSUME NEW v \in Watchers PROVE Sound(stream[v])'
  BY <1>1, <1>3 DEF Sound, HeldBack, ShowsPrefix, DoneIsFinal, LateReadsAll, ReplaysWhole, WholeLogShown, Shown
<1> QED
  BY <1>1, <1>2, <1>4 DEF StreamInv, JobTyped, StatusFollows

\* A new stream has read nothing; it is late if the job is over.
LEMMA OpenKeeps == ASSUME StreamInv, NEW w \in Watchers, Connect(w) PROVE StreamInv'
<1> DEFINE s == [Closed EXCEPT !.at = FirstRead, !.path = (job # "created"), !.late = (status # "running")]
<1>1. /\ s.at = "poll" /\ s.path \in BOOLEAN /\ s.offset = 0 /\ s.pending = <<>> /\ s.sent = <<>>
      /\ s.final = "none" /\ s.late = (status # "running") /\ s.err = FALSE
  BY DEF Closed, FirstRead
<1>2. s \in StreamStates
  BY EmptySeq DEF Closed, FirstRead, StreamStates
<1> HIDE DEF s
<1>3. Shown(s) = <<>> /\ <<>> \in LinesTo(0)
  BY <1>1, NoLine DEF Shown, ShownOf
<1>4. Len(log) \in Nat /\ SubSeq(log, 1, 0) = <<>> /\ <<>> \o <<>> = <<>>
  <2>1. log \in Seq(Chars)
    BY DEF StreamInv, JobTyped
  <2>2. SubSeq(log, 1, 0) = <<>>
    BY SubSeqEmpty
  <2>3. <<>> \in Seq(Chars)
    BY EmptySeq
  <2>4. <<>> \o <<>> = <<>>
    BY <2>3, ConcatEmptySeq
  <2> QED
    BY <2>1, <2>2, <2>4, LenProperties
<1>5. Sound(s)
  <2>1. ShowsPrefix(s)
    BY <1>1, <1>3, <1>4, Zenon DEF ShowsPrefix
  <2>2. HeldBack(s)
    BY <1>1, <1>3, <1>4 DEF HeldBack
  <2>3. DoneIsFinal(s)
    BY <1>1 DEF DoneIsFinal
  <2>4. LateReadsAll(s) /\ ReplaysWhole(s)
    <3>1. s.at # "check" /\ s.at # "wait" /\ s.at # "done" /\ (s.late => status # "running")
      BY <1>1
    <3> QED
      BY <3>1, Zenon DEF LateReadsAll, ReplaysWhole
  <2> QED
    BY <2>1, <2>2, <2>3, <2>4 DEF Sound
<1>6. Step(w, s)
  BY DEF Connect, s
<1> QED
  BY <1>2, <1>5, <1>6, StreamStep

\* A poll reads all there is, a late one therefore the whole log.
LEMMA PollKeeps == ASSUME StreamInv, NEW w \in Watchers, Poll(w) PROVE StreamInv'
<1>1. PICK s \in StreamStates : s = stream[w]
  BY DEF StreamInv, JobTyped
<1>2. log \in Seq(Chars) /\ Len(log) <= MaxLog /\ s.at = "poll" /\ Sound(s)
  BY <1>1 DEF StreamInv, JobTyped, Poll
<1>3. PICK r : r = IF s.path THEN Read(s) ELSE s
  OBVIOUS
<1>4. /\ r \in StreamStates /\ HeldBack(r)
      /\ Shown(r) \o r.pending = SubSeq(log, 1, r.offset)
      /\ r.at = s.at /\ r.path = s.path /\ r.final = s.final /\ r.late = s.late /\ r.err = s.err
      /\ s.path => r.offset = Len(log)
  <2>1. s.offset <= Len(log) /\ s.pending \in LinesTo(s.offset) /\ Shown(s) \o s.pending = SubSeq(log, 1, s.offset)
    BY <1>2 DEF Sound, HeldBack, ShowsPrefix
  <2>2. CASE s.path
    <3>1. r = Read(s)
      BY <1>3, <2>2
    <3>2. Len(log) <= Len(log)
      BY <1>2, LenProperties
    <3>3. /\ Read(s) \in StreamStates
          /\ Read(s).offset = Len(log) /\ Read(s).pending \in LinesTo(Len(log))
          /\ Shown(Read(s)) \o Read(s).pending = SubSeq(log, 1, Len(log))
          /\ Read(s).at = s.at /\ Read(s).path = s.path /\ Read(s).final = s.final
          /\ Read(s).late = s.late /\ Read(s).err = s.err
      BY <1>2, <2>1, ReadsAll
    <3> QED
      BY <3>1, <3>2, <3>3, Zenon DEF HeldBack
  <2>3. CASE ~ s.path
    BY <1>3, <2>1, <2>3 DEF HeldBack
  <2> QED
    BY <2>2, <2>3
<1>5. PICK n : n = [r EXCEPT !.at = "check"]
  OBVIOUS
<1>6. /\ n \in StreamStates /\ n.at = "check" /\ n.path = s.path /\ n.final = s.final /\ n.late = s.late /\ n.err = s.err
      /\ n.offset = r.offset /\ n.pending = r.pending /\ n.sent = r.sent
  BY <1>4, <1>5 DEF StreamStates
<1>7. Shown(n) = Shown(r)
  BY <1>6 DEF Shown
<1>8. Sound(n)
  <2>1. HeldBack(n)
    BY <1>4, <1>6 DEF HeldBack
  <2>2. ShowsPrefix(n)
    BY <1>4, <1>6, <1>7 DEF ShowsPrefix
  <2>3. DoneIsFinal(n)
    BY <1>2, <1>6 DEF Sound, DoneIsFinal
  <2>4. LateReadsAll(n) /\ ReplaysWhole(n)
    BY <1>2, <1>4, <1>6 DEF Sound, LateReadsAll, ReplaysWhole
  <2> QED
    BY <2>1, <2>2, <2>3, <2>4 DEF Sound
<1>9. Step(w, n)
  BY <1>1, <1>3, <1>5 DEF Poll
<1> QED
  BY <1>6, <1>8, <1>9, StreamStep

\* The end of a stream shows what was held back and says what the row says.
LEMMA CheckKeeps == ASSUME StreamInv, NEW w \in Watchers, Check(w) PROVE StreamInv'
<1>1. PICK s \in StreamStates : s = stream[w]
  BY DEF StreamInv, JobTyped
<1>2. /\ log \in Seq(Chars) /\ Len(log) <= MaxLog /\ status \in {"running", "ok", "failed"}
      /\ s.at = "check" /\ Sound(s)
  BY <1>1 DEF StreamInv, JobTyped, Check
<1>3. PICK current \in {status, "error"} :
        Step(w, IF current = "running" THEN [s EXCEPT !.at = "wait"]
                ELSE EndOf([s EXCEPT !.err = (current = "error")], current))
  BY <1>1 DEF Check
<1>4. CASE current = "running"
  <2>1. PICK n : n = [s EXCEPT !.at = "wait"]
    OBVIOUS
  <2>2. /\ n \in StreamStates /\ n.at = "wait" /\ n.path = s.path /\ n.final = s.final /\ n.late = s.late /\ n.err = s.err
        /\ n.offset = s.offset /\ n.pending = s.pending /\ n.sent = s.sent
    BY <2>1 DEF StreamStates
  <2>3. Shown(n) = Shown(s)
    BY <2>2 DEF Shown
  <2>4. status = "running"
    BY <1>2, <1>3, <1>4
  <2>5. Sound(n)
    BY <1>2, <2>2, <2>3, <2>4 DEF Sound, HeldBack, ShowsPrefix, DoneIsFinal, LateReadsAll, ReplaysWhole
  <2>6. Step(w, n)
    BY <1>3, <1>4, <2>1
  <2> QED
    BY <2>2, <2>5, <2>6, StreamStep
<1>5. CASE current # "running"
  <2>1. PICK e : e = [s EXCEPT !.err = (current = "error")]
    OBVIOUS
  <2>2. /\ e \in StreamStates /\ e.at = s.at /\ e.path = s.path /\ e.late = s.late /\ e.err = (current = "error")
        /\ e.offset = s.offset /\ e.pending = s.pending /\ e.sent = s.sent
    BY <2>1 DEF StreamStates
  <2>3. PICK final \in {"ok", "failed"} : final = IF current = "error" THEN "failed" ELSE current
    BY <1>2, <1>3, <1>5
  <2>4. PICK n : n = Ended(e, final)
    OBVIOUS
  <2>5. /\ e.offset <= Len(log) /\ e.pending \in LinesTo(e.offset)
        /\ Shown(e) \o e.pending = SubSeq(log, 1, e.offset)
    BY <1>2, <2>2 DEF Sound, HeldBack, ShowsPrefix, Shown
  <2>6. /\ n \in StreamStates /\ n.at = "done" /\ n.final = final /\ n.pending = <<>> /\ n.offset = e.offset
        /\ n.path = s.path /\ n.late = s.late /\ n.err = (current = "error")
        /\ e.offset = Len(log) => WholeLogShown(n)
    BY <1>2, <2>2, <2>4, <2>5, EndsWhole, ZenonT(30)
  <2>7. <<>> \in LinesTo(n.offset)
    BY <2>2, <2>6, NoLine DEF StreamStates
  <2>8. HeldBack(n) /\ ShowsPrefix(n)
    BY <2>5, <2>6, <2>7 DEF HeldBack, ShowsPrefix
  <2>9. DoneIsFinal(n)
    BY <1>2, <1>3, <1>5, <2>3, <2>6 DEF DoneIsFinal
  <2>10. LateReadsAll(n) /\ ReplaysWhole(n)
    BY <1>2, <2>2, <2>6 DEF Sound, LateReadsAll, ReplaysWhole
  <2>11. Step(w, n)
    BY <1>3, <1>5, <2>1, <2>3, <2>4 DEF EndOf
  <2> QED
    BY <2>6, <2>8, <2>9, <2>10, <2>11, StreamStep DEF Sound
<1> QED
  BY <1>4, <1>5

\* Only a stream that is not late waits.
LEMMA TickKeeps == ASSUME StreamInv, NEW w \in Watchers, Tick(w) PROVE StreamInv'
<1>1. PICK s \in StreamStates : s = stream[w]
  BY DEF StreamInv, JobTyped
<1>2. PICK n : n = [s EXCEPT !.at = "poll"]
  OBVIOUS
<1>3. /\ n \in StreamStates /\ n.at = "poll" /\ n.path = s.path /\ n.final = s.final /\ n.late = s.late /\ n.err = s.err
      /\ n.offset = s.offset /\ n.pending = s.pending /\ n.sent = s.sent
  BY <1>2 DEF StreamStates
<1>4. Shown(n) = Shown(s)
  BY <1>3 DEF Shown
<1>5. Sound(s) /\ s.at = "wait"
  BY <1>1 DEF StreamInv, Tick
<1>6. Sound(n)
  BY <1>3, <1>4, <1>5 DEF Sound, HeldBack, ShowsPrefix, DoneIsFinal, LateReadsAll, ReplaysWhole
<1>7. Step(w, n)
  BY <1>1, <1>2 DEF Tick
<1> QED
  BY <1>3, <1>6, <1>7, StreamStep

\* Leaving closes the stream.
LEMMA LeaveKeeps == ASSUME StreamInv, NEW w \in Watchers, Leave(w) PROVE StreamInv'
<1>1. Closed \in StreamStates /\ Sound(Closed)
  BY ClosedIsSound DEF StreamInv, JobTyped
<1> QED
  BY <1>1, StreamStep DEF Leave

\* What is written comes after what has been read.
LEMMA WriteKeeps == ASSUME StreamInv, Write PROVE StreamInv'
<1>1. PICK c \in {Len(log) + 1, NL} : log' = Append(log, c)
  BY DEF Write
<1>2. /\ log \in Seq(Chars) /\ Len(log) < MaxLog /\ status = "running" /\ Len(log) \in Nat /\ c \in Chars
      /\ job' = job /\ status' = status /\ stream' = stream
  BY <1>1, LenProperties, JobStreamAssumption DEF StreamInv, JobTyped, StatusFollows, Write, Chars, NL
<1>3. log' \in Seq(Chars) /\ Len(log') = Len(log) + 1
  BY <1>1, <1>2, AppendProperties
<1>4. ASSUME NEW n \in 0..Len(log) PROVE SubSeq(log', 1, n) = SubSeq(log, 1, n)
  BY <1>1, <1>2, TextAppend, Zenon
<1>5. ASSUME NEW w \in Watchers PROVE Sound(stream[w])'
  <2>1. PICK s \in StreamStates : s = stream[w]
    BY DEF StreamInv, JobTyped
  <2>2. Sound(s)
    BY <2>1 DEF StreamInv
  <2>3. s.offset \in 0..Len(log) /\ s.offset <= Len(log') /\ s.late = FALSE
    BY <1>2, <1>3, <2>2 DEF Sound, HeldBack, LateReadsAll, StreamStates
  <2>4. SubSeq(log', 1, s.offset) = SubSeq(log, 1, s.offset)
    BY <1>4, <2>3
  <2> QED
    BY <1>2, <2>1, <2>2, <2>3, <2>4 DEF Sound, HeldBack, ShowsPrefix, DoneIsFinal, LateReadsAll, ReplaysWhole, Shown
<1>6. JobTyped' /\ StatusFollows'
  BY <1>2, <1>3, JobStreamAssumption DEF StreamInv, JobTyped, StatusFollows
<1> QED
  BY <1>5, <1>6 DEF StreamInv

\* Only a row that says "running" changes.
LEMMA EndKeeps == ASSUME StreamInv, End PROVE StreamInv'
<1>1. status = "running" /\ status' \in {"ok", "failed"} /\ job' = "ended" /\ log' = log /\ stream' = stream
  BY DEF StreamInv, StatusFollows, End
<1>2. ASSUME NEW w \in Watchers PROVE Sound(stream[w])'
  BY <1>1 DEF StreamInv, Sound, HeldBack, ShowsPrefix, DoneIsFinal, LateReadsAll, ReplaysWhole, WholeLogShown, Shown
<1> QED
  BY <1>1, <1>2 DEF StreamInv, JobTyped, StatusFollows

\* A dying process leaves streams that are over, or closes them.
LEMMA DieKeeps == ASSUME StreamInv, Die PROVE StreamInv'
<1>1. /\ job' = "dead" /\ log' = log /\ status' \in {"ok", "failed"} /\ (status # "running" => status' = status)
      /\ stream' = [w \in Watchers |-> IF stream[w].at = "done" THEN stream[w] ELSE Closed]
  BY DEF StreamInv, JobTyped, StatusFollows, Die
<1>2. log \in Seq(Chars) /\ Closed \in StreamStates /\ Sound(Closed)
  BY ClosedIsSound DEF StreamInv, JobTyped
<1>3. stream' \in [Watchers -> StreamStates]
  BY <1>1, <1>2 DEF StreamInv, JobTyped
<1>4. ASSUME NEW w \in Watchers PROVE Sound(stream[w])'
  <2>1. PICK s \in StreamStates : s = IF stream[w].at = "done" THEN stream[w] ELSE Closed
    BY <1>2 DEF StreamInv, JobTyped
  <2>2. stream'[w] = s
    BY <1>1, <2>1
  <2>3. Sound(s) /\ s.at \in {"off", "done"} /\ (s.late => s.at = "done")
    <3>1. Closed.late = FALSE /\ Closed.at = "off"
      BY DEF Closed
    <3> QED
      BY <1>2, <2>1, <3>1 DEF StreamInv
  <2>4. HeldBack(s)' /\ ShowsPrefix(s)' /\ ReplaysWhole(s)'
    BY <1>1, <2>3 DEF Sound, HeldBack, ShowsPrefix, ReplaysWhole, WholeLogShown, Shown
  <2>5. DoneIsFinal(s)' /\ LateReadsAll(s)'
    BY <1>1, <2>3 DEF Sound, DoneIsFinal, LateReadsAll
  <2> QED
    BY <2>2, <2>4, <2>5 DEF Sound, HeldBack, ShowsPrefix, ReplaysWhole, WholeLogShown, Shown, DoneIsFinal, LateReadsAll
<1>5. JobTyped' /\ StatusFollows'
  BY <1>1, <1>3 DEF StreamInv, JobTyped, StatusFollows
<1> QED
  BY <1>4, <1>5 DEF StreamInv

\* Every step keeps the invariant.
LEMMA StreamKeeps == StreamInv /\ [Next]_vars => StreamInv'
<1> SUFFICES ASSUME StreamInv, [Next]_vars PROVE StreamInv'
  OBVIOUS
<1>1. CASE Launch
  BY <1>1 DEF Launch, StreamInv, JobTyped, StatusFollows, Sound, HeldBack, ShowsPrefix, DoneIsFinal, LateReadsAll,
              ReplaysWhole, WholeLogShown, Shown
<1>2. CASE Write
  BY <1>2, WriteKeeps
<1>3. CASE End
  BY <1>3, EndKeeps
<1>4. CASE Die
  BY <1>4, DieKeeps
<1>5. CASE \E w \in Watchers : Connect(w) \/ Handler(w) \/ Leave(w)
  BY <1>5, OpenKeeps, PollKeeps, CheckKeeps, TickKeeps, LeaveKeeps DEF Handler
<1>6. CASE UNCHANGED vars
  BY <1>6 DEF vars, StreamInv, JobTyped, StatusFollows, Sound, HeldBack, ShowsPrefix, DoneIsFinal, LateReadsAll,
              ReplaysWhole, WholeLogShown, Shown
<1> QED
  BY <1>1, <1>2, <1>3, <1>4, <1>5, <1>6 DEF Next, Job

\* The invariant holds of every behaviour.
LEMMA StreamAlways == Spec => []StreamInv
  BY StreamInitially, StreamKeeps, PTL DEF Spec
-----------------------------------------------------------------------------
(* What it means for the properties.                                       *)

\* The lines a handler sends are short enough to be texts of the log.
LEMMA LinesAreTexts == LinesTo(MaxLog) \subseteq Texts
<1> SUFFICES ASSUME NEW line \in LinesTo(MaxLog) PROVE line \in Texts
  OBVIOUS
<1>1. line \in Seq(Chars) /\ Len(line) <= MaxLog
  BY DEF LinesTo
<1>2. Len(line) \in 0..MaxLog /\ line \in [1..Len(line) -> Chars]
  BY <1>1, LenProperties, JobStreamAssumption
<1> QED
  BY <1>2 DEF Texts

\* The stream has the states it is declared with: no offset past the end of
\* the log, and only lines of it sent and held back.
THEOREM StreamTyped == Spec => []TypeOK
<1>1. StreamInv => TypeOK
  <2> SUFFICES ASSUME StreamInv PROVE TypeOK
    OBVIOUS
  <2>1. log \in Texts
    BY LenProperties, JobStreamAssumption DEF StreamInv, JobTyped, Texts
  <2>2. ASSUME NEW w \in Watchers
        PROVE  /\ stream[w].at \in {"off", "poll", "check", "wait", "done"}
               /\ stream[w].offset \in 0..Len(log)
               /\ stream[w].pending \in Texts
               /\ \A i \in DOMAIN stream[w].sent : stream[w].sent[i] \in Texts
               /\ stream[w].final \in {"none", "ok", "failed"}
    <3>1. PICK s \in StreamStates : s = stream[w] /\ HeldBack(s)
      BY DEF StreamInv, JobTyped, Sound
    <3>2. Len(log) \in Nat /\ Len(log) <= MaxLog
      BY LenProperties DEF StreamInv, JobTyped
    <3>3. s.offset \in 0..Len(log) /\ s.pending \in LinesTo(MaxLog)
      BY <3>1, <3>2, LinesGrow, JobStreamAssumption DEF HeldBack, StreamStates
    <3>4. \A i \in DOMAIN s.sent : s.sent[i] \in LinesTo(MaxLog)
      BY LenProperties, ElementOfSeq DEF StreamStates
    <3> QED
      BY <3>1, <3>3, <3>4, LinesAreTexts DEF StreamStates
  <2> QED
    BY <2>1, <2>2 DEF StreamInv, JobTyped, TypeOK
<1> QED
  BY <1>1, StreamAlways, PTL

\* However writes and polls interleave, an open stream shows exactly what it
\* has read of the log (sse.go:265-282).
THEOREM StreamShowsPrefix == Spec => []StreamIsPrefix
<1>1. StreamInv => StreamIsPrefix
  BY DEF StreamInv, Sound, ShowsPrefix, StreamIsPrefix
<1> QED
  BY <1>1, StreamAlways, PTL

\* No line that is sent or held back has a newline in it (sse.go:272-277).
THEOREM StreamLinesWhole == Spec => []LinesAreWhole
<1>1. StreamInv => LinesAreWhole
  <2> SUFFICES ASSUME StreamInv, NEW w \in Watchers
               PROVE  /\ \A i \in DOMAIN stream[w].sent : ~ Contains(stream[w].sent[i], NL)
                      /\ ~ Contains(stream[w].pending, NL)
    BY DEF LinesAreWhole
  <2>1. PICK s \in StreamStates : s = stream[w] /\ HeldBack(s)
    BY DEF StreamInv, JobTyped, Sound
  <2>2. \A i \in DOMAIN s.sent : s.sent[i] \in LinesTo(MaxLog)
    BY LenProperties, ElementOfSeq DEF StreamStates
  <2> QED
    BY <2>1, <2>2 DEF HeldBack, LinesTo
<1> QED
  BY <1>1, StreamAlways, PTL

\* "done" carries the status the row ends with, or "failed" where the row could
\* not be read (sse.go:232-233, 284-294).
THEOREM StreamDoneIsTrue == Spec => []DoneIsTrue
<1>1. StreamInv => DoneIsTrue
  BY DEF StreamInv, Sound, DoneIsFinal, DoneIsTrue
<1> QED
  BY <1>1, StreamAlways, PTL

\* A stream opened when the job is over has shown the whole log before its
\* "done" (sse.go:233-235).
THEOREM StreamReplaysWhole == Spec => []ReplayIsWhole
<1>1. StreamInv => ReplayIsWhole
  BY DEF StreamInv, Sound, ReplaysWhole, ReplayIsWhole
<1> QED
  BY <1>1, StreamAlways, PTL
=============================================================================
