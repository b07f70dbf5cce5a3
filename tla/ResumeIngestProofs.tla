------------------------- MODULE ResumeIngestProofs -------------------------
(***************************************************************************)
(* What holds in every state of the ingestion, for any files, word lists   *)
(* and bounds.                                                             *)
(***************************************************************************)
EXTENDS ResumeIngest, WellFoundedInduction, SequenceTheorems, TLAPS

LEMMA NatHasLeast ==
  ASSUME NEW T, T \subseteq Nat, T # {}
  PROVE  \E x \in T : \A y \in T : x <= y
<1>1. PICK x \in T : \A y \in T : ~(<<y, x>> \in OpToRel(<, Nat))
  BY NatLessThanWellFounded, WFMin, Zenon
<1>2. ASSUME NEW y \in T PROVE x <= y
  <2>1. ~(y < x)
    BY <1>1 DEF OpToRel
  <2> QED BY <2>1
<1> QED BY <1>2

-----------------------------------------------------------------------------
(***************************************************************************)
(* A pass over a text, line by line.  out[n] is what is kept of the first  *)
(* n lines.                                                                *)
(***************************************************************************)
IsPass(out, text, places, N) ==
  out = [n \in 0 .. N |->
          IF n = 0 THEN <<>>
          ELSE IF n \in places THEN Append(out[n - 1], text[n]) ELSE out[n - 1]]

\* The recursion of Keeping has a solution.
LEMMA PassExists ==
  ASSUME NEW text, NEW places, NEW N \in Nat
  PROVE  \E out : IsPass(out, text, places, N)
<1> DEFINE Bad == {k \in Nat : ~ \E out : IsPass(out, text, places, k)}
<1>1. SUFFICES ASSUME Bad # {} PROVE FALSE
  OBVIOUS
<1>2. PICK k \in Bad : \A j \in Bad : k <= j
  BY <1>1, NatHasLeast
<1>3. k # 0
  <2>1. IsPass([n \in 0 .. 0 |-> <<>>], text, places, 0)
    BY DEF IsPass
  <2> QED BY <2>1
<1>4. PICK out : IsPass(out, text, places, k - 1)
  <2>1. k - 1 \in Nat /\ ~(k <= k - 1)
    BY <1>3
  <2>2. k - 1 \notin Bad
    BY <1>2, <2>1
  <2> QED BY <2>1, <2>2
<1> DEFINE more == [n \in 0 .. k |->
          IF n = 0 THEN <<>>
          ELSE IF n \in places THEN Append(out[n - 1], text[n]) ELSE out[n - 1]]
<1>5. ASSUME NEW n \in 0 .. k - 1 PROVE more[n] = out[n]
  <2>1. n \in 0 .. k
    BY <1>3
  <2>2. more[n] = (IF n = 0 THEN <<>>
          ELSE IF n \in places THEN Append(out[n - 1], text[n]) ELSE out[n - 1])
    BY <2>1
  <2>3. out[n] = (IF n = 0 THEN <<>>
          ELSE IF n \in places THEN Append(out[n - 1], text[n]) ELSE out[n - 1])
    BY <1>4 DEF IsPass
  <2> QED BY <2>2, <2>3
<1>6. IsPass(more, text, places, k)
  <2>1. ASSUME NEW n \in 0 .. k, n # 0 PROVE more[n - 1] = out[n - 1]
    <3>1. n - 1 \in 0 .. k - 1
      BY <2>1
    <3> QED BY <3>1, <1>5
  <2> QED BY <2>1 DEF IsPass
<1> QED BY <1>2, <1>6

\* Keeping is the last value of its pass.
LEMMA KeepingIs ==
  ASSUME NEW text, NEW places, Len(text) \in Nat
  PROVE  \E out : /\ IsPass(out, text, places, Len(text))
                  /\ Keeping(text, places) = out[Len(text)]
<1> DEFINE out[n \in 0 .. Len(text)] ==
        IF n = 0 THEN <<>>
        ELSE IF n \in places THEN Append(out[n - 1], text[n]) ELSE out[n - 1]
<1>1. IsPass(out, text, places, Len(text))
  <2>1. \E f : f = [n \in 0 .. Len(text) |-> IF n = 0 THEN <<>>
        ELSE IF n \in places THEN Append(f[n - 1], text[n]) ELSE f[n - 1]]
    <3>1. \E f : IsPass(f, text, places, Len(text))
      BY PassExists
    <3> QED BY <3>1, Zenon DEF IsPass
  <2>2. out = [n \in 0 .. Len(text) |-> IF n = 0 THEN <<>>
        ELSE IF n \in places THEN Append(out[n - 1], text[n]) ELSE out[n - 1]]
    BY <2>1, Zenon
  <2> HIDE DEF out
  <2> QED BY <2>2 DEF IsPass
<1>2. Keeping(text, places) = out[Len(text)]
  BY Zenon DEF Keeping
<1> HIDE DEF out
<1> QED BY <1>1, <1>2

\* What a pass has kept of n lines.
LEMMA PassStep ==
  \A text, places, out : Len(text) \in Nat /\ IsPass(out, text, places, Len(text)) =>
    /\ out[0] = <<>>
    /\ \A n \in 1 .. Len(text) :
         out[n] = IF n \in places THEN Append(out[n - 1], text[n]) ELSE out[n - 1]
<1> SUFFICES ASSUME NEW text, NEW places, NEW out, Len(text) \in Nat,
                    IsPass(out, text, places, Len(text))
             PROVE  /\ out[0] = <<>>
                    /\ \A n \in 1 .. Len(text) :
                         out[n] = IF n \in places THEN Append(out[n - 1], text[n])
                                  ELSE out[n - 1]
  OBVIOUS
<1>1. ASSUME NEW n \in 0 .. Len(text)
      PROVE  out[n] = IF n = 0 THEN <<>>
                      ELSE IF n \in places THEN Append(out[n - 1], text[n]) ELSE out[n - 1]
  BY DEF IsPass
<1>2. out[0] = <<>>
  BY <1>1
<1>3. ASSUME NEW n \in 1 .. Len(text)
      PROVE  out[n] = IF n \in places THEN Append(out[n - 1], text[n]) ELSE out[n - 1]
  <2>1. n \in 0 .. Len(text) /\ n # 0
    OBVIOUS
  <2> QED BY <1>1, <2>1
<1> QED BY <1>2, <1>3

LEMMA PassType ==
  ASSUME NEW S, NEW text \in Seq(S), NEW places, NEW out, IsPass(out, text, places, Len(text)),
         NEW n \in 0 .. Len(text)
  PROVE  out[n] \in Seq(S) /\ Len(out[n]) <= n
<1> DEFINE Bad == {k \in 0 .. Len(text) : ~(out[k] \in Seq(S) /\ Len(out[k]) <= k)}
<1>1. SUFFICES ASSUME Bad # {} PROVE FALSE
  OBVIOUS
<1>2. PICK k \in Bad : \A j \in Bad : k <= j
  <2>1. Bad \subseteq Nat
    OBVIOUS
  <2> HIDE DEF Bad
  <2> QED BY <1>1, <2>1, NatHasLeast
<1>3. /\ out[0] = <<>>
      /\ \A i \in 1 .. Len(text) :
           out[i] = IF i \in places THEN Append(out[i - 1], text[i]) ELSE out[i - 1]
  <2>1. Len(text) \in Nat
    OBVIOUS
  <2> QED BY <2>1, PassStep
<1>4. k # 0
  <2>1. <<>> \in Seq(S) /\ Len(<<>>) = 0 /\ 0 <= 0
    OBVIOUS
  <2>2. ~(out[k] \in Seq(S) /\ Len(out[k]) <= k)
    OBVIOUS
  <2> HIDE DEF Bad
  <2> QED BY <1>3, <2>1, <2>2
<1>5. k - 1 \in 0 .. Len(text) /\ k \in 1 .. Len(text) /\ ~(k <= k - 1)
  BY <1>4
<1>6. out[k - 1] \in Seq(S) /\ Len(out[k - 1]) <= k - 1
  <2>1. k - 1 \notin Bad
    BY <1>2, <1>5
  <2> QED BY <2>1, <1>5
<1>7. text[k] \in S
  BY <1>5
<1>8. out[k] = Append(out[k - 1], text[k]) \/ out[k] = out[k - 1]
  BY <1>3, <1>5
<1>9. out[k] \in Seq(S) /\ Len(out[k]) <= k
  <2> DEFINE before == out[k - 1]
  <2>1. before \in Seq(S) /\ Len(before) \in Nat /\ Len(before) <= k - 1 /\ k \in Nat
    BY <1>5, <1>6
  <2>2. /\ Append(before, text[k]) \in Seq(S)
        /\ Len(Append(before, text[k])) = Len(before) + 1
    BY <1>7, <2>1
  <2>3. CASE out[k] = Append(before, text[k])
    <3> HIDE DEF before
    <3> QED BY <2>1, <2>2, <2>3
  <2>4. CASE out[k] = before
    <3> HIDE DEF before
    <3> QED BY <2>1, <2>4
  <2> QED BY <1>8, <2>3, <2>4
<1> QED BY <1>9

LEMMA KeepingType ==
  ASSUME NEW S, NEW text \in Seq(S), NEW places
  PROVE  Keeping(text, places) \in Seq(S)
<1>1. PICK out : /\ IsPass(out, text, places, Len(text))
                 /\ Keeping(text, places) = out[Len(text)]
  BY KeepingIs
<1>2. out[Len(text)] \in Seq(S)
  BY <1>1, PassType
<1> QED BY <1>1, <1>2

\* A pass that keeps every line gives the text.
LEMMA KeepingAll ==
  ASSUME NEW S, NEW text \in Seq(S), NEW places, DOMAIN text \subseteq places
  PROVE  Keeping(text, places) = text
<1>1. PICK out : /\ IsPass(out, text, places, Len(text))
                 /\ Keeping(text, places) = out[Len(text)]
  BY KeepingIs
<1>0. Len(text) \in Nat
  OBVIOUS
<1> DEFINE Bad == {k \in 0 .. Len(text) : out[k] # SubSeq(text, 1, k)}
<1>2. Bad = {}
  <2>1. SUFFICES ASSUME Bad # {} PROVE FALSE
    OBVIOUS
  <2>2. PICK k \in Bad : \A j \in Bad : k <= j
    <3>1. Bad \subseteq Nat
      OBVIOUS
    <3> HIDE DEF Bad
    <3> QED BY <2>1, <3>1, NatHasLeast
  <2>3. k # 0
    <3>1. out[0] = <<>>
      BY <1>1, <1>0, PassStep
    <3>2. SubSeq(text, 1, 0) = <<>>
      OBVIOUS
    <3> QED BY <3>1, <3>2
  <2>4. k - 1 \in 0 .. Len(text) /\ k \in 1 .. Len(text) /\ ~(k <= k - 1)
    BY <2>3
  <2>5. out[k - 1] = SubSeq(text, 1, k - 1)
    <3>1. k - 1 \notin Bad
      BY <2>2, <2>4
    <3> QED BY <3>1, <2>4
  <2>6. out[k] = Append(out[k - 1], text[k])
    <3>1. k \in places
      BY <2>4
    <3>2. \A i \in 1 .. Len(text) :
            out[i] = IF i \in places THEN Append(out[i - 1], text[i]) ELSE out[i - 1]
      BY <1>0, <1>1, PassStep
    <3> QED BY <2>4, <3>1, <3>2
  <2>7. SubSeq(text, 1, k) = Append(SubSeq(text, 1, k - 1), text[k])
    BY <2>4
  <2> QED BY <2>5, <2>6, <2>7
<1>3. SubSeq(text, 1, Len(text)) = text
  OBVIOUS
<1>4. Len(text) \in 0 .. Len(text)
  OBVIOUS
<1> QED BY <1>1, <1>2, <1>3, <1>4

-----------------------------------------------------------------------------
(***************************************************************************)
(* Hygiene.  Once collapsed, no line is a third blank one in a row.        *)
(***************************************************************************)
LEMMA AppendSpaced ==
  ASSUME NEW S, NEW text \in Seq(S), NEW line \in S, DOMAIN text \subseteq Spaced(text),
         Len(text) >= 2 => \/ ~IsBlank(line)
                           \/ ~IsBlank(text[Len(text)])
                           \/ ~IsBlank(text[Len(text) - 1])
  PROVE  DOMAIN Append(text, line) \subseteq Spaced(Append(text, line))
<1> DEFINE more == Append(text, line)
<1>1. /\ Len(text) \in Nat /\ Len(more) = Len(text) + 1 /\ DOMAIN more = 1 .. Len(text) + 1
      /\ more[Len(text) + 1] = line
      /\ \A i \in 1 .. Len(text) : more[i] = text[i]
  OBVIOUS
<1> HIDE DEF more
<1>2. ASSUME NEW i \in 1 .. Len(text) PROVE i \in Spaced(more)
  <2>1. CASE i <= 2
    BY <1>1, <2>1 DEF Spaced
  <2>2. CASE ~(i <= 2)
    <3>1. PICK k \in i - 2 .. i : ~IsBlank(text[k])
      BY <2>2 DEF Spaced
    <3>2. k \in 1 .. Len(text)
      BY <1>1, <2>2, <3>1
    <3>3. ~IsBlank(more[k])
      BY <1>1, <3>1, <3>2
    <3> QED BY <1>1, <3>1, <3>3 DEF Spaced
  <2> QED BY <2>1, <2>2
<1>3. Len(text) + 1 \in Spaced(more)
  <2>1. CASE Len(text) < 2
    BY <1>1, <2>1 DEF Spaced
  <2>2. CASE Len(text) >= 2
    <3>1. \E k \in Len(text) - 1 .. Len(text) + 1 : ~IsBlank(more[k])
      <4>1. /\ Len(text) \in 1 .. Len(text) /\ Len(text) - 1 \in 1 .. Len(text)
            /\ Len(text) - 1 \in Len(text) - 1 .. Len(text) + 1
            /\ Len(text) \in Len(text) - 1 .. Len(text) + 1
            /\ Len(text) + 1 \in Len(text) - 1 .. Len(text) + 1
        BY <1>1, <2>2
      <4>2. /\ more[Len(text)] = text[Len(text)]
            /\ more[Len(text) - 1] = text[Len(text) - 1]
        BY <1>1, <4>1
      <4> QED BY <1>1, <2>2, <4>1, <4>2
    <3>2. (Len(text) + 1) - 2 = Len(text) - 1
      BY <1>1
    <3> QED BY <1>1, <3>1, <3>2 DEF Spaced
  <2> QED BY <1>1, <2>1, <2>2
<1>4. \A i \in DOMAIN more : i \in 1 .. Len(text) \/ i = Len(text) + 1
  BY <1>1
<1> QED BY <1>2, <1>3, <1>4 DEF more

LEMMA CollapseSpaced ==
  ASSUME NEW S, NEW text \in Seq(S)
  PROVE  DOMAIN Collapse(text) \subseteq Spaced(Collapse(text))
<1> DEFINE P == Spaced(text)
<1>1. PICK out : IsPass(out, text, P, Len(text)) /\ Keeping(text, P) = out[Len(text)]
  BY KeepingIs
<1>2. Len(text) \in Nat /\ DOMAIN text = 1 .. Len(text)
  OBVIOUS
<1>3. out[0] = <<>>
  BY <1>1, <1>2, PassStep
<1>4. ASSUME NEW n \in 1 .. Len(text), n \in P PROVE out[n] = Append(out[n - 1], text[n])
  <2>1. \A i \in 1 .. Len(text) :
          out[i] = IF i \in P THEN Append(out[i - 1], text[i]) ELSE out[i - 1]
    BY <1>1, <1>2, PassStep
  <2> QED BY <1>4, <2>1
<1>5. ASSUME NEW n \in 1 .. Len(text), n \notin P PROVE out[n] = out[n - 1]
  <2>1. \A i \in 1 .. Len(text) :
          out[i] = IF i \in P THEN Append(out[i - 1], text[i]) ELSE out[i - 1]
    BY <1>1, <1>2, PassStep
  <2> QED BY <1>5, <2>1
<1>6. \A n \in 0 .. Len(text) : out[n] \in Seq(S) /\ Len(out[n]) <= n
  BY <1>1, PassType
<1>7. \A n \in 1 .. Len(text) :
        n \in P <=> (n <= 2 \/ \E k \in n - 2 .. n : ~IsBlank(text[k]))
  BY <1>2 DEF Spaced
<1> HIDE DEF P
<1> DEFINE Bad == {k \in 0 .. Len(text) : ~(DOMAIN out[k] \subseteq Spaced(out[k]))}
<1>8. Bad = {}
  <2>1. SUFFICES ASSUME Bad # {} PROVE FALSE
    OBVIOUS
  <2>2. PICK k \in Bad : \A j \in Bad : k <= j
    <3>1. Bad \subseteq Nat
      OBVIOUS
    <3> HIDE DEF Bad
    <3> QED BY <2>1, <3>1, NatHasLeast
  <2>3. k # 0
    BY <1>3
  <2>4. k - 1 \in 0 .. Len(text) /\ k \in 1 .. Len(text) /\ ~(k <= k - 1)
    BY <1>2, <2>3
  <2>5. DOMAIN out[k - 1] \subseteq Spaced(out[k - 1])
    <3>1. k - 1 \notin Bad
      BY <2>2, <2>4
    <3> QED BY <3>1, <2>4
  <2>6. CASE k \notin P
    BY <1>5, <2>4, <2>5, <2>6
  <2>7. CASE k \in P
    <3> DEFINE c == out[k - 1]
    <3>1. c \in Seq(S) /\ Len(c) \in Nat /\ Len(c) <= k - 1 /\ text[k] \in S /\ k \in Nat
      BY <1>2, <1>6, <2>4
    <3>2. ASSUME Len(c) >= 2
          PROVE  \/ ~IsBlank(text[k])
                 \/ ~IsBlank(c[Len(c)])
                 \/ ~IsBlank(c[Len(c) - 1])
      <4>1. k > 2
        BY <3>1, <3>2
      <4>2. PICK j \in k - 2 .. k : ~IsBlank(text[j])
        BY <1>7, <2>4, <2>7, <4>1
      <4>3. k - 1 \in 1 .. Len(text) /\ k - 2 \in 1 .. Len(text)
            /\ k - 1 \in (k - 1) - 2 .. k - 1 /\ k - 2 \in (k - 1) - 2 .. k - 1
            /\ k - 2 \in (k - 2) - 2 .. k - 2
            /\ (k - 1) - 1 = k - 2 /\ k - 3 = (k - 2) - 1 /\ k - 3 \in 0 .. Len(text)
            /\ k - 2 \in 0 .. Len(text)
        BY <1>2, <2>4, <4>1
      <4>4. CASE j = k
        BY <4>2, <4>4
      <4>5. CASE j = k - 1
        <5>1. k - 1 \in P
          BY <1>7, <4>2, <4>3, <4>5
        <5>2. c = Append(out[k - 2], text[k - 1])
          BY <1>4, <4>3, <5>1
        <5>3. out[k - 2] \in Seq(S) /\ text[k - 1] \in S
          BY <1>2, <1>6, <4>3
        <5>4. c[Len(c)] = text[k - 1]
          <6> HIDE DEF c
          <6> QED BY <5>2, <5>3
        <5> QED BY <4>2, <4>5, <5>4
      <4>6. CASE j = k - 2
        <5>1. k - 1 \in P /\ k - 2 \in P
          BY <1>7, <4>2, <4>3, <4>6
        <5>2. c = Append(out[k - 2], text[k - 1]) /\ out[k - 2] = Append(out[k - 3], text[k - 2])
          BY <1>4, <4>3, <5>1
        <5>3. out[k - 3] \in Seq(S) /\ text[k - 2] \in S /\ text[k - 1] \in S
          BY <1>2, <1>6, <4>3
        <5>4. c[Len(c) - 1] = text[k - 2]
          <6> HIDE DEF c
          <6> QED BY <5>2, <5>3
        <5> QED BY <4>2, <4>6, <5>4
      <4> QED BY <2>4, <4>2, <4>4, <4>5, <4>6
    <3>3. out[k] = Append(c, text[k])
      BY <1>4, <2>4, <2>7
    <3>4. DOMAIN c \subseteq Spaced(c)
      BY <2>5
    <3> HIDE DEF c
    <3>5. DOMAIN Append(c, text[k]) \subseteq Spaced(Append(c, text[k]))
      BY <3>1, <3>2, <3>4, AppendSpaced
    <3> QED BY <3>3, <3>5
  <2> QED BY <2>6, <2>7
<1>9. Len(text) \in 0 .. Len(text)
  BY <1>2
<1> QED BY <1>1, <1>8, <1>9 DEF Collapse, P

Smoothed == {line \in Lines : line.rough = FALSE}

LEMMA SmoothType ==
  ASSUME NEW text \in Seq(Lines)
  PROVE  Smooth(text) \in Seq(Smoothed)
<1> DEFINE smooth(i) == Line(text[i].heading, text[i].words, FALSE)
<1>1. ASSUME NEW i \in 1 .. Len(text) PROVE smooth(i) \in Smoothed
  <2>1. text[i] \in Lines
    OBVIOUS
  <2> QED BY <2>1 DEF Line, Lines, Smoothed
<1>2. Len(text) \in Nat
  OBVIOUS
<1>3. Smooth(text) = [i \in 1 .. Len(text) |-> smooth(i)]
  BY DEF Smooth
<1> HIDE DEF smooth
<1>4. [i \in 1 .. Len(text) |-> smooth(i)] \in Seq(Smoothed)
  BY <1>1, <1>2
<1> QED BY <1>3, <1>4

LEMMA HygieneType ==
  ASSUME NEW text \in Seq(Lines)
  PROVE  Hygiene(text) \in Seq(Smoothed)
BY SmoothType, KeepingType DEF Hygiene, Collapse

\* Hygiene changes nothing in what it has made.
LEMMA HygieneOnce ==
  ASSUME NEW text \in Seq(Lines)
  PROVE  Hygiene(Hygiene(text)) = Hygiene(text)
<1> DEFINE md == Hygiene(text)
<1>1. md \in Seq(Smoothed)
  BY HygieneType
<1>2. DOMAIN md \subseteq Spaced(md)
  BY SmoothType, CollapseSpaced DEF Hygiene
<1> HIDE DEF md
<1>3. Smooth(md) = md
  <2>1. Len(md) \in Nat /\ DOMAIN md = 1 .. Len(md) /\ md = [i \in 1 .. Len(md) |-> md[i]]
    BY <1>1
  <2>2. ASSUME NEW i \in 1 .. Len(md)
        PROVE  Line(md[i].heading, md[i].words, FALSE) = md[i]
    <3>1. md[i] \in Lines /\ md[i].rough = FALSE
      BY <1>1, <2>1 DEF Smoothed
    <3> QED BY <3>1 DEF Line, Lines
  <2> QED BY <2>1, <2>2 DEF Smooth
<1>4. Collapse(md) = md
  BY <1>1, <1>2, KeepingAll DEF Collapse
<1> QED BY <1>3, <1>4 DEF Hygiene, md

-----------------------------------------------------------------------------
(***************************************************************************)
(* Words and tokens.                                                       *)
(***************************************************************************)
IsFlat(flat, seqs, N) ==
  flat = [i \in 1 .. N |-> IF i = 1 THEN seqs[i] ELSE flat[i - 1] \o seqs[i]]

LEMMA FlatExists ==
  ASSUME NEW seqs, NEW N \in Nat
  PROVE  \E flat : IsFlat(flat, seqs, N)
<1> DEFINE Bad == {k \in Nat : ~ \E flat : IsFlat(flat, seqs, k)}
<1>1. SUFFICES ASSUME Bad # {} PROVE FALSE
  OBVIOUS
<1>2. PICK k \in Bad : \A j \in Bad : k <= j
  BY <1>1, NatHasLeast
<1>3. k # 0
  <2>1. IsFlat([i \in 1 .. 0 |-> <<>>], seqs, 0)
    BY DEF IsFlat
  <2> QED BY <2>1
<1>4. PICK flat : IsFlat(flat, seqs, k - 1)
  <2>1. k - 1 \in Nat /\ ~(k <= k - 1)
    BY <1>3
  <2>2. k - 1 \notin Bad
    BY <1>2, <2>1
  <2> QED BY <2>1, <2>2
<1> DEFINE more == [i \in 1 .. k |-> IF i = 1 THEN seqs[i] ELSE flat[i - 1] \o seqs[i]]
<1>5. ASSUME NEW i \in 1 .. k - 1 PROVE more[i] = flat[i]
  <2>1. i \in 1 .. k
    BY <1>3
  <2>2. more[i] = (IF i = 1 THEN seqs[i] ELSE flat[i - 1] \o seqs[i])
    BY <2>1
  <2>3. flat[i] = (IF i = 1 THEN seqs[i] ELSE flat[i - 1] \o seqs[i])
    BY <1>4 DEF IsFlat
  <2> QED BY <2>2, <2>3
<1>6. IsFlat(more, seqs, k)
  <2>1. ASSUME NEW i \in 1 .. k, i # 1 PROVE more[i - 1] = flat[i - 1]
    <3>1. i - 1 \in 1 .. k - 1
      BY <2>1
    <3> QED BY <3>1, <1>5
  <2> QED BY <2>1 DEF IsFlat
<1> QED BY <1>2, <1>6

LEMMA FlattenIs ==
  ASSUME NEW seqs, Len(seqs) \in Nat, Len(seqs) # 0
  PROVE  \E flat : IsFlat(flat, seqs, Len(seqs)) /\ FlattenSeq(seqs) = flat[Len(seqs)]
<1> DEFINE flatten[i \in 1 .. Len(seqs)] ==
             IF i = 1 THEN seqs[i] ELSE flatten[i - 1] \o seqs[i]
<1>1. IsFlat(flatten, seqs, Len(seqs))
  <2>1. \E f : f = [i \in 1 .. Len(seqs) |-> IF i = 1 THEN seqs[i] ELSE f[i - 1] \o seqs[i]]
    <3>1. \E f : IsFlat(f, seqs, Len(seqs))
      BY FlatExists
    <3> QED BY <3>1, Zenon DEF IsFlat
  <2>2. flatten = [i \in 1 .. Len(seqs) |->
                     IF i = 1 THEN seqs[i] ELSE flatten[i - 1] \o seqs[i]]
    BY <2>1, Zenon
  <2> HIDE DEF flatten
  <2> QED BY <2>2 DEF IsFlat
<1>2. FlattenSeq(seqs) = flatten[Len(seqs)]
  BY Zenon DEF FlattenSeq
<1> HIDE DEF flatten
<1> QED BY <1>1, <1>2

LEMMA FlattenType ==
  ASSUME NEW S, NEW seqs \in Seq(Seq(S))
  PROVE  FlattenSeq(seqs) \in Seq(S)
<1>1. Len(seqs) \in Nat
  OBVIOUS
<1>2. CASE Len(seqs) = 0
  <2>1. FlattenSeq(seqs) = <<>>
    BY <1>2 DEF FlattenSeq
  <2> QED BY <2>1
<1>3. CASE Len(seqs) # 0
  <2>1. PICK flat : IsFlat(flat, seqs, Len(seqs)) /\ FlattenSeq(seqs) = flat[Len(seqs)]
    BY <1>1, <1>3, FlattenIs
  <2>2. ASSUME NEW i \in 1 .. Len(seqs)
        PROVE  flat[i] = IF i = 1 THEN seqs[i] ELSE flat[i - 1] \o seqs[i]
    BY <2>1 DEF IsFlat
  <2> DEFINE Bad == {k \in 1 .. Len(seqs) : flat[k] \notin Seq(S)}
  <2>3. Bad = {}
    <3>1. SUFFICES ASSUME Bad # {} PROVE FALSE
      OBVIOUS
    <3>2. PICK k \in Bad : \A j \in Bad : k <= j
      <4>1. Bad \subseteq Nat
        OBVIOUS
      <4> HIDE DEF Bad
      <4> QED BY <3>1, <4>1, NatHasLeast
    <3>3. seqs[k] \in Seq(S)
      OBVIOUS
    <3>4. CASE k = 1
      BY <2>2, <3>3, <3>4
    <3>5. CASE k # 1
      <4>1. k - 1 \in 1 .. Len(seqs) /\ ~(k <= k - 1)
        BY <1>1, <3>5
      <4>2. k - 1 \notin Bad
        BY <3>2, <4>1
      <4>3. flat[k - 1] \in Seq(S)
        BY <4>1, <4>2
      <4>4. flat[k] = flat[k - 1] \o seqs[k]
        BY <2>2, <3>5
      <4>5. \A a, b \in Seq(S) : a \o b \in Seq(S)
        OBVIOUS
      <4>6. flat[k] \notin Seq(S)
        OBVIOUS
      <4> HIDE DEF Bad
      <4> QED BY <3>3, <4>3, <4>4, <4>5, <4>6
    <3> QED BY <3>4, <3>5
  <2>4. Len(seqs) \in 1 .. Len(seqs)
    BY <1>1, <1>3
  <2> QED BY <2>1, <2>3, <2>4
<1> QED BY <1>2, <1>3

LEMMA WordsType ==
  ASSUME NEW text \in Seq(Lines)
  PROVE  WordsOf(text) \in Seq(DOMAIN LowerOf)
<1> DEFINE W == DOMAIN LowerOf
           words(i) == text[i].words
<1>1. ASSUME NEW i \in 1 .. Len(text) PROVE words(i) \in Seq(W)
  <2>1. text[i] \in Lines
    OBVIOUS
  <2> QED BY <2>1 DEF Lines
<1>2. Len(text) \in Nat
  OBVIOUS
<1>3. WordsOf(text) = FlattenSeq([i \in 1 .. Len(text) |-> words(i)])
  BY DEF WordsOf
<1> HIDE DEF W, words
<1>4. [i \in 1 .. Len(text) |-> words(i)] \in Seq(Seq(W))
  BY <1>1, <1>2
<1>5. FlattenSeq([i \in 1 .. Len(text) |-> words(i)]) \in Seq(W)
  BY <1>4, FlattenType
<1> QED BY <1>3, <1>5 DEF W

\* What the tokenizers see of a text are lower-case words of two letters or more.
LEMMA TokensType ==
  ASSUME NEW text \in Seq(Lines), NEW t \in TokensOf(text)
  PROVE  t \notin Short /\ t \in {LowerOf[w] : w \in DOMAIN LowerOf}
<1> DEFINE words == WordsOf(text)
<1>1. words \in Seq(DOMAIN LowerOf)
  BY WordsType
<1>2. PICK w \in ToSet(words) : t = LowerOf[w] /\ t \notin Short
  BY DEF TokensOf
<1> HIDE DEF words
<1>3. w \in DOMAIN LowerOf
  BY <1>1, <1>2 DEF ToSet
<1> QED BY <1>2, <1>3

\* The adapters make texts, whatever the format.
LEMMA ExtractType ==
  ASSUME NEW file \in Files
  PROVE  Extract(file) \in Seq(Lines)
<1>1. file.body \in Seq(Lines)
  BY IngestAssumption
<1>2. Title \in Seq(Lines)
  <2>1. <<ResumeWord>> \in Seq(DOMAIN LowerOf)
    BY TextAssumption
  <2>2. Line(TRUE, <<ResumeWord>>, FALSE) \in Lines
    BY <2>1 DEF Line, Lines
  <2>3. Blank \in Lines
    BY DEF Blank, Line, Lines
  <2>4. \A a, b \in Lines : <<a, b>> \in Seq(Lines)
    OBVIOUS
  <2> QED BY <2>2, <2>3, <2>4 DEF Title
<1>3. CASE Format(file) = "md"
  BY <1>1, <1>3 DEF Extract
<1>4. CASE Format(file) = "txt"
  BY <1>1, <1>2, <1>4 DEF Extract
<1>5. CASE Format(file) = "pdf"
  <2>1. Line(FALSE, WordsOf(file.body), TRUE) \in Lines
    BY <1>1, WordsType DEF Line, Lines
  <2>2. Extract(file) = Append(Title, Line(FALSE, WordsOf(file.body), TRUE))
    BY <1>5 DEF Extract
  <2>3. \A text \in Seq(Lines), line \in Lines : Append(text, line) \in Seq(Lines)
    OBVIOUS
  <2> QED BY <1>2, <2>1, <2>2, <2>3, Zenon
<1>6. CASE Format(file) = "docx"
  <2> DEFINE places == {i \in DOMAIN file.body : file.body[i].words # <<>>}
  <2>1. Keeping(file.body, places) \in Seq(Lines)
    BY <1>1, KeepingType
  <2>2. Extract(file) = Title \o Keeping(file.body, places)
    BY <1>6 DEF Extract
  <2> HIDE DEF places
  <2> QED BY <1>2, <2>1, <2>2
<1> QED BY <1>3, <1>4, <1>5, <1>6 DEF Format

LEMMA IngestedType ==
  ASSUME NEW file \in Files, NEW id
  PROVE  LET r == Ingested(file, id) IN
           /\ r.id = id
           /\ r.md \in Seq(Lines) /\ Hygiene(r.md) = r.md
           /\ r.hash = HashOf(r.md)
<1> DEFINE md == Hygiene(Extract(file))
<1>1. Extract(file) \in Seq(Lines)
  BY ExtractType
<1>2. md \in Seq(Smoothed)
  BY <1>1, HygieneType
<1>3. md \in Seq(Lines)
  BY <1>2 DEF Smoothed
<1>4. Hygiene(md) = md
  BY <1>1, HygieneOnce
<1>5. Ingested(file, id) = [id |-> id, md |-> md, hash |-> HashOf(md),
                            meta |-> [source |-> HashOf(file), method |-> Format(file)]]
  BY DEF Ingested
<1> HIDE DEF md
<1> QED BY <1>3, <1>4, <1>5

-----------------------------------------------------------------------------
(***************************************************************************)
(* Token IRs.                                                              *)
(***************************************************************************)
\* The IRs the command makes.
IRs == {Tokenize(mode, r.md, r.hash) : mode \in Modes,
                                       r \in {Ingested(file, CliId) : file \in Readable}}

LEMMA TokenizedTokens ==
  ASSUME NEW mode \in Modes, NEW text, NEW hash
  PROVE  LET ir == Tokenize(mode, text, hash) IN
           /\ ir.hash = hash /\ ir.spans = <<>>
           /\ AllTokens(ir) \subseteq TokensOf(text)
<1> DEFINE words == TokensOf(text)
           ir == Tokenize(mode, text, hash)
<1>1. ir = [hash |-> hash, spans |-> <<>>,
            tokens |-> IF mode = "deterministic" THEN Lexical(text) ELSE Inferred(text)]
  BY DEF Tokenize
<1>2. \A c \in DOMAIN Lexical(text) : Lexical(text)[c] \subseteq words
  BY DEF Lexical
<1>3. \A c \in DOMAIN Inferred(text) : Inferred(text)[c] \subseteq words
  <2> DEFINE all == [skills |-> words \cap Skills,
                     domains |-> (words \cap Domains) \ Skills,
                     roles |-> (words \cap Roles) \ (Skills \cup Domains),
                     entities |-> words \ (Skills \cup Domains \cup Roles)]
  <2>1. \A c \in DOMAIN all : all[c] \subseteq words
    OBVIOUS
  <2>2. Inferred(text) = [c \in {c \in DOMAIN all : all[c] # {}} |-> all[c]]
    BY DEF Inferred
  <2> HIDE DEF all
  <2> QED BY <2>1, <2>2
<1>4. \A c \in DOMAIN ir.tokens : ir.tokens[c] \subseteq words
  <2> HIDE DEF ir, words
  <2> QED BY <1>1, <1>2, <1>3
<1> HIDE DEF ir, words
<1>5. AllTokens(ir) \subseteq words
  BY <1>4 DEF AllTokens
<1> QED BY <1>1, <1>5 DEF ir, words

\* An IR breaks TOK-001 for every text but its own, and nothing but the
\* thresholds of TOK-005, which only warns, for its own.
LEMMA IRsBreak ==
  ASSUME NEW ir \in IRs, NEW text \in Seq(Lines)
  PROVE  LET broken == Broken(ir, text, HashOf(text))
         IN  "TOK-001" \in broken \/ broken \subseteq {"TOK-005"}
<1>1. PICK mode \in Modes, file \in Readable :
        ir = Tokenize(mode, Ingested(file, CliId).md, Ingested(file, CliId).hash)
  BY DEF IRs
<1> DEFINE md == Ingested(file, CliId).md
<1>2. file \in Files
  BY DEF Readable
<1>3. md \in Seq(Lines) /\ Ingested(file, CliId).hash = HashOf(md)
  BY <1>2, IngestedType
<1> HIDE DEF md
<1>4. ir.hash = HashOf(md) /\ ir.spans = <<>> /\ AllTokens(ir) \subseteq TokensOf(md)
  BY <1>1, <1>3, TokenizedTokens DEF md
<1>5. CASE text # md
  <2>1. HashOf(md) # HashOf(text)
    BY <1>5 DEF HashOf
  <2>2. Tok001(ir, HashOf(text))
    BY <1>4, <2>1 DEF Tok001
  <2> QED BY <2>2 DEF Broken
<1>6. CASE text = md
  <2>1. ~Tok001(ir, HashOf(text))
    BY <1>4, <1>6 DEF Tok001
  <2>2. ~Tok002(ir)
    BY <1>3, <1>4, TokensType DEF Tok002
  <2>3. ~Tok003(ir, text)
    BY <1>4 DEF Tok003
  <2>4. ~Tok004(ir, text)
    BY <1>4, <1>6 DEF Tok004
  <2> QED BY <2>1, <2>2, <2>3, <2>4 DEF Broken
<1> QED BY <1>5, <1>6

-----------------------------------------------------------------------------
(***************************************************************************)
(* The inductive invariant.  What is true of the database on disk is true  *)
(* of the server's open transaction too, and of what the ingestion and the *)
(* tokenization under way are about to write.                              *)
(***************************************************************************)
Whole(db) ==
  /\ DOMAIN db.metas = DOMAIN db.resumes
  /\ \A id \in DOMAIN db.resumes : \E file \in Readable :
       /\ db.resumes[id] = [md |-> Ingested(file, id).md, hash |-> Ingested(file, id).hash]
       /\ db.metas[id] = Ingested(file, id).meta
  /\ \A i, j \in DOMAIN db.resumes : db.resumes[i].hash = db.resumes[j].hash => i = j

Bound(db) ==
  \A key \in DOMAIN db.irs : key[1] \in DOMAIN db.resumes /\ db.irs[key] \in IRs

StoreInv(db) == IsDatabase(db) /\ Whole(db) /\ Bound(db)

StoresInv ==
  /\ StoreInv(disk)
  /\ Open => StoreInv(mine)

\* A COMMIT that failed has cost one of the faults.
BoundsInv ==
  /\ begun \in 0 .. MaxRuns /\ faults \in 0 .. MaxFaults
  /\ Open => stuck
  /\ stuck => faults # MaxFaults

JobInv ==
  /\ job.phase \in {"Idle", "Started", "Read", "Stored"}
  /\ job.phase # "Idle" => job.run \in 1 .. begun
  /\ job.phase = "Started" => job.file \in Files
  /\ job.phase \in {"Read", "Stored"} =>
       \E file \in Readable : job.resume = Ingested(file, job.run)

CliInv ==
  /\ cli.phase \in {"Idle", "Read"}
  /\ cli.phase = "Read" => /\ cli.id \in DOMAIN disk.resumes /\ cli.mode \in Modes
                           /\ Open => cli.id \in DOMAIN mine.resumes
                           /\ cli.ir \in IRs

ToldInv == \A a \in told : a.run \in 1 .. begun /\ a.id \in Ids \cup {NoResume.id}

KeptInv ==
  /\ Hashes(disk) \subseteq kept
  /\ job.phase = "Stored" /\ job.persist /\ faults = MaxFaults => job.resume.hash \in kept

IngestInv ==
  /\ StoresInv /\ BoundsInv /\ JobInv /\ CliInv /\ ToldInv /\ KeptInv
  /\ AnsweredWasStored /\ AnswersAreOnRecord

LEMMA InitIngestInv == Init => IngestInv
<1> SUFFICES ASSUME Init PROVE IngestInv
  OBVIOUS
<1>1. /\ disk = [resumes |-> <<>>, metas |-> <<>>, irs |-> <<>>, log |-> {}]
      /\ ~Open /\ job.phase = "Idle" /\ cli.phase = "Idle" /\ told = {} /\ kept = {}
      /\ stuck = FALSE /\ begun = 0 /\ faults = MaxFaults
  BY DEF Init, Open, NoJob
<1>2. StoresInv
  <2>1. DOMAIN <<>> = {}
    OBVIOUS
  <2> QED BY <1>1, <2>1 DEF StoresInv, StoreInv, IsDatabase, Whole, Bound
<1>3. BoundsInv /\ JobInv /\ CliInv /\ ToldInv
  BY <1>1, IngestAssumption DEF BoundsInv, JobInv, CliInv, ToldInv
<1>4. KeptInv /\ AnsweredWasStored /\ AnswersAreOnRecord
  <2>1. DOMAIN disk.resumes = {}
    BY <1>1
  <2> QED BY <1>1, <2>1 DEF KeptInv, Hashes, AnsweredWasStored, AnswersAreOnRecord
<1> QED BY <1>2, <1>3, <1>4 DEF IngestInv

-----------------------------------------------------------------------------
\* What each statement makes of a database that is as it should be.
LEMMA LoggedStore ==
  ASSUME NEW db, StoreInv(db), NEW event \in Events, NEW more,
         more = [resumes |-> db.resumes, metas |-> db.metas, irs |-> db.irs,
                 log |-> db.log \cup {event}]
  PROVE  StoreInv(more) /\ Hashes(more) = Hashes(db)
<1>1. /\ more.resumes = db.resumes /\ more.metas = db.metas /\ more.irs = db.irs
      /\ more.log = db.log \cup {event}
  OBVIOUS
<1>2. StoreInv(more)
  BY <1>1 DEF StoreInv, IsDatabase, Whole, Bound
<1> QED BY <1>1, <1>2 DEF Hashes

LEMMA PutStore ==
  ASSUME NEW db, StoreInv(db), NEW id \in Ids, NEW file \in Readable,
         ~Conflicts(db, Ingested(file, id))
  PROVE  LET more == Put(db, Ingested(file, id)) IN
           /\ StoreInv(more)
           /\ DOMAIN db.resumes \subseteq DOMAIN more.resumes
           /\ more.log = db.log
           /\ Ingested(file, id).hash \in Hashes(more)
<1> DEFINE r == Ingested(file, id)
           more == Put(db, r)
<1>1. r.id = id
  BY DEF Ingested
<1>2. ~Conflicts(db, r)
  OBVIOUS
<1> HIDE DEF r
<1>3. /\ more.resumes = [k \in DOMAIN db.resumes \cup {id} |->
                          IF k = id THEN [md |-> r.md, hash |-> r.hash] ELSE db.resumes[k]]
      /\ more.metas = [k \in DOMAIN db.metas \cup {id} |->
                          IF k = id THEN r.meta ELSE db.metas[k]]
      /\ more.irs = db.irs /\ more.log = db.log
  BY <1>1 DEF Put, PutMeta, PutResume, Upserted, Row
<1> HIDE DEF more
<1>4. IsDatabase(more)
  BY <1>3 DEF StoreInv, IsDatabase
<1>5. Whole(more)
  <2>1. DOMAIN more.metas = DOMAIN more.resumes
    BY <1>3 DEF StoreInv, Whole
  <2>2. ASSUME NEW k \in DOMAIN more.resumes
        PROVE  \E f \in Readable :
                 /\ more.resumes[k] = [md |-> Ingested(f, k).md, hash |-> Ingested(f, k).hash]
                 /\ more.metas[k] = Ingested(f, k).meta
    <3>1. CASE k = id
      BY <1>3, <2>1, <3>1 DEF r
    <3>2. CASE k # id
      <4>1. /\ k \in DOMAIN db.resumes /\ k \in DOMAIN db.metas
            /\ more.resumes[k] = db.resumes[k] /\ more.metas[k] = db.metas[k]
        BY <1>3, <2>1, <3>2 DEF StoreInv, Whole
      <4> QED BY <4>1 DEF StoreInv, Whole
    <3> QED BY <3>1, <3>2
  <2>3. ASSUME NEW i \in DOMAIN more.resumes, NEW j \in DOMAIN more.resumes,
               more.resumes[i].hash = more.resumes[j].hash
        PROVE  i = j
    <3>1. \A k \in DOMAIN db.resumes \ {id} : db.resumes[k].hash # r.hash
      BY <1>1, <1>2 DEF Conflicts
    <3>2. more.resumes[id].hash = r.hash
      BY <1>3
    <3>3. \A k \in DOMAIN more.resumes \ {id} :
            k \in DOMAIN db.resumes /\ more.resumes[k] = db.resumes[k]
      BY <1>3
    <3> QED BY <2>3, <3>1, <3>2, <3>3 DEF StoreInv, Whole
  <2> QED BY <2>1, <2>2, <2>3 DEF Whole
<1>6. Bound(more)
  BY <1>3 DEF StoreInv, Bound
<1>7. r.hash \in Hashes(more)
  <2>1. id \in DOMAIN more.resumes /\ more.resumes[id] = [md |-> r.md, hash |-> r.hash]
    BY <1>3
  <2>2. more.resumes[id].hash = r.hash
    BY <2>1
  <2> QED BY ONLY <2>1, <2>2 DEF Hashes
<1> QED BY <1>3, <1>4, <1>5, <1>6, <1>7 DEF StoreInv, r, more

LEMMA TokenizedStore ==
  ASSUME NEW db, StoreInv(db), NEW id \in DOMAIN db.resumes, NEW mode \in Modes,
         NEW ir \in IRs, NEW more,
         more = [resumes |-> db.resumes, metas |-> db.metas,
                 irs |-> Upserted(db.irs, <<id, mode>>, ir), log |-> db.log]
  PROVE  StoreInv(more) /\ Hashes(more) = Hashes(db)
<1>1. /\ more.resumes = db.resumes /\ more.metas = db.metas /\ more.log = db.log
      /\ more.irs = [k \in DOMAIN db.irs \cup {<<id, mode>>} |->
                       IF k = <<id, mode>> THEN ir ELSE db.irs[k]]
  BY DEF Upserted
<1>2. IsDatabase(more)
  BY <1>1 DEF StoreInv, IsDatabase
<1>3. Bound(more)
  BY <1>1 DEF StoreInv, Bound
<1>4. Whole(more)
  BY <1>1 DEF StoreInv, Whole
<1> QED BY <1>1, <1>2, <1>3, <1>4 DEF StoreInv, Hashes

\* An appended event, in the open transaction or on disk.
LEMMA LogsStores ==
  ASSUME StoresInv, NEW event \in Events, Logs(event)
  PROVE  /\ StoresInv'
         /\ Hashes(disk') = Hashes(disk) /\ disk'.resumes = disk.resumes
         /\ Open' => Open /\ mine'.resumes = mine.resumes
         /\ disk.log \subseteq disk'.log
         /\ ~Open => event \in disk'.log
<1> DEFINE more == [resumes |-> View.resumes, metas |-> View.metas, irs |-> View.irs,
                    log |-> View.log \cup {event}]
<1>1. Writes(more)
  BY DEF Logs
<1>2. StoreInv(View)
  BY DEF StoresInv, View
<1>3. StoreInv(more) /\ Hashes(more) = Hashes(View)
  BY <1>2, LoggedStore
<1>4. more.resumes = View.resumes /\ more.log = View.log \cup {event}
  OBVIOUS
<1> HIDE DEF more
<1>5. CASE Open
  <2>1. mine' = more /\ disk' = disk
    BY <1>1, <1>5 DEF Writes
  <2> QED BY <1>3, <1>4, <1>5, <2>1 DEF StoresInv, View, Open
<1>6. CASE ~Open
  <2>1. disk' = more /\ mine' = mine
    BY <1>1, <1>6 DEF Writes
  <2> QED BY <1>3, <1>4, <1>6, <2>1 DEF StoresInv, View, Open
<1> QED BY <1>5, <1>6

\* A COMMIT that succeeds.
LEMMA CommitsStores ==
  ASSUME NEW db, StoreInv(db), Commits(db)
  PROVE  StoresInv' /\ ~Open' /\ disk' = db /\ Hashes(disk') \subseteq kept' /\ kept \subseteq kept'
BY DEF Commits, StoresInv, Open

LEMMA RollsBackStores ==
  ASSUME StoresInv, disk' = disk, mine' = NoView
  PROVE  StoresInv' /\ ~Open'
BY DEF StoresInv, Open

\* The resume the server is about to store.
LEMMA JobResume ==
  ASSUME IngestInv, job.phase \in {"Read", "Stored"}
  PROVE  /\ job.run \in Ids /\ job.run \in Numbers /\ job.run \in 1 .. begun
         /\ job.resume.id = job.run
         /\ \E file \in Readable : job.resume = Ingested(file, job.run)
<1>1. /\ job.run \in 1 .. begun /\ begun \in 0 .. MaxRuns /\ MaxRuns \in Nat
      /\ \E file \in Readable : job.resume = Ingested(file, job.run)
  BY IngestAssumption DEF IngestInv, JobInv, BoundsInv
<1>2. job.resume.id = job.run
  BY <1>1 DEF Ingested
<1> QED BY <1>1, <1>2 DEF Ids, Numbers

LEMMA ServerPut ==
  ASSUME IngestInv, job.phase = "Read", ~Conflicts(View, job.resume)
  PROVE  LET more == Put(View, job.resume) IN
           /\ StoreInv(more)
           /\ DOMAIN View.resumes \subseteq DOMAIN more.resumes
           /\ more.log = View.log
           /\ job.resume.hash \in Hashes(more)
<1>1. StoreInv(View)
  BY DEF IngestInv, StoresInv, View
<1>2. PICK file \in Readable : job.resume = Ingested(file, job.run)
  BY JobResume
<1>3. job.run \in Ids
  BY JobResume
<1> QED BY <1>1, <1>2, <1>3, PutStore

LEMMA EventTypes ==
  /\ begun \in Nat /\ begun < MaxRuns =>
       /\ Event(begun + 1, "IngestStarted", NoResume.id) \in Events
       /\ Event(begun + 1, "Other", NoResume.id) \in Events
  /\ \A run \in Numbers : Event(run, "IngestCompleted", run) \in Events
BY IngestAssumption DEF Event, Events, Numbers, Ids, NoResume

LEMMA BegunType ==
  ASSUME IngestInv
  PROVE  begun \in Nat /\ faults \in Nat /\ begun <= MaxRuns /\ MaxRuns \in Nat /\ MaxFaults \in Nat
BY IngestAssumption DEF IngestInv, BoundsInv

LEMMA NextStoresInv == IngestInv /\ [Next]_vars => StoresInv'
<1> SUFFICES ASSUME IngestInv, [Next]_vars PROVE StoresInv'
  OBVIOUS
<1> USE DEF IngestInv
<1>1. ASSUME NEW file \in Files, NEW persist \in BOOLEAN, Ingest(file, persist) PROVE StoresInv'
  BY <1>1, LogsStores, EventTypes, BegunType DEF Ingest, Run
<1>2. ASSUME NEW file \in Files, CliIngest(file) PROVE StoresInv'
  <2> DEFINE r == Ingested(file, CliId)
  <2>1. file \in Readable /\ CliId \in Ids /\ ~Conflicts(disk, r) /\ Commits(Put(disk, r))
    BY <1>2 DEF CliIngest, Readable, Ids
  <2>2. StoreInv(Put(disk, r))
    BY <2>1, PutStore DEF StoresInv
  <2> QED BY <2>1, <2>2, CommitsStores
<1>3. CASE Store
  <2>1. StoreInv(Put(View, job.resume)) /\ Commits(Put(View, job.resume))
    BY <1>3, ServerPut DEF Store
  <2> QED BY <2>1, CommitsStores
<1>4. CASE CommitFails
  <2>1. /\ StoreInv(Put(View, job.resume)) /\ mine' = Put(View, job.resume) /\ disk' = disk
    BY <1>4, ServerPut DEF CommitFails
  <2> QED BY <2>1 DEF StoresInv
<1>5. CASE StoreRefused \/ StoreFails \/ ServerStops
  BY <1>5, RollsBackStores DEF StoreRefused, StoreFails, ServerStops, RollsBack
<1>6. CASE Complete
  BY <1>6, LogsStores, EventTypes, JobResume DEF Complete
<1>7. CASE OtherTool
  BY <1>7, LogsStores, EventTypes, BegunType DEF OtherTool, Run
<1>8. CASE TokenizeStore
  <2>1. /\ ~Open /\ cli.id \in DOMAIN disk.resumes /\ cli.mode \in Modes /\ cli.ir \in IRs
        /\ mine' = mine
        /\ disk' = [resumes |-> disk.resumes, metas |-> disk.metas,
                    irs |-> Upserted(disk.irs, <<cli.id, cli.mode>>, cli.ir), log |-> disk.log]
    BY <1>8 DEF TokenizeStore, CliInv
  <2>2. StoreInv(disk')
    BY <2>1, TokenizedStore DEF StoresInv
  <2> QED BY <2>1, <2>2 DEF StoresInv, Open
<1>9. CASE UNCHANGED <<disk, mine>>
  BY <1>9 DEF StoresInv, Open
<1>10. CASE \/ \E file \in Files : CliIngestLost(file)
            \/ ReadFile \/ ReadFileFails \/ AppendFails
            \/ \E id \in Ids, mode \in Modes : TokenizeRead(id, mode)
            \/ TokenizeLost \/ UNCHANGED vars
  BY <1>9, <1>10 DEF CliIngestLost, ReadFile, ReadFileFails, AppendFails, TokenizeRead,
                     TokenizeLost, vars
<1> QED
  BY <1>1, <1>2, <1>3, <1>4, <1>5, <1>6, <1>7, <1>8, <1>10 DEF Next

LEMMA NextBoundsInv == IngestInv /\ [Next]_vars => BoundsInv'
<1> SUFFICES ASSUME IngestInv, [Next]_vars PROVE BoundsInv'
  OBVIOUS
<1> USE BegunType DEF IngestInv, BoundsInv
<1>1. ASSUME NEW file \in Files, NEW persist \in BOOLEAN, Ingest(file, persist) PROVE BoundsInv'
  BY <1>1, LogsStores, EventTypes DEF Ingest, Run
<1>2. ASSUME NEW file \in Files, CliIngest(file) PROVE BoundsInv'
  BY <1>2 DEF CliIngest, Run, Commits, Open
<1>3. CASE Store
  BY <1>3 DEF Store, Commits, Open
<1>4. CASE CommitFails
  BY <1>4 DEF CommitFails, Fault
<1>5. CASE StoreRefused
  BY <1>5 DEF StoreRefused, RollsBack, Open
<1>6. CASE StoreFails \/ ServerStops
  BY <1>6 DEF StoreFails, ServerStops, RollsBack, Open, Fault
<1>7. CASE Complete
  BY <1>7, LogsStores, EventTypes, JobResume DEF Complete
<1>8. CASE OtherTool
  BY <1>8, LogsStores, EventTypes DEF OtherTool, Run
<1>9. ASSUME NEW file \in Files, CliIngestLost(file) PROVE BoundsInv'
  BY <1>9 DEF CliIngestLost, Run, Fault, Open
<1>10. CASE AppendFails \/ TokenizeLost
  BY <1>10 DEF AppendFails, TokenizeLost, Fault, Open
<1>11. ASSUME NEW id \in Ids, NEW mode \in Modes, TokenizeRead(id, mode) PROVE BoundsInv'
  BY <1>11 DEF TokenizeRead, Run, Open
<1>12. CASE ReadFile \/ ReadFileFails \/ TokenizeStore \/ UNCHANGED vars
  BY <1>12 DEF ReadFile, ReadFileFails, TokenizeStore, vars, Open
<1> QED
  BY <1>1, <1>2, <1>3, <1>4, <1>5, <1>6, <1>7, <1>8, <1>9, <1>10, <1>11, <1>12 DEF Next

LEMMA NextJobInv == IngestInv /\ [Next]_vars => JobInv'
<1> SUFFICES ASSUME IngestInv, [Next]_vars PROVE JobInv'
  OBVIOUS
<1> USE BegunType DEF IngestInv
<1>1. ASSUME NEW file \in Files, NEW persist \in BOOLEAN, Ingest(file, persist) PROVE JobInv'
  <2>1. /\ job' = [phase |-> "Started", run |-> begun + 1, file |-> file, persist |-> persist]
        /\ begun' = begun + 1
    BY <1>1 DEF Ingest, Run
  <2>2. begun + 1 \in 1 .. begun'
    BY <2>1
  <2> QED BY <2>1, <2>2 DEF JobInv
<1>2. CASE ReadFile
  <2>1. job.file \in Readable /\ job.run \in 1 .. begun /\ begun' = begun
    BY <1>2 DEF ReadFile, JobInv, Readable
  <2>2. /\ job'.phase \in {"Read", "Stored"} /\ job'.run = job.run
        /\ job'.resume = Ingested(job.file, job.run)
    BY <1>2 DEF ReadFile
  <2> QED BY <2>1, <2>2 DEF JobInv
<1>3. CASE ReadFileFails \/ Complete \/ AppendFails \/ ServerStops
  BY <1>3 DEF ReadFileFails, Complete, AppendFails, ServerStops, NoJob, JobInv
<1>4. CASE Store \/ StoreRefused \/ StoreFails \/ CommitFails
  <2>1. job.phase = "Read" /\ begun' = begun
    BY <1>4 DEF Store, StoreRefused, StoreFails, CommitFails
  <2>2. job'.phase = "Stored" /\ job'.run = job.run /\ job'.resume = job.resume
    BY <1>4 DEF Store, StoreRefused, StoreFails, CommitFails, Stored
  <2> QED BY <2>1, <2>2 DEF JobInv
<1>5. CASE job' = job /\ (begun' = begun \/ begun' = begun + 1)
  <2>1. \A run : run \in 1 .. begun => run \in 1 .. begun'
    BY <1>5
  <2> QED BY <1>5, <2>1 DEF JobInv
<1>6. CASE \/ \E file \in Files : CliIngest(file) \/ CliIngestLost(file)
           \/ OtherTool
           \/ \E id \in Ids, mode \in Modes : TokenizeRead(id, mode)
           \/ TokenizeStore \/ TokenizeLost \/ UNCHANGED vars
  BY <1>5, <1>6 DEF CliIngest, CliIngestLost, OtherTool, TokenizeRead, TokenizeStore,
                    TokenizeLost, Run, vars
<1> QED
  BY <1>1, <1>2, <1>3, <1>4, <1>6 DEF Next

LEMMA NextCliInv == IngestInv /\ [Next]_vars => CliInv'
<1> SUFFICES ASSUME IngestInv, [Next]_vars PROVE CliInv'
  OBVIOUS
<1> USE DEF IngestInv
<1>1. CASE /\ cli' = cli
           /\ DOMAIN disk.resumes \subseteq DOMAIN disk'.resumes
           /\ Open' => \/ Open /\ DOMAIN mine.resumes \subseteq DOMAIN mine'.resumes
                       \/ DOMAIN disk.resumes \subseteq DOMAIN mine'.resumes
  BY <1>1 DEF CliInv
<1>2. ASSUME NEW file \in Files, NEW persist \in BOOLEAN, Ingest(file, persist) PROVE CliInv'
  BY <1>1, <1>2, LogsStores, EventTypes, BegunType DEF Ingest, Run
<1>3. CASE Complete
  BY <1>1, <1>3, LogsStores, EventTypes, JobResume DEF Complete
<1>4. CASE OtherTool
  BY <1>1, <1>4, LogsStores, EventTypes, BegunType DEF OtherTool, Run
<1>5. ASSUME NEW file \in Files, CliIngest(file) PROVE CliInv'
  <2> DEFINE r == Ingested(file, CliId)
  <2>1. /\ file \in Readable /\ CliId \in Ids /\ ~Conflicts(disk, r)
        /\ Commits(Put(disk, r)) /\ cli' = cli
    BY <1>5 DEF CliIngest, Readable, Ids
  <2>2. DOMAIN disk.resumes \subseteq DOMAIN Put(disk, r).resumes
    BY <2>1, PutStore DEF StoresInv
  <2> QED BY <1>1, <2>1, <2>2 DEF Commits, Open
<1>6. CASE Store
  <2>1. /\ DOMAIN View.resumes \subseteq DOMAIN disk'.resumes /\ cli' = cli /\ ~Open'
    BY <1>6, ServerPut DEF Store, Commits, Open
  <2>2. cli.phase = "Read" => cli.id \in DOMAIN View.resumes
    BY DEF CliInv, View
  <2> QED BY <2>1, <2>2 DEF CliInv
<1>7. CASE CommitFails
  <2>1. /\ DOMAIN View.resumes \subseteq DOMAIN mine'.resumes /\ cli' = cli /\ disk' = disk
    BY <1>7, ServerPut DEF CommitFails
  <2>2. cli.phase = "Read" => cli.id \in DOMAIN View.resumes
    BY DEF CliInv, View
  <2> QED BY <2>1, <2>2 DEF CliInv
<1>8. CASE StoreRefused \/ StoreFails \/ ServerStops
  BY <1>1, <1>8 DEF StoreRefused, StoreFails, ServerStops, RollsBack, Open
<1>9. ASSUME NEW id \in Ids, NEW mode \in Modes, TokenizeRead(id, mode) PROVE CliInv'
  <2>1. /\ ~Open /\ disk' = disk /\ mine' = mine /\ id \in DOMAIN disk.resumes
        /\ cli' = [phase |-> "Read", id |-> id, mode |-> mode,
                   ir |-> Tokenize(mode, disk.resumes[id].md, disk.resumes[id].hash)]
    BY <1>9 DEF TokenizeRead
  <2>2. PICK file \in Readable :
          disk.resumes[id] = [md |-> Ingested(file, id).md, hash |-> Ingested(file, id).hash]
    BY <2>1 DEF StoresInv, StoreInv, Whole
  <2>3. /\ disk.resumes[id].md = Ingested(file, CliId).md
        /\ disk.resumes[id].hash = Ingested(file, CliId).hash
    BY <2>2 DEF Ingested
  <2>4. Tokenize(mode, disk.resumes[id].md, disk.resumes[id].hash) \in IRs
    BY <2>3 DEF IRs
  <2> QED BY <2>1, <2>4 DEF CliInv, Open
<1>10. CASE TokenizeStore \/ TokenizeLost
  BY <1>10 DEF TokenizeStore, TokenizeLost, NoJob, CliInv
<1>11. CASE \/ \E file \in Files : CliIngestLost(file)
            \/ ReadFile \/ ReadFileFails \/ AppendFails \/ UNCHANGED vars
  BY <1>1, <1>11 DEF CliIngestLost, ReadFile, ReadFileFails, AppendFails, vars, Open
<1> QED
  BY <1>2, <1>3, <1>4, <1>5, <1>6, <1>7, <1>8, <1>9, <1>10, <1>11 DEF Next

LEMMA NextToldInv == IngestInv /\ [Next]_vars => ToldInv'
<1> SUFFICES ASSUME IngestInv, [Next]_vars PROVE ToldInv'
  OBVIOUS
<1> USE BegunType DEF IngestInv
<1>1. ASSUME NEW run \in Nat, run >= 1, run <= begun', begun' \in Nat, begun <= begun',
             NEW last, NEW resume, resume.id \in Ids \cup {NoResume.id},
             NEW persist, NEW left, Answers(run, last, resume, persist, left)
      PROVE  ToldInv'
  <2>1. \A a \in told' : a \in told \/ (a.run = run /\ a.id = resume.id)
    BY <1>1 DEF Answers
  <2> QED BY <1>1, <2>1 DEF ToldInv
<1>2. NoResume.id \in Ids \cup {NoResume.id} /\ \A file : Ingested(file, CliId).id \in Ids
  BY DEF Ingested, Ids
<1>3. ASSUME NEW file \in Files, CliIngest(file) \/ CliIngestLost(file) PROVE ToldInv'
  <2>1. \/ Answers(begun + 1, "None", Ingested(file, CliId), TRUE, faults)
        \/ Answers(begun + 1, "None", Ingested(file, CliId), TRUE, faults')
    BY <1>3, Zenon DEF CliIngest, CliIngestLost
  <2>2. begun' = begun + 1
    BY <1>3 DEF CliIngest, CliIngestLost, Run
  <2>3. /\ begun + 1 \in Nat /\ begun + 1 >= 1 /\ begun + 1 <= begun' /\ begun' \in Nat
        /\ begun <= begun'
    BY <2>2
  <2> QED BY <1>1, <1>2, <2>1, <2>3
<1>4. CASE Complete
  <2>1. Answers(job.run, "IngestCompleted", job.resume, job.persist, faults) /\ begun' = begun
    BY <1>4 DEF Complete
  <2>2. job.run \in 1 .. begun /\ job.resume.id \in Ids
    BY <1>4, JobResume DEF Complete
  <2> QED BY <1>1, <2>1, <2>2
<1>5. CASE OtherTool
  <2>1. Answers(begun + 1, "Other", NoResume, FALSE, faults) /\ begun' = begun + 1
    BY <1>5 DEF OtherTool, Run
  <2>2. /\ begun + 1 \in Nat /\ begun + 1 >= 1 /\ begun + 1 <= begun' /\ begun' \in Nat
        /\ begun <= begun'
    BY <2>1
  <2> QED BY <1>1, <1>2, <2>1, <2>2
<1>6. CASE told' = told /\ (begun' = begun \/ begun' = begun + 1)
  BY <1>6 DEF ToldInv
<1> QED
  BY <1>3, <1>4, <1>5, <1>6
  DEF Next, Ingest, ReadFile, ReadFileFails, Store, StoreRefused, StoreFails, CommitFails,
      AppendFails, ServerStops, TokenizeRead, TokenizeStore, TokenizeLost, Run, vars

\* A refusal, while nothing has gone wrong, is by a text on disk.
LEMMA RefusedIsKept ==
  ASSUME IngestInv, faults = MaxFaults, NEW resume, Conflicts(View, resume)
  PROVE  ~Open /\ resume.hash \in kept
<1>1. ~Open /\ View = disk
  BY DEF IngestInv, BoundsInv, View
<1> QED BY <1>1 DEF Conflicts, Hashes, IngestInv, KeptInv

LEMMA NextKeptInv == IngestInv /\ [Next]_vars => KeptInv'
<1> SUFFICES ASSUME IngestInv, [Next]_vars PROVE KeptInv'
  OBVIOUS
<1> USE BegunType DEF IngestInv
<1>1. CASE /\ Hashes(disk') \subseteq kept' /\ kept \subseteq kept'
           /\ faults' = MaxFaults => faults = MaxFaults
           /\ job' = job \/ job'.phase # "Stored"
  BY <1>1 DEF KeptInv
<1>2. ASSUME NEW file \in Files, NEW persist \in BOOLEAN, Ingest(file, persist) PROVE KeptInv'
  <2>1. Hashes(disk') = Hashes(disk) /\ kept' = kept /\ job'.phase # "Stored"
    BY <1>2, LogsStores, EventTypes DEF Ingest, Run
  <2> QED BY <2>1 DEF KeptInv
<1>3. CASE Complete
  <2>1. Hashes(disk') = Hashes(disk) /\ kept' = kept /\ job'.phase # "Stored"
    BY <1>3, LogsStores, EventTypes, JobResume DEF Complete, NoJob
  <2> QED BY <2>1 DEF KeptInv
<1>4. CASE OtherTool
  <2>1. Hashes(disk') = Hashes(disk) /\ kept' = kept /\ job' = job /\ faults' = faults
    BY <1>4, LogsStores, EventTypes DEF OtherTool, Run
  <2> QED BY <2>1 DEF KeptInv
<1>5. ASSUME NEW file \in Files, CliIngest(file) PROVE KeptInv'
  BY <1>1, <1>5 DEF CliIngest, Commits
<1>6. CASE ReadFile
  BY <1>6 DEF ReadFile, KeptInv
<1>7. CASE Store
  <2>1. job.resume.hash \in Hashes(Put(View, job.resume))
    BY <1>7, ServerPut DEF Store
  <2> QED BY <1>7, <2>1 DEF Store, Stored, Commits, KeptInv
<1>8. CASE StoreRefused
  <2>1. disk' = disk /\ kept' = kept /\ faults' = faults /\ job'.resume = job.resume
    BY <1>8 DEF StoreRefused, RollsBack, Stored
  <2>2. faults = MaxFaults => job.resume.hash \in kept
    BY <1>8, RefusedIsKept DEF StoreRefused
  <2> QED BY <2>1, <2>2 DEF KeptInv
<1>9. CASE StoreFails \/ CommitFails
  <2>1. disk' = disk /\ kept' = kept /\ faults' # MaxFaults
    BY <1>9 DEF StoreFails, CommitFails, RollsBack, Fault, BoundsInv
  <2> QED BY <2>1 DEF KeptInv
<1>10. CASE ReadFileFails \/ AppendFails \/ ServerStops
  <2>1. disk' = disk /\ kept' = kept /\ job'.phase # "Stored"
    BY <1>10 DEF ReadFileFails, AppendFails, ServerStops, NoJob
  <2> QED BY <2>1 DEF KeptInv
<1>11. ASSUME NEW file \in Files, CliIngestLost(file) PROVE KeptInv'
  <2>1. /\ disk' = disk /\ kept' = kept /\ job' = job
        /\ faults' = MaxFaults => faults = MaxFaults
    BY <1>11 DEF CliIngestLost, Fault, BoundsInv
  <2> QED BY <2>1 DEF KeptInv
<1>12. CASE TokenizeStore
  <2>1. /\ cli.id \in DOMAIN disk.resumes /\ cli.mode \in Modes /\ cli.ir \in IRs
        /\ disk' = [resumes |-> disk.resumes, metas |-> disk.metas,
                    irs |-> Upserted(disk.irs, <<cli.id, cli.mode>>, cli.ir), log |-> disk.log]
        /\ kept' = kept /\ job' = job /\ faults' = faults
    BY <1>12 DEF TokenizeStore, CliInv
  <2>2. Hashes(disk') = Hashes(disk)
    BY <2>1 DEF Hashes
  <2> QED BY <2>1, <2>2 DEF KeptInv
<1>13. CASE TokenizeLost
  <2>1. /\ disk' = disk /\ kept' = kept /\ job' = job
        /\ faults' = MaxFaults => faults = MaxFaults
    BY <1>13 DEF TokenizeLost, Fault, BoundsInv
  <2> QED BY <2>1 DEF KeptInv
<1>14. CASE UNCHANGED vars \/ \E id \in Ids, mode \in Modes : TokenizeRead(id, mode)
  <2>1. disk' = disk /\ kept' = kept /\ job' = job /\ faults' = faults
    BY <1>14 DEF vars, TokenizeRead
  <2> QED BY <2>1 DEF KeptInv
<1> QED
  BY <1>2, <1>3, <1>4, <1>5, <1>6, <1>7, <1>8, <1>9, <1>10, <1>11, <1>12, <1>13, <1>14 DEF Next

LEMMA NextAnswered == IngestInv /\ [Next]_vars => AnsweredWasStored'
<1> SUFFICES ASSUME IngestInv, [Next]_vars PROVE AnsweredWasStored'
  OBVIOUS
<1> USE BegunType DEF IngestInv
<1>1. kept \subseteq kept'
  BY DEF Next, Ingest, ReadFile, ReadFileFails, Store, StoreRefused, StoreFails, CommitFails,
         Complete, AppendFails, OtherTool, ServerStops, CliIngest, CliIngestLost, TokenizeRead,
         TokenizeStore, TokenizeLost, Commits, RollsBack, vars
<1>2. ASSUME NEW run, NEW last, NEW resume, NEW persist, NEW left,
             Answers(run, last, resume, persist, left),
             left = MaxFaults /\ persist => resume.hash \in kept'
      PROVE  AnsweredWasStored'
  <2>1. \A a \in told' : \/ a \in told
                        \/ /\ a.hash = resume.hash /\ a.persist = persist
                           /\ a.clean => left = MaxFaults
    <3> DEFINE answer == [run |-> run, last |-> last, id |-> resume.id, hash |-> resume.hash,
                          persist |-> persist, clean |-> left = MaxFaults]
    <3>1. told' = told \cup {answer}
      BY <1>2 DEF Answers
    <3>2. answer.hash = resume.hash /\ answer.persist = persist
      OBVIOUS
    <3>3. answer.clean => left = MaxFaults
      BY Zenon
    <3> HIDE DEF answer
    <3> QED BY <3>1, <3>2, <3>3
  <2> QED BY <1>1, <1>2, <2>1 DEF AnsweredWasStored
<1>3. ASSUME NEW file \in Files, CliIngest(file) PROVE AnsweredWasStored'
  <2> DEFINE r == Ingested(file, CliId)
  <2>1. /\ file \in Readable /\ CliId \in Ids /\ ~Conflicts(disk, r)
        /\ Commits(Put(disk, r)) /\ Answers(begun + 1, "None", r, TRUE, faults)
    BY <1>3 DEF CliIngest, Readable, Ids
  <2>2. r.hash \in Hashes(Put(disk, r))
    BY <2>1, PutStore DEF StoresInv
  <2>3. r.hash \in kept'
    BY <2>1, <2>2 DEF Commits
  <2> HIDE DEF r
  <2> QED BY <1>2, <2>1, <2>3
<1>4. ASSUME NEW file \in Files, CliIngestLost(file) PROVE AnsweredWasStored'
  <2> DEFINE r == Ingested(file, CliId)
  <2>1. Answers(begun + 1, "None", r, TRUE, faults') /\ kept' = kept
    BY <1>4, Zenon DEF CliIngestLost
  <2>2. ASSUME faults' = MaxFaults PROVE r.hash \in kept
    <3>1. faults = MaxFaults /\ (Open \/ Conflicts(disk, r))
      BY <1>4, <2>2 DEF CliIngestLost, Fault, BoundsInv
    <3>2. Conflicts(View, r)
      BY <3>1 DEF BoundsInv, View
    <3> HIDE DEF r
    <3> QED BY <3>1, <3>2, RefusedIsKept
  <2> HIDE DEF r
  <2> QED BY <1>2, <2>1, <2>2
<1>5. CASE Complete
  <2>1. /\ Answers(job.run, "IngestCompleted", job.resume, job.persist, faults)
        /\ job.phase = "Stored" /\ kept' = kept
    BY <1>5 DEF Complete
  <2> QED BY <1>2, <2>1 DEF KeptInv
<1>6. CASE OtherTool
  <2>1. Answers(begun + 1, "Other", NoResume, FALSE, faults)
    BY <1>6 DEF OtherTool
  <2> QED BY <1>2, <2>1
<1>7. CASE told' = told
  BY <1>1, <1>7 DEF AnsweredWasStored
<1> QED
  BY <1>3, <1>4, <1>5, <1>6, <1>7
  DEF Next, Ingest, ReadFile, ReadFileFails, Store, StoreRefused, StoreFails, CommitFails,
      AppendFails, ServerStops, TokenizeRead, TokenizeStore, TokenizeLost, vars

LEMMA NextOnRecord == IngestInv /\ [Next]_vars => AnswersAreOnRecord'
<1> SUFFICES ASSUME IngestInv, [Next]_vars, ~stuck' PROVE AnswersAreOnRecord'
  BY DEF AnswersAreOnRecord
<1> USE BegunType DEF IngestInv
<1>0. ~CommitFails
  BY DEF CommitFails
<1>1. ~stuck
  BY <1>0 DEF Next, Ingest, ReadFile, ReadFileFails, Store, StoreRefused, StoreFails,
         Complete, AppendFails, OtherTool, ServerStops, CliIngest, CliIngestLost, TokenizeRead,
         TokenizeStore, TokenizeLost, vars
<1>2. ~Open /\ View = disk
  BY <1>1 DEF BoundsInv, View
<1>3. CASE disk.log \subseteq disk'.log /\ \A a \in told' : a \in told \/ a.last = "None"
  BY <1>1, <1>3 DEF AnswersAreOnRecord
<1>4. ASSUME NEW run, NEW last, NEW resume, NEW persist,
             Answers(run, last, resume, persist, faults), disk.log \subseteq disk'.log,
             Event(run, last, resume.id) \in disk'.log
      PROVE  AnswersAreOnRecord'
  <2>1. \A a \in told' : a \in told \/ (a.run = run /\ a.last = last /\ a.id = resume.id)
    BY <1>4 DEF Answers
  <2> QED BY <1>1, <1>4, <2>1 DEF AnswersAreOnRecord
<1>5. ASSUME NEW file \in Files, NEW persist \in BOOLEAN, Ingest(file, persist)
      PROVE  AnswersAreOnRecord'
  <2>1. disk.log \subseteq disk'.log /\ told' = told
    BY <1>5, LogsStores, EventTypes DEF Ingest, Run
  <2> QED BY <1>3, <2>1
<1>6. CASE Complete
  <2>1. /\ Answers(job.run, "IngestCompleted", job.resume, job.persist, faults)
        /\ job.resume.id = job.run /\ job.run \in Numbers
        /\ Logs(Event(job.run, "IngestCompleted", job.resume.id))
    BY <1>6, JobResume DEF Complete
  <2>2. /\ disk.log \subseteq disk'.log
        /\ Event(job.run, "IngestCompleted", job.resume.id) \in disk'.log
    BY <1>2, <2>1, LogsStores, EventTypes
  <2> QED BY <1>4, <2>1, <2>2
<1>7. CASE OtherTool
  <2>1. /\ Answers(begun + 1, "Other", NoResume, FALSE, faults)
        /\ Logs(Event(begun + 1, "Other", NoResume.id)) /\ begun < MaxRuns
    BY <1>7 DEF OtherTool, Run
  <2>2. /\ disk.log \subseteq disk'.log
        /\ Event(begun + 1, "Other", NoResume.id) \in disk'.log
    BY <1>2, <2>1, LogsStores, EventTypes
  <2> QED BY <1>4, <2>1, <2>2
<1>8. ASSUME NEW file \in Files, CliIngest(file) PROVE AnswersAreOnRecord'
  <2> DEFINE r == Ingested(file, CliId)
  <2>1. /\ file \in Readable /\ CliId \in Ids /\ ~Conflicts(disk, r)
        /\ Commits(Put(disk, r)) /\ Answers(begun + 1, "None", r, TRUE, faults)
    BY <1>8 DEF CliIngest, Readable, Ids
  <2>2. disk'.log = disk.log
    BY <2>1, PutStore DEF StoresInv, Commits
  <2>3. \A a \in told' : a \in told \/ a.last = "None"
    BY <2>1 DEF Answers
  <2> QED BY <1>3, <2>2, <2>3
<1>9. ASSUME NEW file \in Files, CliIngestLost(file) PROVE AnswersAreOnRecord'
  <2>1. disk' = disk /\ Answers(begun + 1, "None", Ingested(file, CliId), TRUE, faults')
    BY <1>9, Zenon DEF CliIngestLost
  <2>2. \A a \in told' : a \in told \/ a.last = "None"
    BY <2>1 DEF Answers
  <2> QED BY <1>3, <2>1, <2>2
<1>10. CASE Store
  <2>1. disk'.log = disk.log /\ told' = told
    BY <1>2, <1>10, ServerPut DEF Store, Commits
  <2> QED BY <1>3, <2>1
<1>11. CASE TokenizeStore
  BY <1>3, <1>11 DEF TokenizeStore
<1>12. CASE disk' = disk /\ told' = told
  BY <1>3, <1>12
<1> QED
  BY <1>0, <1>5, <1>6, <1>7, <1>8, <1>9, <1>10, <1>11, <1>12
  DEF Next, ReadFile, ReadFileFails, StoreRefused, StoreFails, RollsBack,
      AppendFails, ServerStops, TokenizeRead, TokenizeLost, vars

LEMMA NextIngestInv == IngestInv /\ [Next]_vars => IngestInv'
<1> SUFFICES ASSUME IngestInv, [Next]_vars PROVE IngestInv'
  OBVIOUS
<1>1. StoresInv' /\ BoundsInv'
  BY NextStoresInv, NextBoundsInv
<1>2. JobInv' /\ CliInv'
  BY NextJobInv, NextCliInv
<1>3. ToldInv' /\ KeptInv'
  BY NextToldInv, NextKeptInv
<1>4. AnsweredWasStored' /\ AnswersAreOnRecord'
  BY NextAnswered, NextOnRecord
<1> QED BY <1>1, <1>2, <1>3, <1>4 DEF IngestInv

LEMMA IngestInvHolds == Spec => []IngestInv
<1>1. Init => IngestInv
  BY InitIngestInv
<1>2. IngestInv /\ [Next]_vars => IngestInv'
  BY NextIngestInv
<1> QED BY <1>1, <1>2, PTL DEF Spec

-----------------------------------------------------------------------------
\* The stores only ever hold what their tables may hold, a token IR never
\* outlives or precedes its resume, and a transaction of the server is open only
\* after a COMMIT has failed (sqlite_resume_store.cpp:80-82).
THEOREM TypeCorrect == Spec => []TypeOK
<1>1. IngestInv => TypeOK
  BY DEF IngestInv, StoresInv, StoreInv, Bound, BoundsInv, JobInv, CliInv, ToldInv, TypeOK
<1> QED BY <1>1, IngestInvHolds, PTL

\* Over failed statements, failed COMMITs, refused upserts, joined transactions
\* and stops, a stored resume, its hash and its meta row are those of one
\* ingestion, and no two resumes have one hash (sqlite_resume_store.cpp:9-82).
THEOREM RowsStayWhole == Spec => []RowsAreWhole
<1>1. ASSUME IngestInv PROVE RowsAreWhole
  <2>1. \A db \in {disk, View} : Whole(db)
    BY <1>1 DEF IngestInv, StoresInv, StoreInv, View
  <2> QED BY <2>1, Zenon DEF RowsAreWhole, Whole
<1> QED BY <1>1, IngestInvHolds, PTL

\* One pass of the four normalizations is enough for every file: the stored
\* markdown, ingested again, keeps its hash (hygiene.cpp:127-134).
THEOREM CanonicalStaysFixed == Spec => []CanonicalIsFixed
<1>1. ASSUME IngestInv PROVE CanonicalIsFixed
  <2> SUFFICES ASSUME NEW id \in DOMAIN disk.resumes
               PROVE  LET again == [extension |-> "md", state |-> "Good",
                                    body |-> disk.resumes[id].md]
                      IN  Ingested(again, id).hash = disk.resumes[id].hash
    BY DEF CanonicalIsFixed
  <2> DEFINE md == disk.resumes[id].md
             again == [extension |-> "md", state |-> "Good", body |-> md]
  <2>1. PICK file \in Readable :
          disk.resumes[id] = [md |-> Ingested(file, id).md, hash |-> Ingested(file, id).hash]
    BY <1>1 DEF IngestInv, StoresInv, StoreInv, Whole
  <2>2. Hygiene(md) = md /\ disk.resumes[id].hash = HashOf(md)
    <3>1. file \in Files
      BY DEF Readable
    <3> QED BY <2>1, <3>1, IngestedType
  <2> HIDE DEF md
  <2>3. Extract(again) = md
    BY DEF Extract, Format
  <2>4. Ingested(again, id).hash = HashOf(Hygiene(Extract(again)))
    BY DEF Ingested
  <2> QED BY <2>2, <2>3, <2>4 DEF md
<1> QED BY <1>1, IngestInvHolds, PTL

\* Who is told that a resume was persisted, while nothing has gone wrong, was
\* told the truth of its text: a refused upsert is refused for a resume with the
\* same text (app_service.cpp:378-401).
THEOREM AnsweredWasAlwaysStored == Spec => []AnsweredWasStored
<1>1. IngestInv => AnsweredWasStored
  BY DEF IngestInv
<1> QED BY <1>1, IngestInvHolds, PTL

\* As long as no COMMIT has failed, nothing the server does to its stores takes
\* an answered tool's events with it (sqlite_resume_store.cpp:36, :76, :81).
THEOREM AnswersStayOnRecord == Spec => []AnswersAreOnRecord
<1>1. IngestInv => AnswersAreOnRecord
  BY DEF IngestInv
<1> QED BY <1>1, IngestInvHolds, PTL

\* A token IR on disk that passes TOK-001 breaks no rule that fails, whatever
\* overwrote the resume between the read and the store
\* (tokenize_resume_logic.cpp:15-41).
THEOREM TokensStayBound == Spec => []TokensAreBound
<1>1. ASSUME IngestInv PROVE TokensAreBound
  <2> SUFFICES ASSUME NEW key \in DOMAIN disk.irs
               PROVE  LET resume == disk.resumes[key[1]]
                          broken == Broken(disk.irs[key], resume.md, resume.hash)
                      IN  "TOK-001" \in broken \/ broken \subseteq {"TOK-005"}
    BY DEF TokensAreBound
  <2>1. key[1] \in DOMAIN disk.resumes /\ disk.irs[key] \in IRs
    BY <1>1 DEF IngestInv, StoresInv, StoreInv, Bound
  <2>2. PICK file \in Readable :
          disk.resumes[key[1]] =
            [md |-> Ingested(file, key[1]).md, hash |-> Ingested(file, key[1]).hash]
    BY <1>1, <2>1 DEF IngestInv, StoresInv, StoreInv, Whole
  <2>3. file \in Files
    BY DEF Readable
  <2>4. /\ disk.resumes[key[1]].md \in Seq(Lines)
        /\ disk.resumes[key[1]].hash = HashOf(disk.resumes[key[1]].md)
    BY <2>2, <2>3, IngestedType
  <2> QED BY <2>1, <2>4, IRsBreak
<1> QED BY <1>1, IngestInvHolds, PTL
=============================================================================
