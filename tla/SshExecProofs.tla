---------------------------- MODULE SshExecProofs ----------------------------
(***************************************************************************)
(* Proofs about SshExec, for output of any length on either stream.  The   *)
(* first part is about texts alone: what one turn of the loop over the     *)
(* lines does to a text that has arrived in part.                          *)
(***************************************************************************)
EXTENDS SshExec, SequenceTheorems, WellFoundedInduction, TLAPS

Ordered(cut, size) == \A j, k \in 0..size : j < k => cut[j] < cut[k]
NoneMissed(C, cut, size) == \A i \in C : i <= cut[size] => \E k \in 0..size : cut[k] = i

\* The lines that have been taken out of the first n bytes of a text end at the
\* cuts, of which none is left out, and the rest begins after the last one.
Parts(text, n, lines, rest, cut) ==
    /\ cut \in [0..Len(lines) -> Cuts(text)] /\ Ordered(cut, Len(lines)) /\ cut[Len(lines)] <= n
    /\ NoneMissed(Cuts(text), cut, Len(lines))
    /\ lines = [k \in 1..Len(lines) |-> SubSeq(text, cut[k - 1] + 1, cut[k] - 1)]
    /\ rest = SubSeq(text, cut[Len(lines)] + 1, n)

Parted(text, n, lines, rest) ==
    \E cut \in [0..Len(lines) -> Cuts(text)] : Parts(text, n, lines, rest, cut)

LEMMA CutsInRange == ASSUME NEW text \in Seq(Bytes)
                     PROVE  Cuts(text) \subseteq 0..Len(text)
  BY DEF Cuts

LEMMA RestBytes ==
  ASSUME NEW text \in Seq(Bytes), NEW n \in 0..Len(text), NEW m \in 0..n
  PROVE  /\ SubSeq(text, m + 1, n) \in Seq(Bytes)
         /\ Len(SubSeq(text, m + 1, n)) = n - m
         /\ \A i \in 1..(n - m) : SubSeq(text, m + 1, n)[i] = text[m + i]
<1>1. \A i \in (m + 1)..n : text[i] \in Bytes
  OBVIOUS
<1>2. QED
  BY <1>1, SubSeqProperties, m + 1 \in Int, n \in Int

LEMMA LastCut ==
  ASSUME NEW text \in Seq(Bytes), NEW n \in 0..Len(text),
         NEW lines \in Seq(Seq(Bytes)), NEW rest, NEW cut, Parts(text, n, lines, rest, cut)
  PROVE  cut[Len(lines)] \in 0..n
<1>1. cut \in [0..Len(lines) -> Cuts(text)] /\ cut[Len(lines)] <= n /\ Len(lines) \in Nat
  BY DEF Parts
<1>2. cut[Len(lines)] \in Cuts(text)
  BY <1>1
<1>3. QED
  BY <1>1, <1>2, CutsInRange

\* Nothing has arrived, and nothing was taken out.
LEMMA PartedFirst ==
  ASSUME NEW text \in Seq(Bytes)
  PROVE  Parted(text, 0, <<>>, <<>>)
<1> DEFINE cut == [k \in {0} |-> 0]
<1>1. Len(<<>>) = 0 /\ 0..0 = {0} /\ 1..0 = {} /\ 0 \in Cuts(text)
  BY DEF Cuts
<1>2. SubSeq(text, 1, 0) = <<>>
  BY SubSeqEmpty
<1>3. cut \in [0..Len(<<>>) -> Cuts(text)] /\ cut[0] = 0
  BY <1>1
<1>4. <<>> = [k \in 1..Len(<<>>) |-> SubSeq(text, cut[k - 1] + 1, cut[k] - 1)]
  BY <1>1
<1>5. Parts(text, 0, <<>>, <<>>, cut)
  BY <1>1, <1>2, <1>3, <1>4, CutsInRange DEF Parts, Ordered, NoneMissed
<1>6. QED
  BY <1>5 DEF Parted, Parts

\* More of the text arrives: it joins the rest.
LEMMA PartedMore ==
  ASSUME NEW text \in Seq(Bytes), NEW n \in 0..Len(text), NEW m \in n..Len(text),
         NEW lines \in Seq(Seq(Bytes)), NEW rest, Parted(text, n, lines, rest)
  PROVE  Parted(text, m, lines, rest \o SubSeq(text, n + 1, m))
<1>1. PICK cut : Parts(text, n, lines, rest, cut)
  BY DEF Parted
<1>2. PICK last \in 0..n : last = cut[Len(lines)]
  BY <1>1, LastCut
<1>3. SubSeq(text, last + 1, n) \o SubSeq(text, n + 1, m) = SubSeq(text, last + 1, m)
  <2>1. last + 1 \in 1..(Len(text) + 1) /\ n \in ((last + 1) - 1)..Len(text)
    OBVIOUS
  <2>2. QED
    BY <2>1, ConcatAdjacentSubSeq
<1>4. rest = SubSeq(text, last + 1, n) /\ last <= m
  BY <1>1, <1>2 DEF Parts
<1>5. Parts(text, m, lines, rest \o SubSeq(text, n + 1, m), cut)
  BY <1>1, <1>2, <1>3, <1>4 DEF Parts
<1>6. QED
  BY <1>5 DEF Parted, Parts

\* A position in the rest of a text cuts it into two pieces of the text.
LEMMA RestCut ==
  ASSUME NEW text \in Seq(Bytes), NEW n \in 0..Len(text), NEW last \in 0..n,
         NEW at \in 1..(n - last)
  PROVE  LET rest == SubSeq(text, last + 1, n)
         IN  /\ SubSeq(rest, 1, at - 1) = SubSeq(text, last + 1, last + at - 1)
             /\ SubSeq(rest, at + 1, Len(rest)) = SubSeq(text, last + at + 1, n)
<1> DEFINE rest == SubSeq(text, last + 1, n)
<1>1. Len(rest) = n - last
  BY RestBytes
<1>2. last + 1 \in 1..Len(text) /\ n \in 1..Len(text)
  OBVIOUS
<1>3. SubSeq(rest, 1, at - 1) = SubSeq(text, last + 1, last + at - 1)
  <2>1. CASE at = 1
    BY <2>1, SubSeqEmpty
  <2>2. CASE at > 1
    <3>1. 1 \in 1..(n - (last + 1) + 1) /\ at - 1 \in 1..(n - (last + 1) + 1)
      BY <2>2
    <3>2. SubSeq(rest, 1, at - 1) = SubSeq(text, (last + 1) + 1 - 1, (last + 1) + (at - 1) - 1)
      BY <1>2, <3>1, SubSeqOfSubSeq
    <3>3. QED
      BY <3>2, (last + 1) + 1 - 1 = last + 1, (last + 1) + (at - 1) - 1 = last + at - 1
  <2>3. QED
    BY <2>1, <2>2
<1>4. SubSeq(rest, at + 1, n - last) = SubSeq(text, last + at + 1, n)
  <2>1. CASE at = n - last
    BY <2>1, SubSeqEmpty
  <2>2. CASE at < n - last
    <3>1. at + 1 \in 1..(n - (last + 1) + 1) /\ n - last \in 1..(n - (last + 1) + 1)
      BY <2>2
    <3>2. SubSeq(rest, at + 1, n - last)
          = SubSeq(text, (last + 1) + (at + 1) - 1, (last + 1) + (n - last) - 1)
      BY <1>2, <3>1, SubSeqOfSubSeq
    <3>3. QED
      BY <3>2, (last + 1) + (at + 1) - 1 = last + at + 1, (last + 1) + (n - last) - 1 = n
  <2>3. QED
    BY <2>1, <2>2
<1>5. QED
  BY <1>1, <1>3, <1>4

\* A longer list of cuts: the new one is beyond the others, with none between.
LEMMA CutsGrow ==
  ASSUME NEW C, C \subseteq Nat, NEW size \in Nat, NEW cut \in [0..size -> C], NEW new \in C,
         Ordered(cut, size), NoneMissed(C, cut, size),
         cut[size] < new, \A i \in C : i < new => i <= cut[size],
         NEW more, more[size + 1] = new, \A k \in 0..size : more[k] = cut[k]
  PROVE  Ordered(more, size + 1) /\ NoneMissed(C, more, size + 1)
<1>1. ASSUME NEW j \in 0..(size + 1), NEW k \in 0..(size + 1), j < k
      PROVE  more[j] < more[k]
  <2>1. j \in 0..size /\ more[j] = cut[j] /\ cut[j] \in Nat /\ cut[size] \in Nat
    <3>1. j \in 0..size /\ size \in 0..size
      BY <1>1
    <3>2. cut[j] \in C /\ cut[size] \in C
      BY <3>1
    <3>3. QED
      BY <3>1, <3>2
  <2>2. CASE k = size + 1
    <3>1. cut[j] <= cut[size]
      BY <2>1 DEF Ordered
    <3>2. QED
      BY <2>1, <2>2, <3>1
  <2>3. CASE k \in 0..size
    BY <1>1, <2>1, <2>3 DEF Ordered
  <2>4. QED
    BY <2>2, <2>3
<1>2. ASSUME NEW i \in C, i <= new
      PROVE  \E k \in 0..(size + 1) : more[k] = i
  <2>1. CASE i = new
    BY <2>1
  <2>2. CASE i < new
    <3>1. PICK k \in 0..size : cut[k] = i
      BY <2>2 DEF NoneMissed
    <3>2. QED
      BY <3>1
  <2>3. QED
    BY <1>2, <2>1, <2>2
<1>3. QED
  BY <1>1, <1>2 DEF Ordered, NoneMissed

\* The line before the first newline of the rest goes to the lines.
LEMMA PartedLine ==
  ASSUME NEW text \in Seq(Bytes), NEW n \in 0..Len(text),
         NEW lines \in Seq(Seq(Bytes)), NEW rest, Parted(text, n, lines, rest),
         NEW at \in DOMAIN rest, FirstNewline(rest, at)
  PROVE  /\ SubSeq(rest, 1, at - 1) \in Seq(Bytes)
         /\ Parted(text, n, Append(lines, SubSeq(rest, 1, at - 1)),
                   SubSeq(rest, at + 1, Len(rest)))
<1>1. PICK cut : Parts(text, n, lines, rest, cut)
  BY DEF Parted
<1>2. PICK size \in Nat : size = Len(lines)
  OBVIOUS
<1>3. PICK last \in 0..n : last = cut[size]
  BY <1>1, <1>2, LastCut
<1>4. rest = SubSeq(text, last + 1, n)
  BY <1>1, <1>2, <1>3 DEF Parts
<1>5. DOMAIN rest = 1..(n - last) /\ \A i \in 1..(n - last) : rest[i] = text[last + i]
  <2>1. rest \in Seq(Bytes) /\ Len(rest) = n - last
    BY <1>4, RestBytes
  <2>2. QED
    BY <1>4, <2>1, RestBytes
<1>6. at \in 1..(n - last)
  BY <1>5
<1>7. PICK line : line = SubSeq(rest, 1, at - 1)
  OBVIOUS
<1>8. /\ line = SubSeq(text, last + 1, last + at - 1) /\ line \in Seq(Bytes)
      /\ SubSeq(rest, at + 1, Len(rest)) = SubSeq(text, last + at + 1, n)
  <2>1. last + at - 1 \in 0..Len(text) /\ last \in 0..(last + at - 1)
    BY <1>6
  <2>2. SubSeq(text, last + 1, last + at - 1) \in Seq(Bytes)
    BY <2>1, RestBytes
  <2>3. QED
    BY <1>4, <1>6, <1>7, <2>2, RestCut
\* The new cut.
<1>9. PICK new \in 1..n : new = last + at
  BY <1>6
<1>10. new \in Cuts(text)
  BY <1>5, <1>6, <1>9 DEF Cuts, FirstNewline
<1>11. \A i \in Cuts(text) : i < new => i <= last
  <2> SUFFICES ASSUME NEW i \in Cuts(text), i < new, last < i PROVE FALSE
    BY CutsInRange
  <2>1. i \in Nat /\ i - last \in 1..(at - 1) /\ text[i] = "nl"
    BY <1>6, <1>9, CutsInRange DEF Cuts
  <2>2. rest[i - last] = text[i]
    BY <1>5, <1>6, <2>1
  <2>3. QED
    BY <2>1, <2>2 DEF FirstNewline
<1>12. PICK more : more = [k \in 0..(size + 1) |-> IF k = size + 1 THEN new ELSE cut[k]]
  OBVIOUS
<1>13. /\ more \in [0..(size + 1) -> Cuts(text)]
       /\ more[size + 1] = new /\ \A k \in 0..size : more[k] = cut[k]
       /\ Ordered(more, size + 1) /\ NoneMissed(Cuts(text), more, size + 1)
  <2>1. /\ cut \in [0..size -> Cuts(text)]
        /\ Ordered(cut, size) /\ NoneMissed(Cuts(text), cut, size)
    BY <1>1, <1>2 DEF Parts
  <2>2. Cuts(text) \subseteq Nat /\ cut[size] < new
    BY <1>3, <1>6, <1>9, CutsInRange
  <2>3. \A i \in Cuts(text) : i < new => i <= cut[size]
    BY <1>3, <1>11
  <2>4. /\ more \in [0..(size + 1) -> Cuts(text)]
        /\ more[size + 1] = new /\ \A k \in 0..size : more[k] = cut[k]
    BY <1>10, <1>12, <2>1
  <2>5. QED
    BY <1>10, <2>1, <2>2, <2>3, <2>4, CutsGrow
\* The new lines.
<1>14. PICK longer : longer = Append(lines, line)
  OBVIOUS
<1>15. /\ longer \in Seq(Seq(Bytes)) /\ Len(longer) = size + 1
       /\ \A k \in 1..size : longer[k] = lines[k]
       /\ longer[size + 1] = line
  <2>1. line \in Seq(Bytes) /\ lines \in Seq(Seq(Bytes))
    BY <1>8
  <2>2. QED
    BY <1>2, <1>14, <2>1, AppendProperties
<1>16. \A k \in 1..(size + 1) : longer[k] = SubSeq(text, more[k - 1] + 1, more[k] - 1)
  <2> SUFFICES ASSUME NEW k \in 1..(size + 1)
               PROVE  longer[k] = SubSeq(text, more[k - 1] + 1, more[k] - 1)
    OBVIOUS
  <2>1. CASE k = size + 1
    <3>1. more[k - 1] = last /\ more[k] = new
      BY <1>3, <1>13, <2>1
    <3>2. longer[k] = line /\ new - 1 = last + at - 1
      BY <1>6, <1>9, <1>15, <2>1
    <3>3. QED
      BY <1>8, <3>1, <3>2
  <2>2. CASE k \in 1..size
    <3>1. more[k - 1] = cut[k - 1] /\ more[k] = cut[k]
      BY <1>13, <2>2
    <3>2. lines[k] = SubSeq(text, cut[k - 1] + 1, cut[k] - 1)
      BY <1>1, <1>2, <2>2 DEF Parts
    <3>3. QED
      BY <1>15, <2>2, <3>1, <3>2
  <2>3. QED
    BY <2>1, <2>2
<1>17. longer = [k \in 1..(size + 1) |-> SubSeq(text, more[k - 1] + 1, more[k] - 1)]
  <2>1. longer = [k \in 1..(size + 1) |-> longer[k]]
    BY <1>15
  <2>2. QED
    BY <1>16, <2>1
<1>18. Parts(text, n, longer, SubSeq(rest, at + 1, Len(rest)), more)
  <2>1. SubSeq(rest, at + 1, Len(rest)) = SubSeq(text, more[size + 1] + 1, n)
    BY <1>8, <1>9, <1>13
  <2>2. more[size + 1] <= n
    BY <1>13
  <2>3. QED
    BY <1>13, <1>15, <1>17, <2>1, <2>2 DEF Parts
<1>19. QED
  BY <1>7, <1>8, <1>14, <1>18 DEF Parted, Parts

\* What lies between two positions of the text that has arrived.
LEMMA Between ==
  ASSUME NEW text \in Seq(Bytes), NEW n \in 0..Len(text), NEW a \in 0..n, NEW b \in 0..(n + 1)
  PROVE  SubSeq(SubSeq(text, 1, n), a + 1, b - 1) = SubSeq(text, a + 1, b - 1)
<1>1. CASE a + 1 > b - 1
  BY <1>1, SubSeqEmpty
<1>2. CASE a + 1 <= b - 1
  <2>1. /\ 1 \in 1..Len(text) /\ n \in 1..Len(text)
        /\ a + 1 \in 1..(n - 1 + 1) /\ b - 1 \in 1..(n - 1 + 1)
    BY <1>2
  <2>2. SubSeq(SubSeq(text, 1, n), a + 1, b - 1) = SubSeq(text, 1 + (a + 1) - 1, 1 + (b - 1) - 1)
    BY <2>1, SubSeqOfSubSeq
  <2>3. QED
    BY <2>2, 1 + (a + 1) - 1 = a + 1, 1 + (b - 1) - 1 = b - 1
<1>3. QED
  BY <1>1, <1>2

\* With no newline in the rest, all of what has arrived is split.
LEMMA PartedWhole ==
  ASSUME NEW text \in Seq(Bytes), NEW n \in 0..Len(text),
         NEW lines \in Seq(Seq(Bytes)), NEW rest, Parted(text, n, lines, rest),
         ~Contains(rest, "nl")
  PROVE  IsSplit(SubSeq(text, 1, n), lines, rest)
<1>1. PICK cut : Parts(text, n, lines, rest, cut)
  BY DEF Parted
<1>2. PICK size \in Nat : size = Len(lines)
  OBVIOUS
<1>3. /\ cut \in [0..size -> Cuts(text)] /\ Ordered(cut, size) /\ cut[size] <= n
      /\ NoneMissed(Cuts(text), cut, size)
      /\ lines = [k \in 1..size |-> SubSeq(text, cut[k - 1] + 1, cut[k] - 1)]
      /\ rest = SubSeq(text, cut[size] + 1, n)
  BY <1>1, <1>2 DEF Parts
<1>4. PICK last \in 0..n : last = cut[size]
  BY <1>1, <1>2, LastCut
<1>5. PICK here : here = SubSeq(text, 1, n)
  OBVIOUS
<1>6. here \in Seq(Bytes) /\ Len(here) = n /\ \A i \in 1..n : here[i] = text[i]
  <2>1. 0 \in 0..n
    OBVIOUS
  <2>2. QED
    BY <1>5, <2>1, RestBytes
<1>7. Cuts(here) = {i \in Cuts(text) : i <= n}
  BY <1>6 DEF Cuts
<1>8. \A k \in 0..size : cut[k] \in Nat /\ cut[k] <= n /\ cut[k] \in Cuts(here)
  <2> SUFFICES ASSUME NEW k \in 0..size
               PROVE  cut[k] \in Nat /\ cut[k] <= n /\ cut[k] \in Cuts(here)
    OBVIOUS
  <2>1. cut[k] \in Cuts(text)
    BY <1>3
  <2>2. cut[k] \in Nat
    BY <2>1, CutsInRange
  <2>3. cut[k] <= last
    <3>1. CASE k = size
      BY <1>4, <3>1
    <3>2. CASE k < size
      BY <1>3, <1>4, <2>2, <3>2 DEF Ordered
    <3>3. QED
      BY <3>1, <3>2
  <2>4. QED
    BY <1>7, <2>1, <2>2, <2>3
<1>9. cut \in [0..size -> Cuts(here)] /\ DOMAIN cut = 0..size
  BY <1>3, <1>8
<1>10. Cuts(here) \subseteq Range(cut)
  <2> SUFFICES ASSUME NEW i \in Cuts(here) PROVE \E k \in 0..size : cut[k] = i
    BY <1>9 DEF Range
  <2>1. i \in Cuts(text) /\ i <= n /\ i \in Nat
    BY <1>7, CutsInRange
  <2>2. CASE i <= last
    BY <1>3, <1>4, <2>1, <2>2 DEF NoneMissed
  <2>3. CASE i > last
    <3>1. i - last \in 1..(n - last) /\ text[i] = "nl"
      BY <2>1, <2>3 DEF Cuts
    <3>2. rest[i - last] = text[last + (i - last)] /\ Len(rest) = n - last
      BY <1>3, <1>4, <3>1, RestBytes
    <3>3. QED
      BY <2>1, <3>1, <3>2 DEF Contains
  <2>4. QED
    BY <2>1, <2>2, <2>3
<1>11. lines = [k \in 1..size |-> SubSeq(here, cut[k - 1] + 1, cut[k] - 1)]
  <2>1. \A k \in 1..size : SubSeq(text, cut[k - 1] + 1, cut[k] - 1)
                           = SubSeq(here, cut[k - 1] + 1, cut[k] - 1)
    <3> SUFFICES ASSUME NEW k \in 1..size
                 PROVE  SubSeq(text, cut[k - 1] + 1, cut[k] - 1)
                        = SubSeq(here, cut[k - 1] + 1, cut[k] - 1)
      OBVIOUS
    <3>1. cut[k - 1] \in 0..n /\ cut[k] \in 0..(n + 1)
      BY <1>8
    <3>2. QED
      BY <1>5, <3>1, Between
  <2>2. QED
    BY <1>3, <2>1
<1>12. rest = SubSeq(here, cut[size] + 1, Len(here))
  <2>1. n + 1 \in 0..(n + 1) /\ (n + 1) - 1 = n
    OBVIOUS
  <2>2. SubSeq(here, last + 1, (n + 1) - 1) = SubSeq(text, last + 1, (n + 1) - 1)
    BY <1>5, <2>1, Between
  <2>3. QED
    BY <1>3, <1>4, <1>6, <2>1, <2>2
<1>13. IsSplit(here, lines, rest)
  BY <1>2, <1>3, <1>9, <1>10, <1>11, <1>12 DEF IsSplit, Ordered
<1>14. QED
  BY <1>5, <1>13

\* A line that cannot be logged has its bad byte, and a newline after it, in
\* the text.
LEMMA PartedBad ==
  ASSUME NEW text \in Seq(Bytes), NEW n \in 0..Len(text),
         NEW lines \in Seq(Seq(Bytes)), NEW rest, Parted(text, n, lines, rest),
         NEW at \in DOMAIN rest, FirstNewline(rest, at),
         Contains(SubSeq(rest, 1, at - 1), "bad")
  PROVE  \E i, j \in DOMAIN text : i < j /\ text[i] = "bad" /\ text[j] = "nl"
<1>1. PICK cut : Parts(text, n, lines, rest, cut)
  BY DEF Parted
<1>2. PICK last \in 0..n : last = cut[Len(lines)]
  BY <1>1, LastCut
<1>3. rest = SubSeq(text, last + 1, n)
  BY <1>1, <1>2 DEF Parts
<1>4. /\ rest \in Seq(Bytes) /\ Len(rest) = n - last
      /\ \A i \in 1..(n - last) : rest[i] = text[last + i]
  BY <1>3, RestBytes
<1>5. at \in 1..(n - last)
  BY <1>4
<1>6. PICK i \in 1..(at - 1) : rest[i] = "bad"
  <2>1. at - 1 \in 0..Len(rest) /\ 0 \in 0..(at - 1)
    BY <1>4, <1>5
  <2>2. /\ Len(SubSeq(rest, 1, at - 1)) = at - 1
        /\ \A i \in 1..(at - 1) : SubSeq(rest, 1, at - 1)[i] = rest[i]
    BY <1>4, <2>1, RestBytes
  <2>3. QED
    BY <2>2 DEF Contains
<1>7. text[last + i] = "bad" /\ text[last + at] = "nl"
  <2>1. rest[at] = "nl" /\ i \in 1..(n - last)
    BY <1>5 DEF FirstNewline
  <2>2. QED
    BY <1>4, <1>5, <1>6, <2>1
<1>8. last + i \in DOMAIN text /\ last + at \in DOMAIN text /\ last + i < last + at
  BY <1>5, <1>6
<1>9. QED
  BY <1>7, <1>8

-----------------------------------------------------------------------------
(* The invariant. *)

\* What is given at the start, and what the variables range over.
Given ==
    /\ \A s \in Streams : command[s] \in Seq(Bytes) /\ mode[s] \in {"capture", "log"}
    /\ command.code \in {"zero", "nonzero", "killed"}
    /\ received \in [Streams -> Nat]
    /\ buf \in [Streams -> Seq(Bytes)]
    /\ logged \in [Streams -> Seq(Seq(Bytes))]

\* What has arrived of a captured stream is in its buffer; of another one, it
\* is in the log as far as it was split, and no newline waits in the buffer
\* when the reader does.
Kept(s) ==
    /\ mode[s] = "capture" => buf[s] = SubSeq(command[s], 1, received[s])
    /\ mode[s] = "log" =>
           /\ Parted(command[s], received[s], logged[s], buf[s])
           /\ Running /\ splitting # s => ~Contains(buf[s], "nl")
    /\ splitting = s => Running /\ mode[s] = "log"

StatusKept == code # "none" => code = command.code

IInv ==
    /\ Given /\ TypeOK /\ StatusKept /\ (\A s \in Streams : Kept(s))
    /\ OutputWhole /\ ErrorJustified

LEMMA InitIInv == Init => IInv
<1> SUFFICES ASSUME Init PROVE IInv
  OBVIOUS
<1>1. \A S, n : n \in Nat => BoundedSeq(S, n) \subseteq Seq(S)
  BY SeqDef DEF BoundedSeq, SeqOf
<1>2. Given
  <2>1. command.out \in Seq(Bytes) /\ command.err \in Seq(Bytes)
    BY <1>1, BoundsAssumption DEF Init
  <2>2. \A s \in Streams : mode[s] \in {"capture", "log"}
    BY DEF Init, Streams, ExecPassthru, WriteFile, ReadFile
  <2>3. <<>> \in Seq(Bytes) /\ <<>> \in Seq(Seq(Bytes))
    OBVIOUS
  <2>4. command.code \in {"zero", "nonzero", "killed"}
    BY DEF Init
  <2>5. QED
    BY <2>1, <2>2, <2>3, <2>4 DEF Init, Given, Streams
<1>3. ASSUME NEW s \in Streams PROVE Kept(s)
  <2>1. received[s] = 0 /\ buf[s] = <<>> /\ logged[s] = <<>> /\ splitting # s
    BY DEF Init, Streams
  <2>2. command[s] \in Seq(Bytes)
    BY <1>2 DEF Given
  <2>3. Parted(command[s], 0, <<>>, <<>>) /\ SubSeq(command[s], 1, 0) = <<>>
    BY <2>2, PartedFirst, SubSeqEmpty
  <2>4. ~Contains(<<>>, "nl")
    BY DEF Contains
  <2>5. QED
    BY <2>1, <2>3, <2>4 DEF Kept
<1>4. TypeOK
  <2>1. ASSUME NEW s \in Streams
        PROVE  received[s] \in 0..Len(command[s]) /\ logged[s] = <<>>
    BY <1>2 DEF Given, Init, Streams
  <2>2. QED
    BY <1>2, <2>1 DEF TypeOK, Given, Init
<1>5. QED
  BY <1>2, <1>3, <1>4 DEF IInv, Init, StatusKept, OutputWhole, ErrorJustified

\* A step that takes no output leaves what was kept as it was.
LEMMA KeptStays ==
  ASSUME IInv, Waiting, UNCHANGED <<command, mode, received, buf, splitting, logged>>
  PROVE  Given' /\ \A s \in Streams : Kept(s)'
<1>1. Given'
  BY DEF IInv, Given
<1>2. ASSUME NEW s \in Streams PROVE Kept(s)'
  BY DEF IInv, Streams, Waiting, Kept
<1>3. QED
  BY <1>1, <1>2

LEMMA StatusIInv == IInv /\ ReceiveStatus => IInv'
<1> SUFFICES ASSUME IInv, ReceiveStatus PROVE IInv'
  OBVIOUS
<1>1. Given' /\ \A s \in Streams : Kept(s)'
  BY KeptStays DEF ReceiveStatus
<1>2. TypeOK' /\ StatusKept'
  BY DEF IInv, TypeOK, Given, StatusKept, ReceiveStatus, AfterStatus
<1>3. OutputWhole' /\ ErrorJustified'
  BY DEF IInv, ReceiveStatus, AfterStatus, Waiting, Running, OutputWhole, ErrorJustified
<1>4. QED
  BY <1>1, <1>2, <1>3 DEF IInv

LEMMA EndIInv == IInv /\ (ChannelEnds \/ ConnectionLost) => IInv'
<1> SUFFICES ASSUME IInv, ChannelEnds \/ ConnectionLost PROVE IInv'
  OBVIOUS
<1>1. Given' /\ \A s \in Streams : Kept(s)'
  BY KeptStays DEF ChannelEnds, ConnectionLost
<1>2. TypeOK' /\ StatusKept'
  BY DEF IInv, TypeOK, Given, StatusKept, ChannelEnds, ConnectionLost, Outcome
<1>3. OutputWhole'
  <2> SUFFICES ASSUME result' = "ok"
               PROVE  /\ command.code = "zero"
                      /\ \A s \in Streams : received[s] = Len(command[s])
                      /\ mode.out = "capture" => buf.out = command.out
    BY DEF OutputWhole, ChannelEnds, ConnectionLost
  <2>1. ChannelEnds /\ code = "zero"
    BY DEF ChannelEnds, ConnectionLost, Outcome
  <2>2. ASSUME NEW s \in Streams PROVE received[s] = Len(command[s])
    <3>1. Rest(s) = 0 /\ received[s] \in Nat /\ command[s] \in Seq(Bytes)
      BY <2>1 DEF ChannelEnds, IInv, Given
    <3>2. QED
      BY <3>1 DEF Rest
  <2>3. ASSUME mode.out = "capture" PROVE buf.out = command.out
    <3>1. command.out \in Seq(Bytes) /\ buf.out = SubSeq(command.out, 1, received.out)
      BY <2>3 DEF IInv, Given, Kept, Streams
    <3>2. received.out = Len(command.out)
      BY <2>2 DEF Streams
    <3>3. QED
      BY <3>1, <3>2, SubSeqFull
  <2>4. QED
    BY <2>1, <2>2, <2>3 DEF IInv, StatusKept
<1>4. ErrorJustified'
  BY DEF IInv, StatusKept, ErrorJustified, ChannelEnds, ConnectionLost, Outcome, Waiting, Running
<1>5. QED
  BY <1>1, <1>2, <1>3, <1>4 DEF IInv

\* What is done for one stream leaves the other one alone.
LEMMA KeptOther ==
  ASSUME IInv, Running, NEW s \in Streams, NEW r \in Streams, r # s,
         splitting \in {"none", s}, splitting' \in {"none", s},
         UNCHANGED <<command, mode, received[r], buf[r], logged[r]>>
  PROVE  Kept(r)'
<1>1. Kept(r) /\ splitting # r /\ splitting' # r
  BY DEF IInv, Streams
<1>2. QED
  BY <1>1 DEF Kept

\* A running command has no outcome to account for.
LEMMA StillRunning == Running' => OutputWhole' /\ ErrorJustified'
  BY DEF Running, OutputWhole, ErrorJustified

LEMMA DataIInv == ASSUME IInv, NEW s \in Streams, ReceiveData(s) PROVE IInv'
<1>1. PICK n \in 1..Rest(s) :
        /\ received' = [received EXCEPT ![s] = @ + n]
        /\ buf' = [buf EXCEPT ![s] = @ \o SubSeq(command[s], received[s] + 1, received[s] + n)]
  BY DEF ReceiveData
<1>2. /\ Given /\ Kept(s) /\ Running /\ splitting = "none" /\ UNCHANGED <<command, mode, logged>>
      /\ splitting' = (IF mode[s] = "log" THEN s ELSE "none") /\ Running'
  BY DEF IInv, ReceiveData, Waiting, Running, Logs
<1>3. PICK text \in Seq(Bytes) : text = command[s]
  BY <1>2 DEF Given
<1>4. PICK old \in 0..Len(text) : old = received[s]
  BY <1>2, <1>3 DEF IInv, TypeOK
<1>5. PICK new \in old..Len(text) : new = old + n
  <2>1. Rest(s) = Len(text) - old
    BY <1>3, <1>4 DEF Rest
  <2>2. QED
    BY <2>1
<1>6. PICK data \in Seq(Bytes) : data = SubSeq(text, old + 1, new)
  <2>1. new \in 0..Len(text) /\ old \in 0..new
    OBVIOUS
  <2>2. QED
    BY <2>1, RestBytes
<1>7. received'[s] = new /\ buf'[s] = buf[s] \o data /\ buf[s] \in Seq(Bytes)
  BY <1>1, <1>2, <1>3, <1>4, <1>5, <1>6 DEF Given
<1>8. Given'
  <2>1. received' \in [Streams -> Nat]
    BY <1>1, <1>2, <1>4, <1>5, <1>7 DEF Given
  <2>2. buf[s] \o data \in Seq(Bytes)
    BY <1>7, ConcatProperties
  <2>3. buf' \in [Streams -> Seq(Bytes)]
    BY <1>1, <1>2, <1>7, <2>2 DEF Given
  <2>4. QED
    BY <1>2, <2>1, <2>3 DEF Given
<1>9. Kept(s)'
  <2>1. CASE mode[s] = "capture"
    <3>1. SubSeq(text, 1, old) \o SubSeq(text, old + 1, new) = SubSeq(text, 1, new)
      <4>1. 1 \in 1..(Len(text) + 1) /\ old \in (1 - 1)..Len(text)
        OBVIOUS
      <4>2. QED
        BY <4>1, ConcatAdjacentSubSeq
    <3>2. splitting' # s
      BY <1>2, <2>1 DEF Streams
    <3>3. QED
      BY <1>2, <1>3, <1>4, <1>6, <1>7, <2>1, <3>1, <3>2 DEF Kept
  <2>2. CASE mode[s] = "log"
    <3>1. Parted(text, old, logged[s], buf[s]) /\ logged[s] \in Seq(Seq(Bytes))
      BY <1>2, <1>3, <1>4, <2>2 DEF Kept, Given
    <3>2. Parted(text, new, logged[s], buf[s] \o data)
      BY <1>6, <3>1, PartedMore
    <3>3. QED
      BY <1>2, <1>3, <1>7, <2>2, <3>2 DEF Kept
  <2>3. QED
    BY <1>2, <2>1, <2>2 DEF Given
<1>10. ASSUME NEW r \in Streams, r # s PROVE Kept(r)'
  BY <1>1, <1>2, <1>10, KeptOther DEF Given
<1>11. TypeOK' /\ StatusKept'
  <2>1. ASSUME NEW r \in Streams PROVE received'[r] \in 0..Len(command'[r])
    <3>1. CASE r = s
      BY <1>2, <1>3, <1>7, <3>1
    <3>2. CASE r # s
      BY <1>1, <1>2, <3>2 DEF IInv, TypeOK, Given
    <3>3. QED
      BY <3>1, <3>2
  <2>2. QED
    BY <1>2, <1>8, <2>1 DEF IInv, TypeOK, StatusKept, Given, ReceiveData
<1>12. QED
  BY <1>2, <1>8, <1>9, <1>10, <1>11, StillRunning DEF IInv

LEMMA LineIInv == ASSUME IInv, NEW s \in Streams, LogLine(s) PROVE IInv'
<1>1. /\ Given /\ Kept(s) /\ Running /\ splitting = s /\ mode[s] = "log" /\ splitting' = s
      /\ UNCHANGED <<command, mode, received, code, result>> /\ Running'
  BY DEF IInv, LogLine, Running, AfterLine, Kept
<1>2. PICK text \in Seq(Bytes), n \in Nat :
        text = command[s] /\ n = received[s] /\ n \in 0..Len(text)
  BY DEF IInv, Given, TypeOK
<1>3. PICK lines \in Seq(Seq(Bytes)), rest \in Seq(Bytes) : lines = logged[s] /\ rest = buf[s]
  BY <1>1 DEF Given
<1>4. PICK at \in DOMAIN rest :
        /\ FirstNewline(rest, at)
        /\ logged' = [logged EXCEPT ![s] = Append(@, SubSeq(rest, 1, at - 1))]
        /\ buf' = [buf EXCEPT ![s] = SubSeq(@, at + 1, Len(@))]
  BY <1>3 DEF LogLine
<1>5. /\ SubSeq(rest, 1, at - 1) \in Seq(Bytes)
      /\ Parted(text, n, Append(lines, SubSeq(rest, 1, at - 1)), SubSeq(rest, at + 1, Len(rest)))
  <2>1. Parted(text, n, lines, rest)
    BY <1>1, <1>2, <1>3 DEF Kept
  <2>2. QED
    BY <1>2, <1>4, <2>1, PartedLine
<1>6. /\ logged'[s] = Append(lines, SubSeq(rest, 1, at - 1))
      /\ buf'[s] = SubSeq(rest, at + 1, Len(rest))
  BY <1>1, <1>3, <1>4 DEF Given
<1>7. Given'
  <2>1. Append(lines, SubSeq(rest, 1, at - 1)) \in Seq(Seq(Bytes))
    BY <1>5, AppendProperties
  <2>2. SubSeq(rest, at + 1, Len(rest)) \in Seq(Bytes)
    <3>1. Len(rest) \in 0..Len(rest) /\ at \in 0..Len(rest)
      BY LenProperties
    <3>2. QED
      BY <3>1, RestBytes
  <2>3. logged' \in [Streams -> Seq(Seq(Bytes))]
    BY <1>1, <1>4, <1>6, <2>1 DEF Given
  <2>4. buf' \in [Streams -> Seq(Bytes)]
    BY <1>1, <1>4, <1>6, <2>2 DEF Given
  <2>5. QED
    BY <1>1, <2>3, <2>4 DEF Given
<1>8. Kept(s)'
  BY <1>1, <1>2, <1>5, <1>6 DEF Kept
<1>9. ASSUME NEW r \in Streams, r # s
      PROVE  Kept(r)' /\ logged'[r] = logged[r]
  <2>1. logged'[r] = logged[r] /\ buf'[r] = buf[r]
    BY <1>1, <1>4, <1>9 DEF Given
  <2>2. QED
    BY <1>1, <1>9, <2>1, KeptOther
<1>10. TypeOK' /\ StatusKept'
  <2>1. ASSUME NEW r \in Streams, mode'[r] = "capture" PROVE logged'[r] = <<>>
    BY <1>1, <1>9, <2>1 DEF IInv, TypeOK
  <2>2. QED
    BY <1>1, <1>7, <2>1 DEF IInv, TypeOK, StatusKept, Given
<1>11. QED
  BY <1>1, <1>7, <1>8, <1>9, <1>10, StillRunning DEF IInv

LEMMA InvalidIInv == ASSUME IInv, NEW s \in Streams, LineInvalid(s) PROVE IInv'
<1>1. /\ Given /\ Kept(s) /\ Running /\ splitting = s /\ mode[s] = "log"
      /\ splitting' = "none" /\ result' = "error" /\ ~Running'
      /\ UNCHANGED <<command, mode, received, code, buf, logged>>
  BY DEF IInv, LineInvalid, Running, Kept
<1>2. Given' /\ TypeOK' /\ StatusKept'
  BY <1>1 DEF IInv, Given, TypeOK, StatusKept
<1>3. Kept(s)'
  BY <1>1 DEF Kept, Streams
<1>4. ASSUME NEW r \in Streams, r # s PROVE Kept(r)'
  BY <1>1, <1>4, KeptOther
<1>5. ErrorJustified'
  <2>1. PICK text \in Seq(Bytes), n \in Nat :
        text = command[s] /\ n = received[s] /\ n \in 0..Len(text)
    BY DEF IInv, Given, TypeOK
  <2>2. PICK lines \in Seq(Seq(Bytes)), rest \in Seq(Bytes) : lines = logged[s] /\ rest = buf[s]
    BY <1>1 DEF Given
  <2>3. PICK at \in DOMAIN rest : FirstNewline(rest, at) /\ Contains(SubSeq(rest, 1, at - 1), "bad")
    BY <2>2 DEF LineInvalid
  <2>4. Parted(text, n, lines, rest)
    BY <1>1, <2>1, <2>2 DEF Kept
  <2>5. \E i, j \in DOMAIN text : i < j /\ text[i] = "bad" /\ text[j] = "nl"
    BY <2>1, <2>3, <2>4, PartedBad
  <2>6. QED
    BY <1>1, <2>1, <2>5 DEF ErrorJustified
<1>6. OutputWhole'
  BY <1>1 DEF OutputWhole
<1>7. QED
  BY <1>2, <1>3, <1>4, <1>5, <1>6 DEF IInv

LEMMA DoneIInv == ASSUME IInv, NEW s \in Streams, LinesDone(s) PROVE IInv'
<1>1. /\ Given /\ Kept(s) /\ Running /\ splitting = s /\ splitting' = "none"
      /\ ~Contains(buf[s], "nl") /\ Running'
      /\ UNCHANGED <<command, mode, received, code, buf, logged, result>>
  BY DEF IInv, LinesDone, Running
<1>2. Given' /\ TypeOK' /\ StatusKept'
  BY <1>1 DEF IInv, Given, TypeOK, StatusKept
<1>3. Kept(s)'
  BY <1>1 DEF Kept, Streams
<1>4. ASSUME NEW r \in Streams, r # s PROVE Kept(r)'
  BY <1>1, <1>4, KeptOther
<1>5. QED
  BY <1>1, <1>2, <1>3, <1>4, StillRunning DEF IInv

LEMMA StutterIInv == IInv /\ UNCHANGED vars => IInv'
  BY DEF vars, IInv, Given, TypeOK, StatusKept, Kept, Running, OutputWhole, ErrorJustified

LEMMA StepIInv == IInv /\ [Next]_vars => IInv'
  BY StatusIInv, EndIInv, DataIInv, LineIInv, InvalidIInv, DoneIInv, StutterIInv DEF Next

-----------------------------------------------------------------------------
(* IsSplit determines the lines and the rest: it is a reference, not a bound. *)

LEMMA Least ==
  ASSUME NEW T, T \subseteq Nat, T # {}
  PROVE  \E x \in T : \A y \in T : ~(y < x)
<1>1. PICK x \in T : \A y \in T : ~(<<y, x>> \in OpToRel(<, Nat))
  BY NatLessThanWellFounded, WFMin, Zenon
<1>2. \A y \in T : ~(y < x)
  BY <1>1, Zenon DEF OpToRel
<1>3. QED
  BY <1>2

\* A list of all cuts in their order.
Listed(C, cut, size) ==
    /\ cut \in [0..size -> C] /\ Ordered(cut, size)
    /\ \A i \in C : \E k \in 0..size : cut[k] = i

\* At the first difference of two lists, one of them would miss a cut.
LEMMA CutsAgree ==
  ASSUME NEW C, C \subseteq Nat, 0 \in C, NEW m \in Nat, NEW n \in Nat,
         NEW c, NEW d, Listed(C, c, m), Listed(C, d, n)
  PROVE  m <= n /\ \A k \in 0..m : c[k] = d[k]
<1> DEFINE T == {k \in 0..m : n < k \/ c[k] # d[k]}
<1>1. /\ \A k \in 0..m : c[k] \in Nat /\ c[k] \in C
      /\ \A k \in 0..n : d[k] \in Nat /\ d[k] \in C
  BY DEF Listed
<1>2. /\ \A j, k \in 0..m : j < k => c[j] < c[k]
      /\ \A j, k \in 0..n : j < k => d[j] < d[k]
  BY DEF Listed, Ordered
<1>3. /\ \A i \in C : \E k \in 0..m : c[k] = i
      /\ \A i \in C : \E k \in 0..n : d[k] = i
  BY DEF Listed
<1>4. c[0] = 0 /\ d[0] = 0
  <2>1. PICK j \in 0..m : c[j] = 0
    BY <1>3
  <2>2. PICK k \in 0..n : d[k] = 0
    BY <1>3
  <2>3. ~(0 < j) /\ ~(0 < k)
    BY <1>1, <1>2, <2>1, <2>2
  <2>4. QED
    BY <2>1, <2>2, <2>3
<1>5. T = {}
  <2> SUFFICES ASSUME T # {} PROVE FALSE
    OBVIOUS
  <2>1. PICK k \in T : \A j \in T : ~(j < k)
    <3>1. T \subseteq Nat
      OBVIOUS
    <3>2. QED
      BY <3>1, Least, Zenon
  <2>2. k \in 1..m /\ k - 1 \in 0..m
    BY <1>4, <2>1
  <2>3. k - 1 \in 0..n /\ c[k - 1] = d[k - 1]
    BY <2>1, <2>2
  <2>4. PICK j \in 0..n : d[j] = c[k]
    BY <1>1, <1>3, <2>2
  <2>5. d[k - 1] < d[j]
    BY <1>2, <2>2, <2>3, <2>4
  <2>6. k <= j
    BY <1>1, <1>2, <2>2, <2>3, <2>4, <2>5
  <2>7. k \in 0..n /\ d[k] # c[k]
    BY <2>1, <2>2, <2>6
  <2>8. d[k] < c[k] /\ d[k - 1] < d[k]
    BY <1>1, <1>2, <2>2, <2>3, <2>4, <2>6, <2>7
  <2>9. PICK i \in 0..m : c[i] = d[k]
    BY <1>1, <1>3, <2>7
  <2>10. i < k
    BY <1>1, <1>2, <2>2, <2>8, <2>9
  <2>11. i <= k - 1
    BY <2>2, <2>10
  <2>12. c[i] <= c[k - 1]
    BY <1>1, <1>2, <2>2, <2>11
  <2>13. QED
    BY <1>1, <2>2, <2>3, <2>7, <2>8, <2>9, <2>12
<1>6. \A k \in 0..m : ~(n < k) /\ c[k] = d[k]
  BY <1>5
<1>7. m \in 0..m
  OBVIOUS
<1>8. QED
  BY <1>6, <1>7

LEMMA SplitListed ==
  ASSUME NEW text \in Seq(Bytes), NEW lines \in Seq(Seq(Bytes)), NEW rest,
         IsSplit(text, lines, rest)
  PROVE  \E cut : /\ Listed(Cuts(text), cut, Len(lines))
                  /\ \A k \in 1..Len(lines) :
                        lines[k] = SubSeq(text, cut[k - 1] + 1, cut[k] - 1)
                  /\ rest = SubSeq(text, cut[Len(lines)] + 1, Len(text))
<1>1. PICK cut \in [0..Len(lines) -> Cuts(text)] :
        /\ \A j, k \in DOMAIN cut : j < k => cut[j] < cut[k]
        /\ Cuts(text) \subseteq Range(cut)
        /\ lines = [k \in 1..Len(lines) |-> SubSeq(text, cut[k - 1] + 1, cut[k] - 1)]
        /\ rest = SubSeq(text, cut[Len(lines)] + 1, Len(text))
  BY DEF IsSplit
<1>2. DOMAIN cut = 0..Len(lines)
  OBVIOUS
<1>3. \A i \in Cuts(text) : \E k \in 0..Len(lines) : cut[k] = i
  BY <1>1, <1>2 DEF Range
<1>4. Listed(Cuts(text), cut, Len(lines))
  BY <1>1, <1>2, <1>3 DEF Listed, Ordered
<1>5. \A k \in 1..Len(lines) : lines[k] = SubSeq(text, cut[k - 1] + 1, cut[k] - 1)
  BY <1>1
<1>6. QED
  BY <1>1, <1>4, <1>5

\* A text has one splitting: the log depends on the bytes that have arrived,
\* never on the chunks they came in.
THEOREM SplitUnique ==
  ASSUME NEW text \in Seq(Bytes),
         NEW lines \in Seq(Seq(Bytes)), NEW rest, IsSplit(text, lines, rest),
         NEW others \in Seq(Seq(Bytes)), NEW remains, IsSplit(text, others, remains)
  PROVE  lines = others /\ rest = remains
<1>1. PICK c : /\ Listed(Cuts(text), c, Len(lines))
               /\ \A k \in 1..Len(lines) : lines[k] = SubSeq(text, c[k - 1] + 1, c[k] - 1)
               /\ rest = SubSeq(text, c[Len(lines)] + 1, Len(text))
  BY SplitListed
<1>2. PICK d : /\ Listed(Cuts(text), d, Len(others))
               /\ \A k \in 1..Len(others) : others[k] = SubSeq(text, d[k - 1] + 1, d[k] - 1)
               /\ remains = SubSeq(text, d[Len(others)] + 1, Len(text))
  BY SplitListed
<1>3. PICK m, n : m = Len(lines) /\ n = Len(others) /\ m \in Nat /\ n \in Nat
  <2>1. Len(lines) \in Nat /\ Len(others) \in Nat
    OBVIOUS
  <2>2. QED
    BY <2>1
<1>4. PICK C : C = Cuts(text) /\ C \subseteq Nat /\ 0 \in C
  <2>1. Cuts(text) \subseteq Nat /\ 0 \in Cuts(text)
    BY DEF Cuts
  <2>2. QED
    BY <2>1
<1>5. m <= n /\ n <= m /\ \A k \in 0..m : c[k] = d[k]
  <2>1. Listed(C, c, m) /\ Listed(C, d, n)
    BY <1>1, <1>2, <1>3, <1>4
  <2>2. m <= n
    BY <1>3, <1>4, <2>1, CutsAgree, Zenon
  <2>3. n <= m
    BY <1>3, <1>4, <2>1, CutsAgree, Zenon
  <2>4. \A k \in 0..m : c[k] = d[k]
    BY <1>3, <1>4, <2>1, CutsAgree, SMTT(60)
  <2>5. QED
    BY <2>2, <2>3, <2>4
<1>6. m = n /\ m \in 0..m
  BY <1>3, <1>5
<1>7. rest = remains
  <2>1. c[m] = d[n]
    BY <1>5, <1>6
  <2>2. QED
    BY <1>1, <1>2, <1>3, <2>1
<1>8. ASSUME NEW k \in 1..m PROVE lines[k] = others[k]
  <2>1. k - 1 \in 0..m /\ k \in 0..m
    BY <1>3
  <2>2. c[k - 1] = d[k - 1] /\ c[k] = d[k]
    BY <1>5, <2>1
  <2>3. QED
    BY <1>1, <1>2, <1>3, <1>6, <2>2
<1>9. lines = others
  BY <1>3, <1>6, <1>8, SeqEqual
<1>10. QED
  BY <1>7, <1>9

-----------------------------------------------------------------------------
\* The invariant is inductive, for output of any length.
THEOREM Inductive == Spec => []IInv
<1>1. QED
  BY InitIInv, StepIInv, PTL DEF Spec

\* The states of the helper and of its buffers; a captured stream is not logged.
THEOREM TypeCorrect == Spec => []TypeOK
<1>1. IInv => TypeOK
  BY DEF IInv
<1>2. QED
  BY <1>1, Inductive, PTL

\* Whatever the output and however it is cut and mixed, the log has exactly
\* the lines that have arrived in full, and the buffer has the rest.
THEOREM LinesExact == Spec => []LinesFaithful
<1>1. IInv => LinesFaithful
  <2> SUFFICES ASSUME IInv, Waiting, NEW s \in Streams, mode[s] = "log"
               PROVE  IsSplit(SubSeq(command[s], 1, received[s]), logged[s], buf[s])
    BY DEF LinesFaithful
  <2>1. /\ command[s] \in Seq(Bytes) /\ received[s] \in 0..Len(command[s])
        /\ logged[s] \in Seq(Seq(Bytes))
    BY DEF IInv, Given, TypeOK
  <2>2. Parted(command[s], received[s], logged[s], buf[s]) /\ ~Contains(buf[s], "nl")
    BY DEF IInv, Kept, Waiting, Streams
  <2>3. QED
    BY <2>1, <2>2, PartedWhole
<1>2. QED
  BY <1>1, Inductive, PTL

\* Success means status 0 and all of the output, in whatever order they came.
THEOREM OutputComplete == Spec => []OutputWhole
<1>1. IInv => OutputWhole
  BY DEF IInv
<1>2. QED
  BY <1>1, Inductive, PTL

\* Failure means another status, none, or a line that is not UTF-8.
THEOREM ErrorsJustified == Spec => []ErrorJustified
<1>1. IInv => ErrorJustified
  BY DEF IInv
<1>2. QED
  BY <1>1, Inductive, PTL
=============================================================================
