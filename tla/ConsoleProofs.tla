---------------------------- MODULE ConsoleProofs ----------------------------
(***************************************************************************)
(* Theorems of Console for any letters, frame buffer, colours and limit.   *)
(*                                                                         *)
(* The inductive invariant adds to the four properties where a program     *)
(* that has ended itself can be (Halting), that an access is within the    *)
(* limit, that only the program without a window reads and returns, and    *)
(* how a batch is taken apart into document and text, which together end   *)
(* what was meant (BatchInv).                                              *)
(***************************************************************************)
EXTENDS Console, SequenceTheorems, WellFoundedInduction, TLAPS

Halting ==
    /\ ended # Running => shutdown /\ (~window => at \in {"loop", "end"})
    /\ left > 0 => steps < MaxSteps
    /\ at \in {"limit", "read", "waiting", "end"} => ~window

-----------------------------------------------------------------------------
(* The terminal *)

TerminalInv == TerminalTypeOK /\ ScheduledOnce

LEMMA ShorterType ==
  ASSUME NEW text \in Seq(Letters)
  PROVE  Shorter(text) \in Seq(Letters)
<1>1. CASE text = <<>>  BY <1>1 DEF Shorter
<1>2. CASE text # <<>>  BY <1>2 DEF Shorter, Front
<1> QED BY <1>1, <1>2

LEMMA ImmediateType ==
  ASSUME NEW text \in Seq(Letters), NEW b \in Output
  PROVE  Immediate(text, b) \in Seq(Letters)
<1>1. CASE b = Return     BY <1>1 DEF Immediate, Backspace, Return
<1>2. CASE b = Backspace  BY <1>2, ShorterType DEF Immediate, Backspace, Return
<1>3. CASE b \in Letters /\ b # Return /\ b # Backspace
  <2>1. Immediate(text, b) = Append(text, b)  BY <1>3 DEF Immediate
  <2> QED BY <2>1, <1>3
<1> QED BY <1>1, <1>2, <1>3 DEF Output

LEMMA AppendKeeps ==
  ASSUME TerminalInv, NEW b \in Output, AppendOutputByte(b)
  PROVE  TerminalInv'
<1>1. meant' \in Seq(Letters) /\ shown' \in Seq(Letters) /\ long' \in BOOLEAN
  <2>1. long' \in BOOLEAN
    BY DEF AppendOutputByte, TerminalInv, TerminalTypeOK
  <2>. QED
    BY <2>1, ImmediateType DEF AppendOutputByte, TerminalInv, TerminalTypeOK
<1>2. pending' \in Seq(Output) /\ pending' # <<>>
  BY DEF AppendOutputByte, TerminalInv, TerminalTypeOK
<1>3. CASE scheduled
  BY <1>1, <1>2, <1>3 DEF AppendOutputByte, TerminalInv, TerminalTypeOK, ScheduledOnce
<1>4. CASE ~scheduled
  BY <1>1, <1>2, <1>4 DEF AppendOutputByte, TerminalInv, TerminalTypeOK, ScheduledOnce
<1> QED BY <1>3, <1>4

LEMMA StartTimerKeeps ==
  ASSUME TerminalInv, StartTimer
  PROVE  TerminalInv'
BY DEF StartTimer, TerminalInv, TerminalTypeOK, ScheduledOnce

LEMMA FlushKeeps ==
  ASSUME TerminalInv, FlushOutput, shown' \in Seq(Letters)
  PROVE  TerminalInv'
<1>1. posted = 0 /\ scheduled
  BY DEF FlushOutput, TerminalInv, TerminalTypeOK, ScheduledOnce
<1>2. /\ posted' = 0 /\ timer' = FALSE /\ scheduled' = FALSE /\ pending' = <<>>
      /\ meant' = meant /\ long' = long
  BY <1>1 DEF FlushOutput
<1>3. pending' \in Seq(Output)
  BY <1>2
<1>4. TerminalTypeOK'
  BY <1>2, <1>3 DEF TerminalInv, TerminalTypeOK
<1>6. ScheduledOnce'
  <2>1. ~timer' /\ ~scheduled'  BY <1>2
  <2> QED BY <1>2, <2>1 DEF ScheduledOnce
<1> QED BY <1>4, <1>6 DEF TerminalInv

LEMMA TerminalStutter ==
  ASSUME TerminalInv, UNCHANGED terminalVars
  PROVE  TerminalInv'
BY DEF TerminalInv, TerminalTypeOK, ScheduledOnce, terminalVars

-----------------------------------------------------------------------------
(* Batches.  What a batch leaves follows its bytes one by one: the recursive *)
(* function it is read from has a solution, which is built byte by byte.     *)

\* Induction over numbers: the least number that is missing from T would have a
\* predecessor in T.
LEMMA CountUp ==
    ASSUME NEW n \in Nat, NEW T, 0 \in T, \A i \in 0 .. n - 1 : i \in T => i + 1 \in T
    PROVE  n \in T
<1>. DEFINE Missing == {i \in Nat : i <= n /\ i \notin T}
<1>. SUFFICES ASSUME Missing # {} PROVE FALSE
  OBVIOUS
<1>1. PICK m \in Missing : \A k \in Missing : ~(<<k, m>> \in OpToRel(<, Nat))
  <2>1. Missing \subseteq Nat
    OBVIOUS
  <2>. HIDE DEF Missing
  <2>. QED
    BY <2>1, WFMin, NatLessThanWellFounded
<1>2. \A k \in Missing : ~(k < m)
  BY <1>1 DEF OpToRel
<1>3. m # 0 /\ m \in Nat /\ m <= n
  OBVIOUS
<1>4. m - 1 \in 0 .. n - 1 /\ m - 1 \in T
  BY <1>2, <1>3
<1>. QED
  BY <1>4

\* The function that Interpreted reads its result from.
Solves(f, start, bytes, n) ==
    f = [k \in 0 .. n |-> IF k = 0 THEN start ELSE Interpret(f[k - 1], bytes[k])]

Unrolled(start, bytes, n) == CHOOSE f : Solves(f, start, bytes, n)

LEMMA InterpretedIs ==
  ASSUME NEW start, NEW bytes
  PROVE  Interpreted(start, bytes) = Unrolled(start, bytes, Len(bytes))[Len(bytes)]
BY DEF Interpreted, Unrolled, Solves

LEMMA Solution ==
  ASSUME NEW start, NEW bytes, NEW n \in Nat
  PROVE  \E f : Solves(f, start, bytes, n)
<1>. DEFINE Solved == {k \in Nat : \E f : Solves(f, start, bytes, k)}
<1>1. 0 \in Solved
  <2>. DEFINE f == [k \in 0 .. 0 |-> start]
  <2>1. Solves(f, start, bytes, 0)
    BY DEF Solves
  <2>. QED
    BY <2>1
<1>2. ASSUME NEW k \in 0 .. n - 1, k \in Solved PROVE k + 1 \in Solved
  <2>1. PICK f : Solves(f, start, bytes, k)
    BY <1>2
  <2>. DEFINE g == [i \in 0 .. k + 1 |->
                      IF i = k + 1 THEN Interpret(f[k], bytes[k + 1]) ELSE f[i]]
  <2>2. ASSUME NEW i \in 0 .. k
        PROVE  f[i] = IF i = 0 THEN start ELSE Interpret(f[i - 1], bytes[i])
    BY <2>1 DEF Solves
  <2>3. ASSUME NEW i \in 0 .. k + 1
        PROVE  g[i] = IF i = 0 THEN start ELSE Interpret(g[i - 1], bytes[i])
    <3>1. CASE i = k + 1
      <4>1. k \in 0 .. k + 1 /\ k # k + 1 /\ i - 1 = k /\ i # 0
        BY <3>1
      <4>2. g[k] = f[k]
        BY <4>1
      <4>. QED
        BY <3>1, <4>1, <4>2
    <3>2. CASE i # k + 1
      <4>1. i \in 0 .. k /\ g[i] = f[i]
        BY <3>2
      <4>2. i # 0 => g[i - 1] = f[i - 1]
        BY <4>1
      <4>. HIDE DEF g
      <4>. QED
        BY <2>2, <4>1, <4>2
    <3>. QED
      BY <3>1, <3>2
  <2>4. g = [i \in 0 .. k + 1 |-> g[i]]
    OBVIOUS
  <2>. HIDE DEF g
  <2>5. Solves(g, start, bytes, k + 1)
    BY <2>3, <2>4 DEF Solves
  <2>. QED
    BY <2>5
<1>. HIDE DEF Solved
<1>3. n \in Solved
  BY <1>1, <1>2, CountUp
<1>. QED
  BY <1>3 DEF Solved

LEMMA UnrolledSteps ==
  ASSUME NEW start, NEW bytes, NEW n \in Nat
  PROVE  /\ Unrolled(start, bytes, n)[0] = start
         /\ \A k \in 0 .. n - 1 : Unrolled(start, bytes, n)[k + 1]
                                    = Interpret(Unrolled(start, bytes, n)[k], bytes[k + 1])
<1>. DEFINE f == Unrolled(start, bytes, n)
<1>1. Solves(f, start, bytes, n)
  BY Solution DEF Unrolled
<1>. HIDE DEF f
<1>2. ASSUME NEW i \in 0 .. n
      PROVE  f[i] = IF i = 0 THEN start ELSE Interpret(f[i - 1], bytes[i])
  BY <1>1 DEF Solves
<1>3. f[0] = start
  BY <1>2
<1>4. ASSUME NEW k \in 0 .. n - 1
      PROVE  f[k + 1] = Interpret(f[k], bytes[k + 1])
  <2>1. k + 1 \in 0 .. n /\ k + 1 # 0 /\ k + 1 - 1 = k
    OBVIOUS
  <2>. QED
    BY <1>2, <2>1
<1>. QED
  BY <1>3, <1>4 DEF f

\* Nothing is interpreted of an empty batch.
LEMMA InterpretedNone ==
  ASSUME NEW start
  PROVE  Interpreted(start, <<>>) = start
<1>1. Len(<<>>) = 0 /\ 0 \in Nat
  OBVIOUS
<1>2. Interpreted(start, <<>>) = Unrolled(start, <<>>, 0)[0]
  BY <1>1, InterpretedIs
<1>3. Unrolled(start, <<>>, 0)[0] = start
  BY <1>1, UnrolledSteps, Zenon
<1>. QED
  BY <1>2, <1>3

\* What was interpreted does not depend on the bytes that come later.
LEMMA UnrolledAgree ==
  ASSUME NEW start, NEW bytes, NEW longer, NEW n \in Nat, NEW m \in Nat, n <= m,
         \A i \in 1 .. n : longer[i] = bytes[i]
  PROVE  Unrolled(start, bytes, n)[n] = Unrolled(start, longer, m)[n]
<1>. DEFINE f == Unrolled(start, bytes, n)
            g == Unrolled(start, longer, m)
            Agree == {k \in Nat : f[k] = g[k]}
<1>1. f[0] = start /\ \A k \in 0 .. n - 1 : f[k + 1] = Interpret(f[k], bytes[k + 1])
  BY UnrolledSteps
<1>2. g[0] = start /\ \A k \in 0 .. m - 1 : g[k + 1] = Interpret(g[k], longer[k + 1])
  BY UnrolledSteps
<1>. HIDE DEF f, g
<1>3. 0 \in Agree
  BY <1>1, <1>2
<1>4. ASSUME NEW k \in 0 .. n - 1, k \in Agree PROVE k + 1 \in Agree
  <2>1. k \in 0 .. m - 1 /\ k + 1 \in 1 .. n /\ k + 1 \in Nat
    OBVIOUS
  <2>2. f[k] = g[k]
    BY <1>4
  <2>. QED
    BY <1>1, <1>2, <2>1, <2>2
<1>5. n \in Agree
  <2>. HIDE DEF Agree
  <2>. QED
    BY <1>3, <1>4, CountUp
<1>. QED
  BY <1>5 DEF f, g

\* The byte that comes last is interpreted last.
LEMMA InterpretedOneMore ==
  ASSUME NEW start, NEW bytes \in Seq(Output), NEW b \in Output
  PROVE  Interpreted(start, Append(bytes, b))
           = Interpret(Interpreted(start, bytes), b)
<1>. DEFINE longer == Append(bytes, b)
<1>1. PICK n \in Nat : n = Len(bytes)
  OBVIOUS
<1>2. PICK m \in Nat : m = n + 1
  OBVIOUS
<1>3. /\ Len(bytes) = n /\ Len(longer) = m
      /\ longer[n + 1] = b /\ \A i \in 1 .. n : longer[i] = bytes[i]
  BY <1>1, <1>2
<1>. HIDE DEF longer
<1>4. Interpreted(start, bytes) = Unrolled(start, bytes, n)[n]
  BY <1>3, InterpretedIs
<1>5. Interpreted(start, longer) = Unrolled(start, longer, m)[m]
  BY <1>3, InterpretedIs
<1>6. Unrolled(start, bytes, n)[n] = Unrolled(start, longer, m)[n]
  BY <1>2, <1>3, UnrolledAgree
<1>7. Unrolled(start, longer, m)[n + 1]
        = Interpret(Unrolled(start, longer, m)[n], longer[n + 1])
  <2>1. n \in 0 .. m - 1
    BY <1>2
  <2>. QED
    BY <2>1, UnrolledSteps
<1>. QED
  BY <1>2, <1>3, <1>4, <1>5, <1>6, <1>7 DEF longer

-----------------------------------------------------------------------------
(* The text a batch leaves *)

\* A document and the text that will be inserted into it.
Parts == [document : Seq(Letters), text : Seq(Letters)]

\* What of the batch is in the document, and what was collected since.
Collected == Interpreted([document |-> shown, text |-> <<>>], pending)

\* What the batch leaves before lines are dropped.
Joined == Collected.document \o Collected.text

BatchInv ==
    /\ pending \in Seq(Output) /\ shown \in Seq(Letters) /\ meant \in Seq(Letters)
    /\ long \in BOOLEAN
    /\ Collected \in Parts
    /\ EndOf(Joined, meant)
    /\ ~long => Joined = meant /\ Excess(meant) = {}

\* Dropping lines leaves the end of a text.
LEMMA KeptIsEnd ==
  ASSUME NEW text \in Seq(Letters)
  PROVE  Kept(text) \in Seq(Letters) /\ EndOf(Kept(text), text)
<1>1. CASE Excess(text) = {}
  BY <1>1 DEF Kept, EndOf
<1>2. CASE Excess(text) # {}
  <2>1. PICK i \in Excess(text) : Kept(text) = SubSeq(text, i + 1, Len(text))
    BY <1>2 DEF Kept
  <2>2. i \in 1 .. Len(text) /\ Len(text) \in Nat
    BY DEF Excess, Newlines
  <2>3. PICK rest : rest = SubSeq(text, i + 1, Len(text))
    OBVIOUS
  <2>4. rest \in Seq(Letters) /\ Len(rest) = Len(text) - i
    BY <2>2, <2>3
  <2>5. \A k \in 1 .. Len(rest) : rest[k] = text[i + k]
    BY <2>2, <2>3
  <2>6. \A k \in 1 .. Len(rest) : Len(text) - Len(rest) + k = i + k
    BY <2>2, <2>4
  <2>7. Kept(text) = rest /\ Len(rest) <= Len(text)
    BY <2>1, <2>2, <2>3, <2>4
  <2>8. \A k \in 1 .. Len(rest) : rest[k] = text[Len(text) - Len(rest) + k]
    BY <2>5, <2>6
  <2>. QED
    BY <2>4, <2>7, <2>8 DEF EndOf
<1>. QED
  BY <1>1, <1>2

LEMMA EndOfEnd ==
  ASSUME NEW a \in Seq(Letters), NEW b \in Seq(Letters), NEW c \in Seq(Letters),
         EndOf(a, b), EndOf(b, c)
  PROVE  EndOf(a, c)
<1>1. Len(a) <= Len(b) /\ Len(b) <= Len(c) /\ Len(a) \in Nat /\ Len(b) \in Nat /\ Len(c) \in Nat
  BY DEF EndOf
<1>2. ASSUME NEW i \in 1 .. Len(a) PROVE a[i] = c[Len(c) - Len(a) + i]
  <2>1. a[i] = b[Len(b) - Len(a) + i]
    BY DEF EndOf
  <2>. DEFINE j == Len(b) - Len(a) + i
  <2>2. j \in 1 .. Len(b)
    BY <1>1
  <2>3. b[j] = c[Len(c) - Len(b) + j]
    <3>. HIDE DEF j
    <3>. QED
      BY <2>2 DEF EndOf
  <2>4. Len(c) - Len(b) + j = Len(c) - Len(a) + i
    BY <1>1
  <2>. QED
    BY <2>1, <2>3, <2>4
<1>. QED
  BY <1>1, <1>2 DEF EndOf

LEMMA SameStart ==
  ASSUME NEW a \in Seq(Letters), Len(a) > 0
  PROVE  /\ Len(SubSeq(a, 1, Len(a) - 1)) = Len(a) - 1
         /\ \A i \in 1 .. Len(a) - 1 : SubSeq(a, 1, Len(a) - 1)[i] = a[i]
<1>1. PICK n \in Nat : n = Len(a)
  OBVIOUS
<1>2. n - 1 \in 0 .. n /\ n - 1 <= n
  BY <1>1
<1>. QED
  BY <1>1, <1>2

LEMMA ShorterEnd ==
  ASSUME NEW a \in Seq(Letters), NEW c \in Seq(Letters), EndOf(a, c)
  PROVE  EndOf(Shorter(a), Shorter(c))
<1>1. Len(a) <= Len(c) /\ Len(a) \in Nat /\ Len(c) \in Nat
  BY DEF EndOf
<1>2. CASE a = <<>>
  <2>1. Shorter(a) = <<>>
    BY <1>2 DEF Shorter
  <2>2. Len(Shorter(c)) \in Nat
    BY ShorterType
  <2>. QED
    BY <2>1, <2>2 DEF EndOf
<1>3. CASE a # <<>>
  <2>1. Len(a) > 0
    BY <1>3
  <2>2. PICK x : x = SubSeq(a, 1, Len(a) - 1)
    OBVIOUS
  <2>3. PICK z : z = SubSeq(c, 1, Len(c) - 1)
    OBVIOUS
  <2>4. Shorter(a) = x /\ Shorter(c) = z
    BY <1>1, <1>3, <2>1, <2>2, <2>3 DEF Shorter, Front
  <2>5. Len(x) = Len(a) - 1 /\ \A i \in 1 .. Len(a) - 1 : x[i] = a[i]
    BY <2>1, <2>2, SameStart
  <2>6. Len(z) = Len(c) - 1 /\ \A i \in 1 .. Len(c) - 1 : z[i] = c[i]
    BY <1>1, <2>1, <2>3, SameStart
  <2>7. ASSUME NEW i \in 1 .. Len(x) PROVE x[i] = z[Len(z) - Len(x) + i]
    <3>1. i \in 1 .. Len(a) /\ a[i] = c[Len(c) - Len(a) + i]
      BY <1>1, <2>5 DEF EndOf
    <3>2. Len(z) - Len(x) + i = Len(c) - Len(a) + i /\ Len(c) - Len(a) + i \in 1 .. Len(c) - 1
      BY <1>1, <2>5, <2>6
    <3>. QED
      BY <2>5, <2>6, <3>1, <3>2
  <2>. QED
    BY <1>1, <2>4, <2>5, <2>6, <2>7 DEF EndOf
<1>. QED
  BY <1>2, <1>3

LEMMA AppendEnd ==
  ASSUME NEW a \in Seq(Letters), NEW c \in Seq(Letters), NEW b \in Letters, EndOf(a, c)
  PROVE  EndOf(Append(a, b), Append(c, b))
<1>1. Len(a) <= Len(c) /\ Len(a) \in Nat /\ Len(c) \in Nat
  BY DEF EndOf
<1>2. Len(Append(a, b)) = Len(a) + 1 /\ Len(Append(c, b)) = Len(c) + 1
  OBVIOUS
<1>3. ASSUME NEW i \in 1 .. Len(a) + 1
      PROVE  Append(a, b)[i] = Append(c, b)[Len(c) - Len(a) + i]
  <2>1. CASE i = Len(a) + 1
    BY <1>1, <2>1
  <2>2. CASE i # Len(a) + 1
    <3>1. i \in 1 .. Len(a) /\ Len(c) - Len(a) + i \in 1 .. Len(c)
      BY <1>1, <2>2
    <3>2. a[i] = c[Len(c) - Len(a) + i]
      BY <3>1 DEF EndOf
    <3>. QED
      BY <3>1, <3>2
  <2>. QED
    BY <2>1, <2>2
<1>. DEFINE x == Append(a, b)
            z == Append(c, b)
<1>4. Len(x) <= Len(z) /\ \A i \in 1 .. Len(x) : x[i] = z[Len(z) - Len(x) + i]
  <2>1. Len(z) - Len(x) = Len(c) - Len(a) /\ Len(x) <= Len(z)
    BY <1>1, <1>2
  <2>2. 1 .. Len(x) = 1 .. Len(a) + 1
    BY <1>2
  <2>3. \A i \in 1 .. Len(a) + 1 : x[i] = z[Len(c) - Len(a) + i]
    BY <1>3
  <2>. HIDE DEF x, z
  <2>. QED
    BY <2>1, <2>2, <2>3
<1>. QED
  BY <1>4 DEF EndOf

\* A byte is shown alike in a text and in its end.
LEMMA ImmediateEnd ==
  ASSUME NEW a \in Seq(Letters), NEW c \in Seq(Letters), NEW b \in Output, EndOf(a, c)
  PROVE  EndOf(Immediate(a, b), Immediate(c, b))
<1>1. CASE b = Return     BY <1>1 DEF Immediate, Backspace, Return
<1>2. CASE b = Backspace  BY <1>2, ShorterEnd DEF Immediate, Backspace, Return
<1>3. CASE b \in Letters /\ b # Return /\ b # Backspace
  <2>1. Immediate(a, b) = Append(a, b) /\ Immediate(c, b) = Append(c, b)
    BY <1>3 DEF Immediate
  <2>. QED
    BY <1>3, <2>1, AppendEnd
<1>. QED
  BY <1>1, <1>2, <1>3 DEF Output

\* At the end of a batch the document shows what was meant.
LEMMA JoinedShows ==
  ASSUME BatchInv
  PROVE  Kept(Joined) \in Seq(Letters) /\ Shows(Kept(Joined))
<1>1. Joined \in Seq(Letters)
  BY DEF Joined, BatchInv, Parts
<1>2. Kept(Joined) \in Seq(Letters) /\ EndOf(Kept(Joined), Joined)
  BY <1>1, KeptIsEnd
<1>3. EndOf(Kept(Joined), meant)
  BY <1>1, <1>2, EndOfEnd DEF BatchInv
<1>4. ~long => Kept(Joined) = meant
  BY DEF BatchInv, Kept
<1>. QED
  BY <1>2, <1>3, <1>4 DEF Shows

LEMMA JoinedFront ==
  ASSUME NEW d \in Seq(Letters), NEW t \in Seq(Letters), NEW b \in Letters
  PROVE  Append(d \o t, b) = d \o Append(t, b)
OBVIOUS

LEMMA InterpretMeans ==
  ASSUME NEW part \in Parts, NEW b \in Output
  PROVE  /\ Interpret(part, b) \in Parts
         /\ Interpret(part, b).document \o Interpret(part, b).text
              = Immediate(part.document \o part.text, b)
<1>. DEFINE d == part.document
            t == part.text
<1>0. d \in Seq(Letters) /\ t \in Seq(Letters) /\ d \o t \in Seq(Letters)
  BY DEF Parts
<1>1. CASE b = Return
  BY <1>1 DEF Interpret, Immediate, Backspace, Return
<1>2. CASE b = Backspace
  <2>1. Interpret(part, b) = [document |-> Shorter(d \o t), text |-> <<>>]
    BY <1>2 DEF Interpret, Backspace, Return
  <2>2. Immediate(d \o t, b) = Shorter(d \o t)
    BY <1>2 DEF Immediate, Backspace, Return
  <2>3. Shorter(d \o t) \in Seq(Letters)
    <3>. HIDE DEF d, t
    <3>. QED
      BY <1>0, ShorterType
  <2>4. <<>> \in Seq(Letters) /\ Shorter(d \o t) \o <<>> = Shorter(d \o t)
    BY <2>3
  <2>. QED
    BY <2>1, <2>2, <2>3, <2>4 DEF Parts
<1>3. CASE b \in Letters /\ b # Return /\ b # Backspace
  <2>1. Interpret(part, b) = [part EXCEPT !.text = Append(@, b)]
    BY <1>3 DEF Interpret
  <2>2. Immediate(d \o t, b) = Append(d \o t, b)
    BY <1>3 DEF Immediate
  <2>3. Interpret(part, b).document = d /\ Interpret(part, b).text = Append(t, b)
    BY <2>1 DEF Parts
  <2>4. Append(t, b) \in Seq(Letters)
    BY <1>0, <1>3
  <2>5. Interpret(part, b) \in Parts
    BY <2>1, <2>4 DEF Parts
  <2>. QED
    BY <1>0, <1>3, <2>2, <2>3, <2>5, JoinedFront
<1> QED BY <1>1, <1>2, <1>3 DEF Output

LEMMA AppendBatch ==
  ASSUME BatchInv, NEW b \in Output, AppendOutputByte(b)
  PROVE  BatchInv'
<1>1. pending' = Append(pending, b) /\ shown' = shown /\ meant' = Immediate(meant, b)
  BY DEF AppendOutputByte
<1>2. Collected' = Interpret(Collected, b)
  BY <1>1, InterpretedOneMore DEF Collected, BatchInv
<1>3. Collected' \in Parts /\ Joined' = Immediate(Joined, b)
  BY <1>2, InterpretMeans DEF BatchInv, Joined
<1>4. meant' \in Seq(Letters)
  BY <1>1, ImmediateType DEF BatchInv
<1>5. Joined \in Seq(Letters)
  BY DEF Joined, BatchInv, Parts
<1>6. EndOf(Joined', meant')
  BY <1>1, <1>3, <1>5, ImmediateEnd DEF BatchInv
<1>7. long' \in BOOLEAN /\ (~long' => ~long /\ Excess(meant') = {})
  BY DEF AppendOutputByte, BatchInv
<1>8. ~long' => Joined' = meant'
  BY <1>1, <1>3, <1>7 DEF BatchInv
<1>9. pending' \in Seq(Output)
  BY <1>1 DEF BatchInv
<1>10. shown' \in Seq(Letters)
  BY <1>1 DEF BatchInv
<1>. QED
  BY <1>3, <1>4, <1>6, <1>7, <1>8, <1>9, <1>10 DEF BatchInv

LEMMA StartTimerBatch ==
  ASSUME BatchInv, StartTimer
  PROVE  BatchInv'
BY DEF BatchInv, Joined, Collected, StartTimer, Excess, Newlines, EndOf

LEMMA BatchStutter ==
  ASSUME BatchInv, UNCHANGED terminalVars
  PROVE  BatchInv'
BY DEF BatchInv, Joined, Collected, terminalVars, Excess, Newlines, EndOf

LEMMA FlushBatch ==
  ASSUME BatchInv, FlushOutput
  PROVE  BatchInv'
<1>. DEFINE kept == Kept(Joined)
<1>0. kept \in Seq(Letters) /\ Shows(kept)
  BY JoinedShows
<1>1. pending' = <<>> /\ shown' = kept /\ meant' = meant /\ long' = long
  BY DEF FlushOutput, Flushed, Joined, Collected
<1>. HIDE DEF kept
<1>2. Collected' = [document |-> kept, text |-> <<>>]
  BY <1>1, InterpretedNone DEF Collected
<1>3. kept \o <<>> = kept /\ <<>> \in Seq(Letters) /\ <<>> \in Seq(Output)
  BY <1>0
<1>4. Collected' \in Parts /\ Joined' = kept
  BY <1>0, <1>2, <1>3 DEF Parts, Joined
<1>5. EndOf(Joined', meant')
  BY <1>0, <1>1, <1>4 DEF Shows
<1>6. ~long' => Joined' = meant' /\ Excess(meant') = {}
  BY <1>0, <1>1, <1>4 DEF Shows, BatchInv
<1>. QED
  BY <1>0, <1>1, <1>3, <1>4, <1>5, <1>6 DEF BatchInv

-----------------------------------------------------------------------------
(* The loops *)

\* What is left of the types without the terminal and the display.
LoopTypeOK ==
    /\ window \in BOOLEAN /\ at \in Places /\ left \in 0..2 /\ steps \in 0..MaxSteps
    /\ shutdown \in BOOLEAN /\ ended \in {Running, "BREAK", "unknown"}
    /\ exit \in {Running, "0", "1", "124"}
    /\ at \in {"read", "waiting", "write", "draw"} <=> left > 0
    /\ at = "end" <=> exit # Running

LoopInv == LoopTypeOK /\ ExitTells /\ Halting

DisplayInv ==
    /\ framebuffer \in [Offsets -> Pixels] /\ image \in [Offsets -> Colours]
    /\ screen \in [Offsets -> Colours] /\ dirty \in BOOLEAN
    /\ NothingLost

IInv == LoopInv /\ DisplayInv /\ TerminalInv /\ BatchInv

LEMMA LoopStutter ==
  ASSUME LoopInv, UNCHANGED loopVars
  PROVE  LoopInv'
BY DEF LoopInv, LoopTypeOK, ExitTells, Halting, loopVars

LEMMA DisplayStutter ==
  ASSUME DisplayInv, UNCHANGED displayVars, window' = window
  PROVE  DisplayInv'
BY DEF DisplayInv, NothingLost, Picture, displayVars

\* The bytes of an access leave the loops in order.
LEMMA NextByteKeeps ==
  ASSUME LoopInv, NextByte, at \in {"read", "write", "draw"},
         UNCHANGED <<window, shutdown, ended>>
  PROVE  LoopInv'
<1> USE MaxStepsAssumption
<1>0. left \in 1..2 /\ steps < MaxSteps /\ exit = Running
  BY DEF LoopInv, LoopTypeOK, Halting
<1>1. CASE left = 1
  <2>1. left' = 0 /\ steps' = steps + 1 /\ exit' = Running /\ at' = (IF window THEN "fetch" ELSE "loop")
    BY <1>0, <1>1 DEF NextByte, Complete, Stay
  <2> QED BY <1>0, <2>1 DEF LoopInv, LoopTypeOK, ExitTells, Halting, Places, Running
<1>2. CASE left = 2
  <2>1. left' = 1 /\ steps' = steps /\ exit' = Running /\ at' = at
    BY <1>0, <1>2 DEF NextByte, Stay
  <2> QED BY <1>0, <2>1 DEF LoopInv, LoopTypeOK, ExitTells, Halting, Places, Running
<1> QED BY <1>0, <1>1, <1>2

-----------------------------------------------------------------------------
(* The steps of the program *)

LEMMA LoopStep ==
  ASSUME LoopInv,
         \/ TestShutdown \/ TestLimit \/ LeaveBeforeFetch
         \/ BeginSlice \/ EndSlice
         \/ Compute \/ Break \/ UnknownInstruction \/ Fault
         \/ BeginAccess \/ Wait \/ Wake \/ Interrupt
  PROVE  LoopInv'
<1> USE MaxStepsAssumption DEF LoopInv, LoopTypeOK, ExitTells, Halting, Places, Running
<1>1. CASE TestShutdown       BY <1>1 DEF TestShutdown, Leave, Stay
<1>2. CASE TestLimit          BY <1>2 DEF TestLimit, Leave, Stay
<1>3. CASE LeaveBeforeFetch   BY <1>3 DEF LeaveBeforeFetch, Leave
<1>4. CASE BeginSlice         BY <1>4 DEF BeginSlice, Stay
<1>5. CASE EndSlice           BY <1>5 DEF EndSlice, Stay
<1>6. CASE Compute            BY <1>6 DEF Compute, Fetching, Complete, Stay
<1>7. CASE Break \/ UnknownInstruction
  <2>1. PICK instruction \in {"BREAK", "unknown"} : Ends(instruction)
    BY <1>7 DEF Break, UnknownInstruction
  <2> QED BY <2>1 DEF Ends, Fetching, Complete, Stay
<1>8. CASE Fault              BY <1>8 DEF Fault, Fetching, Leave, Stay
<1>9. CASE BeginAccess        BY <1>9 DEF BeginAccess, Fetching, Stay
<1>10. CASE Wait              BY <1>10 DEF Wait, Stay
<1>11. CASE Wake              BY <1>11 DEF Wake, Stay
<1>12. CASE Interrupt         BY <1>12 DEF Interrupt
<1> QED BY <1>1, <1>2, <1>3, <1>4, <1>5, <1>6, <1>7, <1>8, <1>9, <1>10, <1>11, <1>12

LEMMA DrawKeeps ==
  ASSUME DisplayInv, DrawByte
  PROVE  DisplayInv'
<1>1. PICK o \in Offsets, v \in Pixels :
         /\ framebuffer' = [framebuffer EXCEPT ![o] = v]
         /\ IF framebuffer[o] # v /\ window
            THEN image' = [image EXCEPT ![o] = Colour[v]] /\ dirty' = TRUE
            ELSE UNCHANGED <<image, dirty>>
  BY DEF DrawByte
<1>2. UNCHANGED <<window, screen>>  BY DEF DrawByte
<1>3. framebuffer \in [Offsets -> Pixels] /\ image \in [Offsets -> Colours]
  BY DEF DisplayInv
<1>4. CASE framebuffer[o] # v /\ window
  <2>1. image' = [image EXCEPT ![o] = Colour[v]] /\ dirty' = TRUE  BY <1>1, <1>4
  <2>2. image = Picture  BY <1>4 DEF DisplayInv, NothingLost
  <2>3. Picture' = [Picture EXCEPT ![o] = Colour[v]]
    BY <1>1, <1>3 DEF Picture
  <2>4. Colour[v] \in Colours  BY PixelsAssumption
  <2> QED BY <1>1, <1>2, <1>3, <2>1, <2>2, <2>3, <2>4 DEF DisplayInv, NothingLost
<1>5. CASE framebuffer[o] = v
  <2>1. framebuffer' = framebuffer  BY <1>1, <1>3, <1>5
  <2>2. UNCHANGED displayVars  BY <1>1, <1>2, <1>5, <2>1 DEF displayVars
  <2> QED BY <1>2, <2>2, DisplayStutter
<1>6. CASE ~window
  BY <1>1, <1>2, <1>3, <1>6 DEF DisplayInv, NothingLost
<1> QED BY <1>4, <1>5, <1>6

LEMMA PaintKeeps ==
  ASSUME DisplayInv, Paint
  PROVE  DisplayInv'
BY DEF Paint, DisplayInv, NothingLost, Picture, loopVars

LEMMA Initially == ConsoleInit => IInv
<1> SUFFICES ASSUME ConsoleInit PROVE LoopInv /\ DisplayInv /\ TerminalInv /\ BatchInv
  BY DEF IInv
<1>1. LoopInv
  <2>1. at = "loop" /\ exit = Running /\ left = 0 /\ steps = 0 /\ ended = Running /\ ~shutdown
    BY DEF ConsoleInit
  <2>2. LoopTypeOK
    <3>1. window \in BOOLEAN /\ shutdown \in BOOLEAN
      BY DEF ConsoleInit
    <3>2. left \in 0..2 /\ steps \in 0..MaxSteps
      BY <2>1, MaxStepsAssumption
    <3> QED BY <2>1, <3>1, <3>2 DEF LoopTypeOK, Places
  <2>3. ExitTells /\ Halting
    BY <2>1 DEF ExitTells, Halting, Running
  <2> QED BY <2>2, <2>3 DEF LoopInv
<1>2. DisplayInv
  BY PixelsAssumption DEF ConsoleInit, DisplayInv, NothingLost, Picture
<1>3. TerminalInv
  <2>1. <<>> \in Seq(Output) /\ <<>> \in Seq(Letters)
    OBVIOUS
  <2>2. TerminalTypeOK
    BY <2>1 DEF ConsoleInit, TerminalInit, TerminalTypeOK
  <2>3. ScheduledOnce
    <3>1. ~timer /\ ~scheduled /\ posted = 0 /\ pending = <<>>
      BY DEF ConsoleInit, TerminalInit
    <3> QED BY <3>1 DEF ScheduledOnce
  <2> QED BY <2>2, <2>3 DEF TerminalInv
<1>4. BatchInv
  <2>1. pending = <<>> /\ shown = <<>> /\ meant = <<>> /\ long = FALSE
    BY DEF ConsoleInit, TerminalInit
  <2>2. Collected = [document |-> <<>>, text |-> <<>>]
    BY <2>1, InterpretedNone DEF Collected
  <2>3. <<>> \in Seq(Letters) /\ <<>> \in Seq(Output) /\ <<>> \o <<>> = <<>>
    OBVIOUS
  <2>4. Collected \in Parts /\ Joined = <<>>
    BY <2>2, <2>3 DEF Joined, Parts
  <2>5. EndOf(<<>>, <<>>) /\ Excess(<<>>) = {}
    BY DEF EndOf, Excess, Newlines
  <2> QED BY <2>1, <2>3, <2>4, <2>5 DEF BatchInv
<1> QED BY <1>1, <1>2, <1>3, <1>4

LEMMA Inductive == IInv /\ [Next]_vars => IInv'
<1> SUFFICES ASSUME LoopInv, DisplayInv, TerminalInv, BatchInv, [Next]_vars
             PROVE  LoopInv' /\ DisplayInv' /\ TerminalInv' /\ BatchInv'
  BY DEF IInv
<1>1. CASE \/ TestShutdown \/ TestLimit \/ LeaveBeforeFetch
           \/ BeginSlice \/ EndSlice
           \/ Compute \/ Break \/ UnknownInstruction \/ Fault
           \/ BeginAccess \/ Wait \/ Wake \/ Interrupt
  <2>1. UNCHANGED terminalVars /\ UNCHANGED displayVars /\ window' = window
    BY <1>1 DEF TestShutdown, TestLimit, LeaveBeforeFetch, BeginSlice, EndSlice, Compute,
                Break, UnknownInstruction, Ends, Fault, BeginAccess, Wait, Wake, Interrupt
  <2> QED BY <1>1, <2>1, LoopStep, TerminalStutter, BatchStutter, DisplayStutter
<1>2. CASE WriteByte
  <2>1. LoopInv'  BY <1>2, NextByteKeeps DEF WriteByte
  <2>2. DisplayInv'  BY <1>2, DisplayStutter DEF WriteByte
  <2>3. TerminalInv' /\ BatchInv'
    BY <1>2, AppendKeeps, TerminalStutter, AppendBatch, BatchStutter DEF WriteByte
  <2> QED BY <2>1, <2>2, <2>3
<1>3. CASE DrawByte
  <2>1. LoopInv'  BY <1>3, NextByteKeeps DEF DrawByte
  <2>2. TerminalInv' /\ BatchInv'  BY <1>3, TerminalStutter, BatchStutter DEF DrawByte
  <2> QED BY <1>3, <2>1, <2>2, DrawKeeps
<1>4. CASE GiveUp
  <2>1. LoopInv'  BY <1>4, NextByteKeeps DEF GiveUp
  <2> QED BY <1>4, <2>1, TerminalStutter, BatchStutter, DisplayStutter DEF GiveUp
<1>5. CASE Posted
  BY <1>5, StartTimerKeeps, StartTimerBatch, LoopStutter, DisplayStutter DEF Posted, loopVars
<1>6. CASE Timeout
  <2>1. BatchInv' /\ shown' \in Seq(Letters)  BY <1>6, FlushBatch DEF Timeout, BatchInv
  <2> QED BY <1>6, <2>1, FlushKeeps, LoopStutter, DisplayStutter DEF Timeout, loopVars
<1>7. CASE Paint
  BY <1>7, PaintKeeps, LoopStutter, TerminalStutter, BatchStutter DEF Paint
<1>8. CASE UNCHANGED vars
  BY <1>8, LoopStutter, DisplayStutter, TerminalStutter, BatchStutter DEF vars, loopVars
<1> QED BY <1>1, <1>2, <1>3, <1>4, <1>5, <1>6, <1>7, <1>8 DEF Next, Program

-----------------------------------------------------------------------------
LEMMA AlwaysInv == Spec => []IInv
BY Initially, Inductive, PTL DEF Spec, Safe

\* The console keeps its types: an access has bytes left, the steps stay within the
\* limit, and main has a result exactly when it has ended.
THEOREM ConsoleTypeCorrect == Spec => []ConsoleTypeOK
<1>1. IInv => ConsoleTypeOK
  BY DEF IInv, LoopInv, LoopTypeOK, DisplayInv, TerminalInv, ConsoleTypeOK
<1> QED BY <1>1, AlwaysInv, PTL

\* Every batch of output has exactly one call or timer that will show it, and shows then
\* what its bytes would have shown one at a time, whatever bytes they are and however many:
\* all of it until there are more lines than the document keeps, and always the end.
THEOREM BatchesAlwaysSound == Spec => []BatchesSound
<1>1. IInv => BatchesSound
  BY JoinedShows DEF IInv, TerminalInv, BatchesSound, Flushed, Joined, Collected
<1> QED BY <1>1, AlwaysInv, PTL

\* For any limit and any program, interrupted anywhere: main returns 0 only with the
\* shutdown flag set, which does not tell BREAK from an instruction that does not exist or
\* from SIGINT; 1 or 124 only if no instruction has ended the program; and 124 only after
\* as many steps as are allowed.
THEOREM ExitAlwaysTells == Spec => []ExitTells
<1>1. IInv => ExitTells  BY DEF IInv, LoopInv
<1> QED BY <1>1, AlwaysInv, PTL

\* No pixel is lost between the frame buffer, the image and the screen.
THEOREM NothingIsLost == Spec => []NothingLost
<1>1. IInv => NothingLost  BY DEF IInv, DisplayInv
<1> QED BY <1>1, AlwaysInv, PTL

-----------------------------------------------------------------------------
(* After the flag is set *)

\* How far the program without a window is from its end. No access has more than two
\* bytes left, so none of these is passed more than once.
Halted    == shutdown /\ ~window /\ IInv
Sleeping  == Halted /\ at = "waiting"
TwoLeft   == Halted /\ at \in {"read", "write", "draw"} /\ left = 2
OneLeft   == Halted /\ at \in {"read", "write", "draw"} /\ left = 1
AtLoop    == Halted /\ at = "loop"
AtLimit   == Halted /\ at = "limit"
AtFetch   == Halted /\ at = "fetch"
HasEnded     == exit # Running
Unfinished == shutdown /\ ~window /\ exit = Running

LEMMA SomePlace ==
  Halted => Sleeping \/ TwoLeft \/ OneLeft \/ AtLoop \/ AtLimit \/ AtFetch \/ HasEnded
BY DEF Halted, Sleeping, TwoLeft, OneLeft, AtLoop, AtLimit, AtFetch, HasEnded,
       IInv, LoopInv, LoopTypeOK, Places

LEMMA PlacesUnfinished ==
  Sleeping \/ TwoLeft \/ OneLeft \/ AtLoop \/ AtLimit \/ AtFetch => Unfinished
BY DEF Halted, Sleeping, TwoLeft, OneLeft, AtLoop, AtLimit, AtFetch, Unfinished,
       IInv, LoopInv, LoopTypeOK

\* Nothing but the program moves: the flag is set, and no event loop runs.
LEMMA HaltedStays ==
  ASSUME Halted, [Next]_vars
  PROVE  Halted' /\ (Program \/ UNCHANGED vars)
<1>1. IInv'  BY Inductive DEF Halted
<1>2. Program \/ UNCHANGED vars
  BY DEF Next, Halted, Interrupt, Posted, Timeout, Paint, Idle
<1>3. shutdown' /\ ~window'
  <2>1. CASE UNCHANGED vars
    BY <2>1 DEF vars, loopVars, Halted
  <2>2. CASE Break \/ UnknownInstruction
    BY <2>2 DEF Break, UnknownInstruction, Ends, Halted
  <2>3. CASE Program /\ ~Break /\ ~UnknownInstruction
    <3>1. window' = window /\ shutdown' = shutdown
      BY <2>3 DEF Program, TestShutdown, TestLimit, LeaveBeforeFetch, BeginSlice, EndSlice,
         Compute, Fault, BeginAccess, WriteByte, DrawByte, GiveUp, Wait, Wake
    <3> QED BY <3>1 DEF Halted
  <2> QED BY <1>2, <2>1, <2>2, <2>3
<1> QED BY <1>1, <1>2, <1>3 DEF Halted

LEMMA PlaceKept ==
  ASSUME UNCHANGED vars, Halted'
  PROVE  /\ Sleeping => Sleeping'
         /\ TwoLeft => TwoLeft'
         /\ OneLeft => OneLeft'
         /\ AtLoop => AtLoop'
         /\ AtLimit => AtLimit'
         /\ AtFetch => AtFetch'
BY DEF vars, loopVars, Sleeping, TwoLeft, OneLeft, AtLoop, AtLimit, AtFetch

\* Every step of the program goes on, also from a read: Wait needs the flag clear.
LEMMA PlaceLeft ==
  ASSUME Program, Halted, Halted'
  PROVE  /\ Sleeping => TwoLeft' \/ OneLeft'
         /\ TwoLeft => OneLeft'
         /\ OneLeft => AtLoop'
         /\ AtLoop => HasEnded'
         /\ AtLimit => AtFetch' \/ HasEnded'
         /\ AtFetch => HasEnded'
<1> USE DEF Halted, Sleeping, TwoLeft, OneLeft, AtLoop, AtLimit, AtFetch, HasEnded,
            IInv, LoopInv, LoopTypeOK, Running
<1>1. CASE TestShutdown      BY <1>1 DEF TestShutdown, Leave, Stay
<1>2. CASE TestLimit         BY <1>2 DEF TestLimit, Leave, Stay
<1>3. CASE LeaveBeforeFetch  BY <1>3 DEF LeaveBeforeFetch, Leave
<1>4. CASE WriteByte         BY <1>4 DEF WriteByte, NextByte, Complete, Stay
<1>5. CASE DrawByte          BY <1>5 DEF DrawByte, NextByte, Complete, Stay
<1>6. CASE GiveUp            BY <1>6 DEF GiveUp, NextByte, Complete, Stay
<1>7. CASE Wake              BY <1>7 DEF Wake, Stay
<1>8. ~(\/ BeginSlice \/ EndSlice \/ Compute \/ Break \/ UnknownInstruction \/ Fault
        \/ BeginAccess \/ Wait)
  BY DEF BeginSlice, EndSlice, Compute, Break, UnknownInstruction, Ends, Fault, BeginAccess,
         Wait, Fetching
<1> QED BY <1>1, <1>2, <1>3, <1>4, <1>5, <1>6, <1>7, <1>8 DEF Program

\* Once the flag is set, by an instruction or SIGINT, the program without a window ends,
\* from wherever it is, for any limit and with a SIGINT at any moment. That an unfinished program can go on is the
\* hypothesis: the provers have no rule for ENABLED.
THEOREM InterruptAlwaysEnds ==
  Spec /\ [](Unfinished => ENABLED <<Program>>_vars) => InterruptEnds
<1>1. Sleeping /\ [Next]_vars => Sleeping' \/ TwoLeft' \/ OneLeft'
  BY HaltedStays, PlaceKept, PlaceLeft DEF Sleeping
<1>2. TwoLeft /\ [Next]_vars => TwoLeft' \/ OneLeft'
  BY HaltedStays, PlaceKept, PlaceLeft DEF TwoLeft
<1>3. OneLeft /\ [Next]_vars => OneLeft' \/ AtLoop'
  BY HaltedStays, PlaceKept, PlaceLeft DEF OneLeft
<1>4. AtLoop /\ [Next]_vars => AtLoop' \/ HasEnded'
  BY HaltedStays, PlaceKept, PlaceLeft DEF AtLoop
<1>5. AtLimit /\ [Next]_vars => AtLimit' \/ AtFetch' \/ HasEnded'
  BY HaltedStays, PlaceKept, PlaceLeft DEF AtLimit
<1>6. AtFetch /\ [Next]_vars => AtFetch' \/ HasEnded'
  BY HaltedStays, PlaceKept, PlaceLeft DEF AtFetch
<1>7. Sleeping /\ <<Program>>_vars => TwoLeft' \/ OneLeft'
  BY HaltedStays, PlaceLeft DEF Sleeping, Next
<1>8. TwoLeft /\ <<Program>>_vars => OneLeft'
  BY HaltedStays, PlaceLeft DEF TwoLeft, Next
<1>9. OneLeft /\ <<Program>>_vars => AtLoop'
  BY HaltedStays, PlaceLeft DEF OneLeft, Next
<1>10. AtLoop /\ <<Program>>_vars => HasEnded'
  BY HaltedStays, PlaceLeft DEF AtLoop, Next
<1>11. AtLimit /\ <<Program>>_vars => AtFetch' \/ HasEnded'
  BY HaltedStays, PlaceLeft DEF AtLimit, Next
<1>12. AtFetch /\ <<Program>>_vars => HasEnded'
  BY HaltedStays, PlaceLeft DEF AtFetch, Next
<1>13. IInv /\ shutdown /\ ~window =>
         Sleeping \/ TwoLeft \/ OneLeft \/ AtLoop \/ AtLimit \/ AtFetch \/ HasEnded
  BY SomePlace DEF Halted
<1> QED
  BY <1>1, <1>2, <1>3, <1>4, <1>5, <1>6, <1>7, <1>8, <1>9, <1>10, <1>11, <1>12, <1>13,
     PlacesUnfinished, AlwaysInv, PTL DEF Spec, Safe, InterruptEnds, HasEnded
=============================================================================
