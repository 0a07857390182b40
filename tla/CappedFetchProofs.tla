-------------------------- MODULE CappedFetchProofs --------------------------
(* Theorems about CappedFetch, for any cap, chunks and declared lengths.     *)
EXTENDS CappedFetch, SequenceTheorems, WellFoundedInduction, TLAPS

(* Sums *********************************************************************)

\* A set of numbers that is not empty has a least member: this is how the
\* recursion of Sum is shown to define what it says.
LEMMA Least ==
    ASSUME NEW T, T \subseteq Nat, T # {}
    PROVE  \E x \in T : \A y \in T : x <= y
<1> DEFINE R == OpToRel(<, Nat)
<1>1. IsWellFoundedOn(R, Nat)
  BY NatLessThanWellFounded
<1>2. \A x, y \in Nat : y < x => <<y, x>> \in R
  BY DEF OpToRel
<1> HIDE DEF R
<1>3. PICK x \in T : \A y \in T : <<y, x>> \notin R
  BY <1>1, WFMin, Zenon
<1>4. \A y \in T : ~(y < x)
  BY <1>2, <1>3, Zenon
<1>5. QED
  BY <1>3, <1>4

\* The sums of the first elements of a sequence, as far as the n-th.
IsSums(f, s, n) ==
    /\ f \in [0..n -> Nat]
    /\ f[0] = 0
    /\ \A m \in 1..n : f[m] = f[m - 1] + s[m]

LEMMA SumsExist ==
    ASSUME NEW s \in Seq(Nat)
    PROVE  \A n \in 0..Len(s) : \E f : IsSums(f, s, n)
<1> DEFINE T == {n \in 0..Len(s) : ~\E f : IsSums(f, s, n)}
<1>1. Len(s) \in Nat /\ \A m \in 1..Len(s) : s[m] \in Nat
  OBVIOUS
<1>2. ASSUME T # {} PROVE FALSE
  <2>1. PICK x \in T : \A y \in T : x <= y
    <3>1. T \subseteq Nat
      BY <1>1
    <3> HIDE DEF T
    <3>2. QED
      BY <1>2, <3>1, Least
  <2>2. x # 0
    <3>1. IsSums([m \in 0..0 |-> 0], s, 0)
      BY DEF IsSums
    <3>2. QED
      BY <2>1, <3>1
  <2>3. PICK y \in 0..Len(s) : x = y + 1 /\ y \notin T
    <3>1. x - 1 \in 0..Len(s) /\ x = (x - 1) + 1 /\ x - 1 \notin T
      BY <1>1, <2>1, <2>2
    <3>2. QED
      BY <3>1
  <2>4. PICK f : IsSums(f, s, y)
    BY <2>3
  <2>5. s[x] \in Nat /\ y \in Nat /\ x \in Nat /\ x = y + 1
    BY <1>1, <2>1, <2>3
  <2> DEFINE g == [m \in 0..x |-> IF m = x THEN f[y] + s[x] ELSE f[m]]
  <2>6. /\ f \in [0..y -> Nat] /\ f[0] = 0 /\ f[y] \in Nat
        /\ \A m \in 1..y : f[m] = f[m - 1] + s[m]
    BY <2>4, <2>5 DEF IsSums
  <2>7. g \in [0..x -> Nat] /\ g[0] = 0 /\ g[y] = f[y] /\ g[x] = f[y] + s[x]
    BY <2>5, <2>6
  <2>8. ASSUME NEW m \in 1..y PROVE g[m] = g[m - 1] + s[m]
    <3>1. m \in 0..x /\ m - 1 \in 0..x /\ m # x /\ m - 1 # x
      BY <2>5
    <3>2. g[m] = f[m] /\ g[m - 1] = f[m - 1]
      BY <3>1
    <3>3. QED
      BY <2>6, <3>2
  <2> HIDE DEF g
  <2>9. IsSums(g, s, x)
    <3>1. \A m \in 1..x : m = x \/ m \in 1..y
      BY <2>5
    <3>2. g[x] = g[x - 1] + s[x]
      BY <2>5, <2>7
    <3>3. QED
      BY <2>7, <2>8, <3>1, <3>2 DEF IsSums
  <2>10. QED
    BY <2>1, <2>9
<1>3. QED
  BY <1>2

\* Sum is the last of them.
LEMMA SumIs ==
    ASSUME NEW s \in Seq(Nat)
    PROVE  \E f : IsSums(f, s, Len(s)) /\ Sum(s) = f[Len(s)]
<1> DEFINE N == Len(s)
           F(f) == [i \in 0..N |-> IF i = 0 THEN 0 ELSE f[i - 1] + s[i]]
           up == CHOOSE f : f = F(f)
<1>1. Sum(s) = up[N]
  BY DEF Sum
<1>2. N \in Nat /\ \A m \in 1..N : s[m] \in Nat
  OBVIOUS
<1>3. PICK g : IsSums(g, s, N)
  BY <1>2, SumsExist
<1>4. g = F(g)
  BY <1>2, <1>3 DEF IsSums
<1>5. PICK d : d = up /\ d = F(d)
  <2> HIDE DEF F
  <2>1. up = F(up)
    BY <1>4, Zenon
  <2>2. QED
    BY <2>1
<1>6. d = [i \in 0..N |-> d[i]] /\ d[0] = 0 /\ \A m \in 1..N : d[m] = d[m - 1] + s[m]
  <2>1. \A i \in 0..N : d[i] = IF i = 0 THEN 0 ELSE d[i - 1] + s[i]
    BY <1>5, Zenon
  <2>2. DOMAIN d = 0..N /\ d = [i \in DOMAIN d |-> d[i]]
    BY <1>5, Zenon
  <2>3. 0 \in 0..N /\ \A m \in 1..N : m \in 0..N /\ m # 0
    BY <1>2
  <2>4. QED
    BY <2>1, <2>2, <2>3, Zenon
<1> DEFINE T == {m \in 0..N : d[m] \notin Nat}
<1>7. ASSUME T # {} PROVE FALSE
  <2>1. PICK x \in T : \A y \in T : x <= y
    <3>1. T \subseteq Nat
      BY <1>2
    <3> HIDE DEF T
    <3>2. QED
      BY <1>7, <3>1, Least
  <2>2. x \in 1..N /\ x - 1 \in 0..N /\ x - 1 < x
    BY <1>2, <1>6, <2>1
  <2>3. d[x - 1] \in Nat
    BY <1>2, <2>1, <2>2
  <2>4. d[x] = d[x - 1] + s[x] /\ s[x] \in Nat
    BY <1>2, <1>6, <2>2, Zenon
  <2>5. QED
    BY <2>1, <2>3, <2>4
<1>8. IsSums(d, s, N)
  BY <1>2, <1>6, <1>7 DEF IsSums
<1>9. QED
  BY <1>1, <1>5, <1>8

\* Sums of sequences that begin alike are alike, and never grow less.
LEMMA SumsAgree ==
    ASSUME NEW s \in Seq(Nat), NEW t \in Seq(Nat), NEW f, NEW g, NEW n \in Nat,
           IsSums(f, s, Len(s)), IsSums(g, t, Len(t)),
           n <= Len(s), n <= Len(t), \A i \in 1..n : s[i] = t[i]
    PROVE  f[n] = g[n]
<1> DEFINE T == {m \in 0..n : f[m] # g[m]}
<1>1. /\ \A m \in 1..n : f[m] = f[m - 1] + s[m] /\ g[m] = g[m - 1] + t[m]
      /\ f[0] = g[0]
  <2>1. \A m \in 1..n : m \in 1..Len(s) /\ m \in 1..Len(t)
    OBVIOUS
  <2>2. QED
    BY <2>1 DEF IsSums
<1>2. ASSUME T # {} PROVE FALSE
  <2>1. PICK x \in T : \A y \in T : x <= y
    <3>1. T \subseteq Nat
      OBVIOUS
    <3> HIDE DEF T
    <3>2. QED
      BY <1>2, <3>1, Least
  <2>2. x \in 1..n /\ x - 1 \in 0..n /\ x - 1 < x
    BY <1>1, <2>1
  <2>3. f[x - 1] = g[x - 1]
    BY <2>1, <2>2
  <2>4. QED
    BY <1>1, <2>1, <2>2, <2>3
<1>3. QED
  BY <1>2

LEMMA SumsGrow ==
    ASSUME NEW s \in Seq(Nat), NEW f, IsSums(f, s, Len(s)), NEW n \in 0..Len(s)
    PROVE  f[n] <= f[Len(s)]
<1> DEFINE T == {m \in 0..Len(s) : n <= m /\ ~(f[n] <= f[m])}
<1>1. /\ \A m \in 1..Len(s) : s[m] \in Nat /\ f[m] = f[m - 1] + s[m]
      /\ \A m \in 0..Len(s) : f[m] \in Nat
      /\ Len(s) \in Nat
  BY DEF IsSums
<1>2. ASSUME T # {} PROVE FALSE
  <2>1. PICK x \in T : \A y \in T : x <= y
    <3>1. T \subseteq Nat
      BY <1>1
    <3> HIDE DEF T
    <3>2. QED
      BY <1>2, <3>1, Least
  <2>2. x \in 1..Len(s) /\ x - 1 \in 0..Len(s) /\ x - 1 < x /\ n <= x - 1
    BY <1>1, <2>1
  <2>3. f[n] <= f[x - 1]
    BY <1>1, <2>1, <2>2
  <2>4. f[x] = f[x - 1] + s[x] /\ s[x] \in Nat /\ f[x - 1] \in Nat /\ f[n] \in Nat
    BY <1>1, <2>2
  <2>5. QED
    BY <2>1, <2>3, <2>4
<1>3. QED
  BY <1>1, <1>2

\* What Sum returns: a number, nothing for nothing, one chunk more for one
\* more, and no more for a part.
LEMMA SumProperties ==
    /\ Sum(<<>>) = 0
    /\ \A s \in Seq(Nat) : Sum(s) \in Nat
    /\ \A s \in Seq(Nat), x \in Nat : Sum(Append(s, x)) = Sum(s) + x
    /\ \A s \in Seq(Nat) : \A n \in 0..Len(s) : Sum(SubSeq(s, 1, n)) <= Sum(s)
<1>1. Sum(<<>>) = 0
  <2>1. <<>> \in Seq(Nat) /\ Len(<<>>) = 0
    OBVIOUS
  <2>2. QED
    BY <2>1, SumIs DEF IsSums
<1>2. ASSUME NEW s \in Seq(Nat) PROVE Sum(s) \in Nat
  BY SumIs DEF IsSums
<1>3. ASSUME NEW s \in Seq(Nat), NEW x \in Nat PROVE Sum(Append(s, x)) = Sum(s) + x
  <2>1. Append(s, x) \in Seq(Nat)
    OBVIOUS
  <2>2. PICK t \in Seq(Nat) : t = Append(s, x)
    BY <2>1
  <2>3. /\ Len(s) \in Nat /\ Len(s) <= Len(s) /\ Len(s) <= Len(t)
        /\ \A i \in 1..Len(s) : s[i] = t[i]
    BY <2>2
  <2>4. PICK f : IsSums(f, s, Len(s)) /\ Sum(s) = f[Len(s)]
    BY SumIs
  <2>5. PICK g : IsSums(g, t, Len(t)) /\ Sum(t) = g[Len(t)]
    BY SumIs
  <2>6. f[Len(s)] = g[Len(s)]
    <3>1. ASSUME NEW n \in Nat, n <= Len(s), n <= Len(t), \A i \in 1..n : s[i] = t[i]
          PROVE  f[n] = g[n]
      BY <2>4, <2>5, <3>1, SumsAgree
    <3>2. QED
      BY <2>3, <3>1
  <2>7. Len(t) \in 1..Len(t) /\ Len(t) - 1 = Len(s) /\ t[Len(t)] = x
    BY <2>2
  <2>8. g[Len(t)] = g[Len(t) - 1] + t[Len(t)]
    BY <2>5, <2>7 DEF IsSums
  <2>9. QED
    BY <2>2, <2>4, <2>5, <2>6, <2>7, <2>8
<1>4. ASSUME NEW s \in Seq(Nat), NEW n \in 0..Len(s) PROVE Sum(SubSeq(s, 1, n)) <= Sum(s)
  <2>1. SubSeq(s, 1, n) \in Seq(Nat)
    OBVIOUS
  <2>2. PICK t \in Seq(Nat) : t = SubSeq(s, 1, n)
    BY <2>1
  <2>3. /\ n \in Nat /\ n <= Len(s) /\ n <= Len(t)
        /\ \A i \in 1..n : s[i] = t[i]
    BY <2>2
  <2>4. PICK f : IsSums(f, s, Len(s)) /\ Sum(s) = f[Len(s)]
    BY SumIs
  <2>5. PICK g : IsSums(g, t, Len(t)) /\ Sum(t) = g[Len(t)]
    BY SumIs
  <2>6. f[n] = g[n]
    BY <2>3, <2>4, <2>5, SumsAgree
  <2>7. f[n] <= f[Len(s)]
    BY <2>4, SumsGrow
  <2>8. Len(t) = n
    BY <2>2
  <2>9. QED
    BY <2>2, <2>4, <2>5, <2>6, <2>7, <2>8
<1>5. QED
  BY <1>1, <1>2, <1>3, <1>4

(* The inductive invariant **************************************************)

Taken == SubSeq(body, 1, taken)

\* Nothing of a body has come before the headers, and none is read before
\* they were accepted.
BeforeReading ==
    /\ stage \in {"idle", "connecting"} => body = <<>>
    /\ stage \in {"idle", "connecting", "answered"} =>
        taken = 0 /\ chunks = <<>> /\ receivedBytes = 0 /\ reader = "none"
    /\ stage = "answered" /\ ~answer.streamed => server = "complete" /\ body = <<>>

\* While the body is read, what is kept is what was taken, within the cap.
WhileReading ==
    /\ stage = "reading" => reader = "open" /\ chunks = Taken
    /\ stage = "reading" /\ command = "archive" => receivedBytes <= Cap

\* The schema file is the business of one command, after its answer is whole.
Writing ==
    /\ stage \in {"parsed", "opening", "writing"} =>
        /\ command = "schema" /\ server = "complete"
        /\ chunks = body /\ body # <<>>
    /\ schemaFile # "before" => stage \in {"writing"} \cup Settled
    /\ stage = "writing" => schemaFile = "torn"

IInv ==
    /\ TypeOK
    /\ BeforeReading
    /\ WhileReading
    /\ Writing
    /\ DownloadIntact

\* What the steps need to know of sequences of chunks.
LEMMA ChunkFacts ==
    ASSUME IInv
    PROVE  /\ body \in Seq(Nat) /\ Len(body) \in Nat /\ taken \in Nat /\ taken <= Len(body)
           /\ Taken \in Seq(Nat) /\ Len(Taken) = taken
           /\ chunks \in Seq(Nat) /\ receivedBytes \in Nat
           /\ Cap \in Nat /\ MaxChunks \in Nat /\ Len(chunks) \in Nat
           /\ receivedBytes = Sum(Taken)
           /\ SubSeq(body, 1, 0) = <<>>
<1>1. body \in Seq(Nat) /\ Len(body) \in Nat /\ taken \in 0..Len(body)
  <2>1. body \in Seq(ChunkSizes) /\ taken \in 0..Len(body) /\ ChunkSizes \subseteq Nat
    BY SizesAssumption DEF IInv, TypeOK
  <2>2. body \in Seq(Nat)
    BY <2>1, SeqMonotonic
  <2>3. QED
    BY <2>1, <2>2
<1>2. Taken \in Seq(Nat) /\ Len(Taken) = taken
  BY <1>1 DEF Taken
<1>3. receivedBytes = Sum(Taken) /\ receivedBytes \in Nat
  BY <1>2, SumProperties DEF IInv, TypeOK, Taken
<1>4. Len(chunks) \in {taken - 1, taken} /\ Cap \in Nat
  BY SizesAssumption DEF IInv, TypeOK
<1>5. Len(chunks) \in Nat /\ Len(chunks) <= Len(body)
  <2>1. taken = 0 => Len(chunks) = 0
    <3> SUFFICES ASSUME taken = 0 PROVE receivedBytes = 0
      BY <1>4 DEF IInv, TypeOK
    <3>1. Taken = <<>>
      BY <1>1, <1>2
    <3>2. QED
      BY <1>3, <3>1, SumProperties
  <2>2. QED
    BY <1>1, <1>4, <2>1
<1>6. chunks \in Seq(Nat)
  BY <1>1, <1>5 DEF IInv, TypeOK
<1>7. QED
  BY <1>1, <1>2, <1>3, <1>5, <1>6, SizesAssumption

\* One more chunk, sent or taken.
LEMMA SubSeqFacts ==
    ASSUME NEW s \in Seq(Nat), NEW k \in 0..Len(s)
    PROVE  /\ \A x \in Nat : SubSeq(Append(s, x), 1, k) = SubSeq(s, 1, k)
           /\ k < Len(s) => SubSeq(s, 1, k + 1) = Append(SubSeq(s, 1, k), s[k + 1])
           /\ SubSeq(s, 1, Len(s)) = s
<1>1. ASSUME NEW x \in Nat PROVE SubSeq(Append(s, x), 1, k) = SubSeq(s, 1, k)
  OBVIOUS
<1>2. k < Len(s) => SubSeq(s, 1, k + 1) = Append(SubSeq(s, 1, k), s[k + 1])
  OBVIOUS
<1>3. SubSeq(s, 1, Len(s)) = s
  BY SubSeqFull
<1>4. QED
  BY <1>1, <1>2, <1>3

LEMMA InitIInv == Init => IInv
<1> SUFFICES ASSUME Init PROVE IInv
  OBVIOUS
<1>1. /\ SubSeq(body, 1, 0) = <<>> /\ Len(body) = 0 /\ Len(chunks) = 0
      /\ body \in Seq(ChunkSizes) /\ 0 <= MaxChunks
  BY SizesAssumption DEF Init
<1>2. answer \in Answers
  BY DEF Init, Answers, NoAnswer
<1>3. /\ taken \in 0..Len(body) /\ chunks = SubSeq(body, 1, Len(chunks))
      /\ Len(chunks) = taken /\ receivedBytes = Sum(SubSeq(body, 1, taken))
  <2>1. taken = 0 /\ chunks = SubSeq(body, 1, 0) /\ receivedBytes = Sum(SubSeq(body, 1, 0))
    BY <1>1, SumProperties DEF Init
  <2>2. QED
    BY <1>1, <2>1
<1>4. TypeOK
  BY <1>1, <1>2, <1>3 DEF Init, TypeOK, Settled
<1>5. QED
  BY <1>4, SumProperties, SizesAssumption
     DEF Init, IInv, BeforeReading, WhileReading, Writing, DownloadIntact,
         ReturnedWhole, HeldWithinCap, SchemaFileExplained, Settled

\* A step that neither sends nor takes a chunk preserves the invariant if it
\* does so for the stage, the server, the reader and the file.
LEMMA QuietStep ==
    ASSUME IInv, UNCHANGED <<command, body, taken, chunks, receivedBytes>>,
           stage' \in {"idle", "connecting", "answered", "reading",
                       "parsed", "opening", "writing"} \cup Settled,
           timer' \in {"off", "armed", "fired"}, answer' \in Answers,
           server' \in {"sending", "complete", "broken"},
           \/ reader' = reader
           \/ reader' = "open" /\ stage = "answered"
           \/ reader' = "cancelled" /\ stage = "reading" /\ command = "archive",
           schemaFile' \in {"before", "torn", "whole"},
           BeforeReading', WhileReading', Writing', ReturnedWhole', SchemaFileExplained'
    PROVE  IInv'
<1>1. Len(chunks) = IF reader' = "cancelled" /\ receivedBytes > Cap THEN taken - 1 ELSE taken
  <2>1. CASE reader' = reader
    BY <2>1 DEF IInv, TypeOK
  <2>2. CASE reader' = "open" /\ stage = "answered"
    BY <2>2, ChunkFacts DEF IInv, BeforeReading
  <2>3. CASE reader' = "cancelled" /\ stage = "reading" /\ command = "archive"
    BY <2>3, ChunkFacts DEF IInv, WhileReading
  <2>4. QED
    BY <2>1, <2>2, <2>3
<1>2. TypeOK'
  BY <1>1 DEF IInv, TypeOK
<1>3. HeldWithinCap'
  BY DEF IInv, DownloadIntact, HeldWithinCap
<1>4. QED
  BY <1>2, <1>3 DEF IInv, DownloadIntact

\* The server and the timer.
LEMMA ServerStep ==
    ASSUME IInv, Respond \/ StopSending \/ Begin \/ TimerFires
    PROVE  IInv'
<1> USE DEF IInv, TypeOK, exchange, local, Settled
<1>1. CASE Respond
  <2>1. /\ stage = "connecting" /\ stage' = "answered" /\ answer' \in Answers
        /\ server' = IF answer'.streamed THEN "sending" ELSE "complete"
        /\ timer' \in {"off", timer}
        /\ UNCHANGED <<command, body, taken, chunks, receivedBytes, reader, schemaFile>>
    BY <1>1 DEF Respond
  <2>2. BeforeReading' /\ WhileReading' /\ Writing'
    BY <2>1 DEF BeforeReading, WhileReading, Writing
  <2>3. ReturnedWhole' /\ SchemaFileExplained'
    BY <2>1 DEF ReturnedWhole, SchemaFileExplained, Writing
  <2>4. QED
    BY <2>1, <2>2, <2>3, QuietStep
<1>2. CASE StopSending
  <2>1. /\ stage \in {"connecting", "answered", "reading"} /\ server = "sending"
        /\ server' \in {"complete", "broken"}
        /\ stage = "connecting" => server' = "broken"
        /\ UNCHANGED <<command, stage, timer, answer, body, taken, chunks, receivedBytes,
                       reader, schemaFile>>
    BY <1>2 DEF StopSending
  <2>2. BeforeReading' /\ WhileReading' /\ Writing'
    BY <2>1 DEF BeforeReading, WhileReading, Writing, Taken
  <2>3. ReturnedWhole' /\ SchemaFileExplained'
    BY <2>1 DEF ReturnedWhole, SchemaFileExplained, Writing
  <2>4. QED
    BY <2>1, <2>2, <2>3, QuietStep
<1>3. CASE Begin
  <2>1. /\ stage = "idle" /\ stage' = "connecting" /\ timer' = "armed"
        /\ UNCHANGED <<command, server, answer, body, taken, chunks, receivedBytes,
                       reader, schemaFile>>
    BY <1>3 DEF Begin
  <2>2. BeforeReading' /\ WhileReading' /\ Writing'
    BY <2>1 DEF BeforeReading, WhileReading, Writing
  <2>3. ReturnedWhole' /\ SchemaFileExplained'
    BY <2>1 DEF ReturnedWhole, SchemaFileExplained, Writing
  <2>4. QED
    BY <2>1, <2>2, <2>3, QuietStep
<1>4. CASE TimerFires
  <2>1. /\ timer' = "fired"
        /\ UNCHANGED <<command, stage, server, answer, body, taken, chunks, receivedBytes,
                       reader, schemaFile>>
    BY <1>4 DEF TimerFires
  <2>2. BeforeReading' /\ WhileReading' /\ Writing'
    BY <2>1 DEF BeforeReading, WhileReading, Writing, Taken
  <2>3. ReturnedWhole' /\ SchemaFileExplained'
    BY <2>1 DEF ReturnedWhole, SchemaFileExplained, DownloadIntact
  <2>4. QED
    BY <2>1, <2>2, <2>3, QuietStep
<1>5. QED
  BY <1>1, <1>2, <1>3, <1>4

\* The command, but for the chunks it takes.
LEMMA FetchStep ==
    ASSUME IInv, FetchRejects \/ RefuseHeaders \/ ReadNoBody \/ GetReader \/ ReadDone
                 \/ ReadRejects
    PROVE  IInv'
<1> USE DEF IInv, TypeOK, exchange, local, Settled, Settle
<1>1. CASE (FetchRejects \/ RefuseHeaders \/ ReadNoBody \/ ReadRejects) /\ stage' = "failed"
  <2>1. /\ stage \in {"connecting", "answered", "reading"} /\ timer' = "off"
        /\ reader' = reader \/ (reader' = "cancelled" /\ stage = "reading" /\ command = "archive")
        /\ UNCHANGED <<command, server, answer, body, taken, chunks, receivedBytes, schemaFile>>
    BY <1>1 DEF FetchRejects, RefuseHeaders, ReadNoBody, ReadRejects
  <2>2. schemaFile = "before"
    BY <2>1 DEF Writing
  <2>3. BeforeReading' /\ WhileReading' /\ Writing'
    BY <1>1, <2>1, <2>2 DEF BeforeReading, WhileReading, Writing
  <2>4. ReturnedWhole' /\ SchemaFileExplained'
    BY <1>1, <2>1, <2>2 DEF ReturnedWhole, SchemaFileExplained
  <2>5. QED
    BY <1>1, <2>1, <2>2, <2>3, <2>4, QuietStep
<1>2. CASE ReadNoBody /\ stage' # "failed"
  <2>1. /\ stage = "answered" /\ ~answer.streamed /\ stage' = "ok" /\ timer' = "off"
        /\ UNCHANGED <<command, server, answer, body, taken, chunks, receivedBytes, reader,
                       schemaFile>>
    BY <1>2 DEF ReadNoBody
  <2>2. chunks = body /\ server = "complete" /\ schemaFile = "before"
    BY <2>1 DEF BeforeReading, Writing
  <2>3. BeforeReading' /\ WhileReading' /\ Writing'
    BY <2>1, <2>2 DEF BeforeReading, WhileReading, Writing
  <2>4. ReturnedWhole' /\ SchemaFileExplained'
    BY <2>1, <2>2 DEF ReturnedWhole, SchemaFileExplained
  <2>5. QED
    BY <2>1, <2>2, <2>3, <2>4, QuietStep
<1>3. CASE GetReader
  <2>1. /\ stage = "answered" /\ stage' = "reading" /\ reader' = "open"
        /\ UNCHANGED <<command, timer, server, answer, body, taken, chunks, receivedBytes,
                       schemaFile>>
    BY <1>3 DEF GetReader
  <2>2. /\ taken = 0 /\ chunks = <<>> /\ receivedBytes = 0 /\ schemaFile = "before"
        /\ Taken = <<>> /\ 0 <= Cap
    BY <2>1, ChunkFacts DEF BeforeReading, Writing, Taken
  <2>3. BeforeReading' /\ WhileReading' /\ Writing'
    BY <2>1, <2>2 DEF BeforeReading, WhileReading, Writing, Taken
  <2>4. ReturnedWhole' /\ SchemaFileExplained'
    BY <2>1, <2>2 DEF ReturnedWhole, SchemaFileExplained
  <2>5. QED
    BY <2>1, <2>2, <2>3, <2>4, QuietStep
<1>4. CASE ReadDone
  <2>1. /\ stage = "reading" /\ server = "complete" /\ taken = Len(body)
        /\ command = "schema" => chunks # <<>>
        /\ stage' = IF command = "archive" THEN "ok" ELSE "parsed"
        /\ timer' = "off"
        /\ UNCHANGED <<command, server, answer, body, taken, chunks, receivedBytes, reader,
                       schemaFile>>
    BY <1>4 DEF ReadDone
  <2>2. chunks = body /\ schemaFile = "before"
    BY <2>1, ChunkFacts, SubSeqFull DEF WhileReading, Writing, Taken
  <2>3. BeforeReading' /\ WhileReading' /\ Writing'
    BY <2>1, <2>2 DEF BeforeReading, WhileReading, Writing
  <2>4. ReturnedWhole' /\ SchemaFileExplained'
    BY <2>1, <2>2 DEF ReturnedWhole, SchemaFileExplained
  <2>5. QED
    BY <2>1, <2>2, <2>3, <2>4, QuietStep
<1>5. QED
  BY <1>1, <1>2, <1>3, <1>4 DEF FetchRejects, RefuseHeaders, ReadRejects

\* The schema file, and a kill.
LEMMA FileStep ==
    ASSUME IInv, MakeSchemaDir \/ OpenSchemaFile \/ WriteSchemaFile \/ KillSync
    PROVE  IInv'
<1> USE DEF IInv, TypeOK, exchange, local, Settled, Settle
<1>1. /\ stage \notin {"idle"} \cup Settled /\ command = "schema" /\ timer' = "off"
      /\ \/ stage = "parsed" /\ stage' = "opening" /\ UNCHANGED schemaFile
         \/ stage = "opening" /\ stage' = "writing" /\ schemaFile' = "torn"
         \/ stage = "writing" /\ stage' = "ok" /\ schemaFile' = "whole"
         \/ stage' \in {"failed", "killed"} /\ UNCHANGED schemaFile
      /\ UNCHANGED <<command, server, answer, body, taken, chunks, receivedBytes, reader>>
  BY DEF MakeSchemaDir, OpenSchemaFile, WriteSchemaFile, KillSync, Writing
<1>2. BeforeReading' /\ WhileReading' /\ Writing'
  BY <1>1 DEF BeforeReading, WhileReading, Writing
<1>3. ReturnedWhole' /\ SchemaFileExplained'
  BY <1>1 DEF ReturnedWhole, SchemaFileExplained, Writing, DownloadIntact
<1>4. QED
  BY <1>1, <1>2, <1>3, QuietStep

\* Chunks that are sent, and those that are taken.
LEMMA SendStep == ASSUME IInv, SendChunk PROVE IInv'
<1>1. PICK n \in ChunkSizes : body' = Append(body, n)
  BY DEF SendChunk
<1>2. /\ stage \in {"answered", "reading"} /\ server = "sending" /\ Len(body) < MaxChunks
      /\ UNCHANGED <<command, stage, timer, answer, server, taken, chunks, receivedBytes,
                     reader, schemaFile>>
  BY DEF SendChunk, local
<1>3. /\ body' \in Seq(ChunkSizes) /\ Len(body') = Len(body) + 1
      /\ n \in Nat /\ Len(body) \in Nat /\ taken \in 0..Len(body)
  BY <1>1, SizesAssumption DEF IInv, TypeOK
<1>4. \A k \in 0..Len(body) : SubSeq(body', 1, k) = SubSeq(body, 1, k)
  BY <1>1, <1>3, ChunkFacts, SubSeqFacts
<1>5. Len(chunks) \in 0..Len(body)
  BY <1>2, ChunkFacts DEF IInv, TypeOK
<1>6. TypeOK'
  <2>1. chunks' = SubSeq(body', 1, Len(chunks')) /\ receivedBytes' = Sum(SubSeq(body', 1, taken'))
    BY <1>2, <1>3, <1>4, <1>5 DEF IInv, TypeOK
  <2>2. taken' \in 0..Len(body') /\ Len(body') <= MaxChunks
    BY <1>2, <1>3, SizesAssumption
  <2>3. QED
    BY <1>2, <1>3, <2>1, <2>2 DEF IInv, TypeOK
<1>7. BeforeReading' /\ WhileReading' /\ Writing'
  BY <1>2, <1>3, <1>4 DEF IInv, BeforeReading, WhileReading, Writing, Taken, Settled
<1>8. DownloadIntact'
  BY <1>2 DEF IInv, DownloadIntact, ReturnedWhole, HeldWithinCap, SchemaFileExplained, Writing,
              Settled
<1>9. QED
  BY <1>6, <1>7, <1>8 DEF IInv

LEMMA TakeStep == ASSUME IInv, ReadChunk PROVE IInv'
<1> DEFINE size == body[taken + 1]
<1>1. /\ stage = "reading" /\ taken < Len(body) /\ taken' = taken + 1
      /\ receivedBytes' = receivedBytes + size
      /\ UNCHANGED <<command, answer, server, body, schemaFile>>
  BY DEF ReadChunk, Settle, exchange
<1>2. /\ size \in Nat /\ body \in Seq(Nat) /\ taken \in 0..Len(body) /\ Len(body) \in Nat
      /\ chunks = Taken /\ reader = "open" /\ Taken \in Seq(Nat) /\ Len(chunks) = taken
      /\ receivedBytes = Sum(chunks) /\ receivedBytes \in Nat /\ schemaFile = "before"
  BY <1>1, ChunkFacts DEF IInv, WhileReading, Writing, Settled
<1>3. SubSeq(body, 1, taken + 1) = Append(chunks, size)
  BY <1>1, <1>2, SubSeqFacts DEF Taken
<1>4. receivedBytes' = Sum(Append(chunks, size))
  BY <1>1, <1>2, SumProperties
<1>5. taken' \in 0..Len(body') /\ receivedBytes' = Sum(SubSeq(body', 1, taken'))
  <2>1. SubSeq(body', 1, taken') = Append(chunks, size)
    BY <1>1, <1>3
  <2>2. taken' \in 0..Len(body')
    BY <1>1, <1>2
  <2>3. QED
    BY <1>4, <2>1, <2>2
<1> HIDE DEF size
<1>6. CASE command = "archive" /\ ~AssertArchiveSize(receivedBytes')
  <2>1. chunks' = chunks /\ reader' = "cancelled" /\ stage' = "failed" /\ timer' = "off"
    BY <1>6 DEF ReadChunk, Settle
  <2>2. receivedBytes' > Cap
    BY <1>1, <1>2, <1>6, SizesAssumption DEF AssertArchiveSize
  <2>3. TypeOK'
    BY <1>1, <1>2, <1>5, <2>1, <2>2 DEF IInv, TypeOK, Taken, Settled
  <2>4. QED
    BY <1>1, <1>2, <2>1, <2>3
       DEF IInv, BeforeReading, WhileReading, Writing, DownloadIntact, ReturnedWhole,
           HeldWithinCap, SchemaFileExplained, Settled
<1>7. CASE ~(command = "archive" /\ ~AssertArchiveSize(receivedBytes'))
  <2>1. chunks' = Append(chunks, size) /\ UNCHANGED <<stage, timer, reader>>
    BY <1>7 DEF ReadChunk, size
  <2>2. chunks' = Taken' /\ Len(chunks') = taken'
    BY <1>1, <1>2, <1>3, <2>1 DEF Taken
  <2>3. TypeOK'
    BY <1>1, <1>2, <1>5, <2>1, <2>2 DEF IInv, TypeOK, Taken
  <2>4. command = "archive" => receivedBytes' <= Cap /\ Sum(chunks') <= Cap
    BY <1>4, <1>7, <2>1 DEF AssertArchiveSize
  <2>5. QED
    BY <1>1, <1>2, <2>1, <2>2, <2>3, <2>4
       DEF IInv, BeforeReading, WhileReading, Writing, DownloadIntact, ReturnedWhole,
           HeldWithinCap, SchemaFileExplained, Settled
<1>8. QED
  BY <1>6, <1>7

LEMMA StepIInv == IInv /\ [Next]_vars => IInv'
<1> SUFFICES ASSUME IInv, [Next]_vars PROVE IInv'
  OBVIOUS
<1>1. CASE UNCHANGED vars
  BY <1>1 DEF vars, exchange, local, IInv, TypeOK, BeforeReading, WhileReading, Writing, Taken,
              DownloadIntact, ReturnedWhole, HeldWithinCap, SchemaFileExplained
<1>2. QED
  BY <1>1, ServerStep, FetchStep, FileStep, SendStep, TakeStep DEF Next, CommandStep

LEMMA AlwaysIInv == Spec => []IInv
<1>1. QED
  BY InitIInv, StepIInv, PTL DEF Spec

(* Theorems *****************************************************************)

\* What is kept and counted is what the stream handed over, in order and once.
THEOREM TypeSafety == Spec => []TypeOK
<1>1. IInv => TypeOK
  BY DEF IInv
<1>2. QED
  BY AlwaysIInv, <1>1, PTL

\* For any cap and any way to cut a body into chunks: an archive is handed over
\* whole or not at all, memory holds no more than the cap, and the schema file
\* is touched only once the whole answer is there.
THEOREM DownloadSafety == Spec => []DownloadIntact
<1>1. IInv => DownloadIntact
  BY DEF IInv
<1>2. QED
  BY AlwaysIInv, <1>1, PTL

\* An archive is refused only for a cause; one of exactly the cap is taken.
THEOREM FailureSafety == Spec => FailureExplained
<1>1. ASSUME IInv, Next, command = "archive", stage # "failed", stage' = "failed"
      PROVE  \/ timer = "fired"
             \/ server = "broken"
             \/ stage = "answered" /\ ~answer.ok
             \/ stage = "answered" /\ answer.declared # Undeclared /\ answer.declared > Cap
             \/ Sum(body) > Cap
  <2>1. CASE FetchRejects \/ ReadRejects
    BY <1>1, <2>1 DEF FetchRejects, ReadRejects
  <2>2. CASE RefuseHeaders
    <3>1. Cap \in Nat /\ (answer.declared # Undeclared => answer.declared \in Nat)
      BY <1>1, SizesAssumption DEF IInv, TypeOK, Answers
    <3>2. stage = "answered" /\ ~AcceptsHeaders
      BY <2>2 DEF RefuseHeaders
    <3>3. QED
      BY <1>1, <3>1, <3>2 DEF AcceptsHeaders, AssertArchiveSize
  <2>3. CASE ReadChunk
    <3>1. /\ body \in Seq(Nat) /\ taken + 1 \in 0..Len(body)
          /\ body[taken + 1] \in Nat /\ chunks = Taken /\ Taken \in Seq(Nat)
          /\ receivedBytes = Sum(chunks) /\ receivedBytes \in Nat /\ Cap \in Nat
      BY <1>1, <2>3, ChunkFacts DEF ReadChunk, IInv, WhileReading
    <3>2. ~(receivedBytes + body[taken + 1] <= Cap)
      BY <1>1, <2>3 DEF ReadChunk, AssertArchiveSize
    <3>3. SubSeq(body, 1, taken + 1) = Append(chunks, body[taken + 1])
      <4>1. taken \in 0..Len(body) /\ taken < Len(body)
        BY <1>1, <2>3, ChunkFacts DEF ReadChunk
      <4>2. QED
        BY <3>1, <4>1, SubSeqFacts DEF Taken
    <3>4. Sum(SubSeq(body, 1, taken + 1)) = receivedBytes + body[taken + 1]
      BY <3>1, <3>3, SumProperties
    <3>5. Sum(SubSeq(body, 1, taken + 1)) <= Sum(body) /\ Sum(body) \in Nat
      BY <3>1, SumProperties
    <3>6. QED
      BY <3>1, <3>2, <3>4, <3>5
  <2>4. QED
    BY <1>1, <2>1, <2>2, <2>3
       DEF Next, Respond, SendChunk, StopSending, Begin, TimerFires, CommandStep, KillSync,
           ReadNoBody, GetReader, ReadDone, MakeSchemaDir, OpenSchemaFile, WriteSchemaFile,
           Settle, IInv, Writing
<1>2. QED
  BY <1>1, AlwaysIInv, PTL DEF Spec, FailureExplained, vars
=============================================================================
