----------------------- MODULE RelayPaginationProofs -----------------------
(* Theorems about RelayPagination, for any page size, any bound on lists and *)
(* any arguments of a request.                                              *)
EXTENDS RelayPagination, FiniteSetTheorems, SequenceTheorems, TLAPS

(* Pages ********************************************************************)

Edges == [node : Nodes, cursor : Nat]

\* Edges that show n nodes of a list, from the one whose cursor is lo.
IsRun(edges, list, lo, n) ==
    /\ lo \in Nat /\ n \in Nat
    /\ n > 0 => lo + n <= Len(list)
    /\ edges \in Seq(Edges) /\ Len(edges) = n
    /\ \A i \in 1..n : edges[i].node = list[lo + i] /\ edges[i].cursor = lo + i - 1

\* Where the window of a request begins, how many it has, how many of them
\* first leaves, and how many of those last leaves.
WindowFrom(args) == ParseCursor(args.after, -1) + 1
WindowLen(list, args) ==
    LET upto == Least(ParseCursor(args.before, Len(list)), Len(list))
    IN  IF upto <= WindowFrom(args) THEN 0 ELSE upto - WindowFrom(args)
HeadLen(args, n) ==
    CASE args.first # Omitted -> Least(args.first, n)
      [] args.first = Omitted /\ args.last = Omitted -> Least(DefaultPageSize, n)
      [] OTHER -> n
PageLen(args, n) ==
    IF args.last = Omitted THEN HeadLen(args, n) ELSE Least(args.last, HeadLen(args, n))
PageFrom(args, n) == WindowFrom(args) + HeadLen(args, n) - PageLen(args, n)

LEMMA ArgsAre ==
    ASSUME NEW args \in PageArgs, ~Throws(args)
    PROVE  /\ Omitted \notin Int
           /\ args.after = Omitted \/ args.after \in Nat
           /\ args.before = Omitted \/ args.before \in Nat
           /\ args.first = Omitted \/ args.first \in Nat
           /\ args.last = Omitted \/ args.last \in Nat
<1>1. Omitted \notin Int
  BY ArgumentAssumption
<1>2. /\ args.after \in (0..MaxNodes) \cup {-1, Malformed, Omitted}
      /\ args.before \in (0..MaxNodes) \cup {-1, Malformed, Omitted}
      /\ args.first \in (0..MaxNodes) \cup {-1, Omitted}
      /\ args.last \in (0..MaxNodes) \cup {-1, Omitted}
  BY DEF PageArgs, Cursors, Sizes
<1>3. /\ args.after \notin {-1, Malformed} /\ args.before \notin {-1, Malformed}
      /\ args.first # -1 /\ args.last # -1
  BY DEF Throws
<1>4. 0..MaxNodes \subseteq Nat
  BY LengthAssumption
<1>5. QED
  BY <1>1, <1>2, <1>3, <1>4

LEMMA LengthsAre ==
    ASSUME NEW list \in Seq(Nodes), NEW args \in PageArgs, ~Throws(args)
    PROVE  /\ WindowFrom(args) \in Nat
           /\ WindowLen(list, args) \in Nat
           /\ WindowLen(list, args) > 0 =>
                WindowFrom(args) + WindowLen(list, args) <= Len(list)
           /\ \A n \in Nat : /\ HeadLen(args, n) \in 0..n
                             /\ PageLen(args, n) \in 0..HeadLen(args, n)
                             /\ PageFrom(args, n) \in Nat
<1>1. WindowFrom(args) \in Nat
  BY ArgsAre DEF WindowFrom, ParseCursor
<1>2. /\ Len(list) \in Nat
      /\ ParseCursor(args.before, Len(list)) \in Nat
  BY ArgsAre DEF ParseCursor
<1>3. ASSUME NEW n \in Nat
      PROVE  HeadLen(args, n) \in 0..n /\ PageLen(args, n) \in 0..HeadLen(args, n)
  <2>1. HeadLen(args, n) \in 0..n
    BY ArgsAre, PageSizeAssumption DEF HeadLen, Least
  <2>2. QED
    BY ArgsAre, <2>1 DEF PageLen, Least
<1>4. /\ WindowLen(list, args) \in Nat
      /\ WindowLen(list, args) > 0 =>
            WindowFrom(args) + WindowLen(list, args) <= Len(list)
  BY <1>1, <1>2 DEF WindowLen, Least
<1>5. ASSUME NEW n \in Nat PROVE PageFrom(args, n) \in Nat
  <2>1. PICK h \in 0..n : h = HeadLen(args, n)
    BY <1>3
  <2>2. PICK m \in 0..h : m = PageLen(args, n)
    BY <1>3, <2>1
  <2>3. QED
    BY <1>1, <2>1, <2>2 DEF PageFrom
<1>6. QED
  BY <1>1, <1>3, <1>4, <1>5

\* The two cursors leave a run of the list, and Window is its places.
LEMMA RangeIsRun ==
    ASSUME NEW list \in Seq(Nodes), NEW args \in PageArgs, ~Throws(args)
    PROVE  /\ IsRun(ApplyCursorsToEdges(list, args.before, args.after), list,
                    WindowFrom(args), WindowLen(list, args))
           /\ Window(list, args) = WindowFrom(args)..(WindowFrom(args) + WindowLen(list, args) - 1)
<1> DEFINE from == WindowFrom(args)
           n == WindowLen(list, args)
           upto == Least(ParseCursor(args.before, Len(list)), Len(list))
           range == SubSeq(list, from + 1, upto)
           edges == ApplyCursorsToEdges(list, args.before, args.after)
<1>1. from \in Nat /\ n \in Nat /\ (n > 0 => from + n <= Len(list)) /\ Len(list) \in Nat
  BY LengthsAre
<1>2. upto \in Nat /\ upto <= Len(list) /\ (args.before # Omitted => upto = Least(args.before, Len(list)))
                   /\ (args.before = Omitted => upto = Len(list))
  BY <1>1, ArgsAre DEF ParseCursor, Least
<1>3. n = IF upto <= from THEN 0 ELSE upto - from
  BY DEF WindowLen
<1>4. edges = [i \in DOMAIN range |-> [node |-> range[i], cursor |-> from + i - 1]]
  BY DEF ApplyCursorsToEdges, WindowFrom
<1> HIDE DEF from, n, upto, edges
<1>5. /\ range \in Seq(Nodes) /\ Len(range) = n /\ DOMAIN range = 1..n
      /\ \A i \in 1..n : range[i] = list[from + i] /\ range[i] \in Nodes
  <2>1. \A i \in (from + 1)..upto : list[i] \in Nodes
    BY <1>1, <1>2
  <2>2. /\ range \in Seq(Nodes)
        /\ Len(range) = IF from + 1 <= upto THEN upto - (from + 1) + 1 ELSE 0
        /\ \A i \in 1..(upto - (from + 1) + 1) : range[i] = list[(from + 1) + i - 1]
    BY <1>1, <1>2, <2>1, SubSeqProperties
  <2> HIDE DEF range
  <2>3. Len(range) = n
    BY <1>1, <1>2, <1>3, <2>2
  <2>4. \A i \in 1..n : i \in 1..(upto - (from + 1) + 1) /\ (from + 1) + i - 1 = from + i
    BY <1>1, <1>2, <1>3
  <2>5. QED
    BY <2>2, <2>3, <2>4
<1> HIDE DEF range
<1>6. edges \in Seq(Edges) /\ Len(edges) = n
  <2>1. edges \in [1..n -> Edges]
    BY <1>1, <1>4, <1>5 DEF Edges
  <2>2. QED
    BY <1>1, <2>1
<1>7. \A i \in 1..n : edges[i].node = list[from + i] /\ edges[i].cursor = from + i - 1
  BY <1>4, <1>5
<1>8. IsRun(edges, list, from, n)
  BY <1>1, <1>6, <1>7 DEF IsRun
<1>9. Window(list, args) = from..(from + n - 1)
  <2>1. /\ args.after # Omitted => from = args.after + 1
        /\ args.after = Omitted => from = 0
    BY DEF from, WindowFrom, ParseCursor
  <2>2. ASSUME NEW i \in Int
        PROVE  i \in Window(list, args) <=> i \in from..(from + n - 1)
    BY <1>1, <1>2, <1>3, <2>1, ArgsAre DEF Window, Least
  <2>3. Window(list, args) \subseteq Int /\ from..(from + n - 1) \subseteq Int
    BY <1>1 DEF Window
  <2>4. QED
    BY <2>2, <2>3
<1>10. QED
  BY <1>8, <1>9 DEF edges, from, n

\* The first k of an interval by counting, and the last k.
LEMMA FrontIs ==
    ASSUME NEW lo \in Nat, NEW n \in Nat, NEW k \in Nat
    PROVE  Front(lo..(lo + n - 1), k) = lo..(lo + Least(k, n) - 1)
<1> DEFINE S == lo..(lo + n - 1)
<1>1. ASSUME NEW i \in S PROVE Cardinality({j \in S : j < i}) = i - lo
  <2>1. {j \in S : j < i} = lo..(i - 1)
    OBVIOUS
  <2>2. i - 1 \in Int /\ Cardinality(lo..(i - 1)) = IF lo > i - 1 THEN 0 ELSE (i - 1) - lo + 1
    BY FS_Interval
  <2>3. QED
    BY <2>1, <2>2
<1>2. Front(S, k) = {i \in S : i - lo < k}
  BY <1>1 DEF Front
<1>3. PICK m \in Nat : m = Least(k, n) /\ m <= k /\ m <= n /\ (m = k \/ m = n)
  BY DEF Least
<1>4. {i \in S : i - lo < k} = lo..(lo + m - 1)
  BY <1>3
<1>5. QED
  BY <1>2, <1>3, <1>4

LEMMA BackIs ==
    ASSUME NEW lo \in Nat, NEW n \in Nat, NEW k \in Nat
    PROVE  Back(lo..(lo + n - 1), k) = (lo + n - Least(k, n))..(lo + n - 1)
<1> DEFINE S == lo..(lo + n - 1)
<1>1. ASSUME NEW i \in S PROVE Cardinality({j \in S : j > i}) = (lo + n - 1) - i
  <2>1. {j \in S : j > i} = (i + 1)..(lo + n - 1)
    OBVIOUS
  <2>2. /\ i + 1 \in Int /\ lo + n - 1 \in Int
        /\ Cardinality((i + 1)..(lo + n - 1)) =
             IF i + 1 > lo + n - 1 THEN 0 ELSE (lo + n - 1) - (i + 1) + 1
    BY FS_Interval
  <2>3. Cardinality((i + 1)..(lo + n - 1)) = (lo + n - 1) - i
    BY <2>2
  <2>4. QED
    BY <2>1, <2>3, Zenon
<1>2. Back(S, k) = {i \in S : (lo + n - 1) - i < k}
  BY <1>1 DEF Back
<1>3. PICK m \in Nat : m = Least(k, n) /\ m <= k /\ m <= n /\ (m = k \/ m = n)
  BY DEF Least
<1>4. {i \in S : (lo + n - 1) - i < k} = (lo + n - m)..(lo + n - 1)
  BY <1>3
<1>5. QED
  BY <1>2, <1>3, <1>4

\* A run cut at either end is a run.
LEMMA RunCut ==
    ASSUME NEW edges, NEW list, NEW lo, NEW n, IsRun(edges, list, lo, n),
           NEW d \in 0..n, NEW k \in 0..(n - d)
    PROVE  IsRun(SubSeq(edges, d + 1, d + k), list, lo + d, k)
<1> DEFINE cut == SubSeq(edges, d + 1, d + k)
<1>1. /\ lo \in Nat /\ n \in Nat /\ (n > 0 => lo + n <= Len(list))
      /\ edges \in Seq(Edges) /\ Len(edges) = n
      /\ \A i \in 1..n : edges[i].node = list[lo + i] /\ edges[i].cursor = lo + i - 1
  BY DEF IsRun
<1>2. /\ cut \in Seq(Edges)
      /\ Len(cut) = IF d + 1 <= d + k THEN (d + k) - (d + 1) + 1 ELSE 0
      /\ \A i \in 1..((d + k) - (d + 1) + 1) : cut[i] = edges[(d + 1) + i - 1]
  <2>1. \A i \in (d + 1)..(d + k) : edges[i] \in Edges
    BY <1>1
  <2>2. QED
    BY <1>1, <2>1, SubSeqProperties
<1>3. Len(cut) = k
  BY <1>1, <1>2
<1>4. ASSUME NEW i \in 1..k
      PROVE  cut[i].node = list[(lo + d) + i] /\ cut[i].cursor = (lo + d) + i - 1
  <2>1. cut[i] = edges[d + i] /\ d + i \in 1..n
    BY <1>1, <1>2
  <2>2. lo + (d + i) = (lo + d) + i
    BY <1>1
  <2>3. QED
    BY <1>1, <2>1, <2>2
<1>5. lo + d \in Nat /\ k \in Nat /\ (k > 0 => (lo + d) + k <= Len(list))
  BY <1>1
<1> HIDE DEF cut
<1>6. QED
  BY <1>2, <1>3, <1>4, <1>5 DEF IsRun, cut

LEMMA HeadIsRun ==
    ASSUME NEW args \in PageArgs, ~Throws(args), NEW edges, NEW list, NEW lo, NEW n,
           IsRun(edges, list, lo, n)
    PROVE  LET size == IF args.first = Omitted /\ args.last = Omitted
                       THEN DefaultPageSize ELSE args.first
               head == IF size = Omitted THEN edges
                       ELSE SubSeq(edges, 1, Least(size, Len(edges)))
           IN  IsRun(head, list, lo, HeadLen(args, n))
<1> DEFINE size == IF args.first = Omitted /\ args.last = Omitted
                   THEN DefaultPageSize ELSE args.first
           head == IF size = Omitted THEN edges
                   ELSE SubSeq(edges, 1, Least(size, Len(edges)))
<1> SUFFICES IsRun(head, list, lo, HeadLen(args, n))
  OBVIOUS
<1>1. lo \in Nat /\ n \in Nat /\ Len(edges) = n
  BY DEF IsRun
<1>2. CASE size = Omitted
  <2>1. args.first = Omitted /\ args.last # Omitted
    BY <1>2, ArgsAre, PageSizeAssumption
  <2>2. HeadLen(args, n) = n
    BY <2>1 DEF HeadLen
  <2>3. head = edges
    BY <1>2, Zenon
  <2> HIDE DEF head
  <2>4. QED
    BY <2>2, <2>3
<1>3. CASE size # Omitted
  <2>1. size \in Nat /\ HeadLen(args, n) = Least(size, n)
    BY <1>3, ArgsAre, PageSizeAssumption DEF HeadLen
  <2>2. head = SubSeq(edges, 1, Least(size, n))
    BY <1>1, <1>3
  <2> HIDE DEF size
  <2>3. PICK k \in 0..n : k = Least(size, n)
    BY <1>1, <2>1 DEF Least
  <2>4. 0 + 1 = 1 /\ 0 + k = k /\ lo + 0 = lo /\ 0 \in 0..n /\ k \in 0..(n - 0)
    BY <1>1, <2>3
  <2>5. IsRun(SubSeq(edges, 0 + 1, 0 + k), list, lo + 0, k)
    BY <2>4, RunCut
  <2>6. IsRun(SubSeq(edges, 1, k), list, lo, k)
    BY <2>4, <2>5
  <2>7. QED
    BY <2>1, <2>2, <2>3, <2>6
<1>4. QED
  BY <1>2, <1>3

LEMMA TailIsRun ==
    ASSUME NEW last \in Nat, NEW edges, NEW list, NEW lo, NEW h, IsRun(edges, list, lo, h)
    PROVE  IsRun(SubSeq(edges, Len(edges) - Least(last, Len(edges)) + 1, Len(edges)),
                 list, lo + h - Least(last, h), Least(last, h))
<1>1. lo \in Nat /\ h \in Nat /\ Len(edges) = h
  BY DEF IsRun
<1>2. PICK m \in 0..h : m = Least(last, h)
  BY <1>1 DEF Least
<1>3. /\ h - m \in 0..h /\ m \in 0..(h - (h - m))
      /\ (h - m) + m = h /\ lo + (h - m) = lo + h - m
  BY <1>1
<1>4. IsRun(SubSeq(edges, (h - m) + 1, (h - m) + m), list, lo + (h - m), m)
  BY <1>3, RunCut
<1>5. QED
  BY <1>1, <1>2, <1>3, <1>4

\* A page is a run of the list, and PageOf is its places.
LEMMA PageIsRun ==
    ASSUME NEW list \in Seq(Nodes), NEW args \in PageArgs, ~Throws(args),
           NEW n, n = WindowLen(list, args)
    PROVE  /\ IsRun(ApplyRelayPagination(list, args).edges, list,
                    PageFrom(args, n), PageLen(args, n))
           /\ PageOf(list, args) = PageFrom(args, n)..(PageFrom(args, n) + PageLen(args, n) - 1)
<1> DEFINE lo == WindowFrom(args)
           range == ApplyCursorsToEdges(list, args.before, args.after)
           size == IF args.first = Omitted /\ args.last = Omitted
                   THEN DefaultPageSize ELSE args.first
           head == IF size = Omitted THEN range
                   ELSE SubSeq(range, 1, Least(size, Len(range)))
           edges == ApplyRelayPagination(list, args).edges
           h == HeadLen(args, n)
<1>1. /\ IsRun(range, list, lo, n)
      /\ Window(list, args) = lo..(lo + n - 1)
  BY RangeIsRun
<1>2. lo \in Nat /\ n \in Nat /\ h \in 0..n
  BY LengthsAre
<1>3. IsRun(head, list, lo, h)
  <2> HIDE DEF lo, range
  <2>1. QED
    BY <1>1, HeadIsRun
<1>4. edges = IF args.last = Omitted THEN head
              ELSE SubSeq(head, Len(head) - Least(args.last, Len(head)) + 1, Len(head))
  BY DEF ApplyRelayPagination, EdgesToReturn
<1> DEFINE front == CASE args.first # Omitted -> Front(Window(list, args), args.first)
                      [] args.first = Omitted /\ args.last = Omitted ->
                            Front(Window(list, args), DefaultPageSize)
                      [] OTHER -> Window(list, args)
<1>5. front = lo..(lo + h - 1)
  <2>1. CASE args.first # Omitted
    <3>1. PICK k \in Nat : k = args.first /\ h = Least(k, n)
      BY <2>1, ArgsAre DEF HeadLen
    <3>2. front = Front(Window(list, args), k)
      BY <2>1, <3>1
    <3>3. Front(lo..(lo + n - 1), k) = lo..(lo + Least(k, n) - 1)
      BY <1>2, FrontIs
    <3> HIDE DEF lo, h, front, range
    <3>4. QED
      BY <1>1, <3>1, <3>2, <3>3
  <2>2. CASE args.first = Omitted /\ args.last = Omitted
    <3>1. DefaultPageSize \in Nat /\ h = Least(DefaultPageSize, n)
      BY <2>2, PageSizeAssumption DEF HeadLen
    <3>2. front = Front(Window(list, args), DefaultPageSize)
      BY <2>2
    <3> HIDE DEF lo, h, front
    <3>3. QED
      BY <1>1, <1>2, <3>1, <3>2, FrontIs
  <2>3. CASE args.first = Omitted /\ args.last # Omitted
    <3>1. h = n
      BY <2>3 DEF HeadLen
    <3>2. front = Window(list, args)
      BY <2>3
    <3>3. QED
      BY <1>1, <3>1, <3>2
  <2>4. QED
    BY <2>1, <2>2, <2>3
<1>6. PageOf(list, args) = IF args.last = Omitted THEN front ELSE Back(front, args.last)
  BY DEF PageOf
<1>7. PageFrom(args, n) = lo + h - PageLen(args, n)
  BY DEF PageFrom
<1>8. CASE args.last = Omitted
  <2>1. PageLen(args, n) = h
    BY <1>8 DEF PageLen
  <2>2. lo + h - h = lo
    BY <1>2
  <2> HIDE DEF lo, h, front, head, edges
  <2>3. PageFrom(args, n) = lo
    BY <1>7, <2>1, <2>2
  <2>4. edges = head /\ PageOf(list, args) = front
    BY <1>4, <1>6, <1>8
  <2>5. QED
    BY <1>3, <1>5, <2>1, <2>3, <2>4 DEF edges
<1>9. CASE args.last # Omitted
  <2>1. args.last \in Nat /\ PageLen(args, n) = Least(args.last, h)
    BY <1>9, ArgsAre DEF PageLen
  <2> HIDE DEF lo, h, front, head, edges
  <2>2. IsRun(edges, list, lo + h - Least(args.last, h), Least(args.last, h))
    BY <1>3, <1>4, <1>9, <2>1, TailIsRun
  <2>3. PICK m \in 0..h : m = Least(args.last, h)
    BY <1>2, <2>1 DEF Least
  <2>4. Back(lo..(lo + h - 1), args.last) = (lo + h - m)..(lo + h - 1)
    <3>1. PICK k \in Nat : k = args.last
      BY <2>1
    <3>2. Back(lo..(lo + h - 1), k) = (lo + h - Least(k, h))..(lo + h - 1)
      BY <1>2, BackIs
    <3>3. QED
      BY <2>3, <3>1, <3>2
  <2>5. (lo + h - m) + m - 1 = lo + h - 1
    BY <1>2
  <2>6. QED
    BY <1>5, <1>6, <1>7, <1>9, <2>1, <2>2, <2>3, <2>4, <2>5 DEF edges
<1>10. QED
  BY <1>8, <1>9

\* The flags tell how long the window is, against the size the page is cut to.
LEMMA FlagsAre ==
    ASSUME NEW list \in Seq(Nodes), NEW args \in PageArgs, ~Throws(args),
           NEW n, n = WindowLen(list, args)
    PROVE  /\ args.last = Omitted /\ args.first # Omitted =>
                ApplyRelayPagination(list, args).hasNextPage = (n > args.first)
           /\ args.last = Omitted /\ args.first = Omitted /\ args.before = Omitted =>
                ApplyRelayPagination(list, args).hasNextPage = (n > DefaultPageSize)
           /\ args.last = Omitted /\ args.first = Omitted /\ n > DefaultPageSize =>
                ApplyRelayPagination(list, args).hasNextPage
           /\ args.first # Omitted /\ n > args.first =>
                ApplyRelayPagination(list, args).hasNextPage
           /\ args.last # Omitted =>
                ApplyRelayPagination(list, args).hasPreviousPage = (n > args.last)
<1> DEFINE range == ApplyCursorsToEdges(list, args.before, args.after)
           page == ApplyRelayPagination(list, args)
<1>1. Len(range) = n
  BY RangeIsRun DEF IsRun
<1>2. /\ page.hasNextPage = HasNextPage(list, range, args)
      /\ page.hasPreviousPage = HasPreviousPage(list, range, args)
  BY DEF ApplyRelayPagination
<1> HIDE DEF range, page
<1>3. /\ args.first # Omitted => HasNextPage(list, range, args) = (n > args.first)
      /\ args.first = Omitted /\ args.last = Omitted /\ args.before = Omitted =>
            HasNextPage(list, range, args) = (n > DefaultPageSize)
      /\ args.first = Omitted /\ args.last = Omitted /\ n > DefaultPageSize =>
            HasNextPage(list, range, args)
  BY <1>1 DEF HasNextPage
<1>4. args.last # Omitted => HasPreviousPage(list, range, args) = (n > args.last)
  BY <1>1 DEF HasPreviousPage
<1>5. QED
  BY <1>2, <1>3, <1>4 DEF page

LEMMA PagesExact ==
    ASSUME nodes \in Seq(Nodes), NEW args \in PageArgs, ~Throws(args)
    PROVE  PageIsCutWindow(args) /\ CutIsReported(args)
<1> DEFINE page == ApplyRelayPagination(nodes, args)
           edges == page.edges
           lo == WindowFrom(args)
           n == WindowLen(nodes, args)
           h == HeadLen(args, n)
           m == PageLen(args, n)
           f == PageFrom(args, n)
<1>1. IsRun(edges, nodes, f, m) /\ PageOf(nodes, args) = f..(f + m - 1)
  BY PageIsRun
<1>2. lo \in Nat /\ n \in Nat /\ h \in 0..n /\ m \in 0..h /\ f = lo + h - m /\ f \in Nat
  BY LengthsAre DEF PageFrom
<1>3. Window(nodes, args) = lo..(lo + n - 1)
  BY RangeIsRun
<1>4. PageIsCutWindow(args)
  <2> HIDE DEF edges, f, m
  <2>1. /\ DOMAIN edges = 1..m
        /\ \A i \in 1..m : edges[i].node = nodes[f + i] /\ edges[i].cursor = f + i - 1
    BY <1>1 DEF IsRun
  <2>2. m \in Nat /\ f \in Nat
    BY <1>2
  <2>3. {edges[i].cursor : i \in DOMAIN edges} = f..(f + m - 1)
    <3>1. ASSUME NEW c \in f..(f + m - 1)
          PROVE  \E i \in DOMAIN edges : edges[i].cursor = c
      <4>1. c - f + 1 \in 1..m /\ f + (c - f + 1) - 1 = c
        BY <2>2
      <4>2. QED
        BY <2>1, <4>1
    <3>2. \A i \in DOMAIN edges : edges[i].cursor \in f..(f + m - 1)
      BY <2>1, <2>2
    <3>3. QED
      BY <3>1, <3>2
  <2>4. \A i, j \in DOMAIN edges : i < j => edges[i].cursor < edges[j].cursor
    BY <2>1, <2>2
  <2>5. \A i \in DOMAIN edges : edges[i].node = nodes[edges[i].cursor + 1]
    <3>1. \A i \in 1..m : (f + i - 1) + 1 = f + i
      BY <2>2
    <3>2. QED
      BY <2>1, <3>1
  <2>6. QED
    BY <1>1, <2>3, <2>4, <2>5 DEF PageIsCutWindow, edges
<1>5. CutIsReported(args)
  <2>1. SUFFICES ASSUME Window(nodes, args) \ PageOf(nodes, args) # {}
                 PROVE  /\ args.last = Omitted => page.hasNextPage
                        /\ args.first = Omitted /\ args.last # Omitted => page.hasPreviousPage
                        /\ page.hasNextPage \/ page.hasPreviousPage
    BY DEF CutIsReported
  <2>2. m # n
    <3> HIDE DEF lo, n, h, m, f
    <3>1. ASSUME m = n PROVE FALSE
      <4>1. h = n /\ f = lo
        BY <1>2, <3>1
      <4>2. Window(nodes, args) = PageOf(nodes, args)
        BY <1>1, <1>3, <3>1, <4>1
      <4>3. QED
        BY <2>1, <4>2
    <3>2. QED
      BY <3>1
  <2>3. CASE args.last = Omitted
    <3>1. m = h /\ h < n
      BY <1>2, <2>2, <2>3 DEF PageLen
    <3>2. \/ args.first # Omitted /\ n > args.first
          \/ args.first = Omitted /\ n > DefaultPageSize
      BY <1>2, <2>3, <3>1, ArgsAre, PageSizeAssumption DEF HeadLen, Least
    <3>3. QED
      BY <2>3, <3>2, FlagsAre
  <2>4. CASE args.last # Omitted
    <3>1. args.last \in Nat /\ m = Least(args.last, h)
      BY <2>4, ArgsAre DEF PageLen
    <3>2. n > args.last \/ (args.first # Omitted /\ n > args.first)
      <4>1. CASE h = n
        <5> HIDE DEF lo, n, h, m, f
        <5>1. QED
          BY <1>2, <2>2, <3>1, <4>1 DEF Least
      <4>2. CASE h # n
        BY <1>2, <2>4, <4>2, ArgsAre DEF HeadLen, Least
      <4>3. QED
        BY <4>1, <4>2
    <3>3. args.first = Omitted => n > args.last
      BY <3>2
    <3>4. QED
      BY <2>4, <3>2, <3>3, FlagsAre
  <2>5. QED
    BY <2>3, <2>4
<1>6. QED
  BY <1>4, <1>5

(* The inductive invariant **************************************************)

Apart(s) == \A i, j \in DOMAIN s : s[i] = s[j] => i = j

\* No position has shifted while the client walks.
Still == gone = {} /\ pushed = {}

\* What is in the list, or was.
Known(x) == x \in gone \/ \E j \in DOMAIN nodes : nodes[j] = x

\* What a client asks next has the form of its direction, and all it saw or
\* may see is still there or was removed.
Form ==
    /\ direction = "none" => asking = NoArgs /\ seen = <<>> /\ ~done /\ Still
    /\ direction = "forward" =>
        /\ asking.last = Omitted /\ asking.before = Omitted
        /\ asking.first # Omitted => asking.first > 0
    /\ direction = "backward" =>
        /\ asking.first = Omitted /\ asking.after = Omitted
        /\ asking.last # Omitted /\ asking.last > 0
    /\ IsFiniteSet(gone) /\ IsFiniteSet(pushed)
    /\ Apart(nodes)
    /\ \A i \in DOMAIN seen : Known(seen[i])
    /\ \A i \in DOMAIN listed : Known(listed[i])
    /\ \A x \in pushed : Known(x)
    /\ Still =>
        Len(listed) <= Len(nodes) /\ \A j \in 1..Len(listed) : listed[j] = nodes[j]

\* Forward: places behind which the next page begins, that show nothing seen,
\* and places still to come to, that show something seen.  Backward: places
\* still to come to that show something seen, and places no longer to come to
\* that show something skipped.
Missed == {j \in 1..WindowFrom(asking) : j \in DOMAIN nodes => nodes[j] \notin Range(seen)}
Ahead == {j \in DOMAIN nodes : j > WindowFrom(asking) /\ nodes[j] \in Range(seen)}
Again == {j \in DOMAIN nodes :
            asking.before # Omitted /\ j <= asking.before /\ nodes[j] \in Range(seen)}
Skipped == Range(listed) \ (Range(seen) \cup gone)
Lost == {j \in DOMAIN nodes :
            asking.before # Omitted /\ j > asking.before /\ nodes[j] \in Skipped}

ForwardRight ==
    direction = "forward" =>
        /\ Len(seen) = WindowFrom(asking)
        /\ Len(seen) - Cardinality(Range(seen)) + Cardinality(Ahead) <= Cardinality(pushed)
        /\ Cardinality(Missed) <= Cardinality(gone) + Cardinality(pushed)
        /\ Still => Len(seen) <= Len(nodes) /\ \A j \in 1..Len(seen) : seen[j] = nodes[j]
        /\ done => Cardinality(Skipped) <= Cardinality(gone) + Cardinality(pushed)
        /\ done /\ Still => seen = listed

BackwardRight ==
    direction = "backward" =>
        /\ asking.before = Omitted <=> seen = <<>>
        /\ Len(seen) - Cardinality(Range(seen)) + Cardinality(Again) <= Cardinality(gone)
        /\ Cardinality(Lost) <= Cardinality(pushed)
        /\ done => Cardinality(Skipped) <= Cardinality(pushed)
        /\ Still /\ seen # <<>> =>
            /\ Len(listed) = asking.before + Len(seen)
            /\ \A i \in 1..Len(seen) : seen[i] = listed[asking.before + i]
        /\ done /\ Still => seen = listed

IInv == TypeOK /\ Form /\ ForwardRight /\ BackwardRight

(* A page of a walk *********************************************************)

LEMMA IsSequence ==
    ASSUME NEW S, NEW m \in Nat, NEW s \in [1..m -> S]
    PROVE  s \in Seq(S) /\ Len(s) = m
  OBVIOUS

LEMMA Joined ==
    ASSUME NEW S, NEW s \in Seq(S), NEW t \in Seq(S)
    PROVE  /\ s \o t \in Seq(S) /\ Len(s \o t) = Len(s) + Len(t)
           /\ \A i \in 1..Len(s) : (s \o t)[i] = s[i]
           /\ \A i \in 1..Len(t) : (s \o t)[Len(s) + i] = t[i]
<1>1. Len(s) \in Nat /\ Len(t) \in Nat
  OBVIOUS
<1>2. /\ s \o t \in Seq(S) /\ Len(s \o t) = Len(s) + Len(t)
      /\ \A i \in 1..(Len(s) + Len(t)) :
            (s \o t)[i] = IF i <= Len(s) THEN s[i] ELSE t[i - Len(s)]
  BY ConcatProperties
<1>3. ASSUME NEW i \in 1..Len(t) PROVE (s \o t)[Len(s) + i] = t[i]
  <2>1. /\ Len(s) + i \in 1..(Len(s) + Len(t)) /\ ~(Len(s) + i <= Len(s))
        /\ (Len(s) + i) - Len(s) = i
    BY <1>1
  <2>2. QED
    BY <1>2, <2>1
<1>4. \A i \in 1..Len(s) : i \in 1..(Len(s) + Len(t)) /\ i <= Len(s)
  BY <1>1
<1>5. QED
  BY <1>2, <1>3, <1>4

\* A connection shows m nodes of a list, from the one whose cursor is f.
Shows(c, list, args, f, m) ==
    /\ c.nodes \in Seq(Nodes) /\ Len(c.nodes) = m
    /\ \A i \in 1..m : c.nodes[i] = list[f + i]
    /\ c.pageInfo.startCursor = IF m = 0 THEN Omitted ELSE f
    /\ c.pageInfo.endCursor = IF m = 0 THEN Omitted ELSE f + m - 1
    /\ c.pageInfo.hasNextPage = ApplyRelayPagination(list, args).hasNextPage
    /\ c.pageInfo.hasPreviousPage = ApplyRelayPagination(list, args).hasPreviousPage

LEMMA ConnectionIs ==
    ASSUME NEW list \in Seq(Nodes), NEW args \in PageArgs, ~Throws(args),
           NEW n, n = WindowLen(list, args)
    PROVE  Shows(Organizations(list, args), list, args, PageFrom(args, n), PageLen(args, n))
<1> DEFINE page == ApplyRelayPagination(list, args)
           edges == page.edges
           c == Organizations(list, args)
           f == PageFrom(args, n)
           m == PageLen(args, n)
<1>1. /\ f \in Nat /\ m \in Nat
      /\ edges \in Seq(Edges) /\ Len(edges) = m
      /\ \A i \in 1..m : edges[i].node = list[f + i] /\ edges[i].cursor = f + i - 1
  BY PageIsRun DEF IsRun
<1>2. /\ page.startCursor = IF edges = <<>> THEN Omitted ELSE edges[1].cursor
      /\ page.endCursor = IF edges = <<>> THEN Omitted ELSE edges[Len(edges)].cursor
  BY DEF ApplyRelayPagination
<1>3. /\ c.nodes = [i \in DOMAIN edges |-> edges[i].node]
      /\ c.pageInfo.startCursor = page.startCursor
      /\ c.pageInfo.endCursor = page.endCursor
      /\ c.pageInfo.hasNextPage = page.hasNextPage
      /\ c.pageInfo.hasPreviousPage = page.hasPreviousPage
  BY DEF Organizations, ConvertOrganizationConnection, ToConnectionPageInfo
<1> HIDE DEF page, edges, c, f, m
<1>4. c.nodes \in [1..m -> Nodes]
  <2>1. \A i \in 1..m : edges[i] \in Edges
    BY <1>1
  <2>2. \A i \in 1..m : edges[i].node \in Nodes
    BY <2>1 DEF Edges
  <2>3. DOMAIN edges = 1..m
    BY <1>1
  <2>4. QED
    BY <1>3, <2>2, <2>3
<1>5. c.nodes \in Seq(Nodes) /\ Len(c.nodes) = m
  BY <1>1, <1>4, IsSequence
<1>6. \A i \in 1..m : c.nodes[i] = list[f + i]
  BY <1>1, <1>3
<1>7. /\ c.pageInfo.startCursor = IF m = 0 THEN Omitted ELSE f
      /\ c.pageInfo.endCursor = IF m = 0 THEN Omitted ELSE f + m - 1
  <2>1. edges = <<>> <=> m = 0
    BY <1>1
  <2>2. m # 0 => 1 \in 1..m /\ m \in 1..m /\ f + 1 - 1 = f
    BY <1>1
  <2>3. QED
    BY <1>1, <1>2, <1>3, <2>1, <2>2
<1>8. QED
  BY <1>3, <1>5, <1>6, <1>7 DEF c, page, f, m, Shows

\* A forward page goes on where the walk is.
LEMMA FetchForward ==
    ASSUME TypeOK, Form, FetchPage, direction = "forward"
    PROVE  \E p, m \in Nat :
            /\ p = WindowFrom(asking) /\ p + m = WindowFrom(asking')
            /\ m > 0 => p + m <= Len(nodes)
            /\ done' => p + m >= Len(nodes)
            /\ seen' \in Seq(Nodes) /\ Len(seen') = Len(seen) + m
            /\ \A i \in 1..Len(seen) : seen'[i] = seen[i]
            /\ \A i \in 1..m : seen'[Len(seen) + i] = nodes[p + i]
            /\ asking' \in PageArgs /\ ~Throws(asking')
            /\ asking'.last = Omitted /\ asking'.before = Omitted
            /\ asking'.first = asking.first
            /\ done' \in BOOLEAN
            /\ listed' = nodes /\ UNCHANGED <<nodes, direction, gone, pushed>>
<1> DEFINE n == WindowLen(nodes, asking)
           c == Organizations(nodes, asking)
<1>1. /\ nodes \in Seq(Nodes) /\ Len(nodes) <= MaxNodes /\ seen \in Seq(Nodes)
      /\ asking \in PageArgs /\ ~Throws(asking)
      /\ asking.last = Omitted /\ asking.before = Omitted
  BY DEF TypeOK, Form
<1>2. PICK p \in Nat : p = WindowFrom(asking)
  BY <1>1, LengthsAre
<1>3. PICK m \in Nat : m = PageLen(asking, n) /\ m = HeadLen(asking, n) /\ m <= n
  <2>1. n \in Nat
    BY <1>1, LengthsAre
  <2>2. HeadLen(asking, n) \in 0..n
    BY <1>1, <2>1, LengthsAre
  <2> HIDE DEF n
  <2>3. QED
    BY <1>1, <2>1, <2>2 DEF PageLen
<1>4. PageFrom(asking, n) = p
  <2> HIDE DEF n
  <2>1. QED
    BY <1>2, <1>3 DEF PageFrom
<1>5. /\ c.nodes \in Seq(Nodes) /\ Len(c.nodes) = m
      /\ \A i \in 1..m : c.nodes[i] = nodes[p + i]
      /\ c.pageInfo.endCursor = IF m = 0 THEN Omitted ELSE p + m - 1
      /\ c.pageInfo.hasNextPage = ApplyRelayPagination(nodes, asking).hasNextPage
  <2>1. Shows(c, nodes, asking, PageFrom(asking, n), PageLen(asking, n))
    BY <1>1, ConnectionIs
  <2> HIDE DEF c, n
  <2>2. QED
    BY <1>3, <1>4, <2>1 DEF Shows
<1>6. n \in Nat /\ (n > 0 => p + n <= Len(nodes)) /\ p + n >= Len(nodes) /\ Len(nodes) \in Nat
  <2>1. Len(nodes) \in Nat
    BY <1>1
  <2>2. QED
    BY <1>1, <1>2, <2>1 DEF WindowLen, ParseCursor, Least
<1>7. ASSUME ~c.pageInfo.hasNextPage PROVE m = n
  <2>1. CASE asking.first # Omitted
    <3>1. c.pageInfo.hasNextPage = (n > asking.first)
      BY <1>1, <1>5, <2>1, FlagsAre
    <3>2. m = Least(asking.first, n) /\ asking.first \in Nat
      BY <1>1, <1>3, <2>1, ArgsAre DEF HeadLen
    <3>3. ~(n > asking.first)
      BY <1>7, <3>1, Zenon
    <3> HIDE DEF n, c
    <3>4. QED
      BY <1>6, <3>2, <3>3 DEF Least
  <2>2. CASE asking.first = Omitted
    <3>1. c.pageInfo.hasNextPage = (n > DefaultPageSize)
      BY <1>1, <1>5, <2>2, FlagsAre
    <3>2. m = Least(DefaultPageSize, n) /\ DefaultPageSize \in Nat
      BY <1>1, <1>3, <2>2, PageSizeAssumption DEF HeadLen
    <3>3. ~(n > DefaultPageSize)
      BY <1>7, <3>1, Zenon
    <3> HIDE DEF n, c
    <3>4. QED
      BY <1>6, <3>2, <3>3 DEF Least
  <2>3. QED
    BY <2>1, <2>2
<1> HIDE DEF n, c
<1>8. /\ done' = ~c.pageInfo.hasNextPage
      /\ seen' = seen \o c.nodes
      /\ asking' = [asking EXCEPT !.after = IF c.pageInfo.endCursor = Omitted
                                            THEN @ ELSE c.pageInfo.endCursor]
      /\ listed' = nodes /\ UNCHANGED <<nodes, direction, gone, pushed>>
  BY DEF FetchPage, c
<1>9. /\ seen' \in Seq(Nodes) /\ Len(seen') = Len(seen) + m
      /\ \A i \in 1..Len(seen) : seen'[i] = seen[i]
      /\ \A i \in 1..m : seen'[Len(seen) + i] = nodes[p + i]
  <2>1. PICK t \in Seq(Nodes) : t = c.nodes
    BY <1>5
  <2>2. /\ seen \o t \in Seq(Nodes) /\ Len(seen \o t) = Len(seen) + Len(t)
        /\ \A i \in 1..Len(seen) : (seen \o t)[i] = seen[i]
        /\ \A i \in 1..Len(t) : (seen \o t)[Len(seen) + i] = t[i]
    BY <1>1, Joined
  <2>3. QED
    BY <1>5, <1>8, <2>1, <2>2
<1>10. /\ asking' \in PageArgs /\ ~Throws(asking')
       /\ asking'.last = Omitted /\ asking'.before = Omitted /\ asking'.first = asking.first
       /\ p + m = WindowFrom(asking')
  <2>1. CASE m = 0
    <3>1. asking' = asking
      BY <1>1, <1>5, <1>8, <2>1 DEF PageArgs
    <3>2. QED
      BY <1>1, <1>2, <2>1, <3>1
  <2>2. CASE m # 0
    <3>1. p + m - 1 \in 0..MaxNodes /\ p + m - 1 \in Nat /\ p + m - 1 # Omitted
      BY <1>1, <1>3, <1>6, <2>2, LengthAssumption, ArgumentAssumption
    <3>2. asking' = [asking EXCEPT !.after = p + m - 1]
      BY <1>5, <1>8, <2>2, <3>1
    <3>3. asking' \in PageArgs /\ asking'.after = p + m - 1
      BY <1>1, <3>1, <3>2 DEF PageArgs, Cursors
    <3>4. /\ asking'.last = asking.last /\ asking'.before = asking.before
          /\ asking'.first = asking.first
      BY <1>1, <3>2 DEF PageArgs
    <3>5. ~Throws(asking')
      <4>1. asking'.after \notin {-1, Malformed}
        BY <3>1, <3>3, ArgumentAssumption
      <4>2. QED
        BY <1>1, <3>4, <4>1 DEF Throws
    <3>6. WindowFrom(asking') = p + m
      BY <3>1, <3>3 DEF WindowFrom, ParseCursor
    <3>7. QED
      BY <1>1, <3>3, <3>4, <3>5, <3>6
  <2>3. QED
    BY <2>1, <2>2
<1>11. (m > 0 => p + m <= Len(nodes)) /\ (done' => p + m >= Len(nodes)) /\ done' \in BOOLEAN
  <2>1. done' \in BOOLEAN
    BY <1>8
  <2>2. done' => m = n
    BY <1>7, <1>8, Zenon
  <2>3. QED
    BY <1>3, <1>6, <2>1, <2>2
<1>12. QED
  BY <1>2, <1>8, <1>9, <1>10, <1>11

\* A backward page ends where the walk is: of the n places before it, the last m.
LEMMA FetchBackward ==
    ASSUME TypeOK, Form, FetchPage, direction = "backward"
    PROVE  \E n, m \in Nat :
            /\ n = IF asking.before = Omitted THEN Len(nodes)
                   ELSE Least(asking.before, Len(nodes))
            /\ m <= n /\ n <= Len(nodes) /\ (m = 0 => n = 0) /\ (done' => m = n)
            /\ seen' \in Seq(Nodes) /\ Len(seen') = m + Len(seen)
            /\ \A i \in 1..m : seen'[i] = nodes[(n - m) + i]
            /\ \A i \in 1..Len(seen) : seen'[m + i] = seen[i]
            /\ asking' \in PageArgs /\ ~Throws(asking')
            /\ asking'.first = Omitted /\ asking'.after = Omitted
            /\ asking'.last = asking.last
            /\ asking'.before = IF m = 0 THEN asking.before ELSE n - m
            /\ done' \in BOOLEAN /\ ~done
            /\ listed' = IF seen = <<>> THEN nodes ELSE listed
            /\ UNCHANGED <<nodes, direction, gone, pushed>>
<1> DEFINE w == WindowLen(nodes, asking)
           c == Organizations(nodes, asking)
<1>1. /\ nodes \in Seq(Nodes) /\ Len(nodes) <= MaxNodes /\ seen \in Seq(Nodes)
      /\ asking \in PageArgs /\ ~Throws(asking)
      /\ asking.first = Omitted /\ asking.after = Omitted
      /\ asking.last # Omitted /\ asking.last > 0
  BY DEF TypeOK, Form
<1>2. Omitted \notin Int /\ asking.last \in Nat /\ (asking.before = Omitted \/ asking.before \in Nat)
  BY <1>1, ArgsAre
<1>3. WindowFrom(asking) = 0
  BY <1>1 DEF WindowFrom, ParseCursor
<1>4. PICK n \in Nat : n = w
  BY <1>1, LengthsAre
<1>5. /\ n = IF asking.before = Omitted THEN Len(nodes) ELSE Least(asking.before, Len(nodes))
      /\ n <= Len(nodes)
  <2>1. Len(nodes) \in Nat
    BY <1>1
  <2>2. QED
    BY <1>2, <1>3, <1>4, <2>1 DEF WindowLen, ParseCursor, Least
<1>6. HeadLen(asking, n) = n
  BY <1>1 DEF HeadLen
<1>7. PICK m \in Nat : m = PageLen(asking, n) /\ m <= n /\ (m = n \/ m = asking.last)
                        /\ m = Least(asking.last, n)
  <2>1. PageLen(asking, n) = Least(asking.last, n)
    BY <1>1, <1>6 DEF PageLen
  <2>2. QED
    BY <1>2, <2>1 DEF Least
<1>8. PageFrom(asking, n) = n - m /\ n - m \in Nat
  BY <1>3, <1>6, <1>7 DEF PageFrom
<1>9. /\ c.nodes \in Seq(Nodes) /\ Len(c.nodes) = m
      /\ \A i \in 1..m : c.nodes[i] = nodes[(n - m) + i]
      /\ c.pageInfo.startCursor = IF m = 0 THEN Omitted ELSE n - m
      /\ c.pageInfo.hasPreviousPage = ApplyRelayPagination(nodes, asking).hasPreviousPage
  <2>1. Shows(c, nodes, asking, PageFrom(asking, w), PageLen(asking, w))
    BY <1>1, ConnectionIs
  <2> HIDE DEF c, w
  <2>2. QED
    BY <1>4, <1>7, <1>8, <2>1 DEF Shows
<1>10. ASSUME ~c.pageInfo.hasPreviousPage PROVE m = n
  <2>1. c.pageInfo.hasPreviousPage = (n > asking.last)
    BY <1>1, <1>4, <1>9, FlagsAre
  <2>2. ~(n > asking.last)
    BY <1>10, <2>1, Zenon
  <2> HIDE DEF w, c
  <2>3. QED
    BY <1>2, <1>7, <2>2 DEF Least
<1> HIDE DEF w, c
<1>11. /\ done' = ~c.pageInfo.hasPreviousPage /\ ~done
       /\ seen' = c.nodes \o seen
       /\ asking' = [asking EXCEPT !.before = IF c.pageInfo.startCursor = Omitted
                                              THEN @ ELSE c.pageInfo.startCursor]
       /\ listed' = IF seen = <<>> THEN nodes ELSE listed
       /\ UNCHANGED <<nodes, direction, gone, pushed>>
  BY DEF FetchPage, c
<1>12. /\ seen' \in Seq(Nodes) /\ Len(seen') = m + Len(seen)
       /\ \A i \in 1..m : seen'[i] = nodes[(n - m) + i]
       /\ \A i \in 1..Len(seen) : seen'[m + i] = seen[i]
  <2>1. PICK t \in Seq(Nodes) : t = c.nodes
    BY <1>9
  <2>2. /\ t \o seen \in Seq(Nodes) /\ Len(t \o seen) = Len(t) + Len(seen)
        /\ \A i \in 1..Len(t) : (t \o seen)[i] = t[i]
        /\ \A i \in 1..Len(seen) : (t \o seen)[Len(t) + i] = seen[i]
    BY <1>1, Joined
  <2>3. QED
    BY <1>9, <1>11, <2>1, <2>2
<1>13. /\ asking' \in PageArgs /\ ~Throws(asking')
       /\ asking'.first = Omitted /\ asking'.after = Omitted /\ asking'.last = asking.last
       /\ asking'.before = IF m = 0 THEN asking.before ELSE n - m
  <2>1. CASE m = 0
    <3>1. asking' = asking
      BY <1>1, <1>9, <1>11, <2>1 DEF PageArgs
    <3>2. QED
      BY <1>1, <2>1, <3>1
  <2>2. CASE m # 0
    <3>1. n - m \in 0..MaxNodes /\ n - m # Omitted
      BY <1>1, <1>2, <1>5, <1>8, LengthAssumption
    <3>2. asking' = [asking EXCEPT !.before = n - m]
      BY <1>9, <1>11, <2>2, <3>1
    <3>3. asking' \in PageArgs /\ asking'.before = n - m
      BY <1>1, <3>1, <3>2 DEF PageArgs, Cursors
    <3>4. /\ asking'.last = asking.last /\ asking'.after = asking.after
          /\ asking'.first = asking.first
      BY <1>1, <3>2 DEF PageArgs
    <3>5. ~Throws(asking')
      <4>1. asking'.before \notin {-1, Malformed}
        BY <1>8, <3>3, ArgumentAssumption
      <4>2. QED
        BY <1>1, <3>4, <4>1 DEF Throws
    <3>6. QED
      BY <1>1, <2>2, <3>3, <3>4, <3>5
  <2>3. QED
    BY <2>1, <2>2
<1>14. (m = 0 => n = 0) /\ (done' => m = n) /\ done' \in BOOLEAN
  <2>1. done' \in BOOLEAN
    BY <1>11
  <2>2. done' => m = n
    BY <1>10, <1>11, Zenon
  <2>3. m = 0 => n = 0
    BY <1>1, <1>7
  <2>4. QED
    BY <2>1, <2>2, <2>3
<1>15. QED
  BY <1>5, <1>7, <1>11, <1>12, <1>13, <1>14

(* What the invariant implies ***********************************************)

LEMMA RangeIs ==
    ASSUME NEW S, NEW s \in Seq(S)
    PROVE  IsFiniteSet(Range(s)) /\ Cardinality(Range(s)) \in Nat
<1>1. Len(s) \in Nat /\ DOMAIN s = 1..Len(s)
  OBVIOUS
<1>2. s \in Surjection(1..Len(s), Range(s))
  <2>1. s \in [1..Len(s) -> Range(s)]
    BY <1>1 DEF Range
  <2>2. \A x \in Range(s) : \E i \in 1..Len(s) : s[i] = x
    BY <1>1 DEF Range
  <2>3. QED
    BY <2>1, <2>2 DEF Surjection
<1>3. IsFiniteSet(1..Len(s))
  BY <1>1, FS_Interval
<1>4. QED
  BY <1>2, <1>3, FS_Surjection, FS_CardinalityType

LEMMA PlacesFinite ==
    ASSUME TypeOK
    PROVE  /\ IsFiniteSet(DOMAIN nodes) /\ IsFiniteSet(Ahead) /\ IsFiniteSet(Again)
           /\ IsFiniteSet(Lost) /\ IsFiniteSet(Missed) /\ IsFiniteSet(Skipped)
           /\ Cardinality(Ahead) \in Nat /\ Cardinality(Again) \in Nat
           /\ Cardinality(Lost) \in Nat /\ Cardinality(Missed) \in Nat
           /\ Cardinality(Skipped) \in Nat
<1>1. Len(nodes) \in Nat /\ DOMAIN nodes = 1..Len(nodes)
  BY DEF TypeOK
<1>2. IsFiniteSet(DOMAIN nodes)
  BY <1>1, FS_Interval
<1>3. Ahead \in SUBSET DOMAIN nodes /\ Again \in SUBSET DOMAIN nodes /\ Lost \in SUBSET DOMAIN nodes
  BY DEF Ahead, Again, Lost
<1>4. IsFiniteSet(Ahead) /\ IsFiniteSet(Again) /\ IsFiniteSet(Lost)
  BY <1>2, <1>3, FS_Subset
<1>5. IsFiniteSet(Missed)
  <2>1. PICK p \in Nat : p = WindowFrom(asking)
    BY LengthsAre DEF TypeOK
  <2>2. IsFiniteSet(1..p) /\ Missed \in SUBSET (1..p)
    BY <2>1, FS_Interval DEF Missed
  <2>3. QED
    BY <2>2, FS_Subset
<1>6. IsFiniteSet(Skipped)
  <2>1. listed \in Seq(Nodes)
    BY DEF TypeOK
  <2>2. IsFiniteSet(Range(listed)) /\ Skipped \in SUBSET Range(listed)
    BY <2>1, RangeIs DEF Skipped
  <2>3. QED
    BY <2>2, FS_Subset
<1>7. QED
  BY <1>2, <1>4, <1>5, <1>6, FS_CardinalityType

LEMMA Gapless == IInv /\ Still => WalkIsGapless
<1> SUFFICES ASSUME IInv, Still PROVE WalkIsGapless
  OBVIOUS
<1>1. /\ nodes \in Seq(Nodes) /\ seen \in Seq(Nodes) /\ listed \in Seq(Nodes)
      /\ direction \in {"none", "forward", "backward"}
  BY DEF IInv, TypeOK
<1>2. Len(nodes) \in Nat /\ Len(seen) \in Nat /\ Len(listed) \in Nat
  BY <1>1
<1>3. ASSUME direction = "forward" PROVE seen = SubSeq(nodes, 1, Len(seen))
  <2>1. Len(seen) <= Len(nodes) /\ \A j \in 1..Len(seen) : seen[j] = nodes[j]
    BY <1>3 DEF IInv, ForwardRight
  <2>2. \A i \in 1..Len(seen) : nodes[i] \in Nodes
    BY <1>1, <1>2, <2>1
  <2>3. /\ SubSeq(nodes, 1, Len(seen)) \in Seq(Nodes)
        /\ Len(SubSeq(nodes, 1, Len(seen))) = IF 1 <= Len(seen) THEN Len(seen) - 1 + 1 ELSE 0
        /\ \A i \in 1..(Len(seen) - 1 + 1) : SubSeq(nodes, 1, Len(seen))[i] = nodes[1 + i - 1]
    BY <1>2, <2>2, SubSeqProperties
  <2> DEFINE t == SubSeq(nodes, 1, Len(seen))
  <2> HIDE DEF t
  <2>4. t \in Seq(Nodes) /\ Len(t) = Len(seen) /\ \A i \in 1..Len(seen) : t[i] = seen[i]
    BY <1>2, <2>1, <2>3 DEF t
  <2>5. seen = t
    BY <1>1, <2>4
  <2>6. QED
    BY <2>5 DEF t
<1>4. ASSUME direction = "backward"
      PROVE  seen = SubSeq(listed, Len(listed) - Len(seen) + 1, Len(listed))
  <2> DEFINE t == SubSeq(listed, Len(listed) - Len(seen) + 1, Len(listed))
  <2>1. CASE seen = <<>>
    <3>1. Len(listed) - Len(seen) + 1 \in Int /\ Len(listed) < Len(listed) - Len(seen) + 1
      BY <1>2, <2>1
    <3>2. t = <<>>
      BY <1>2, <3>1, SubSeqEmpty
    <3>3. QED
      BY <2>1, <3>2
  <2>2. CASE seen # <<>>
    <3>1. PICK d : /\ d = asking.before /\ Len(listed) = d + Len(seen)
                   /\ \A i \in 1..Len(seen) : seen[i] = listed[d + i]
      BY <1>4, <2>2 DEF IInv, BackwardRight
    <3>2. d \in Nat
      <4>1. asking \in PageArgs /\ ~Throws(asking) /\ asking.before # Omitted
        BY <1>4, <2>2 DEF IInv, TypeOK, BackwardRight
      <4>2. QED
        BY <3>1, <4>1, ArgsAre
    <3>3. Len(listed) - Len(seen) + 1 = d + 1
      BY <1>2, <3>1, <3>2
    <3>4. /\ SubSeq(listed, d + 1, Len(listed)) \in Seq(Nodes)
          /\ Len(SubSeq(listed, d + 1, Len(listed))) =
               IF d + 1 <= Len(listed) THEN Len(listed) - (d + 1) + 1 ELSE 0
          /\ \A i \in 1..(Len(listed) - (d + 1) + 1) :
               SubSeq(listed, d + 1, Len(listed))[i] = listed[(d + 1) + i - 1]
      <4>1. \A i \in (d + 1)..Len(listed) : listed[i] \in Nodes
        BY <1>1, <1>2, <3>2
      <4>2. QED
        BY <1>2, <3>2, <4>1, SubSeqProperties
    <3>5. t = SubSeq(listed, d + 1, Len(listed))
      BY <3>3
    <3> HIDE DEF t
    <3>6. t \in Seq(Nodes) /\ Len(t) = Len(seen) /\ \A i \in 1..Len(seen) : t[i] = listed[d + i]
      <4>1. Len(t) = Len(seen)
        <5>1. d + 1 <= Len(listed) <=> Len(seen) > 0
          BY <1>2, <3>1, <3>2
        <5>2. Len(listed) - (d + 1) + 1 = Len(seen)
          BY <1>2, <3>1, <3>2
        <5>3. Len(t) = IF d + 1 <= Len(listed) THEN Len(listed) - (d + 1) + 1 ELSE 0
          BY <3>4, <3>5
        <5>4. QED
          BY <1>2, <5>1, <5>2, <5>3
      <4>2. \A i \in 1..Len(seen) : i \in 1..(Len(listed) - (d + 1) + 1) /\ (d + 1) + i - 1 = d + i
        BY <1>2, <3>1, <3>2
      <4>3. QED
        BY <3>4, <3>5, <4>1, <4>2
    <3>7. seen = t
      BY <1>1, <3>1, <3>6
    <3>8. QED
      BY <3>7 DEF t
  <2>3. QED
    BY <2>1, <2>2
<1>5. ASSUME done PROVE seen = listed
  BY <1>1, <1>5 DEF IInv, Form, ForwardRight, BackwardRight
<1>6. QED
  BY <1>3, <1>4, <1>5 DEF WalkIsGapless

LEMMA Shifted == IInv => WalkIsShifted
<1> SUFFICES ASSUME IInv PROVE WalkIsShifted
  OBVIOUS
<1>1. seen \in Seq(Nodes) /\ IsFiniteSet(gone)
  BY DEF IInv, TypeOK, Form
<1>2. /\ Cardinality(Range(seen)) \in Nat /\ Cardinality(gone) \in Nat
      /\ Cardinality(Again) \in Nat /\ Cardinality(Ahead) \in Nat /\ Len(seen) \in Nat
  BY <1>1, RangeIs, PlacesFinite, FS_CardinalityType DEF IInv
<1>3. ASSUME direction = "forward"
      PROVE  /\ Len(seen) - Cardinality(Range(seen)) <= Cardinality(pushed)
             /\ done => Cardinality(Skipped) <= Cardinality(gone) + Cardinality(pushed)
  <2>1. /\ Len(seen) - Cardinality(Range(seen)) + Cardinality(Ahead) <= Cardinality(pushed)
        /\ done => Cardinality(Skipped) <= Cardinality(gone) + Cardinality(pushed)
    BY <1>3 DEF IInv, ForwardRight
  <2>2. Cardinality(pushed) \in Nat
    BY FS_CardinalityType DEF IInv, Form
  <2>3. QED
    BY <1>2, <2>1, <2>2
<1>4. ASSUME direction = "backward"
      PROVE  /\ Len(seen) - Cardinality(Range(seen)) <= Cardinality(gone)
             /\ done => Cardinality(Skipped) <= Cardinality(pushed)
  <2>1. /\ Len(seen) - Cardinality(Range(seen)) + Cardinality(Again) <= Cardinality(gone)
        /\ done => Cardinality(Skipped) <= Cardinality(pushed)
    BY <1>4 DEF IInv, BackwardRight
  <2>2. QED
    BY <1>2, <2>1
<1>5. QED
  BY <1>3, <1>4 DEF WalkIsShifted, Skipped

(* Steps ********************************************************************)

LEMMA InitImplies == Init => IInv
<1> SUFFICES ASSUME Init PROVE IInv
  OBVIOUS
<1>1. nodes \in Seq(Nodes) /\ Len(nodes) <= MaxNodes /\ IsInjective(nodes)
  BY InitialAssumption DEF Init
<1>2. /\ direction = "none" /\ asking = NoArgs /\ seen = <<>> /\ done = FALSE
      /\ listed = nodes /\ gone = {} /\ pushed = {}
  BY DEF Init
<1>3. NoArgs \in PageArgs /\ ~Throws(NoArgs)
  <2>1. NoArgs \in PageArgs
    BY DEF NoArgs, PageArgs
  <2>2. Omitted \notin {-1, Malformed}
    BY ArgumentAssumption
  <2>3. QED
    BY <2>1, <2>2 DEF NoArgs, Throws
<1>4. TypeOK
  <2>1. seen \in Seq(Nodes) /\ gone \subseteq Nodes \ Range(nodes) /\ pushed \subseteq Nodes
    BY <1>2
  <2>2. done \in BOOLEAN
    BY <1>2, Zenon
  <2>3. QED
    BY <1>1, <1>2, <1>3, <2>1, <2>2 DEF TypeOK
<1>5. Form
  <2>1. IsFiniteSet(gone) /\ IsFiniteSet(pushed)
    BY <1>2, FS_EmptySet
  <2>2. Apart(nodes)
    BY <1>1 DEF Apart, IsInjective
  <2>3. Still /\ DOMAIN seen = {} /\ \A i \in DOMAIN listed : Known(listed[i])
    BY <1>2 DEF Still, Known
  <2>4. Len(nodes) \in Nat
    BY <1>1
  <2>5. QED
    BY <1>1, <1>2, <2>1, <2>2, <2>3, <2>4 DEF Form
<1>6. QED
  BY <1>2, <1>4, <1>5 DEF IInv, ForwardRight, BackwardRight

LEMMA BeginKeeps == IInv /\ BeginWalk => IInv'
<1> SUFFICES ASSUME IInv, BeginWalk PROVE IInv'
  OBVIOUS
<1>1. /\ asking = NoArgs /\ seen = <<>> /\ ~done /\ gone = {} /\ pushed = {}
      /\ nodes \in Seq(Nodes)
      /\ UNCHANGED <<nodes, seen, done, listed, gone, pushed>>
  BY DEF IInv, TypeOK, Form, BeginWalk, Still
<1>2. PICK size \in 1..MaxNodes :
        \/ direction' = "forward" /\ asking' = [NoArgs EXCEPT !.first = size]
        \/ direction' = "forward" /\ asking' = NoArgs
        \/ direction' = "backward" /\ asking' = [NoArgs EXCEPT !.last = size]
  BY DEF BeginWalk
<1>3. size \in Nat /\ size > 0 /\ size \in Sizes /\ size # Omitted /\ Omitted \notin {-1, Malformed}
      /\ size # -1
  BY LengthAssumption, ArgumentAssumption DEF Sizes
<1>4. /\ asking'.after = Omitted /\ asking'.before = Omitted
      /\ asking'.first \in {size, Omitted} /\ asking'.last \in {size, Omitted}
      /\ direction' = "forward" => asking'.last = Omitted
      /\ direction' = "backward" => asking'.first = Omitted /\ asking'.last = size
      /\ asking' \in PageArgs
  BY <1>2, <1>3 DEF NoArgs, PageArgs
<1>5. ~Throws(asking')
  BY <1>3, <1>4 DEF Throws
<1>6. TypeOK'
  BY <1>1, <1>2, <1>4, <1>5 DEF IInv, TypeOK, Range
<1>7. Form'
  BY <1>1, <1>2, <1>3, <1>4 DEF IInv, Form, Apart, Known, Still
<1>8. WindowFrom(asking') = 0
  BY <1>4 DEF WindowFrom, ParseCursor
<1>9. /\ Missed' = {} /\ Again' = {} /\ Ahead' = {} /\ Lost' = {}
      /\ Range(seen') = {} /\ gone' = {} /\ pushed' = {}
  <2>1. Range(seen') = {}
    BY <1>1 DEF Range
  <2>2. QED
    BY <1>1, <1>4, <1>8, <2>1 DEF Missed, Again, Ahead, Lost
<1>10. /\ Cardinality(Missed') = 0 /\ Cardinality(Again') = 0 /\ Cardinality(Ahead') = 0
       /\ Cardinality(Lost') = 0 /\ Cardinality(Range(seen')) = 0
       /\ Cardinality(gone') = 0 /\ Cardinality(pushed') = 0
  BY <1>9, FS_EmptySet, Zenon
<1>11. Len(seen') = 0 /\ seen' = <<>> /\ ~done' /\ Len(nodes') \in Nat
  BY <1>1
<1>12. ForwardRight'
  BY <1>8, <1>10, <1>11 DEF ForwardRight
<1>13. BackwardRight'
  BY <1>4, <1>10, <1>11 DEF BackwardRight
<1>14. QED
  BY <1>6, <1>7, <1>12, <1>13 DEF IInv

(* Rows that come and go ****************************************************)

\* Where the m-th was before one was put in as the k-th, or was removed there.
Origin(k, m) == IF m < k THEN m ELSE m - 1
Place(k, m) == IF m < k THEN m ELSE m + 1

\* t is s with x as its k-th; t is s without its k-th.
With(t, s, k, x, S) ==
    /\ t \in Seq(S) /\ Len(t) = Len(s) + 1 /\ DOMAIN t = 1..(Len(s) + 1)
    /\ t[k] = x
    /\ \A m \in DOMAIN t : m # k => Origin(k, m) \in DOMAIN s /\ t[m] = s[Origin(k, m)]
    /\ \A l \in DOMAIN s : \E m \in DOMAIN t : t[m] = s[l]
Without(t, s, k, S) ==
    /\ t \in Seq(S) /\ Len(t) = Len(s) - 1 /\ DOMAIN t = 1..(Len(s) - 1)
    /\ \A m \in DOMAIN t : Place(k, m) \in DOMAIN s /\ t[m] = s[Place(k, m)]
    /\ \A l \in DOMAIN s : l # k => \E m \in DOMAIN t : Place(k, m) = l

LEMMA PutIn ==
    ASSUME NEW S, NEW s \in Seq(S), NEW x \in S, NEW k \in 1..(Len(s) + 1)
    PROVE  With(Inserted(s, k, x), s, k, x, S)
<1> DEFINE a == SubSeq(s, 1, k - 1)
           b == SubSeq(s, k, Len(s))
           N == Len(s)
<1>1. N \in Nat /\ k \in Nat /\ k > 0 /\ k <= N + 1 /\ DOMAIN s = 1..N
  OBVIOUS
<1>2. a \in Seq(S) /\ Len(a) = k - 1 /\ \A m \in 1..(k - 1) : a[m] = s[m]
  BY <1>1
<1>3. b \in Seq(S) /\ Len(b) = N - (k - 1) /\ \A m \in 1..(N - (k - 1)) : b[m] = s[(k - 1) + m]
  BY <1>1
<1>4. PICK c \in Seq(S) : c = <<x>> /\ Len(c) = 1 /\ c[1] = x
  <2>1. <<x>> \in Seq(S) /\ Len(<<x>>) = 1 /\ <<x>>[1] = x
    OBVIOUS
  <2>2. QED
    BY <2>1
<1>5. Inserted(s, k, x) = (a \o c) \o b
  BY <1>4 DEF Inserted
<1> HIDE DEF a, b, N
<1>6. PICK d \in Seq(S) : /\ d = a \o c /\ Len(d) = k
                          /\ \A i \in 1..(k - 1) : d[i] = a[i]
                          /\ d[k] = x
  <2>1. /\ a \o c \in Seq(S) /\ Len(a \o c) = Len(a) + Len(c)
        /\ \A i \in 1..Len(a) : (a \o c)[i] = a[i]
        /\ \A i \in 1..Len(c) : (a \o c)[Len(a) + i] = c[i]
    <3>1. a \in Seq(S) /\ c \in Seq(S)
      BY <1>2
    <3>2. QED
      BY <3>1, Joined
  <2>2. Len(a) + Len(c) = k /\ Len(a) + 1 = k /\ 1 \in 1..Len(c)
    BY <1>1, <1>2, <1>4
  <2>3. (a \o c)[Len(a) + 1] = c[1]
    BY <2>1, <2>2
  <2>4. QED
    BY <1>2, <1>4, <2>1, <2>2, <2>3
<1>7. PICK t \in Seq(S) : /\ t = d \o b /\ Len(t) = N + 1 /\ DOMAIN t = 1..(N + 1)
                          /\ \A i \in 1..k : t[i] = d[i]
                          /\ \A i \in 1..(N - (k - 1)) : t[k + i] = b[i]
  <2>1. /\ d \o b \in Seq(S) /\ Len(d \o b) = Len(d) + Len(b)
        /\ \A i \in 1..Len(d) : (d \o b)[i] = d[i]
        /\ \A i \in 1..Len(b) : (d \o b)[Len(d) + i] = b[i]
    <3>1. d \in Seq(S) /\ b \in Seq(S)
      BY <1>3
    <3>2. QED
      BY <3>1, Joined
  <2>2. Len(d) + Len(b) = N + 1
    BY <1>1, <1>3, <1>6
  <2>3. PICK t \in Seq(S) : t = d \o b
    BY <2>1
  <2>4. Len(t) = N + 1 /\ DOMAIN t = 1..(N + 1)
    BY <2>1, <2>2, <2>3
  <2>5. \A i \in 1..k : t[i] = d[i]
    BY <1>6, <2>1, <2>3
  <2>6. \A i \in 1..(N - (k - 1)) : t[k + i] = b[i]
    BY <1>3, <1>6, <2>1, <2>3
  <2>7. QED
    BY <2>3, <2>4, <2>5, <2>6
<1>8. t[k] = x
  BY <1>1, <1>6, <1>7
<1>9. ASSUME NEW m \in 1..(N + 1), m # k
      PROVE  Origin(k, m) \in 1..N /\ t[m] = s[Origin(k, m)]
  <2>1. CASE m < k
    <3>1. m \in 1..(k - 1) /\ m \in 1..k /\ m \in 1..N /\ Origin(k, m) = m
      BY <1>1, <2>1 DEF Origin
    <3>2. QED
      BY <1>2, <1>6, <1>7, <3>1
  <2>2. CASE ~(m < k)
    <3>1. PICK i \in 1..(N - (k - 1)) : k + i = m /\ (k - 1) + i = m - 1 /\ m - 1 \in 1..N
      <4>1. m - k \in 1..(N - (k - 1)) /\ k + (m - k) = m /\ (k - 1) + (m - k) = m - 1
            /\ m - 1 \in 1..N
        BY <1>1, <1>9, <2>2
      <4>2. QED
        BY <4>1
    <3>2. Origin(k, m) = m - 1
      BY <2>2 DEF Origin
    <3>3. t[k + i] = b[i] /\ b[i] = s[(k - 1) + i]
      BY <1>3, <1>7
    <3>4. QED
      BY <3>1, <3>2, <3>3
  <2>3. QED
    BY <2>1, <2>2
<1>10. ASSUME NEW l \in 1..N PROVE \E m \in 1..(N + 1) : t[m] = s[l]
  <2>1. CASE l < k
    <3>1. l \in 1..(N + 1) /\ l # k /\ Origin(k, l) = l
      BY <1>1, <2>1 DEF Origin
    <3>2. QED
      BY <1>9, <3>1
  <2>2. CASE ~(l < k)
    <3>1. PICK m \in 1..(N + 1) : m = l + 1 /\ m # k /\ Origin(k, m) = l
      <4>1. l + 1 \in 1..(N + 1) /\ l + 1 # k /\ ~(l + 1 < k) /\ (l + 1) - 1 = l
        BY <1>1, <2>2
      <4>2. Origin(k, l + 1) = l
        BY <4>1 DEF Origin
      <4>3. QED
        BY <4>1, <4>2
    <3>2. t[m] = s[Origin(k, m)]
      BY <1>9, <3>1
    <3>3. QED
      BY <3>1, <3>2
  <2>3. QED
    BY <2>1, <2>2
<1>11. With(t, s, k, x, S)
  BY <1>1, <1>7, <1>8, <1>9, <1>10 DEF With, N
<1>12. QED
  BY <1>5, <1>6, <1>7, <1>11

LEMMA Removed ==
    ASSUME NEW S, NEW s \in Seq(S), NEW k \in DOMAIN s
    PROVE  Without(SubSeq(s, 1, k - 1) \o SubSeq(s, k + 1, Len(s)), s, k, S)
<1> DEFINE a == SubSeq(s, 1, k - 1)
           b == SubSeq(s, k + 1, Len(s))
           t == a \o b
           N == Len(s)
<1>1. N \in Nat /\ k \in 1..N /\ DOMAIN s = 1..N
  OBVIOUS
<1>2. /\ a \in Seq(S) /\ Len(a) = k - 1
      /\ \A m \in 1..(k - 1) : a[m] = s[m]
  BY <1>1
<1>3. /\ b \in Seq(S) /\ Len(b) = N - k
      /\ \A m \in 1..(N - k) : b[m] = s[k + m]
  BY <1>1
<1>4. t = a \o b
  OBVIOUS
<1> HIDE DEF a, b, t, N
<1>5. /\ t \in Seq(S) /\ Len(t) = Len(a) + Len(b)
      /\ \A i \in 1..Len(a) : t[i] = a[i]
      /\ \A i \in 1..Len(b) : t[Len(a) + i] = b[i]
  <2>1. a \in Seq(S) /\ b \in Seq(S)
    BY <1>2, <1>3
  <2>2. /\ a \o b \in Seq(S) /\ Len(a \o b) = Len(a) + Len(b)
        /\ \A i \in 1..Len(a) : (a \o b)[i] = a[i]
        /\ \A i \in 1..Len(b) : (a \o b)[Len(a) + i] = b[i]
    BY <2>1, Joined
  <2>3. QED
    BY <1>4, <2>2
<1>6. Len(t) = N - 1 /\ DOMAIN t = 1..(N - 1)
  <2>1. (k - 1) + (N - k) = N - 1
    BY <1>1
  <2>2. DOMAIN t = 1..Len(t)
    BY <1>5
  <2>3. QED
    BY <1>2, <1>3, <1>5, <2>1, <2>2
<1>7. ASSUME NEW m \in 1..(N - 1)
      PROVE  Place(k, m) \in 1..N /\ t[m] = s[Place(k, m)]
  <2>1. CASE m < k
    <3>1. m \in 1..(k - 1) /\ m \in 1..N /\ Place(k, m) = m
      BY <1>1, <2>1 DEF Place
    <3>2. QED
      BY <1>2, <1>5, <3>1
  <2>2. CASE ~(m < k)
    <3> DEFINE i == m - (k - 1)
    <3>1. i \in 1..(N - k)
      BY <1>1, <2>2
    <3>2. (k - 1) + i = m /\ k + i = m + 1 /\ m + 1 \in 1..N
      BY <1>1
    <3>3. Place(k, m) = m + 1
      BY <2>2 DEF Place
    <3> HIDE DEF i
    <3>4. t[m] = b[i]
      BY <1>2, <1>3, <1>5, <3>1, <3>2
    <3>5. b[i] = s[m + 1]
      BY <1>3, <3>1, <3>2
    <3>6. QED
      BY <3>2, <3>3, <3>4, <3>5
  <2>3. QED
    BY <2>1, <2>2
<1>8. ASSUME NEW l \in 1..N, l # k
      PROVE  \E m \in 1..(N - 1) : Place(k, m) = l
  <2>1. CASE l < k
    BY <1>1, <2>1 DEF Place
  <2>2. CASE l > k
    <3>1. l - 1 \in 1..(N - 1) /\ Place(k, l - 1) = l
      BY <1>1, <2>2 DEF Place
    <3>2. QED
      BY <3>1
  <2>3. QED
    BY <1>1, <1>8, <2>1, <2>2
<1>9. QED
  BY <1>1, <1>5, <1>6, <1>7, <1>8 DEF Without, N, t, a, b

LEMMA PlaceIs ==
    ASSUME NEW k \in Nat
    PROVE  /\ \A m \in Nat : /\ Place(k, m) \in Nat /\ Place(k, m) # k
                             /\ m <= Place(k, m) /\ Place(k, m) <= m + 1
           /\ \A m, l \in Nat : Place(k, m) = Place(k, l) => m = l
           /\ \A m, l \in Nat : m # k /\ l # k /\ Origin(k, m) = Origin(k, l) => m = l
  BY DEF Place, Origin

\* Places that were all counted before, but for one, are at most one more than
\* were counted.
LEMMA ButOne ==
    ASSUME NEW A, IsFiniteSet(A), NEW B, NEW p, NEW f \in Injection(B \ {p}, A)
    PROVE  IsFiniteSet(B) /\ Cardinality(B) <= Cardinality(A) + 1
<1> DEFINE C == B \ {p}
<1>1. IsFiniteSet(C) /\ Cardinality(C) <= Cardinality(A)
  BY FS_Injection
<1>2. /\ IsFiniteSet(C \cup {p})
      /\ Cardinality(C \cup {p}) = IF p \in C THEN Cardinality(C) ELSE Cardinality(C) + 1
  BY <1>1, FS_AddElement
<1>3. B \in SUBSET (C \cup {p})
  OBVIOUS
<1> DEFINE D == C \cup {p}
<1>4. IsFiniteSet(D) /\ Cardinality(D) <= Cardinality(C) + 1 /\ B \in SUBSET D
  <2>1. Cardinality(C) \in Nat
    BY <1>1, FS_CardinalityType
  <2>2. QED
    BY <1>2, <1>3, <2>1
<1> HIDE DEF D
<1>5. IsFiniteSet(B) /\ Cardinality(B) <= Cardinality(D)
  BY <1>4, FS_Subset
<1>6. Cardinality(A) \in Nat /\ Cardinality(B) \in Nat /\ Cardinality(C) \in Nat /\ Cardinality(D) \in Nat
  BY <1>1, <1>4, <1>5, FS_CardinalityType
<1> HIDE DEF C
<1>7. QED
  BY <1>1, <1>4, <1>5, <1>6

LEMMA OneMoreRemoved ==
    ASSUME NEW A, IsFiniteSet(A), NEW B \in SUBSET Nat, NEW k \in Nat, NEW p,
           \A j \in B : j = p \/ Place(k, j) \in A
    PROVE  IsFiniteSet(B) /\ Cardinality(B) <= Cardinality(A) + 1
<1> DEFINE f == [j \in B \ {p} |-> Place(k, j)]
<1>1. f \in [B \ {p} -> A]
  OBVIOUS
<1>2. \A i, j \in B \ {p} : f[i] = f[j] => i = j
  BY PlaceIs
<1>3. f \in Injection(B \ {p}, A)
  BY <1>1, <1>2 DEF Injection, IsInjective
<1> HIDE DEF f
<1>4. QED
  BY <1>3, ButOne

LEMMA NoMoreRemoved ==
    ASSUME NEW A, IsFiniteSet(A), NEW B \in SUBSET Nat, NEW k \in Nat,
           \A j \in B : Place(k, j) \in A
    PROVE  IsFiniteSet(B) /\ Cardinality(B) <= Cardinality(A)
<1> DEFINE f == [j \in B |-> Place(k, j)]
<1>1. f \in [B -> A]
  OBVIOUS
<1>2. \A i, j \in B : f[i] = f[j] => i = j
  BY PlaceIs
<1>3. f \in Injection(B, A)
  BY <1>1, <1>2 DEF Injection, IsInjective
<1> HIDE DEF f
<1>4. QED
  BY <1>3, FS_Injection

LEMMA OneMorePut ==
    ASSUME NEW A, IsFiniteSet(A), NEW B \in SUBSET Nat, NEW k \in Nat, NEW p,
           \A j \in B : j = p \/ (j # k /\ Origin(k, j) \in A)
    PROVE  IsFiniteSet(B) /\ Cardinality(B) <= Cardinality(A) + 1
<1> DEFINE f == [j \in B \ {p} |-> Origin(k, j)]
<1>1. f \in [B \ {p} -> A]
  OBVIOUS
<1>2. \A i, j \in B \ {p} : f[i] = f[j] => i = j
  <2>1. \A j \in B \ {p} : j # k /\ j \in Nat
    OBVIOUS
  <2>2. QED
    BY <2>1, PlaceIs
<1>3. f \in Injection(B \ {p}, A)
  BY <1>1, <1>2 DEF Injection, IsInjective
<1> HIDE DEF f
<1>4. QED
  BY <1>3, ButOne

LEMMA NoMorePut ==
    ASSUME NEW A, IsFiniteSet(A), NEW B \in SUBSET Nat, NEW k \in Nat,
           \A j \in B : j # k /\ Origin(k, j) \in A
    PROVE  IsFiniteSet(B) /\ Cardinality(B) <= Cardinality(A)
<1> DEFINE f == [j \in B |-> Origin(k, j)]
<1>1. f \in [B -> A]
  OBVIOUS
<1>2. \A i, j \in B : f[i] = f[j] => i = j
  BY PlaceIs
<1>3. f \in Injection(B, A)
  BY <1>1, <1>2 DEF Injection, IsInjective
<1> HIDE DEF f
<1>4. QED
  BY <1>3, FS_Injection

\* A new row was not seen.  In front of others it shifts those by one, so each
\* count grows by at most one, as pushed does; behind them it changes none.
LEMMA AddKeeps == IInv /\ AddNode => IInv'
<1> SUFFICES ASSUME IInv, AddNode PROVE IInv'
  OBVIOUS
<1>1. /\ nodes \in Seq(Nodes) /\ seen \in Seq(Nodes) /\ Len(nodes) < MaxNodes
      /\ listed \in Seq(Nodes) /\ asking \in PageArgs /\ ~Throws(asking)
      /\ gone \subseteq Nodes \ Range(nodes) /\ pushed \subseteq Nodes
      /\ IsFiniteSet(gone) /\ IsFiniteSet(pushed) /\ Apart(nodes)
  BY DEF IInv, TypeOK, Form, AddNode
<1>2. /\ direction' = direction /\ asking' = asking /\ seen' = seen /\ done' = done
      /\ listed' = listed /\ gone' = gone /\ direction # "none"
  BY DEF AddNode
<1>3. PICK x \in Nodes \ (Range(nodes) \cup gone), k \in 1..(Len(nodes) + 1) :
        /\ nodes' = Inserted(nodes, k, x)
        /\ pushed' = IF k <= Len(nodes) THEN pushed \cup {x} ELSE pushed
  BY DEF AddNode
<1>4. Len(nodes) \in Nat /\ k \in Nat /\ k > 0 /\ DOMAIN nodes = 1..Len(nodes)
  BY <1>1
<1>5. /\ nodes' \in Seq(Nodes) /\ Len(nodes') = Len(nodes) + 1
      /\ DOMAIN nodes' = 1..(Len(nodes) + 1) /\ nodes'[k] = x
      /\ \A m \in DOMAIN nodes' : m # k =>
            Origin(k, m) \in DOMAIN nodes /\ nodes'[m] = nodes[Origin(k, m)]
      /\ \A l \in DOMAIN nodes : \E m \in DOMAIN nodes' : nodes'[m] = nodes[l]
  <2>1. PICK s \in Seq(Nodes) : s = nodes
    BY <1>1
  <2>2. PICK t : t = Inserted(s, k, x)
    OBVIOUS
  <2>3. With(t, s, k, x, Nodes)
    BY <2>1, <2>2, PutIn
  <2>4. t = nodes'
    BY <1>3, <2>1, <2>2
  <2>5. QED
    BY <2>1, <2>3, <2>4 DEF With
<1>6. \A m \in DOMAIN nodes' : m \in Nat
  BY <1>4, <1>5
<1>7. /\ x \notin gone /\ \A j \in DOMAIN nodes : nodes[j] # x
      /\ x \notin Range(seen) /\ x \notin Range(listed) /\ x \notin pushed
  <2>1. x \notin gone /\ \A j \in DOMAIN nodes : nodes[j] # x
    BY <1>3 DEF Range
  <2>2. ~Known(x)
    BY <2>1 DEF Known
  <2>3. QED
    BY <2>1, <2>2 DEF IInv, Form, Range
<1>8. \A y : Known(y) => Known(y)'
  BY <1>2, <1>5 DEF Known
<1>9. \/ /\ k <= Len(nodes) /\ pushed' = pushed \cup {x} /\ ~Still'
         /\ Cardinality(pushed') = Cardinality(pushed) + 1
      \/ /\ k = Len(nodes) + 1 /\ pushed' = pushed /\ Still' = Still
         /\ \A m \in DOMAIN nodes : m \in DOMAIN nodes' /\ m # k /\ nodes'[m] = nodes[m]
         /\ \A m \in DOMAIN nodes' : m = k \/ m \in DOMAIN nodes
  <2>1. CASE k <= Len(nodes)
    <3>1. pushed' = pushed \cup {x} /\ ~Still'
      BY <1>3, <2>1 DEF Still
    <3>2. Cardinality(pushed \cup {x}) = Cardinality(pushed) + 1
      BY <1>1, <1>7, FS_AddElement
    <3>3. QED
      BY <2>1, <3>1, <3>2
  <2>2. CASE ~(k <= Len(nodes))
    <3>1. k = Len(nodes) + 1
      BY <1>4, <2>2
    <3>2. pushed' = pushed /\ Still' = Still
      BY <1>2, <1>3, <2>2 DEF Still
    <3>3. ASSUME NEW m \in DOMAIN nodes
          PROVE  m \in DOMAIN nodes' /\ m # k /\ Origin(k, m) = m
      BY <1>4, <1>5, <3>1 DEF Origin
    <3>4. \A m \in DOMAIN nodes' : m = k \/ m \in DOMAIN nodes
      BY <1>4, <1>5, <3>1
    <3>5. QED
      BY <1>5, <3>1, <3>2, <3>3, <3>4
  <2>3. QED
    BY <2>1, <2>2
<1>10. Cardinality(pushed) \in Nat /\ Cardinality(gone) \in Nat
  BY <1>1, FS_CardinalityType
<1>11. TypeOK'
  <2>1. Len(nodes') <= MaxNodes
    BY <1>1, <1>4, <1>5, LengthAssumption
  <2>2. \A y \in Range(nodes') : y \in Range(nodes) \/ y = x
    BY <1>5 DEF Range
  <2>3. gone' \subseteq Nodes \ Range(nodes') /\ pushed' \subseteq Nodes
    BY <1>1, <1>2, <1>3, <2>2
  <2>4. QED
    BY <1>2, <1>5, <2>1, <2>3 DEF IInv, TypeOK
<1>12. Form'
  <2>1. Apart(nodes')
    <3>1. ASSUME NEW i \in DOMAIN nodes', NEW j \in DOMAIN nodes', nodes'[i] = nodes'[j]
          PROVE  i = j
      <4>1. CASE i = k \/ j = k
        BY <1>5, <1>7, <3>1, <4>1
      <4>2. CASE i # k /\ j # k
        <5>1. Origin(k, i) = Origin(k, j)
          BY <1>1, <1>5, <3>1, <4>2 DEF Apart
        <5>2. QED
          BY <1>4, <1>6, <4>2, <5>1, PlaceIs
      <4>3. QED
        BY <4>1, <4>2
    <3>2. QED
      BY <3>1 DEF Apart
  <2>2. /\ \A i \in DOMAIN seen' : Known(seen[i])'
        /\ \A i \in DOMAIN listed' : Known(listed[i])'
    BY <1>2, <1>8 DEF IInv, Form, Known
  <2>3. \A y \in pushed' : Known(y)'
    <3>1. Known(x)'
      BY <1>4, <1>5 DEF Known
    <3>2. \A y \in pushed' : y \in pushed \/ y = x
      BY <1>3
    <3>3. QED
      BY <1>8, <3>1, <3>2 DEF IInv, Form
  <2>4. Still' =>
            Len(listed) <= Len(nodes') /\ \A j \in 1..Len(listed) : listed[j] = nodes'[j]
    <3>1. SUFFICES ASSUME Still'
                   PROVE  Len(listed) <= Len(nodes') /\ \A j \in 1..Len(listed) : listed[j] = nodes'[j]
      OBVIOUS
    <3>2. Still /\ \A m \in DOMAIN nodes : nodes'[m] = nodes[m]
      BY <1>9, <3>1
    <3>3. Len(listed) \in Nat
      BY <1>1
    <3>4. Len(listed) <= Len(nodes) /\ \A j \in 1..Len(listed) : listed[j] = nodes[j]
      BY <3>2 DEF IInv, Form
    <3>5. QED
      BY <1>4, <1>5, <3>2, <3>3, <3>4
  <2>5. IsFiniteSet(pushed')
    BY <1>1, <1>3, FS_AddElement
  <2>6. QED
    BY <1>2, <2>1, <2>2, <2>3, <2>4, <2>5 DEF IInv, Form
<1>13. Skipped' = Skipped
  BY <1>2 DEF Skipped
<1>14. /\ IsFiniteSet(Ahead) /\ IsFiniteSet(Again) /\ IsFiniteSet(Lost) /\ IsFiniteSet(Missed)
       /\ Cardinality(Ahead) \in Nat /\ Cardinality(Again) \in Nat
       /\ Cardinality(Lost) \in Nat /\ Cardinality(Missed) \in Nat
       /\ Cardinality(Skipped) \in Nat
  BY PlacesFinite DEF IInv
<1>15. Len(seen) \in Nat /\ Cardinality(Range(seen)) \in Nat
  BY <1>1, RangeIs
<1>16. ForwardRight'
  <2>1. SUFFICES ASSUME direction = "forward" PROVE ForwardRight'
    BY <1>2 DEF ForwardRight
  <2>2. PICK p \in Nat : p = WindowFrom(asking)
    BY <1>1, LengthsAre
  <2>3. /\ Len(seen) = p
        /\ Len(seen) - Cardinality(Range(seen)) + Cardinality(Ahead) <= Cardinality(pushed)
        /\ Cardinality(Missed) <= Cardinality(gone) + Cardinality(pushed)
        /\ Still => Len(seen) <= Len(nodes) /\ \A j \in 1..Len(seen) : seen[j] = nodes[j]
        /\ done => Cardinality(Skipped) <= Cardinality(gone) + Cardinality(pushed)
        /\ done /\ Still => seen = listed
    BY <2>1, <2>2 DEF IInv, ForwardRight
  <2>4. CASE k = Len(nodes) + 1
    <3>1. pushed' = pushed /\ Still' = Still
      BY <1>4, <1>9, <2>4
    <3>2. /\ \A m \in DOMAIN nodes : m \in DOMAIN nodes' /\ m # k /\ nodes'[m] = nodes[m]
          /\ \A m \in DOMAIN nodes' : m = k \/ m \in DOMAIN nodes
      BY <1>4, <1>9, <2>4
    <3>3. Missed' = Missed
      <4>1. \A j : (j \in DOMAIN nodes' => nodes'[j] \notin Range(seen))
                    <=> (j \in DOMAIN nodes => nodes[j] \notin Range(seen))
        BY <1>5, <1>7, <3>2
      <4>2. QED
        BY <1>2, <4>1 DEF Missed
    <3>4. Ahead' = Ahead
      BY <1>2, <1>5, <1>7, <3>2 DEF Ahead
    <3>5. Still => Len(seen) <= Len(nodes') /\ \A j \in 1..Len(seen) : seen[j] = nodes'[j]
      BY <1>4, <1>5, <1>15, <2>3, <3>2
    <3>6. QED
      BY <1>2, <1>13, <2>2, <2>3, <3>1, <3>3, <3>4, <3>5 DEF ForwardRight
  <2>5. CASE k <= Len(nodes)
    <3>1. ~Still' /\ Cardinality(pushed') = Cardinality(pushed) + 1
      BY <1>4, <1>9, <2>5
    <3>2. PICK B : B = Missed'
      OBVIOUS
    <3>3. ASSUME NEW j \in B PROVE j \in Nat /\ (j = k \/ (j # k /\ Origin(k, j) \in Missed))
      <4>1. j \in 1..p /\ (j \in DOMAIN nodes' => nodes'[j] \notin Range(seen))
        BY <1>2, <2>2, <3>2, <3>3 DEF Missed
      <4>2. SUFFICES ASSUME j # k PROVE Origin(k, j) \in Missed
        BY <4>1
      <4>3. Origin(k, j) \in 1..p
        BY <1>4, <4>1, <4>2 DEF Origin
      <4>4. Origin(k, j) \in DOMAIN nodes => j \in DOMAIN nodes'
        BY <1>4, <1>5, <4>1 DEF Origin
      <4>5. Origin(k, j) \in DOMAIN nodes => nodes[Origin(k, j)] \notin Range(seen)
        BY <1>5, <4>1, <4>2, <4>4
      <4>6. QED
        BY <2>2, <4>3, <4>5 DEF Missed
    <3>4. B \in SUBSET Nat /\ \A j \in B : j = k \/ (j # k /\ Origin(k, j) \in Missed)
      BY <3>3
    <3>5. IsFiniteSet(B) /\ Cardinality(B) <= Cardinality(Missed) + 1
      BY <1>4, <1>14, <3>4, OneMorePut
    <3>6. PICK C : C = Ahead'
      OBVIOUS
    <3>7. ASSUME NEW j \in C
          PROVE  j \in Nat /\ (j = p + 1 \/ (j # k /\ Origin(k, j) \in Ahead))
      <4>1. j \in DOMAIN nodes' /\ j > p /\ nodes'[j] \in Range(seen)
        BY <1>2, <2>2, <3>6, <3>7 DEF Ahead
      <4>2. j # k /\ j \in Nat
        BY <1>5, <1>6, <1>7, <4>1
      <4>3. Origin(k, j) \in DOMAIN nodes /\ nodes[Origin(k, j)] \in Range(seen)
        BY <1>5, <4>1, <4>2
      <4>4. j = p + 1 \/ Origin(k, j) > p
        BY <1>4, <4>1, <4>2 DEF Origin
      <4>5. QED
        BY <2>2, <4>2, <4>3, <4>4 DEF Ahead
    <3>8. C \in SUBSET Nat /\ \A j \in C : j = p + 1 \/ (j # k /\ Origin(k, j) \in Ahead)
      BY <3>7
    <3>9. PICK r : r = p + 1
      OBVIOUS
    <3>10. IsFiniteSet(C) /\ Cardinality(C) <= Cardinality(Ahead) + 1
      BY <1>4, <1>14, <3>8, <3>9, OneMorePut
    <3>11. Cardinality(B) \in Nat /\ Cardinality(C) \in Nat
      BY <3>5, <3>10, FS_CardinalityType
    <3>12. Cardinality(B) <= Cardinality(gone) + Cardinality(pushed')
      BY <1>10, <1>14, <2>3, <3>1, <3>5, <3>11
    <3>13. Len(seen) - Cardinality(Range(seen)) + Cardinality(C) <= Cardinality(pushed')
      BY <1>10, <1>14, <1>15, <2>3, <3>1, <3>10, <3>11
    <3>14. done => Cardinality(Skipped) <= Cardinality(gone) + Cardinality(pushed')
      BY <1>10, <1>14, <2>3, <3>1
    <3>15. QED
      BY <1>2, <1>13, <2>2, <2>3, <3>1, <3>2, <3>6, <3>12, <3>13, <3>14 DEF ForwardRight
  <2>6. QED
    BY <1>4, <2>4, <2>5
<1>17. BackwardRight'
  <2>1. SUFFICES ASSUME direction = "backward" PROVE BackwardRight'
    BY <1>2 DEF BackwardRight
  <2>2. /\ asking.before = Omitted <=> seen = <<>>
        /\ Len(seen) - Cardinality(Range(seen)) + Cardinality(Again) <= Cardinality(gone)
        /\ Cardinality(Lost) <= Cardinality(pushed)
        /\ done => Cardinality(Skipped) <= Cardinality(pushed)
        /\ Still /\ seen # <<>> =>
            /\ Len(listed) = asking.before + Len(seen)
            /\ \A i \in 1..Len(seen) : seen[i] = listed[asking.before + i]
        /\ done /\ Still => seen = listed
    BY <2>1 DEF IInv, BackwardRight
  <2>3. asking.before = Omitted \/ asking.before \in Nat
    BY <1>1, ArgsAre
  <2>4. PICK B : B = Again'
    OBVIOUS
  <2>5. ASSUME NEW j \in B PROVE j \in Nat /\ j # k /\ Origin(k, j) \in Again
    <3>1. /\ j \in DOMAIN nodes' /\ asking.before # Omitted /\ j <= asking.before
          /\ nodes'[j] \in Range(seen)
      BY <1>2, <2>4, <2>5 DEF Again
    <3>2. j # k /\ j \in Nat
      BY <1>5, <1>6, <1>7, <3>1
    <3>3. Origin(k, j) \in DOMAIN nodes /\ nodes[Origin(k, j)] \in Range(seen)
      BY <1>5, <3>1, <3>2
    <3>4. Origin(k, j) <= asking.before
      BY <1>4, <2>3, <3>1, <3>2 DEF Origin
    <3>5. QED
      BY <3>1, <3>2, <3>3, <3>4 DEF Again
  <2>6. B \in SUBSET Nat /\ \A j \in B : j # k /\ Origin(k, j) \in Again
    BY <2>5
  <2>7. IsFiniteSet(B) /\ Cardinality(B) <= Cardinality(Again)
    BY <1>4, <1>14, <2>6, NoMorePut
  <2>8. Cardinality(B) \in Nat
    BY <2>7, FS_CardinalityType
  <2>9. Len(seen) - Cardinality(Range(seen)) + Cardinality(B) <= Cardinality(gone)
    BY <1>10, <1>14, <1>15, <2>2, <2>7, <2>8
  <2>10. PICK C : C = Lost'
    OBVIOUS
  <2>11. ASSUME NEW j \in C
         PROVE  /\ j \in Nat /\ j # k /\ Origin(k, j) \in DOMAIN nodes
                /\ asking.before # Omitted /\ nodes[Origin(k, j)] \in Skipped
                /\ j > asking.before /\ j \in DOMAIN nodes'
    <3>1. /\ j \in DOMAIN nodes' /\ asking.before # Omitted /\ j > asking.before
          /\ nodes'[j] \in Skipped
      BY <1>2, <1>13, <2>10, <2>11 DEF Lost
    <3>2. j # k /\ j \in Nat
      BY <1>5, <1>6, <1>7, <3>1 DEF Skipped
    <3>3. QED
      BY <1>5, <3>1, <3>2
  <2>12. C \in SUBSET Nat
    BY <2>11
  <2>13. Cardinality(C) <= Cardinality(pushed')
    <3>1. CASE k = Len(nodes) + 1
      <4>1. ASSUME NEW j \in C PROVE j # k /\ Origin(k, j) \in Lost
        <5>1. Origin(k, j) = j
          BY <1>4, <1>5, <2>11, <3>1 DEF Origin
        <5>2. QED
          BY <2>11, <5>1 DEF Lost
      <4>2. IsFiniteSet(C) /\ Cardinality(C) <= Cardinality(Lost)
        BY <1>4, <1>14, <2>12, <4>1, NoMorePut
      <4>3. Cardinality(C) \in Nat
        BY <4>2, FS_CardinalityType
      <4>4. pushed' = pushed
        BY <1>4, <1>9, <3>1
      <4>5. Cardinality(C) <= Cardinality(pushed)
        BY <1>10, <1>14, <2>2, <4>2, <4>3
      <4>6. QED
        BY <4>4, <4>5
    <3>2. CASE k <= Len(nodes)
      <4>1. PICK r : r = asking.before + 1
        OBVIOUS
      <4>2. ASSUME NEW j \in C PROVE j = r \/ (j # k /\ Origin(k, j) \in Lost)
        <5>1. asking.before \in Nat
          BY <2>3, <2>11
        <5>2. j = r \/ Origin(k, j) > asking.before
          BY <1>4, <2>11, <4>1, <5>1 DEF Origin
        <5>3. QED
          BY <2>11, <5>2 DEF Lost
      <4>3. IsFiniteSet(C) /\ Cardinality(C) <= Cardinality(Lost) + 1
        BY <1>4, <1>14, <2>12, <4>2, OneMorePut
      <4>4. Cardinality(C) \in Nat
        BY <4>3, FS_CardinalityType
      <4>5. Cardinality(pushed') = Cardinality(pushed) + 1
        BY <1>4, <1>9, <3>2
      <4>6. QED
        BY <1>10, <1>14, <2>2, <4>3, <4>4, <4>5
    <3>3. QED
      BY <1>4, <3>1, <3>2
  <2>14. done => Cardinality(Skipped) <= Cardinality(pushed')
    BY <1>9, <1>10, <1>14, <2>2
  <2>15. Still' => Still
    BY <1>9
  <2>16. QED
    BY <1>2, <1>13, <2>2, <2>4, <2>9, <2>10, <2>13, <2>14, <2>15 DEF BackwardRight
<1>18. QED
  BY <1>11, <1>12, <1>16, <1>17 DEF IInv

\* The places behind the removed row shift by one, so each count grows by at
\* most one, as gone does.
LEMMA RemoveKeeps == IInv /\ RemoveNode => IInv'
<1> SUFFICES ASSUME IInv, RemoveNode PROVE IInv'
  OBVIOUS
<1>1. /\ nodes \in Seq(Nodes) /\ seen \in Seq(Nodes) /\ Len(nodes) <= MaxNodes
      /\ asking \in PageArgs /\ ~Throws(asking)
      /\ gone \subseteq Nodes \ Range(nodes) /\ IsFiniteSet(gone) /\ IsFiniteSet(pushed)
      /\ Apart(nodes)
  BY DEF IInv, TypeOK, Form
<1>2. /\ direction' = direction /\ asking' = asking /\ seen' = seen /\ done' = done
      /\ listed' = listed /\ pushed' = pushed /\ direction # "none"
  BY DEF RemoveNode
<1>3. PICK k \in DOMAIN nodes :
        /\ nodes' = SubSeq(nodes, 1, k - 1) \o SubSeq(nodes, k + 1, Len(nodes))
        /\ gone' = gone \cup {nodes[k]}
  BY DEF RemoveNode
<1>4. /\ Len(nodes) \in Nat /\ k \in Nat /\ nodes[k] \in Nodes
      /\ DOMAIN nodes = 1..Len(nodes)
  BY <1>1
<1>5. /\ nodes' \in Seq(Nodes) /\ Len(nodes') = Len(nodes) - 1
      /\ DOMAIN nodes' = 1..(Len(nodes) - 1)
      /\ \A m \in DOMAIN nodes' : Place(k, m) \in DOMAIN nodes /\ nodes'[m] = nodes[Place(k, m)]
      /\ \A l \in DOMAIN nodes : l # k => \E m \in DOMAIN nodes' : nodes'[m] = nodes[l]
  <2>1. PICK s \in Seq(Nodes) : s = nodes
    BY <1>1
  <2>2. PICK t : t = nodes'
    OBVIOUS
  <2>3. k \in DOMAIN s /\ t = SubSeq(s, 1, k - 1) \o SubSeq(s, k + 1, Len(s))
    BY <1>3, <2>1, <2>2
  <2>4. /\ t \in Seq(Nodes) /\ Len(t) = Len(s) - 1 /\ DOMAIN t = 1..(Len(s) - 1)
        /\ \A m \in DOMAIN t : Place(k, m) \in DOMAIN s /\ t[m] = s[Place(k, m)]
        /\ \A l \in DOMAIN s : l # k => \E m \in DOMAIN t : Place(k, m) = l
    <3>1. Without(t, s, k, Nodes)
      BY <2>3, Removed
    <3>2. QED
      BY <3>1 DEF Without
  <2>5. \A l \in DOMAIN s : l # k => \E m \in DOMAIN t : t[m] = s[l]
    BY <2>4
  <2>6. QED
    BY <2>1, <2>2, <2>4, <2>5
<1>6. \A m \in DOMAIN nodes' : m \in Nat
  BY <1>4, <1>5
<1>7. \A m \in DOMAIN nodes' : nodes'[m] # nodes[k]
  BY <1>1, <1>4, <1>5, <1>6, PlaceIs DEF Apart
<1>8. /\ nodes[k] \notin gone /\ IsFiniteSet(gone') /\ ~Still'
      /\ Cardinality(gone') = Cardinality(gone) + 1
      /\ Cardinality(gone) \in Nat /\ Cardinality(pushed) \in Nat
  <2>1. nodes[k] \in Range(nodes)
    BY DEF Range
  <2>2. nodes[k] \notin gone
    BY <1>1, <2>1
  <2>3. /\ IsFiniteSet(gone \cup {nodes[k]})
        /\ Cardinality(gone \cup {nodes[k]}) = Cardinality(gone) + 1
    BY <1>1, <2>2, FS_AddElement
  <2>4. Cardinality(gone) \in Nat /\ Cardinality(pushed) \in Nat
    BY <1>1, FS_CardinalityType
  <2>5. ~Still'
    BY <1>3 DEF Still
  <2>6. QED
    BY <1>3, <2>2, <2>3, <2>4, <2>5
<1>9. TypeOK'
  <2>1. Len(nodes') <= MaxNodes
    BY <1>1, <1>4, <1>5, LengthAssumption
  <2>2. Range(nodes') \subseteq Range(nodes) /\ nodes[k] \notin Range(nodes')
    BY <1>5, <1>7 DEF Range
  <2>3. gone' \subseteq Nodes \ Range(nodes')
    BY <1>1, <1>3, <1>4, <2>2
  <2>4. QED
    BY <1>2, <1>5, <2>1, <2>3 DEF IInv, TypeOK
<1>10. Form'
  <2>1. Apart(nodes')
    <3>1. ASSUME NEW i \in DOMAIN nodes', NEW j \in DOMAIN nodes', nodes'[i] = nodes'[j]
          PROVE  i = j
      <4>1. Place(k, i) = Place(k, j)
        BY <1>1, <1>5, <3>1 DEF Apart
      <4>2. QED
        BY <1>4, <1>6, <4>1, PlaceIs
    <3>2. QED
      BY <3>1 DEF Apart
  <2>2. \A y : Known(y) => Known(y)'
    BY <1>3, <1>5 DEF Known
  <2>3. /\ \A i \in DOMAIN seen' : Known(seen[i])'
        /\ \A i \in DOMAIN listed' : Known(listed[i])'
        /\ \A y \in pushed' : Known(y)'
    BY <1>2, <2>2 DEF IInv, Form, Known
  <2>4. QED
    BY <1>2, <1>8, <2>1, <2>3 DEF IInv, Form
<1>11. Skipped' \subseteq Skipped
  BY <1>2, <1>3 DEF Skipped
<1>12. /\ IsFiniteSet(Ahead) /\ IsFiniteSet(Again) /\ IsFiniteSet(Lost) /\ IsFiniteSet(Missed)
       /\ Cardinality(Ahead) \in Nat /\ Cardinality(Again) \in Nat
       /\ Cardinality(Lost) \in Nat /\ Cardinality(Missed) \in Nat
       /\ IsFiniteSet(Skipped) /\ Cardinality(Skipped) \in Nat
  BY PlacesFinite DEF IInv
<1>13. Len(seen) \in Nat /\ Cardinality(Range(seen)) \in Nat
  BY <1>1, RangeIs
<1>14. Cardinality(Skipped') \in Nat /\ Cardinality(Skipped') <= Cardinality(Skipped)
  <2>1. PICK B \in SUBSET Skipped : B = Skipped'
    BY <1>11
  <2>2. IsFiniteSet(B) /\ Cardinality(B) <= Cardinality(Skipped)
    BY <1>12, <2>1, FS_Subset
  <2>3. Cardinality(B) \in Nat
    BY <2>2, FS_CardinalityType
  <2>4. QED
    BY <2>1, <2>2, <2>3
<1>15. ForwardRight'
  <2>1. SUFFICES ASSUME direction = "forward" PROVE ForwardRight'
    BY <1>2 DEF ForwardRight
  <2>2. PICK p \in Nat : p = WindowFrom(asking)
    BY <1>1, LengthsAre
  <2>3. /\ Len(seen) = p
        /\ Len(seen) - Cardinality(Range(seen)) + Cardinality(Ahead) <= Cardinality(pushed)
        /\ Cardinality(Missed) <= Cardinality(gone) + Cardinality(pushed)
        /\ done => Cardinality(Skipped) <= Cardinality(gone) + Cardinality(pushed)
    BY <2>1, <2>2 DEF IInv, ForwardRight
  <2>4. PICK C : C = Ahead'
    OBVIOUS
  <2>5. ASSUME NEW j \in C PROVE j \in Nat /\ Place(k, j) \in Ahead
    <3>1. j \in DOMAIN nodes' /\ j > p /\ nodes'[j] \in Range(seen)
      BY <1>2, <2>2, <2>4, <2>5 DEF Ahead
    <3>2. j \in Nat /\ Place(k, j) > p
      BY <1>4, <1>6, <3>1 DEF Place
    <3>3. QED
      BY <1>5, <2>2, <3>1, <3>2 DEF Ahead
  <2>6. C \in SUBSET Nat /\ \A j \in C : Place(k, j) \in Ahead
    BY <2>5
  <2>7. IsFiniteSet(C) /\ Cardinality(C) <= Cardinality(Ahead)
    BY <1>4, <1>12, <2>6, NoMoreRemoved
  <2>8. PICK B : B = Missed'
    OBVIOUS
  <2>9. ASSUME NEW j \in B PROVE j \in Nat /\ (j = p \/ Place(k, j) \in Missed)
    <3>1. j \in 1..p /\ (j \in DOMAIN nodes' => nodes'[j] \notin Range(seen))
      BY <1>2, <2>2, <2>8, <2>9 DEF Missed
    <3>2. SUFFICES ASSUME j # p PROVE Place(k, j) \in Missed
      BY <3>1
    <3>3. Place(k, j) \in 1..p
      BY <1>4, <3>1, <3>2 DEF Place
    <3>4. Place(k, j) \in DOMAIN nodes => j \in DOMAIN nodes'
      BY <1>4, <1>5, <3>1 DEF Place
    <3>5. Place(k, j) \in DOMAIN nodes => nodes[Place(k, j)] \notin Range(seen)
      BY <1>5, <3>1, <3>4
    <3>6. QED
      BY <2>2, <3>3, <3>5 DEF Missed
  <2>10. B \in SUBSET Nat /\ \A j \in B : j = p \/ Place(k, j) \in Missed
    BY <2>9
  <2>11. IsFiniteSet(B) /\ Cardinality(B) <= Cardinality(Missed) + 1
    BY <1>4, <1>12, <2>10, OneMoreRemoved
  <2>12. Cardinality(B) \in Nat /\ Cardinality(C) \in Nat
    BY <2>7, <2>11, FS_CardinalityType
  <2>13. Len(seen) - Cardinality(Range(seen)) + Cardinality(C) <= Cardinality(pushed)
    BY <1>8, <1>12, <1>13, <2>3, <2>7, <2>12
  <2>14. Cardinality(B) <= Cardinality(gone') + Cardinality(pushed)
    BY <1>8, <1>12, <2>3, <2>11, <2>12
  <2>15. done => Cardinality(Skipped') <= Cardinality(gone') + Cardinality(pushed)
    BY <1>8, <1>12, <1>14, <2>3
  <2>16. QED
    BY <1>2, <1>8, <2>2, <2>3, <2>4, <2>8, <2>13, <2>14, <2>15 DEF ForwardRight
<1>16. BackwardRight'
  <2>1. SUFFICES ASSUME direction = "backward" PROVE BackwardRight'
    BY <1>2 DEF BackwardRight
  <2>2. /\ asking.before = Omitted <=> seen = <<>>
        /\ Len(seen) - Cardinality(Range(seen)) + Cardinality(Again) <= Cardinality(gone)
        /\ Cardinality(Lost) <= Cardinality(pushed)
        /\ done => Cardinality(Skipped) <= Cardinality(pushed)
    BY <2>1 DEF IInv, BackwardRight
  <2>3. asking.before = Omitted \/ asking.before \in Nat
    BY <1>1, ArgsAre
  <2>4. PICK p : p = asking.before
    OBVIOUS
  <2>5. PICK B : B = Again'
    OBVIOUS
  <2>6. ASSUME NEW j \in B PROVE j \in Nat /\ (j = p \/ Place(k, j) \in Again)
    <3>1. /\ j \in DOMAIN nodes' /\ asking.before # Omitted /\ j <= asking.before
          /\ nodes'[j] \in Range(seen)
      BY <1>2, <2>5, <2>6 DEF Again
    <3>2. SUFFICES ASSUME j # p PROVE Place(k, j) \in Again
      BY <1>6, <3>1
    <3>3. Place(k, j) \in DOMAIN nodes /\ nodes[Place(k, j)] \in Range(seen)
      BY <1>5, <3>1
    <3>4. Place(k, j) <= asking.before
      BY <1>4, <1>6, <2>3, <2>4, <3>1, <3>2 DEF Place
    <3>5. QED
      BY <3>1, <3>3, <3>4 DEF Again
  <2>7. B \in SUBSET Nat /\ \A j \in B : j = p \/ Place(k, j) \in Again
    BY <2>6
  <2>8. IsFiniteSet(B) /\ Cardinality(B) <= Cardinality(Again) + 1
    BY <1>4, <1>12, <2>7, OneMoreRemoved
  <2>9. PICK C : C = Lost'
    OBVIOUS
  <2>10. ASSUME NEW j \in C PROVE j \in Nat /\ Place(k, j) \in Lost
    <3>1. /\ j \in DOMAIN nodes' /\ asking.before # Omitted /\ j > asking.before
          /\ nodes'[j] \in Skipped
      BY <1>2, <1>11, <2>9, <2>10 DEF Lost
    <3>2. j \in Nat /\ asking.before \in Nat /\ Place(k, j) > asking.before
      BY <1>4, <1>6, <2>3, <3>1 DEF Place
    <3>3. QED
      BY <1>5, <3>1, <3>2 DEF Lost
  <2>11. C \in SUBSET Nat /\ \A j \in C : Place(k, j) \in Lost
    BY <2>10
  <2>12. IsFiniteSet(C) /\ Cardinality(C) <= Cardinality(Lost)
    BY <1>4, <1>12, <2>11, NoMoreRemoved
  <2>13. Cardinality(B) \in Nat /\ Cardinality(C) \in Nat
    BY <2>8, <2>12, FS_CardinalityType
  <2>14. Len(seen) - Cardinality(Range(seen)) + Cardinality(B) <= Cardinality(gone')
    BY <1>8, <1>12, <1>13, <2>2, <2>8, <2>13
  <2>15. Cardinality(C) <= Cardinality(pushed)
    BY <1>8, <1>12, <2>2, <2>12, <2>13
  <2>16. done => Cardinality(Skipped') <= Cardinality(pushed)
    BY <1>8, <1>12, <1>14, <2>2
  <2>17. QED
    BY <1>2, <1>8, <2>2, <2>5, <2>9, <2>14, <2>15, <2>16 DEF BackwardRight
<1>17. QED
  BY <1>9, <1>10, <1>15, <1>16 DEF IInv

\* Different places show different nodes.
LEMMA ImageIs ==
    ASSUME NEW s, Apart(s), NEW K \in SUBSET DOMAIN s, IsFiniteSet(K)
    PROVE  /\ IsFiniteSet({s[j] : j \in K})
           /\ Cardinality({s[j] : j \in K}) = Cardinality(K)
<1> DEFINE T == {s[j] : j \in K}
           f == [j \in K |-> s[j]]
<1>1. f \in Surjection(K, T)
  BY DEF Surjection
<1>2. f \in Injection(K, T)
  <2>1. f \in [K -> T]
    OBVIOUS
  <2>2. \A i, j \in K : f[i] = f[j] => i = j
    BY DEF Apart
  <2>3. QED
    BY <2>1, <2>2 DEF Injection, IsInjective
<1> HIDE DEF f, T
<1>3. IsFiniteSet(T) /\ Cardinality(T) = Cardinality(K)
  BY <1>1, <1>2, FS_Surjection
<1>4. QED
  BY <1>3 DEF T

LEMMA UnionIs ==
    ASSUME NEW A, NEW B, IsFiniteSet(A), IsFiniteSet(B), A \cap B = {}
    PROVE  /\ IsFiniteSet(A \cup B)
           /\ Cardinality(A \cup B) = Cardinality(A) + Cardinality(B)
<1>1. Cardinality(A) \in Nat /\ Cardinality(B) \in Nat
  BY FS_CardinalityType
<1>2. /\ IsFiniteSet(A \cup B)
      /\ Cardinality(A \cup B) = Cardinality(A) + Cardinality(B) - Cardinality(A \cap B)
  BY FS_Union
<1>3. Cardinality(A \cap B) = 0
  BY FS_EmptySet, Zenon
<1>4. QED
  BY <1>1, <1>2, <1>3

\* What a page repeats of R was counted in A, and what is left to repeat, in G,
\* is not on the page.
LEMMA PageCounts ==
    ASSUME NEW s, Apart(s), NEW R, IsFiniteSet(R), NEW A, IsFiniteSet(A), NEW G,
           NEW d \in Nat, NEW m \in Nat, NEW q \in Nat, NEW c \in Nat,
           (d + 1)..(d + m) \subseteq DOMAIN s,
           \A j \in (d + 1)..(d + m) : s[j] \in R => j \in A,
           \A j \in G : j \in A /\ j \notin (d + 1)..(d + m),
           q - Cardinality(R) + Cardinality(A) <= c
    PROVE  (m + q) - Cardinality(R \cup {s[j] : j \in (d + 1)..(d + m)}) + Cardinality(G) <= c
<1> DEFINE I == (d + 1)..(d + m)
<1>1. IsFiniteSet(I) /\ Cardinality(I) = m
  <2>1. Cardinality(I) = IF d + 1 > d + m THEN 0 ELSE (d + m) - (d + 1) + 1
    BY FS_Interval
  <2>2. IsFiniteSet(I)
    BY FS_Interval
  <2> HIDE DEF I
  <2>3. QED
    BY <2>1, <2>2
<1>2. I \subseteq DOMAIN s /\ \A j \in I : s[j] \in R => j \in A
  OBVIOUS
<1>3. \A j \in G : j \in A /\ j \notin I
  OBVIOUS
<1> HIDE DEF I
<1>4. PICK K : K = {j \in I : s[j] \notin R}
  OBVIOUS
<1>5. PICK Q : Q = {j \in I : s[j] \in R}
  OBVIOUS
<1>6. PICK T : T = {s[j] : j \in K}
  OBVIOUS
<1>7. Q \cup G \in SUBSET A /\ Q \cap G = {}
  BY <1>2, <1>3, <1>5
<1>8. IsFiniteSet(Q) /\ IsFiniteSet(G) /\ IsFiniteSet(K)
  <2>1. Q \in SUBSET A /\ G \in SUBSET A /\ K \in SUBSET I
    BY <1>4, <1>7
  <2>2. QED
    BY <1>1, <2>1, FS_Subset
<1>9. Cardinality(Q) + Cardinality(G) <= Cardinality(A)
  <2>1. Cardinality(Q \cup G) = Cardinality(Q) + Cardinality(G)
    BY <1>7, <1>8, UnionIs
  <2>2. PICK U \in SUBSET A : U = Q \cup G
    BY <1>7
  <2>3. Cardinality(U) <= Cardinality(A)
    BY FS_Subset
  <2>4. QED
    BY <2>1, <2>2, <2>3
<1>10. Cardinality(K) + Cardinality(Q) = m
  <2>1. K \cap Q = {} /\ K \cup Q = I
    BY <1>4, <1>5
  <2>2. Cardinality(K \cup Q) = Cardinality(K) + Cardinality(Q)
    BY <1>8, <2>1, UnionIs
  <2>3. QED
    BY <1>1, <2>1, <2>2
<1>11. IsFiniteSet(T) /\ Cardinality(T) = Cardinality(K)
  <2>1. K \in SUBSET DOMAIN s
    BY <1>2, <1>4
  <2>2. QED
    BY <1>6, <1>8, <2>1, ImageIs
<1>12. R \cup {s[j] : j \in I} = R \cup T /\ R \cap T = {}
  <2>1. \A j \in I : s[j] \in R \/ j \in K
    BY <1>4
  <2>2. QED
    BY <1>4, <1>6, <2>1
<1>13. Cardinality(R \cup T) = Cardinality(R) + Cardinality(T)
  BY <1>11, <1>12, UnionIs
<1>14. /\ Cardinality(R) \in Nat /\ Cardinality(A) \in Nat /\ Cardinality(Q) \in Nat
       /\ Cardinality(G) \in Nat /\ Cardinality(K) \in Nat
  BY <1>8, FS_CardinalityType
<1>15. (m + q) - (Cardinality(R) + Cardinality(K)) + Cardinality(G) <= c
  BY <1>9, <1>10, <1>14
<1>16. Cardinality(R \cup {s[j] : j \in I}) = Cardinality(R) + Cardinality(K)
  BY <1>11, <1>12, <1>13
<1>17. QED
  BY <1>15, <1>16 DEF I

\* A forward page goes on behind what was seen: what it repeats was counted,
\* and is no longer to come.
LEMMA ForwardKeeps == IInv /\ FetchPage /\ direction = "forward" => IInv'
<1> SUFFICES ASSUME IInv, FetchPage, direction = "forward" PROVE IInv'
  OBVIOUS
<1>1. /\ nodes \in Seq(Nodes) /\ Len(nodes) <= MaxNodes /\ seen \in Seq(Nodes)
      /\ asking \in PageArgs /\ ~Throws(asking)
      /\ gone \subseteq Nodes \ Range(nodes) /\ IsFiniteSet(gone) /\ IsFiniteSet(pushed)
      /\ Apart(nodes) /\ (asking.first # Omitted => asking.first > 0)
  BY DEF IInv, TypeOK, Form
<1>2. PICK p, m \in Nat :
        /\ p = WindowFrom(asking) /\ p + m = WindowFrom(asking')
        /\ m > 0 => p + m <= Len(nodes)
        /\ done' => p + m >= Len(nodes)
        /\ seen' \in Seq(Nodes) /\ Len(seen') = Len(seen) + m
        /\ \A i \in 1..Len(seen) : seen'[i] = seen[i]
        /\ \A i \in 1..m : seen'[Len(seen) + i] = nodes[p + i]
        /\ asking' \in PageArgs /\ ~Throws(asking')
        /\ asking'.last = Omitted /\ asking'.before = Omitted
        /\ asking'.first = asking.first
        /\ done' \in BOOLEAN
        /\ listed' = nodes /\ UNCHANGED <<nodes, direction, gone, pushed>>
  BY FetchForward DEF IInv
<1>3. /\ nodes' = nodes /\ direction' = "forward" /\ gone' = gone /\ pushed' = pushed
      /\ listed' = nodes /\ Still' = Still
  BY <1>2 DEF Still
<1>4. /\ Len(seen) = p
      /\ p - Cardinality(Range(seen)) + Cardinality(Ahead) <= Cardinality(pushed)
      /\ Cardinality(Missed) <= Cardinality(gone) + Cardinality(pushed)
      /\ Still => p <= Len(nodes) /\ \A j \in 1..p : seen[j] = nodes[j]
  BY <1>2 DEF IInv, ForwardRight
<1>5. /\ Len(nodes) \in Nat /\ DOMAIN nodes = 1..Len(nodes) /\ DOMAIN seen = 1..p
      /\ DOMAIN seen' = 1..(p + m) /\ Len(seen') = p + m
  BY <1>1, <1>2, <1>4
<1>6. \A j \in 1..p : seen'[j] = seen[j] /\ j \in DOMAIN seen'
  BY <1>2, <1>4, <1>5
<1>7. ASSUME NEW j \in 1..(p + m), j > p
      PROVE  seen'[j] = nodes[j] /\ j \in DOMAIN nodes
  <2>1. PICK i \in 1..m : i = j - p
    BY <1>7
  <2>2. p + i = j
    BY <2>1
  <2>3. seen'[p + i] = nodes[p + i]
    BY <1>2, <1>4
  <2>4. j \in DOMAIN nodes
    BY <1>2, <1>5, <1>7
  <2>5. QED
    BY <2>2, <2>3, <2>4
<1>8. /\ \A j \in 1..(p + m) : j \in 1..p \/ (j > p /\ j \in (p + 1)..(p + m))
      /\ \A j \in (p + 1)..(p + m) : j \in 1..(p + m) /\ j > p
  OBVIOUS
<1>9. TypeOK'
  BY <1>1, <1>2, <1>3 DEF IInv, TypeOK
<1>10. Form'
  <2>1. ASSUME NEW i \in DOMAIN seen' PROVE Known(seen'[i])
    <3>1. CASE i \in 1..p
      BY <1>5, <1>6, <3>1 DEF IInv, Form
    <3>2. CASE i > p
      BY <1>5, <1>7, <3>2 DEF Known
    <3>3. QED
      BY <1>5, <1>8, <3>1, <3>2
  <2>2. \A y : Known(y)' = Known(y)
    BY <1>3 DEF Known
  <2>3. \A i \in DOMAIN seen' : Known(seen[i])'
    BY <1>3, <2>1 DEF Known
  <2>4. \A i \in DOMAIN listed' : Known(listed[i])'
    BY <1>3 DEF Known
  <2>5. \A y \in pushed' : Known(y)'
    BY <1>3, <2>2 DEF IInv, Form
  <2>6. QED
    BY <1>1, <1>2, <1>3, <1>5, <2>3, <2>4, <2>5 DEF Form
<1>11. Range(seen') = Range(seen) \cup {nodes[j] : j \in (p + 1)..(p + m)}
  <2>1. ASSUME NEW x \in Range(seen')
        PROVE  x \in Range(seen) \cup {nodes[j] : j \in (p + 1)..(p + m)}
    <3>1. PICK i \in 1..(p + m) : x = seen'[i]
      BY <1>5 DEF Range
    <3>2. CASE i \in 1..p
      BY <1>5, <1>6, <3>1, <3>2 DEF Range
    <3>3. CASE i > p /\ i \in (p + 1)..(p + m)
      BY <1>7, <3>1, <3>3
    <3>4. QED
      BY <1>8, <3>2, <3>3
  <2>2. Range(seen) \subseteq Range(seen')
    BY <1>5, <1>6 DEF Range
  <2>3. ASSUME NEW j \in (p + 1)..(p + m) PROVE nodes[j] \in Range(seen')
    BY <1>5, <1>7, <1>8 DEF Range
  <2>4. QED
    BY <2>1, <2>2, <2>3
<1>12. /\ IsFiniteSet(Ahead) /\ IsFiniteSet(Missed) /\ IsFiniteSet(Range(seen))
       /\ Cardinality(Missed) \in Nat
       /\ Cardinality(pushed) \in Nat /\ Cardinality(gone) \in Nat
  BY <1>1, PlacesFinite, RangeIs, FS_CardinalityType DEF IInv
<1>13. Len(seen') - Cardinality(Range(seen')) + Cardinality(Ahead') <= Cardinality(pushed)
  <2>1. PICK R : R = Range(seen)
    OBVIOUS
  <2>2. PICK A : A = Ahead
    OBVIOUS
  <2>3. PICK G : G = Ahead'
    OBVIOUS
  <2>4. PICK c \in Nat : c = Cardinality(pushed)
    BY <1>12
  <2>5. (p + 1)..(p + m) \subseteq DOMAIN nodes
    BY <1>7, <1>8
  <2>6. \A j \in (p + 1)..(p + m) : nodes[j] \in R => j \in A
    BY <1>2, <1>8, <2>1, <2>2, <2>5 DEF Ahead
  <2>7. ASSUME NEW j \in G PROVE j \in A /\ j \notin (p + 1)..(p + m)
    <3>1. j \in DOMAIN nodes /\ j > p + m /\ nodes[j] \in Range(seen')
      BY <1>2, <1>3, <2>3, <2>7 DEF Ahead
    <3>2. j \notin (p + 1)..(p + m) /\ j > p
      BY <1>5, <3>1
    <3>3. nodes[j] \in R
      <4>1. \A i \in (p + 1)..(p + m) : nodes[i] # nodes[j]
        BY <1>1, <2>5, <3>1, <3>2 DEF Apart
      <4>2. QED
        BY <1>11, <2>1, <3>1, <4>1
    <3>4. QED
      BY <1>2, <2>1, <2>2, <3>1, <3>2, <3>3 DEF Ahead
  <2>8. p - Cardinality(R) + Cardinality(A) <= c
    BY <1>4, <2>1, <2>2, <2>4
  <2>9. IsFiniteSet(R) /\ IsFiniteSet(A)
    BY <1>12, <2>1, <2>2
  <2>10. (m + p) - Cardinality(R \cup {nodes[j] : j \in (p + 1)..(p + m)}) + Cardinality(G) <= c
    BY <1>1, <2>5, <2>6, <2>7, <2>8, <2>9, PageCounts
  <2>11. Len(seen') = m + p
    BY <1>5
  <2>12. R \cup {nodes[j] : j \in (p + 1)..(p + m)} = Range(seen')
    BY <1>11, <2>1
  <2>13. QED
    BY <2>3, <2>4, <2>10, <2>11, <2>12
<1>14. Missed' \in SUBSET Missed
  <2>1. ASSUME NEW j \in Missed' PROVE j \in Missed
    <3>1. j \in 1..(p + m) /\ (j \in DOMAIN nodes => nodes[j] \notin Range(seen'))
      BY <1>2, <1>3, <2>1 DEF Missed
    <3>2. ~(j > p)
      BY <1>5, <1>7, <3>1 DEF Range
    <3>3. j \in 1..p
      BY <1>8, <3>1, <3>2
    <3>4. Range(seen) \subseteq Range(seen')
      BY <1>11
    <3>5. QED
      BY <1>2, <3>1, <3>3, <3>4 DEF Missed
  <2>2. QED
    BY <2>1
<1>15. PICK B \in SUBSET Missed : B = Missed' /\ IsFiniteSet(B) /\ Cardinality(B) \in Nat
                                  /\ Cardinality(B) <= Cardinality(gone) + Cardinality(pushed)
  <2>1. PICK B \in SUBSET Missed : B = Missed'
    BY <1>14
  <2>2. IsFiniteSet(B) /\ Cardinality(B) <= Cardinality(Missed)
    BY <1>12, FS_Subset
  <2>3. Cardinality(B) \in Nat
    BY <2>2, FS_CardinalityType
  <2>4. Cardinality(B) <= Cardinality(gone) + Cardinality(pushed)
    BY <1>4, <1>12, <2>2, <2>3
  <2>5. QED
    BY <2>1, <2>2, <2>3, <2>4
<1>16. Still => p + m <= Len(nodes) /\ \A j \in 1..(p + m) : seen'[j] = nodes[j]
  <2>1. Still => p + m <= Len(nodes)
    BY <1>2, <1>4, <1>5
  <2>2. ASSUME Still, NEW j \in 1..(p + m) PROVE seen'[j] = nodes[j]
    BY <1>4, <1>6, <1>7, <1>8, <2>2
  <2>3. QED
    BY <2>1, <2>2
<1>17. ASSUME done' PROVE Cardinality(Skipped') <= Cardinality(gone) + Cardinality(pushed)
  <2>1. PICK K : K = B \cap DOMAIN nodes
    OBVIOUS
  <2>2. K \in SUBSET B /\ K \in SUBSET DOMAIN nodes
    BY <2>1
  <2>3. IsFiniteSet(K) /\ Cardinality(K) <= Cardinality(B)
    BY <1>15, <2>2, FS_Subset
  <2>4. PICK T : T = {nodes[j] : j \in K}
    OBVIOUS
  <2>5. IsFiniteSet(T) /\ Cardinality(T) = Cardinality(K)
    BY <1>1, <2>2, <2>3, <2>4, ImageIs
  <2>6. ASSUME NEW x \in Skipped' PROVE x \in T
    <3>1. x \in Range(nodes) /\ x \notin Range(seen')
      BY <1>3, <2>6 DEF Skipped
    <3>2. PICK j \in DOMAIN nodes : nodes[j] = x
      BY <3>1 DEF Range
    <3>3. j \in 1..(p + m)
      BY <1>2, <1>5, <1>17
    <3>4. j \in B
      BY <1>2, <1>3, <1>15, <3>1, <3>2, <3>3 DEF Missed
    <3>5. QED
      BY <2>1, <2>4, <3>2, <3>4
  <2>7. PICK C \in SUBSET T : C = Skipped'
    BY <2>6
  <2>8. IsFiniteSet(C) /\ Cardinality(C) <= Cardinality(T)
    BY <2>5, FS_Subset
  <2>9. Cardinality(K) \in Nat /\ Cardinality(T) \in Nat /\ Cardinality(C) \in Nat
    BY <2>3, <2>5, <2>8, FS_CardinalityType
  <2>10. Cardinality(C) <= Cardinality(gone) + Cardinality(pushed)
    BY <1>12, <1>15, <2>3, <2>5, <2>8, <2>9
  <2>11. QED
    BY <2>7, <2>10
<1>18. done' /\ Still => seen' = nodes
  <2>1. SUFFICES ASSUME done', Still PROVE seen' = nodes
    OBVIOUS
  <2>2. p + m = Len(nodes)
    BY <1>2, <1>5, <1>16, <2>1
  <2>3. PICK s, t \in Seq(Nodes) : s = seen' /\ t = nodes
    BY <1>1, <1>2
  <2>4. Len(s) = Len(t) /\ \A j \in 1..Len(s) : s[j] = t[j]
    BY <1>5, <1>16, <2>1, <2>2, <2>3
  <2>5. s = t
    BY <2>4
  <2>6. QED
    BY <2>3, <2>5
<1>19. ForwardRight'
  BY <1>2, <1>3, <1>5, <1>13, <1>15, <1>16, <1>17, <1>18 DEF ForwardRight
<1>20. BackwardRight'
  BY <1>3 DEF BackwardRight
<1>21. QED
  BY <1>9, <1>10, <1>19, <1>20 DEF IInv

\* A backward page ends in front of what was seen, unless a removal has moved
\* seen rows there: what it repeats was counted, and is no longer to come.
LEMMA BackwardKeeps == IInv /\ FetchPage /\ direction = "backward" => IInv'
<1> SUFFICES ASSUME IInv, FetchPage, direction = "backward" PROVE IInv'
  OBVIOUS
<1>1. /\ nodes \in Seq(Nodes) /\ Len(nodes) <= MaxNodes /\ seen \in Seq(Nodes)
      /\ asking \in PageArgs /\ ~Throws(asking) /\ listed \in Seq(Nodes)
      /\ gone \subseteq Nodes \ Range(nodes) /\ IsFiniteSet(gone) /\ IsFiniteSet(pushed)
      /\ Apart(nodes)
      /\ asking.last # Omitted /\ asking.last > 0
  BY DEF IInv, TypeOK, Form
<1>2. PICK n, m \in Nat :
        /\ n = IF asking.before = Omitted THEN Len(nodes)
               ELSE Least(asking.before, Len(nodes))
        /\ m <= n /\ n <= Len(nodes) /\ (m = 0 => n = 0) /\ (done' => m = n)
        /\ seen' \in Seq(Nodes) /\ Len(seen') = m + Len(seen)
        /\ \A i \in 1..m : seen'[i] = nodes[(n - m) + i]
        /\ \A i \in 1..Len(seen) : seen'[m + i] = seen[i]
        /\ asking' \in PageArgs /\ ~Throws(asking')
        /\ asking'.first = Omitted /\ asking'.after = Omitted
        /\ asking'.last = asking.last
        /\ asking'.before = IF m = 0 THEN asking.before ELSE n - m
        /\ done' \in BOOLEAN /\ ~done
        /\ listed' = IF seen = <<>> THEN nodes ELSE listed
        /\ UNCHANGED <<nodes, direction, gone, pushed>>
  BY FetchBackward DEF IInv
<1>3. /\ nodes' = nodes /\ direction' = "backward" /\ gone' = gone
      /\ pushed' = pushed /\ listed' \in Seq(Nodes) /\ Still' = Still
  BY <1>1, <1>2 DEF Still
<1>4. /\ Omitted \notin Int
      /\ asking.before = Omitted \/ asking.before \in Nat
      /\ asking.before = Omitted <=> seen = <<>>
  BY <1>1, ArgsAre DEF IInv, BackwardRight
<1>5. PICK q \in Nat : q = Len(seen) /\ (seen = <<>> <=> q = 0)
  BY <1>1
<1>6. /\ Len(nodes) \in Nat /\ DOMAIN nodes = 1..Len(nodes) /\ DOMAIN seen = 1..q
      /\ DOMAIN seen' = 1..(m + q) /\ Len(seen') = m + q
  BY <1>1, <1>2, <1>5
<1>7. PICK d \in Nat : d = n - m /\ d + m = n /\ n <= Len(nodes)
  <2>1. m <= n /\ n <= Len(nodes)
    BY <1>2
  <2>2. n - m \in Nat /\ (n - m) + m = n
    BY <2>1
  <2>3. QED
    BY <2>1, <2>2
<1>8. /\ \A i \in 1..m : seen'[i] = nodes[d + i] /\ d + i \in DOMAIN nodes
      /\ \A i \in 1..q : seen'[m + i] = seen[i]
  <2>1. ASSUME NEW i \in 1..m PROVE d + i \in DOMAIN nodes
    BY <1>6, <1>7
  <2>2. \A i \in 1..m : seen'[i] = nodes[d + i]
    <3>1. n - m = d
      BY <1>7
    <3>2. QED
      BY <1>2, <3>1, Zenon
  <2>3. \A i \in 1..q : seen'[m + i] = seen[i]
    BY <1>2, <1>5, Zenon
  <2>4. QED
    BY <2>1, <2>2, <2>3
<1>9. \A i \in 1..(m + q) : i \in 1..m \/ \E l \in 1..q : i = m + l
  <2>1. ASSUME NEW i \in 1..(m + q), i > m PROVE i - m \in 1..q /\ i = m + (i - m)
    BY <1>5, <2>1
  <2>2. QED
    BY <2>1
\* What was to come is in front of the page, or on it.
<1>10. /\ asking.before # Omitted => \A j \in DOMAIN nodes : j <= asking.before <=> j <= n
       /\ asking.before = Omitted => n = Len(nodes)
       /\ m > 0 => asking'.before = d /\ asking'.before # Omitted /\ seen' # <<>>
       /\ m = 0 => asking'.before = asking.before /\ n = 0 /\ d = 0
  <2>1. asking.before # Omitted => \A j \in DOMAIN nodes : j <= asking.before <=> j <= n
    BY <1>2, <1>4, <1>6 DEF Least
  <2>2. m > 0 => asking'.before = d /\ asking'.before # Omitted
    BY <1>2, <1>4, <1>7
  <2>3. m > 0 => seen' # <<>>
    BY <1>5, <1>6
  <2>4. QED
    BY <1>2, <1>7, <2>1, <2>2, <2>3
<1> DEFINE P == {nodes[j] : j \in (d + 1)..n}
<1>11. /\ (d + 1)..n \subseteq DOMAIN nodes
       /\ \A j \in (d + 1)..n : j - d \in 1..m /\ d + (j - d) = j
  <2>1. (d + 1)..n \subseteq DOMAIN nodes
    BY <1>6, <1>7
  <2>2. ASSUME NEW j \in (d + 1)..n PROVE j - d \in 1..m /\ d + (j - d) = j
    BY <1>7
  <2>3. QED
    BY <2>1, <2>2
<1>12. Range(seen') = Range(seen) \cup P
  <2>1. ASSUME NEW x \in Range(seen') PROVE x \in Range(seen) \cup P
    <3>1. PICK i \in 1..(m + q) : x = seen'[i]
      BY <1>6 DEF Range
    <3>2. CASE i \in 1..m
      <4>1. d + i \in (d + 1)..n
        BY <1>7, <3>2
      <4>2. QED
        BY <1>8, <3>1, <3>2, <4>1
    <3>3. CASE \E l \in 1..q : i = m + l
      BY <1>6, <1>8, <3>1, <3>3 DEF Range
    <3>4. QED
      BY <1>9, <3>2, <3>3
  <2>2. ASSUME NEW x \in Range(seen) PROVE x \in Range(seen')
    <3>1. PICK l \in 1..q : x = seen[l]
      BY <1>6 DEF Range
    <3>2. m + l \in DOMAIN seen' /\ seen'[m + l] = x
      BY <1>5, <1>6, <1>8, <3>1
    <3>3. QED
      BY <3>2 DEF Range
  <2>3. ASSUME NEW j \in (d + 1)..n PROVE nodes[j] \in Range(seen')
    <3>1. PICK i \in 1..m : i = j - d /\ d + i = j
      BY <1>11
    <3>2. seen'[i] = nodes[j] /\ i \in DOMAIN seen'
      BY <1>5, <1>6, <1>8, <3>1
    <3>3. QED
      BY <3>2 DEF Range
  <2>4. QED
    BY <2>1, <2>2, <2>3
<1>13. TypeOK'
  BY <1>1, <1>2, <1>3 DEF IInv, TypeOK
<1>14. Form'
  <2>1. ASSUME NEW i \in DOMAIN seen' PROVE Known(seen'[i])
    <3>1. CASE i \in 1..m
      BY <1>8, <3>1 DEF Known
    <3>2. CASE \E l \in 1..q : i = m + l
      BY <1>6, <1>8, <3>2 DEF IInv, Form
    <3>3. QED
      BY <1>6, <1>9, <3>1, <3>2
  <2>2. \A y : Known(y)' = Known(y)
    BY <1>3 DEF Known
  <2>3. \A i \in DOMAIN seen' : Known(seen[i])'
    BY <1>3, <2>1 DEF Known
  <2>4. \A y \in pushed' : Known(y)'
    BY <1>3, <2>2 DEF IInv, Form
  <2>5. /\ \A i \in DOMAIN listed' : Known(listed[i])'
        /\ Still => Len(listed') <= Len(nodes)
                    /\ \A j \in 1..Len(listed') : listed'[j] = nodes[j]
    <3>1. CASE seen = <<>>
      <4>1. listed' = nodes
        BY <1>2, <3>1
      <4>2. QED
        BY <1>3, <1>6, <4>1 DEF Known
    <3>2. CASE seen # <<>>
      <4>1. listed' = listed
        BY <1>2, <3>2
      <4>2. \A i \in DOMAIN listed' : Known(listed[i])'
        BY <1>3, <4>1 DEF IInv, Form, Known
      <4>3. QED
        BY <4>1, <4>2 DEF IInv, Form
    <3>3. QED
      BY <3>1, <3>2
  <2>6. QED
    BY <1>1, <1>2, <1>3, <2>3, <2>4, <2>5 DEF Form
\* What is skipped for good was so before: what was to come is on the page, or
\* in front of it.
<1>15. Lost' \in SUBSET Lost
  <2>1. ASSUME NEW j \in Lost' PROVE j \in Lost
    <3>1. /\ j \in DOMAIN nodes /\ asking'.before # Omitted /\ j > asking'.before
          /\ nodes[j] \in Range(listed') /\ nodes[j] \notin Range(seen') /\ nodes[j] \notin gone
      BY <1>3, <2>1 DEF Lost, Skipped
    <3>2. j \notin (d + 1)..n
      BY <1>12, <3>1
    <3>3. asking.before # Omitted /\ j > asking.before
      <4>1. CASE m = 0
        <5>1. asking'.before = asking.before
          BY <1>10, <4>1
        <5>2. QED
          BY <3>1, <5>1
      <4>2. CASE m > 0
        <5>1. asking'.before = d
          BY <1>10, <4>2
        <5>2. j \in Nat /\ j > n /\ j <= Len(nodes)
          BY <1>6, <1>7, <3>1, <3>2, <5>1
        <5>3. asking.before # Omitted
          <6>1. PICK l \in Nat : l = Len(nodes)
            BY <1>6
          <6>2. n # l
            BY <5>2, <6>1
          <6>3. QED
            BY <1>10, <6>1, <6>2
        <5>4. ~(j <= asking.before)
          <6>1. j <= asking.before <=> j <= n
            BY <1>10, <3>1, <5>3
          <6>2. QED
            BY <5>2, <6>1
        <5>5. QED
          BY <1>4, <5>2, <5>3, <5>4
      <4>3. m = 0 \/ m > 0
        OBVIOUS
      <4>4. QED
        BY <4>1, <4>2, <4>3
    <3>4. seen # <<>>
      BY <1>4, <3>3
    <3>5. nodes[j] \in Skipped
      BY <1>2, <1>12, <3>1, <3>4 DEF Skipped
    <3>6. QED
      BY <3>1, <3>3, <3>5 DEF Lost
  <2>2. QED
    BY <2>1
<1>16. PICK L \in SUBSET Lost : L = Lost' /\ IsFiniteSet(L) /\ Cardinality(L) <= Cardinality(pushed)
  <2>1. PICK L \in SUBSET Lost : L = Lost'
    BY <1>15
  <2>2. IsFiniteSet(Lost) /\ Cardinality(Lost) \in Nat
    BY PlacesFinite DEF IInv
  <2>3. IsFiniteSet(L) /\ Cardinality(L) <= Cardinality(Lost)
    BY <2>2, FS_Subset
  <2>4. Cardinality(L) \in Nat /\ Cardinality(pushed) \in Nat
    BY <1>1, <2>3, FS_CardinalityType
  <2>5. Cardinality(Lost) <= Cardinality(pushed)
    BY DEF IInv, BackwardRight
  <2>6. QED
    BY <2>1, <2>2, <2>3, <2>4, <2>5
<1>17. ASSUME done' PROVE Cardinality(Skipped') <= Cardinality(pushed)
  <2>1. d = 0 /\ m = n
    BY <1>2, <1>7, <1>17
  <2>2. PICK T : T = {nodes[j] : j \in L}
    OBVIOUS
  <2>3. L \in SUBSET DOMAIN nodes
    BY <1>16 DEF Lost
  <2>4. IsFiniteSet(T) /\ Cardinality(T) = Cardinality(L)
    BY <1>1, <1>16, <2>2, <2>3, ImageIs
  <2>5. ASSUME NEW x \in Skipped' PROVE x \in T
    <3>1. x \in Range(listed') /\ x \notin Range(seen') /\ x \notin gone
      BY <1>3, <2>5 DEF Skipped
    <3>2. PICK j \in DOMAIN nodes : nodes[j] = x
      <4>1. PICK i \in DOMAIN listed' : listed'[i] = x
        BY <3>1 DEF Range
      <4>2. Known(listed[i])'
        BY <1>14 DEF Form
      <4>3. QED
        BY <1>3, <3>1, <4>1, <4>2 DEF Known
    <3>3. j > n
      <4>1. j \notin (d + 1)..n
        BY <1>12, <3>1, <3>2
      <4>2. QED
        BY <1>6, <2>1, <4>1
    <3>4. j \in Nat /\ j > 0 /\ asking.before # Omitted /\ j > asking.before
      <4>1. PICK l \in Nat : l = Len(nodes) /\ DOMAIN nodes = 1..l
        BY <1>6
      <4>2. j \in Nat /\ j > 0 /\ n # l
        BY <3>3, <4>1
      <4>3. asking.before # Omitted
        BY <1>10, <4>1, <4>2
      <4>4. j <= asking.before <=> j <= n
        BY <1>10, <4>3
      <4>5. QED
        BY <1>4, <3>3, <4>2, <4>3, <4>4
    <3>5. asking'.before # Omitted /\ j > asking'.before
      <4>1. CASE m > 0
        <5>1. asking'.before = d /\ asking'.before # Omitted
          BY <1>10, <4>1
        <5>2. QED
          BY <2>1, <3>4, <5>1
      <4>2. CASE m = 0
        <5>1. asking'.before = asking.before
          BY <1>10, <4>2
        <5>2. QED
          BY <3>4, <5>1
      <4>3. QED
        BY <4>1, <4>2
    <3>6. j \in L
      BY <1>3, <1>16, <2>5, <3>2, <3>5 DEF Lost
    <3>7. QED
      BY <2>2, <3>2, <3>6
  <2>6. PICK C \in SUBSET T : C = Skipped'
    BY <2>5
  <2>7. IsFiniteSet(C) /\ Cardinality(C) <= Cardinality(T)
    BY <2>4, FS_Subset
  <2>8. /\ Cardinality(C) \in Nat /\ Cardinality(T) \in Nat
        /\ Cardinality(L) \in Nat /\ Cardinality(pushed) \in Nat
    BY <1>1, <1>16, <2>4, <2>7, FS_CardinalityType
  <2>9. Cardinality(C) <= Cardinality(pushed)
    BY <1>16, <2>4, <2>7, <2>8
  <2>10. QED
    BY <2>6, <2>9
\* A row is shown again where it was counted to come again.
<1>18. Len(seen') - Cardinality(Range(seen')) + Cardinality(Again') <= Cardinality(gone)
  <2>1. PICK R : R = Range(seen)
    OBVIOUS
  <2>2. PICK A : A = Again
    OBVIOUS
  <2>3. PICK G : G = Again'
    OBVIOUS
  <2>4. PICK c \in Nat : c = Cardinality(gone)
    BY <1>1, FS_CardinalityType
  <2>5. q - Cardinality(R) + Cardinality(A) <= c
    BY <1>5, <2>1, <2>2, <2>4 DEF IInv, BackwardRight
  <2>6. d + m = n
    BY <1>7
  <2>7. ASSUME NEW j \in DOMAIN nodes, j <= n, nodes[j] \in R PROVE j \in A
    <3>1. asking.before # Omitted
      <4>1. seen # <<>>
        BY <2>1, <2>7 DEF Range
      <4>2. QED
        BY <1>4, <4>1
    <3>2. QED
      BY <1>10, <2>1, <2>2, <2>7, <3>1 DEF Again
  <2>8. ASSUME NEW j \in (d + 1)..n, nodes[j] \in R PROVE j \in A
    <3>1. j \in DOMAIN nodes /\ j <= n
      BY <1>7, <1>11
    <3>2. QED
      BY <2>7, <2>8, <3>1
  <2>9. ASSUME NEW j \in G PROVE j \in A /\ j \notin (d + 1)..n
    <3>1. /\ j \in DOMAIN nodes /\ asking'.before # Omitted /\ j <= asking'.before
          /\ nodes[j] \in R \cup P
      BY <1>3, <1>12, <2>1, <2>3, <2>9 DEF Again
    <3>2. j <= d
      <4>1. CASE m > 0
        BY <1>10, <3>1, <4>1
      <4>2. CASE m = 0
        BY <1>4, <1>6, <1>10, <3>1, <4>2
      <4>3. QED
        BY <4>1, <4>2
    <3>3. j \notin (d + 1)..n /\ j <= n
      BY <1>6, <1>7, <3>1, <3>2
    <3>4. nodes[j] \notin P
      BY <1>1, <1>11, <3>1, <3>3 DEF Apart
    <3>5. QED
      BY <2>7, <3>1, <3>3, <3>4
  <2>10. IsFiniteSet(A) /\ IsFiniteSet(R)
    BY <1>1, <2>1, <2>2, PlacesFinite, RangeIs DEF IInv
  <2>11. /\ (d + 1)..(d + m) \subseteq DOMAIN nodes
         /\ \A j \in (d + 1)..(d + m) : nodes[j] \in R => j \in A
         /\ \A j \in G : j \in A /\ j \notin (d + 1)..(d + m)
    BY <1>11, <2>6, <2>8, <2>9
  <2>12. (m + q) - Cardinality(R \cup {nodes[j] : j \in (d + 1)..(d + m)}) + Cardinality(G) <= c
    BY <1>1, <2>5, <2>10, <2>11, PageCounts
  <2>13. R \cup {nodes[j] : j \in (d + 1)..(d + m)} = Range(seen')
    BY <1>12, <2>1, <2>6
  <2>14. QED
    BY <1>6, <2>3, <2>4, <2>12, <2>13
\* Nothing has shifted: a page is what is in front of what was seen.
<1>19. Still /\ seen # <<>> =>
         /\ n = asking.before /\ Len(listed) = n + q
         /\ \A i \in 1..q : seen[i] = listed[n + i]
  <2>1. SUFFICES ASSUME Still, seen # <<>>
                 PROVE  /\ n = asking.before /\ Len(listed) = n + q
                        /\ \A i \in 1..q : seen[i] = listed[n + i]
    OBVIOUS
  <2>2. /\ asking.before \in Nat
        /\ Len(listed) = asking.before + q /\ Len(listed) <= Len(nodes)
        /\ \A i \in 1..q : seen[i] = listed[asking.before + i]
    BY <1>4, <1>5, <2>1 DEF IInv, Form, BackwardRight
  <2>3. n = Least(asking.before, Len(nodes))
    BY <1>2, <1>4, <2>2
  <2>4. asking.before <= Len(nodes)
    BY <1>6, <2>2
  <2>5. n = asking.before
    BY <2>3, <2>4 DEF Least
  <2>6. QED
    BY <2>2, <2>5
<1>20. Still =>
         /\ Len(listed') = n + q
         /\ \A i \in 1..q : seen[i] = listed'[n + i]
         /\ \A j \in 1..n : listed'[j] = nodes[j]
  <2>1. SUFFICES ASSUME Still
                 PROVE  /\ Len(listed') = n + q
                        /\ \A i \in 1..q : seen[i] = listed'[n + i]
                        /\ \A j \in 1..n : listed'[j] = nodes[j]
    OBVIOUS
  <2>2. CASE seen = <<>>
    <3>1. listed' = nodes /\ n = Len(nodes) /\ q = 0
      BY <1>2, <1>4, <1>5, <1>10, <2>2
    <3>2. QED
      BY <1>6, <3>1
  <2>3. CASE seen # <<>>
    <3>1. listed' = listed
      BY <1>2, <2>3
    <3>2. \A j \in 1..n : j \in 1..Len(listed)
      BY <1>19, <2>1, <2>3
    <3>3. QED
      BY <1>19, <2>1, <2>3, <3>1, <3>2 DEF IInv, Form
  <2>4. QED
    BY <2>2, <2>3
<1>21. ASSUME Still
       PROVE  Len(listed') = d + (m + q) /\ \A i \in 1..(m + q) : seen'[i] = listed'[d + i]
  <2>1. Len(listed') = d + (m + q)
    BY <1>7, <1>20, <1>21
  <2>2. ASSUME NEW i \in 1..m PROVE seen'[i] = listed'[d + i]
    <3>1. d + i \in 1..n
      BY <1>7
    <3>2. QED
      BY <1>8, <1>20, <1>21, <3>1
  <2>3. ASSUME NEW l \in 1..q PROVE seen'[m + l] = listed'[d + (m + l)]
    <3>1. d + (m + l) = n + l
      BY <1>7
    <3>2. QED
      BY <1>8, <1>20, <1>21, <3>1
  <2>4. QED
    BY <1>9, <2>1, <2>2, <2>3
<1>22. seen' = <<>> <=> m + q = 0
  <2>1. PICK s \in Seq(Nodes) : s = seen'
    BY <1>2
  <2>2. s = <<>> <=> Len(s) = 0
    BY <2>1
  <2>3. QED
    BY <1>6, <2>1, <2>2
<1>23. Still /\ seen' # <<>> => asking'.before = d
  <2>1. CASE m > 0
    BY <1>10, <2>1
  <2>2. CASE m = 0
    <3>1. seen' # <<>> => seen # <<>>
      BY <1>5, <1>22, <2>2
    <3>2. QED
      BY <1>10, <1>19, <2>2, <3>1
  <2>3. QED
    BY <2>1, <2>2
<1>24. asking'.before = Omitted <=> seen' = <<>>
  <2>1. CASE m > 0
    BY <1>10, <2>1
  <2>2. CASE m = 0
    <3>1. seen' = <<>> <=> seen = <<>>
      BY <1>5, <1>22, <2>2
    <3>2. QED
      BY <1>4, <1>10, <2>2, <3>1
  <2>3. QED
    BY <2>1, <2>2
<1>25. done' /\ Still => seen' = listed'
  <2>1. SUFFICES ASSUME done', Still PROVE seen' = listed'
    OBVIOUS
  <2>2. d = 0
    BY <1>2, <1>7, <2>1
  <2>3. PICK s, t \in Seq(Nodes) : s = seen' /\ t = listed'
    BY <1>2, <1>3
  <2>4. Len(s) = Len(t) /\ \A j \in 1..Len(s) : s[j] = t[j]
    BY <1>6, <1>21, <2>1, <2>2, <2>3
  <2>5. s = t
    BY <2>4
  <2>6. QED
    BY <2>3, <2>5
<1>26. BackwardRight'
  <2>1. Still /\ seen' # <<>> =>
          /\ Len(listed') = asking'.before + Len(seen')
          /\ \A i \in 1..Len(seen') : seen'[i] = listed'[asking'.before + i]
    BY <1>6, <1>21, <1>23
  <2>2. QED
    BY <1>3, <1>16, <1>17, <1>18, <1>24, <1>25, <2>1 DEF BackwardRight
<1>27. ForwardRight'
  BY <1>3 DEF ForwardRight
<1>28. QED
  BY <1>13, <1>14, <1>26, <1>27 DEF IInv

LEMMA Inductive == Spec => []IInv
<1>1. Init => IInv
  BY InitImplies
<1>2. IInv /\ [Next]_vars => IInv'
  <2> SUFFICES ASSUME IInv, [Next]_vars PROVE IInv'
    OBVIOUS
  <2>1. CASE BeginWalk
    BY <2>1, BeginKeeps
  <2>2. CASE FetchPage
    <3>1. direction \in {"none", "forward", "backward"} /\ direction # "none"
      BY <2>2 DEF IInv, TypeOK, FetchPage
    <3>2. QED
      BY <2>2, <3>1, ForwardKeeps, BackwardKeeps
  <2>3. CASE AddNode
    BY <2>3, AddKeeps
  <2>4. CASE RemoveNode
    BY <2>4, RemoveKeeps
  <2>5. CASE UNCHANGED vars
    <3>1. /\ nodes' = nodes /\ direction' = direction /\ asking' = asking /\ seen' = seen
          /\ done' = done /\ listed' = listed /\ gone' = gone /\ pushed' = pushed
      BY <2>5 DEF vars
    <3>2. Missed' = Missed /\ Ahead' = Ahead /\ Again' = Again /\ Skipped' = Skipped /\ Lost' = Lost
      BY <3>1 DEF Missed, Ahead, Again, Skipped, Lost
    <3>3. Still' = Still
      BY <3>1 DEF Still
    <3>4. TypeOK' /\ Form'
      BY <3>1, <3>3 DEF IInv, TypeOK, Form, Known
    <3>5. ForwardRight' /\ BackwardRight'
      BY <3>1, <3>2, <3>3 DEF IInv, ForwardRight, BackwardRight
    <3>6. QED
      BY <3>4, <3>5 DEF IInv
  <2>6. QED
    BY <2>1, <2>2, <2>3, <2>4, <2>5 DEF Next
<1>3. QED
  BY <1>1, <1>2, PTL DEF Spec

(* Theorems *****************************************************************)

\* What a client hands back is a request that throws nothing, whatever the
\* list loses while it walks (ApplyRelayPagination, EdgesToReturn).
THEOREM TypeSafety == Spec => []TypeOK
<1>1. IInv => TypeOK
  BY DEF IInv
<1>2. QED
  BY <1>1, Inductive, PTL

\* For every list and all arguments that throw nothing, a page is the window
\* between the cursors cut to first and then to last, in list order and each
\* node with its own cursor, and a cut is reported in the direction it was made.
THEOREM PagesSafety == Spec => []PagesAreExact
<1>1. TypeOK => PagesAreExact
  BY PagesExact DEF TypeOK, PagesAreExact
<1>2. QED
  BY <1>1, TypeSafety, PTL

\* While a list only grows at its end, what a walk has seen is a gapless
\* stretch of it, and all of it once the walk is done.  For each row put in
\* front of others meanwhile a forward walk repeats at most one, and for each of
\* those and each removed misses at most one; a backward walk repeats at most
\* one for each removed, and misses at most one for each put in front
\* (ApplyCursorsToEdges, HasNextPage).
THEOREM WalkSafety == Spec => []WalkIsBounded
<1>1. IInv => WalkIsBounded
  BY Gapless, Shifted DEF WalkIsBounded, Still
<1>2. QED
  BY <1>1, Inductive, PTL
=============================================================================
