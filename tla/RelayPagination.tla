-------------------------- MODULE RelayPagination --------------------------
(* Relay pagination of the GraphQL connections (graphql/relay.ts), and a    *)
(* client that walks a connection page by page while the store behind it    *)
(* gains and loses rows.  A cursor is the position of a node in the list a  *)
(* request sees.                                                            *)
EXTENDS Integers, Sequences, FiniteSets, Functions

CONSTANTS
    Nodes,      \* what a connection lists
    MaxNodes,   \* bound: length of the list
    Initial,    \* bound: the lists a walk may find at its beginning
    DefaultPageSize,    \* 100
    Malformed,  \* a cursor that is no integer
    Omitted     \* an argument the client left out

ASSUME LengthAssumption == MaxNodes \in Nat
ASSUME InitialAssumption ==
    \A list \in Initial : list \in Seq(Nodes) /\ Len(list) <= MaxNodes /\ IsInjective(list)
ASSUME PageSizeAssumption == DefaultPageSize \in Nat \ {0}
ASSUME ArgumentAssumption == {Malformed, Omitted} \cap Int = {} /\ Malformed # Omitted

(* A request ****************************************************************)

Cursors == 0..MaxNodes
Sizes == 0..MaxNodes
PageArgs == [first : Sizes \cup {-1, Omitted}, last : Sizes \cup {-1, Omitted},
             after : Cursors \cup {-1, Malformed, Omitted},
             before : Cursors \cup {-1, Malformed, Omitted}]
NoArgs == [first |-> Omitted, last |-> Omitted, after |-> Omitted, before |-> Omitted]

ParseCursor(cursor, default) == IF cursor = Omitted THEN default ELSE cursor

\* A negative or malformed argument throws, and there is no page.
Throws(args) ==
    \/ {args.after, args.before} \cap {-1, Malformed} # {}
    \/ -1 \in {args.first, args.last}

Least(m, n) == IF m <= n THEN m ELSE n

\* Mutant: cursors count from one less.
EdgesCountedLow(list, before, after) ==
    LET from == ParseCursor(after, -1) + 1
        upto == Least(ParseCursor(before, Len(list)), Len(list))
        range == SubSeq(list, from + 1, upto)
    IN  [i \in DOMAIN range |-> [node |-> range[i], cursor |-> from + i - 2]]

\* slice() clips both ends.
ApplyCursorsToEdges(list, before, after) ==
    LET from == ParseCursor(after, -1) + 1
        upto == Least(ParseCursor(before, Len(list)), Len(list))
        range == SubSeq(list, from + 1, upto)
    IN  [i \in DOMAIN range |-> [node |-> range[i], cursor |-> from + i - 1]]

\* Mutant: last is taken of the range, not of what first left of it.
EdgesLastThenFirst(edges, first, last) ==
    LET size == IF first = Omitted /\ last = Omitted THEN DefaultPageSize ELSE first
        tail == IF last = Omitted THEN edges
                ELSE SubSeq(edges, Len(edges) - Least(last, Len(edges)) + 1, Len(edges))
    IN  IF size = Omitted THEN tail ELSE SubSeq(tail, 1, Least(size, Len(tail)))

EdgesToReturn(edges, first, last) ==
    LET size == IF first = Omitted /\ last = Omitted THEN DefaultPageSize ELSE first
        head == IF size = Omitted THEN edges ELSE SubSeq(edges, 1, Least(size, Len(edges)))
    IN  IF last = Omitted THEN head
        ELSE SubSeq(head, Len(head) - Least(last, Len(head)) + 1, Len(head))

\* Mutants: the whole list is counted; a cut to the default is not reported.
HasNextOfList(list, range, args) == args.first # Omitted /\ Len(list) > args.first
HasNextOfFirstOnly(list, range, args) == args.first # Omitted /\ Len(range) > args.first

HasNextPage(list, range, args) ==
    LET cutToDefault == args.last = Omitted /\ Len(range) > DefaultPageSize
    IN  CASE args.first # Omitted -> Len(range) > args.first
          [] args.first = Omitted /\ args.before # Omitted ->
                cutToDefault \/ args.before < Len(list) - 1
          [] OTHER -> cutToDefault

HasPreviousPage(list, range, args) ==
    IF args.last # Omitted THEN Len(range) > args.last
    ELSE args.after # Omitted /\ args.after < Len(list)

ApplyRelayPagination(list, args) ==
    LET range == ApplyCursorsToEdges(list, args.before, args.after)
        edges == EdgesToReturn(range, args.first, args.last)
    IN  [edges |-> edges,
         hasNextPage |-> HasNextPage(list, range, args),
         hasPreviousPage |-> HasPreviousPage(list, range, args),
         startCursor |-> IF edges = <<>> THEN Omitted ELSE edges[1].cursor,
         endCursor |-> IF edges = <<>> THEN Omitted ELSE edges[Len(edges)].cursor,
         totalCount |-> Len(list)]

\* A page as the connection a client reads: its nodes, beside their cursors.
ToConnectionPageInfo(page) ==
    [hasNextPage |-> page.hasNextPage, hasPreviousPage |-> page.hasPreviousPage,
     startCursor |-> page.startCursor, endCursor |-> page.endCursor]

ConvertOrganizationConnection(page) ==
    [nodes |-> [i \in DOMAIN page.edges |-> page.edges[i].node],
     pageInfo |-> ToConnectionPageInfo(page), totalCount |-> page.totalCount]
Organizations(list, args) == ConvertOrganizationConnection(ApplyRelayPagination(list, args))

(* A walk *******************************************************************)

VARIABLES
    nodes,      \* the list, as a request finds it
    direction,  \* the client walks forward, backward, or has not begun
    asking,     \* the arguments of its next request
    seen,       \* the nodes its pages held, in list order
    done,       \* its last page said there is no further one
    listed,     \* (auxiliary) what a whole walk shows: forward the list its
                \* last request found, backward the list its first one found
    gone,       \* (auxiliary) the nodes removed while it walks
    pushed      \* (auxiliary) the nodes added in front of others while it walks

vars == <<nodes, direction, asking, seen, done, listed, gone, pushed>>

Init ==
    /\ nodes \in Initial
    /\ direction = "none"
    /\ asking = NoArgs
    /\ seen = <<>>
    /\ done = FALSE
    /\ listed = nodes
    /\ gone = {}
    /\ pushed = {}

\* Forward by a page size or by the default, or backward by a page size.
BeginWalk ==
    /\ direction = "none"
    /\ \E size \in 1..MaxNodes :
        \/ direction' = "forward" /\ asking' = [NoArgs EXCEPT !.first = size]
        \/ direction' = "forward" /\ asking' = NoArgs
        \/ direction' = "backward" /\ asking' = [NoArgs EXCEPT !.last = size]
    /\ UNCHANGED <<nodes, seen, done, listed, gone, pushed>>

\* One request, and the cursor its connection ends at kept for the next.
FetchPage ==
    /\ direction # "none"
    /\ ~done
    /\ \E connection \in {Organizations(nodes, asking)} :
       LET info == connection.pageInfo
       IN  IF direction = "forward"
           THEN /\ done' = ~info.hasNextPage
                /\ seen' = seen \o connection.nodes
                /\ asking' = [asking EXCEPT
                     !.after = IF info.endCursor = Omitted THEN @ ELSE info.endCursor]
           ELSE /\ done' = ~info.hasPreviousPage
                /\ seen' = connection.nodes \o seen
                /\ asking' = [asking EXCEPT
                     !.before = IF info.startCursor = Omitted THEN @ ELSE info.startCursor]
    /\ listed' = IF direction = "forward" \/ seen = <<>> THEN nodes ELSE listed
    /\ UNCHANGED <<nodes, direction, gone, pushed>>

\* A list with one more node, its k-th.
Inserted(list, k, n) == SubSeq(list, 1, k - 1) \o <<n>> \o SubSeq(list, k, Len(list))

\* A row is added to the store's table.  The table is an object, and is listed
\* with the keys that look like integers first, in their order, and the others
\* behind them as they came: the row may come anywhere.
AddNode ==
    /\ direction # "none"
    /\ Len(nodes) < MaxNodes
    /\ \E n \in Nodes \ (Range(nodes) \cup gone), k \in 1..(Len(nodes) + 1) :
        /\ nodes' = Inserted(nodes, k, n)
        /\ pushed' = IF k <= Len(nodes) THEN pushed \cup {n} ELSE pushed
    /\ UNCHANGED <<direction, asking, seen, done, listed, gone>>

\* One is removed, from wherever it is.
RemoveNode ==
    /\ direction # "none"
    /\ \E k \in DOMAIN nodes :
        /\ nodes' = SubSeq(nodes, 1, k - 1) \o SubSeq(nodes, k + 1, Len(nodes))
        /\ gone' = gone \cup {nodes[k]}
    /\ UNCHANGED <<direction, asking, seen, done, listed, pushed>>

Next == BeginWalk \/ FetchPage \/ AddNode \/ RemoveNode

Spec == Init /\ [][Next]_vars
FairSpec == Spec /\ WF_vars(FetchPage)

(* Properties ***************************************************************)

\* Every variable holds a value of its kind; a client that hands back the
\* cursors it was given asks for nothing that throws.
TypeOK ==
    /\ nodes \in Seq(Nodes) /\ Len(nodes) <= MaxNodes
    /\ direction \in {"none", "forward", "backward"}
    /\ asking \in PageArgs /\ ~Throws(asking)
    /\ seen \in Seq(Nodes)
    /\ done \in BOOLEAN
    /\ listed \in Seq(Nodes)
    /\ gone \subseteq Nodes \ Range(nodes)
    /\ pushed \subseteq Nodes

\* The positions a request may see, and those of its page, by counting.
Window(list, args) ==
    {i \in 0..(Len(list) - 1) :
        /\ args.after # Omitted => i > args.after
        /\ args.before # Omitted => i < args.before}
Front(S, size) == {i \in S : Cardinality({j \in S : j < i}) < size}
Back(S, size) == {i \in S : Cardinality({j \in S : j > i}) < size}
PageOf(list, args) ==
    LET window == Window(list, args)
        front == CASE args.first # Omitted -> Front(window, args.first)
                   [] args.first = Omitted /\ args.last = Omitted ->
                        Front(window, DefaultPageSize)
                   [] OTHER -> window
    IN  IF args.last = Omitted THEN front ELSE Back(front, args.last)

\* The page between the cursors is cut to its first, then to its last; its
\* nodes are in list order, each with the cursor of its place in the list.
PageIsCutWindow(args) ==
    LET edges == ApplyRelayPagination(nodes, args).edges
    IN  /\ {edges[i].cursor : i \in DOMAIN edges} = PageOf(nodes, args)
        /\ \A i, j \in DOMAIN edges : i < j => edges[i].cursor < edges[j].cursor
        /\ \A i \in DOMAIN edges : edges[i].node = nodes[edges[i].cursor + 1]

\* A page that leaves out part of the window says there is a further page, in
\* the direction of what it left out: before it only if last was given, behind
\* it only if last was not, or first cut it too.
CutIsReported(args) ==
    LET page == ApplyRelayPagination(nodes, args)
        left == Window(nodes, args) \ PageOf(nodes, args)
    IN  left # {} =>
            /\ args.last = Omitted => page.hasNextPage
            /\ args.first = Omitted /\ args.last # Omitted => page.hasPreviousPage
            /\ page.hasNextPage \/ page.hasPreviousPage

\* Whatever the arguments, a page is what counting says, and says what it
\* left out.  (Stated where no walk has begun: a list of every length occurs
\* there, and a page depends on nothing else.)
PagesAreExact ==
    direction = "none" => \A args \in PageArgs :
        ~Throws(args) => PageIsCutWindow(args) /\ CutIsReported(args)

\* A walk of a list that only grows at its end repeats nothing and skips
\* nothing: forward it has seen a beginning of the list, backward the end of
\* what its first request found, and in the end all of it.
WalkIsGapless ==
    /\ direction = "forward" => seen = SubSeq(nodes, 1, Len(seen))
    /\ direction = "backward" =>
          seen = SubSeq(listed, Len(listed) - Len(seen) + 1, Len(listed))
    /\ done => seen = listed

\* A row removed or pushed in front of others meanwhile shifts the positions
\* behind it.  A forward walk repeats at most one row for each pushed, and
\* skips at most one for each removed or pushed; a backward walk repeats at
\* most one for each removed, and skips at most one for each pushed.
WalkIsShifted ==
    LET repeated == Len(seen) - Cardinality(Range(seen))
        skipped == Range(listed) \ (Range(seen) \cup gone)
    IN  /\ direction = "forward" =>
              /\ repeated <= Cardinality(pushed)
              /\ done => Cardinality(skipped) <= Cardinality(gone) + Cardinality(pushed)
        /\ direction = "backward" =>
              /\ repeated <= Cardinality(gone)
              /\ done => Cardinality(skipped) <= Cardinality(pushed)

WalkIsBounded == (gone \cup pushed = {} => WalkIsGapless) /\ WalkIsShifted

\* A walk of a bounded list comes to its last page.
WalkEnds == direction # "none" ~> done
=============================================================================
