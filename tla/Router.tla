------------------------------- MODULE Router -------------------------------
(***************************************************************************)
(* The router of the HTTP server (http/src/server/router.cpp): a tree of   *)
(* path segments, add() that inserts a path, and handle() that searches    *)
(* the tree for the path of a request.  Both hold m_lock while they use    *)
(* the tree, so each is one action.  A path is a sequence of elements, the *)
(* result of split(); an element of an added path is a literal or a        *)
(* parameter {name=regex}, of which only the regular expression matters:   *)
(* the set of request elements it matches.                                 *)
(***************************************************************************)
EXTENDS Integers, SequencesExt

CONSTANTS
    Literals,     \* the elements request paths are made of
    Regexes,      \* names of regular expressions; a literal is also one
    MaxDepth,     \* bound: elements of a path
    MaxAdds,      \* bound: calls of add()
    Invalid       \* an element the path_segment constructor throws on

VARIABLES
    m_root,       \* the children of the root: a sequence of path segments
    added,        \* the paths given to add(), in order; the n-th has handler n
    last          \* the last call of handle() and what it did

vars == <<m_root, added, last>>

-----------------------------------------------------------------------------
\* An element as it is written in a path given to add().
Literal(l) == [name |-> l, param |-> FALSE]
Param(r) == [name |-> r, param |-> TRUE]
Elements == {Literal(l) : l \in Literals \cup {Invalid}} \cup {Param(r) : r \in Regexes}

SeqsUpTo(S, n) == UNION {[1..k -> S] : k \in 0..n}

\* A path segment: m_name (for a parameter, its regular expression), is_param(),
\* m_children and m_handler, 0 when none was set.
Segment(el) ==
    [m_name |-> el.name, param |-> el.param, m_children |-> <<>>, m_handler |-> 0]

\* path_segment::matches().  A regular expression that is spelled like a literal
\* matches that literal, any other one matches every element.
matches(seg, elem) ==
    seg.m_name = elem \/ (seg.param /\ seg.m_name \notin Literals)

\* router::find() with lookup = false, which compares m_name with the element as it is
\* written: "{v=a}" is never the name of a segment, so a parameter is never found, and
\* the literal "a" finds the segment of "{v=a}".  The index, or 0.
find(segments, el) ==
    LET same == {i \in 1..Len(segments) : ~el.param /\ segments[i].m_name = el.name}
    IN IF same = {} THEN 0 ELSE CHOOSE i \in same : \A j \in same : i <= j

\* The second loop of add(): a chain of new segments, the handler on the last.  When the
\* constructor throws, the segments before it stay in the tree, without a handler.
RECURSIVE Chain(_, _)
Chain(path, handler) ==
    IF path = <<>> \/ Head(path).name = Invalid THEN <<>>
    ELSE << [Segment(Head(path)) EXCEPT
               !.m_children = Chain(Tail(path), handler),
               !.m_handler = IF Len(path) = 1 THEN handler ELSE 0] >>

\* router::add() on the children of one segment: parameters go to the back and literals
\* to the front, so that a literal is tried before a parameter.
RECURSIVE AddTo(_, _, _)
AddTo(segments, path, handler) ==
    IF path = <<>> THEN segments
    ELSE LET at == find(segments, Head(path)) IN
         IF at # 0
         THEN [segments EXCEPT ![at] =
                 [@ EXCEPT !.m_children = AddTo(@, Tail(path), handler),
                           !.m_handler = IF Len(path) = 1 THEN handler ELSE @]]
         ELSE IF Head(path).param
              THEN segments \o Chain(path, handler)
              ELSE Chain(path, handler) \o segments

\* Mutant: every new segment goes to the back.
RECURSIVE AddToBack(_, _, _)
AddToBack(segments, path, handler) ==
    IF path = <<>> THEN segments
    ELSE LET at == find(segments, Head(path)) IN
         IF at # 0
         THEN [segments EXCEPT ![at] =
                 [@ EXCEPT !.m_children = AddToBack(@, Tail(path), handler),
                           !.m_handler = IF Len(path) = 1 THEN handler ELSE @]]
         ELSE segments \o Chain(path, handler)

add(segments, path, handler) == AddTo(segments, path, handler)

\* What the recursive router::handle() passes on: found (E_ok), seg, the segment the
\* reference parameter names, stk, the stack of parameters, and whether pop() was called
\* on an empty stack, which is undefined.
Search(found, seg, stk, undefined) ==
    [found |-> found, seg |-> seg, stk |-> stk, undefined |-> undefined]

NoSegment == [m_name |-> Invalid, param |-> FALSE, m_children |-> <<>>, m_handler |-> 0]

\* The loop over the children, from the i-th on.  seg is a reference: after the recursive
\* call it names the segment tried last at a deeper level, and it is that segment's
\* is_param() that decides on the pop.
RECURSIVE handle(_, _, _, _)
handle(s, segments, i, elems) ==
    IF elems = <<>> THEN [s EXCEPT !.found = TRUE]
    ELSE IF i > Len(segments) THEN [s EXCEPT !.found = FALSE]
    ELSE
      LET seg == segments[i]
          pushed == IF seg.param THEN Append(s.stk, <<seg.m_name, Head(elems)>>) ELSE s.stk
      IN IF ~matches(seg, Head(elems))
         THEN handle([s EXCEPT !.seg = seg], segments, i + 1, elems)
         ELSE LET r == handle([s EXCEPT !.seg = seg, !.stk = pushed],
                              seg.m_children, 1, Tail(elems))
              IN IF r.found THEN r
                 ELSE IF ~r.seg.param THEN handle(r, segments, i + 1, elems)
                 ELSE handle([r EXCEPT !.stk = IF @ = <<>> THEN @ ELSE Front(@),
                                       !.undefined = @ \/ r.stk = <<>>],
                             segments, i + 1, elems)

\* Mutant: the search commits to the first segment that matches.
RECURSIVE FirstOnly(_, _, _, _)
FirstOnly(s, segments, i, elems) ==
    IF elems = <<>> THEN [s EXCEPT !.found = TRUE]
    ELSE IF i > Len(segments) THEN [s EXCEPT !.found = FALSE]
    ELSE IF ~matches(segments[i], Head(elems)) THEN FirstOnly(s, segments, i + 1, elems)
    ELSE FirstOnly([s EXCEPT !.seg = segments[i],
                             !.stk = IF segments[i].param
                                     THEN Append(@, <<segments[i].m_name, Head(elems)>>)
                                     ELSE @],
                   segments[i].m_children, 1, Tail(elems))

GreedySearch(path) == FirstOnly(Search(FALSE, NoSegment, <<>>, FALSE), m_root, 1, path)

\* Mutant: a failed search leaves its parameter on the stack.
LeakySearch(path) ==
    LET s == handle(Search(FALSE, NoSegment, <<>>, FALSE), m_root, 1, path)
    IN [s EXCEPT !.stk = <<<<Invalid, Invalid>>>> \o @]

search(path) == handle(Search(FALSE, NoSegment, <<>>, FALSE), m_root, 1, path)

\* The parameters of the request: a map filled from the top of the stack with insert(),
\* which keeps the first value of a key.
ParamsOf(stk) ==
    [k \in {stk[i][1] : i \in 1..Len(stk)} |->
        stk[CHOOSE i \in 1..Len(stk) :
              stk[i][1] = k /\ \A j \in (i + 1)..Len(stk) : stk[j][1] # k][2]]

-----------------------------------------------------------------------------
\* No call of handle() since the tree changed.
Nothing == [path |-> <<>>, result |-> "none", handler |-> 0, params |-> <<>>]

Init == m_root = <<>> /\ added = <<>> /\ last = Nothing

\* router::add().
Add ==
    /\ Len(added) < MaxAdds
    /\ \E path \in SeqsUpTo(Elements, MaxDepth) :
          /\ m_root' = add(m_root, path, Len(added) + 1)
          /\ added' = Append(added, path)
          /\ last' = Nothing

\* What the handler of a resource returns: whether the response has a body, and the kind
\* of its status: informational, success, one that forbids a body (204, 304), or other.
Replies == [body : BOOLEAN, status : {"info", "success", "nobody", "other"}]
Methods == {"HEAD", "CONNECT", "GET"}

\* The end of handle(request), outside the lock: a body is refused where HTTP allows none.
respond(method, reply) ==
    IF \/ ~reply.body
       \/ /\ method # "HEAD"
          /\ ~(method = "CONNECT" /\ reply.status = "success")
          /\ reply.status \notin {"info", "nobody"}
    THEN "response" ELSE "error"

\* router::handle(request): a segment without a handler is "not implemented", and so is
\* the empty path, for which no segment is visited.
Handle ==
    /\ last = Nothing
    /\ \E path \in SeqsUpTo(Literals, MaxDepth) :
       \E s \in {search(path)} :
       \E result \in IF s.undefined THEN {"undefined"}
                     ELSE IF ~s.found THEN {"not_found"}
                     ELSE IF s.seg.m_handler = 0 THEN {"not_implemented"}
                     ELSE {respond(m, r) : m \in Methods, r \in Replies} :
          last' = [path |-> path, result |-> result,
                   handler |-> IF s.found THEN s.seg.m_handler ELSE 0,
                   params |-> IF s.found THEN ParamsOf(s.stk) ELSE <<>>]
    /\ UNCHANGED <<m_root, added>>

Next == Add \/ Handle

Spec == Init /\ [][Next]_vars

-----------------------------------------------------------------------------
\* The routes of a path: for each of its elements the index of a child that matches it.
\* A reference for the search, by choice instead of by backtracking.
RECURSIVE RoutesIn(_, _)
RoutesIn(segments, path) ==
    IF path = <<>> THEN {<<>>}
    ELSE UNION {{<<i>> \o r : r \in RoutesIn(segments[i].m_children, Tail(path))} :
                  i \in {j \in 1..Len(segments) : matches(segments[j], Head(path))}}

Before(r, t) == \E k \in 1..Len(r) : r[k] < t[k] /\ \A j \in 1..(k - 1) : r[j] = t[j]

RECURSIVE SegmentsOn(_, _)
SegmentsOn(segments, route) ==
    IF route = <<>> THEN <<>>
    ELSE <<segments[Head(route)]>> \o SegmentsOn(segments[Head(route)].m_children, Tail(route))

Best(path) ==
    CHOOSE r \in RoutesIn(m_root, path) :
        \A t \in RoutesIn(m_root, path) \ {r} : Before(r, t)

Answered == last.result \notin {"none", "undefined"}

\* A request is answered from the first of all routes of its path, in the order in which
\* the children are kept, however much backtracking that takes; when it has no route it is
\* not found, and when that route ends at a segment without a handler, not implemented
\* (handle(), router.cpp:153 and 187).
RoutesToFirst ==
    Answered =>
        IF RoutesIn(m_root, last.path) = {} THEN last.result = "not_found"
        ELSE IF last.path = <<>> THEN last.result = "not_implemented"
        ELSE LET seg == Last(SegmentsOn(m_root, Best(last.path)))
             IN /\ last.handler = seg.m_handler
                /\ (last.result = "not_implemented") = (seg.m_handler = 0)

\* A request for a path that was added element by element as literals runs the handler of
\* the last such add(), whatever parameters were added before or after it, because
\* literals are put in front of parameters (add(), router.cpp:139).  Except where a regular
\* expression is spelled like a literal: find() takes its segment for the literal's.
LiteralsWin ==
    Answered =>
        LET lits == [k \in 1..Len(last.path) |-> Literal(last.path[k])]
            own == {n \in 1..Len(added) : added[n] = lits}
        IN (own # {} /\ last.path # <<>>
              /\ \A n \in 1..Len(added), k \in 1..MaxDepth :
                    k <= Len(added[n]) => added[n][k] \notin {Param(l) : l \in Literals})
           => last.handler = CHOOSE n \in own : \A o \in own : o <= n

\* The first route is found without a failed search below a segment that matched.
RECURSIVE Straight(_, _)
Straight(segments, path) ==
    path = <<>> \/
    LET hit == {i \in 1..Len(segments) : matches(segments[i], Head(path))}
    IN hit # {} /\ LET i == CHOOSE i \in hit : \A j \in hit : i <= j
                   IN Straight(segments[i].m_children, Tail(path))

\* The request gets exactly the parameters of its route, the innermost value of each, and
\* no pop() meets an empty stack, unless the search had to back out of a segment: then the
\* wrong segment's is_param() decides on the pop (router.cpp:174-179).
ParamsOfRoute ==
    (last.result # "none" /\ Straight(m_root, last.path)) =>
        LET segs == SegmentsOn(m_root, Best(last.path))
            on == {k \in 1..Len(segs) : segs[k].param}
        IN /\ last.result # "undefined"
           /\ DOMAIN last.params = {segs[k].m_name : k \in on}
           /\ \A k \in on : (\A j \in on : j > k => segs[j].m_name # segs[k].m_name)
                            => last.params[segs[k].m_name] = last.path[k]

=============================================================================
