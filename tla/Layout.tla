------------------------------- MODULE Layout -------------------------------
(***************************************************************************)
(* The semantic graph, as the fixture parser builds it line by line        *)
(* (src/semantic_graph), its validation, and what is derived from where    *)
(* its nodes are drawn: regions from circles (src/geometry/containment.c)  *)
(* and the cyclic order of a region's members (cyclic_order.c).            *)
(*                                                                         *)
(* A line is a tuple of the command and its words; blank lines and         *)
(* comments are left out, and so is the limit of 1024 ports.  Ids count    *)
(* from 1, and Invalid is ARC_INVALID_ID.  Points and radii are integers.  *)
(***************************************************************************)
EXTENDS Integers, Sequences, SequencesExt, FiniteSetsExt, TLC, Angles

CONSTANTS Texts,                   \* the texts to parse
          Deformations,            \* layouts to compare with the parsed one
          ARC_GEO_EPSILON, ARC_GEO_MAX_CIRCLES, ARC_GEO_MAX_NODES,
          ARC_CYCLIC_MAX_MEMBERS, ARC_ARCH_MAX_REGIONS, ARC_ARCH_MAX_CHANNELS,
          AngleCotangent           \* of ARC_CYCLIC_ANGLE_EPSILON; 20 in the code

\* A text is a sequence of lines; the ports that a node's line lists are one, too.
\* Radii are not negative.
ASSUME TextsAssumption ==
  \A t \in Texts :
    /\ t \in Seq(Range(t))
    /\ \A i \in DOMAIN t : /\ t[i][1] = "node" => t[i][7] \in Seq(Range(t[i][7]))
                           /\ t[i][1] = "circle" => t[i][4] \in Nat
ASSUME DeformationsAssumption ==
  \A l \in Deformations :
    /\ l.circles \in Seq(Range(l.circles)) /\ l.positions \in Seq(Range(l.positions))
    /\ \A i \in DOMAIN l.circles : l.circles[i].radius \in Nat

VARIABLES
  lines,       \* the lines that are still to be parsed
  had_error,
  graph,       \* the semantic graph
  names,       \* the names of the regions, by id, of nodes and of ports
  arch,        \* the architecture: sealed regions and channels
  geo,         \* the layout: circles and positions
  report       \* what the last operation on the geometry returned

vars == <<lines, had_error, graph, names, arch, geo, report>>

Invalid == 0
NoReport == [op |-> "none"]

Init ==
  /\ lines \in Texts
  /\ had_error = FALSE
  /\ graph = [regions |-> <<>>, nodes |-> <<>>, ports |-> <<>>, edges |-> <<>>,
              root_region |-> Invalid, output_node |-> Invalid]
  /\ names = [regions |-> <<>>, nodes |-> <<>>, ports |-> <<>>]
  /\ arch = [sealed |-> <<>>, channels |-> <<>>]
  /\ geo = [circles |-> <<>>, positions |-> <<>>]
  /\ report = NoReport

-----------------------------------------------------------------------------
(* Building the graph.                                                     *)

arc_graph_add_region(g, parent) ==
  [g EXCEPT !.regions = Append(@, [parent |-> parent, members |-> <<>>])]
arc_region_add_member(g, r, n) == [g EXCEPT !.regions[r].members = Append(@, n)]
arc_graph_add_node(g, kind, r) ==
  arc_region_add_member(
    [g EXCEPT !.nodes = Append(@, [kind |-> kind, region |-> r, attr |-> "", bodies |-> <<>>,
                                   listed |-> FALSE, ports |-> <<>>, cyclic_order |-> <<>>])],
    r, Len(g.nodes) + 1)
arc_graph_add_port(g, n, dir) ==
  [g EXCEPT !.ports = Append(@, [owner |-> n, dir |-> dir]),
            !.nodes[n].ports = Append(@, Len(g.ports) + 1)]
arc_graph_add_edge(g, from, to) == [g EXCEPT !.edges = Append(@, <<from, to>>)]
arc_node_set_cyclic_order(g, n, order) == [g EXCEPT !.nodes[n].cyclic_order = order]

\* The graph and the names, which the parser extends together.
find_region(s, x) == SelectInSeq(s.names.regions, LAMBDA y : y = x)
find_node(s, x) ==
  LET i == SelectInSeq(s.names.nodes, LAMBDA e : e.name = x) IN
  IF i = 0 THEN Invalid ELSE s.names.nodes[i].id
find_port(s, x, role) ==
  LET i == SelectInSeq(s.names.ports, LAMBDA p : p.node = x /\ p.role = role) IN
  IF i = 0 THEN Invalid ELSE s.names.ports[i].id

Inputs == {"lhs", "rhs", "value", "cond", "container", "key", "start", "end", "func", "record",
           "arg0", "item0"}
register_port(s, x, role, n) ==
  [graph |-> arc_graph_add_port(s.graph, n, IF role \in Inputs THEN "input" ELSE "output"),
   names |-> [s.names EXCEPT !.ports = Append(@, [node |-> x, role |-> role, id |-> Len(s.graph.ports) + 1])]]
\* One role after another; a line's own list adds only those that are not there.
PortsFor(s, x, n, roles, again) ==
  LET after[i \in 0 .. Len(roles)] ==
        IF i = 0 THEN s
        ELSE LET t == after[i - 1] IN
             IF again \/ find_port(t, x, roles[i]) = Invalid THEN register_port(t, x, roles[i], n) ELSE t
  IN  after[Len(roles)]
add_default_ports(s, x, n, roles) == PortsFor(s, x, n, roles, TRUE)
add_ports(s, x, n, roles) == PortsFor(s, x, n, roles, FALSE)

default_ports(kind) ==
  CASE kind \in {"CONST", "VAR_REF", "FUNC_CALL", "INTRINSIC_CALL", "ARRAY_LITERAL", "MAP_LITERAL",
                 "RECORD_NEW", "THREAD_SPAWN", "MUTEX_NEW", "CHAN_NEW"} -> <<"out">>
    [] kind \in {"BINARY", "CHAN_SEND"} -> <<"lhs", "rhs", "out">>
    [] kind \in {"UNARY", "THREAD_JOIN", "CHAN_RECV", "FIELD_GET"} -> <<"value", "out">>
    [] kind \in {"LET", "ASSIGN", "PRINT", "ROOT_OUTPUT", "RETURN", "THROW", "MUTEX_LOCK",
                 "MUTEX_UNLOCK"} -> <<"value">>
    [] kind \in {"IF", "WHILE", "BREAK_IF"} -> <<"cond">>
    [] kind = "CLOSURE" -> <<"func", "out">>
    [] kind = "INDEX_SET" -> <<"container", "key", "value">>
    [] kind = "STR_SLICE" -> <<"value", "start", "end", "out">>
    [] kind = "FIELD_SET" -> <<"record", "value", "out">>
    [] OTHER -> <<>>

InputsOrder(kind, ports) ==   \* mutant of add_binary_order: the output is left out
  IF kind \in {"BINARY", "CHAN_SEND"} THEN Front(ports) ELSE <<>>
add_binary_order(kind, ports) == IF kind \in {"BINARY", "CHAN_SEND"} THEN ports ELSE <<>>

\* The regions of a node as its attributes name them; an attribute that is not
\* given leaves a loop with the first region of the graph.
NotGiven == "-"
Bodies(s, kind, given) ==
  [i \in DOMAIN given |->
     IF given[i] # NotGiven THEN find_region(s, given[i])
     ELSE IF kind \in {"WHILE", "CYCLE"} THEN 1 ELSE Invalid]

-----------------------------------------------------------------------------
(* The parser: one action per command.                                     *)

Parsing == [graph |-> graph, names |-> names]
Line(cmd) == lines # <<>> /\ ~ had_error /\ Head(lines)[1] = cmd
word == Head(lines)
Parsed == lines' = Tail(lines) /\ UNCHANGED <<had_error, report>>
perr == had_error' = TRUE /\ UNCHANGED <<lines, graph, names, arch, geo, report>>
Becomes(s) == graph' = s.graph /\ names' = s.names

\* region name parent: an unknown parent is none.
parse_cmd_region ==
  /\ Line("region")
  /\ LET g == arc_graph_add_region(graph, find_region(Parsing, word[3])) IN
     /\ graph' = [g EXCEPT !.root_region = IF @ = Invalid THEN 1 ELSE @]
     /\ names' = [names EXCEPT !.regions = Append(@, word[2])]
  /\ Parsed /\ UNCHANGED <<arch, geo>>

\* node name kind region attr bodies ports cyclic: the default ports come
\* first, in cyclic order if there are three of a binary node.  The field
\* "listed" only records that the line lists ports itself.
parse_cyclic_spec(s, x, n, roles) ==
  LET known == SelectSeq(roles, LAMBDA role : find_port(s, x, role) # Invalid)
      order == [i \in DOMAIN known |-> find_port(s, x, known[i])]
  IN  IF roles = <<>> \/ order = <<>> THEN s
      ELSE [s EXCEPT !.graph = arc_node_set_cyclic_order(@, n, order)]
parse_cmd_node ==
  /\ Line("node")
  /\ LET x == word[2]
         kind == word[3]
         r == find_region(Parsing, word[4])
         n == Len(graph.nodes) + 1
         new == [graph |-> arc_graph_add_node(graph, kind, r),
                 names |-> [names EXCEPT !.nodes = Append(@, [name |-> x, id |-> n])]]
         attrs == [new EXCEPT !.graph.nodes[n].attr = word[5],
                              !.graph.nodes[n].bodies = Bodies(Parsing, kind, word[6]),
                              !.graph.nodes[n].listed = word[7] # <<>> \/ word[8] # <<>>]
         ports == add_default_ports(attrs, x, n, default_ports(kind))
         ordered == [ports EXCEPT !.graph = arc_node_set_cyclic_order(@, n, add_binary_order(kind, @.nodes[n].ports))]
     IN  IF r = Invalid THEN perr
         ELSE /\ Becomes(parse_cyclic_spec(add_ports(ordered, x, n, word[7]), x, n, word[8]))
              /\ Parsed /\ UNCHANGED <<arch, geo>>

\* edge from to, both a node and a role: an argument's port is made when the
\* first edge leads to it.
parse_cmd_edge ==
  /\ Line("edge")
  /\ LET from == word[2]
         to == word[3]
         n == find_node(Parsing, to[1])
         s == IF to[2] \in {"arg0", "item0"} /\ n # Invalid THEN add_ports(Parsing, to[1], n, <<to[2]>>)
              ELSE Parsing
         a == find_port(Parsing, from[1], from[2])
         b == find_port(s, to[1], to[2])
     IN  IF a = Invalid \/ b = Invalid
         THEN had_error' = TRUE /\ Becomes(s) /\ UNCHANGED <<lines, arch, geo, report>>
         ELSE /\ Becomes([s EXCEPT !.graph = arc_graph_add_edge(@, a, b)])
              /\ Parsed /\ UNCHANGED <<arch, geo>>

\* root name role: an output node behind that port; without a role the node
\* itself is the output; what is unknown is ignored.
parse_cmd_root ==
  /\ Line("root")
  /\ LET n == find_node(Parsing, word[2])
         src == find_port(Parsing, word[2], word[3])
         out == Len(graph.nodes) + 1
         g == arc_graph_add_port(arc_graph_add_node(graph, "ROOT_OUTPUT", graph.nodes[n].region), out, "input")
     IN  graph' = IF n = Invalid THEN graph
                  ELSE IF word[3] = NotGiven THEN [graph EXCEPT !.output_node = n]
                  ELSE IF src = Invalid THEN graph
                  ELSE [arc_graph_add_edge(g, src, Len(g.ports)) EXCEPT !.output_node = out]
  /\ Parsed /\ UNCHANGED <<names, arch, geo>>

\* sealed region; capability region effect: both make the region sealed, and
\* nothing is added beyond the limit.
find_arch_region(r) == SelectInSeq(arch.sealed, LAMBDA e : e.region = r)
arc_arch_spec_add_sealed(r, caps) ==
  IF Len(arch.sealed) >= ARC_ARCH_MAX_REGIONS THEN arch
  ELSE [arch EXCEPT !.sealed = Append(@, [region |-> r, capabilities |-> caps])]
Declare(r, caps) ==
  LET i == find_arch_region(r) IN
  IF r = Invalid THEN perr
  ELSE /\ arch' = IF i > 0 THEN [arch EXCEPT !.sealed[i].capabilities = @ \cup caps]
                  ELSE arc_arch_spec_add_sealed(r, caps)
       /\ Parsed /\ UNCHANGED <<graph, names, geo>>
parse_cmd_sealed == Line("sealed") /\ Declare(find_region(Parsing, word[2]), {})
ArcEffects == {"Clock", "Logger", "Network", "Filesystem", "Hardware", "Input"}
parse_cmd_capability ==
  /\ Line("capability")
  /\ IF word[3] \in ArcEffects THEN Declare(find_region(Parsing, word[2]), {word[3]}) ELSE perr

arc_arch_spec_add_channel(r, s) ==
  IF Len(arch.channels) >= ARC_ARCH_MAX_CHANNELS THEN arch ELSE [arch EXCEPT !.channels = Append(@, <<r, s>>)]
parse_cmd_channel ==
  /\ Line("channel")
  /\ LET r == find_region(Parsing, word[2])
         s == find_region(Parsing, word[3])
     IN  IF r = Invalid \/ s = Invalid THEN perr
         ELSE arch' = arc_arch_spec_add_channel(r, s) /\ Parsed /\ UNCHANGED <<graph, names, geo>>

\* circle region center radius; position node point.
arc_geo_add_circle(l, c) ==
  IF Len(l.circles) >= ARC_GEO_MAX_CIRCLES THEN l ELSE [l EXCEPT !.circles = Append(@, c)]
arc_geo_add_position(l, n, p) ==
  IF Len(l.positions) >= ARC_GEO_MAX_NODES THEN l
  ELSE [l EXCEPT !.positions = Append(@, [id |-> n, pos |-> p])]
parse_cmd_circle ==
  /\ Line("circle")
  /\ LET r == find_region(Parsing, word[2]) IN
     IF r = Invalid THEN perr
     ELSE /\ geo' = arc_geo_add_circle(geo, [region |-> r, center |-> word[3], radius |-> word[4]])
          /\ Parsed /\ UNCHANGED <<graph, names, arch>>
parse_cmd_position ==
  /\ Line("position")
  /\ LET n == find_node(Parsing, word[2]) IN
     IF n = Invalid THEN perr
     ELSE /\ geo' = arc_geo_add_position(geo, n, word[3])
          /\ Parsed /\ UNCHANGED <<graph, names, arch>>

Commands == {"region", "node", "edge", "root", "sealed", "capability", "channel", "circle", "position"}
parse_line ==
  \/ parse_cmd_region \/ parse_cmd_node \/ parse_cmd_edge \/ parse_cmd_root \/ parse_cmd_sealed
  \/ parse_cmd_capability \/ parse_cmd_channel \/ parse_cmd_circle \/ parse_cmd_position
  \/ lines # <<>> /\ ~ had_error /\ Head(lines)[1] \notin Commands /\ perr
Success == lines = <<>> /\ ~ had_error

-----------------------------------------------------------------------------
(* Validation of a graph.                                                  *)

\* The region, its parent, and so on, as many steps up as there are regions.
Above(g, r) ==
  LET up[i \in 0 .. Len(g.regions)] ==
        IF i = 0 THEN r ELSE IF up[i - 1] \in DOMAIN g.regions THEN g.regions[up[i - 1]].parent ELSE Invalid
  IN  up
validate_regions(g) ==
  \A r \in DOMAIN g.regions :
    /\ g.regions[r].parent \in DOMAIN g.regions \cup {Invalid}
    /\ \A i \in 1 .. Len(g.regions) : Above(g, r)[i] # r
validate_nodes(g) ==
  \A i \in DOMAIN g.nodes :
    LET n == g.nodes[i] IN
    /\ n.region \in DOMAIN g.regions
    /\ n.cyclic_order # <<>> =>
         /\ Len(n.cyclic_order) = Len(n.ports)
         /\ ToSet(n.cyclic_order) \subseteq ToSet(n.ports)
Directed(g) ==
  \A i \in DOMAIN g.edges :
    g.ports[g.edges[i][1]].dir = "output" /\ g.ports[g.edges[i][2]].dir = "input"
validate_edges_and_ports(g) ==
  /\ \A i \in DOMAIN g.edges : {g.edges[i][1], g.edges[i][2]} \subseteq DOMAIN g.ports
  /\ Directed(g)
  /\ \A p \in DOMAIN g.ports : g.ports[p].owner \in DOMAIN g.nodes
arc_graph_validate(g) ==
  g.root_region # Invalid /\ validate_regions(g) /\ validate_nodes(g) /\ validate_edges_and_ports(g)

-----------------------------------------------------------------------------
(* Regions from circles.                                                   *)

Delta(p, q) == <<p[1] - q[1], p[2] - q[2]>>
Square(d) == d[1] * d[1] + d[2] * d[2]
\* The distance to the centre against radius - epsilon and radius + epsilon.
arc_geo_containment(c, p) ==
  LET d2 == Square(Delta(p, c.center))
      below == c.radius - ARC_GEO_EPSILON
      above == c.radius + ARC_GEO_EPSILON
  IN  IF (below < 0 \/ d2 > below * below) /\ d2 < above * above THEN "ambiguous"
      ELSE IF d2 < c.radius * c.radius THEN "inside" ELSE "outside"

\* The last member takes the place of the one removed.
KeepMember(g, r, n) == g   \* mutant of remove_from_region
remove_from_region(g, r, n) ==
  LET m == g.regions[r].members
      i == SelectInSeq(m, LAMBDA x : x = n)
  IN  IF i = 0 THEN g ELSE [g EXCEPT !.regions[r].members = Front([m EXCEPT ![i] = Last(m)])]

\* The first of the smallest circles around the point.
CirclesAround(layout, p) ==
  {i \in DOMAIN layout.circles : arc_geo_containment(layout.circles[i], p) = "inside"}
Outermost(layout, p) ==   \* mutant of find_innermost_region
  LET in == CirclesAround(layout, p)
      Radius(i) == layout.circles[i].radius
      best == CHOOSE i \in in :
                \A j \in in : Radius(i) > Radius(j) \/ (Radius(i) = Radius(j) /\ i <= j)
  IN  IF in = {} THEN Invalid ELSE layout.circles[best].region
find_innermost_region(layout, p) ==
  LET in == CirclesAround(layout, p)
      Radius(i) == layout.circles[i].radius
      best == CHOOSE i \in in :
                \A j \in in : Radius(i) < Radius(j) \/ (Radius(i) = Radius(j) /\ i <= j)
  IN  IF in = {} THEN Invalid ELSE layout.circles[best].region
Ambiguous(layout, p) == \E i \in DOMAIN layout.circles : arc_geo_containment(layout.circles[i], p) = "ambiguous"

\* One node after another; the first ambiguous one ends the derivation, and
\* those before it have moved.
Place(layout, s, np) ==
  LET r == find_innermost_region(layout, np.pos)
      out == remove_from_region(s.graph, s.graph.nodes[np.id].region, np.id)
  IN  IF ~ s.valid \/ np.id \notin DOMAIN s.graph.nodes THEN s
      ELSE IF Ambiguous(layout, np.pos) THEN [s EXCEPT !.valid = FALSE]
      ELSE IF r = Invalid THEN s
      ELSE [s EXCEPT !.graph = arc_region_add_member([out EXCEPT !.nodes[np.id].region = r], r, np.id),
                     !.members = Append(@, [node |-> np.id, region |-> r])]
derive_regions(g, layout) ==
  LET after[i \in 0 .. Len(layout.positions)] ==
        IF i = 0 THEN [graph |-> g, valid |-> TRUE, members |-> <<>>]
        ELSE Place(layout, after[i - 1], layout.positions[i])
  IN  IF layout.circles = <<>> THEN after[0] ELSE after[Len(layout.positions)]

arc_geo_verify_consistency(g, members) ==
  \A i \in DOMAIN members : g.nodes[members[i].node].region = members[i].region

arc_geo_derive_regions ==
  /\ Success
  /\ LET d == derive_regions(graph, geo) IN
     /\ graph' = d.graph
     /\ report' = [op |-> "derive", before |-> graph, valid |-> d.valid, members |-> d.members]
  /\ UNCHANGED <<lines, had_error, names, arch, geo>>

\* Derives from the two layouts in turn, and compares the regions of the nodes
\* that were placed, by their places in the two lists.  The circles of the second
\* layout are of regions that exist, which the code does not look at.
CirclesKnown(g, layout) == \A i \in DOMAIN layout.circles : layout.circles[i].region \in DOMAIN g.regions
SameCount(s, t) == Len(s) = Len(t)   \* mutant of SamePlaces
SamePlaces(s, t) == Len(s) = Len(t) /\ \A i \in DOMAIN s : s[i].region = t[i].region
arc_geo_deformation_stable ==
  /\ Success
  /\ \E after \in {l \in Deformations : CirclesKnown(graph, l)} :
       LET b == derive_regions(graph, geo)
           a == derive_regions(b.graph, after)
           stable == b.valid /\ a.valid /\ SamePlaces(b.members, a.members)
       IN  /\ graph' = IF b.valid THEN a.graph ELSE b.graph
           /\ report' = [op |-> "deformation", before |-> b.graph, after |-> after, stable |-> stable]
  /\ UNCHANGED <<lines, had_error, names, arch, geo>>

-----------------------------------------------------------------------------
(* The cyclic order of a region's members around a centre.                 *)

\* A node that is positioned twice counts where it is positioned first.
find_node_pos(layout, n) == SelectInSeq(layout.positions, LAMBDA np : np.id = n)

\* The angle between two directions, across the jump from pi to -pi too, is less
\* than epsilon.
TooClose(d, e) ==
  LET dot == d[1] * e[1] + d[2] * e[2]
      cross == IF Cross(d, e) < 0 THEN - Cross(d, e) ELSE Cross(d, e)
  IN  dot > 0 /\ cross * AngleCotangent < dot

\* Refused when a member is at the centre, when fewer than two have a position,
\* and when neighbours in the sorted order, the last and the first among them, are
\* too close.
arc_geo_derive_cyclic_order(g, layout, r, center) ==
  LET placed == SelectSeq(g.regions[r].members, LAMBDA n : find_node_pos(layout, n) # 0)
      D(n) == Delta(layout.positions[find_node_pos(layout, n)].pos, center)
      taken == SubSeq(placed, 1, Min({Len(placed), ARC_CYCLIC_MAX_MEMBERS}))
      order == SortSeq(taken, LAMBDA m, n : compare_angles(D(m), D(n)))
      ok == /\ \A i \in DOMAIN placed : i <= Len(taken) + 1 => Square(D(placed[i])) >= 1
            /\ Len(taken) >= 2
            /\ \A i \in DOMAIN order : ~ TooClose(D(order[i]), D(order[(i % Len(order)) + 1]))
  IN  [valid |-> ok, members |-> IF ok THEN order ELSE <<>>]

Turned(members, n, by) ==
  LET i == SelectInSeq(members, LAMBDA x : x = n) IN
  IF i = 0 THEN Invalid ELSE members[((i - 1 + by) % Len(members)) + 1]
arc_cyclic_next(members, n) == Turned(members, n, 1)
arc_cyclic_prev(members, n) == Turned(members, n, Len(members) - 1)
arc_cyclic_adjacent(members, a, b) == arc_cyclic_next(members, a) = b \/ arc_cyclic_prev(members, a) = b

Next == parse_line \/ arc_geo_derive_regions \/ arc_geo_deformation_stable
Spec == Init /\ [][Next]_vars

-----------------------------------------------------------------------------
(* Properties.                                                             *)

RegionIds == DOMAIN graph.regions
NodeIds == DOMAIN graph.nodes
PortIds == DOMAIN graph.ports

\* A node is listed once, and only by the region it says it is in, whatever
\* derivations were made, refused or not: remove_from_region and
\* arc_region_add_member are two steps that must stay together (containment.c:149).
\* Regions list nodes that exist, edges connect ports that exist, and a port is
\* listed by the node that owns it.
MembersMatch ==
  /\ \A n \in NodeIds, r \in RegionIds :
       Cardinality({i \in DOMAIN graph.regions[r].members : graph.regions[r].members[i] = n})
         = (IF graph.nodes[n].region = r THEN 1 ELSE 0)
  /\ \A r \in RegionIds : ToSet(graph.regions[r].members) \subseteq NodeIds
  /\ \A n \in NodeIds : graph.nodes[n].region \in RegionIds
  /\ \A i \in DOMAIN graph.edges : ToSet(graph.edges[i]) \subseteq PortIds
  /\ \A p \in PortIds : p \in ToSet(graph.nodes[graph.ports[p].owner].ports)

\* What the default ports and cyclic orders of the parser build
\* (fixture_parser.c:114), validation accepts (semantic_graph.c:196), before
\* and after derivations, if edges lead from an output to an input, no line
\* lists ports or their order itself, and no argument leads to a binary node.
ListsPorts ==
  \E n \in NodeIds : graph.nodes[n].listed \/ (graph.nodes[n].kind \in {"BINARY", "CHAN_SEND"} /\ Len(graph.nodes[n].ports) # 3)
ParsedValidates ==
  Success /\ graph.regions # <<>> /\ ~ ListsPorts /\ Directed(graph) => arc_graph_validate(graph)

\* After a derivation that was not refused, a node that lies in circles is in
\* the region of one of the smallest of them, where its last position is, and every
\* other node is where it was (containment.c:87).
Around(layout, p) == {c \in ToSet(layout.circles) : arc_geo_containment(c, p) = "inside"}
LastPosition(layout, n) == SelectLastInSeq(layout.positions, LAMBDA np : np.id = n)
Settled(layout, n) ==
  layout.circles # <<>> /\ LastPosition(layout, n) # 0 /\ Around(layout, layout.positions[LastPosition(layout, n)].pos) # {}
InnermostOwner ==
  report.op = "derive" /\ report.valid =>
    /\ \A n \in NodeIds :
         LET in == Around(geo, geo.positions[LastPosition(geo, n)].pos) IN
         Settled(geo, n) =>
           \E c \in in : c.region = graph.nodes[n].region /\ \A d \in in : c.radius <= d.radius
    /\ \A n \in NodeIds \ {geo.positions[i].id : i \in DOMAIN geo.positions} :
         graph.nodes[n].region = report.before.nodes[n].region
    /\ IsInjective([i \in DOMAIN geo.positions |-> geo.positions[i].id]) =>
         arc_geo_verify_consistency(graph, report.members)

\* The cyclic order of a region is that of the directions alone: from each
\* member, the next one is met first on turning counter-clockwise, with north at
\* +y as in tests/test_cyclic_order.c, wherever atan2 starts to count and however
\* derivations have shuffled the members (cyclic_order.c:76).  No two members, be
\* they neighbours or not, are within epsilon of each other.
OrderFromAngles ==
  Success =>
    \A i \in DOMAIN geo.circles :
      LET center == geo.circles[i].center
          o == arc_geo_derive_cyclic_order(graph, geo, geo.circles[i].region, center)
          D(n) == Delta(geo.positions[find_node_pos(geo, n)].pos, center)
          S == ToSet(o.members)
      IN  o.valid =>
            \A m \in S :
              LET n == arc_cyclic_next(o.members, m) IN
              /\ n # m /\ arc_cyclic_prev(o.members, n) = m
              /\ \A x \in S \ {m, n} : MetBefore(D(m), D(n), D(x))
              /\ \A x \in S \ {m} : ~ TooClose(D(m), D(x))
              /\ arc_cyclic_adjacent(o.members, n, m)

\* A deformation said to be stable moves no node that lies in a circle of both
\* layouts to another region, if no node is positioned twice and the layouts list
\* the same nodes in the same order, all of them in circles (containment.c:186).
Listed(layout) == [i \in DOMAIN layout.positions |-> layout.positions[i].id]
StableSound ==
  report.op = "deformation" /\ report.stable /\ Listed(geo) = Listed(report.after) /\ IsInjective(Listed(geo))
    /\ (\A i \in DOMAIN Listed(geo) : Settled(geo, Listed(geo)[i]) /\ Settled(report.after, Listed(geo)[i]))
    => \A n \in NodeIds : graph.nodes[n].region = report.before.nodes[n].region

-----------------------------------------------------------------------------
(* What the comments and documents say; the code does not keep it.         *)

\* src/geometry/cyclic_order.h: arc_cyclic_next gives the "next member clockwise
\* after node".  With north at +y, it is the one met first on turning clockwise.
NextIsClockwise ==
  Success =>
    \A i \in DOMAIN geo.circles :
      LET center == geo.circles[i].center
          o == arc_geo_derive_cyclic_order(graph, geo, geo.circles[i].region, center)
          D(n) == Delta(geo.positions[find_node_pos(geo, n)].pos, center)
          S == ToSet(o.members)
      IN  \A m \in S :
            LET n == arc_cyclic_next(o.members, m) IN
            \A x \in S \ {m, n} : MetBefore(D(m), D(x), D(n))

\* src/geometry/containment.c: the membership derived from the second layout is
\* checked to match the first, so a deformation said to be stable leaves every node
\* in its region.
StableAlwaysSound ==
  report.op = "deformation" /\ report.stable =>
    \A n \in NodeIds : graph.nodes[n].region = report.before.nodes[n].region

\* docs/design/experiment-2a-findings.md: "as long as no node crosses a boundary,
\* all semantics are preserved": after a deformation said to be stable, regions
\* list the members they listed before it, in the order in which the compiler
\* compiles them (compile_nodes.c:106).
StableKeepsProgram ==
  report.op = "deformation" /\ report.stable =>
    \A r \in RegionIds : graph.regions[r].members = report.before.regions[r].members
=============================================================================
