---------------------------- MODULE Architecture ----------------------------
(***************************************************************************)
(* The architecture verifier (src/verifier/architecture.c): what the code  *)
(* of a sealed region may do is within its capabilities, and what leads    *)
(* from one sealed region to another goes through a declared channel.      *)
(***************************************************************************)
EXTENDS Layout

CONSTANT Collect(_, _)      \* collect_region_effects, by the configuration

arc_node_effect(kind) == IF kind = "PRINT" THEN {"Logger"} ELSE {}
arc_intrinsic_effect(id) ==
  CASE id = "print" -> {"Logger"} [] id = "clock" -> {"Clock"} [] id = "input" -> {"Input"} [] OTHER -> {}

find_sealed_ancestor(g, spec, r) ==
  LET Sealed(x) == \E i \in DOMAIN spec.sealed : spec.sealed[i].region = x
      up == {i \in DOMAIN Above(g, r) : Sealed(Above(g, r)[i])}
  IN  IF up = {} THEN Invalid ELSE Above(g, r)[Min(up)]

find_func_def(g, name) ==
  SelectInSeq(g.nodes, LAMBDA n : n.kind = "FUNC_DEF" /\ n.attr = name)

\* The regions a node leads to: the body of a function that is called or
\* spawned, and the blocks of a statement.
CallsOnly(g, n) ==   \* mutant of LeadsTo: threads are forgotten
  LET f == find_func_def(g, n.attr) IN
  CASE n.kind = "FUNC_CALL" -> IF f = 0 THEN <<>> ELSE g.nodes[f].bodies
    [] n.kind \in {"IF", "WHILE", "CYCLE", "TRY"} -> n.bodies
    [] OTHER -> <<>>
LeadsTo(g, n) ==
  LET f == find_func_def(g, n.attr) IN
  CASE n.kind \in {"FUNC_CALL", "THREAD_SPAWN"} -> IF f = 0 THEN <<>> ELSE g.nodes[f].bodies
    [] n.kind \in {"IF", "WHILE", "CYCLE", "TRY"} -> n.bodies
    [] OTHER -> <<>>

DirectEffects(n) ==
  arc_node_effect(n.kind) \cup IF n.kind = "INTRINSIC_CALL" THEN arc_intrinsic_effect(n.attr) ELSE {}

Children(g, r) == SelectSeq([x \in DOMAIN g.regions |-> x], LAMBDA x : g.regions[x].parent = r)

\* Depth first; s holds the regions visited and the effects met so far.  A
\* function is entered once, which is what visiting its body once comes to.
RECURSIVE visit(_, _, _)
visit(g, s, r) ==
  IF r = Invalid \/ r \in s.visited THEN s
  ELSE LET Member(t, n) ==
             FoldLeft(LAMBDA u, x : visit(g, u, x),
                      [t EXCEPT !.effects = @ \cup DirectEffects(g.nodes[n])],
                      LeadsTo(g, g.nodes[n]))
           members == FoldLeft(Member, [s EXCEPT !.visited = @ \cup {r}], g.regions[r].members)
       IN  FoldLeft(LAMBDA t, x : visit(g, t, x), members, Children(g, r))
collect_region_effects(g, r) == visit(g, [visited |-> {}, effects |-> {}], r).effects

has_channel(spec, a, b) ==
  \E i \in DOMAIN spec.channels : spec.channels[i] \in {<<a, b>>, <<b, a>>}

verify_effects(g, spec) ==
  \A i \in DOMAIN spec.sealed : Collect(g, spec.sealed[i].region) \subseteq spec.sealed[i].capabilities

\* Only edges between two sealed regions are looked at.
Owner(g, p) == g.nodes[g.ports[p].owner].region
verify_boundaries(g, spec) ==
  \A i \in DOMAIN g.edges :
    LET from == find_sealed_ancestor(g, spec, Owner(g, g.edges[i][1]))
        to == find_sealed_ancestor(g, spec, Owner(g, g.edges[i][2]))
    IN  from = to \/ Invalid \in {from, to} \/ has_channel(spec, from, to)

arc_arch_verify(g, spec) == verify_effects(g, spec) /\ verify_boundaries(g, spec)

-----------------------------------------------------------------------------
(* Properties.                                                             *)

\* The regions that code in the regions S may run next, by the regions that
\* nodes say they are in: those inside, the blocks of statements, and the bodies
\* of functions that are named by a call or by a thread.
In(S) == {graph.nodes[n] : n \in {m \in NodeIds : graph.nodes[m].region \in S}}
Steps(S) ==
  S \cup {x \in RegionIds : graph.regions[x].parent \in S}
    \cup UNION {ToSet(n.bodies) : n \in {m \in In(S) : m.kind # "FUNC_DEF"}}
    \cup UNION {ToSet(graph.nodes[f].bodies) :
                 f \in {find_func_def(graph, n.attr) : n \in {m \in In(S) : m.kind \in {"FUNC_CALL", "THREAD_SPAWN"}}} \ {0}}
MayRun(r) ==
  LET S[k \in 0..Len(graph.regions)] == IF k = 0 THEN {r} ELSE Steps(S[k - 1]) \ {Invalid}
  IN  S[Len(graph.regions)]

\* The verdict is exact, also after nodes were moved: the effects are accepted if
\* and only if nothing that a sealed region's code may come to run, through blocks,
\* inner regions, calls and spawned threads, has an effect the region does not
\* declare (architecture.c:130, 222); and in an accepted program two sealed regions
\* that an edge connects have a channel (architecture.c:242).
Exceeds(seal, n) ==
  /\ graph.nodes[n].region \in MayRun(seal.region)
  /\ ~ DirectEffects(graph.nodes[n]) \subseteq seal.capabilities
Ends(edge) == {graph.nodes[graph.ports[p].owner].region : p \in ToSet(edge)}
SealsExact ==
  Success =>
    /\ verify_effects(graph, arch) <=> ~ \E i \in DOMAIN arch.sealed, n \in NodeIds : Exceeds(arch.sealed[i], n)
    /\ verify_boundaries(graph, arch) =>
         \A e \in ToSet(graph.edges), k, l \in ToSet(arch.sealed) :
           k.region # l.region /\ Ends(e) = {k.region, l.region} =>
             \E c \in ToSet(arch.channels) : ToSet(c) = Ends(e)
=============================================================================
