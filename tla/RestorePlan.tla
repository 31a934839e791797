---------------------------- MODULE RestorePlan ----------------------------
(***************************************************************************)
(* What a restore writes onto a Cluster (internal/restore/plan.go, skip.go *)
(* and transform.go, internal/snapshot/pathcheck.go and denylist.go).      *)
(*                                                                         *)
(* A dotted path is the sequence of its words.  A leaf is a sequence of    *)
(* segments, each a sequence of words: the key of a label, an annotation   *)
(* or a GUC is one segment and may contain dots.  Rules are written and    *)
(* matched as dotted paths, values are written by segments.  A tree maps   *)
(* leaves to values; an object without fields is a leaf too.               *)
(***************************************************************************)
EXTENDS Naturals, SequencesExt

CONSTANTS
    Groups,         \* the paths of every capture group
    MetadataGroup,  \* the group that covers labels and annotations as well
    Maps,           \* the paths NamesMap answers for
    MetadataMaps,   \* metadata.labels and metadata.annotations
    Fields,         \* the other paths that resolve in ClusterSpec
    DeniedPaths, DeniedKeys,
    EmptyMap,       \* the value {}
    Invalid,        \* an expression that does not compile
    Fails,          \* result of one that cannot be evaluated
    Evaluate(_, _, _),  \* result of an expression for a leaf and its value
    None

-----------------------------------------------------------------------------
(* Paths.                                                                  *)

(* Leaf.Path                                                               *)
Dotted(leaf) == FlattenSeq(leaf)

(* path = top or strings.HasPrefix(path, top + ".")                        *)
Within(path, top) == IsPrefix(top, path)

(* A trailing ".*" is dropped where skip rules are compiled and where any  *)
(* rule's path is validated, and kept where transforms are looked up.      *)
TrimWildcard(path) == IF Last(path) = "*" THEN Front(path) ELSE path

IsDeniedPath(path) == \E denied \in DeniedPaths : Within(path, denied)

IsDeniedMetadataKey(key) == key \in DeniedKeys

IsDeniedMetadataLeaf(leaf) ==
    /\ Len(leaf) = 3
    /\ leaf[1] \o leaf[2] \in MetadataMaps
    /\ IsDeniedMetadataKey(leaf[3])

NamesMap(path) == path \in Maps

(* EnclosingMap finds a map that the path reaches into.                    *)
NamesKey(path) == \E map \in Maps : IsStrictPrefix(map, path)

IsDenied(leaf) == IsDeniedPath(Dotted(leaf)) \/ IsDeniedMetadataLeaf(leaf)

WithinCaptureGroups(path) ==
    \E group \in DOMAIN Groups : \E claimed \in Groups[group] :
        Within(path, claimed) \/ Within(claimed, path)

(* The walk through ClusterSpec stops at the first map.                    *)
ResolvesInClusterSpec(path) ==
    path \in Fields \/ \E map \in Maps \ MetadataMaps : Within(path, map)

ValidateRulePath(path) ==
    LET trimmed == TrimWildcard(path)
    IN  /\ ~IsDeniedPath(trimmed)
        /\ \/ trimmed = <<"metadata">>
           \/ \E map \in MetadataMaps : Within(trimmed, map)
           \/ WithinCaptureGroups(trimmed) /\ ResolvesInClusterSpec(trimmed)

-----------------------------------------------------------------------------
(* Rules.  A skip rule names a group or a path; keys is the set of keys    *)
(* that keyPrefix and except leave to it, when it has either.  A transform *)
(* has a path, an expression and its onMissing.                            *)

GroupPaths(group) ==
    Groups[group] \union (IF group = MetadataGroup THEN MetadataMaps ELSE {})

Paths == Seq(STRING)

(* The walk that finds a map does not go on beneath it, so no map lies in  *)
(* another, and no group reaches into one.                                 *)
ASSUME PathAssumption ==
    /\ \A map \in Maps : map \in Paths /\ \A other \in Maps : ~IsStrictPrefix(map, other)
    /\ \A group \in DOMAIN Groups : \A top \in GroupPaths(group) :
          top \in Paths \ {<<>>} /\ Last(top) # "*" /\ ~NamesKey(top)

SkipRuleUsable(rule) ==
    \/ rule.group # None /\ rule.path = None /\ rule.keys = None
       /\ rule.group \in DOMAIN Groups
    \/ rule.group = None /\ rule.path # None
       /\ (rule.keys # None => NamesMap(TrimWildcard(rule.path)))

(* Mutant: every path rule takes in what is beneath it, map keys as well.  *)
MatchesBeneathKeys(rule, path) ==
    IF rule.group # None
    THEN \E top \in GroupPaths(rule.group) : Within(path, top)
    ELSE /\ Within(path, TrimWildcard(rule.path))
         /\ rule.keys # None =>
                SubSeq(path, Len(TrimWildcard(rule.path)) + 1, Len(path)) \in rule.keys

(* skipRule.matches                                                        *)
Matches(rule, path) ==
    IF rule.group # None
    THEN \E top \in GroupPaths(rule.group) : Within(path, top)
    ELSE LET top == TrimWildcard(rule.path)
         IN  IF rule.keys # None
             THEN Within(path, top) /\ SubSeq(path, Len(top) + 1, Len(path)) \in rule.keys
             ELSE IF NamesKey(top) THEN path = top ELSE Within(path, top)

Skips(skips, path) == \E rule \in skips : Matches(rule, path)

(* NewTransformSet                                                         *)
TransformsUsable(transforms) ==
    /\ \A t \in transforms : t.expression # Invalid
    /\ \A t, u \in transforms : t.path = u.path => t = u

CompileRules(skips, transforms) ==
    /\ \A rule \in skips : SkipRuleUsable(rule)
    /\ TransformsUsable(transforms)
    /\ \A t \in transforms : ~Skips(skips, t.path)
    /\ \A rule \in skips : rule.path # None => ValidateRulePath(rule.path)
    /\ \A t \in transforms : ValidateRulePath(t.path)

-----------------------------------------------------------------------------
(* BuildPlan, from the tree of a snapshot.                                 *)

Restorable(tree, skips) ==
    {leaf \in DOMAIN tree : ~IsDenied(leaf) /\ ~Skips(skips, Dotted(leaf))}

Fired(tree, skips, t) ==
    \E leaf \in Restorable(tree, skips) : Dotted(leaf) = t.path

(* TransformSet.Apply                                                      *)
Transformed(tree, leaf, transforms) ==
    IF \E t \in transforms : t.path = Dotted(leaf)
    THEN LET t == CHOOSE u \in transforms : u.path = Dotted(leaf)
         IN  Evaluate(t.expression, leaf, tree[leaf])
    ELSE tree[leaf]

(* Mutant: a rule that tolerates absence tolerates everything.             *)
IgnoreUnfired(tree, skips, transforms) ==
    \A t \in transforms : Fired(tree, skips, t) \/ t.ignoreMissing

CheckAllFired(tree, skips, transforms) ==
    \A t \in transforms :
        \/ Fired(tree, skips, t)
        \/ /\ t.ignoreMissing
           /\ \A leaf \in DOMAIN tree :
                 ~(Dotted(leaf) = t.path /\ ~IsDenied(leaf))
                 /\ ~IsStrictPrefix(t.path, Dotted(leaf))

PlanSucceeds(tree, skips, transforms) ==
    /\ \A leaf \in Restorable(tree, skips) : Transformed(tree, leaf, transforms) # Fails
    /\ CheckAllFired(tree, skips, transforms)

(* Mutant: values are written by splitting the dotted path again.          *)
ChangesByPath(tree, skips, transforms) ==
    [path \in {[i \in DOMAIN Dotted(leaf) |-> <<Dotted(leaf)[i]>>] :
                   leaf \in Restorable(tree, skips)} |->
        Transformed(tree, CHOOSE leaf \in Restorable(tree, skips) :
                              Dotted(leaf) = FlattenSeq(path), transforms)]

(* The changes of the plan.                                                *)
Changes(tree, skips, transforms) ==
    [leaf \in Restorable(tree, skips) |-> Transformed(tree, leaf, transforms)]

-----------------------------------------------------------------------------
(* Plan.Apply: SetSegments creates the objects on the way, fails on any    *)
(* other value there, and replaces what stands at the leaf.                *)

Blocked(target, changes) ==
    \E leaf \in DOMAIN changes, held \in DOMAIN target :
        IsStrictPrefix(held, leaf) /\ target[held] # EmptyMap

(* Mutant: an object is restored as a whole.                               *)
OutsideObjects(target, changes) ==
    {held \in DOMAIN target :
        \A leaf \in DOMAIN changes : ~IsPrefix(Front(leaf), held) /\ ~IsPrefix(held, leaf)}

Survivors(target, changes) ==
    {held \in DOMAIN target :
        \A leaf \in DOMAIN changes : ~IsPrefix(leaf, held) /\ ~IsPrefix(held, leaf)}

Apply(target, changes) ==
    [leaf \in DOMAIN changes \union Survivors(target, changes) |->
        IF leaf \in DOMAIN changes THEN changes[leaf] ELSE target[leaf]]

-----------------------------------------------------------------------------
(* How a reader takes a rule's path: fields up to a map, then one key.     *)

Reading(path) ==
    IF NamesKey(path)
    THEN LET map == CHOOSE m \in Maps : IsStrictPrefix(m, path)
         IN  [i \in 1 .. Len(map) + 1 |->
                 IF i <= Len(map) THEN <<map[i]>> ELSE SubSeq(path, Len(map) + 1, Len(path))]
    ELSE [i \in 1 .. Len(path) |-> <<path[i]>>]

(* What the documentation says a path covers, and a rule.                  *)
Covers(path, leaf) == IsPrefix(Reading(TrimWildcard(path)), leaf)

RuleCovers(rule, leaf) ==
    \/ rule.group # None /\ \E top \in GroupPaths(rule.group) : Covers(top, leaf)
    \/ /\ rule.path # None
       /\ Covers(rule.path, leaf)
       /\ rule.keys # None => Last(leaf) \in rule.keys
=============================================================================
