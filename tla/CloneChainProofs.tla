-------------------------- MODULE CloneChainProofs ---------------------------
(***************************************************************************)
(* What captures and restores carry from Cluster to Cluster, for every     *)
(* tree, every choice of groups, every policy and every number of clones.  *)
(* Types and scaling are those of the expressions the plugin evaluates:    *)
(* Bound says that RestorePlan's Evaluate is EvaluateAt.                   *)
(***************************************************************************)
EXTENDS CloneChain, TLAPS

(* A capture holds nothing of what CloudNativePG owned in the release that *)
(* took it.                                                                *)
CaptureClean(s) ==
    /\ s.release \in Releases
    /\ \A leaf \in DOMAIN s.tree :
          leaf \in Leaves /\ ~IsFixed(leaf, FixedParameters[s.release])

OriginTyped(o) ==
    o \in [snapshot : {o.snapshot}, transforms : {o.transforms}, restored : {o.restored}]

ChainInv ==
    /\ release \in Releases
    /\ DOMAIN cluster \subseteq Leaves
    /\ snapshot # None => CaptureClean(snapshot)
    /\ origin # None => OriginTyped(origin)
    /\ OwnedStaysHome

-----------------------------------------------------------------------------

(* What Extract keeps: leaves of the tree that are neither denied nor fixed*)
(* and lie under the groups, or in the metadata when that is captured.     *)
LEMMA ExtractKeeps ==
    ASSUME NEW tree, DOMAIN tree \subseteq Leaves, NEW groups \in SUBSET DOMAIN Groups,
           NEW r \in Releases
    PROVE  LET captured == Extract(tree, groups, FixedParameters[r])
           IN  \A leaf \in DOMAIN captured :
                  /\ leaf \in DOMAIN tree /\ leaf \in Leaves
                  /\ ~IsDenied(leaf)
                  /\ ~IsFixed(leaf, FixedParameters[r])
<1> DEFINE fixed == FixedParameters[r]
           captured == Extract(tree, groups, fixed)
<1> SUFFICES ASSUME NEW leaf \in DOMAIN captured
             PROVE  /\ leaf \in DOMAIN tree /\ leaf \in Leaves
                    /\ ~IsDenied(leaf)
                    /\ ~IsFixed(leaf, fixed)
  OBVIOUS
<1>1. \/ leaf \in FilterGUCs(Allowed(tree, groups), fixed)
      \/ leaf \in FilterMetadata(tree)
  BY DEF Extract
<1>2. CASE leaf \in FilterGUCs(Allowed(tree, groups), fixed)
  <2>1. leaf \in Allowed(tree, groups) /\ ~IsFixed(leaf, fixed)
    BY <1>2 DEF FilterGUCs
  <2>2. /\ leaf \in DOMAIN tree /\ ~IsDeniedPath(Dotted(leaf))
        /\ \E group \in DOMAIN Groups : \E path \in Groups[group] : Beneath(leaf, path)
    BY <2>1 DEF Allowed
  <2> QED
    BY <2>1, <2>2, LeafAssumption DEF IsDenied
<1>3. CASE leaf \in FilterMetadata(tree)
  <2>1. /\ leaf \in DOMAIN tree /\ ~IsDeniedMetadataLeaf(leaf)
        /\ \E map \in MetadataMaps : Beneath(leaf, map)
    BY <1>3 DEF FilterMetadata
  <2> QED
    BY <2>1, LeafAssumption DEF IsDenied
<1> QED
  BY <1>1, <1>2, <1>3

-----------------------------------------------------------------------------

LEMMA ChainInvInit == Init => ChainInv
BY ChainAssumption DEF Init, ChainInv, Leaves, OwnedStaysHome

LEMMA ChainInvStep == ChainInv /\ [Next]_vars => ChainInv'
<1> SUFFICES ASSUME ChainInv, [Next]_vars PROVE ChainInv'
  OBVIOUS
<1>1. ASSUME NEW edit \in Edits, EditCluster(edit.leaf, edit.value) PROVE ChainInv'
  <2> DEFINE with(tree) == [l \in DOMAIN tree \union {edit.leaf} |->
                               IF l = edit.leaf THEN edit.value ELSE tree[l]]
  <2>1. /\ cluster' = with(cluster) /\ own' = with(own)
        /\ origin' = IF origin = None THEN None
                     ELSE [origin EXCEPT !.restored = @ \ {edit.leaf}]
        /\ UNCHANGED <<release, snapshot, clones>>
    BY <1>1 DEF EditCluster
  <2>2. edit.leaf \in Leaves
    BY DEF Leaves
  <2>3. DOMAIN cluster' \subseteq Leaves
    BY <2>1, <2>2 DEF ChainInv
  <2>4. origin' # None => /\ origin # None /\ origin'.snapshot = origin.snapshot
                         /\ OriginTyped(origin')
    BY <2>1 DEF ChainInv, OriginTyped
  <2>5. OwnedStaysHome'
    <3> SUFFICES ASSUME origin' # None, NEW leaf \in DOMAIN cluster',
                        IsDenied(leaf) \/ IsFixed(leaf, FixedParameters[origin'.snapshot.release])
                 PROVE  leaf \in DOMAIN own' /\ cluster'[leaf] = own'[leaf]
      BY DEF OwnedStaysHome
    <3>1. leaf # edit.leaf => leaf \in DOMAIN cluster /\ leaf \in DOMAIN own
                              /\ cluster[leaf] = own[leaf]
      BY <2>1, <2>4 DEF ChainInv, OwnedStaysHome
    <3> QED
      BY <2>1, <3>1
  <2> QED
    BY <2>1, <2>3, <2>4, <2>5 DEF ChainInv, CaptureClean, OriginTyped
<1>2. CASE Upgrade
  BY <1>2 DEF Upgrade, ChainInv, CaptureClean, OriginTyped, OwnedStaysHome
<1>3. ASSUME NEW groups \in Selections, CaptureCluster(groups) PROVE ChainInv'
  <2>1. groups \in SUBSET DOMAIN Groups /\ release \in Releases /\ DOMAIN cluster \subseteq Leaves
    BY ChainAssumption DEF ChainInv
  <2>2. /\ snapshot'.tree = Extract(cluster, groups, FixedParameters[release])
        /\ snapshot'.release = release
    BY <1>3 DEF CaptureCluster
  <2>3. CaptureClean(snapshot')
    BY <2>1, <2>2, ExtractKeeps DEF CaptureClean
  <2> QED
    BY <1>3, <2>3 DEF CaptureCluster, ChainInv, CaptureClean, OriginTyped, OwnedStaysHome
<1>4. ASSUME NEW manifest \in Manifests, NEW rules \in Policies, CloneCluster(manifest, rules)
      PROVE  ChainInv'
  <2> DEFINE changes == Changes(snapshot.tree, rules.skips, rules.transforms)
  <2>1. /\ snapshot # None /\ cluster' = Apply(manifest, changes) /\ own' = manifest
        /\ origin' = [snapshot |-> snapshot, transforms |-> rules.transforms,
                      restored |-> DOMAIN changes]
        /\ snapshot' = None /\ release' = release
    BY <1>4 DEF CloneCluster
  <2>2. CaptureClean(snapshot)
    BY <2>1 DEF ChainInv
  <2>3. \A leaf \in DOMAIN changes : leaf \in DOMAIN snapshot.tree /\ ~IsDenied(leaf)
    BY DEF Changes, Restorable
  <2> HIDE DEF changes
  <2>4. \A leaf \in DOMAIN cluster' :
           \/ leaf \in DOMAIN changes
           \/ leaf \in DOMAIN manifest /\ cluster'[leaf] = manifest[leaf]
    BY <2>1 DEF Apply, Survivors
  <2>5. DOMAIN cluster' \subseteq Leaves
    BY <2>2, <2>3, <2>4 DEF CaptureClean, Leaves
  <2>6. origin'.snapshot = snapshot /\ OriginTyped(origin')
    BY <2>1 DEF OriginTyped
  <2>7. OwnedStaysHome'
    BY <2>1, <2>2, <2>3, <2>4, <2>6 DEF OwnedStaysHome, CaptureClean
  <2> QED
    BY <2>1, <2>5, <2>6, <2>7 DEF ChainInv, OriginTyped
<1>5. CASE UNCHANGED vars
  BY <1>5 DEF vars, ChainInv, CaptureClean, OriginTyped, OwnedStaysHome
<1> QED
  BY <1>1, <1>2, <1>3, <1>4, <1>5 DEF Next

LEMMA ChainInvariant == Spec => []ChainInv
BY ChainInvInit, ChainInvStep, PTL DEF Spec

-----------------------------------------------------------------------------
(* Results.                                                                *)

(* What belongs to one Cluster stays with it, however many clones, edits   *)
(* and upgrades of the plugin lie between: Extract drops the GUCs of the   *)
(* release that captures, and BuildPlan what is denied.                    *)
THEOREM ChainOwnedStaysHome == Spec => []OwnedStaysHome
<1>1. ChainInv => OwnedStaysHome
  BY DEF ChainInv
<1> QED
  BY <1>1, ChainInvariant, PTL

(* A clone without rules is captured as its source was: what Extract keeps *)
(* BuildPlan does not drop, and a second Extract neither.                  *)
THEOREM ChainRoundTrip == Spec => []RoundTrip
<1>1. ChainInv => RoundTrip
  <2> SUFFICES ASSUME ChainInv, NEW groups \in Selections
               PROVE  LET captured == Extract(cluster, groups, FixedParameters[release])
                          clone == Apply([leaf \in {} |-> None], Changes(captured, {}, {}))
                      IN  Extract(clone, groups, FixedParameters[release]) = captured
    BY DEF RoundTrip
  <2> DEFINE fixed == FixedParameters[release]
             captured == Extract(cluster, groups, fixed)
             changes == Changes(captured, {}, {})
             clone == Apply([leaf \in {} |-> None], changes)
             again == Extract(clone, groups, fixed)
             KeptOf(tree) ==
                 {leaf \in FilterGUCs(Allowed(tree, groups), fixed)
                           \union (IF MetadataGroup \in groups THEN FilterMetadata(tree) ELSE {}) :
                     leaf = Libraries => FilterLibraries(tree[leaf]) # List({})}
             Sanitized(tree, leaf) ==
                 IF leaf = Libraries THEN FilterLibraries(tree[leaf]) ELSE tree[leaf]
  <2>1. \A leaf \in DOMAIN captured : ~IsDenied(leaf)
    BY ChainAssumption, ExtractKeeps DEF ChainInv
  <2>2. captured = [leaf \in KeptOf(cluster) |-> Sanitized(cluster, leaf)]
    BY DEF Extract
  <2>3. again = [leaf \in KeptOf(clone) |-> Sanitized(clone, leaf)]
    BY DEF Extract
  <2>4. changes = captured
    <3> HIDE DEF captured
    <3>1. Restorable(captured, {}) = DOMAIN captured
      BY <2>1 DEF Restorable, Skips
    <3>2. \A leaf : Transformed(captured, leaf, {}) = captured[leaf]
      BY DEF Transformed
    <3>3. captured = [leaf \in DOMAIN captured |-> captured[leaf]]
      BY <2>2
    <3> QED
      BY <3>1, <3>2, <3>3 DEF Changes
  <2>5. clone = captured
    <3> HIDE DEF captured, changes
    <3>1. Survivors([leaf \in {} |-> None], changes) = {}
      BY DEF Survivors
    <3>2. captured = [leaf \in DOMAIN captured |-> captured[leaf]]
      BY <2>2
    <3> QED
      BY <2>4, <3>1, <3>2 DEF Apply
  <2> HIDE DEF captured, changes, clone, again
  <2>6. ASSUME NEW leaf \in KeptOf(cluster)
        PROVE  leaf \in KeptOf(captured) /\ Sanitized(captured, leaf) = Sanitized(cluster, leaf)
    <3>1. leaf \in DOMAIN captured /\ captured[leaf] = Sanitized(cluster, leaf)
      BY <2>2, <2>6
    <3>2. leaf \in FilterGUCs(Allowed(cluster, groups), fixed)
          => leaf \in FilterGUCs(Allowed(captured, groups), fixed)
      BY <3>1 DEF FilterGUCs, Allowed
    <3>3. leaf \in FilterMetadata(cluster) => leaf \in FilterMetadata(captured)
      BY <3>1 DEF FilterMetadata
    <3>4. FilterLibraries(FilterLibraries(cluster[leaf])) = FilterLibraries(cluster[leaf])
      BY DEF FilterLibraries, List
    <3>5. leaf = Libraries => FilterLibraries(captured[leaf]) = FilterLibraries(cluster[leaf])
      BY <3>1, <3>4
    <3> QED
      BY <2>6, <3>1, <3>2, <3>3, <3>5
  <2>7. ASSUME NEW leaf \in KeptOf(captured) PROVE leaf \in KeptOf(cluster)
    <3>1. leaf \in DOMAIN captured
      BY <2>7 DEF FilterGUCs, Allowed, FilterMetadata
    <3> QED
      BY <2>2, <3>1
  <2>8. KeptOf(captured) = KeptOf(cluster)
    BY <2>6, <2>7
  <2>9. again = captured
    BY <2>2, <2>3, <2>5, <2>6, <2>8
  <2> QED
    BY <2>9 DEF again, clone, changes, captured
<1> QED
  BY <1>1, ChainInvariant, PTL
-----------------------------------------------------------------------------
(* The types of fields.                                                    *)

(* Transforms are evaluated by CelEnv.                                     *)
Bound == \A e, leaf, value : Evaluate(e, leaf, value) = EvaluateAt(e, leaf, value)

Sound(leaf, value) == FieldTyped(leaf, value) /\ Readable(leaf, value)

TypeInv ==
    /\ \A leaf \in DOMAIN cluster : Sound(leaf, cluster[leaf])
    /\ release \in Releases
    /\ snapshot # None => /\ snapshot.release \in 1 .. release
                          /\ \A leaf \in DOMAIN snapshot.tree : Sound(leaf, snapshot.tree[leaf])
    /\ clones \in 0 .. MaxClones /\ edits \in 0 .. MaxEdits

Expressions == [fn : STRING, num : Int, den : Nat, binary : BOOLEAN]

Quantities == [cel : {"quantity"}, n : Int, binary : BOOLEAN]

(* Arithmetic.                                                             *)
LEMMA DivType == \A a \in Int, b \in Nat \ {0} : a \div b \in Int
OBVIOUS

LEMMA ConvertType ==
    ASSUME NEW a \in Int, NEW b \in Nat \ {0} PROVE Convert(a, b) \in Int
<1>1. a \div b \in Int /\ -((-a) \div b) \in Int
  BY DivType
<1> QED
  BY <1>1, ValueAssumption DEF Convert

LEMMA NoUnitDiffers == NoUnit \notin {"m", "k", "Ki", "B", "kB", "MB"}
BY Zenon DEF NoUnit

LEMMA Units ==
    /\ QuantityUnits[NoUnit] = 1 /\ QuantityUnits["k"] = 1000 /\ QuantityUnits["Ki"] = 1024
    /\ DOMAIN QuantityUnits = {NoUnit, "k", "Ki"}
BY NoUnitDiffers DEF QuantityUnits

LEMMA QuantityType ==
    ASSUME NEW n \in Int, NEW b \in BOOLEAN
    PROVE  /\ CelQuantity(n, b) \in Quantities /\ CelQuantity(n, b) # Fails
           /\ CelQuantity(n, b).cel = "quantity"
<1>1. CelQuantity(n, b) \in Quantities /\ CelQuantity(n, b).cel = "quantity"
  BY DEF CelQuantity, Quantities
<1> QED
  BY <1>1, ValueAssumption DEF Quantities

(* A text that ParseQuantity reads is a quantity.                          *)
LEMMA ParseType ==
    ASSUME NEW text, text.milli \in Int
    PROVE  /\ ParseQuantity(text) # Fails => ParseQuantity(text) \in Quantities
           /\ text.suffix \in {NoUnit, "m", "k", "Ki"} => ParseQuantity(text) # Fails
<1>2. CASE text.suffix = "m"
  <2> DEFINE whole == text.milli \div 1000
  <2>1. whole \in Int /\ FALSE \in BOOLEAN
    BY DivType
  <2>2. text.suffix \notin DOMAIN QuantityUnits
    BY <1>2, Units, NoUnitDiffers
  <2>3. ParseQuantity(text) = CelQuantity(whole, FALSE)
    BY <1>2, <2>2, Zenon DEF ParseQuantity
  <2> HIDE DEF whole
  <2> QED
    BY <2>1, <2>3, QuantityType, Zenon
<1>3. CASE text.suffix \in {NoUnit, "k", "Ki"}
  <2>1. ParseQuantity(text)
        = CelQuantity(text.milli * QuantityUnits[text.suffix], text.suffix = "Ki")
    BY <1>3, Units, NoUnitDiffers DEF ParseQuantity
  <2>2. QuantityUnits[text.suffix] \in Int
    <3>1. QuantityUnits[NoUnit] \in Int /\ QuantityUnits["k"] \in Int /\ QuantityUnits["Ki"] \in Int
      BY Units
    <3> QED
      BY <1>3, <3>1, Zenon
  <2>3. text.milli * QuantityUnits[text.suffix] \in Int
    BY <2>2
  <2>4. (text.suffix = "Ki") \in BOOLEAN
    OBVIOUS
  <2> QED
    BY <2>1, <2>3, <2>4, QuantityType
<1>4. CASE text.suffix \notin {NoUnit, "m", "k", "Ki"}
  <2>1. ParseQuantity(text) = Fails
    BY <1>4, Units, NoUnitDiffers DEF ParseQuantity
  <2> QED
    BY <1>4, <2>1
<1> QED
  BY <1>2, <1>3, <1>4

(* What Q.String writes is read again.                                     *)
LEMMA StringType ==
    ASSUME NEW q \in Quantities
    PROVE  /\ QuantityString(q).json = "string" /\ QuantityString(q).milli \in Int
           /\ QuantityString(q).suffix \in {NoUnit, "m", "k", "Ki"}
<1> DEFINE in(suffix) == Text(q.n \div QuantityUnits[suffix], suffix)
           divides(suffix) == q.n % (1000 * QuantityUnits[suffix]) = 0
           large == q.n >= 1024000 \/ q.n <= -1024000
           binary == q.binary /\ divides(NoUnit) /\ large
           Texts == [json : {"string"}, milli : Int, suffix : {NoUnit, "m", "k", "Ki"}]
<1>1. q.n \in Int
  BY DEF Quantities
<1>2. q.n \div 1 \in Int /\ q.n \div 1000 \in Int /\ q.n \div 1024 \in Int /\ q.n * 1000 \in Int
  BY <1>1, DivType
<1>3. in(NoUnit) \in Texts /\ in("k") \in Texts /\ in("Ki") \in Texts /\ Text(q.n * 1000, "m") \in Texts
  <2>1. \A m \in Int, suffix \in {NoUnit, "m", "k", "Ki"} : Text(m, suffix) \in Texts
    BY DEF Text
  <2> HIDE DEF Texts
  <2>2. in(NoUnit) \in Texts
    BY <1>2, <2>1, Units
  <2>3. in("k") \in Texts
    BY <1>2, <2>1, Units
  <2>4. in("Ki") \in Texts
    BY <1>2, <2>1, Units
  <2> QED
    BY <1>2, <2>1, <2>2, <2>3, <2>4
<1>4. QuantityString(q)
      = CASE q.n = 0      -> in(NoUnit)
          [] ~divides(NoUnit) -> Text(q.n * 1000, "m")
          [] binary       -> IF divides("Ki") THEN in("Ki") ELSE in(NoUnit)
          [] OTHER        -> IF divides("k") THEN in("k") ELSE in(NoUnit)
  BY SMT DEF QuantityString
<1>5. q.n = 0 => divides(NoUnit)
  <2>1. 1000 * QuantityUnits[NoUnit] = 1000
    BY Units
  <2> QED
    BY <2>1
<1>6. binary => divides(NoUnit) /\ q.n # 0
  <2>1. large => q.n # 0
    BY <1>1, SMT
  <2> HIDE DEF large, divides
  <2> QED
    BY <2>1, Zenon
<1> HIDE DEF in, divides, large, binary, Texts
<1>7. QuantityString(q) \in Texts
  BY <1>3, <1>4, <1>5, <1>6
<1> QED
  BY <1>7 DEF Texts

LEMMA WrappedType == \A n \in Int : Wrapped(n) \in Int
<1>1. IntLimit \in Nat \ {0}
  BY ValueAssumption
<1> QED
  BY <1>1, SMT DEF Wrapped

(* What an expression makes of a quantity is a quantity or a whole number. *)
LEMMA CallQuantity ==
    ASSUME NEW e \in Expressions, NEW old \in Quantities, Call(e, old) # Fails
    PROVE  Call(e, old) \in Quantities \/ \E k \in Int : Call(e, old) = CelInt(k)
<1>1. /\ old.cel = "quantity" /\ old.n \in Int /\ old.binary \in BOOLEAN
      /\ e.num \in Int /\ e.den \in Nat /\ e.binary \in BOOLEAN
  BY DEF Quantities, Expressions
<1>2. CASE e.fn = "scale"
  <2>1. Call(e, old) = Scale(old, e.num, e.den)
    BY <1>1, <1>2 DEF Call
  <2> DEFINE milli == Wrapped(old.n)
  <2>2. e.den # 0 /\ Scale(old, e.num, e.den) = CelQuantity(Convert(milli * e.num, e.den), old.binary)
    BY <2>1 DEF Scale
  <2>3. milli \in Int
    BY <1>1, WrappedType
  <2> HIDE DEF milli
  <2>4. milli * e.num \in Int /\ e.den \in Nat \ {0}
    BY <1>1, <2>2, <2>3
  <2> QED
    BY <1>1, <2>1, <2>2, <2>4, ConvertType, QuantityType
<1>3. CASE e.fn = "add"
  <2> DEFINE b == IF old.n = 0 THEN e.binary ELSE old.binary
  <2>1. Call(e, old) = CelQuantity(old.n + e.num, b)
    BY <1>1, <1>3 DEF Call
  <2>2. old.n + e.num \in Int /\ b \in BOOLEAN
    BY <1>1
  <2> HIDE DEF b
  <2> QED
    BY <2>1, <2>2, QuantityType
<1>4. CASE e.fn = "bytes"
  <2>1. Call(e, old) = CelInt(Wrapped(-((-old.n) \div 1000)))
    BY <1>1, <1>4 DEF Call
  <2>2. -((-old.n) \div 1000) \in Int
    BY <1>1, DivType
  <2>3. Wrapped(-((-old.n) \div 1000)) \in Int
    BY <2>2, WrappedType
  <2> QED
    BY <2>1, <2>3
<1>5. CASE e.fn \notin {"scale", "add", "bytes"}
  BY <1>1, <1>5 DEF Call
<1> QED
  BY <1>2, <1>3, <1>4, <1>5

LEMMA QuantityTyped ==
    ASSUME NEW leaf \in QuantityPaths, NEW value
    PROVE  FieldTyped(leaf, value) <=> value.json = "string" /\ ParseQuantity(value) # Fails
<1>1. leaf # Libraries /\ ~Beneath(leaf, Parameters)
  BY ValueAssumption
<1> QED
  BY <1>1 DEF FieldTyped

(* An expression gives a field a value of its type, or fails.              *)
LEMMA EvaluateSound ==
    ASSUME NEW e \in Expressions, NEW leaf, NEW value, Sound(leaf, value),
           EvaluateAt(e, leaf, value) # Fails
    PROVE  Sound(leaf, EvaluateAt(e, leaf, value))
<1> DEFINE old == ToCEL(value, leaf \in QuantityPaths)
           out == Call(e, old)
<1>1. old # Fails /\ out # Fails /\ EvaluateAt(e, leaf, value) = FromCEL(out, value)
  BY DEF EvaluateAt, EvaluateProgram
<1>2. CASE leaf \in QuantityPaths
  <2>1. value.json = "string" /\ ParseQuantity(value) # Fails /\ value.milli \in Int
    BY <1>2, QuantityTyped DEF Sound, Readable
  <2>2. old = ParseQuantity(value)
    BY <1>2, <2>1 DEF ToCEL
  <2>3. old \in Quantities
    BY <2>1, <2>2, ParseType
  <2> SUFFICES ASSUME NEW text, text = FromCEL(out, value)
               PROVE  /\ text.json = "string" /\ text.milli \in Int
                      /\ text.suffix \in {NoUnit, "m", "k", "Ki"}
    BY <1>1, <1>2, <2>1, ParseType, QuantityTyped DEF Sound, Readable
  <2> HIDE DEF old
  <2>4. out \in Quantities \/ \E k \in Int : out = CelInt(k)
    BY <1>1, <2>3, CallQuantity
  <2> HIDE DEF out
  <2>5. CASE out \in Quantities
    <3>1. FromCEL(out, value) = QuantityString(out)
      BY <2>5 DEF FromCEL, Quantities
    <3> QED
      BY <2>5, <3>1, StringType
  <2>6. ASSUME NEW k \in Int, out = CelInt(k)
        PROVE  /\ text.json = "string" /\ text.milli \in Int
               /\ text.suffix \in {NoUnit, "m", "k", "Ki"}
    <3>1. FromCEL(out, value) = [Number(k * 1000) EXCEPT !.json = value.json]
      BY <2>6 DEF FromCEL, CelInt
    <3>2. k * 1000 \in Int
      OBVIOUS
    <3> QED
      BY <2>1, <3>1, <3>2 DEF Number
  <2> QED
    BY <2>4, <2>5, <2>6
<1>3. CASE leaf \notin QuantityPaths
  <2>1. value.json \in {"string", "number"}
    BY <1>1, <1>3 DEF ToCEL
  <2>2. \/ old = CelString(value) /\ value.json = "string"
        \/ old = CelDouble(value.milli)
        \/ old = CelInt(value.milli \div 1000)
    BY <1>3, <2>1 DEF ToCEL, Sound, Readable
  <2> HIDE DEF old
  <2>3. \/ \E k : out = CelInt(k)
        \/ value.json = "string" /\ \E m, suffix : out = CelString(Text(m, suffix))
    <3>1. CASE old = CelString(value) /\ value.json = "string"
      <4>1. old.cel = "string" /\ old.text = value
        BY <3>1 DEF CelString
      <4>2. CASE e.fn = "pgScale"
        BY <1>1, <3>1, <4>1, <4>2 DEF Call, PgScale, FormatPgMemory
      <4>3. CASE e.fn = "pgMem"
        BY <1>1, <4>1, <4>3 DEF Call
      <4> QED
        BY <1>1, <4>1, <4>2, <4>3 DEF Call
    <3>2. CASE old = CelDouble(value.milli)
      <4>1. old.cel = "double"
        BY <3>2 DEF CelDouble
      <4> QED
        BY <1>1, <4>1 DEF Call
    <3>3. CASE old = CelInt(value.milli \div 1000)
      <4>1. old.cel = "int"
        BY <3>3 DEF CelInt
      <4> QED
        BY <1>1, <4>1 DEF Call
    <3> QED
      BY <2>2, <3>1, <3>2, <3>3
  <2> SUFFICES ASSUME NEW text, text = FromCEL(out, value)
               PROVE  text.json = value.json /\ (text.json = "number" => text.suffix = NoUnit)
    BY <1>1, <1>3 DEF Sound, FieldTyped, Readable
  <2> HIDE DEF out
  <2>4. ASSUME NEW k, out = CelInt(k)
        PROVE  text.json = value.json /\ (text.json = "number" => text.suffix = NoUnit)
    <3>1. text = [Number(k * 1000) EXCEPT !.json = value.json]
      BY <2>4 DEF FromCEL, CelInt
    <3> QED
      BY <3>1 DEF Number
  <2>5. ASSUME NEW m, NEW suffix, out = CelString(Text(m, suffix)), value.json = "string"
        PROVE  text.json = value.json /\ (text.json = "number" => text.suffix = NoUnit)
    <3>1. text = Text(m, suffix)
      BY <2>5 DEF FromCEL, CelString
    <3> QED
      BY <2>5, <3>1 DEF Text
  <2> QED
    BY <2>3, <2>4, <2>5
<1> QED
  BY <1>2, <1>3

LEMMA ExtractSound ==
    ASSUME NEW tree, \A leaf \in DOMAIN tree : Sound(leaf, tree[leaf]), NEW groups, NEW fixed
    PROVE  LET captured == Extract(tree, groups, fixed)
           IN  \A leaf \in DOMAIN captured : Sound(leaf, captured[leaf])
<1> DEFINE captured == Extract(tree, groups, fixed)
<1> SUFFICES ASSUME NEW leaf \in DOMAIN captured PROVE Sound(leaf, captured[leaf])
  OBVIOUS
<1>1. leaf \in FilterGUCs(Allowed(tree, groups), fixed) \/ leaf \in FilterMetadata(tree)
  BY DEF Extract
<1>2. leaf \in DOMAIN tree
  BY <1>1 DEF FilterGUCs, Allowed, FilterMetadata
<1>3. captured[leaf] = IF leaf = Libraries THEN FilterLibraries(tree[leaf]) ELSE tree[leaf]
  BY DEF Extract
<1>4. CASE leaf = Libraries
  <2>1. captured[leaf].json = "list"
    BY <1>3, <1>4 DEF FilterLibraries, List
  <2> HIDE DEF captured
  <2> QED
    BY <1>4, <2>1, ValueAssumption DEF Sound, FieldTyped, Readable
<1>5. CASE leaf # Libraries
  BY <1>2, <1>3, <1>5
<1> QED
  BY <1>4, <1>5

LEMMA TransformedSound ==
    ASSUME Bound, NEW rules \in Policies, TransformsUsable(rules.transforms), NEW tree, NEW leaf,
           Sound(leaf, tree[leaf]), Transformed(tree, leaf, rules.transforms) # Fails
    PROVE  Sound(leaf, Transformed(tree, leaf, rules.transforms))
<1>1. CASE \E t \in rules.transforms : t.path = Dotted(leaf)
  <2> DEFINE t == CHOOSE u \in rules.transforms : u.path = Dotted(leaf)
  <2>1. t \in rules.transforms
    BY <1>1
  <2>2. Transformed(tree, leaf, rules.transforms) = Evaluate(t.expression, leaf, tree[leaf])
    BY <1>1 DEF Transformed
  <2> HIDE DEF t
  <2>3. t.expression \in Expressions
    BY <2>1, ValueAssumption DEF TransformsUsable, Expressions
  <2> QED
    BY <2>2, <2>3, EvaluateSound DEF Bound
<1>2. CASE ~\E t \in rules.transforms : t.path = Dotted(leaf)
  BY <1>2 DEF Transformed
<1> QED
  BY <1>1, <1>2

LEMMA TypeInvInit == Init => TypeInv
BY ChainAssumption, ValueAssumption DEF Init, TypeInv, Sound

LEMMA TypeInvStep == Bound /\ TypeInv /\ [Next]_vars => TypeInv'
<1> SUFFICES ASSUME Bound, TypeInv, [Next]_vars PROVE TypeInv'
  OBVIOUS
<1> USE ChainAssumption
<1>1. ASSUME NEW edit \in Edits, EditCluster(edit.leaf, edit.value) PROVE TypeInv'
  <2>1. /\ cluster' = [l \in DOMAIN cluster \union {edit.leaf} |->
                          IF l = edit.leaf THEN edit.value ELSE cluster[l]]
        /\ edits < MaxEdits /\ edits' = edits + 1 /\ UNCHANGED <<release, snapshot, clones>>
    BY <1>1 DEF EditCluster
  <2>2. \A leaf \in DOMAIN cluster' : Sound(leaf, cluster'[leaf])
    BY <2>1, ValueAssumption DEF TypeInv, Sound
  <2>3. edits' \in 0 .. MaxEdits
    BY <2>1 DEF TypeInv
  <2> QED
    BY <2>1, <2>2, <2>3 DEF TypeInv
<1>2. CASE Upgrade
  <2>1. release' = release + 1 /\ release' \in Releases
        /\ UNCHANGED <<cluster, snapshot, clones, edits>>
    BY <1>2 DEF Upgrade
  <2>2. \A r \in 1 .. release : r \in 1 .. release'
    BY <2>1 DEF TypeInv
  <2> QED
    BY <2>1, <2>2 DEF TypeInv
<1>3. ASSUME NEW groups \in Selections, CaptureCluster(groups) PROVE TypeInv'
  <2>1. /\ snapshot'.tree = Extract(cluster, groups, FixedParameters[release])
        /\ snapshot'.release = release /\ UNCHANGED <<cluster, release, clones, edits>>
    BY <1>3 DEF CaptureCluster
  <2>2. \A leaf \in DOMAIN snapshot'.tree : Sound(leaf, snapshot'.tree[leaf])
    BY <2>1, ExtractSound DEF TypeInv
  <2>3. snapshot'.release \in 1 .. release'
    BY <2>1 DEF TypeInv
  <2> QED
    BY <2>1, <2>2, <2>3 DEF TypeInv
<1>4. ASSUME NEW manifest \in Manifests, NEW rules \in Policies, CloneCluster(manifest, rules)
      PROVE  TypeInv'
  <2> DEFINE changes == Changes(snapshot.tree, rules.skips, rules.transforms)
  <2>1. /\ snapshot # None /\ snapshot' = None /\ cluster' = Apply(manifest, changes)
        /\ clones < MaxClones /\ clones' = clones + 1 /\ UNCHANGED <<release, edits>>
        /\ TransformsUsable(rules.transforms)
        /\ PlanSucceeds(snapshot.tree, rules.skips, rules.transforms)
    BY <1>4 DEF CloneCluster, CompileRules
  <2>2. ASSUME NEW leaf \in DOMAIN changes PROVE Sound(leaf, changes[leaf])
    <3>1. leaf \in Restorable(snapshot.tree, rules.skips)
      BY DEF Changes
    <3>2. /\ changes[leaf] = Transformed(snapshot.tree, leaf, rules.transforms)
          /\ changes[leaf] # Fails
      BY <2>1, <3>1 DEF Changes, PlanSucceeds
    <3>3. Sound(leaf, snapshot.tree[leaf])
      BY <2>1, <3>1 DEF TypeInv, Restorable
    <3> QED
      BY <2>1, <3>2, <3>3, TransformedSound
  <2>3. \A leaf \in DOMAIN manifest : Sound(leaf, manifest[leaf])
    BY ValueAssumption DEF Sound
  <2> HIDE DEF changes
  <2>4. \A leaf \in DOMAIN cluster' : Sound(leaf, cluster'[leaf])
    BY <2>1, <2>2, <2>3 DEF Apply, Survivors
  <2> QED
    BY <2>1, <2>4 DEF TypeInv
<1>5. CASE UNCHANGED vars
  BY <1>5 DEF vars, TypeInv
<1> QED
  BY <1>1, <1>2, <1>3, <1>4, <1>5 DEF Next

(* However many transforms a value comes through, every field keeps the    *)
(* type CloudNativePG gives it: what Q.String writes ParseQuantity reads,  *)
(* and FromCEL writes a number where the source held a string as a string. *)
THEOREM ChainTypes == ASSUME Bound PROVE Spec => []TypeOK
<1>1. TypeInv => TypeOK
  BY DEF TypeInv, TypeOK, Sound
<1>2. TypeInv /\ [Next]_vars => TypeInv'
  BY TypeInvStep
<1> QED
  BY <1>1, <1>2, TypeInvInit, PTL DEF Spec

-----------------------------------------------------------------------------
(* The scaling of memory settings.                                         *)

(* What a Cluster was restored with and no user has set since is what the  *)
(* plan made of the capture.                                               *)
OriginInv ==
    origin # None =>
        /\ OriginTyped(origin)
        /\ TransformsUsable(origin.transforms)
        /\ \A leaf \in origin.restored :
              /\ leaf \in DOMAIN cluster
              /\ cluster[leaf] = Transformed(origin.snapshot.tree, leaf, origin.transforms)
              /\ cluster[leaf] # Fails

(* A setting that pgScale reads without loss: it does not count bytes, and *)
(* with its factor it stays within an int64.  The factor does not take a   *)
(* unit to less than a byte.                                               *)
ScalesExactly(e, old) ==
    LET amount == old.milli \div 1000
        bytes == amount * PgMemoryUnits[old.suffix]
    IN  /\ old.milli \in Nat /\ old.suffix # "B" /\ amount < IntLimit
        /\ e.num \in Nat /\ e.den \in Nat \ {0}
        /\ e.num # 0 => e.den <= 1024 * e.num
        /\ old.suffix \in DOMAIN PgMemoryUnits => bytes < IntLimit /\ bytes * e.num < IntLimit * e.den

MemoryInRange ==
    origin # None =>
        \A t \in origin.transforms : \A leaf \in origin.restored :
            t.path = Dotted(leaf) /\ t.expression.fn = "pgScale" =>
                ScalesExactly(t.expression, origin.snapshot.tree[leaf])

LEMMA WrappedSmall == \A n \in Nat : n < IntLimit => Wrapped(n) = n
<1>1. \A x, y \in Nat : x < y => x % y = x
  BY SMT
<1> QED
  BY <1>1, ValueAssumption, SMT DEF Wrapped

LEMMA DivBounds ==
    ASSUME NEW a \in Nat, NEW b \in Nat \ {0}
    PROVE  /\ a \div b \in Nat /\ b * (a \div b) <= a /\ a < b * (a \div b) + b
BY SMT

LEMMA DivLess ==
    ASSUME NEW a \in Nat, NEW b \in Nat \ {0}, NEW n \in Nat, a < n * b PROVE a \div b < n
<1>1. a \div b \in Nat /\ b * (a \div b) <= a
  BY DivBounds
<1> QED
  BY <1>1, SMT

LEMMA ConvertSmall ==
    ASSUME NEW a \in Nat, NEW b \in Nat \ {0}, a < IntLimit * b
    PROVE  Convert(a, b) = a \div b /\ a \div b < IntLimit
<1>1. a \div b \in Nat /\ a \div b < IntLimit
  BY DivLess, DivBounds, ValueAssumption
<1> QED
  BY <1>1, ValueAssumption, SMT DEF Convert, IsInt

(* Both truncations, to whole bytes and to whole units, lose less than a   *)
(* unit.                                                                   *)
LEMMA ScaledBounds ==
    ASSUME NEW p \in Nat, NEW den \in Nat \ {0}, NEW u \in Nat \ {0},
           NEW bytes \in Nat, NEW m \in Nat,
           den * bytes <= p, p < den * bytes + den, u * m <= bytes, bytes < u * m + u
    PROVE  m * u * den <= p /\ p - m * u * den < den * u
<1> DEFINE s == bytes - u * m
<1>1. s \in Nat /\ s + 1 <= u /\ bytes = u * m + s
  BY SMT
<1>2. den * bytes = m * u * den + den * s
  BY <1>1, SMT
<1>3. den * s + den <= den * u /\ den * s \in Nat
  BY <1>1, SMT
<1> QED
  BY <1>2, <1>3, SMT

LEMMA PgUnits ==
    /\ DOMAIN PgMemoryUnits = {NoUnit, "B", "k", "kB", "m", "MB"}
    /\ \A suffix \in {"k", "kB", "m", "MB"} :
          /\ PgMemoryUnits[suffix] \in Nat /\ 1024 <= PgMemoryUnits[suffix]
          /\ PgMemoryUnits[CanonicalUnit(suffix)] = PgMemoryUnits[suffix]
          /\ CanonicalUnit(suffix) # NoUnit
BY NoUnitDiffers, SMT DEF PgMemoryUnits, CanonicalUnit

(* Which settings reach pgScale: those a text with a unit holds.           *)
LEMMA ReachesPgScale ==
    ASSUME NEW e, e.fn = "pgScale", NEW leaf, NEW old, ScalesExactly(e, old),
           EvaluateAt(e, leaf, old) # Fails
    PROVE  /\ old.suffix \in {"k", "kB", "m", "MB"}
           /\ PgScale(old, e.num, e.den) # Fails
           /\ EvaluateAt(e, leaf, old) = FromCEL(PgScale(old, e.num, e.den), old)
<1> DEFINE bound == ToCEL(old, leaf \in QuantityPaths)
<1>1. bound # Fails /\ Call(e, bound) # Fails
      /\ EvaluateAt(e, leaf, old) = FromCEL(Call(e, bound), old)
  BY DEF EvaluateAt, EvaluateProgram
<1>2. bound.cel = "string" /\ Call(e, bound) = PgScale(bound.text, e.num, e.den)
  <2> HIDE DEF bound
  <2> QED
    BY <1>1 DEF Call
<1>3. leaf \notin QuantityPaths
  <2> SUFFICES ASSUME leaf \in QuantityPaths PROVE FALSE
    OBVIOUS
  <2>1. bound = ParseQuantity(old)
    BY <1>1 DEF ToCEL
  <2>2. old.milli \in Int
    BY DEF ScalesExactly
  <2>3. bound \in Quantities
    BY <1>1, <2>1, <2>2, ParseType
  <2> HIDE DEF bound
  <2> QED
    BY <1>2, <2>3 DEF Quantities
<1>4. old.suffix # NoUnit
  <2> SUFFICES ASSUME old.suffix = NoUnit PROVE FALSE
    OBVIOUS
  <2>1. old.milli \div 1000 \in Nat /\ old.milli \div 1000 < IntLimit
    BY DivBounds DEF ScalesExactly
  <2>2. IsInt(old.milli \div 1000)
    BY <2>1, ValueAssumption, SMT DEF IsInt
  <2>3. bound = CelDouble(old.milli) \/ bound = CelInt(old.milli \div 1000)
    BY <1>1, <1>3, <2>2 DEF ToCEL
  <2> HIDE DEF bound
  <2> QED
    BY <1>2, <2>3 DEF CelDouble, CelInt
<1>5. bound = CelString(old)
  BY <1>1, <1>3, <1>4 DEF ToCEL
<1>6. bound.text = old
  <2> HIDE DEF bound
  <2> QED
    BY <1>5 DEF CelString
<1> HIDE DEF bound
<1>7. PgScale(old, e.num, e.den) # Fails
  BY <1>1, <1>2, <1>6
<1>8. old.suffix \in DOMAIN PgMemoryUnits
  BY <1>7 DEF PgScale, IsPgMemory
<1> QED
  BY <1>1, <1>2, <1>4, <1>6, <1>7, <1>8, PgUnits DEF ScalesExactly

LEMMA PgScaleExact ==
    ASSUME NEW e, e.fn = "pgScale", NEW leaf, NEW old, ScalesExactly(e, old),
           NEW new, new = EvaluateAt(e, leaf, old), new # Fails
    PROVE  LET exact == PgBytes(old) * e.num
               now == PgBytes(new) * e.den
           IN  /\ now <= exact
               /\ exact - now < e.den * PgMemoryUnits[old.suffix]
               /\ exact # 0 => now # 0
<1>1. /\ old.suffix \in {"k", "kB", "m", "MB"}
      /\ PgScale(old, e.num, e.den) # Fails
      /\ new = FromCEL(PgScale(old, e.num, e.den), old)
  BY ReachesPgScale
<1>2. PICK u \in Nat \ {0} : /\ u = PgMemoryUnits[old.suffix] /\ 1024 <= u
                             /\ u = PgMemoryUnits[CanonicalUnit(old.suffix)]
                             /\ CanonicalUnit(old.suffix) # NoUnit
  BY <1>1, PgUnits
<1>3. PICK num \in Nat, den \in Nat \ {0} :
         num = e.num /\ den = e.den /\ (num # 0 => den <= 1024 * num)
  BY DEF ScalesExactly
<1>4. PICK a \in Nat : a = old.milli \div 1000
  BY DivBounds DEF ScalesExactly
<1>5. a * u \in Nat /\ a * u < IntLimit /\ (a * u) * num \in Nat /\ (a * u) * num < IntLimit * den
  BY <1>1, <1>2, <1>3, <1>4, PgUnits DEF ScalesExactly
<1>6. PICK p \in Nat : p = (a * u) * num
  BY <1>5
<1>7. PICK bytes \in Nat : /\ bytes = Convert(p, den) /\ bytes < IntLimit
                           /\ den * bytes <= p /\ p < den * bytes + den
  BY <1>5, <1>6, ConvertSmall, DivBounds
<1>8. bytes < IntLimit * u
  BY <1>7, <1>2, ValueAssumption, SMT
<1>9. PICK m \in Nat : /\ m = Convert(bytes, u)
                       /\ u * m <= bytes /\ bytes < u * m + u
  BY <1>8, ConvertSmall, DivBounds
<1>10. ParsePgMemory(old) = a * u
  BY <1>2, <1>4, <1>5, WrappedSmall DEF ParsePgMemory
<1>11. PgScale(old, e.num, e.den) = FormatPgMemory(bytes, old.suffix)
  BY <1>1, <1>3, <1>6, <1>7, <1>10 DEF PgScale
<1>12. /\ ~(m = 0 /\ bytes # 0)
       /\ FormatPgMemory(bytes, old.suffix) = CelString(Text(m * 1000, CanonicalUnit(old.suffix)))
  <2> DEFINE text == CelString(Text(m * 1000, CanonicalUnit(old.suffix)))
  <2>1. FormatPgMemory(bytes, old.suffix) = IF m = 0 /\ bytes # 0 THEN Fails ELSE text
    <3>1. m = Convert(bytes, PgMemoryUnits[old.suffix])
      BY <1>2, <1>9
    <3> QED
      BY <3>1, SMT DEF FormatPgMemory
  <2> HIDE DEF text
  <2>2. ~(m = 0 /\ bytes # 0)
    BY <1>1, <1>11, <2>1
  <2> QED
    BY <2>1, <2>2 DEF text
<1>13. new = Text(m * 1000, CanonicalUnit(old.suffix))
  <2>1. \A text : FromCEL(CelString(text), old) = text
    BY DEF FromCEL, CelString
  <2> QED
    BY <1>1, <1>11, <1>12, <2>1
<1>14. (m * 1000) \div 1000 = m
  BY SMT
<1>15. PgBytes(new) = m * u
  BY <1>2, <1>13, <1>14 DEF PgBytes, Text
<1>16. PgBytes(old) = a * u
  BY <1>1, <1>2, <1>4, NoUnitDiffers DEF PgBytes
<1>17. m * u * den <= p /\ p - m * u * den < den * u
  BY <1>7, <1>9, ScaledBounds
<1>18. p # 0 => m * u * den # 0
  <2> SUFFICES ASSUME p # 0 PROVE m * u * den # 0
    OBVIOUS
  <2>1. a # 0 /\ num # 0
    BY <1>6, SMT
  <2>2. u <= a * u
    BY <2>1, SMT
  <2>3. 1024 * num <= p
    BY <1>2, <1>6, <2>1, <2>2, SMT
  <2>4. den <= p
    BY <1>3, <2>1, <2>3, SMT
  <2>5. bytes # 0
    BY <1>7, <2>4, SMT
  <2>6. m # 0
    BY <1>12, <2>5
  <2> QED
    BY <2>6, SMT
<1> QED
  BY <1>2, <1>3, <1>6, <1>15, <1>16, <1>17, <1>18

-----------------------------------------------------------------------------

LEMMA OriginInvStep == OriginInv /\ [Next]_vars => OriginInv'
<1> SUFFICES ASSUME OriginInv, [Next]_vars, origin' # None
             PROVE  /\ OriginTyped(origin')
                    /\ TransformsUsable(origin'.transforms)
                    /\ \A leaf \in origin'.restored :
                          /\ leaf \in DOMAIN cluster'
                          /\ cluster'[leaf]
                             = Transformed(origin'.snapshot.tree, leaf, origin'.transforms)
                          /\ cluster'[leaf] # Fails
  BY DEF OriginInv
<1> DEFINE Kept == /\ OriginTyped(origin')
                   /\ TransformsUsable(origin'.transforms)
                   /\ \A leaf \in origin'.restored :
                         /\ leaf \in DOMAIN cluster'
                         /\ cluster'[leaf]
                            = Transformed(origin'.snapshot.tree, leaf, origin'.transforms)
                         /\ cluster'[leaf] # Fails
<1>1. ASSUME NEW edit \in Edits, EditCluster(edit.leaf, edit.value) PROVE Kept
  <2>1. /\ cluster' = [l \in DOMAIN cluster \union {edit.leaf} |->
                          IF l = edit.leaf THEN edit.value ELSE cluster[l]]
        /\ origin' = IF origin = None THEN None
                     ELSE [origin EXCEPT !.restored = @ \ {edit.leaf}]
    BY <1>1 DEF EditCluster
  <2>2. /\ OriginTyped(origin) /\ TransformsUsable(origin.transforms)
        /\ \A leaf \in origin.restored :
              /\ leaf \in DOMAIN cluster
              /\ cluster[leaf] = Transformed(origin.snapshot.tree, leaf, origin.transforms)
              /\ cluster[leaf] # Fails
    BY <2>1 DEF OriginInv
  <2>3. /\ origin'.snapshot = origin.snapshot /\ origin'.transforms = origin.transforms
        /\ origin'.restored = origin.restored \ {edit.leaf} /\ OriginTyped(origin')
    BY <2>1, <2>2 DEF OriginTyped
  <2>4. \A leaf \in origin'.restored : leaf \in DOMAIN cluster' /\ cluster'[leaf] = cluster[leaf]
    BY <2>1, <2>2, <2>3
  <2> QED
    BY <2>2, <2>3, <2>4
<1>2. CASE UNCHANGED <<cluster, origin>>
  BY <1>2 DEF OriginInv
<1>3. ASSUME NEW manifest \in Manifests, NEW rules \in Policies, CloneCluster(manifest, rules)
      PROVE  Kept
  <2> DEFINE changes == Changes(snapshot.tree, rules.skips, rules.transforms)
  <2>1. /\ cluster' = Apply(manifest, changes)
        /\ origin' = [snapshot |-> snapshot, transforms |-> rules.transforms,
                      restored |-> DOMAIN changes]
        /\ TransformsUsable(rules.transforms)
        /\ PlanSucceeds(snapshot.tree, rules.skips, rules.transforms)
    BY <1>3 DEF CloneCluster, CompileRules
  <2>2. ASSUME NEW leaf \in DOMAIN changes
        PROVE  /\ changes[leaf] = Transformed(snapshot.tree, leaf, rules.transforms)
               /\ changes[leaf] # Fails
    BY <2>1 DEF Changes, PlanSucceeds
  <2> HIDE DEF changes
  <2>3. \A leaf \in DOMAIN changes : leaf \in DOMAIN cluster' /\ cluster'[leaf] = changes[leaf]
    BY <2>1 DEF Apply
  <2>4. /\ origin'.snapshot = snapshot /\ origin'.transforms = rules.transforms
        /\ origin'.restored = DOMAIN changes /\ OriginTyped(origin')
    BY <2>1 DEF OriginTyped
  <2> QED
    BY <2>1, <2>2, <2>3, <2>4
<1> QED
  BY <1>1, <1>2, <1>3 DEF Next, Upgrade, CaptureCluster, vars

LEMMA OriginInvariant == Spec => []OriginInv
<1>1. Init => OriginInv
  BY DEF Init, OriginInv
<1> QED
  BY <1>1, OriginInvStep, PTL DEF Spec

(* A memory setting that was scaled, clone by clone, means for PostgreSQL  *)
(* what the factor says, to less than one unit, and is never turned off,   *)
(* as long as settings and products stay within an int64.                  *)
THEOREM ChainMemoryScales ==
    ASSUME Bound PROVE Spec /\ []MemoryInRange => []MemoryScales
<1>1. OriginInv /\ MemoryInRange => MemoryScales
  <2> SUFFICES ASSUME OriginInv, MemoryInRange, origin # None,
                      NEW t \in origin.transforms, NEW leaf \in origin.restored,
                      t.path = Dotted(leaf), t.expression.fn = "pgScale"
               PROVE  LET old == origin.snapshot.tree[leaf]
                          exact == PgBytes(old) * t.expression.num
                          now == PgBytes(cluster[leaf]) * t.expression.den
                      IN  /\ now <= exact
                          /\ exact - now < t.expression.den * PgMemoryUnits[old.suffix]
                          /\ exact # 0 => now # 0
    BY DEF MemoryScales
  <2>1. (CHOOSE u \in origin.transforms : u.path = Dotted(leaf)) = t
    BY DEF OriginInv, TransformsUsable
  <2>2. /\ cluster[leaf] = Transformed(origin.snapshot.tree, leaf, origin.transforms)
        /\ cluster[leaf] # Fails
    BY DEF OriginInv
  <2>3. cluster[leaf] = EvaluateAt(t.expression, leaf, origin.snapshot.tree[leaf])
    BY <2>1, <2>2 DEF Transformed, Bound
  <2>4. ScalesExactly(t.expression, origin.snapshot.tree[leaf])
    BY DEF MemoryInRange
  <2> QED
    BY <2>2, <2>3, <2>4, PgScaleExact
<1> QED
  BY <1>1, OriginInvariant, PTL
=============================================================================
