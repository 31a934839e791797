----------------------- MODULE PolicyControllerProofs ------------------------
(***************************************************************************)
(* When the verdict on a policy can be trusted, for every number of pods,  *)
(* every set of rules and every number of edits and faults.                *)
(***************************************************************************)
EXTENDS PolicyController, TLAPS

(* Was the last change one that watches let through?                       *)
Announced ==
    \/ Len(versions) = 1
    \/ PassesPredicate(versions[Len(versions) - 1], versions[Len(versions)])

(* A pass carries the verdict on the version it is about, and a replica    *)
(* has listed the policy before it queues or patches it.                   *)
PassSound ==
    \A p \in Replicas :
        /\ p \in queue \/ pass[p] # None => seen[p] # 0
        /\ pass[p] # None =>
              /\ pass[p].version <= Len(versions)
              /\ versions[pass[p].version] # None
              /\ pass[p].verdict = Verdict(versions[pass[p].version].rules)

(* While the last change is one that watches let through, a replica that   *)
(* has seen it and does not have it in its queue finds nothing to do, or   *)
(* is about to patch the right verdict.                                    *)
AnnouncedHandled ==
    ~AllowLapse /\ Announced =>
        \A p \in Replicas :
            seen[p] = Len(versions) /\ p \notin queue =>
                Right \/ (pass[p] # None /\ pass[p].version = Len(versions))

(* After a patch, only overtaken can stand for a wrong verdict.            *)
PatchedRight == ~Announced /\ ~overtaken => Right

(* Generations of one policy do not decrease.                              *)
Increasing ==
    \A i, j \in 1 .. Len(versions) :
        i <= j /\ (\A k \in i .. j : versions[k] # None) => versions[i].gen <= versions[j].gen

PolicyInv == TypeOK /\ PassSound /\ AnnouncedHandled /\ PatchedRight /\ Increasing

-----------------------------------------------------------------------------

LEMMA PolicyInvInit == Init => PolicyInv
<1> SUFFICES ASSUME Init PROVE PolicyInv
  OBVIOUS
<1>1. PICK r \in Rules : versions = <<Policy(1, r, None)>>
  BY DEF Init
<1>2. Policy(1, r, None) \in Versions
  BY DEF Policy, Versions, Verdicts
<1>3. versions \in Seq(Versions) /\ Len(versions) = 1 /\ versions # <<>>
  BY <1>1, <1>2
<1>4. TypeOK
  <2>1. overtaken \in BOOLEAN
    BY Zenon DEF Init
  <2>2. /\ seen \in [Replicas -> 0 .. Len(versions)] /\ queue \subseteq Replicas
        /\ pass \in [Replicas -> [verdict : Verdicts, version : Nat \ {0}] \union {None}]
        /\ edits \in Nat /\ faults \in Nat
    BY <1>3 DEF Init
  <2> QED
    BY <1>3, <2>1, <2>2 DEF TypeOK
<1>5. Increasing
  <2>1. \A i, j \in 1 .. Len(versions) : i = 1 /\ j = 1
    BY <1>3
  <2>2. versions[1].gen <= versions[1].gen
    BY <1>1 DEF Policy
  <2> QED
    BY <2>1, <2>2 DEF Increasing
<1> QED
  BY <1>3, <1>4, <1>5 DEF Init, PolicyInv, PassSound, AnnouncedHandled, PatchedRight, Announced

(* The policy has a last version, and so has it after every change.        *)
LEMMA LastVersion ==
    ASSUME TypeOK
    PROVE  /\ Len(versions) \in Nat \ {0} /\ Current = versions[Len(versions)]
           /\ \A i \in 1 .. Len(versions) : versions[i] \in Versions
           /\ Current \in Versions
BY DEF TypeOK, Current, Last

LEMMA Appended ==
    ASSUME TypeOK, NEW version \in Versions, versions' = Append(versions, version)
    PROVE  /\ versions' \in Seq(Versions) /\ versions' # <<>>
           /\ Len(versions') = Len(versions) + 1
           /\ \A i \in 1 .. Len(versions) : versions'[i] = versions[i]
           /\ versions'[Len(versions) + 1] = version /\ Current' = version
<1>1. versions \in Seq(Versions) /\ Len(versions) \in Nat
  BY DEF TypeOK
<1>2. /\ versions' \in Seq(Versions) /\ versions' # <<>>
      /\ Len(versions') = Len(versions) + 1
      /\ \A i \in 1 .. Len(versions) : versions'[i] = versions[i]
      /\ versions'[Len(versions) + 1] = version
  BY <1>1
<1> QED
  BY <1>1, <1>2 DEF Current, Last

(* No version undercuts the generation of the one before it.               *)
LEMMA IncreasingKept ==
    ASSUME TypeOK, Increasing, NEW version \in Versions, versions' = Append(versions, version),
           Current # None /\ version # None => Current.gen <= version.gen
    PROVE  Increasing'
<1>1. /\ Len(versions') = Len(versions) + 1 /\ Len(versions) \in Nat \ {0}
      /\ \A i \in 1 .. Len(versions) : versions'[i] = versions[i] /\ versions[i] \in Versions
      /\ versions'[Len(versions) + 1] = version /\ Current = versions[Len(versions)]
  BY Appended, LastVersion
<1> SUFFICES ASSUME NEW i \in 1 .. Len(versions'), NEW j \in 1 .. Len(versions'), i <= j,
                    \A k \in i .. j : versions'[k] # None
             PROVE  versions'[i].gen <= versions'[j].gen
  BY DEF Increasing
<1>2. \A v \in Versions : v # None => v.gen \in Nat
  BY DEF Versions
<1>3. CASE j \in 1 .. Len(versions)
  <2>1. i \in 1 .. Len(versions) /\ \A k \in i .. j : k \in 1 .. Len(versions)
    BY <1>1, <1>3
  <2>2. \A k \in i .. j : versions[k] # None
    BY <1>1, <2>1
  <2>3. versions[i].gen <= versions[j].gen
    BY <1>3, <2>1, <2>2 DEF Increasing
  <2> QED
    BY <1>1, <1>3, <2>1, <2>3
<1>4. CASE j = Len(versions) + 1 /\ i \in 1 .. Len(versions)
  <2>1. \A k \in i .. Len(versions) : k \in i .. j /\ k \in 1 .. Len(versions)
    BY <1>1, <1>4
  <2>2. \A k \in i .. Len(versions) : versions[k] # None
    BY <1>1, <2>1
  <2>3. versions[i].gen <= Current.gen
    BY <1>1, <1>4, <2>2 DEF Increasing
  <2>4. i \in i .. Len(versions) /\ Len(versions) \in i .. Len(versions) /\ j \in i .. j
    BY <1>1, <1>4
  <2>5. Current # None /\ version # None /\ versions[i] # None
    BY <1>1, <1>4, <2>2, <2>4
  <2>6. versions[i].gen \in Nat /\ Current.gen \in Nat /\ version.gen \in Nat
    BY <1>1, <1>2, <1>4, <2>5
  <2> QED
    BY <1>1, <1>4, <2>3, <2>5, <2>6
<1>5. CASE i = Len(versions) + 1
  <2>1. j = i /\ i \in i .. j
    BY <1>1, <1>5
  <2>2. version.gen \in Nat
    BY <1>1, <1>2, <1>5, <2>1
  <2> QED
    BY <1>1, <1>5, <2>1, <2>2
<1> QED
  BY <1>1, <1>3, <1>4, <1>5

(* A change watches let through: nobody has seen it yet.                   *)
LEMMA EditKeeps ==
    ASSUME PolicyInv, NEW version \in Versions, Edit(version), PassesPredicate(Current, version),
           Current # None /\ version # None => Current.gen <= version.gen
    PROVE  PolicyInv'
<1>1. /\ versions' = Append(versions, version) /\ edits' = edits + 1
      /\ UNCHANGED <<seen, queue, pass, overtaken, faults>> /\ TypeOK
  BY DEF Edit, PolicyInv
<1>2. /\ versions' \in Seq(Versions) /\ versions' # <<>>
      /\ Len(versions') = Len(versions) + 1
      /\ \A i \in 1 .. Len(versions) : versions'[i] = versions[i]
      /\ versions'[Len(versions) + 1] = version /\ Current' = version
  BY <1>1, Appended
<1>3. Len(versions) \in Nat \ {0} /\ Current = versions[Len(versions)]
  BY <1>1, LastVersion
<1>4. \A p \in Replicas : seen[p] \in 0 .. Len(versions)
  BY <1>1 DEF TypeOK
<1>5. TypeOK'
  <2>1. seen' \in [Replicas -> 0 .. Len(versions')]
    BY <1>1, <1>2, <1>3 DEF TypeOK
  <2> QED
    BY <1>1, <1>2, <2>1 DEF TypeOK
<1>6. PassSound'
  <2> SUFFICES ASSUME NEW p \in Replicas
               PROVE  /\ p \in queue \/ pass[p] # None => seen[p] # 0
                      /\ pass[p] # None =>
                            /\ pass[p].version <= Len(versions')
                            /\ versions'[pass[p].version] # None
                            /\ pass[p].verdict = Verdict(versions'[pass[p].version].rules)
    BY <1>1 DEF PassSound, Verdict
  <2>1. pass[p] # None => /\ pass[p].version \in 1 .. Len(versions)
                          /\ versions[pass[p].version] # None
                          /\ pass[p].verdict = Verdict(versions[pass[p].version].rules)
    BY <1>3 DEF PolicyInv, PassSound, TypeOK
  <2>2. p \in queue \/ pass[p] # None => seen[p] # 0
    BY DEF PolicyInv, PassSound
  <2> QED
    BY <1>2, <1>3, <2>1, <2>2
<1>7. AnnouncedHandled'
  BY <1>1, <1>2, <1>3, <1>4 DEF AnnouncedHandled
<1>8. Announced'
  <2>1. Len(versions') - 1 = Len(versions)
    BY <1>2, <1>3
  <2> QED
    BY <1>2, <1>3, <2>1 DEF Announced, PassesPredicate
<1>9. PatchedRight'
  BY <1>8 DEF PatchedRight
<1>10. Increasing'
  BY <1>1, IncreasingKept DEF PolicyInv
<1> QED
  BY <1>5, <1>6, <1>7, <1>9, <1>10 DEF PolicyInv

(* A step that leaves the policy alone.                                    *)
LEMMA QuietStep ==
    ASSUME PolicyInv, UNCHANGED <<versions, overtaken>>, TypeOK', PassSound',
           \A p \in Replicas :
               ~AllowLapse /\ Announced /\ seen'[p] = Len(versions) /\ p \notin queue' =>
                   Right \/ (pass'[p] # None /\ pass'[p].version = Len(versions))
    PROVE  PolicyInv'
<1>1. (Announced' <=> Announced) /\ (Right' <=> Right)
  BY DEF Announced, PassesPredicate, Right, Current, Last, Verdict
<1>2. AnnouncedHandled'
  BY <1>1 DEF AnnouncedHandled
<1>3. PatchedRight'
  BY <1>1 DEF PolicyInv, PatchedRight
<1>4. Increasing'
  BY DEF PolicyInv, Increasing
<1> QED
  BY <1>2, <1>3, <1>4 DEF PolicyInv

(* A patch that changes the status is no change watches let through.       *)
LEMMA LandKeeps ==
    ASSUME PolicyInv, NEW p \in Replicas, pass[p] # None, Current # None, Land(pass[p]),
           pass' = [pass EXCEPT ![p] = None],
           seen' = seen, queue' \in {queue, queue \union {p}},
           UNCHANGED edits, faults' \in Nat
    PROVE  PolicyInv'
<1> DEFINE patch == pass[p]
<1>1. /\ TypeOK /\ Len(versions) \in Nat \ {0} /\ Current = versions[Len(versions)]
      /\ Current \in Versions
      /\ \A i \in 1 .. Len(versions) : versions[i] \in Versions
  BY LastVersion DEF PolicyInv
<1>2. /\ patch.version \in 1 .. Len(versions) /\ versions[patch.version] # None
      /\ patch.verdict = Verdict(versions[patch.version].rules)
      /\ patch.verdict \in Verdicts
  BY <1>1 DEF PolicyInv, PassSound, TypeOK
<1>3. \A q \in Replicas : pass'[q] = IF q = p THEN None ELSE pass[q]
  BY <1>1 DEF TypeOK
<1>4. pass' \in [Replicas -> [verdict : Verdicts, version : Nat \ {0}] \union {None}]
  BY <1>1 DEF TypeOK
<1>5. seen[p] # 0
  BY DEF PolicyInv, PassSound
<1>6. CASE Current.ready = patch.verdict
  <2>1. UNCHANGED <<versions, overtaken>>
    BY <1>6 DEF Land, Patched
  <2>2. TypeOK'
    BY <1>1, <1>4, <2>1 DEF TypeOK
  <2>3. PassSound'
    BY <1>3, <1>5, <2>1 DEF PolicyInv, PassSound, Verdict
  <2>4. ASSUME NEW q \in Replicas, ~AllowLapse, Announced, seen'[q] = Len(versions), q \notin queue'
        PROVE  Right \/ (pass'[q] # None /\ pass'[q].version = Len(versions))
    <3>1. Right \/ (pass[q] # None /\ pass[q].version = Len(versions))
      BY <2>4 DEF PolicyInv, AnnouncedHandled
    <3>2. CASE q = p
      <4>1. ASSUME patch.version = Len(versions) PROVE Right
        BY <1>1, <1>2, <1>6, <4>1 DEF Right
      <4> QED
        BY <3>1, <3>2, <4>1
    <3>3. CASE q # p
      BY <1>3, <3>1, <3>3
    <3> QED
      BY <3>2, <3>3
  <2> QED
    BY <2>1, <2>2, <2>3, <2>4, QuietStep
<1>7. CASE Current.ready # patch.verdict
  <2> DEFINE version == [Current EXCEPT !.ready = patch.verdict]
  <2>1. versions' = Append(versions, version) /\ overtaken' = ~Checked(patch)
    BY <1>7 DEF Land, Patched
  <2>2. /\ version \in Versions /\ version.gen = Current.gen /\ version.rules = Current.rules
        /\ version.ready = patch.verdict
    BY <1>1, <1>2 DEF Versions
  <2> HIDE DEF version
  <2>3. /\ versions' \in Seq(Versions) /\ versions' # <<>>
        /\ Len(versions') = Len(versions) + 1
        /\ \A i \in 1 .. Len(versions) : versions'[i] = versions[i]
        /\ versions'[Len(versions) + 1] = version /\ Current' = version
    BY <1>1, <2>1, <2>2, Appended
  <2>4. TypeOK'
    <3>1. seen' \in [Replicas -> 0 .. Len(versions')]
      BY <1>1, <2>3 DEF TypeOK
    <3>2. overtaken' \in BOOLEAN
      BY <2>1
    <3> QED
      BY <1>1, <1>4, <2>3, <3>1, <3>2 DEF TypeOK
  <2>5. PassSound'
    <3> SUFFICES ASSUME NEW q \in Replicas
                 PROVE  /\ q \in queue' \/ pass'[q] # None => seen[q] # 0
                        /\ pass'[q] # None =>
                              /\ pass'[q].version <= Len(versions')
                              /\ versions'[pass'[q].version] # None
                              /\ pass'[q].verdict = Verdict(versions'[pass'[q].version].rules)
      BY DEF PassSound, Verdict
    <3>1. q \in queue' \/ pass'[q] # None => seen[q] # 0
      BY <1>3, <1>5 DEF PolicyInv, PassSound
    <3>2. pass[q] # None => /\ pass[q].version \in 1 .. Len(versions)
                            /\ versions[pass[q].version] # None
                            /\ pass[q].verdict = Verdict(versions[pass[q].version].rules)
      BY <1>1 DEF PolicyInv, PassSound, TypeOK
    <3> QED
      BY <1>1, <1>3, <2>3, <3>1, <3>2
  <2>6. AnnouncedHandled'
    <3>1. \A q \in Replicas : seen'[q] # Len(versions')
      BY <1>1, <2>3 DEF TypeOK
    <3> QED
      BY <3>1 DEF AnnouncedHandled
  <2>7. PatchedRight'
    <3> SUFFICES ASSUME ~overtaken' PROVE Right'
      BY DEF PatchedRight
    <3>1. Checked(patch)
      BY <2>1
    <3>2. versions[patch.version].rules = Current.rules
      BY <1>1, <1>2, <3>1 DEF Checked
    <3>3. version.ready = Verdict(version.rules)
      BY <1>2, <2>2, <3>2
    <3> QED
      BY <2>3, <3>3 DEF Right, Verdict
  <2>8. Increasing'
    <3>1. Current.gen <= version.gen
      BY <1>1, <2>2 DEF Versions
    <3> QED
      BY <1>1, <2>1, <2>2, <3>1, IncreasingKept DEF PolicyInv
  <2> QED
    BY <2>4, <2>5, <2>6, <2>7, <2>8 DEF PolicyInv
<1> QED
  BY <1>6, <1>7

-----------------------------------------------------------------------------

LEMMA PolicyInvStep == PolicyInv /\ [Next]_vars => PolicyInv'
<1> SUFFICES ASSUME PolicyInv, [Next]_vars PROVE PolicyInv'
  OBVIOUS
<1>1. /\ TypeOK /\ PassSound /\ Len(versions) \in Nat \ {0}
      /\ Current = versions[Len(versions)] /\ Current \in Versions
      /\ \A i \in 1 .. Len(versions) : versions[i] \in Versions
  BY LastVersion DEF PolicyInv
<1>2. ASSUME NEW p \in Replicas, ~AllowLapse, Announced, seen[p] = Len(versions), p \notin queue
      PROVE  Right \/ (pass[p] # None /\ pass[p].version = Len(versions))
  BY <1>2 DEF PolicyInv, AnnouncedHandled
<1>3. ASSUME NEW rules \in Rules, EditRules(rules) PROVE PolicyInv'
  <2> DEFINE version == [Current EXCEPT !.gen = @ + 1, !.rules = rules]
  <2>1. Edit(version) /\ Current # None
    BY <1>3 DEF EditRules
  <2>2. version \in Versions /\ Current.gen \in Nat /\ version.gen = Current.gen + 1
    <3> DEFINE Readiness == Verdicts \union {None}
    <3>1. Current \in [gen : Nat, rules : Rules, ready : Readiness]
      BY <1>1, <2>1 DEF Versions
    <3> HIDE DEF Readiness
    <3>2. PICK n \in Nat : n = Current.gen + 1
      BY <3>1
    <3>3. version = [Current EXCEPT !.gen = n, !.rules = rules]
      BY <3>2
    <3>4. /\ [Current EXCEPT !.gen = n, !.rules = rules]
                 \in [gen : Nat, rules : Rules, ready : Readiness]
          /\ [Current EXCEPT !.gen = n, !.rules = rules].gen = n /\ Current.gen \in Nat
      BY <3>1
    <3> QED
      BY <3>2, <3>3, <3>4 DEF Versions, Readiness
  <2>3. PassesPredicate(Current, version)
    BY <2>2 DEF PassesPredicate
  <2>4. Current.gen <= version.gen
    BY <2>2
  <2> QED
    BY <2>1, <2>2, <2>3, <2>4, EditKeeps
<1>4. CASE DeletePolicy
  BY <1>4, EditKeeps DEF DeletePolicy, PassesPredicate, Versions
<1>5. ASSUME NEW rules \in Rules, CreatePolicy(rules) PROVE PolicyInv'
  <2>1. Policy(1, rules, None) \in Versions
    BY DEF Policy, Versions
  <2> QED
    BY <1>5, <2>1, EditKeeps DEF CreatePolicy, PassesPredicate
<1>6. ASSUME NEW p \in Replicas, ListPolicies(p) PROVE PolicyInv'
  <2>1. /\ seen' = [seen EXCEPT ![p] = Len(versions)]
        /\ queue' = IF Current = None THEN queue ELSE queue \union {p}
        /\ UNCHANGED <<versions, pass, overtaken, edits, faults>>
    BY <1>6 DEF ListPolicies
  <2>2. TypeOK'
    BY <1>1, <2>1 DEF TypeOK
  <2>3. \A q \in Replicas : seen'[q] = IF q = p THEN Len(versions) ELSE seen[q]
    BY <1>1, <2>1 DEF TypeOK
  <2>4. PassSound'
    BY <1>1, <2>1, <2>3 DEF PassSound, Verdict
  <2>5. Current = None => Right
    BY DEF Right
  <2> QED
    BY <1>2, <2>1, <2>2, <2>3, <2>4, <2>5, QuietStep
<1>7. ASSUME NEW p \in Replicas, WatchPolicy(p) PROVE PolicyInv'
  <2>1. /\ 0 < seen[p] /\ seen[p] < Len(versions)
        /\ seen' = [seen EXCEPT ![p] = @ + 1]
        /\ queue' = IF PassesPredicate(versions[seen[p]], versions[seen[p] + 1])
                    THEN queue \union {p} ELSE queue
        /\ UNCHANGED <<versions, pass, overtaken, edits, faults>>
    BY <1>7 DEF WatchPolicy
  <2>2. seen[p] \in 0 .. Len(versions)
    BY <1>1 DEF TypeOK
  <2>3. \A q \in Replicas : seen'[q] = IF q = p THEN seen[p] + 1 ELSE seen[q]
    BY <1>1, <2>1 DEF TypeOK
  <2>4. TypeOK'
    <3>1. seen' \in [Replicas -> 0 .. Len(versions)]
      BY <1>1, <2>1, <2>2 DEF TypeOK
    <3> QED
      BY <1>1, <2>1, <3>1 DEF TypeOK
  <2>5. PassSound'
    BY <1>1, <2>1, <2>2, <2>3 DEF PassSound, Verdict
  <2>6. ASSUME Announced, seen[p] + 1 = Len(versions) PROVE p \in queue'
    <3>1. seen[p] = Len(versions) - 1 /\ Len(versions) # 1
      BY <1>1, <2>1, <2>2, <2>6
    <3>2. PassesPredicate(versions[seen[p]], versions[seen[p] + 1])
      BY <2>6, <3>1 DEF Announced
    <3> QED
      BY <2>1, <3>2
  <2> QED
    BY <1>2, <2>1, <2>3, <2>4, <2>5, <2>6, QuietStep
<1>7a. ASSUME NEW p \in Replicas, Relist(p) PROVE PolicyInv'
  <2>1. /\ 0 < seen[p] /\ seen[p] < Len(versions)
        /\ AllowLapse \/ ~Lapsed(p)
        /\ seen' = [seen EXCEPT ![p] = Len(versions)]
        /\ queue' = IF PassesPredicate(versions[seen[p]], Current)
                    THEN queue \union {p} ELSE queue
        /\ UNCHANGED <<versions, pass, overtaken, edits, faults>>
    BY <1>7a DEF Relist
  <2>2. seen[p] \in 0 .. Len(versions)
    BY <1>1 DEF TypeOK
  <2>3. \A q \in Replicas : seen'[q] = IF q = p THEN Len(versions) ELSE seen[q]
    BY <1>1, <2>1 DEF TypeOK
  <2>4. TypeOK'
    BY <1>1, <2>1, <2>2 DEF TypeOK
  <2>5. PassSound'
    BY <1>1, <2>1, <2>2, <2>3 DEF PassSound, Verdict
  <2>6. ASSUME ~AllowLapse, Announced PROVE p \in queue'
    <3> DEFINE i == seen[p]
               j == Len(versions) - 1
    <3>1. i \in 1 .. Len(versions) /\ j \in 1 .. Len(versions) /\ i <= j
          /\ Len(versions) \in Nat /\ Len(versions) # 1 /\ j <= Len(versions)
      BY <1>1, <2>1, <2>2
    <3>2. PassesPredicate(versions[j], Current)
      BY <1>1, <2>6, <3>1 DEF Announced
    <3>3. ASSUME versions[i] # None, Current # None PROVE versions[i].gen # Current.gen
      <4>1. \A k \in i .. Len(versions) : versions[k] # None
        BY <2>1, <2>6, <3>3 DEF Lapsed
      <4>2. \A k \in i .. j : versions[k] # None
        BY <3>1, <4>1
      <4>3. \A k \in j .. Len(versions) : versions[k] # None
        BY <3>1, <4>1
      <4>4. versions[i].gen <= versions[j].gen
        BY <3>1, <4>2 DEF PolicyInv, Increasing
      <4>5. versions[j].gen <= Current.gen
        BY <1>1, <3>1, <4>3 DEF PolicyInv, Increasing
      <4>6. versions[j] # None /\ versions[j].gen # Current.gen
        BY <3>1, <3>2, <3>3, <4>2 DEF PassesPredicate
      <4>7. versions[i].gen \in Nat /\ versions[j].gen \in Nat /\ Current.gen \in Nat
        BY <1>1, <3>1, <3>3, <4>6 DEF Versions
      <4> QED
        BY <4>4, <4>5, <4>6, <4>7
    <3>4. PassesPredicate(versions[i], Current)
      BY <3>3 DEF PassesPredicate
    <3> QED
      BY <2>1, <3>4
  <2> QED
    BY <1>2, <2>1, <2>3, <2>4, <2>5, <2>6, QuietStep
<1>8. ASSUME NEW p \in Replicas, Reconcile(p) PROVE PolicyInv'
  <2> DEFINE policy == versions[seen[p]]
             begun == [verdict |-> Verdict(policy.rules), version |-> seen[p]]
  <2>1. /\ p \in queue /\ pass[p] = None /\ queue' = queue \ {p}
        /\ pass' = IF policy = None \/ policy.ready = Verdict(policy.rules) THEN pass
                   ELSE [pass EXCEPT ![p] = begun]
        /\ UNCHANGED <<versions, seen, overtaken, edits, faults>>
    BY <1>8 DEF Reconcile
  <2>2. seen[p] \in 1 .. Len(versions) /\ seen[p] # 0
    BY <1>1, <2>1 DEF PassSound, TypeOK
  <2>3. policy \in Versions
    BY <1>1, <2>2
  <2>4. CASE policy = None \/ policy.ready = Verdict(policy.rules)
    <3>1. pass' = pass
      BY <2>1, <2>4
    <3>2. TypeOK' /\ PassSound'
      BY <1>1, <2>1, <3>1 DEF TypeOK, PassSound, Verdict
    <3>3. seen[p] = Len(versions) => Right
      BY <1>1, <2>4 DEF Right
    <3> QED
      BY <1>2, <2>1, <3>1, <3>2, <3>3, QuietStep
  <2>5. CASE policy # None /\ policy.ready # Verdict(policy.rules)
    <3>1. policy.rules \in Rules /\ Verdict(policy.rules) \in Verdicts
      BY <2>3, <2>5 DEF Versions, Verdict, Verdicts
    <3>2. begun \in [verdict : Verdicts, version : Nat \ {0}] /\ begun.version = seen[p]
          /\ begun.verdict = Verdict(policy.rules)
      BY <2>2, <3>1
    <3>3. begun # None
      BY <2>2, <3>1, PolicyAssumption DEF Verdicts, Usable
    <3>4. pass' = [pass EXCEPT ![p] = begun] /\ policy = versions[seen[p]]
      BY <2>1, <2>5
    <3> HIDE DEF begun, policy
    <3>5. \A q \in Replicas : pass'[q] = IF q = p THEN begun ELSE pass[q]
      BY <1>1, <3>4 DEF TypeOK
    <3>6. TypeOK'
      BY <1>1, <2>1, <3>2, <3>4 DEF TypeOK
    <3>7. PassSound'
      <4> SUFFICES ASSUME NEW q \in Replicas
                   PROVE  /\ q \in queue' \/ pass'[q] # None => seen[q] # 0
                          /\ pass'[q] # None =>
                                /\ pass'[q].version <= Len(versions)
                                /\ versions[pass'[q].version] # None
                                /\ pass'[q].verdict = Verdict(versions[pass'[q].version].rules)
        BY <2>1 DEF PassSound, Verdict
      <4>1. CASE q = p
        BY <1>1, <2>2, <2>5, <3>2, <3>4, <3>5, <4>1
      <4>2. CASE q # p
        BY <1>1, <2>1, <3>5, <4>2 DEF PassSound
      <4> QED
        BY <4>1, <4>2
    <3> QED
      BY <1>2, <2>1, <3>2, <3>3, <3>5, <3>6, <3>7, QuietStep
  <2> QED
    BY <2>4, <2>5
<1>9. ASSUME NEW p \in Replicas, PatchStatus(p) PROVE PolicyInv'
  <2>1. faults' \in Nat /\ seen' = seen /\ queue' \in {queue, queue \union {p}}
    BY <1>1, <1>9 DEF PatchStatus, TypeOK
  <2> QED
    BY <1>9, <2>1, LandKeeps DEF PatchStatus
<1>10. ASSUME NEW p \in Replicas, pass[p] # None, pass' = [pass EXCEPT ![p] = None],
              queue' = queue \union {p}, faults' \in Nat,
              UNCHANGED <<versions, seen, overtaken, edits>>
       PROVE  PolicyInv'
  <2>1. \A q \in Replicas : pass'[q] = IF q = p THEN None ELSE pass[q]
    BY <1>1, <1>10 DEF TypeOK
  <2>2. TypeOK'
    BY <1>1, <1>10 DEF TypeOK
  <2>3. PassSound'
    BY <1>1, <1>10, <2>1 DEF PassSound, Verdict
  <2> QED
    BY <1>2, <1>10, <2>1, <2>2, <2>3, QuietStep
<1>11. ASSUME NEW p \in Replicas, PatchMissing(p) PROVE PolicyInv'
  <2>1. faults' \in Nat
    BY <1>1, <1>11 DEF PatchMissing, TypeOK
  <2> QED
    BY <1>10, <1>11, <2>1 DEF PatchMissing
<1>12. ASSUME NEW p \in Replicas, NEW landed \in BOOLEAN, PatchFails(p, landed) PROVE PolicyInv'
  <2>1. faults' \in Nat /\ seen' = seen /\ queue' = queue \union {p}
        /\ queue' \in {queue, queue \union {p}}
    BY <1>1, <1>12 DEF PatchFails, TypeOK
  <2>2. CASE landed
    BY <1>12, <2>1, <2>2, LandKeeps DEF PatchFails
  <2>3. CASE ~landed
    BY <1>10, <1>12, <2>1, <2>3 DEF PatchFails
  <2> QED
    BY <2>2, <2>3
<1>13. ASSUME NEW p \in Replicas, Restart(p) PROVE PolicyInv'
  <2>1. /\ seen' = [seen EXCEPT ![p] = 0] /\ queue' = queue \ {p}
        /\ pass' = [pass EXCEPT ![p] = None] /\ faults' \in Nat
        /\ UNCHANGED <<versions, overtaken, edits>>
    BY <1>1, <1>13 DEF Restart, TypeOK
  <2>2. \A q \in Replicas : /\ pass'[q] = IF q = p THEN None ELSE pass[q]
                            /\ seen'[q] = IF q = p THEN 0 ELSE seen[q]
    BY <1>1, <2>1 DEF TypeOK
  <2>3. TypeOK'
    BY <1>1, <2>1 DEF TypeOK
  <2>4. PassSound'
    BY <1>1, <2>1, <2>2 DEF PassSound, Verdict
  <2> QED
    BY <1>1, <1>2, <2>1, <2>2, <2>3, <2>4, QuietStep
<1>14. CASE UNCHANGED vars
  <2>1. TypeOK' /\ PassSound'
    BY <1>1, <1>14 DEF vars, TypeOK, PassSound, Verdict
  <2> QED
    BY <1>2, <1>14, <2>1, QuietStep DEF vars
<1> QED
  BY <1>3, <1>4, <1>5, <1>6, <1>7, <1>8, <1>9, <1>11, <1>12, <1>13, <1>14, <1>7a
  DEF Next, Users, Step

-----------------------------------------------------------------------------

(* Every variable keeps its type, whatever pods, users and faults do.      *)
THEOREM PolicyTypeOK == Spec => []TypeOK
<1>1. PolicyInv => TypeOK
  BY DEF PolicyInv
<1> QED
  BY <1>1, PolicyInvInit, PolicyInvStep, PTL DEF Spec

(* The predicate lets enough through, as long as no watch misses that a    *)
(* policy was deleted and created anew: however edits, deletions, failed   *)
(* patches, broken watches and restarts interleave, when no pod has        *)
(* anything left to do the Ready condition is that of the rules, unless    *)
(* the last patch was overtaken by an edit of the rules it is about.       *)
THEOREM PolicyVerdictSettles ==
    ASSUME ~AllowLapse
    PROVE  Spec => []VerdictSettles
<1>1. PolicyInv => VerdictSettles
  <2> SUFFICES ASSUME PolicyInv, Quiet, ~overtaken PROVE Right
    BY DEF VerdictSettles
  <2>1. CASE Announced
    <3>1. PICK p \in Replicas : TRUE
      BY PolicyAssumption
    <3>2. seen[p] = Len(versions) /\ p \notin queue /\ pass[p] = None
      BY DEF Quiet
    <3> QED
      BY <2>1, <3>2 DEF PolicyInv, AnnouncedHandled
  <2>2. CASE ~Announced
    BY <2>2 DEF PolicyInv, PatchedRight
  <2> QED
    BY <2>1, <2>2
<1> QED
  BY <1>1, PolicyInvInit, PolicyInvStep, PTL DEF Spec

=============================================================================
