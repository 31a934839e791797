------------------------ MODULE StoreControllerProofs ------------------------
(***************************************************************************)
(* What sweeps guarantee to restores, for every number of replicas, every  *)
(* set of windows no shorter than twice the delay and every history.       *)
(***************************************************************************)
EXTENDS StoreController, SnapshotHistoryProofs

(* A key below one that is in the bucket and lies before the horizon: no   *)
(* target the window covers can select it.                                 *)
Superseded(ref) == \E anchor \in refs : KeyLess(ref, anchor) /\ anchor.at < horizon

OnlySupersededGone ==
    refs \subseteq archive /\ \A ref \in archive \ refs : Superseded(ref)

(* What is in the bucket is an end segment of what was written.            *)
EndSegment == \A ref \in archive, held \in refs : KeyLess(held, ref) => ref \in refs

(* A pass has everything below a key it will delete on its list as well.   *)
PlanSound ==
    \A p \in Replicas : pass[p] # None =>
        /\ pass[p].cutoff <= horizon
        /\ pass[p].phase = "check" => /\ pass[p].verdict.window \in Windows
                                      /\ pass[p].asked = pass[p].verdict.window
        /\ \A ref \in pass[p].left :
              /\ Superseded(ref)
              /\ \A held \in refs : KeyLess(held, ref) => held \in pass[p].left

(* Cutoffs lie so far back that no later capture lands below one.          *)
HorizonFar == horizon = 0 \/ horizon + 2 * Delay <= now

(* What is newer than a restore's choice, yet not after its target, was    *)
(* written after the listing.                                              *)
ChoiceSound ==
    restore # None =>
        /\ restore.listed <= now /\ now <= restore.listed + Delay
        /\ restore.chosen \in archive
        /\ \A ref \in archive :
              ref.at <= restore.moment /\ KeyLess(restore.chosen, ref)
                => restore.listed <= ref.at + Delay

SweepInv ==
    /\ TypeOK /\ OnlySupersededGone /\ EndSegment /\ PlanSound
    /\ HorizonFar /\ ChoiceSound

-----------------------------------------------------------------------------

LEMMA SweepInvInit == Init => SweepInv
<1> SUFFICES ASSUME Init PROVE SweepInv
  OBVIOUS
<1>1. TypeOK
  BY DEF Init, TypeOK, Statuses
<1> QED
  BY <1>1 DEF Init, SweepInv, OnlySupersededGone, EndSegment, PlanSound, HorizonFar, ChoiceSound

(* A superseded key lies before the horizon.                               *)
LEMMA SupersededIsOld ==
    ASSUME TypeOK, NEW ref \in Refs, Superseded(ref)
    PROVE  ref.at < horizon
<1>1. PICK anchor \in refs : KeyLess(ref, anchor) /\ anchor.at < horizon
  BY DEF Superseded
<1>2. anchor \in Refs /\ horizon \in Nat
  BY DEF TypeOK
<1>3. ref.at <= anchor.at
  BY <1>1, <1>2, KeyOrder
<1> QED
  BY <1>1, <1>2, <1>3 DEF Refs

LEMMA CaptureKeeps ==
    ASSUME SweepInv, NEW lag \in 0 .. Delay, NEW gen \in Gens, NEW hash \in Hashes,
           Capture(lag, gen, hash)
    PROVE  SweepInv'
<1> DEFINE new == [at |-> now - lag, gen |-> gen, hash |-> hash]
<1>1. /\ refs' = refs \union {new} /\ archive' = archive \union {new}
      /\ UNCHANGED <<storeVars, pass, restore, now, edits, faults, horizon>>
      /\ lag <= now
  BY DEF Capture
<1>2. new \in Refs /\ now <= new.at + Delay /\ now \in Nat /\ Delay \in Nat /\ horizon \in Nat
  BY <1>1, ControllerAssumption DEF Refs, SweepInv, TypeOK
<1> HIDE DEF new
<1>3. ~(new.at < horizon)
  BY <1>2 DEF SweepInv, HorizonFar, Refs
<1>4. ASSUME NEW ref \in Refs, Superseded(ref) PROVE ~KeyLess(new, ref)
  BY <1>2, <1>3, <1>4, SupersededIsOld, KeyOrder DEF SweepInv, Refs
<1>5. ASSUME NEW ref, Superseded(ref) PROVE Superseded(ref)'
  BY <1>1, <1>5 DEF Superseded, KeyLess
<1>6. TypeOK'
  BY <1>1, <1>2 DEF SweepInv, TypeOK, storeVars
<1>7. OnlySupersededGone'
  BY <1>1, <1>5 DEF SweepInv, OnlySupersededGone
<1>8. EndSegment'
  <2> SUFFICES ASSUME NEW ref \in archive', NEW held \in refs', KeyLess(held, ref)
               PROVE  ref \in refs'
    BY DEF EndSegment, KeyLess
  <2> QED
    BY <1>1, <1>4 DEF SweepInv, EndSegment, OnlySupersededGone, TypeOK
<1>9. PlanSound'
  <2> SUFFICES ASSUME NEW p \in Replicas, pass[p] # None
               PROVE  /\ pass[p].cutoff <= horizon
                      /\ pass[p].phase = "check" => /\ pass[p].verdict.window \in Windows
                                                    /\ pass[p].asked = pass[p].verdict.window
                      /\ \A ref \in pass[p].left :
                            /\ Superseded(ref)'
                            /\ \A held \in refs' : KeyLess(held, ref) => held \in pass[p].left
    BY <1>1 DEF PlanSound, KeyLess
  <2>1. pass[p].left \subseteq Refs
    BY DEF SweepInv, TypeOK, Passes
  <2> QED
    BY <1>1, <1>4, <1>5, <2>1 DEF SweepInv, PlanSound
<1>10. HorizonFar' /\ ChoiceSound'
  <2>1. HorizonFar'
    BY <1>1 DEF SweepInv, HorizonFar
  <2>2. restore # None => restore.listed \in Nat
    BY DEF SweepInv, TypeOK
  <2>3. ASSUME restore # None PROVE restore.listed <= new.at + Delay
    BY <1>2, <2>2, <2>3 DEF SweepInv, ChoiceSound, Refs
  <2>4. ChoiceSound'
    BY <1>1, <2>3 DEF SweepInv, ChoiceSound, KeyLess
  <2> QED
    BY <2>1, <2>4
<1> QED
  BY <1>6, <1>7, <1>8, <1>9, <1>10 DEF SweepInv

LEMMA RestoreListKeeps ==
    ASSUME SweepInv, NEW moment \in 0 .. now, NEW ref \in refs, RestoreList(moment, ref)
    PROVE  SweepInv'
<1>1. /\ restore' = [moment |-> moment, listed |-> now, chosen |-> ref]
      /\ UNCHANGED <<storeVars, pass, refs, now, edits, faults, archive, horizon>>
  BY DEF RestoreList
<1>2. now \in Nat /\ moment \in Nat /\ ref \in Refs /\ Delay \in Nat /\ ref \in archive
  BY ControllerAssumption DEF SweepInv, TypeOK, OnlySupersededGone
<1>3. TypeOK'
  BY <1>1, <1>2 DEF SweepInv, TypeOK, storeVars
<1>4. ASSUME NEW newer \in archive, newer.at <= moment PROVE ~KeyLess(ref, newer)
  BY <1>4 DEF SweepInv, EndSegment, RestoreList, Selects, IsNewest, AtOrBefore
<1>5. ChoiceSound'
  BY <1>1, <1>2, <1>4 DEF ChoiceSound, KeyLess
<1> QED
  BY <1>1, <1>3, <1>5 DEF SweepInv, OnlySupersededGone, EndSegment, PlanSound, HorizonFar,
     Superseded, KeyLess

(* A step that leaves history, clock and restores alone and plans nothing. *)
LEMMA QuietStep ==
    ASSUME SweepInv, TypeOK',
           UNCHANGED <<refs, archive, horizon, now>>, restore' = restore \/ restore' = None,
           \A p \in Replicas : pass'[p] # None =>
               \/ pass'[p] = pass[p]
               \/ /\ pass'[p].left = {} \/ (pass[p] # None /\ pass'[p].left = pass[p].left)
                  /\ pass'[p].cutoff <= horizon
                  /\ pass'[p].phase = "check" => /\ pass'[p].verdict.window \in Windows
                                                 /\ pass'[p].asked = pass'[p].verdict.window
    PROVE  SweepInv'
<1>1. \A ref : Superseded(ref)' <=> Superseded(ref)
  BY DEF Superseded, KeyLess
<1>2. OnlySupersededGone' /\ EndSegment' /\ HorizonFar' /\ ChoiceSound'
  BY <1>1 DEF SweepInv, OnlySupersededGone, EndSegment, HorizonFar, ChoiceSound, KeyLess
<1>3. PlanSound'
  <2> SUFFICES ASSUME NEW p \in Replicas, pass'[p] # None
               PROVE  /\ pass'[p].cutoff <= horizon
                      /\ pass'[p].phase = "check" => /\ pass'[p].verdict.window \in Windows
                                                     /\ pass'[p].asked = pass'[p].verdict.window
                      /\ \A ref \in pass'[p].left :
                            /\ Superseded(ref)
                            /\ \A held \in refs : KeyLess(held, ref) => held \in pass'[p].left
    BY <1>1 DEF PlanSound, KeyLess
  <2> QED
    BY DEF SweepInv, PlanSound
<1> QED
  BY <1>2, <1>3 DEF SweepInv

(* The sweep fixes its cutoff at least twice the delay back.               *)
LEMMA CheckPassesKeeps ==
    ASSUME SweepInv, NEW p \in Replicas, CheckPasses(p)
    PROVE  SweepInv'
<1> DEFINE w == pass[p].verdict.window
<1>1. /\ pass[p] \in Passes /\ pass[p] # None /\ w \in Windows /\ pass[p].asked = w
      /\ UNCHANGED <<storeVars, refs, restore, now, edits, faults, archive>>
  BY DEF SweepInv, TypeOK, CheckPasses, Phase, PlanSound
<1>2. w \in Nat /\ now \in Nat /\ horizon \in Nat /\ Delay \in Nat /\ pass[p].cutoff <= horizon
  BY <1>1, ControllerAssumption DEF SweepInv, TypeOK, PlanSound
<1>3. Cutoff(w) \in Nat
  BY <1>2 DEF Cutoff
<1>4. /\ horizon' \in Nat /\ horizon <= horizon'
      /\ HorizonFar'
  BY <1>1, <1>2, <1>3, ControllerAssumption
  DEF CheckPasses, Verdict, Later, SweepInv, HorizonFar, Cutoff, Forever
<1>5. /\ pass' \in [Replicas -> Passes \union {None}]
      /\ \A q \in Replicas \ {p} : pass'[q] = pass[q]
      /\ pass'[p].cutoff <= horizon' /\ pass'[p].phase # "check"
      /\ pass'[p].left = pass[p].left
  BY <1>1, <1>2, <1>3, <1>4 DEF CheckPasses, Verdict, Later, SweepInv, TypeOK, Passes
<1>6. TypeOK'
  BY <1>1, <1>4, <1>5 DEF SweepInv, TypeOK, storeVars
<1>7. ASSUME NEW ref, Superseded(ref) PROVE Superseded(ref)'
  <2>1. PICK anchor \in refs : KeyLess(ref, anchor) /\ anchor.at < horizon
    BY <1>7 DEF Superseded
  <2>2. anchor.at \in Nat
    BY DEF SweepInv, TypeOK, Refs
  <2>3. anchor.at < horizon'
    BY <1>2, <1>4, <2>1, <2>2
  <2> QED
    BY <1>1, <2>1, <2>3 DEF Superseded, KeyLess
<1>8. OnlySupersededGone' /\ EndSegment' /\ ChoiceSound'
  BY <1>1, <1>7 DEF SweepInv, OnlySupersededGone, EndSegment, ChoiceSound, KeyLess
<1>9. PlanSound'
  <2> SUFFICES ASSUME NEW q \in Replicas, pass'[q] # None
               PROVE  /\ pass'[q].cutoff <= horizon'
                      /\ pass'[q].phase = "check" => /\ pass'[q].verdict.window \in Windows
                                                     /\ pass'[q].asked = pass'[q].verdict.window
                      /\ \A ref \in pass'[q].left :
                            /\ Superseded(ref)'
                            /\ \A held \in refs : KeyLess(held, ref) => held \in pass'[q].left
    BY <1>1 DEF PlanSound, KeyLess
  <2>1. CASE q = p
    BY <1>1, <1>5, <1>7, <2>1 DEF SweepInv, PlanSound
  <2>2. CASE q # p
    <3>1. pass'[q] = pass[q] /\ pass[q] # None /\ pass[q].cutoff \in Nat
      BY <1>5, <2>2 DEF SweepInv, TypeOK, Passes
    <3>2. pass[q].cutoff <= horizon'
      BY <1>2, <1>4, <3>1 DEF SweepInv, PlanSound
    <3> QED
      BY <1>7, <3>1, <3>2 DEF SweepInv, PlanSound
  <2> QED
    BY <2>1, <2>2
<1> QED
  BY <1>4, <1>6, <1>8, <1>9 DEF SweepInv

LEMMA ListSnapshotsKeeps ==
    ASSUME SweepInv, NEW p \in Replicas, ListSnapshots(p)
    PROVE  SweepInv'
<1> DEFINE plan == PlanRetention(refs, pass[p].cutoff)
<1>1. /\ pass[p] \in Passes /\ pass[p] # None /\ pass[p].cutoff <= horizon
      /\ pass' = [pass EXCEPT ![p].phase = "delete", ![p].left = plan]
      /\ UNCHANGED <<storeVars, refs, restore, now, edits, faults, archive, horizon>>
  BY DEF SweepInv, TypeOK, ListSnapshots, Phase, PlanSound
<1>2. plan \subseteq refs /\ refs \subseteq Refs /\ horizon \in Nat
  BY DEF PlanRetention, SweepInv, TypeOK
<1>3. ASSUME NEW ref \in plan
      PROVE  Superseded(ref) /\ \A held \in refs : KeyLess(held, ref) => held \in plan
  <2>1. PICK anchor \in refs : KeyLess(ref, anchor) /\ anchor.at < pass[p].cutoff
    BY <1>3 DEF PlanRetention, BeforeCutoff
  <2>2. anchor.at \in Nat /\ pass[p].cutoff \in Nat
    BY <1>1, <1>2 DEF Refs, Passes
  <2>3. anchor.at < horizon
    BY <1>1, <1>2, <2>1, <2>2
  <2>4. ASSUME NEW held \in refs, KeyLess(held, ref) PROVE KeyLess(held, anchor)
    BY <1>2, <2>1, <2>4, KeyOrder
  <2> QED
    BY <2>1, <2>3, <2>4 DEF Superseded, PlanRetention, BeforeCutoff
<1> HIDE DEF plan
<1>4. /\ \A q \in Replicas \ {p} : pass'[q] = pass[q]
      /\ pass'[p].left = plan /\ pass'[p].cutoff = pass[p].cutoff /\ pass'[p].phase = "delete"
      /\ pass' \in [Replicas -> Passes \union {None}]
  BY <1>1, <1>2 DEF SweepInv, TypeOK, Passes
<1>5. TypeOK'
  BY <1>1, <1>4 DEF SweepInv, TypeOK, storeVars
<1>6. \A ref : Superseded(ref)' <=> Superseded(ref)
  BY <1>1 DEF Superseded, KeyLess
<1>7. OnlySupersededGone' /\ EndSegment' /\ HorizonFar' /\ ChoiceSound'
  BY <1>1, <1>6 DEF SweepInv, OnlySupersededGone, EndSegment, HorizonFar, ChoiceSound, KeyLess
<1>8. PlanSound'
  <2> SUFFICES ASSUME NEW q \in Replicas, pass'[q] # None
               PROVE  /\ pass'[q].cutoff <= horizon
                      /\ pass'[q].phase = "check" => /\ pass'[q].verdict.window \in Windows
                                                     /\ pass'[q].asked = pass'[q].verdict.window
                      /\ \A ref \in pass'[q].left :
                            /\ Superseded(ref)
                            /\ \A held \in refs : KeyLess(held, ref) => held \in pass'[q].left
    BY <1>1, <1>6 DEF PlanSound, KeyLess
  <2>1. CASE q = p
    BY <1>1, <1>3, <1>4, <2>1
  <2>2. CASE q # p
    BY <1>4, <2>2 DEF SweepInv, PlanSound
  <2> QED
    BY <2>1, <2>2
<1> QED
  BY <1>5, <1>7, <1>8 DEF SweepInv

(* Deleting the oldest planned key leaves every superseded key superseded: *)
(* a key whose anchor goes has the anchor's own anchor above it.           *)
LEMMA DeleteOldestKeeps ==
    ASSUME SweepInv, NEW p \in Replicas, DeleteOldest(p)
    PROVE  SweepInv'
<1>1. PICK gone \in pass[p].left :
          /\ \A other \in pass[p].left : ~KeyLess(other, gone)
          /\ refs' = refs \ {gone}
          /\ pass' = [pass EXCEPT ![p].left = @ \ {gone}]
  BY DEF DeleteOldest
<1>2. /\ pass[p] # None /\ pass[p] \in Passes /\ gone \in Refs
      /\ UNCHANGED <<storeVars, restore, now, edits, faults, archive, horizon>>
  BY <1>1 DEF DeleteOldest, Phase, SweepInv, TypeOK, Passes
<1>3. Superseded(gone) /\ \A held \in refs : KeyLess(held, gone) => held \in pass[p].left
  BY <1>1, <1>2 DEF SweepInv, PlanSound
<1>4. PICK above \in refs : KeyLess(gone, above) /\ above.at < horizon
  BY <1>3 DEF Superseded
<1>5. above \in Refs /\ above \in refs'
  BY <1>1, <1>2, <1>4, KeyOrder DEF SweepInv, TypeOK
<1>6. ASSUME NEW ref \in Refs, Superseded(ref) PROVE Superseded(ref)'
  <2>1. PICK anchor \in refs : KeyLess(ref, anchor) /\ anchor.at < horizon
    BY <1>6 DEF Superseded
  <2>2. CASE anchor = gone
    <3>1. KeyLess(ref, above)
      BY <1>2, <1>4, <1>5, <2>1, <2>2, KeyOrder
    <3> QED
      BY <1>2, <1>4, <1>5, <3>1 DEF Superseded, KeyLess
  <2>3. CASE anchor # gone
    BY <1>1, <1>2, <2>1, <2>3 DEF Superseded, KeyLess
  <2> QED
    BY <2>2, <2>3
<1>7. /\ \A q \in Replicas \ {p} : pass'[q] = pass[q]
      /\ pass'[p].left = pass[p].left \ {gone} /\ pass'[p].cutoff = pass[p].cutoff
      /\ pass'[p].phase = pass[p].phase /\ pass'[p].verdict = pass[p].verdict
      /\ pass' \in [Replicas -> Passes \union {None}]
  BY <1>1, <1>2 DEF SweepInv, TypeOK, Passes
<1>8. TypeOK'
  BY <1>1, <1>2, <1>7 DEF SweepInv, TypeOK, storeVars
<1>9. OnlySupersededGone'
  BY <1>1, <1>2, <1>3, <1>6 DEF SweepInv, OnlySupersededGone, TypeOK
<1>10. EndSegment'
  <2> SUFFICES ASSUME NEW ref \in archive, NEW held \in refs', KeyLess(held, ref)
               PROVE  ref \in refs'
    BY <1>2 DEF EndSegment, KeyLess
  <2> QED
    BY <1>1, <1>3 DEF SweepInv, EndSegment
<1>11. HorizonFar' /\ ChoiceSound'
  BY <1>2 DEF SweepInv, HorizonFar, ChoiceSound, KeyLess
<1>12. PlanSound'
  <2> SUFFICES ASSUME NEW q \in Replicas, pass'[q] # None
               PROVE  /\ pass'[q].cutoff <= horizon
                      /\ pass'[q].phase = "check" => /\ pass'[q].verdict.window \in Windows
                                                     /\ pass'[q].asked = pass'[q].verdict.window
                      /\ \A ref \in pass'[q].left :
                            /\ Superseded(ref)'
                            /\ \A held \in refs' : KeyLess(held, ref) => held \in pass'[q].left
    BY <1>2 DEF PlanSound, KeyLess
  <2>1. pass[q] # None
    BY <1>2, <1>7
  <2>2. pass[q].left \subseteq Refs
    BY <2>1 DEF SweepInv, TypeOK, Passes
  <2>3. CASE q = p
    BY <1>1, <1>2, <1>6, <1>7, <2>2, <2>3 DEF SweepInv, PlanSound
  <2>4. CASE q # p
    BY <1>1, <1>6, <1>7, <2>1, <2>2, <2>4 DEF SweepInv, PlanSound
  <2> QED
    BY <2>3, <2>4
<1> QED
  BY <1>8, <1>9, <1>10, <1>11, <1>12 DEF SweepInv

LEMMA TickKeeps ==
    ASSUME SweepInv, Tick
    PROVE  SweepInv'
<1>1. /\ now' = now + 1 /\ now \in Nat /\ horizon \in Nat /\ Delay \in Nat
      /\ restore # None => now < restore.listed + Delay /\ restore.listed \in Nat
      /\ UNCHANGED <<storeVars, pass, refs, restore, edits, faults, archive, horizon>>
  BY ControllerAssumption DEF Tick, SweepInv, TypeOK
<1>2. TypeOK'
  BY <1>1 DEF SweepInv, TypeOK, storeVars
<1>3. OnlySupersededGone' /\ EndSegment' /\ PlanSound'
  BY <1>1 DEF SweepInv, OnlySupersededGone, EndSegment, PlanSound, Superseded, KeyLess
<1>4. HorizonFar'
  BY <1>1 DEF SweepInv, HorizonFar
<1>5. ChoiceSound'
  BY <1>1 DEF SweepInv, ChoiceSound, KeyLess
<1> QED
  BY <1>2, <1>3, <1>4, <1>5 DEF SweepInv

-----------------------------------------------------------------------------

LEMMA SweepInvStep ==
    ASSUME Representable
    PROVE  SweepInv /\ [Next]_vars => SweepInv'
<1> SUFFICES ASSUME SweepInv, [Next]_vars PROVE SweepInv'
  OBVIOUS
<1>1. TypeOK
  BY DEF SweepInv
<1>2. ASSUME NEW w \in Windows, EditRetention(w) PROVE SweepInv'
  <2>1. TypeOK'
    BY <1>1, <1>2 DEF EditRetention, Edit, TypeOK
  <2> QED
    BY <1>2, <2>1, QuietStep DEF EditRetention, Edit
<1>3. CASE ToggleUsable
  <2>1. TypeOK'
    BY <1>1, <1>3 DEF ToggleUsable, Edit, TypeOK
  <2> QED
    BY <1>3, <2>1, QuietStep DEF ToggleUsable, Edit
<1>4. CASE RestoreRead
  <2>1. TypeOK'
    BY <1>1, <1>4 DEF RestoreRead, TypeOK, storeVars
  <2> QED
    BY <1>4, <2>1, QuietStep DEF RestoreRead
<1>5. ASSUME NEW p \in Replicas, Observe(p) PROVE SweepInv'
  <2>1. TypeOK'
    BY <1>1, <1>5 DEF Observe, TypeOK
  <2> QED
    BY <1>5, <2>1, QuietStep DEF Observe
<1>6. ASSUME NEW p \in Replicas, ReconcileBegin(p) PROVE SweepInv'
  <2> DEFINE begun == [phase |-> "check", original |-> seen[p].status,
                       verdict |-> [ready |-> "True", window |-> Duration(seen[p].window)],
                       asked |-> seen[p].window,
                       cutoff |-> 0, left |-> {}]
  <2>0. seen[p].window \in Windows /\ Duration(seen[p].window) = seen[p].window
    BY <1>1 DEF TypeOK, Representable, Duration
  <2>1. /\ begun \in Passes /\ begun.verdict.window \in Windows /\ begun.cutoff <= horizon
        /\ begun.asked = begun.verdict.window
    BY <1>1, <2>0 DEF TypeOK, Passes, Statuses
  <2>2. begun.left = {} /\ pass' = [pass EXCEPT ![p] = begun]
    BY <1>6 DEF ReconcileBegin
  <2> HIDE DEF begun
  <2>3. TypeOK'
    BY <1>1, <1>6, <2>1, <2>2 DEF ReconcileBegin, TypeOK, storeVars
  <2>4. \A q \in Replicas : pass'[q] = IF q = p THEN begun ELSE pass[q]
    BY <1>1, <2>2 DEF TypeOK
  <2>5. UNCHANGED <<refs, archive, horizon, now, restore>>
    BY <1>6 DEF ReconcileBegin
  <2> QED
    BY <2>1, <2>2, <2>3, <2>4, <2>5, QuietStep
<1>7. ASSUME NEW p \in Replicas, pass[p] # None, NEW moved \in Passes,
             pass' = [pass EXCEPT ![p] = moved], moved.phase # "check",
             moved.cutoff = pass[p].cutoff, moved.left = {} \/ moved.left = pass[p].left,
             UNCHANGED <<storeVars, refs, restore, now, edits, archive, horizon>>, faults' \in Nat
      PROVE  SweepInv'
  <2>1. TypeOK'
    BY <1>1, <1>7 DEF TypeOK, storeVars
  <2>2. \A q \in Replicas : pass'[q] = IF q = p THEN moved ELSE pass[q]
    BY <1>1, <1>7 DEF TypeOK
  <2>3. pass[p].cutoff <= horizon
    BY <1>7 DEF SweepInv, PlanSound
  <2> QED
    BY <1>7, <2>1, <2>2, <2>3, QuietStep
<1>8. ASSUME NEW p \in Replicas, CheckFails(p) PROVE SweepInv'
  <2>1. pass[p] # None /\ pass[p] \in Passes
    BY <1>1, <1>8 DEF CheckFails, Phase, TypeOK
  <2> DEFINE moved == [pass[p] EXCEPT !.verdict = NotReady, !.phase = "patch"]
  <2>2. pass' = [pass EXCEPT ![p] = moved]
    BY <1>1, <1>8 DEF CheckFails, TypeOK
  <2>3. /\ moved \in Passes /\ moved.phase # "check"
        /\ moved.cutoff = pass[p].cutoff /\ moved.left = pass[p].left
    BY <2>1 DEF Passes, Statuses, NotReady
  <2> HIDE DEF moved
  <2> QED
    BY <1>1, <1>7, <1>8, <2>1, <2>2, <2>3 DEF CheckFails, TypeOK
<1>9. ASSUME NEW p \in Replicas, SweepDone(p) \/ SweepStops(p) PROVE SweepInv'
  <2>1. pass[p] # None /\ pass[p] \in Passes
    BY <1>1, <1>9 DEF SweepDone, SweepStops, Phase, TypeOK
  <2>2. CASE SweepDone(p)
    <3> DEFINE moved == [pass[p] EXCEPT !.phase = "patch"]
    <3>1. pass' = [pass EXCEPT ![p] = moved]
      BY <1>1, <2>2 DEF SweepDone, TypeOK
    <3>2. /\ moved \in Passes /\ moved.phase # "check"
          /\ moved.cutoff = pass[p].cutoff /\ moved.left = pass[p].left
      BY <2>1 DEF Passes
    <3> HIDE DEF moved
    <3> QED
      BY <1>1, <1>7, <2>1, <2>2, <3>1, <3>2 DEF SweepDone, TypeOK
  <2>3. CASE SweepStops(p)
    <3> DEFINE moved == [pass[p] EXCEPT !.phase = "patch", !.left = {}]
    <3>1. pass' = [pass EXCEPT ![p] = moved]
      BY <1>1, <2>3 DEF SweepStops, TypeOK
    <3>2. /\ moved \in Passes /\ moved.phase # "check"
          /\ moved.cutoff = pass[p].cutoff /\ moved.left = {}
      BY <2>1 DEF Passes
    <3>3. /\ UNCHANGED <<storeVars, refs, restore, now, edits, archive, horizon>>
          /\ faults' \in Nat
      BY <1>1, <2>3 DEF SweepStops, TypeOK
    <3> HIDE DEF moved
    <3> QED
      BY <1>7, <2>1, <3>1, <3>2, <3>3
  <2> QED
    BY <1>9, <2>2, <2>3
<1>10. ASSUME NEW p \in Replicas, PatchStatus(p) \/ PassAborts(p) PROVE SweepInv'
  <2>1. /\ pass' = [pass EXCEPT ![p] = None]
        /\ UNCHANGED <<window, usable, seen, refs, restore, now, edits, archive, horizon>>
        /\ faults' \in Nat
    BY <1>1, <1>10 DEF PatchStatus, PassAborts, EndPass, storeVars, TypeOK
  <2>2. status' \in Statuses
    <3>1. CASE PatchStatus(p)
      <4>1. pass[p] # None /\ pass[p] \in Passes
        BY <1>1, <3>1 DEF PatchStatus, Phase, TypeOK
      <4>2. status \in Statuses /\ pass[p].verdict \in Statuses
        BY <1>1, <4>1 DEF TypeOK, Passes
      <4>3. MergePatch(status, pass[p].original, pass[p].verdict) \in Statuses
        BY <4>2 DEF MergePatch, Statuses
      <4> QED
        BY <3>1, <4>2, <4>3 DEF PatchStatus, Verdict
    <3>2. CASE PassAborts(p)
      BY <1>1, <3>2 DEF PassAborts, storeVars, TypeOK
    <3> QED
      BY <1>10, <3>1, <3>2
  <2>3. TypeOK'
    BY <1>1, <2>1, <2>2 DEF TypeOK
  <2>4. \A q \in Replicas : pass'[q] = IF q = p THEN None ELSE pass[q]
    BY <1>1, <2>1 DEF TypeOK
  <2> QED
    BY <2>1, <2>3, <2>4, QuietStep
<1>11. CASE UNCHANGED vars
  <2>1. TypeOK'
    BY <1>1, <1>11 DEF vars, storeVars, TypeOK
  <2> QED
    BY <1>11, <2>1, QuietStep DEF vars
<1> QED
  BY <1>2, <1>3, <1>4, <1>5, <1>6, <1>8, <1>9, <1>10, <1>11, CaptureKeeps, TickKeeps,
     RestoreListKeeps, CheckPassesKeeps, ListSnapshotsKeeps, DeleteOldestKeeps
  DEF Next, PassStep, Environment, Restore

(* Every variable keeps its type, whatever replicas, users and faults do.  *)
THEOREM ControllerTypeOK == Representable /\ Spec => []TypeOK
<1> SUFFICES ASSUME Representable PROVE Spec => []TypeOK
  BY DEF Representable
<1>1. SweepInv => TypeOK
  BY DEF SweepInv
<1> QED
  BY <1>1, SweepInvInit, SweepInvStep, PTL DEF Spec

(* The guarantee spec.retention documents: however sweeps of any number of *)
(* replicas, captures and edits of the window interleave, and wherever a   *)
(* sweep stops, a target that no window has left resolves to what it     *)
(* would have resolved to had nothing been deleted.                        *)
THEOREM SweepsKeepWindow == Representable /\ Spec => []WindowResolves
<1> SUFFICES ASSUME Representable PROVE Spec => []WindowResolves
  BY DEF Representable
<1>1. SweepInv => WindowResolves
  <2> SUFFICES ASSUME SweepInv, NEW moment \in Moments, moment >= horizon,
                      NEW ref \in archive, Selects(archive, moment, ref)
               PROVE  Selects(refs, moment, ref)
    BY DEF WindowResolves
  <2>1. ref \in refs
    <3> SUFFICES ASSUME ref \notin refs PROVE FALSE
      OBVIOUS
    <3>1. PICK anchor \in refs : KeyLess(ref, anchor) /\ anchor.at < horizon
      BY DEF SweepInv, OnlySupersededGone, Superseded
    <3>2. anchor \in archive /\ anchor.at \in Nat /\ horizon \in Nat /\ moment \in Nat
      BY ControllerAssumption DEF SweepInv, OnlySupersededGone, TypeOK, Refs, Moments
    <3>3. anchor.at <= moment
      BY <3>1, <3>2
    <3> QED
      BY <3>1, <3>2, <3>3 DEF Selects, IsNewest, AtOrBefore
  <2> QED
    BY <2>1 DEF SweepInv, OnlySupersededGone, Selects, IsNewest, AtOrBefore
<1> QED
  BY <1>1, SweepInvInit, SweepInvStep, PTL DEF Spec

(* pruneSuperseded deletes oldest first, so an interrupted sweep leaves no *)
(* hole: a target resolves to the configuration in force then, or not.     *)
THEOREM SweepsNeverMisresolve == Representable /\ Spec => []NeverMisresolves
<1> SUFFICES ASSUME Representable PROVE Spec => []NeverMisresolves
  BY DEF Representable
<1>1. SweepInv => NeverMisresolves
  BY DEF SweepInv, EndSegment, NeverMisresolves, Selects, IsNewest, AtOrBefore, OnlySupersededGone
<1> QED
  BY <1>1, SweepInvInit, SweepInvStep, PTL DEF Spec

(* Between a restore's List and its Read no sweep deletes what it chose,   *)
(* unless the target leaves the window meanwhile.                          *)
THEOREM SweepsSpareRestores == Representable /\ Spec => []RestoreReadable
<1> SUFFICES ASSUME Representable PROVE Spec => []RestoreReadable
  BY DEF Representable
<1>1. SweepInv => RestoreReadable
  <2> SUFFICES ASSUME SweepInv, restore # None, restore.moment >= horizon,
                      restore.chosen \notin refs
               PROVE  FALSE
    BY DEF RestoreReadable
  <2>1. restore.chosen \in archive
    BY DEF SweepInv, ChoiceSound
  <2>2. PICK anchor \in refs : KeyLess(restore.chosen, anchor) /\ anchor.at < horizon
    BY <2>1 DEF SweepInv, OnlySupersededGone, Superseded
  <2>3. /\ anchor \in archive /\ anchor.at \in Nat /\ horizon \in Nat /\ now \in Nat
        /\ Delay \in Nat /\ restore.moment \in Nat /\ restore.listed \in Nat
    BY ControllerAssumption DEF SweepInv, OnlySupersededGone, TypeOK, Refs
  <2>4. anchor.at <= restore.moment
    BY <2>2, <2>3
  <2>5. restore.listed <= anchor.at + Delay /\ now <= restore.listed + Delay
    BY <2>2, <2>3, <2>4 DEF SweepInv, ChoiceSound
  <2>6. horizon = 0 \/ horizon + 2 * Delay <= now
    BY DEF SweepInv, HorizonFar
  <2> QED
    BY <2>2, <2>3, <2>5, <2>6
<1> QED
  BY <1>1, SweepInvInit, SweepInvStep, PTL DEF Spec

(* Sweeps forget only what is superseded, oldest first, and captures land  *)
(* inside the promise: the controller implements the abstract history.     *)
THEOREM ControllerImplementsHistory == Representable /\ Spec => HistoryImplemented
<1> SUFFICES ASSUME Representable PROVE Spec => HistoryImplemented
  BY DEF Representable
<1>1. Init => H!Init
  BY DEF Init, H!Init
<1>2. SweepInv /\ [Next]_vars => [H!Next]_H!history
  <2> SUFFICES ASSUME SweepInv, [Next]_vars, ~UNCHANGED <<archive, refs, horizon>>
               PROVE  H!Next
    BY DEF H!history
  <2>1. ASSUME NEW lag \in 0 .. Delay, NEW gen \in Gens, NEW hash \in Hashes,
               Capture(lag, gen, hash)
        PROVE  H!Write
    <3> DEFINE new == [at |-> now - lag, gen |-> gen, hash |-> hash]
    <3>1. /\ refs' = refs \union {new} /\ archive' = archive \union {new}
          /\ horizon' = horizon /\ lag <= now
      BY <2>1 DEF Capture
    <3>2. new.at >= horizon
      BY <3>1, ControllerAssumption DEF SweepInv, TypeOK, HorizonFar
    <3> HIDE DEF new
    <3>3. CASE new \in archive
      <4>1. new \in Refs /\ horizon \in Nat /\ new.at \in Nat
        BY <3>3 DEF SweepInv, TypeOK, Refs
      <4>2. ~Superseded(new)
        BY <3>2, <4>1, SupersededIsOld DEF SweepInv
      <4>3. new \in refs
        BY <3>3, <4>2 DEF SweepInv, OnlySupersededGone
      <4> QED
        BY <3>1, <3>3, <4>3
    <3>4. CASE new \notin archive
      BY <3>1, <3>2, <3>4 DEF H!Write
    <3> QED
      BY <3>3, <3>4
  <2>2. ASSUME NEW p \in Replicas, DeleteOldest(p) PROVE H!Forget
    <3>1. PICK ref \in pass[p].left :
             /\ \A other \in pass[p].left : ~KeyLess(other, ref)
             /\ refs' = refs \ {ref}
             /\ UNCHANGED <<archive, horizon>>
      BY <2>2 DEF DeleteOldest
    <3>2. ref \in refs
      BY <3>1
    <3>3. Superseded(ref) /\ \A held \in refs : KeyLess(held, ref) => held \in pass[p].left
      BY <2>2, <3>1 DEF DeleteOldest, Phase, SweepInv, PlanSound
    <3> QED
      BY <3>1, <3>2, <3>3 DEF Superseded, H!Forget, H!KeyLess, KeyLess
  <2>3. ASSUME NEW p \in Replicas, CheckPasses(p) PROVE H!Advance
    <3>1. pass[p] \in Passes /\ pass[p].asked \in Nat /\ now \in Nat /\ horizon \in Nat
      BY <2>3, ControllerAssumption DEF CheckPasses, Phase, SweepInv, TypeOK, Passes
    <3>2. horizon' >= horizon /\ UNCHANGED <<archive, refs>>
      BY <2>3, <3>1 DEF CheckPasses, Later, Cutoff
    <3>3. horizon' \in Nat
      BY <2>3, <3>1 DEF CheckPasses, Later, Cutoff
    <3> QED
      BY <3>1, <3>2, <3>3 DEF H!Advance
  <2> QED
    BY <2>1, <2>2, <2>3 DEF Next, PassStep, Environment, Restore, H!Next, vars, storeVars,
       EditRetention, ToggleUsable, Edit, Tick, RestoreList, RestoreRead, ReconcileBegin,
       CheckFails, ListSnapshots, SweepDone, SweepStops, PatchStatus, PassAborts, Observe
<1> QED
  BY <1>1, <1>2, SweepInvInit, SweepInvStep, PTL DEF Spec, HistoryImplemented, H!Spec

=============================================================================
