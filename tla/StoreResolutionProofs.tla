------------------------ MODULE StoreResolutionProofs ------------------------
(***************************************************************************)
(* How old a configuration can be that a caller gets from the cache, for   *)
(* every number of callers, every lifetime of an entry and every deadline. *)
(***************************************************************************)
EXTENDS StoreResolution, TLAPS

(* What the ObjectStore says now is not gone.                              *)
SourceFresh == objectStore \in Derived => gone[objectStore] = 0

(* What an entry has lived and what the call took that stored it.          *)
EntryFresh == entry # None => gone[entry.derived] + entry.left <= TTL + Delay

(* A read that is yet to be stored is as old as its call at most; what is  *)
(* in use came from the cache when the call was younger.                   *)
CallFresh(k) ==
    /\ k.phase = "store" => k.configuration \in Derived /\ gone[k.configuration] <= k.age
    /\ k.phase \in {"key", "secret"} =>
          /\ k.configuration \in Configurations
          /\ k.configuration \in Derived => gone[k.configuration] <= TTL + Delay + k.age
    /\ k.phase = "get" => k.configuration = None
    /\ k.phase = "secret" => k.key \in Credentials

ResolutionInv ==
    /\ TypeOK /\ SourceFresh /\ EntryFresh
    /\ \A c \in Callers : call[c] # None => CallFresh(call[c])

Calls == [phase : {"get", "store", "key", "secret"},
          configuration : Derived \union Inline \union {None},
          key : Credentials \union {None}, age : 0 .. Delay]

Answers == {None, Failed} \union
           [configuration : Configurations, key : Credentials, secretKey : Credentials]

-----------------------------------------------------------------------------

LEMMA ResolutionInvInit == Init => ResolutionInv
<1> SUFFICES ASSUME Init PROVE ResolutionInv
  OBVIOUS
<1>1. Horizon \in Nat /\ 0 \in 0 .. Horizon /\ Horizon \in 0 .. Horizon
  BY ResolutionAssumption DEF Horizon
<1>2. gone \in [Derived -> 0 .. Horizon]
  BY <1>1 DEF Init
<1>3. TypeOK
  BY <1>2 DEF Init, TypeOK
<1> QED
  BY <1>3 DEF Init, ResolutionInv, SourceFresh, EntryFresh

(* A step of one caller: its call and its answer are sound, and so is what *)
(* it stores.                                                              *)
LEMMA CallerStep ==
    ASSUME ResolutionInv, NEW c \in Callers, NEW next, NEW reply \in Answers,
           call' = [call EXCEPT ![c] = next],
           next # None => next \in Calls /\ CallFresh(next),
           answer' = [answer EXCEPT ![c] = reply],
           entry' # None => /\ entry' \in [derived : Derived, left : 0 .. TTL]
                            /\ gone[entry'.derived] + entry'.left <= TTL + Delay,
           UNCHANGED <<inline, objectStore, secret, gone, edits>>, faults' \in Nat
    PROVE  ResolutionInv'
<1>1. call' \in [Callers -> {None} \union Calls]
  BY DEF ResolutionInv, TypeOK, Calls
<1>2. answer' \in [Callers -> Answers]
  BY DEF ResolutionInv, TypeOK, Answers
<1>3. TypeOK'
  BY <1>1, <1>2 DEF ResolutionInv, TypeOK, Calls, Answers
<1>4. \A d \in Callers : call'[d] = IF d = c THEN next ELSE call[d]
  BY DEF ResolutionInv, TypeOK
<1>5. SourceFresh' /\ EntryFresh'
  BY DEF ResolutionInv, SourceFresh, EntryFresh
<1>6. (\A d \in Callers : call[d] # None => CallFresh(call[d]))'
  <2> SUFFICES ASSUME NEW d \in Callers, call'[d] # None PROVE CallFresh(call[d])'
    OBVIOUS
  <2>1. CallFresh(call'[d])
    BY <1>4 DEF ResolutionInv
  <2> QED
    BY <2>1 DEF CallFresh
<1> QED
  BY <1>3, <1>5, <1>6 DEF ResolutionInv

(* What a call goes on with is fresh when the configuration it takes is,   *)
(* from the cache or from its own read.                                    *)
LEMMA ProceedSound ==
    ASSUME ResolutionInv, NEW c \in Callers, NEW configuration \in Derived \union Inline,
           Proceed(c, configuration),
           call[c] # None => call[c] \in Calls,
           configuration \in Derived /\ configuration \notin Unsupported =>
               gone[configuration] <= TTL + Delay + (IF call[c] = None THEN 0 ELSE call[c].age)
    PROVE  \E next \in Calls \union {None}, reply \in Answers :
               /\ call' = [call EXCEPT ![c] = next]
               /\ answer' = [answer EXCEPT ![c] = reply]
               /\ next # None => next \in Calls /\ CallFresh(next)
<1>1. CASE configuration \in Unsupported
  <2>1. answer' = [answer EXCEPT ![c] = Failed] /\ call' = [call EXCEPT ![c] = None]
    BY <1>1 DEF Proceed, Return
  <2> QED
    BY <2>1 DEF Answers
<1>2. CASE configuration \notin Unsupported
  <2> DEFINE age == IF call[c] = None THEN 0 ELSE call[c].age
             next == [phase |-> "key", configuration |-> configuration, key |-> None, age |-> age]
  <2>1. call' = [call EXCEPT ![c] = next] /\ answer' = [answer EXCEPT ![c] = None]
    BY <1>2 DEF Proceed
  <2>2. age \in 0 .. Delay
    BY ResolutionAssumption DEF Calls
  <2> HIDE DEF age
  <2>3. next \in Calls
    BY <2>2 DEF Calls
  <2>4. CallFresh(next)
    BY <1>2 DEF CallFresh, Configurations, age
  <2> QED
    BY <2>1, <2>3, <2>4 DEF Answers
<1> QED
  BY <1>1, <1>2

LEMMA TickKeeps ==
    ASSUME ResolutionInv, Tick
    PROVE  ResolutionInv'
<1>1. /\ \A c \in Callers : call[c] # None => call[c].age < Delay /\ call[c] \in Calls
      /\ entry' = Aged
      /\ call' = [c \in Callers |->
                     IF call[c] = None THEN None ELSE [call[c] EXCEPT !.age = @ + 1]]
      /\ gone' = [d \in Derived |->
                     IF d = objectStore \/ gone[d] = Horizon THEN gone[d] ELSE gone[d] + 1]
      /\ UNCHANGED <<inline, objectStore, secret, answer, edits, faults>>
  BY DEF Tick, ResolutionInv, TypeOK, Calls
<1>2. /\ TTL \in Nat /\ Delay \in Nat /\ Horizon \in Nat
      /\ gone \in [Derived -> 0 .. Horizon]
  BY ResolutionAssumption DEF ResolutionInv, TypeOK, Horizon
<1>3. gone' \in [Derived -> 0 .. Horizon] /\ \A d \in Derived : gone'[d] <= gone[d] + 1
  BY <1>1, <1>2
<1>4. ASSUME NEW c \in Callers, call'[c] # None
      PROVE  /\ call[c] # None /\ call[c] \in Calls /\ call'[c] \in Calls
             /\ call'[c].age = call[c].age + 1 /\ call'[c].phase = call[c].phase
             /\ call'[c].configuration = call[c].configuration /\ call'[c].key = call[c].key
  BY <1>1, <1>2, <1>4 DEF Calls
<1>5. ASSUME entry' # None
      PROVE  /\ entry # None /\ entry \in [derived : Derived, left : 0 .. TTL]
             /\ entry' \in [derived : Derived, left : 0 .. TTL]
             /\ entry'.derived = entry.derived /\ entry'.left = entry.left - 1
  BY <1>1, <1>2, <1>5 DEF Aged, ResolutionInv, TypeOK
<1>6. call' \in [Callers -> {None} \union Calls]
  BY <1>1, <1>4
<1>7. TypeOK'
  <2>1. entry' \in [derived : Derived, left : 0 .. TTL] \union {None}
    BY <1>5
  <2> QED
    BY <1>1, <1>3, <1>6, <2>1 DEF ResolutionInv, TypeOK, Calls
<1>8. SourceFresh'
  BY <1>1 DEF ResolutionInv, SourceFresh
<1>9. EntryFresh'
  <2> SUFFICES ASSUME entry' # None
               PROVE  gone'[entry'.derived] + entry'.left <= TTL + Delay
    BY DEF EntryFresh
  <2>1. gone[entry.derived] + entry.left <= TTL + Delay
    BY <1>5 DEF ResolutionInv, EntryFresh
  <2>2. /\ entry.derived \in Derived /\ gone[entry.derived] \in Nat /\ entry.left \in Nat
        /\ gone'[entry.derived] \in Nat /\ gone'[entry.derived] <= gone[entry.derived] + 1
    BY <1>2, <1>3, <1>5
  <2> QED
    BY <1>2, <1>5, <2>1, <2>2
<1>10. (\A c \in Callers : call[c] # None => CallFresh(call[c]))'
  <2> SUFFICES ASSUME NEW c \in Callers, call'[c] # None PROVE CallFresh(call[c])'
    OBVIOUS
  <2>1. CallFresh(call[c])
    BY <1>4 DEF ResolutionInv
  <2>2. call[c].age \in Nat
    BY <1>4 DEF Calls
  <2>3. \A d \in Derived : gone[d] \in Nat /\ gone'[d] \in Nat /\ gone'[d] <= gone[d] + 1
    BY <1>2, <1>3
  <2>4. ASSUME call[c].phase = "store"
        PROVE  gone'[call[c].configuration] <= call[c].age + 1
    BY <2>1, <2>2, <2>3, <2>4 DEF CallFresh
  <2>5. ASSUME call[c].phase \in {"key", "secret"}, call[c].configuration \in Derived
        PROVE  gone'[call[c].configuration] <= TTL + Delay + (call[c].age + 1)
    <3>1. gone[call[c].configuration] <= TTL + Delay + call[c].age
      BY <2>1, <2>5 DEF CallFresh
    <3> QED
      BY <1>2, <2>2, <2>3, <2>5, <3>1
  <2> QED
    BY <1>4, <2>1, <2>4, <2>5 DEF CallFresh
<1> QED
  BY <1>7, <1>8, <1>9, <1>10 DEF ResolutionInv

(* An edit of the ObjectStore brings one configuration back and makes no   *)
(* other older.                                                            *)
LEMMA UsersKeep ==
    ASSUME ResolutionInv, Users
    PROVE  ResolutionInv'
<1>1. UNCHANGED <<entry, call, answer, faults>> /\ edits' = edits + 1 /\ edits \in Nat
  BY DEF Users, EditConfigStore, EditObjectStore, RotateSecret, Edit, ResolutionInv, TypeOK
<1>2. /\ inline' \in Inline \union {None}
      /\ objectStore' \in Derived \union Broken \union {None}
      /\ secret' \in Credentials \union {None}
  BY DEF Users, EditConfigStore, EditObjectStore, RotateSecret, ResolutionInv, TypeOK
<1>3. gone \in [Derived -> 0 .. Horizon] /\ Horizon \in Nat /\ TTL \in Nat /\ Delay \in Nat
  BY ResolutionAssumption DEF ResolutionInv, TypeOK, Horizon
<1>4. /\ gone' \in [Derived -> 0 .. Horizon]
      /\ \A d \in Derived : gone'[d] = gone[d] \/ gone'[d] = 0
      /\ SourceFresh'
  <2>1. CASE UNCHANGED <<objectStore, gone>>
    BY <1>3, <2>1 DEF ResolutionInv, SourceFresh
  <2>2. ASSUME NEW configuration, EditObjectStore(configuration)
        PROVE  /\ gone' \in [Derived -> 0 .. Horizon]
               /\ \A d \in Derived : gone'[d] = gone[d] \/ gone'[d] = 0
               /\ SourceFresh'
    BY <1>3, <2>2 DEF EditObjectStore, SourceFresh
  <2> QED
    BY <2>1, <2>2 DEF Users, EditConfigStore, RotateSecret
<1>5. TypeOK'
  BY <1>1, <1>2, <1>4 DEF ResolutionInv, TypeOK
<1>6. \A d \in Derived : gone[d] \in Nat /\ gone'[d] \in Nat /\ gone'[d] <= gone[d]
  BY <1>3, <1>4
<1>7. EntryFresh'
  <2> SUFFICES ASSUME entry # None PROVE gone'[entry.derived] + entry.left <= TTL + Delay
    BY <1>1 DEF EntryFresh
  <2>1. /\ entry.derived \in Derived /\ entry.left \in Nat
        /\ gone[entry.derived] + entry.left <= TTL + Delay
    BY DEF ResolutionInv, TypeOK, EntryFresh
  <2> QED
    BY <1>3, <1>6, <2>1
<1>8. (\A c \in Callers : call[c] # None => CallFresh(call[c]))'
  <2> SUFFICES ASSUME NEW c \in Callers, call[c] # None PROVE CallFresh(call[c])'
    BY <1>1
  <2>1. CallFresh(call[c]) /\ call[c].age \in Nat /\ call'[c] = call[c]
    BY <1>1 DEF ResolutionInv, TypeOK
  <2>2. ASSUME call[c].configuration \in Derived, NEW n \in Nat, gone[call[c].configuration] <= n
        PROVE  gone'[call[c].configuration] <= n
    BY <1>6, <2>2
  <2>3. TTL + Delay + call[c].age \in Nat
    BY <1>3, <2>1
  <2> QED
    BY <2>1, <2>2, <2>3 DEF CallFresh
<1> QED
  BY <1>4, <1>5, <1>7, <1>8 DEF ResolutionInv

-----------------------------------------------------------------------------

LEMMA ResolutionInvStep == ResolutionInv /\ [Next]_vars => ResolutionInv'
<1> SUFFICES ASSUME ResolutionInv, [Next]_vars PROVE ResolutionInv'
  OBVIOUS
<1>1. /\ TypeOK /\ faults \in Nat /\ TTL \in Nat /\ Delay \in Nat /\ EntryFresh /\ SourceFresh
      /\ entry # None => /\ entry \in [derived : Derived, left : 0 .. TTL]
                         /\ gone[entry.derived] + entry.left <= TTL + Delay
      /\ answer \in [Callers -> Answers]
      /\ gone \in [Derived -> 0 .. Horizon] /\ Horizon \in Nat
  BY ResolutionAssumption DEF ResolutionInv, TypeOK, EntryFresh, Answers, Horizon
<1>2. \A d \in Derived : gone[d] \in Nat
  BY <1>1
<1>3. ASSUME NEW c \in Callers, Resolve(c) PROVE ResolutionInv'
  <2>1. /\ call[c] = None
        /\ UNCHANGED <<inline, objectStore, secret, entry, gone, edits, faults>>
    BY <1>3 DEF Resolve
  <2>2. ASSUME NEW configuration \in Derived \union Inline, Proceed(c, configuration),
               configuration \in Derived /\ configuration \notin Unsupported =>
                   gone[configuration] <= TTL + Delay
        PROVE  ResolutionInv'
    <3>1. configuration \in Derived /\ configuration \notin Unsupported =>
               gone[configuration] <= TTL + Delay + (IF call[c] = None THEN 0 ELSE call[c].age)
      BY <1>1, <2>1, <2>2
    <3>2. PICK next \in Calls \union {None}, reply \in Answers :
               /\ call' = [call EXCEPT ![c] = next]
               /\ answer' = [answer EXCEPT ![c] = reply]
               /\ next # None => next \in Calls /\ CallFresh(next)
      BY <2>1, <2>2, <3>1, ProceedSound
    <3> QED
      BY <1>1, <2>1, <3>2, CallerStep
  <2>3. CASE inline # None
    <3>1. Proceed(c, inline) /\ inline \in Inline
      BY <1>1, <1>3, <2>3 DEF Resolve, TypeOK
    <3>2. ~(inline \in Derived /\ inline \notin Unsupported)
      BY <3>1, ResolutionAssumption
    <3> QED
      BY <2>2, <3>1, <3>2
  <2>4. CASE inline = None /\ entry # None
    <3>1. Proceed(c, entry.derived) /\ entry.derived \in Derived /\ entry.left \in Nat
      BY <1>1, <1>3, <2>4 DEF Resolve
    <3>2. gone[entry.derived] <= TTL + Delay
      BY <1>1, <1>2, <2>4, <3>1
    <3> QED
      BY <2>2, <3>1, <3>2
  <2>5. CASE inline = None /\ entry = None
    <3> DEFINE next == [phase |-> "get", configuration |-> None, key |-> None, age |-> 0]
    <3>1. call' = [call EXCEPT ![c] = next] /\ answer' = [answer EXCEPT ![c] = None]
      BY <1>3, <2>5 DEF Resolve
    <3>2. next \in Calls /\ CallFresh(next) /\ None \in Answers
      BY <1>1 DEF Calls, CallFresh, Answers
    <3> QED
      BY <1>1, <2>1, <3>1, <3>2, CallerStep
  <2> QED
    BY <2>3, <2>4, <2>5
<1>4. ASSUME NEW c \in Callers, Return(c, Failed), faults' \in Nat,
             UNCHANGED <<inline, objectStore, secret, entry, gone, edits>>
      PROVE  ResolutionInv'
  <2>1. Failed \in Answers
    BY DEF Answers
  <2> QED
    BY <1>1, <1>4, <2>1, CallerStep DEF Return
<1>5. ASSUME NEW c \in Callers, NEW next \in Calls, CallFresh(next), UNCHANGED answer,
             call' = [call EXCEPT ![c] = next],
             UNCHANGED <<inline, objectStore, secret, entry, gone, edits, faults>>
      PROVE  ResolutionInv'
  <2>1. answer[c] \in Answers /\ answer' = [answer EXCEPT ![c] = answer[c]]
    BY <1>1, <1>5
  <2> QED
    BY <1>1, <1>5, <2>1, CallerStep
<1>6. ASSUME NEW c \in Callers, call[c] # None
      PROVE  call[c] \in Calls /\ CallFresh(call[c]) /\ call[c].age \in 0 .. Delay
  BY <1>1, <1>6 DEF TypeOK, Calls, ResolutionInv
<1>7. ASSUME NEW c \in Callers, GetObjectStore(c) PROVE ResolutionInv'
  <2>1. /\ call[c] # None /\ UNCHANGED <<inline, objectStore, secret, entry, gone, edits, faults>>
    BY <1>7 DEF GetObjectStore, Phase
  <2>2. CASE objectStore \in Derived
    <3> DEFINE next == [call[c] EXCEPT !.phase = "store", !.configuration = objectStore]
    <3>1. call' = [call EXCEPT ![c] = next] /\ UNCHANGED answer
      BY <1>1, <1>7, <2>2 DEF GetObjectStore, TypeOK
    <3>2. /\ next \in Calls /\ next.phase = "store" /\ next.configuration = objectStore
          /\ next.age = call[c].age
      BY <1>6, <2>1, <2>2 DEF Calls
    <3>3. next.age >= 0
      BY <1>6, <2>1, <3>2
    <3> HIDE DEF next
    <3>4. CallFresh(next)
      BY <1>1, <2>2, <3>2, <3>3 DEF CallFresh, SourceFresh
    <3> QED
      BY <1>5, <2>1, <3>1, <3>2, <3>4
  <2>3. CASE objectStore \notin Derived
    BY <1>1, <1>4, <1>7, <2>1, <2>3 DEF GetObjectStore
  <2> QED
    BY <2>2, <2>3
<1>8. ASSUME NEW c \in Callers, StoreEntry(c) PROVE ResolutionInv'
  <2> DEFINE configuration == call[c].configuration
  <2>1. /\ call[c] # None /\ call[c].phase = "store" /\ Proceed(c, configuration)
        /\ entry' = [derived |-> configuration, left |-> TTL]
        /\ UNCHANGED <<inline, objectStore, secret, gone, edits, faults>>
    BY <1>8 DEF StoreEntry, Phase
  <2>2. /\ configuration \in Derived /\ gone[configuration] <= call[c].age
        /\ call[c].age \in Nat /\ call[c].age <= Delay /\ gone[configuration] \in Nat
    BY <1>2, <1>6, <2>1 DEF CallFresh
  <2> HIDE DEF configuration
  <2>3. gone[configuration] <= TTL + Delay + (IF call[c] = None THEN 0 ELSE call[c].age)
    BY <1>1, <2>1, <2>2
  <2>4. PICK next \in Calls \union {None}, reply \in Answers :
             /\ call' = [call EXCEPT ![c] = next]
             /\ answer' = [answer EXCEPT ![c] = reply]
             /\ next # None => next \in Calls /\ CallFresh(next)
    BY <1>6, <2>1, <2>2, <2>3, ProceedSound
  <2>5. /\ entry' \in [derived : Derived, left : 0 .. TTL]
        /\ gone[entry'.derived] + entry'.left <= TTL + Delay
    BY <1>1, <2>1, <2>2
  <2> QED
    BY <1>1, <2>1, <2>4, <2>5, CallerStep
<1>9. ASSUME NEW c \in Callers, ReadKey(c) PROVE ResolutionInv'
  <2>1. /\ call[c] # None /\ call[c].phase = "key"
        /\ UNCHANGED <<inline, objectStore, secret, entry, gone, edits, faults>>
    BY <1>9 DEF ReadKey, Phase
  <2>2. CASE secret = None
    BY <1>1, <1>4, <1>9, <2>1, <2>2 DEF ReadKey
  <2>3. CASE secret # None
    <3> DEFINE next == [call[c] EXCEPT !.phase = "secret", !.key = secret]
    <3>1. call' = [call EXCEPT ![c] = next] /\ UNCHANGED answer /\ secret \in Credentials
      BY <1>1, <1>9, <2>3 DEF ReadKey, TypeOK
    <3>2. /\ next \in Calls /\ next.phase = "secret" /\ next.key = secret
          /\ next.age = call[c].age /\ next.configuration = call[c].configuration
      BY <1>6, <2>1, <3>1 DEF Calls
    <3> HIDE DEF next
    <3>3. CallFresh(next)
      BY <1>6, <2>1, <3>1, <3>2 DEF CallFresh
    <3> QED
      BY <1>5, <2>1, <3>1, <3>2, <3>3
  <2> QED
    BY <2>2, <2>3
<1>10. ASSUME NEW c \in Callers, ReadSecretKey(c) PROVE ResolutionInv'
  <2>1. /\ call[c] # None /\ call[c].phase = "secret"
        /\ UNCHANGED <<inline, objectStore, secret, entry, gone, edits, faults>>
        /\ Return(c, IF secret = None THEN Failed
                     ELSE Client(call[c].configuration, call[c].key, secret))
    BY <1>10 DEF ReadSecretKey, Phase
  <2>2. CASE secret = None
    BY <1>1, <1>4, <2>1, <2>2
  <2>3. CASE secret # None
    <3> DEFINE reply == Client(call[c].configuration, call[c].key, secret)
    <3>1. reply \in Answers
      BY <1>1, <1>6, <2>1, <2>3 DEF Answers, CallFresh, TypeOK, Client
    <3>2. answer' = [answer EXCEPT ![c] = reply] /\ call' = [call EXCEPT ![c] = None]
      BY <2>1, <2>3 DEF Return
    <3> QED
      BY <1>1, <2>1, <3>1, <3>2, CallerStep
  <2> QED
    BY <2>2, <2>3
<1>11. ASSUME NEW c \in Callers, CallFails(c) PROVE ResolutionInv'
  BY <1>1, <1>4, <1>11 DEF CallFails
<1>12. CASE UNCHANGED vars
  BY <1>12 DEF vars, ResolutionInv, TypeOK, SourceFresh, EntryFresh, CallFresh
<1> QED
  BY <1>3, <1>7, <1>8, <1>9, <1>10, <1>11, <1>12, TickKeeps, UsersKeep DEF Next, Step

-----------------------------------------------------------------------------

(* Every variable keeps its type; in particular a client is made of        *)
(* credentials that exist and a configuration that is served.              *)
THEOREM ResolutionTypeOK == Spec => []TypeOK
<1>1. ResolutionInv => TypeOK
  BY DEF ResolutionInv
<1> QED
  BY <1>1, ResolutionInvInit, ResolutionInvStep, PTL DEF Spec

(* derivedConfig stores what it read, however late: whichever of any       *)
(* number of concurrent reads is stored last, a configuration in use is    *)
(* older than the ObjectStore by TTL, one call and its own call at most.   *)
THEOREM ResolutionStalenessBounded == Spec => []StalenessBounded
<1>1. ResolutionInv => StalenessBounded
  <2> SUFFICES ASSUME ResolutionInv, NEW c \in Callers, call[c] # None,
                      call[c].configuration \in Derived
               PROVE  gone[call[c].configuration] <= TTL + Delay + call[c].age
    BY DEF StalenessBounded
  <2>1. /\ call[c] \in Calls /\ CallFresh(call[c]) /\ call[c].age \in Nat
        /\ gone[call[c].configuration] \in Nat /\ TTL \in Nat /\ Delay \in Nat
    BY ResolutionAssumption DEF ResolutionInv, TypeOK, Calls, Horizon
  <2>2. call[c].phase # "get"
    BY <2>1, ResolutionAssumption DEF CallFresh
  <2>3. CASE call[c].phase = "store"
    BY <2>1, <2>3 DEF CallFresh
  <2>4. CASE call[c].phase \in {"key", "secret"}
    BY <2>1, <2>4 DEF CallFresh
  <2> QED
    BY <2>1, <2>2, <2>3, <2>4 DEF Calls
<1> QED
  BY <1>1, ResolutionInvInit, ResolutionInvStep, PTL DEF Spec

=============================================================================
