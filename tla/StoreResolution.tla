--------------------------- MODULE StoreResolution ---------------------------
(***************************************************************************)
(* From a ConfigStore to a client for its bucket (internal/store/          *)
(* resolver.go, barman.go).                                                *)
(*                                                                         *)
(* Hooks, webhook and controllers of one pod resolve ConfigStores          *)
(* concurrently.  A configuration derived from a barman ObjectStore comes  *)
(* from a cache that all of them share and that holds an answer for TTL;   *)
(* the lock covers a lookup or a store, not the read between them.  The    *)
(* Secret is read afresh for every client, once per field; two of the      *)
(* fields stand for all of them.                                           *)
(*                                                                         *)
(* Time is kept as what is left of an entry's life and as the age of a     *)
(* call, so that it need not be bounded.  A call is at most Delay old: the *)
(* callers give it a deadline.                                             *)
(***************************************************************************)
EXTENDS Naturals

CONSTANTS
    Callers,        \* goroutines of one pod
    Derived,        \* configurations an ObjectStore may have
    Inline,         \* configurations a ConfigStore may have itself; one that
                    \* is served is told apart by where it comes from
    Unsupported,    \* those of either with a scheme other than s3, or without
                    \* s3Credentials
    Broken,         \* those of an ObjectStore without destination, or with
                    \* the credentials of another provider
    Credentials,    \* contents of the Secret
    TTL, Delay,
    Failed,         \* the answer of a resolution that returned an error
    None            \* absent, nothing cached, no call, no answer yet

CONSTANTS
    MaxEdits,       \* bound on the edits
    MaxFaults       \* bound on requests that fail

ASSUME ResolutionAssumption ==
    /\ TTL \in Nat \ {0} /\ Delay \in Nat \ {0}
    /\ MaxEdits \in Nat /\ MaxFaults \in Nat
    /\ Unsupported \subseteq Derived \union Inline
    /\ Derived \intersect Inline \subseteq Unsupported
    /\ Broken \intersect (Derived \union Inline) = {}
    /\ None \notin Derived \union Inline \union Broken \union Credentials

VARIABLES
    inline,         \* spec.configuration, or None when spec.derivedFrom is set
    objectStore,    \* the ObjectStore
    secret,         \* the Secret
    entry,          \* its entry in the cache
    call,           \* the resolutions in progress
    answer,         \* the result of each caller's last call, between calls
    gone,           \* ticks since the ObjectStore had a configuration
    edits, faults

vars == <<inline, objectStore, secret, entry, call, answer, gone, edits, faults>>

-----------------------------------------------------------------------------

Configurations == (Derived \union Inline) \ Unsupported

(* What nobody can tell apart any more from something longer ago.          *)
Horizon == TTL + 2 * Delay + 1

Client(configuration, key, secretKey) ==
    [configuration |-> configuration, key |-> key, secretKey |-> secretKey]

(* What a resolution should come to now.                                   *)
Current ==
    LET configuration == IF inline # None THEN inline ELSE objectStore
    IN  IF configuration \in Configurations /\ secret # None
        THEN Client(configuration, secret, secret) ELSE Failed

Init ==
    /\ inline \in Inline \union {None}
    /\ objectStore \in Derived \union {None}
    /\ secret \in Credentials
    /\ entry = None
    /\ call = [c \in Callers |-> None]
    /\ answer = [c \in Callers |-> None]
    /\ gone = [d \in Derived |-> IF d = objectStore THEN 0 ELSE Horizon]
    /\ edits = 0 /\ faults = 0

-----------------------------------------------------------------------------
(* Users and the clock.                                                    *)

Edit ==
    /\ edits < MaxEdits
    /\ edits' = edits + 1
    /\ UNCHANGED <<entry, call, answer, faults>>

EditConfigStore(configuration) ==
    /\ configuration # inline
    /\ inline' = configuration
    /\ UNCHANGED <<objectStore, secret, gone>>
    /\ Edit

EditObjectStore(configuration) ==
    /\ configuration # objectStore
    /\ objectStore' = configuration
    /\ gone' = IF configuration \in Derived THEN [gone EXCEPT ![configuration] = 0] ELSE gone
    /\ UNCHANGED <<inline, secret>>
    /\ Edit

RotateSecret(credentials) ==
    /\ credentials # secret
    /\ secret' = credentials
    /\ UNCHANGED <<inline, objectStore, gone>>
    /\ Edit

(* Mutant: entries do not expire.                                          *)
KeepEntry == entry

(* An entry is used until now is after expiresAt.                          *)
Aged ==
    IF entry = None \/ entry.left = 0 THEN None ELSE [entry EXCEPT !.left = @ - 1]

Tick ==
    /\ \A c \in Callers : call[c] # None => call[c].age < Delay
    /\ entry' = Aged
    /\ call' = [c \in Callers |->
                   IF call[c] = None THEN None ELSE [call[c] EXCEPT !.age = @ + 1]]
    /\ gone' = [d \in Derived |->
                   IF d = objectStore \/ gone[d] = Horizon THEN gone[d] ELSE gone[d] + 1]
    /\ UNCHANGED <<inline, objectStore, secret, answer, edits, faults>>

-----------------------------------------------------------------------------
(* Resolve and Backend.                                                    *)

Phase(c, phase) == call[c] # None /\ call[c].phase = phase

Return(c, result) ==
    /\ answer' = [answer EXCEPT ![c] = result]
    /\ call' = [call EXCEPT ![c] = None]

(* On to the client, with a configuration whose scheme is implemented.     *)
Proceed(c, configuration) ==
    IF configuration \in Unsupported THEN Return(c, Failed)
    ELSE /\ call' = [call EXCEPT ![c] =
               [phase |-> "key", configuration |-> configuration, key |-> None,
                age |-> IF call[c] = None THEN 0 ELSE call[c].age]]
         /\ answer' = [answer EXCEPT ![c] = None]

(* Resolve up to the read of the ObjectStore.                              *)
Resolve(c) ==
    /\ call[c] = None
    /\ CASE inline # None -> Proceed(c, inline)
         [] inline = None /\ entry # None -> Proceed(c, entry.derived)
         [] inline = None /\ entry = None ->
               /\ call' = [call EXCEPT ![c] =
                      [phase |-> "get", configuration |-> None, key |-> None, age |-> 0]]
               /\ answer' = [answer EXCEPT ![c] = None]
    /\ UNCHANGED <<inline, objectStore, secret, entry, gone, edits, faults>>

(* The read: an ObjectStore that is absent or refused is an error.         *)
GetObjectStore(c) ==
    /\ Phase(c, "get")
    /\ IF objectStore \in Derived
       THEN /\ call' = [call EXCEPT ![c].phase = "store",
                                    ![c].configuration = objectStore]
            /\ UNCHANGED answer
       ELSE Return(c, Failed)
    /\ UNCHANGED <<inline, objectStore, secret, entry, gone, edits, faults>>

(* Mutant: the time a call may take is added to the life of its entry.     *)
StoreLonger(c) ==
    /\ Phase(c, "store")
    /\ entry' = [derived |-> call[c].configuration, left |-> TTL + Delay]
    /\ Proceed(c, call[c].configuration)
    /\ UNCHANGED <<inline, objectStore, secret, gone, edits, faults>>

(* The entry lives for TTL from when it is stored, not from the read; a    *)
(* scheme that is not implemented is found out after that.                 *)
StoreEntry(c) ==
    /\ Phase(c, "store")
    /\ entry' = [derived |-> call[c].configuration, left |-> TTL]
    /\ Proceed(c, call[c].configuration)
    /\ UNCHANGED <<inline, objectStore, secret, gone, edits, faults>>

(* s3Backend reads the Secret for the access key id ...                    *)
ReadKey(c) ==
    /\ Phase(c, "key")
    /\ IF secret = None THEN Return(c, Failed)
       ELSE /\ call' = [call EXCEPT ![c].phase = "secret", ![c].key = secret]
            /\ UNCHANGED answer
    /\ UNCHANGED <<inline, objectStore, secret, entry, gone, edits, faults>>

(* ... and again for the secret access key.                                *)
ReadSecretKey(c) ==
    /\ Phase(c, "secret")
    /\ Return(c, IF secret = None THEN Failed
                 ELSE Client(call[c].configuration, call[c].key, secret))
    /\ UNCHANGED <<inline, objectStore, secret, entry, gone, edits, faults>>

(* A request fails or the deadline passes.                                 *)
CallFails(c) ==
    /\ call[c] # None
    /\ faults < MaxFaults
    /\ faults' = faults + 1
    /\ Return(c, Failed)
    /\ UNCHANGED <<inline, objectStore, secret, entry, gone, edits>>

-----------------------------------------------------------------------------

Users ==
    \/ \E configuration \in Inline \union {None} : EditConfigStore(configuration)
    \/ \E configuration \in Derived \union Broken \union {None} : EditObjectStore(configuration)
    \/ \E credentials \in Credentials \union {None} : RotateSecret(credentials)

Step(c) ==
    \/ Resolve(c) \/ GetObjectStore(c) \/ StoreEntry(c) \/ ReadKey(c) \/ ReadSecretKey(c)

Next ==
    \/ Users
    \/ Tick
    \/ \E c \in Callers : Step(c) \/ CallFails(c)

Spec == Init /\ [][Next]_vars

(* Callers come back, requests are answered and time passes.               *)
Fairness == WF_vars(Tick) /\ \A c \in Callers : WF_vars(Step(c))

FairSpec == Spec /\ Fairness

-----------------------------------------------------------------------------
(* Properties.                                                             *)

TypeOK ==
    /\ inline \in Inline \union {None}
    /\ objectStore \in Derived \union Broken \union {None}
    /\ secret \in Credentials \union {None}
    /\ entry \in [derived : Derived, left : 0 .. TTL] \union {None}
    /\ call \in [Callers -> {None} \union
                   [phase : {"get", "store", "key", "secret"},
                    configuration : Derived \union Inline \union {None},
                    key : Credentials \union {None}, age : 0 .. Delay]]
    /\ answer \in [Callers -> {None, Failed} \union
                     [configuration : Configurations, key : Credentials,
                      secretKey : Credentials]]
    /\ gone \in [Derived -> 0 .. Horizon]
    /\ edits \in Nat /\ faults \in Nat

(* However slowly reads of the ObjectStore are stored and whichever is     *)
(* stored last, a configuration is at most TTL and one call older than the *)
(* ObjectStore when a caller gets it from the cache, and its own time in   *)
(* use comes on top.                                                       *)
StalenessBounded ==
    \A c \in Callers :
        call[c] # None /\ call[c].configuration \in Derived
        => gone[call[c].configuration] <= TTL + Delay + call[c].age

(* Once edits and faults stop, every resolution is current for good: no    *)
(* cached configuration outlives its source, no error is kept longer, and  *)
(* no client keeps credentials torn by a rotation between two reads.       *)
ResolutionConverges == <>[](\A c \in Callers : answer[c] \in {None, Current})
=============================================================================
