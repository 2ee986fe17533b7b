----------------------------- MODULE CodeCache ------------------------------
(***************************************************************************)
(* The code cache (src/jit/code_cache.cpp).  Every call holds the cache's  *)
(* mutex, but the assumption tokens it reads change beside it, and publish *)
(* reads two of them and evicts in a loop: a publication is a sequence of  *)
(* steps, `pub`, with the mutex held; the other calls are one step.        *)
(*                                                                         *)
(* Compiled functions are numbered, have a mapping size and a target, and  *)
(* depend on at most one token.  access_clock wraps at MaxClock as it does *)
(* at 2^64.                                                                *)
(***************************************************************************)
EXTENDS Naturals, FiniteSets, FiniteSetsExt

CONSTANTS
  Key, Fingerprint, Token,
  Target,           \* the valid target profiles
  target_profile,   \* what the cache was constructed for, valid or not
  None,             \* no token, or no publication in progress
  Size,             \* mapping sizes of compiled functions
  maximum_entries, maximum_code_bytes,  \* CodeCacheLimits
  MaxClock,         \* stands for 2^64 - 1
  MaxPublications   \* bound on publish calls

ASSUME CacheAssumption ==
  /\ maximum_entries \in Nat /\ maximum_code_bytes \in Nat
  /\ Size \subseteq Nat
  /\ None \notin Token
  /\ MaxClock \in Nat \ {0} /\ MaxPublications \in Nat

VARIABLES
  entries, resident_code_bytes, access_clock, generation,
  valid,      \* assumption tokens that hold
  pub,        \* the publication that holds the mutex
  \* history
  older,      \* pairs of resident keys, the first less recently used
  stamped,    \* keys used since the clock last wrapped
  handles,    \* generations handed out, each with the function it came with
  fell        \* for each token, the last publication decided before it fell

cacheVars == <<entries, resident_code_bytes, access_clock, generation>>
vars == <<cacheVars, valid, pub, older, stamped, handles, fell>>

Function == [id : 1..MaxPublications, bytes : Size, target : Target,
             token : Token \cup {None}]

Entry == [fingerprint : Fingerprint, generation : Nat, last_access : 0..MaxClock,
          function : Function]

Publication == [key : Key, fingerprint : Fingerprint, function : Function,
                generation : Nat \ {0}, step : {"check", "evict"}]

Keys == DOMAIN entries

TypeOK ==
  /\ Keys \subseteq Key
  /\ entries \in [Keys -> Entry]
  /\ resident_code_bytes \in Nat
  /\ access_clock \in 0..MaxClock
  /\ generation \in Nat
  /\ valid \subseteq Token
  /\ pub \in Publication \cup {None}
  /\ older \subseteq Keys \X Keys
  /\ stamped \subseteq Keys
  /\ handles \subseteq Nat \X (1..MaxPublications)
  /\ fell \in [Token -> Nat]

Init ==
  /\ entries = [k \in {} |-> None]
  /\ resident_code_bytes = 0
  /\ access_clock = 0
  /\ generation = 0
  /\ valid = Token
  /\ pub = None
  /\ older = {}
  /\ stamped = {}
  /\ handles = {}
  /\ fell = [a \in Token |-> 0]

-----------------------------------------------------------------------------
(* Impl.                                                                    *)

\* assumptions().first_invalid() == nullptr
AssumptionsValid(f) == f.token \in valid \cup {None}

ClockWraps == access_clock = MaxClock

next_stamp == IF ClockWraps THEN 1 ELSE access_clock + 1

\* next_stamp for the entry of k in es, with its reset of every stamp.
Stamp(es, k) ==
  [e \in DOMAIN es |->
     [es[e] EXCEPT !.last_access = IF e = k THEN next_stamp
                                   ELSE IF ClockWraps THEN 0 ELSE @]]

\* The generation of k's entry is returned with its function.
Leased(k) == handles \cup {<<entries[k].generation, entries[k].function.id>>}

\* The history without k.
Others(k) == {p \in older : p[1] # k /\ p[2] # k}

\* k is used: the clock moves and the history with it.
Touch(k) ==
  /\ access_clock' = next_stamp
  /\ older' = Others(k) \cup ((Keys \ {k}) \X {k})
  /\ stamped' = (IF ClockWraps THEN {} ELSE stamped) \cup {k}

\* Mutant: the bytes of an erased entry stay accounted.
EraseEntryOnly(k) ==
  /\ entries' = [e \in Keys \ {k} |-> entries[e]]
  /\ resident_code_bytes' = resident_code_bytes
  /\ older' = Others(k)
  /\ stamped' = stamped \ {k}

\* Impl::erase
Erase(k) ==
  /\ entries' = [e \in Keys \ {k} |-> entries[e]]
  /\ resident_code_bytes' = resident_code_bytes - entries[k].function.bytes
  /\ older' = Others(k)
  /\ stamped' = stamped \ {k}

\* Mutant: any entry may go.
AnyVictim(k) == k \in Keys

\* The victim of evict_one: a smallest stamp, whichever comes first.
Victim(k) == k \in Keys /\ \A e \in Keys : entries[k].last_access <= entries[e].last_access

Matches(k, fingerprint) == k \in Keys /\ entries[k].fingerprint = fingerprint

-----------------------------------------------------------------------------
(* Calls of one step.                                                       *)

\* find: a hit refreshes the entry, an invalid entry is retired.  A miss and a
\* failed allocation of the key change nothing.
Find(k, fingerprint) ==
  /\ pub = None
  /\ Matches(k, fingerprint)
  /\ IF AssumptionsValid(entries[k].function)
     THEN /\ entries' = Stamp(entries, k)
          /\ Touch(k)
          /\ handles' = Leased(k)
          /\ UNCHANGED resident_code_bytes
     ELSE /\ Erase(k)
          /\ UNCHANGED <<access_clock, handles>>
  /\ UNCHANGED <<generation, valid, pub, fell>>

\* invalidate(key)
InvalidateKey(k) ==
  /\ pub = None
  /\ k \in Keys
  /\ Erase(k)
  /\ UNCHANGED <<access_clock, generation, valid, pub, handles, fell>>

\* invalidate(key, fingerprint)
InvalidateFingerprint(k, fingerprint) ==
  /\ pub = None
  /\ Matches(k, fingerprint)
  /\ Erase(k)
  /\ UNCHANGED <<access_clock, generation, valid, pub, handles, fell>>

Clear ==
  /\ pub = None
  /\ entries' = [k \in {} |-> None]
  /\ resident_code_bytes' = 0
  /\ older' = {}
  /\ stamped' = {}
  /\ UNCHANGED <<access_clock, generation, valid, pub, handles, fell>>

\* The last publication that has got past its test of the new function.
LastDecided == IF pub # None /\ pub.step = "check" THEN generation - 1 ELSE generation

\* Assumption::invalidate, by any thread at any time.
InvalidateToken(a) ==
  /\ a \in valid
  /\ valid' = valid \ {a}
  /\ fell' = [fell EXCEPT ![a] = LastDecided]
  /\ UNCHANGED <<cacheVars, pub, older, stamped, handles>>

-----------------------------------------------------------------------------
(* publish.                                                                 *)

\* What publish asks before it takes the mutex: the cache has a valid target
\* and the function was compiled for it.  A refused call, one without a key or
\* a function, and one that cannot copy its key change nothing.
Accepts(f) == target_profile \in Target /\ f.target = target_profile

\* The mutex is taken: a valid entry of this identity is reused, an invalid
\* one is erased; otherwise next_code_generation draws a generation.
Publish(k, fingerprint, f) ==
  /\ pub = None
  /\ Accepts(f)
  /\ LET again == Matches(k, fingerprint)
         begin == /\ generation' = generation + 1
                  /\ pub' = [key |-> k, fingerprint |-> fingerprint, function |-> f,
                             generation |-> generation + 1, step |-> "check"]
     IN  \/ /\ again /\ AssumptionsValid(entries[k].function)
            /\ entries' = Stamp(entries, k)
            /\ Touch(k)
            /\ handles' = Leased(k)
            /\ UNCHANGED <<resident_code_bytes, generation, pub>>
         \/ /\ again /\ ~AssumptionsValid(entries[k].function)
            /\ Erase(k)
            /\ begin
            /\ UNCHANGED <<access_clock, handles>>
         \/ /\ ~again
            /\ begin
            /\ UNCHANGED <<entries, resident_code_bytes, access_clock, older, stamped, handles>>
  /\ UNCHANGED <<valid, fell>>

\* publish returns the new function, cached or not.
Delivered == handles \cup {<<pub.generation, pub.function.id>>}

\* Mutant: only the limits are tested.
MayResideAnyAssumption(f) == maximum_entries # 0 /\ f.bytes <= maximum_code_bytes

\* What must hold of a function for it to become resident.
MayReside(f) ==
  AssumptionsValid(f) /\ maximum_entries # 0 /\ f.bytes <= maximum_code_bytes

\* The incoming function stays uncached, or replaces the key's entry.
PublishCheck ==
  /\ pub # None /\ pub.step = "check"
  /\ IF ~MayReside(pub.function)
     THEN /\ pub' = None
          /\ handles' = Delivered
          /\ UNCHANGED <<entries, resident_code_bytes, older, stamped>>
     ELSE /\ pub' = [pub EXCEPT !.step = "evict"]
          /\ IF pub.key \in Keys THEN Erase(pub.key)
             ELSE UNCHANGED <<entries, resident_code_bytes, older, stamped>>
          /\ UNCHANGED handles
  /\ UNCHANGED <<access_clock, generation, valid, fell>>

\* The condition of the eviction loop.
NeedsRoom(f) ==
  \/ Cardinality(Keys) >= maximum_entries
  \/ resident_code_bytes > maximum_code_bytes - f.bytes

\* One round of the loop: evict_one.
Evict(k) ==
  /\ pub # None /\ pub.step = "evict"
  /\ NeedsRoom(pub.function)
  /\ Victim(k)
  /\ Erase(k)
  /\ UNCHANGED <<access_clock, generation, valid, pub, handles, fell>>

\* emplace.
PublishInsert ==
  /\ pub # None /\ pub.step = "evict"
  /\ ~NeedsRoom(pub.function)
  /\ LET k == pub.key
         entry == [fingerprint |-> pub.fingerprint, generation |-> pub.generation,
                   last_access |-> 0, function |-> pub.function]
     IN  /\ entries' = Stamp([e \in Keys \cup {k} |-> IF e = k THEN entry ELSE entries[e]], k)
         /\ Touch(k)
  /\ resident_code_bytes' = resident_code_bytes + pub.function.bytes
  /\ pub' = None
  /\ handles' = Delivered
  /\ UNCHANGED <<generation, valid, fell>>

\* emplace throws: no handle is returned, the stamp is spent, what was evicted
\* stays evicted.
PublishOutOfMemory ==
  /\ pub # None /\ pub.step = "evict"
  /\ ~NeedsRoom(pub.function)
  /\ entries' = [e \in Keys |-> [entries[e] EXCEPT !.last_access = IF ClockWraps THEN 0 ELSE @]]
  /\ access_clock' = next_stamp
  /\ stamped' = IF ClockWraps THEN {} ELSE stamped
  /\ pub' = None
  /\ UNCHANGED <<resident_code_bytes, generation, valid, older, handles, fell>>

-----------------------------------------------------------------------------
\* The next function that some compiler hands to publish, for any target; a
\* compilation with an invalid token is possible, the token is not looked at
\* before.  A function that publish did not keep leaves its number.
NextId == Cardinality({h[2] : h \in handles}) + 1

PublishNew(k, fingerprint, bytes, target, token) ==
  /\ generation < MaxPublications
  /\ NextId <= MaxPublications
  /\ Publish(k, fingerprint,
             [id |-> NextId, bytes |-> bytes, target |-> target, token |-> token])

Next ==
  \/ \E k \in Key, p \in Fingerprint :
       \/ Find(k, p)
       \/ InvalidateFingerprint(k, p)
       \/ \E bytes \in Size, target \in Target, token \in Token \cup {None} :
            PublishNew(k, p, bytes, target, token)
  \/ \E k \in Key : InvalidateKey(k) \/ Evict(k)
  \/ \E a \in Token : InvalidateToken(a)
  \/ Clear \/ PublishCheck \/ PublishInsert \/ PublishOutOfMemory

Spec == Init /\ [][Next]_vars

-----------------------------------------------------------------------------
(* Properties.                                                              *)

\* "Bounded by both entry count and the actual executable mapping bytes": at
\* every moment, inside a publication too.
WithinLimits ==
  Cardinality(Keys) <= maximum_entries /\ resident_code_bytes <= maximum_code_bytes

EntryBytes == [k \in Keys |-> entries[k].function.bytes]

\* resident_code_bytes is what the resident entries occupy: the subtraction
\* in erase never wraps and the budget never leaks.
BytesBalance ==
  resident_code_bytes = MapThenSumSet(LAMBDA k : EntryBytes[k], Keys)

\* The loop of publish never runs out of victims: room is always found, and
\* the branch for a failing evict_one is not needed.
EvictionFindsVictim ==
  pub # None /\ pub.step = "evict" /\ NeedsRoom(pub.function) => Keys # {}

\* The budget of the cache holds at every moment of a publication that evicts,
\* replaces, fails or is overtaken by an invalidation.
BudgetHolds == WithinLimits /\ BytesBalance /\ EvictionFindsVictim

\* "Publication evicts least-recently-used resident entries", for every eviction:
\* the victim was used before every other entry that was used since
\* access_clock last wrapped, and is one of those only when all entries are.
\* Until the first wrap that is the whole order of use; among entries not
\* used since a wrap, whose stamps are all 0, the order is lost.
EvictsLeastRecent ==
  [][\A k \in Keys : Evict(k) =>
       /\ k \in stamped => stamped = Keys
       /\ \A e \in stamped \ {k} : <<k, e>> \in older]_vars

\* No token of the entry had fallen when its residency was decided: "An incoming
\* function whose dependency is already invalid receives an owned uncached
\* handle and is never made lookup-visible."
ResidentWasValid ==
  \A k \in Keys : LET a == entries[k].function.token
                  IN  a \in Token \ valid => entries[k].generation <= fell[a]

\* Lookups see the function that a publisher was handed with that generation,
\* for the target of the cache.
ResidentWasDelivered ==
  \A k \in Keys : /\ Accepts(entries[k].function)
                  /\ <<entries[k].generation, entries[k].function.id>> \in handles

\* "Generations are opaque change tokens": one generation, one function.
GenerationNamesFunction == \A g, h \in handles : g[1] = h[1] => g[2] = h[2]

\* What lookups return, over the steps of a publication beside which tokens
\* fall, reuse, replacement and failed insertions.
ResidentWasSound == ResidentWasValid /\ ResidentWasDelivered /\ GenerationNamesFunction
=============================================================================
