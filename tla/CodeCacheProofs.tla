-------------------------- MODULE CodeCacheProofs ---------------------------
(***************************************************************************)
(* CodeCache for any keys, fingerprints, tokens, targets, sizes and limits:*)
(* the budget, the soundness of what lookups see, and eviction in the order*)
(* of use.                                                                 *)
(*                                                                         *)
(* The invariant says what publish has established when its eviction loop  *)
(* starts, although tokens are invalidated beside it, that the generation  *)
(* it drew is newer than any handed out, and how the stamps that evict_one *)
(* compares follow the order in which the keys were used.                  *)
(***************************************************************************)
EXTENDS CodeCache, SetSums, TLAPS

\* The map of entries is finite.
KeysAreFinite == IsFiniteSet(Keys)

\* Publish's tests of the new function, and its erasure of the key's entry,
\* still stand when the loop runs; a token that has fallen since, fell after
\* this publication was decided.
PublicationIsChecked ==
  pub # None =>
    /\ pub.generation = generation
    /\ Accepts(pub.function)
    /\ pub.step = "evict" =>
         /\ pub.function.token \in Token \ valid => generation <= fell[pub.function.token]
         /\ pub.function.bytes <= maximum_code_bytes
         /\ maximum_entries # 0
         /\ pub.key \notin Keys

\* The generation of the publication in progress has not been handed out.
HandlesAreOld == \A h \in handles : IF pub = None THEN h[1] <= generation ELSE h[1] < generation

\* A key used since the last wrap has a stamp that is not 0 and not ahead of
\* the clock; the others have none.
StampsAreCurrent ==
  \A k \in Keys :
    IF k \in stamped THEN entries[k].last_access \in 1..access_clock
                     ELSE entries[k].last_access = 0

\* Stamps order the keys that have one as their last uses do, and the others
\* were used before them.
StampsFollowUse ==
  /\ \A j, k \in stamped :
       j # k => \/ entries[j].last_access < entries[k].last_access /\ <<j, k>> \in older
                \/ entries[k].last_access < entries[j].last_access /\ <<k, j>> \in older
  /\ \A j \in Keys \ stamped, k \in stamped : <<j, k>> \in older

IInv ==
  /\ TypeOK /\ KeysAreFinite /\ WithinLimits /\ BytesBalance
  /\ PublicationIsChecked /\ ResidentWasSound /\ HandlesAreOld
  /\ StampsAreCurrent /\ StampsFollowUse

CacheType ==
  /\ Keys \subseteq Key
  /\ entries \in [Keys -> Entry]
  /\ resident_code_bytes \in Nat
  /\ access_clock \in 0..MaxClock
  /\ older \subseteq Keys \X Keys
  /\ stamped \subseteq Keys

\* What the entries owe to each other, without the publication.
CacheInv ==
  /\ CacheType /\ KeysAreFinite /\ WithinLimits /\ BytesBalance
  /\ StampsAreCurrent /\ StampsFollowUse

\* What was handed out, and what is resident of it.
LeaseInv == ResidentWasSound /\ HandlesAreOld

\* A step brings no code into the cache: entries may go or be stamped.
NoNewCode ==
  \A e \in Keys' : /\ e \in Keys
                   /\ entries'[e].function = entries[e].function
                   /\ entries'[e].generation = entries[e].generation

-----------------------------------------------------------------------------
(* The account.                                                             *)

\* The account as a sum that SetSums can take apart.
LEMMA BalanceIsSum ==
  /\ BytesBalance <=> resident_code_bytes = SumOver(EntryBytes, Keys)
  /\ BytesBalance' <=> resident_code_bytes' = SumOver(EntryBytes', Keys')
<1>1. BytesBalance <=> resident_code_bytes = SumOver(EntryBytes, Keys)
  BY DEF BytesBalance, SumOver, MapThenSumSet, MapThenFoldSet
<1>2. BytesBalance' <=> resident_code_bytes' = SumOver(EntryBytes', Keys')
  BY DEF BytesBalance, SumOver, MapThenSumSet, MapThenFoldSet
<1>. QED  BY <1>1, <1>2

\* Every entry has a size.
LEMMA BytesType ==
  ASSUME entries \in [Keys -> Entry]
  PROVE  NatOn(EntryBytes, Keys)
BY CacheAssumption DEF NatOn, EntryBytes, Keys, Entry, Function, CacheAssumption

\* erase subtracts what the entry added: the count does not wrap, and stays
\* the sum of what is left.
LEMMA EraseBalances ==
  ASSUME CacheType, KeysAreFinite, BytesBalance, NEW k \in Keys, Erase(k)
  PROVE  /\ KeysAreFinite' /\ BytesBalance'
         /\ Cardinality(Keys') = Cardinality(Keys) - 1
         /\ resident_code_bytes' \in Nat /\ resident_code_bytes' <= resident_code_bytes
<1>1. Keys' = Keys \ {k} /\ \A e \in Keys' : entries'[e] = entries[e]
  BY DEF Erase, Keys
<1>2. KeysAreFinite' /\ Cardinality(Keys') = Cardinality(Keys) - 1
  BY <1>1, FS_RemoveElement DEF KeysAreFinite
<1>3. NatOn(EntryBytes, Keys) /\ NatOn(EntryBytes, Keys \ {k})
  BY BytesType DEF CacheType, NatOn
<1>4. AgreeOn(EntryBytes, EntryBytes', Keys \ {k})
  BY <1>1 DEF AgreeOn, EntryBytes
<1>5. SumOver(EntryBytes, Keys) = EntryBytes[k] + SumOver(EntryBytes, Keys \ {k})
  BY <1>3, SumOverRemove DEF KeysAreFinite
<1>6. SumOver(EntryBytes, Keys \ {k}) = SumOver(EntryBytes', Keys \ {k})
  BY <1>1, <1>2, <1>3, <1>4, SumOverAgree DEF KeysAreFinite
<1>7. SumOver(EntryBytes, Keys \ {k}) \in Nat /\ EntryBytes[k] \in Nat
  BY <1>1, <1>2, <1>3, SumOverType DEF KeysAreFinite, NatOn
<1>8. EntryBytes[k] = entries[k].function.bytes
  BY DEF EntryBytes
<1>9. resident_code_bytes = EntryBytes[k] + SumOver(EntryBytes, Keys \ {k})
  BY <1>5, BalanceIsSum
<1>10. resident_code_bytes' = resident_code_bytes - EntryBytes[k]
  BY <1>8 DEF Erase
<1>11. resident_code_bytes' = SumOver(EntryBytes', Keys')
  BY <1>1, <1>6, <1>7, <1>9, <1>10
<1>12. BytesBalance'
  BY <1>11, BalanceIsSum
<1>. QED  BY <1>2, <1>7, <1>9, <1>10, <1>12

\* Stamps do not move bytes.
LEMMA RestampBalances ==
  ASSUME CacheType, KeysAreFinite, BytesBalance, Keys' = Keys,
         \A e \in Keys : entries'[e].function = entries[e].function,
         resident_code_bytes' = resident_code_bytes
  PROVE  KeysAreFinite' /\ BytesBalance'
<1>1. NatOn(EntryBytes, Keys)
  BY BytesType DEF CacheType
<1>2. AgreeOn(EntryBytes, EntryBytes', Keys)
  BY DEF AgreeOn, EntryBytes
<1>3. SumOver(EntryBytes, Keys) = SumOver(EntryBytes', Keys)
  BY <1>1, <1>2, SumOverAgree DEF KeysAreFinite
<1>. QED  BY <1>3, BalanceIsSum DEF KeysAreFinite

\* emplace adds the bytes of the new entry.
LEMMA InsertBalances ==
  ASSUME CacheType, KeysAreFinite, BytesBalance,
         NEW k, k \notin Keys, Keys' = Keys \cup {k}, NEW b \in Nat,
         entries'[k].function.bytes = b,
         \A e \in Keys : entries'[e].function = entries[e].function,
         resident_code_bytes' = resident_code_bytes + b
  PROVE  KeysAreFinite' /\ BytesBalance' /\ Cardinality(Keys') = Cardinality(Keys) + 1
<1>1. IsFiniteSet(Keys) /\ IsFiniteSet(Keys') /\ Cardinality(Keys') = Cardinality(Keys) + 1
  BY FS_AddElement DEF KeysAreFinite
<1>2. NatOn(EntryBytes, Keys)
  BY BytesType DEF CacheType
<1>3. AgreeOn(EntryBytes, EntryBytes', Keys)
  BY DEF AgreeOn, EntryBytes
<1>4. SumOver(EntryBytes, Keys) = SumOver(EntryBytes', Keys)
  BY <1>1, <1>2, <1>3, SumOverAgree
<1>5. EntryBytes'[k] = b /\ NatOn(EntryBytes', Keys \cup {k})
  BY <1>2, <1>3 DEF EntryBytes, NatOn, AgreeOn
<1>6. SumOver(EntryBytes', Keys \cup {k}) = EntryBytes'[k] + SumOver(EntryBytes', Keys)
  BY <1>1, <1>5, SumOverAdd
<1>7. SumOver(EntryBytes, Keys) \in Nat
  BY <1>1, <1>2, SumOverType
<1>8. resident_code_bytes = SumOver(EntryBytes, Keys)
  BY BalanceIsSum
<1>9. resident_code_bytes' = SumOver(EntryBytes', Keys')
  BY <1>4, <1>5, <1>6, <1>7, <1>8
<1>. QED  BY <1>1, <1>9, BalanceIsSum DEF KeysAreFinite

-----------------------------------------------------------------------------
(* What each change of the entries keeps.                                   *)

\* next_stamp never hands out 0: it goes on by one, or starts again at 1.
LEMMA NextStamp ==
  ASSUME access_clock \in 0..MaxClock
  PROVE  /\ next_stamp \in 1..MaxClock
         /\ ~ClockWraps => next_stamp = access_clock + 1
         /\ ClockWraps => next_stamp = 1
BY CacheAssumption DEF next_stamp, ClockWraps, CacheAssumption

\* Steps that leave the cache alone.
LEMMA NothingChanges ==
  ASSUME CacheInv, UNCHANGED <<entries, resident_code_bytes, access_clock, older, stamped>>
  PROVE  CacheInv' /\ Keys' = Keys /\ NoNewCode
<1>1. Keys' = Keys /\ NoNewCode
  BY DEF Keys, NoNewCode
<1>2. KeysAreFinite' /\ BytesBalance'
  BY <1>1, RestampBalances DEF CacheInv
<1>3. (CacheType /\ WithinLimits /\ StampsAreCurrent /\ StampsFollowUse)'
  BY <1>1 DEF CacheInv, CacheType, WithinLimits, StampsAreCurrent, StampsFollowUse
<1>. QED  BY <1>1, <1>2, <1>3 DEF CacheInv

\* Impl::erase
LEMMA EraseKeeps ==
  ASSUME CacheInv, NEW k \in Keys, Erase(k), UNCHANGED access_clock
  PROVE  CacheInv' /\ Keys' = Keys \ {k} /\ NoNewCode
<1>1. Keys' = Keys \ {k} /\ entries' = [e \in Keys \ {k} |-> entries[e]]
  BY DEF Erase, Keys
<1>2. /\ KeysAreFinite' /\ BytesBalance' /\ Cardinality(Keys') = Cardinality(Keys) - 1
      /\ resident_code_bytes' \in Nat /\ resident_code_bytes' <= resident_code_bytes
  BY EraseBalances DEF CacheInv
<1>3. CacheType'
  BY <1>1, <1>2 DEF CacheInv, CacheType, Erase, Others
<1>4. WithinLimits'
  BY <1>2, CacheAssumption, FS_CardinalityType
     DEF CacheInv, CacheType, WithinLimits, KeysAreFinite, CacheAssumption
<1>5. NoNewCode
  BY <1>1 DEF NoNewCode
<1>6. StampsAreCurrent'
  BY <1>1 DEF CacheInv, StampsAreCurrent, Erase
<1>7. StampsFollowUse'
  BY <1>1 DEF CacheInv, CacheType, StampsFollowUse, Erase, Others
<1>. QED  BY <1>1, <1>2, <1>3, <1>4, <1>5, <1>6, <1>7 DEF CacheInv

\* A hit: the entry of k gets the next stamp, after a wrap the only one.
LEMMA StampKeeps ==
  ASSUME CacheInv, NEW k \in Keys, entries' = Stamp(entries, k), Touch(k),
         UNCHANGED resident_code_bytes
  PROVE  CacheInv' /\ Keys' = Keys /\ NoNewCode
<1>1. /\ Keys' = Keys
      /\ \A e \in Keys : entries'[e] =
           [entries[e] EXCEPT !.last_access = IF e = k THEN next_stamp
                                              ELSE IF ClockWraps THEN 0 ELSE @]
  BY DEF Stamp, Keys
<1>2. \A e \in Keys :
        /\ entries[e] \in Entry
        /\ entries'[e] \in Entry
        /\ entries'[e].function = entries[e].function
        /\ entries'[e].generation = entries[e].generation
        /\ entries'[e].last_access = IF e = k THEN next_stamp
                                     ELSE IF ClockWraps THEN 0 ELSE entries[e].last_access
  <2> TAKE e \in Keys
  <2>1. entries[e] \in Entry
    BY DEF CacheInv, CacheType
  <2> DEFINE stamp == IF e = k THEN next_stamp ELSE IF ClockWraps THEN 0 ELSE entries[e].last_access
  <2>2. stamp \in 0..MaxClock
    BY <2>1, NextStamp, CacheAssumption DEF CacheInv, CacheType, Entry, CacheAssumption
  <2>3. entries'[e] = [entries[e] EXCEPT !.last_access = stamp]
    BY <1>1
  <2> HIDE DEF stamp
  <2>4. /\ entries'[e] \in Entry
        /\ entries'[e].function = entries[e].function
        /\ entries'[e].generation = entries[e].generation
        /\ entries'[e].last_access = stamp
    BY <2>1, <2>2, <2>3 DEF Entry
  <2>. QED  BY <2>1, <2>4 DEF stamp
<1>3. KeysAreFinite' /\ BytesBalance'
  BY <1>1, <1>2, RestampBalances DEF CacheInv
<1>4. CacheType'
  <2>1. entries' \in [Keys' -> Entry]
    BY <1>1, <1>2 DEF Stamp, Keys
  <2>2. access_clock' \in 0..MaxClock
    BY NextStamp, CacheAssumption DEF CacheInv, CacheType, Touch, CacheAssumption
  <2>. QED  BY <1>1, <2>1, <2>2 DEF CacheInv, CacheType, Touch, Others
<1>5. WithinLimits' /\ NoNewCode
  BY <1>1, <1>2 DEF CacheInv, WithinLimits, NoNewCode
<1>6. StampsAreCurrent'
  BY <1>1, <1>2, NextStamp DEF CacheInv, CacheType, StampsAreCurrent, Touch
<1>7. StampsFollowUse'
  BY <1>1, <1>2, NextStamp
     DEF CacheInv, CacheType, StampsAreCurrent, StampsFollowUse, Touch, Others
<1>. QED  BY <1>1, <1>3, <1>4, <1>5, <1>6, <1>7 DEF CacheInv

\* emplace, after the loop has made room.
LEMMA InsertKeeps ==
  ASSUME CacheInv, PublicationIsChecked, pub \in Publication, PublishInsert
  PROVE  /\ CacheInv'
         /\ \A e \in Keys' :
              IF e = pub.key
              THEN entries'[e].function = pub.function /\ entries'[e].generation = pub.generation
              ELSE /\ e \in Keys
                   /\ entries'[e].function = entries[e].function
                   /\ entries'[e].generation = entries[e].generation
<1> DEFINE k == pub.key
           entry == [fingerprint |-> pub.fingerprint, generation |-> pub.generation,
                     last_access |-> 0, function |-> pub.function]
           es == [e \in Keys \cup {k} |-> IF e = k THEN entry ELSE entries[e]]
<1>1. /\ k \in Key /\ k \notin Keys
      /\ pub.function \in Function
      /\ pub.function.bytes \in Nat /\ pub.function.bytes <= maximum_code_bytes
      /\ pub.fingerprint \in Fingerprint /\ pub.generation \in Nat
  BY CacheAssumption DEF PublicationIsChecked, PublishInsert, Publication, Function, CacheAssumption
<1>2. entries' = Stamp(es, k) /\ Touch(k)
  BY DEF PublishInsert
<1>3. /\ Keys' = Keys \cup {k} /\ entries' \in [Keys' -> Entry]
      /\ entries'[k].function = pub.function /\ entries'[k].generation = pub.generation
      /\ entries'[k].last_access = next_stamp
      /\ \A e \in Keys : /\ entries'[e].function = entries[e].function
                         /\ entries'[e].generation = entries[e].generation
                         /\ entries'[e].last_access =
                              IF ClockWraps THEN 0 ELSE entries[e].last_access
  <2>1. DOMAIN es = Keys \cup {k} /\ es[k] = entry /\ \A e \in Keys : e # k /\ es[e] = entries[e]
    BY <1>1
  <2> HIDE DEF es
  <2>2. Keys' = Keys \cup {k}
    BY <1>2, <2>1 DEF Stamp, Keys
  <2>3. entries'[k] = [entry EXCEPT !.last_access = next_stamp]
    BY <1>2, <2>1 DEF Stamp
  <2>4. next_stamp \in 0..MaxClock
    BY NextStamp, CacheAssumption DEF CacheInv, CacheType, CacheAssumption
  <2>5. /\ entries'[k] \in Entry
        /\ entries'[k].function = pub.function /\ entries'[k].generation = pub.generation
        /\ entries'[k].last_access = next_stamp
    BY <1>1, <2>3, <2>4 DEF Entry
  <2>6. ASSUME NEW e \in Keys
        PROVE  /\ entries'[e] \in Entry
               /\ entries'[e].function = entries[e].function
               /\ entries'[e].generation = entries[e].generation
               /\ entries'[e].last_access = IF ClockWraps THEN 0 ELSE entries[e].last_access
    <3>1. entries[e] \in Entry /\ e # k /\ e \in DOMAIN es
      BY <2>1 DEF CacheInv, CacheType
    <3> DEFINE stamp == IF ClockWraps THEN 0 ELSE entries[e].last_access
    <3>2. stamp \in 0..MaxClock
      BY <3>1, CacheAssumption DEF Entry, CacheAssumption
    <3>3. entries'[e] = [entries[e] EXCEPT !.last_access = stamp]
      BY <1>2, <2>1, <3>1 DEF Stamp
    <3> HIDE DEF stamp
    <3>4. /\ entries'[e] \in Entry
          /\ entries'[e].function = entries[e].function
          /\ entries'[e].generation = entries[e].generation
          /\ entries'[e].last_access = stamp
      BY <3>1, <3>2, <3>3 DEF Entry
    <3>. QED  BY <3>4 DEF stamp
  <2>7. entries' \in [Keys' -> Entry]
    BY <1>2, <2>2, <2>5, <2>6 DEF Stamp, Keys
  <2>. QED  BY <2>2, <2>5, <2>6, <2>7
<1> HIDE DEF k, es, entry
<1>4. resident_code_bytes' = resident_code_bytes + pub.function.bytes
  BY DEF PublishInsert
<1>5. KeysAreFinite' /\ BytesBalance' /\ Cardinality(Keys') = Cardinality(Keys) + 1
  BY <1>1, <1>3, <1>4, InsertBalances DEF CacheInv
<1>6. WithinLimits'
  <2>1. Cardinality(Keys) < maximum_entries
    BY CacheAssumption, FS_CardinalityType
       DEF PublishInsert, NeedsRoom, CacheInv, KeysAreFinite, CacheAssumption
  <2>2. resident_code_bytes + pub.function.bytes <= maximum_code_bytes
    BY <1>1, CacheAssumption
       DEF PublishInsert, NeedsRoom, CacheInv, CacheType, CacheAssumption
  <2>. QED  BY <1>4, <1>5, <2>1, <2>2, CacheAssumption, FS_CardinalityType
            DEF WithinLimits, CacheInv, KeysAreFinite, CacheAssumption
<1>7. CacheType'
  BY <1>1, <1>2, <1>3, <1>4, NextStamp, CacheAssumption
     DEF CacheInv, CacheType, Touch, Others, CacheAssumption
<1>8. \A e \in Keys' :
        IF e = k
        THEN entries'[e].function = pub.function /\ entries'[e].generation = pub.generation
        ELSE /\ e \in Keys
             /\ entries'[e].function = entries[e].function
             /\ entries'[e].generation = entries[e].generation
  BY <1>1, <1>3
<1>9. StampsAreCurrent'
  BY <1>1, <1>2, <1>3, NextStamp DEF CacheInv, CacheType, StampsAreCurrent, Touch
<1>10. StampsFollowUse'
  BY <1>1, <1>2, <1>3, NextStamp
     DEF CacheInv, CacheType, StampsAreCurrent, StampsFollowUse, Touch, Others
<1>. QED  BY <1>5, <1>6, <1>7, <1>8, <1>9, <1>10 DEF CacheInv, k

\* A failed emplace has spent a stamp, and may have reset all the others.
LEMMA OutOfMemoryKeeps ==
  ASSUME CacheInv, PublishOutOfMemory
  PROVE  CacheInv' /\ Keys' = Keys /\ NoNewCode
<1>1. Keys' = Keys /\ UNCHANGED <<resident_code_bytes, older>>
  BY DEF PublishOutOfMemory, Keys
<1>2. \A e \in Keys :
        /\ entries'[e] \in Entry
        /\ entries'[e].function = entries[e].function
        /\ entries'[e].generation = entries[e].generation
        /\ entries'[e].last_access = IF ClockWraps THEN 0 ELSE entries[e].last_access
  <2> TAKE e \in Keys
  <2>1. entries[e] \in Entry
    BY DEF CacheInv, CacheType
  <2> DEFINE stamp == IF ClockWraps THEN 0 ELSE entries[e].last_access
  <2>2. stamp \in 0..MaxClock
    BY <2>1, CacheAssumption DEF Entry, CacheAssumption
  <2>3. entries'[e] = [entries[e] EXCEPT !.last_access = stamp]
    BY DEF PublishOutOfMemory
  <2> HIDE DEF stamp
  <2>4. /\ entries'[e] \in Entry
        /\ entries'[e].function = entries[e].function
        /\ entries'[e].generation = entries[e].generation
        /\ entries'[e].last_access = stamp
    BY <2>1, <2>2, <2>3 DEF Entry
  <2>. QED  BY <2>4 DEF stamp
<1>3. KeysAreFinite' /\ BytesBalance'
  BY <1>1, <1>2, RestampBalances DEF CacheInv
<1>4. CacheType'
  <2>1. entries' \in [Keys' -> Entry]
    BY <1>1, <1>2 DEF PublishOutOfMemory, Keys
  <2>2. access_clock' \in 0..MaxClock
    BY NextStamp, CacheAssumption DEF CacheInv, CacheType, PublishOutOfMemory, CacheAssumption
  <2>. QED  BY <1>1, <2>1, <2>2 DEF CacheInv, CacheType, PublishOutOfMemory
<1>5. WithinLimits' /\ NoNewCode
  BY <1>1, <1>2 DEF CacheInv, WithinLimits, NoNewCode
<1>6. StampsAreCurrent'
  BY <1>1, <1>2, NextStamp DEF CacheInv, CacheType, StampsAreCurrent, PublishOutOfMemory
<1>7. StampsFollowUse'
  BY <1>1, <1>2 DEF CacheInv, CacheType, StampsFollowUse, PublishOutOfMemory
<1>. QED  BY <1>1, <1>3, <1>4, <1>5, <1>6, <1>7 DEF CacheInv

-----------------------------------------------------------------------------
(* The invariant.                                                           *)

\* The state beside the entries.
PublicationType ==
  /\ generation \in Nat
  /\ valid \subseteq Token
  /\ pub \in Publication \cup {None}
  /\ handles \subseteq Nat \X (1..MaxPublications)
  /\ fell \in [Token -> Nat]

\* The invariant is about the entries and about the publication.
LEMMA IInvParts == IInv <=> CacheInv /\ PublicationType /\ PublicationIsChecked /\ LeaseInv
BY DEF IInv, CacheInv, CacheType, PublicationType, LeaseInv, TypeOK

\* The same after a step.
LEMMA IInvPartsNext ==
  IInv' <=> CacheInv' /\ PublicationType' /\ PublicationIsChecked' /\ LeaseInv'
BY DEF IInv, CacheInv, CacheType, PublicationType, LeaseInv, TypeOK

\* A lookup returns what has been handed out before.
LEMMA LeasedBefore ==
  ASSUME LeaseInv, NEW k \in Keys
  PROVE  Leased(k) = handles
BY DEF LeaseInv, ResidentWasSound, ResidentWasDelivered, Leased

\* Without new code the leases stay as they are; a publication that begins
\* draws a generation above all of them.
LEMMA LeasesStay ==
  ASSUME LeaseInv, PublicationType, NoNewCode, UNCHANGED <<valid, fell, handles>>,
         \/ generation' = generation /\ (pub' # None => pub # None)
         \/ generation' = generation + 1
  PROVE  LeaseInv'
<1>1. ResidentWasValid' /\ ResidentWasDelivered'
  BY DEF LeaseInv, ResidentWasSound, ResidentWasValid, ResidentWasDelivered, NoNewCode, Accepts
<1>2. GenerationNamesFunction'
  BY DEF LeaseInv, ResidentWasSound, GenerationNamesFunction
<1>3. HandlesAreOld'
  <2> SUFFICES ASSUME NEW h \in handles
               PROVE  IF pub' = None THEN h[1] <= generation' ELSE h[1] < generation'
    BY DEF HandlesAreOld
  <2>1. h[1] \in Nat /\ generation \in Nat
    BY DEF PublicationType
  <2>2. h[1] <= generation /\ (pub # None => h[1] < generation)
    BY <2>1 DEF LeaseInv, HandlesAreOld
  <2>. QED  BY <2>1, <2>2
<1>. QED  BY <1>1, <1>2, <1>3 DEF LeaseInv, ResidentWasSound

\* The new function is handed out under a generation of its own.
LEMMA DeliveryKeeps ==
  ASSUME LeaseInv, PublicationType, PublicationIsChecked, pub # None,
         handles' = Delivered, pub' = None, UNCHANGED generation
  PROVE  GenerationNamesFunction' /\ HandlesAreOld'
<1>1. pub.generation = generation /\ generation \in Nat
  BY DEF PublicationIsChecked, PublicationType
<1>2. \A h \in handles : h[1] \in Nat /\ h[1] < generation
  BY DEF PublicationType, LeaseInv, HandlesAreOld
<1>3. GenerationNamesFunction'
  BY <1>1, <1>2 DEF LeaseInv, ResidentWasSound, GenerationNamesFunction, Delivered
<1>4. HandlesAreOld'
  BY <1>1, <1>2 DEF HandlesAreOld, Delivered
<1>. QED  BY <1>3, <1>4

\* An entry keeps its claim to have been valid when a token falls: its
\* publication was decided before.
LEMMA FallKeeps ==
  ASSUME LeaseInv, PublicationType, CacheType, NEW a \in Token, InvalidateToken(a)
  PROVE  LeaseInv'
<1>1. /\ entries' = entries /\ generation' = generation /\ handles' = handles
      /\ pub' = pub /\ Keys' = Keys
      /\ valid' = valid \ {a} /\ fell' = [fell EXCEPT ![a] = LastDecided]
  BY DEF InvalidateToken, cacheVars, Keys
<1>2. ResidentWasDelivered' /\ GenerationNamesFunction' /\ HandlesAreOld'
  BY <1>1 DEF LeaseInv, ResidentWasSound, ResidentWasDelivered, GenerationNamesFunction,
     HandlesAreOld, Accepts
<1>3. ASSUME NEW k \in Keys PROVE entries[k].generation <= LastDecided
  <2>1. PICK h \in handles : h[1] = entries[k].generation
    BY DEF LeaseInv, ResidentWasSound, ResidentWasDelivered
  <2>2. h[1] \in Nat /\ generation \in Nat
    BY DEF PublicationType
  <2>3. h[1] <= generation /\ (pub # None => h[1] <= generation - 1)
    BY <2>2 DEF LeaseInv, HandlesAreOld
  <2>. QED  BY <2>1, <2>3 DEF LastDecided
<1>4. ResidentWasValid'
  <2> SUFFICES ASSUME NEW k \in Keys, entries[k].function.token \in Token \ (valid \ {a})
               PROVE  entries[k].generation <= fell'[entries[k].function.token]
    BY <1>1 DEF ResidentWasValid
  <2>1. CASE entries[k].function.token = a
    BY <1>1, <1>3, <2>1 DEF PublicationType
  <2>2. CASE entries[k].function.token # a
    <3>1. fell'[entries[k].function.token] = fell[entries[k].function.token]
      BY <1>1, <2>2 DEF PublicationType
    <3>. QED  BY <2>2, <3>1 DEF LeaseInv, ResidentWasSound, ResidentWasValid
  <2>. QED  BY <2>1, <2>2
<1>. QED  BY <1>2, <1>4 DEF LeaseInv, ResidentWasSound

\* Ids are numbers.
LEMMA NextIdType ==
  ASSUME PublicationType
  PROVE  NextId \in Nat \ {0}
<1> DEFINE ids == {h[2] : h \in handles}
<1>1. ids \subseteq 1..MaxPublications
  BY DEF PublicationType
<1>2. IsFiniteSet(1..MaxPublications)
  BY FS_Interval, CacheAssumption DEF CacheAssumption
<1>3. Cardinality(ids) \in Nat
  BY <1>1, <1>2, FS_Subset, FS_CardinalityType
<1>. QED  BY <1>3 DEF NextId

\* An empty cache satisfies the invariant.
LEMMA IInvInit == Init => IInv
<1> SUFFICES ASSUME Init PROVE IInv
  OBVIOUS
<1>1. Keys = {} /\ IsFiniteSet(Keys) /\ Cardinality(Keys) = 0
  BY FS_EmptySet DEF Init, Keys
<1>2. resident_code_bytes = SumOver(EntryBytes, Keys)
  BY <1>1, SumOverEmpty DEF Init
<1>3. BytesBalance
  BY <1>2, BalanceIsSum
<1>4. CacheType
  BY <1>1, CacheAssumption DEF Init, CacheType, Keys, CacheAssumption
<1>5. KeysAreFinite /\ WithinLimits
  BY <1>1, CacheAssumption DEF Init, KeysAreFinite, WithinLimits, CacheAssumption
<1>6. LeaseInv /\ StampsAreCurrent /\ StampsFollowUse
  BY <1>1 DEF Init, LeaseInv, HandlesAreOld, ResidentWasSound, ResidentWasValid,
     ResidentWasDelivered, GenerationNamesFunction, StampsAreCurrent, StampsFollowUse
<1>7. PublicationType /\ PublicationIsChecked
  BY DEF Init, PublicationType, PublicationIsChecked
<1>. QED  BY <1>3, <1>4, <1>5, <1>6, <1>7, IInvParts DEF CacheInv

\* Every lookup, publication, eviction and invalidation keeps it.
LEMMA IInvStep == IInv /\ [Next]_vars => IInv'
<1> SUFFICES ASSUME IInv, [Next]_vars PROVE IInv'
  OBVIOUS
<1>i. CacheInv /\ PublicationType /\ PublicationIsChecked /\ LeaseInv
  BY IInvParts
\* Between publications only the entries change.
<1>0. ASSUME pub = None, CacheInv', NoNewCode, UNCHANGED <<generation, valid, pub, handles, fell>>
      PROVE  IInv'
  <2>1. LeaseInv'
    BY <1>0, <1>i, LeasesStay
  <2>. QED  BY <1>0, <1>i, <2>1, IInvPartsNext DEF PublicationType, PublicationIsChecked
<1>1. ASSUME NEW k \in Key, NEW p \in Fingerprint, Find(k, p) PROVE IInv'
  <2>1. k \in Keys /\ pub = None /\ UNCHANGED <<generation, valid, pub, handles, fell>>
    BY <1>1, <1>i, LeasedBefore DEF Find, Matches
  <2>2. CacheInv' /\ NoNewCode
    BY <1>1, <1>i, <2>1, StampKeeps, EraseKeeps DEF Find
  <2>. QED  BY <1>0, <2>1, <2>2
<1>2. ASSUME NEW k \in Key, NEW p \in Fingerprint, InvalidateFingerprint(k, p) PROVE IInv'
  <2>1. k \in Keys /\ pub = None /\ UNCHANGED <<generation, valid, pub, handles, fell>>
    BY <1>2 DEF InvalidateFingerprint, Matches
  <2>2. CacheInv' /\ NoNewCode
    BY <1>2, <1>i, <2>1, EraseKeeps DEF InvalidateFingerprint
  <2>. QED  BY <1>0, <2>1, <2>2
<1>3. ASSUME NEW k \in Key, InvalidateKey(k) PROVE IInv'
  <2>1. k \in Keys /\ pub = None /\ UNCHANGED <<generation, valid, pub, handles, fell>>
    BY <1>3 DEF InvalidateKey
  <2>2. CacheInv' /\ NoNewCode
    BY <1>3, <1>i, <2>1, EraseKeeps DEF InvalidateKey
  <2>. QED  BY <1>0, <2>1, <2>2
<1>4. CASE Clear
  <2>1. Keys' = {} /\ IsFiniteSet(Keys') /\ Cardinality(Keys') = 0
    BY <1>4, FS_EmptySet DEF Clear, Keys
  <2>2. BytesBalance'
    BY <1>4, <2>1, SumOverEmpty, BalanceIsSum DEF Clear
  <2>3. CacheType'
    BY <1>4, <1>i, <2>1 DEF Clear, CacheInv, CacheType, Keys
  <2>4. (KeysAreFinite /\ WithinLimits)'
    BY <1>4, <2>1, CacheAssumption DEF Clear, KeysAreFinite, WithinLimits, CacheAssumption
  <2>5. (StampsAreCurrent /\ StampsFollowUse)' /\ NoNewCode
    BY <1>4, <2>1 DEF Clear, StampsAreCurrent, StampsFollowUse, NoNewCode
  <2>. QED  BY <1>0, <1>4, <2>2, <2>3, <2>4, <2>5 DEF Clear, CacheInv
<1>5. ASSUME NEW a \in Token, InvalidateToken(a) PROVE IInv'
  <2>1. CacheInv'
    BY <1>5, <1>i, NothingChanges DEF InvalidateToken, cacheVars
  <2>2. LeaseInv'
    BY <1>5, <1>i, FallKeeps DEF CacheInv
  <2>3. LastDecided \in Nat
    BY <1>i DEF LastDecided, PublicationType, PublicationIsChecked, Publication
  <2>4. PublicationType'
    BY <1>5, <1>i, <2>3 DEF InvalidateToken, cacheVars, PublicationType
  <2>5. PublicationIsChecked'
    <3> SUFFICES ASSUME pub # None, pub.step = "evict",
                        pub.function.token \in Token \ (valid \ {a})
                 PROVE  generation <= fell'[pub.function.token]
      BY <1>5, <1>i DEF InvalidateToken, cacheVars, PublicationIsChecked, Accepts, Keys
    <3>1. CASE pub.function.token = a
      BY <1>5, <1>i, <3>1 DEF InvalidateToken, LastDecided, PublicationType
    <3>2. CASE pub.function.token # a
      BY <1>5, <1>i, <3>2 DEF InvalidateToken, PublicationType, PublicationIsChecked
    <3>. QED  BY <3>1, <3>2
  <2>. QED  BY <2>1, <2>2, <2>4, <2>5, IInvPartsNext
<1>6. ASSUME NEW k \in Key, NEW p \in Fingerprint, NEW bytes \in Size, NEW target \in Target,
             NEW token \in Token \cup {None}, PublishNew(k, p, bytes, target, token)
      PROVE  IInv'
  <2> DEFINE f == [id |-> NextId, bytes |-> bytes, target |-> target, token |-> token]
             again == Matches(k, p)
             begin == /\ generation' = generation + 1
                      /\ pub' = [key |-> k, fingerprint |-> p, function |-> f,
                                 generation |-> generation + 1, step |-> "check"]
  <2>1. f \in Function
    <3>1. NextId \in 1..MaxPublications
      BY <1>6, <1>i, NextIdType, CacheAssumption DEF PublishNew, CacheAssumption
    <3>. QED  BY <3>1 DEF Function
  <2>2. Publish(k, p, f)
    BY <1>6 DEF PublishNew
  <2> HIDE DEF f
  <2>3. pub = None /\ Accepts(f) /\ UNCHANGED <<valid, fell>>
    BY <2>2 DEF Publish
  <2>4. ASSUME begin, NoNewCode, UNCHANGED handles
        PROVE  PublicationType' /\ PublicationIsChecked' /\ LeaseInv'
    <3>1. generation' \in Nat \ {0} /\ generation' = generation + 1
      BY <1>i, <2>4 DEF PublicationType
    <3>2. /\ pub' \in Publication /\ pub'.function = f /\ pub'.step = "check"
          /\ pub'.generation = generation'
      BY <2>1, <2>4, <3>1 DEF Publication
    <3>3. PublicationType'
      BY <1>i, <2>3, <2>4, <3>1, <3>2 DEF PublicationType
    <3>4. PublicationIsChecked'
      BY <2>3, <3>2 DEF PublicationIsChecked, Accepts
    <3>5. LeaseInv'
      BY <1>i, <2>3, <2>4, LeasesStay
    <3>. QED  BY <3>3, <3>4, <3>5
  <2>5. CASE again /\ AssumptionsValid(entries[k].function)
    <3>1. /\ k \in Keys /\ entries' = Stamp(entries, k) /\ Touch(k)
          /\ handles' = Leased(k)
          /\ UNCHANGED <<resident_code_bytes, generation, pub>>
      BY <2>2, <2>5 DEF Publish, Matches
    <3>2. CacheInv' /\ NoNewCode
      BY <1>i, <3>1, StampKeeps
    <3>3. UNCHANGED handles
      BY <1>i, <3>1, LeasedBefore
    <3>. QED  BY <1>0, <2>3, <3>1, <3>2, <3>3
  <2>6. CASE again /\ ~AssumptionsValid(entries[k].function)
    <3>1. k \in Keys /\ Erase(k) /\ begin /\ UNCHANGED <<access_clock, handles>>
      BY <2>2, <2>6 DEF Publish, Matches
    <3>. QED  BY <1>i, <3>1, <2>4, EraseKeeps, IInvPartsNext
  <2>7. CASE ~again
    <3>1. begin /\ UNCHANGED <<entries, resident_code_bytes, access_clock, older, stamped, handles>>
      BY <2>2, <2>7 DEF Publish, Matches
    <3>2. CacheInv' /\ NoNewCode
      BY <3>1, <1>i, NothingChanges
    <3>. QED  BY <3>1, <3>2, <2>4, IInvPartsNext
  <2>. QED  BY <2>5, <2>6, <2>7
<1>7. CASE PublishCheck
  <2>1. /\ pub \in Publication /\ pub # None /\ pub.step = "check"
        /\ UNCHANGED <<access_clock, generation, valid, fell>>
    BY <1>7, <1>i DEF PublishCheck, PublicationType
  <2>2. CASE ~MayReside(pub.function)
    <3>1. /\ pub' = None /\ handles' = Delivered
          /\ UNCHANGED <<entries, resident_code_bytes, older, stamped>>
      BY <1>7, <2>2 DEF PublishCheck
    <3>2. CacheInv' /\ Keys' = Keys
      BY <2>1, <3>1, <1>i, NothingChanges
    <3>3. PublicationType' /\ PublicationIsChecked'
      BY <1>i, <2>1, <3>1
         DEF PublicationType, PublicationIsChecked, Publication, Function, Delivered
    <3>4. ResidentWasValid' /\ ResidentWasDelivered'
      BY <1>i, <2>1, <3>1, <3>2 DEF LeaseInv, ResidentWasSound, ResidentWasValid,
         ResidentWasDelivered, Delivered, Accepts
    <3>5. LeaseInv'
      BY <1>i, <2>1, <3>1, <3>4, DeliveryKeeps DEF LeaseInv, ResidentWasSound
    <3>. QED  BY <3>2, <3>3, <3>5, IInvPartsNext
  <2>3. CASE MayReside(pub.function)
    <3>1. CacheInv' /\ pub.key \notin Keys' /\ NoNewCode
      <4>1. CASE pub.key \in Keys
        BY <1>7, <2>1, <2>3, <1>i, <4>1, EraseKeeps DEF PublishCheck
      <4>2. CASE pub.key \notin Keys
        BY <1>7, <2>1, <2>3, <1>i, <4>2, NothingChanges DEF PublishCheck
      <4>. QED  BY <4>1, <4>2
    <3>2. pub' = [pub EXCEPT !.step = "evict"] /\ UNCHANGED handles
      BY <1>7, <2>3 DEF PublishCheck
    <3>3. /\ pub' \in Publication /\ pub'.function = pub.function /\ pub'.key = pub.key
          /\ pub'.generation = pub.generation /\ pub'.step = "evict"
      BY <2>1, <3>2 DEF Publication
    <3>4. pub.function.token \notin Token \ valid
      BY <2>3, CacheAssumption DEF MayReside, AssumptionsValid, CacheAssumption
    <3>5. PublicationType'
      BY <1>i, <2>1, <3>2, <3>3 DEF PublicationType
    <3>6. PublicationIsChecked'
      BY <1>i, <2>1, <2>3, <3>1, <3>3, <3>4 DEF PublicationIsChecked, MayReside, Accepts
    <3>7. LeaseInv'
      BY <1>i, <2>1, <3>1, <3>2, LeasesStay
    <3>. QED  BY <3>1, <3>5, <3>6, <3>7, IInvPartsNext
  <2>. QED  BY <2>2, <2>3
<1>8. ASSUME NEW k \in Key, Evict(k) PROVE IInv'
  <2>1. k \in Keys /\ Erase(k) /\ UNCHANGED <<access_clock, generation, valid, pub, handles, fell>>
    BY <1>8 DEF Evict, Victim
  <2>2. CacheInv' /\ Keys' = Keys \ {k} /\ NoNewCode
    BY <1>i, <2>1, EraseKeeps
  <2>3. PublicationType' /\ PublicationIsChecked'
    BY <1>i, <2>1, <2>2 DEF PublicationType, PublicationIsChecked, Accepts
  <2>4. LeaseInv'
    BY <1>i, <2>1, <2>2, LeasesStay
  <2>. QED  BY <2>2, <2>3, <2>4, IInvPartsNext
<1>9. CASE PublishInsert
  <2>1. /\ pub \in Publication /\ pub # None /\ pub.step = "evict"
        /\ pub' = None /\ handles' = Delivered /\ UNCHANGED <<generation, valid, fell>>
    BY <1>9, <1>i DEF PublishInsert, PublicationType
  <2>2. /\ CacheInv'
        /\ \A e \in Keys' :
             IF e = pub.key
             THEN entries'[e].function = pub.function /\ entries'[e].generation = pub.generation
             ELSE /\ e \in Keys
                  /\ entries'[e].function = entries[e].function
                  /\ entries'[e].generation = entries[e].generation
    BY <1>9, <1>i, <2>1, InsertKeeps
  <2>3. PublicationType' /\ PublicationIsChecked'
    BY <1>i, <2>1 DEF PublicationType, PublicationIsChecked, Publication, Function, Delivered
  <2>4. ResidentWasValid'
    BY <1>i, <2>1, <2>2 DEF LeaseInv, ResidentWasSound, ResidentWasValid, PublicationIsChecked
  <2>5. ResidentWasDelivered'
    BY <1>i, <2>1, <2>2
       DEF LeaseInv, ResidentWasSound, ResidentWasDelivered, PublicationIsChecked, Delivered, Accepts
  <2>6. LeaseInv'
    BY <1>i, <2>1, <2>4, <2>5, DeliveryKeeps DEF LeaseInv, ResidentWasSound
  <2>. QED  BY <2>2, <2>3, <2>6, IInvPartsNext
<1>10. CASE PublishOutOfMemory
  <2>1. CacheInv' /\ NoNewCode
    BY <1>10, <1>i, OutOfMemoryKeeps
  <2>2. pub' = None /\ UNCHANGED <<generation, valid, handles, fell>>
    BY <1>10 DEF PublishOutOfMemory
  <2>3. PublicationType' /\ PublicationIsChecked'
    BY <1>i, <2>2 DEF PublicationType, PublicationIsChecked
  <2>4. LeaseInv'
    BY <1>i, <2>1, <2>2, LeasesStay
  <2>. QED  BY <2>1, <2>3, <2>4, IInvPartsNext
<1>11. CASE UNCHANGED vars
  <2>1. CacheInv' /\ NoNewCode
    BY <1>11, <1>i, NothingChanges DEF vars, cacheVars
  <2>2. PublicationType' /\ PublicationIsChecked'
    BY <1>11, <1>i DEF vars, cacheVars, PublicationType, PublicationIsChecked, Accepts, Keys
  <2>3. LeaseInv'
    BY <1>11, <1>i, <2>1, LeasesStay DEF vars, cacheVars
  <2>. QED  BY <2>1, <2>2, <2>3, IInvPartsNext
<1>. QED  BY <1>1, <1>2, <1>3, <1>4, <1>5, <1>6, <1>7, <1>8, <1>9, <1>10, <1>11 DEF Next

-----------------------------------------------------------------------------
(* Theorems.                                                                *)

\* Whatever is looked up, published, evicted, invalidated or fails, the cache
\* stays within both limits at every moment of a publication, its byte count
\* is the sum over what is resident, and the eviction loop of publish finds
\* room before it runs out of entries.
THEOREM BudgetAlwaysHolds == Spec => []BudgetHolds
<1>1. IInv => BudgetHolds
  <2> SUFFICES ASSUME IInv PROVE BudgetHolds
    OBVIOUS
  <2>1. CacheInv /\ PublicationType /\ PublicationIsChecked
    BY IInvParts
  <2>2. EvictionFindsVictim
    <3> SUFFICES ASSUME pub # None, pub.step = "evict", Keys = {} PROVE ~NeedsRoom(pub.function)
      BY DEF EvictionFindsVictim
    <3>1. Cardinality(Keys) = 0 /\ resident_code_bytes = 0
      BY <2>1, FS_EmptySet, SumOverEmpty, BalanceIsSum DEF CacheInv
    <3>2. pub.function.bytes \in Nat /\ pub.function.bytes <= maximum_code_bytes
      BY <2>1, CacheAssumption
         DEF PublicationType, Publication, Function, PublicationIsChecked, CacheAssumption
    <3>. QED  BY <2>1, <3>1, <3>2, CacheAssumption
              DEF NeedsRoom, PublicationIsChecked, CacheAssumption
  <2>. QED  BY <2>1, <2>2 DEF BudgetHolds, CacheInv
<1>. QED  BY IInvInit, IInvStep, <1>1, PTL DEF Spec

\* Whatever is published, reused, replaced, evicted or fails while tokens
\* fall: a resident function is for the cache's target, was handed to its
\* publisher under the generation lookups return, which names no other function,
\* and no assumption of it had fallen when publish tested it.
THEOREM ResidentsWereSound == Spec => []ResidentWasSound
<1>1. IInv => ResidentWasSound
  BY DEF IInv
<1>. QED  BY IInvInit, IInvStep, <1>1, PTL DEF Spec

\* evict_one never takes a key before one that was used earlier, except among
\* the keys that were not used since access_clock last wrapped.
THEOREM EvictionFollowsUse == Spec => EvictsLeastRecent
<1> DEFINE A == \A k \in Keys : Evict(k) =>
                  /\ k \in stamped => stamped = Keys
                  /\ \A e \in stamped \ {k} : <<k, e>> \in older
<1>1. IInv => [A]_vars
  <2> SUFFICES ASSUME IInv, NEW k \in Keys, Evict(k)
               PROVE  /\ k \in stamped => stamped = Keys
                      /\ \A e \in stamped \ {k} : <<k, e>> \in older
    OBVIOUS
  <2>1. /\ CacheType /\ StampsAreCurrent /\ StampsFollowUse
        /\ \A e \in Keys : entries[k].last_access <= entries[e].last_access
    BY IInvParts DEF CacheInv, Evict, Victim
  <2>2. \A e \in Keys : entries[e].last_access \in Nat
    BY <2>1, CacheAssumption DEF CacheType, Entry, CacheAssumption
  <2>3. access_clock \in Nat
    BY <2>1, CacheAssumption DEF CacheType, CacheAssumption
  <2>4. k \in stamped => stamped = Keys
    BY <2>1, <2>2, <2>3 DEF CacheType, StampsAreCurrent
  <2>5. ASSUME NEW e \in stamped \ {k} PROVE <<k, e>> \in older
    <3>1. e \in Keys /\ ~(entries[e].last_access < entries[k].last_access)
      BY <2>1, <2>2 DEF CacheType
    <3>. QED  BY <2>1, <3>1 DEF StampsFollowUse
  <2>. QED  BY <2>4, <2>5
<1>. QED  BY IInvInit, IInvStep, <1>1, PTL DEF Spec, EvictsLeastRecent
=============================================================================
