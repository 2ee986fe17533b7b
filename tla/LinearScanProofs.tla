-------------------------- MODULE LinearScanProofs --------------------------
(***************************************************************************)
(* LinearScan for every straight-line function, every number of registers  *)
(* and every frame: no register is shared by two live values, and the      *)
(* emitted code reads what was written.                                    *)
(***************************************************************************)
EXTENDS LinearScan, WellFoundedInduction, TLAPS

-----------------------------------------------------------------------------
(***************************************************************************)
(* The last use exists and bounds every use.                               *)
(***************************************************************************)

\* A nonempty set of numbers up to n has a greatest element.
LEMMA GreatestElement ==
  ASSUME NEW n \in Nat, NEW S, S \subseteq 0..n, S # {}
  PROVE  \E m \in S : \A k \in S : k <= m
<1> DEFINE R == OpToRel(<, Nat)
<1> DEFINE T == {n - k : k \in S}
<1> HIDE DEF R
<1>1. T \subseteq Nat /\ T # {}
  <2>1. \A k \in S : n - k \in Nat
    OBVIOUS
  <2>2. PICK k \in S : TRUE
    OBVIOUS
  <2>3. n - k \in T
    BY <2>2
  <2> QED
    BY <2>1, <2>3
<1>2. IsWellFoundedOn(R, Nat)
  BY NatLessThanWellFounded DEF R
<1> HIDE DEF T
<1>3. PICK x \in T : \A y \in T : ~(<<y, x>> \in R)
  BY <1>1, <1>2, WFMin
<1>4. PICK m \in S : x = n - m
  BY <1>3 DEF T
<1>5. ASSUME NEW k \in S PROVE k <= m
  <2>1. n - k \in T /\ n - k \in Nat /\ x \in Nat
    BY <1>1, <1>3 DEF T
  <2>2. ~(n - k < x)
    BY <2>1, <1>3 DEF R, OpToRel
  <2> QED
    BY <2>1, <2>2, <1>4
<1> QED
  BY <1>5

\* note_use returns a use that is not before any other, nor before the definition.
LEMMA NoteUseIsLast ==
  ASSUME NEW p, IsProgram(p), NEW v \in 0..p.size-1
  PROVE  /\ note_use(p, v) \in 0..p.size
         /\ v <= note_use(p, v)
         /\ \A i \in 0..p.size-1 : v \in p.uses[i] => i <= note_use(p, v)
         /\ p.return_value = v => note_use(p, v) = p.size
<1>1. p.size \in Nat /\ Uses(p, v) \subseteq 0..p.size /\ v \in Uses(p, v)
  BY DEF IsProgram, Uses
<1>2. \E i \in Uses(p, v) : \A j \in Uses(p, v) : j <= i
  BY <1>1, GreatestElement
<1>3. note_use(p, v) \in Uses(p, v) /\ \A j \in Uses(p, v) : j <= note_use(p, v)
  BY <1>2 DEF note_use
<1>4. p.return_value = v => p.size \in Uses(p, v)
  BY DEF Uses
<1>5. \A i \in 0..p.size-1 : v \in p.uses[i] => i \in Uses(p, v)
  BY DEF Uses
<1> QED
  BY <1>1, <1>3, <1>4, <1>5

-----------------------------------------------------------------------------
(***************************************************************************)
(* The inductive invariant.  The scan keeps free registers, active values  *)
(* and values whose interval has ended apart; that is forgotten when the   *)
(* scan ends, and RegistersAreDisjoint and SlotsAreDisjoint remain.  The   *)
(* execution then keeps every live value where the allocator put it.       *)
(***************************************************************************)

bank(v) == register_bank(type(v))
width(v) == stack_slot_width(type(v))

UsesAreBounded ==
  /\ program \in Program
  /\ index \in 0..program.size
  /\ last_use \in [Value -> 0..program.size]
  /\ \A v \in Value : v <= last_use[v]
  /\ \A i \in Value : \A v \in program.uses[i] : i <= last_use[v]
  /\ last_use[program.return_value] = program.size

RegistersExist ==
  /\ register_index \in [Value -> Nat \cup {None}]
  /\ \A v \in Value :
       register_index[v] # None => bank(v) \in Bank /\ register_index[v] \in Register(bank(v))

\* During the scan.
ActiveOwnTheirs ==
  phase = "scan" =>
    /\ active \subseteq Value
    /\ free \in [Bank -> SUBSET Nat]
    /\ \A b \in Bank : free[b] \subseteq Register(b)
    /\ \A v \in active :
         register_index[v] # None /\ bank(v) \in Bank /\ register_index[v] \notin free[bank(v)]
    /\ \A v, w \in active :
         bank(v) = bank(w) /\ register_index[v] = register_index[w] => v = w
    /\ \A v \in Value :
         register_index[v] # None => v < index /\ (v \notin active => last_use[v] < index)

SlotsAreDisjoint ==
  /\ spill_slots \in Nat
  /\ spill_slot \in [Value -> Nat \cup {None}]
  /\ \A v \in Value : spill_slot[v] # None => spill_slot[v] + width(v) <= spill_slots
  /\ \A v, w \in Value :
       v # w /\ spill_slot[v] # None /\ spill_slot[w] # None
         => spill_slot[v] + width(v) <= spill_slot[w] \/ spill_slot[w] + width(w) <= spill_slot[v]

\* A value that was scanned has a register or a slot.
EveryValueHasAHome ==
  \A v \in Value :
    (phase = "scan" => v < index) => register_index[v] # None \/ spill_slot[v] # None

\* While the code runs.
LiveValuesAreIntact ==
  phase \in {"run", "done"} =>
    /\ spill_slots <= maximum_spill_slots
    /\ NeedsSlot = {}
    /\ \A v \in Value : v < index /\ last_use[v] >= index => Intact(v)

AllocationInv ==
  /\ UsesAreBounded
  /\ RegistersExist
  /\ ActiveOwnTheirs
  /\ RegistersAreDisjoint
  /\ SlotsAreDisjoint
  /\ EveryValueHasAHome

\* What a program is made of.
LEMMA ProgramFacts ==
  ASSUME AllocationInv
  PROVE  /\ IsProgram(program) /\ program.size \in Nat /\ program.size > 0
         /\ Value \subseteq Nat
         /\ \A v \in Value : type(v) \in ValueType /\ width(v) \in {1, 2} /\ width(v) \in Nat
         /\ \A v \in Value : bank(v) \in {"kWord", "kSimd", "kStack"}
         /\ None \notin Nat
BY LinearScanAssumption
   DEF AllocationInv, UsesAreBounded, IsProgram, Value, type, width, stack_slot_width, bank,
       register_bank, ValueType, None

\* Before the scan nothing is allocated.
LEMMA AllocationInit == Init => AllocationInv
<1> SUFFICES ASSUME Init PROVE AllocationInv
  OBVIOUS
<1>1. IsProgram(program) /\ program.size \in Nat
  BY LinearScanAssumption DEF Init, IsProgram
<1>2. UsesAreBounded
  <2>1. ASSUME NEW v \in Value
        PROVE  /\ note_use(program, v) \in 0..program.size
               /\ v <= note_use(program, v)
               /\ \A i \in 0..program.size-1 : v \in program.uses[i] => i <= note_use(program, v)
               /\ program.return_value = v => note_use(program, v) = program.size
    BY <1>1, NoteUseIsLast DEF Value
  <2>2. program.return_value \in Value /\ \A i \in Value : program.uses[i] \subseteq Value
    BY <1>1 DEF IsProgram, Value
  <2>3. \A v \in Value : last_use[v] = note_use(program, v)
    BY DEF Init
  <2>4. last_use \in [Value -> 0..program.size]
    BY <2>1 DEF Init
  <2>5. \A i \in Value : \A v \in program.uses[i] : i <= last_use[v]
    BY <2>1, <2>2, <2>3 DEF Value
  <2>6. program \in Program /\ index \in 0..program.size
    BY <1>1 DEF Init
  <2>7. \A v \in Value : v <= last_use[v]
    BY <2>1, <2>3
  <2>8. last_use[program.return_value] = program.size
    BY <2>1, <2>2, <2>3
  <2> QED
    BY <2>4, <2>5, <2>6, <2>7, <2>8 DEF UsesAreBounded
<1>3. RegistersExist /\ ActiveOwnTheirs /\ RegistersAreDisjoint
  BY DEF Init, RegistersExist, ActiveOwnTheirs, RegistersAreDisjoint, None, Register, Bank
<1>4. SlotsAreDisjoint /\ EveryValueHasAHome
  BY <1>1 DEF Init, SlotsAreDisjoint, EveryValueHasAHome, None, Value
<1> QED
  BY <1>2, <1>3, <1>4 DEF AllocationInv

\* A new slot lies above all others.
LEMMA SpilledStep ==
  ASSUME AllocationInv, program' = program, NEW v \in Value, Spilled(v)
  PROVE  /\ SlotsAreDisjoint'
         /\ spill_slot'[v] # None
         /\ \A w \in Value : w # v => spill_slot'[w] = spill_slot[w]
<1> DEFINE s == reserve_stack_slot(type(v))
<1>1. s \in Nat /\ s >= spill_slots /\ spill_slots \in Nat
  BY DEF AllocationInv, SlotsAreDisjoint, reserve_stack_slot
<1>2. /\ spill_slot' = [spill_slot EXCEPT ![v] = s]
      /\ spill_slots' = s + width(v)
      /\ spill_slot \in [Value -> Nat \cup {None}]
  BY DEF Spilled, AllocationInv, SlotsAreDisjoint, width
<1> HIDE DEF s
<1>3. Value' = Value /\ \A w : width(w)' = width(w)
  BY DEF Value, width, type, stack_slot_width
<1>4. \A w \in Value : width(w) \in Nat
  BY ProgramFacts
<1>5. spill_slot'[v] = s /\ \A w \in Value : w # v => spill_slot'[w] = spill_slot[w]
  BY <1>2
<1>6. s # None
  BY <1>1 DEF None
<1>7. spill_slot' \in [Value -> Nat \cup {None}] /\ spill_slots' \in Nat
  BY <1>1, <1>2, <1>4
<1>8. \A w \in Value :
        spill_slot[w] # None => spill_slot[w] \in Nat /\ spill_slot[w] + width(w) <= spill_slots
  BY <1>2 DEF AllocationInv, SlotsAreDisjoint
<1>9. \A w \in Value : spill_slot'[w] # None => spill_slot'[w] + width(w) <= spill_slots'
  BY <1>1, <1>2, <1>4, <1>5, <1>8
<1>10. ASSUME NEW x \in Value, NEW y \in Value,
              x # y, spill_slot'[x] # None, spill_slot'[y] # None
       PROVE  spill_slot'[x] + width(x) <= spill_slot'[y] \/ spill_slot'[y] + width(y) <= spill_slot'[x]
  <2>1. CASE x = v
    BY <2>1, <1>10, <1>1, <1>4, <1>5, <1>8
  <2>2. CASE y = v
    BY <2>2, <1>10, <1>1, <1>4, <1>5, <1>8
  <2>3. CASE x # v /\ y # v
    BY <2>3, <1>10, <1>5 DEF AllocationInv, SlotsAreDisjoint
  <2> QED
    BY <2>1, <2>2, <2>3
<1> QED
  BY <1>3, <1>5, <1>6, <1>7, <1>9, <1>10 DEF SlotsAreDisjoint

\* Steps that leave the registers and the slots alone.
LEMMA AllocationFrame ==
  ASSUME AllocationInv, program' = program, last_use' = last_use,
         register_index' = register_index, spill_slot' = spill_slot, spill_slots' = spill_slots,
         phase' # "scan", phase = "scan" => index = program.size,
         index' \in 0..program.size
  PROVE  AllocationInv'
<1>1. Value' = Value /\ \A w : width(w)' = width(w) /\ bank(w)' = bank(w)
  BY DEF Value, width, bank, type, stack_slot_width, register_bank
<1>2. UsesAreBounded'
  BY <1>1 DEF AllocationInv, UsesAreBounded
<1>3. RegistersExist' /\ ActiveOwnTheirs' /\ SlotsAreDisjoint'
  BY <1>1 DEF AllocationInv, RegistersExist, ActiveOwnTheirs, SlotsAreDisjoint, Register
<1>4. RegistersAreDisjoint'
  BY <1>1 DEF AllocationInv, RegistersAreDisjoint, bank
<1>5. EveryValueHasAHome'
  <2>1. \A v \in Value : v < program.size
    BY ProgramFacts DEF Value
  <2> QED
    BY <1>1, <2>1 DEF AllocationInv, EveryValueHasAHome
<1> QED
  BY <1>2, <1>3, <1>4, <1>5 DEF AllocationInv

\* What the actions of the scan have in common.
LEMMA ScanFacts ==
  ASSUME AllocationInv, ScanNext
  PROVE  /\ index \in Value /\ index \in Nat /\ index' = index + 1
         /\ phase = "scan" /\ phase' = "scan"
         /\ program' = program /\ last_use' = last_use
         /\ Value' = Value /\ \A w : width(w)' = width(w) /\ bank(w)' = bank(w)
         /\ UsesAreBounded'
         /\ \A v \in Value : v \in Nat /\ last_use[v] \in Nat /\ v <= last_use[v]
<1>1. program' = program /\ last_use' = last_use
  BY DEF ScanNext
<1>2. Value' = Value /\ \A w : width(w)' = width(w) /\ bank(w)' = bank(w)
  BY <1>1 DEF Value, width, bank, type, stack_slot_width, register_bank
<1>3. program.size \in Nat /\ Value \subseteq Nat
  BY ProgramFacts
<1>4. index \in Value /\ index' \in 0..program.size /\ index \in Nat
  BY <1>3 DEF AllocationInv, UsesAreBounded, ScanNext, Value
<1>5. UsesAreBounded'
  BY <1>1, <1>2, <1>4 DEF AllocationInv, UsesAreBounded
<1>6. \A v \in Value : v \in Nat /\ last_use[v] \in Nat /\ v <= last_use[v]
  BY <1>3 DEF AllocationInv, UsesAreBounded
<1> QED
  BY <1>1, <1>2, <1>4, <1>5, <1>6 DEF ScanNext

\* A value that lives on the stack gets words of its own.
LEMMA AssignStackStep == AllocationInv /\ AssignStack => AllocationInv'
<1> SUFFICES ASSUME AllocationInv, AssignStack PROVE AllocationInv'
  OBVIOUS
<1> USE ScanFacts DEF AssignStack
<1>1. SlotsAreDisjoint' /\ spill_slot'[index] # None
      /\ \A w \in Value : w # index => spill_slot'[w] = spill_slot[w]
  BY SpilledStep
<1>2. RegistersExist'
  BY DEF AllocationInv, RegistersExist, Register
<1>3. ActiveOwnTheirs'
  BY DEF AllocationInv, ActiveOwnTheirs, Register
<1>4. RegistersAreDisjoint'
  BY DEF AllocationInv, RegistersAreDisjoint, bank
<1>5. EveryValueHasAHome'
  BY <1>1 DEF AllocationInv, EveryValueHasAHome
<1> QED
  BY <1>1, <1>2, <1>3, <1>4, <1>5 DEF AllocationInv

\* So does a value that finds no register.
LEMMA SpillSelfStep == AllocationInv /\ SpillSelf => AllocationInv'
<1> SUFFICES ASSUME AllocationInv, SpillSelf PROVE AllocationInv'
  OBVIOUS
<1> USE ScanFacts DEF SpillSelf
<1>1. SlotsAreDisjoint' /\ spill_slot'[index] # None
      /\ \A w \in Value : w # index => spill_slot'[w] = spill_slot[w]
  BY SpilledStep
<1>2. RegistersExist'
  BY DEF AllocationInv, RegistersExist, Register
<1>3. ActiveOwnTheirs'
  BY DEF AllocationInv, ActiveOwnTheirs, Register
<1>4. RegistersAreDisjoint'
  BY DEF AllocationInv, RegistersAreDisjoint, bank
<1>5. EveryValueHasAHome'
  BY <1>1 DEF AllocationInv, EveryValueHasAHome
<1> QED
  BY <1>1, <1>2, <1>3, <1>4, <1>5 DEF AllocationInv

\* A register that is taken belonged to nobody, or to a value that is not used
\* any more.
LEMMA AssignRegisterStep == AllocationInv /\ AssignRegister => AllocationInv'
<1> SUFFICES ASSUME AllocationInv, AssignRegister PROVE AllocationInv'
  OBVIOUS
<1> USE ScanFacts
<1> DEFINE b == bank(index)
<1>0. ScanNext
  BY DEF AssignRegister
<1>1. b \in Bank /\ spill_slot' = spill_slot /\ spill_slots' = spill_slots
      /\ active' = (active \ Expired(b)) \cup {index}
  BY DEF AssignRegister, bank
<1>2. PICK r \in Available(b) :
        /\ register_index' = [register_index EXCEPT ![index] = r]
        /\ free' = [free EXCEPT ![b] = Available(b) \ {r}]
  BY DEF AssignRegister, bank
<1> HIDE DEF b
<1>a. b = bank(index)
  BY DEF b
<1>3. /\ active \subseteq Value
      /\ free \in [Bank -> SUBSET Nat]
      /\ \A c \in Bank : free[c] \subseteq Register(c)
      /\ \A v \in active :
           register_index[v] # None /\ bank(v) \in Bank /\ register_index[v] \notin free[bank(v)]
      /\ \A v, w \in active :
           bank(v) = bank(w) /\ register_index[v] = register_index[w] => v = w
      /\ \A v \in Value :
           register_index[v] # None => v < index /\ (v \notin active => last_use[v] < index)
  BY <1>0 DEF AllocationInv, ActiveOwnTheirs
<1>4. /\ register_index \in [Value -> Nat \cup {None}]
      /\ \A v \in Value :
           register_index[v] # None => bank(v) \in Bank /\ register_index[v] \in Register(bank(v))
  BY DEF AllocationInv, RegistersExist
<1>5. \A v \in Expired(b) : v \in active /\ bank(v) = b /\ last_use[v] < index
  BY DEF Expired, bank
<1>6. Available(b) \subseteq Register(b) /\ Register(b) \subseteq Nat
  BY <1>1, <1>3, <1>4, <1>5 DEF Available, Register
<1>7. r \in Nat /\ r \in Register(b) /\ r # None
  BY <1>2, <1>6 DEF None
<1>8. register_index'[index] = r /\ \A v \in Value : v # index => register_index'[v] = register_index[v]
  BY <1>0, <1>2, <1>4
<1>9. free'[b] = Available(b) \ {r} /\ \A c \in Bank : c # b => free'[c] = free[c]
  BY <1>1, <1>2, <1>3
<1>10. \A v \in Value : v # index /\ bank(v) = b /\ register_index[v] = r => last_use[v] < index
  <2> SUFFICES ASSUME NEW v \in Value, v # index, bank(v) = b, register_index[v] = r
               PROVE  last_use[v] < index
    OBVIOUS
  <2>1. CASE v \notin active
    BY <2>1, <1>3, <1>7
  <2>2. CASE v \in active
    <3>1. r \notin free[b]
      BY <2>2, <1>3
    <3>2. PICK u \in Expired(b) : r = register_index[u]
      BY <3>1, <1>2 DEF Available
    <3>3. u = v
      BY <3>2, <2>2, <1>3, <1>5
    <3> QED
      BY <3>2, <3>3, <1>5
  <2> QED
    BY <2>1, <2>2
<1>11. RegistersExist'
  BY <1>0, <1>1, <1>a, <1>2, <1>4, <1>7, <1>8 DEF RegistersExist, Register
<1>12. ActiveOwnTheirs'
  <2>1. active' \subseteq Value
    BY <1>0, <1>1, <1>3
  <2>2. free' \in [Bank -> SUBSET Nat] /\ \A c \in Bank : free'[c] \subseteq Register(c)
    BY <1>1, <1>2, <1>3, <1>6, <1>9
  <2>3. \A v \in active' : v # index => v \in active /\ v \notin Expired(b)
    BY <1>1
  <2>4. index \notin active
    BY <1>0, <1>3
  <2>5. ASSUME NEW v \in active, v \notin Expired(b), bank(v) = b
        PROVE  register_index[v] \notin Available(b)
    BY <2>5, <1>3, <1>5 DEF Available
  <2>6. \A v \in active' :
          register_index'[v] # None /\ bank(v) \in Bank /\ register_index'[v] \notin free'[bank(v)]
    BY <1>0, <1>a, <1>1, <1>3, <1>7, <1>8, <1>9, <2>1, <2>3, <2>5
  <2>7. \A v, w \in active' :
          bank(v) = bank(w) /\ register_index'[v] = register_index'[w] => v = w
    BY <1>0, <1>a, <1>1, <1>2, <1>3, <1>7, <1>8, <2>1, <2>3, <2>5
  <2>8. \A v \in Value :
          register_index'[v] # None
            => v < index' /\ (v \notin active' => last_use[v] < index')
    <3> SUFFICES ASSUME NEW v \in Value, register_index'[v] # None
                 PROVE  v < index' /\ (v \notin active' => last_use[v] < index')
      OBVIOUS
    <3>1. CASE v = index
      BY <3>1, <1>0, <1>1
    <3>2. CASE v # index
      BY <3>2, <1>0, <1>1, <1>3, <1>5, <1>8
    <3> QED
      BY <3>1, <3>2
  <2> QED
    BY <1>0, <2>1, <2>2, <2>6, <2>7, <2>8 DEF ActiveOwnTheirs, Register
<1>13. RegistersAreDisjoint'
  <2> SUFFICES ASSUME NEW v \in Value, NEW w \in Value, v < w,
                      register_index'[v] # None, register_index'[v] = register_index'[w],
                      bank(v) = bank(w)
               PROVE  last_use[v] < w
    BY <1>0 DEF RegistersAreDisjoint, bank
  <2>1. CASE w = index
    BY <2>1, <1>0, <1>a, <1>8, <1>10
  <2>2. CASE w # index
    <3>1. v # index
      BY <2>2, <1>0, <1>3, <1>8
    <3> QED
      BY <2>2, <3>1, <1>8 DEF AllocationInv, RegistersAreDisjoint, bank
  <2> QED
    BY <2>1, <2>2
<1>14. SlotsAreDisjoint'
  BY <1>0, <1>1 DEF AllocationInv, SlotsAreDisjoint
<1>15. EveryValueHasAHome'
  BY <1>0, <1>1, <1>7, <1>8 DEF AllocationInv, EveryValueHasAHome
<1> QED
  BY <1>0, <1>11, <1>12, <1>13, <1>14, <1>15 DEF AllocationInv

\* The evicted value was the only active one in its register.
LEMMA EvictStep == AllocationInv /\ Evict => AllocationInv'
<1> SUFFICES ASSUME AllocationInv, Evict PROVE AllocationInv'
  OBVIOUS
<1> USE ScanFacts
<1>0. ScanNext
  BY DEF Evict
<1>1. PICK victim \in active :
        /\ IsVictim(victim, bank(index))
        /\ register_index' = [register_index EXCEPT ![index] = register_index[victim],
                                                    ![victim] = None]
        /\ Spilled(victim)
        /\ active' = (active \ {victim}) \cup {index}
  BY DEF Evict, bank
<1>2. /\ active \subseteq Value
      /\ free \in [Bank -> SUBSET Nat]
      /\ \A c \in Bank : free[c] \subseteq Register(c)
      /\ \A v \in active :
           register_index[v] # None /\ bank(v) \in Bank /\ register_index[v] \notin free[bank(v)]
      /\ \A v, w \in active :
           bank(v) = bank(w) /\ register_index[v] = register_index[w] => v = w
      /\ \A v \in Value :
           register_index[v] # None => v < index /\ (v \notin active => last_use[v] < index)
  BY <1>0 DEF AllocationInv, ActiveOwnTheirs
<1>3. /\ register_index \in [Value -> Nat \cup {None}]
      /\ \A v \in Value :
           register_index[v] # None => bank(v) \in Bank /\ register_index[v] \in Register(bank(v))
  BY DEF AllocationInv, RegistersExist
<1>4. bank(victim) = bank(index) /\ victim \in Value /\ victim # index /\ free' = free
  BY <1>0, <1>1, <1>2 DEF IsVictim, StillActive, bank, Evict
<1>5. /\ register_index'[index] = register_index[victim]
      /\ register_index'[victim] = None
      /\ \A v \in Value : v # index /\ v # victim => register_index'[v] = register_index[v]
  BY <1>0, <1>1, <1>3, <1>4
<1>6. SlotsAreDisjoint' /\ spill_slot'[victim] # None
      /\ \A w \in Value : w # victim => spill_slot'[w] = spill_slot[w]
  BY <1>0, <1>1, <1>4, SpilledStep
<1>7. RegistersExist'
  <2>1. register_index' \in [Value -> Nat \cup {None}]
    BY <1>0, <1>1, <1>3, <1>4
  <2>2. \A v \in Value :
          register_index'[v] # None => bank(v) \in Bank /\ register_index'[v] \in Register(bank(v))
    BY <1>2, <1>3, <1>4, <1>5
  <2> QED
    BY <1>0, <2>1, <2>2 DEF RegistersExist, Register
<1>8. ActiveOwnTheirs'
  <2>1. active' \subseteq Value /\ index \notin active
    BY <1>0, <1>1, <1>2
  <2>2. \A v \in active' : v = index \/ (v \in active /\ v # victim /\ v # index)
    BY <1>1, <2>1
  <2>3. \A v \in active' :
          register_index'[v] # None /\ bank(v) \in Bank /\ register_index'[v] \notin free[bank(v)]
    BY <1>1, <1>2, <1>4, <1>5, <2>1, <2>2
  <2>4. \A v, w \in active' :
          bank(v) = bank(w) /\ register_index'[v] = register_index'[w] => v = w
    BY <1>1, <1>2, <1>4, <1>5, <2>1, <2>2
  <2>5. \A v \in Value :
          register_index'[v] # None
            => v < index' /\ (v \notin active' => last_use[v] < index')
    <3> SUFFICES ASSUME NEW v \in Value, register_index'[v] # None
                 PROVE  v < index' /\ (v \notin active' => last_use[v] < index')
      OBVIOUS
    <3>1. CASE v = index
      BY <3>1, <1>0, <1>1
    <3>2. CASE v # index
      <4>1. v # victim /\ register_index[v] # None
        BY <3>2, <1>5
      <4>2. v < index /\ (v \notin active => last_use[v] < index)
        BY <4>1, <1>2
      <4>3. v \notin active' => v \notin active
        BY <4>1, <1>1
      <4> QED
        BY <4>2, <4>3, <1>0
    <3> QED
      BY <3>1, <3>2
  <2> QED
    BY <1>0, <1>2, <1>4, <2>1, <2>3, <2>4, <2>5 DEF ActiveOwnTheirs, Register
<1>9. RegistersAreDisjoint'
  <2> SUFFICES ASSUME NEW v \in Value, NEW w \in Value, v < w,
                      register_index'[v] # None, register_index'[v] = register_index'[w],
                      bank(v) = bank(w)
               PROVE  last_use[v] < w
    BY <1>0 DEF RegistersAreDisjoint, bank
  <2>1. v # victim /\ w # victim
    BY <1>5
  <2>2. v # index
    BY <1>0, <1>2, <1>5, <2>1
  <2>3. CASE w = index
    BY <2>1, <2>2, <2>3, <1>1, <1>2, <1>4, <1>5
  <2>4. CASE w # index
    BY <2>1, <2>2, <2>4, <1>5 DEF AllocationInv, RegistersAreDisjoint, bank
  <2> QED
    BY <2>3, <2>4
<1>10. EveryValueHasAHome'
  <2> SUFFICES ASSUME NEW v \in Value, v < index'
               PROVE  register_index'[v] # None \/ spill_slot'[v] # None
    BY <1>0 DEF EveryValueHasAHome
  <2>1. CASE v = index
    BY <2>1, <1>1, <1>2, <1>5
  <2>2. CASE v = victim
    BY <2>2, <1>6
  <2>3. CASE v # index /\ v # victim
    BY <2>3, <1>0, <1>5, <1>6 DEF AllocationInv, EveryValueHasAHome
  <2> QED
    BY <2>1, <2>2, <2>3
<1> QED
  BY <1>0, <1>6, <1>7, <1>8, <1>9, <1>10 DEF AllocationInv

\* And a value that lives across a call.
LEMMA ReserveAcrossCallStep == AllocationInv /\ ReserveAcrossCall => AllocationInv'
<1> SUFFICES ASSUME AllocationInv, ReserveAcrossCall PROVE AllocationInv'
  OBVIOUS
<1>1. PICK v \in NeedsSlot : Spilled(v)
  BY DEF ReserveAcrossCall
<1>2. v \in Value /\ program' = program /\ last_use' = last_use /\ index' = index
      /\ register_index' = register_index /\ phase = "calls" /\ phase' = "calls"
  BY DEF ReserveAcrossCall, NeedsSlot
<1>3. SlotsAreDisjoint' /\ spill_slot'[v] # None
      /\ \A w \in Value : w # v => spill_slot'[w] = spill_slot[w]
  BY <1>1, <1>2, SpilledStep
<1>4. Value' = Value /\ \A w : bank(w)' = bank(w)
  BY <1>2 DEF Value, bank, type, register_bank
<1>5. UsesAreBounded' /\ RegistersExist' /\ ActiveOwnTheirs'
  BY <1>2, <1>4
     DEF AllocationInv, UsesAreBounded, RegistersExist, ActiveOwnTheirs, Register
<1>6. RegistersAreDisjoint'
  BY <1>2, <1>4 DEF AllocationInv, RegistersAreDisjoint, bank
<1>7. EveryValueHasAHome'
  BY <1>2, <1>3, <1>4 DEF AllocationInv, EveryValueHasAHome
<1> QED
  BY <1>3, <1>5, <1>6, <1>7 DEF AllocationInv

\* Every step keeps the invariant of the scan.
LEMMA AllocationStep == AllocationInv /\ [Next]_vars => AllocationInv'
<1> SUFFICES ASSUME AllocationInv, [Next]_vars PROVE AllocationInv'
  OBVIOUS
<1>0. program.size \in Nat /\ program.size > 0 /\ index \in 0..program.size
  BY ProgramFacts DEF AllocationInv, UsesAreBounded
<1>1. CASE AssignStack
  BY <1>1, AssignStackStep
<1>2. CASE AssignRegister
  BY <1>2, AssignRegisterStep
<1>3. CASE Evict
  BY <1>3, EvictStep
<1>4. CASE SpillSelf
  BY <1>4, SpillSelfStep
<1>5. CASE ReserveAcrossCall
  BY <1>5, ReserveAcrossCallStep
<1>6. CASE EndScan
  <2>1. program' = program /\ last_use' = last_use
        /\ register_index' = register_index /\ spill_slot' = spill_slot
        /\ spill_slots' = spill_slots /\ index' = index
    BY <1>6 DEF EndScan, allocationVars
  <2> QED
    BY <1>6, <1>0, <2>1, AllocationFrame DEF EndScan
<1>7. CASE EndAllocation
  <2>1. program' = program /\ last_use' = last_use
        /\ register_index' = register_index /\ spill_slot' = spill_slot
        /\ spill_slots' = spill_slots /\ index' = 0
    BY <1>7 DEF EndAllocation, allocationVars
  <2> QED
    BY <1>7, <1>0, <2>1, AllocationFrame DEF EndAllocation
<1>8. CASE ExecuteNode \/ ExecuteCall \/ ExecuteExclusive \/ ExecuteFallback
  <2>1. program' = program /\ last_use' = last_use
        /\ register_index' = register_index /\ spill_slot' = spill_slot
        /\ spill_slots' = spill_slots /\ index' = index + 1
    BY <1>8 DEF ExecuteNode, ExecuteCall, ExecuteExclusive, ExecuteFallback, RunNext, allocationVars
  <2>2. index' \in 0..program.size /\ phase = "run" /\ phase' = "run"
    BY <1>8, <1>0, <2>1 DEF ExecuteNode, ExecuteCall, ExecuteExclusive, ExecuteFallback, RunNext
  <2> QED
    BY <2>1, <2>2, AllocationFrame
<1>9. CASE Leave
  <2>1. program' = program /\ last_use' = last_use
        /\ register_index' = register_index /\ spill_slot' = spill_slot
        /\ spill_slots' = spill_slots /\ index' = index
    BY <1>9 DEF Leave, allocationVars
  <2> QED
    BY <1>9, <1>0, <2>1, AllocationFrame DEF Leave
<1>10. CASE UNCHANGED vars
  <2>1. program' = program /\ last_use' = last_use
        /\ register_index' = register_index /\ spill_slot' = spill_slot
        /\ spill_slots' = spill_slots /\ index' = index /\ phase' = phase
        /\ active' = active /\ free' = free
    BY <1>10 DEF vars, allocationVars
  <2>2. Value' = Value /\ \A w : bank(w)' = bank(w) /\ width(w)' = width(w)
    BY <2>1 DEF Value, bank, width, type, register_bank, stack_slot_width
  <2>3. UsesAreBounded' /\ RegistersExist' /\ ActiveOwnTheirs' /\ SlotsAreDisjoint'
    BY <2>1, <2>2
       DEF AllocationInv, UsesAreBounded, RegistersExist, ActiveOwnTheirs, SlotsAreDisjoint, Register
  <2>4. RegistersAreDisjoint' /\ EveryValueHasAHome'
    BY <2>1, <2>2 DEF AllocationInv, RegistersAreDisjoint, EveryValueHasAHome, bank
  <2> QED
    BY <2>3, <2>4 DEF AllocationInv
<1> QED
  BY <1>1, <1>2, <1>3, <1>4, <1>5, <1>6, <1>7, <1>8, <1>9, <1>10 DEF Next

\* allocate_impl never lets two values that are live at the same time share a
\* register, for every function and every number of registers.
THEOREM RegistersNeverShared == Spec => []RegistersAreDisjoint
<1>1. AllocationInv => RegistersAreDisjoint
  BY DEF AllocationInv
<1> QED
  BY AllocationInit, AllocationStep, <1>1, PTL DEF Spec

-----------------------------------------------------------------------------
(***************************************************************************)
(* The execution.                                                          *)
(***************************************************************************)

\* Slots lie within the frame, and those of two values share no word.
LEMMA SlotFacts ==
  ASSUME AllocationInv, spill_slots <= maximum_spill_slots
  PROVE  /\ \A v \in Value : spill_slot[v] # None => Words(v) \subseteq 0..maximum_spill_slots-1
         /\ \A v, w \in Value :
              v # w /\ spill_slot[v] # None /\ spill_slot[w] # None
                => \A s \in Words(v) : s \notin Words(w)
<1> USE ProgramFacts, LinearScanAssumption
<1>1. SlotsAreDisjoint
  BY DEF AllocationInv
<1>2. \A v \in Value : /\ Words(v) = spill_slot[v]..(spill_slot[v] + width(v) - 1)
                       /\ width(v) \in Nat
                       /\ spill_slot[v] # None => spill_slot[v] \in Nat
  BY <1>1 DEF Words, width, SlotsAreDisjoint
<1>3. ASSUME NEW v \in Value, spill_slot[v] # None PROVE Words(v) \subseteq 0..maximum_spill_slots-1
  BY <1>1, <1>2, <1>3 DEF SlotsAreDisjoint
<1>4. ASSUME NEW v \in Value, NEW w \in Value, v # w, spill_slot[v] # None, spill_slot[w] # None,
             NEW s \in Words(v)
      PROVE  s \notin Words(w)
  <2>1. \/ spill_slot[v] + width(v) <= spill_slot[w]
        \/ spill_slot[w] + width(w) <= spill_slot[v]
    BY <1>1, <1>4 DEF SlotsAreDisjoint
  <2> QED
    BY <1>2, <1>4, <2>1
<1> QED
  BY <1>3, <1>4

\* A value that is read has been written, and is live.
LEMMA LiveIsRead == AllocationInv /\ LiveValuesAreIntact => ReadsAreIntact
<1> SUFFICES ASSUME AllocationInv, LiveValuesAreIntact, phase \in {"run", "done"},
                    NEW v \in Reads(index)
             PROVE  Intact(v)
  BY DEF ReadsAreIntact
<1>1. UsesAreBounded /\ IsProgram(program) /\ program.size \in Nat
  BY ProgramFacts DEF AllocationInv
<1>2. v \in Value /\ v < index /\ last_use[v] >= index
  <2>1. CASE index = program.size
    BY <1>1, <2>1 DEF Reads, UsesAreBounded, IsProgram, Value
  <2>2. CASE index # program.size
    <3>1. index \in Value
      BY <1>1, <2>2 DEF UsesAreBounded, Value
    <3>2. v \in program.uses[index] \/ v \in LiveAt(index)
      BY <2>2 DEF Reads
    <3>3. CASE v \in program.uses[index]
      <4>1. v \in Value /\ v < index
        BY <3>1, <3>3, <1>1 DEF IsProgram, Value
      <4>2. index <= last_use[v]
        BY <3>1, <3>3, <1>1 DEF UsesAreBounded
      <4>3. last_use[v] \in 0..program.size
        BY <4>1, <1>1 DEF UsesAreBounded
      <4> QED
        BY <4>1, <4>2, <4>3, <3>1, <1>1 DEF Value
    <3>4. CASE v \in LiveAt(index)
      BY <3>1, <3>4, <1>1 DEF LiveAt, Value
    <3> QED
      BY <3>2, <3>3, <3>4
  <2> QED
    BY <2>1, <2>2
<1> QED
  BY <1>2 DEF LiveValuesAreIntact

\* What every step of the code leaves alone.
LEMMA RunFacts ==
  ASSUME AllocationInv, RunNext
  PROVE  /\ index \in Value /\ index \in Nat /\ index' = index + 1
         /\ last_use' = last_use /\ last_use \in [Value -> Nat] /\ Value' = Value
         /\ register_index' = register_index /\ spill_slot' = spill_slot
         /\ spill_slots' = spill_slots
         /\ NeedsSlot' = NeedsSlot
         /\ \A v : bank(v)' = bank(v) /\ Words(v)' = Words(v)
<1>1. /\ program' = program /\ last_use' = last_use /\ register_index' = register_index
      /\ spill_slot' = spill_slot /\ spill_slots' = spill_slots
      /\ index' = index + 1 /\ index < program.size
  BY DEF RunNext, allocationVars
<1>2. program.size \in Nat /\ index \in 0..program.size /\ last_use \in [Value -> 0..program.size]
  BY ProgramFacts DEF AllocationInv, UsesAreBounded
<1>3. Value' = Value
  BY <1>1 DEF Value
<1>4. \A v : bank(v)' = bank(v) /\ Words(v)' = Words(v)
  BY <1>1 DEF bank, Words, type, register_bank, stack_slot_width
<1>5. NeedsSlot' = NeedsSlot
  BY <1>1 DEF NeedsSlot, LiveAcross, MayCall, Value
<1> QED
  BY <1>1, <1>2, <1>3, <1>4, <1>5 DEF Value

\* The result of a node goes where no live value is kept.
LEMMA ExecuteNodeStep ==
  AllocationInv /\ LiveValuesAreIntact /\ ExecuteNode => LiveValuesAreIntact'
<1> SUFFICES ASSUME AllocationInv, LiveValuesAreIntact, ExecuteNode PROVE LiveValuesAreIntact'
  OBVIOUS
<1>0. RunNext /\ phase = "run"
  BY DEF ExecuteNode, RunNext
<1> USE RunFacts
<1>1. /\ spill_slots <= maximum_spill_slots /\ NeedsSlot = {}
      /\ \A v \in Value : v < index /\ last_use[v] >= index => Intact(v)
  BY <1>0 DEF LiveValuesAreIntact
<1>2. /\ RegistersAreDisjoint
      /\ \A v \in Value :
           register_index[v] # None => bank(v) \in Bank /\ register_index[v] \in Register(bank(v))
      /\ \A v \in Value : register_index[v] # None \/ spill_slot[v] # None
  BY <1>0 DEF AllocationInv, RegistersExist, EveryValueHasAHome
<1>3. /\ \A b \in Bank : \A r \in Register(b) :
           regs'[b][r] = IF bank(index) = b /\ register_index[index] = r THEN index ELSE regs[b][r]
      /\ \A s \in 0..maximum_spill_slots-1 :
           stack'[s] = IF register_index[index] = None /\ s \in Words(index) THEN index ELSE stack[s]
  BY DEF ExecuteNode, WrittenRegs, WrittenStack, bank
<1>4. ASSUME NEW v \in Value, v < index', last_use[v] >= index' PROVE Intact(v)'
  <2>0. Intact(v)' <=> IF register_index[v] # None THEN regs'[bank(v)][register_index[v]] = v
                                                   ELSE \A s \in Words(v) : stack'[s] = v
    BY <1>0 DEF Intact, In, bank
  <2>1. CASE v = index /\ register_index[v] # None
    BY <2>0, <2>1, <1>2, <1>3
  <2>2. CASE v = index /\ register_index[v] = None
    BY <2>0, <2>2, <1>1, <1>2, <1>3, SlotFacts
  <2>3. ASSUME v # index
        PROVE  v < index /\ last_use[v] > index /\ Intact(v)
    <3>1. v \in Nat /\ v < index /\ last_use[v] > index
      BY <1>0, <1>4, <2>3, ProgramFacts
    <3> QED
      BY <3>1, <1>0, <1>1
  <2>4. CASE v # index /\ register_index[v] # None
    <3>1. ~(bank(index) = bank(v) /\ register_index[index] = register_index[v])
      BY <2>3, <2>4, <1>0, <1>2 DEF RegistersAreDisjoint, bank
    <3>2. regs[bank(v)][register_index[v]] = v
      BY <2>3, <2>4 DEF Intact, In, bank
    <3> QED
      BY <2>0, <2>4, <3>1, <3>2, <1>2, <1>3
  <2>5. CASE v # index /\ register_index[v] = None
    <3>1. \A s \in Words(v) : stack[s] = v
      BY <2>3, <2>5 DEF Intact
    <3>2. spill_slot[v] # None /\ (register_index[index] = None => spill_slot[index] # None)
      BY <2>5, <1>0, <1>2
    <3>3. ASSUME NEW s \in Words(v) PROVE stack'[s] = v
      <4>1. s \in 0..maximum_spill_slots-1
        BY <3>2, <1>1, SlotFacts
      <4>2. register_index[index] = None => s \notin Words(index)
        BY <2>5, <3>2, <1>0, <1>1, SlotFacts
      <4> QED
        BY <4>1, <4>2, <3>1, <1>3
    <3> QED
      BY <2>0, <2>5, <3>3
  <2> QED
    BY <2>1, <2>2, <2>4, <2>5
<1> QED
  BY <1>0, <1>1, <1>3, <1>4 DEF LiveValuesAreIntact

\* What save_live_across_call stores: each live register in a slot of its own.
LEMMA SavedFacts ==
  ASSUME AllocationInv, LiveValuesAreIntact, RunNext, phase = "run", MayCall(index)
  PROVE  /\ \A v : v \in LiveAcross(index) <=>
              v \in Value /\ v < index /\ register_index[v] # None /\ last_use[v] > index
         /\ \A v \in LiveAcross(index) :
              /\ spill_slot[v] # None
              /\ regs[bank(v)][register_index[v]] = v
              /\ ~(bank(index) = bank(v) /\ register_index[index] = register_index[v])
         /\ \A v, w \in LiveAcross(index) :
              bank(v) = bank(w) /\ register_index[v] = register_index[w] => v = w
         /\ \A v \in LiveAcross(index) : \A s \in Words(v) : Saved[s] = v
         /\ \A s \in 0..maximum_spill_slots-1 :
              (\A v \in LiveAcross(index) : s \notin Words(v)) => Saved[s] = stack[s]
<1> USE RunFacts
<1> DEFINE L == LiveAcross(index)
<1>1. /\ spill_slots <= maximum_spill_slots /\ NeedsSlot = {}
      /\ \A v \in Value : v < index /\ last_use[v] >= index => Intact(v)
  BY DEF LiveValuesAreIntact
<1>2. RegistersAreDisjoint
  BY DEF AllocationInv
<1>3. \A v : v \in L <=> v \in Value /\ v < index /\ register_index[v] # None /\ last_use[v] > index
  BY ProgramFacts DEF LiveAcross, Value
<1>4. \A v \in L : spill_slot[v] # None
  BY <1>1, <1>3 DEF NeedsSlot
<1>5. \A v, w \in L : bank(v) = bank(w) /\ register_index[v] = register_index[w] => v = w
  <2> SUFFICES ASSUME NEW v \in L, NEW w \in L, v < w,
                      bank(v) = bank(w), register_index[v] = register_index[w]
               PROVE  FALSE
    BY <1>3, ProgramFacts
  <2>1. last_use[v] < w
    BY <1>2, <1>3 DEF RegistersAreDisjoint, bank
  <2> QED
    BY <2>1, <1>3, ProgramFacts
<1>6. \A v \in L : regs[bank(v)][register_index[v]] = v
  BY <1>1, <1>3 DEF Intact, In, bank
<1>7. \A v \in L : ~(bank(index) = bank(v) /\ register_index[index] = register_index[v])
  BY <1>2, <1>3 DEF RegistersAreDisjoint, bank
<1> HIDE DEF L
<1>8. \A s \in 0..maximum_spill_slots-1 :
        Saved[s] = IF \E v \in L : s \in Words(v)
                     THEN In(regs, CHOOSE v \in L : s \in Words(v)) ELSE stack[s]
  BY DEF Saved, L
<1>9. ASSUME NEW v \in L, NEW s \in Words(v) PROVE Saved[s] = v
  <2>1. s \in 0..maximum_spill_slots-1
    BY <1>1, <1>3, <1>4, SlotFacts
  <2>2. \A w \in L : s \in Words(w) => w = v
    BY <1>1, <1>3, <1>4, SlotFacts
  <2>3. (CHOOSE w \in L : s \in Words(w)) = v
    BY <2>2
  <2>4. Saved[s] = In(regs, v)
    BY <1>8, <2>1, <2>3
  <2> QED
    BY <2>4, <1>6 DEF In, bank
<1> QED
  BY <1>3, <1>4, <1>5, <1>6, <1>7, <1>8, <1>9 DEF L

\* The stack after a call or an atomic access, which both store the result
\* over the saved words.
LEMMA StackAfterCall ==
  ASSUME AllocationInv, LiveValuesAreIntact, RunNext, phase = "run", MayCall(index),
         stack' = WrittenStack(Saved, index)
  PROVE  /\ \A v \in LiveAcross(index) : \A s \in Words(v) : stack'[s] = v
         /\ \A v \in Value :
              /\ v < index' /\ last_use[v] >= index' /\ register_index[v] = None
              => \A s \in Words(v) : stack'[s] = v
<1> USE RunFacts, SavedFacts
<1>1. /\ spill_slots <= maximum_spill_slots
      /\ \A v \in Value : v < index /\ last_use[v] >= index => Intact(v)
  BY DEF LiveValuesAreIntact
<1>2. \A v \in Value : register_index[v] # None \/ spill_slot[v] # None
  BY DEF AllocationInv, EveryValueHasAHome
<1>3. \A s \in 0..maximum_spill_slots-1 :
        stack'[s] = IF register_index[index] = None /\ s \in Words(index) THEN index ELSE Saved[s]
  BY DEF WrittenStack
\* A slot of a value other than the result keeps what Saved put there.
<1>4. ASSUME NEW v \in Value, v # index, spill_slot[v] # None, NEW s \in Words(v)
      PROVE  s \in 0..maximum_spill_slots-1 /\ stack'[s] = Saved[s]
  <2>1. s \in 0..maximum_spill_slots-1
    BY <1>1, <1>4, SlotFacts
  <2>2. register_index[index] = None => s \notin Words(index)
    BY <1>1, <1>2, <1>4, SlotFacts
  <2> QED
    BY <1>3, <2>1, <2>2
<1>5. ASSUME NEW v \in LiveAcross(index), NEW s \in Words(v) PROVE stack'[s] = v
  <2>1. v \in Value /\ v # index /\ spill_slot[v] # None /\ Saved[s] = v
    BY ProgramFacts
  <2> QED
    BY <2>1, <1>4
<1>6. ASSUME NEW v \in Value, v < index', last_use[v] >= index', register_index[v] = None,
             NEW s \in Words(v)
      PROVE  stack'[s] = v
  <2>1. spill_slot[v] # None /\ v \notin LiveAcross(index)
    BY <1>2, <1>6
  <2>2. CASE v = index
    BY <1>1, <1>3, <1>6, <2>1, <2>2, SlotFacts
  <2>3. CASE v # index
    <3>1. v < index /\ last_use[v] >= index
      BY <1>6, <2>3, ProgramFacts
    <3>2. stack[s] = v
      BY <1>1, <1>6, <3>1 DEF Intact
    <3>3. \A w \in LiveAcross(index) : s \notin Words(w)
      BY <1>1, <1>6, <2>1, SlotFacts
    <3>4. s \in 0..maximum_spill_slots-1 /\ stack'[s] = Saved[s]
      BY <1>4, <2>1, <2>3
    <3> QED
      BY <3>2, <3>3, <3>4
  <2> QED
    BY <2>2, <2>3
<1> QED
  BY <1>5, <1>6

\* The registers that were saved, loaded from where Saved or its successor put
\* them, and the register of the result.
LEMMA RestoredFacts ==
  ASSUME AllocationInv, LiveValuesAreIntact, RunNext, phase = "run", MayCall(index),
         NEW file, NEW memory,
         \A v \in LiveAcross(index) : \A s \in Words(v) : memory[s] = v
  PROVE  /\ \A v \in LiveAcross(index) : Restored(file, memory)[bank(v)][register_index[v]] = v
         /\ bank(index) \in Bank /\ register_index[index] \in Register(bank(index))
            => Restored(file, memory)[bank(index)][register_index[index]]
                 = file[bank(index)][register_index[index]]
<1> USE RunFacts, SavedFacts
<1> DEFINE H(b, r) == {w \in LiveAcross(index) : bank(w) = b /\ register_index[w] = r}
<1>1. \A b \in Bank : \A r \in Register(b) :
        Restored(file, memory)[b][r] =
          IF H(b, r) = {} THEN file[b][r] ELSE Reloaded(memory, CHOOSE v \in H(b, r) : TRUE)
  BY DEF Restored, bank
<1>2. \A v \in Value :
        register_index[v] # None => bank(v) \in Bank /\ register_index[v] \in Register(bank(v))
  BY DEF AllocationInv, RegistersExist
<1>3. ASSUME NEW v \in LiveAcross(index)
      PROVE  Restored(file, memory)[bank(v)][register_index[v]] = v
  <2>1. bank(v) \in Bank /\ register_index[v] \in Register(bank(v))
    BY <1>2
  <2>2. H(bank(v), register_index[v]) = {v}
    OBVIOUS
  <2>3. (CHOOSE w \in H(bank(v), register_index[v]) : TRUE) = v
    BY <2>2
  <2>4. Reloaded(memory, v) = v
    BY DEF Reloaded
  <2> HIDE DEF H
  <2> QED
    BY <1>1, <2>1, <2>2, <2>3, <2>4
<1>4. H(bank(index), register_index[index]) = {}
  OBVIOUS
<1> HIDE DEF H
<1> QED
  BY <1>1, <1>3, <1>4

\* Calls and atomic accesses: the callee destroys every register, or none.
LEMMA CallStep ==
  AllocationInv /\ LiveValuesAreIntact /\ (ExecuteCall \/ ExecuteExclusive \/ ExecuteFallback)
    => LiveValuesAreIntact'
<1> SUFFICES ASSUME AllocationInv, LiveValuesAreIntact,
                    ExecuteCall \/ ExecuteExclusive \/ ExecuteFallback
             PROVE  LiveValuesAreIntact'
  OBVIOUS
<1>0. RunNext /\ phase = "run" /\ MayCall(index) /\ stack' = WrittenStack(Saved, index)
  BY DEF ExecuteCall, ExecuteExclusive, ExecuteFallback, RunNext, MayCall
<1> USE <1>0, RunFacts, SavedFacts, StackAfterCall
<1>1. \A v \in Value :
        register_index[v] # None => bank(v) \in Bank /\ register_index[v] \in Register(bank(v))
  BY DEF AllocationInv, RegistersExist
<1>2. \A file : \A b \in Bank : \A r \in Register(b) :
        WrittenRegs(file, index)[b][r]
          = IF bank(index) = b /\ register_index[index] = r THEN index ELSE file[b][r]
  BY DEF WrittenRegs, bank
<1>3. /\ \A v \in LiveAcross(index) : regs'[bank(v)][register_index[v]] = v
      /\ register_index[index] # None => regs'[bank(index)][register_index[index]] = index
  <2>1. CASE ExecuteCall
    <3>1. regs' = Restored(WrittenRegs(lost, index), stack')
      BY <2>1 DEF ExecuteCall
    <3> QED
      BY <1>1, <1>2, <3>1, RestoredFacts
  <2>2. CASE ExecuteExclusive
    <3>1. regs' = WrittenRegs(regs, index)
      BY <2>2 DEF ExecuteExclusive
    <3> QED
      BY <1>1, <1>2, <3>1
  <2>3. CASE ExecuteFallback
    <3>1. regs' = WrittenRegs(Restored(lost, Saved), index)
      BY <2>3 DEF ExecuteFallback
    <3>2. \A v \in LiveAcross(index) : Restored(lost, Saved)[bank(v)][register_index[v]] = v
      BY RestoredFacts
    <3> QED
      BY <1>1, <1>2, <3>1, <3>2
  <2> QED
    BY <2>1, <2>2, <2>3
<1>4. ASSUME NEW v \in Value, v < index', last_use[v] >= index' PROVE Intact(v)'
  <2>0. Intact(v)' <=> IF register_index[v] # None THEN regs'[bank(v)][register_index[v]] = v
                                                   ELSE \A s \in Words(v) : stack'[s] = v
    BY DEF Intact, In, bank
  <2>1. CASE register_index[v] = None
    BY <2>0, <2>1, <1>4
  <2>2. CASE register_index[v] # None /\ v = index
    BY <2>0, <2>2, <1>3
  <2>3. CASE register_index[v] # None /\ v # index
    <3>1. v < index /\ last_use[v] > index
      BY <1>4, <2>3, ProgramFacts
    <3> QED
      BY <2>0, <2>3, <3>1, <1>3
  <2> QED
    BY <2>1, <2>2, <2>3
<1> QED
  BY <1>4 DEF LiveValuesAreIntact

\* Every step keeps live values where the allocation says they are.
LEMMA ExecutionStep ==
  AllocationInv /\ LiveValuesAreIntact /\ [Next]_vars => LiveValuesAreIntact'
<1> SUFFICES ASSUME AllocationInv, LiveValuesAreIntact, [Next]_vars PROVE LiveValuesAreIntact'
  OBVIOUS
<1>1. CASE ExecuteNode
  BY <1>1, ExecuteNodeStep
<1>2. CASE ExecuteCall \/ ExecuteExclusive \/ ExecuteFallback
  BY <1>2, CallStep
<1>3. CASE EndAllocation
  <2>1. /\ index' = 0 /\ regs' = regs /\ Value' = Value /\ spill_slots' = spill_slots
        /\ NeedsSlot' = NeedsSlot
        /\ phase' = "run" => spill_slots <= maximum_spill_slots
        /\ NeedsSlot = {} /\ phase' \notin {"done"}
    BY <1>3 DEF EndAllocation, allocationVars, WithinLimits, NeedsSlot, LiveAcross, MayCall, Value
  <2> QED
    BY <2>1, ProgramFacts DEF LiveValuesAreIntact
<1>4. CASE Leave
  <2>1. /\ phase = "run" /\ index' = index /\ regs' = regs /\ stack' = stack
        /\ Value' = Value /\ spill_slots' = spill_slots /\ last_use' = last_use
        /\ NeedsSlot' = NeedsSlot /\ \A v : Intact(v)' = Intact(v)
    BY <1>4 DEF Leave, allocationVars, NeedsSlot, LiveAcross, MayCall, Value, Intact, In, Words,
                type, register_bank, stack_slot_width
  <2> QED
    BY <2>1 DEF LiveValuesAreIntact
<1>5. CASE UNCHANGED vars
  <2>1. /\ phase' = phase /\ index' = index /\ regs' = regs /\ stack' = stack
        /\ Value' = Value /\ spill_slots' = spill_slots /\ last_use' = last_use
        /\ NeedsSlot' = NeedsSlot /\ \A v : Intact(v)' = Intact(v)
    BY <1>5 DEF vars, allocationVars, NeedsSlot, LiveAcross, MayCall, Value, Intact, In, Words,
                type, register_bank, stack_slot_width
  <2> QED
    BY <2>1 DEF LiveValuesAreIntact
<1>6. CASE AssignStack \/ AssignRegister \/ Evict \/ SpillSelf \/ EndScan \/ ReserveAcrossCall
  BY <1>6 DEF AssignStack, AssignRegister, Evict, SpillSelf, EndScan, ReserveAcrossCall, ScanNext,
              LiveValuesAreIntact
<1> QED
  BY <1>1, <1>2, <1>3, <1>4, <1>5, <1>6 DEF Next

\* The emitted code reads, at every operand, captured value and return, what
\* the node that defines the value wrote, for every function and every target.
THEOREM EveryReadIsIntact == Spec => []ReadsAreIntact
<1>1. Init => LiveValuesAreIntact
  BY DEF Init, LiveValuesAreIntact
<1> QED
  BY AllocationInit, AllocationStep, ExecutionStep, LiveIsRead, <1>1, PTL DEF Spec

=============================================================================
