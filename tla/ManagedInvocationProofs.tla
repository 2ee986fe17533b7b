----------------------- MODULE ManagedInvocationProofs -----------------------
(***************************************************************************)
(* ManagedInvocation for any threads, binders, functions, fast calls and   *)
(* depth of nesting: fast calls reach what their table named, contexts get *)
(* their bindings back, and no update of a table is lost.                  *)
(*                                                                         *)
(* The invariant follows a table from the lock that copies it to the       *)
(* frames that loaded it: it leases what it points to, and what it points  *)
(* to was published.  Every frame remembers what the frames below it had   *)
(* bound.                                                                  *)
(***************************************************************************)
EXTENDS ManagedInvocation, SequenceTheorems, TLAPS

\* A function, or none.
Slot == Function \cup {NoFunction}

Table == [entries : Seq(Slot), leases : Seq(Slot)]

\* A table of f: it leases exactly its entries, and their code is published.
TableOf(pages, f, table) ==
  /\ table \in Table /\ table.leases = table.entries
  /\ Len(table.entries) = Len(fast_calls[f])
  /\ \A i \in 1..Len(table.entries) :
       table.entries[i] # NoFunction => pages[table.entries[i]] = "executable"

\* What is published stays so, and only what is published has handles.
CodeIsPublished ==
  /\ mapping \in [Function -> {"unmapped", "writable", "executable"}]
  /\ handles \subseteq {f \in Function : mapping[f] = "executable"}

TablesAreLeased ==
  /\ DOMAIN current = Function
  /\ \A f \in Function : TableOf(mapping, f, current[f])

\* An update under way holds the mutex of its function, and nobody has
\* replaced the table it loaded.
UpdatesAreExclusive ==
  /\ DOMAIN mutex = Function /\ DOMAIN binder = Binder
  /\ \A b \in Binder : binder[b] # NoUpdate =>
       LET f == binder[b].function
       IN  /\ binder[b] = [function |-> f, index |-> binder[b].index,
                           target |-> binder[b].target, table |-> current[f]]
           /\ f \in Caller /\ mutex[f] = b
           /\ binder[b].index \in DOMAIN fast_calls[f]
           /\ binder[b].target # NoFunction =>
                binder[b].target \in Function /\ mapping[binder[b].target] = "executable"

\* The frames of an invocation.
Frame ==
  [function : Caller, fast_call_targets : Table, previous_patch_cells : Slot,
   previous_fast_call_entries : Table, step : {"activating", "native"}, promised : Seq(Slot),
   reached : SUBSET (Nat \X (Slot \cup {"nowhere"}))]

\* What a frame loaded when it began, with every call bound.
Complete(pages, frame) ==
  /\ TableOf(pages, frame.function, frame.fast_call_targets)
  /\ frame.promised = frame.fast_call_targets.entries
  /\ \A i \in 1..Len(frame.promised) : frame.promised[i] # NoFunction

\* Its calls so far went where they should.
ReachedPromised(frame) == \A call \in frame.reached : call[2] = frame.promised[call[1]]

FramesAreComplete ==
  /\ stack \in [Thread -> Seq(Frame)]
  /\ \A t \in Thread : \A k \in 1..Len(stack[t]) : Complete(mapping, stack[t][k])

\* What a frame has to put back: the bindings of the frames below it.
FramesRemember ==
  \A t \in Thread : \A k \in 1..Len(stack[t]) :
    /\ InnermostCells(stack[t], k - 1, stack[t][k].previous_patch_cells)
    /\ InnermostTable(stack[t], k - 1, stack[t][k].previous_fast_call_entries)

ContextsAreTyped ==
  context \in [Thread -> [patch_cells : Slot, fast_call_entries : Table]]

RequestsAreTyped ==
  DOMAIN requested = Function /\ \A f \in Function : requested[f] \in Seq(Slot)

\* Tables and their updates.
TableInv ==
  /\ CodeIsPublished /\ TablesAreLeased /\ UpdatesAreExclusive
  /\ RequestsAreTyped /\ UpdatesAreKept

\* Invocations and their contexts.
FrameInv ==
  /\ ContextsAreTyped /\ FramesAreComplete /\ FramesRemember
  /\ BindingsFollowInvocations /\ CallsReachTheirTargets

IInv == TableInv /\ FrameInv

-----------------------------------------------------------------------------
(* Functions and tables.                                                    *)

\* Null is no function, and a function's fast calls are numbered from 1.
LEMMA FunctionFacts ==
  /\ NoFunction \notin Function /\ NoFunction \notin Binder /\ Caller \subseteq Function
  /\ \A f \in Function : Len(fast_calls[f]) \in Nat /\ DOMAIN fast_calls[f] = 1..Len(fast_calls[f])
  /\ \A f \in Function : Len(fast_calls[f]) = 0 <=> fast_calls[f] = <<>>
<1>1. NoFunction \notin Function /\ NoFunction \notin Binder /\ Caller \subseteq Function
  BY FunctionsAssumption DEF FunctionsAssumption, NoFunction, Function
<1>2. ASSUME NEW f \in Function
      PROVE  /\ Len(fast_calls[f]) \in Nat /\ DOMAIN fast_calls[f] = 1..Len(fast_calls[f])
             /\ Len(fast_calls[f]) = 0 <=> fast_calls[f] = <<>>
  <2>1. fast_calls[f] \in Seq({signature[g] : g \in Caller \cup Target})
    BY FunctionsAssumption DEF FunctionsAssumption, Function
  <2>. QED  BY <2>1, EmptySeq
<1>. QED  BY <1>1, <1>2

\* Only a function without fast calls has the null table.
LEMMA NullTable ==
  ASSUME NEW pages, NEW f \in Function, NEW table, TableOf(pages, f, table)
  PROVE  table = NoTable <=> fast_calls[f] = <<>>
<1>1. /\ table \in Table /\ table.leases = table.entries /\ table.entries \in Seq(Slot)
      /\ Len(table.entries) = Len(fast_calls[f])
  BY DEF TableOf, Table
<1>2. table = NoTable => Len(table.entries) = 0
  BY DEF NoTable
<1>3. Len(table.entries) = 0 => table.entries = <<>>
  BY <1>1, EmptySeq
<1>4. table = [entries |-> table.entries, leases |-> table.leases]
  BY <1>1 DEF Table
<1>5. table.entries = <<>> => table = NoTable
  BY <1>1, <1>4 DEF NoTable
<1>. QED  BY <1>1, <1>2, <1>3, <1>5, FunctionFacts

\* Code that was published stays where a table found it.
Grows == \A g \in Function : mapping[g] = "executable" => mapping'[g] = "executable"

\* A table stays a table of its function.
LEMMA TableStays ==
  ASSUME Grows, NEW f, NEW table, TableOf(mapping, f, table)
  PROVE  TableOf(mapping', f, table)
<1>1. \A i \in 1..Len(table.entries) : table.entries[i] # NoFunction => table.entries[i] \in Function
  BY ElementOfSeq DEF TableOf, Table, Slot
<1>. QED  BY <1>1 DEF TableOf, Grows

\* So does what a frame loaded.
LEMMA CompleteStays ==
  ASSUME Grows, NEW frame, Complete(mapping, frame)
  PROVE  Complete(mapping', frame)
BY TableStays DEF Complete

-----------------------------------------------------------------------------
(* What the frames have bound.                                              *)

\* Frames are alike to InnermostCells and InnermostTable up to k.
Alike(s, r, k) ==
  \A j \in 1..k : s[j].function = r[j].function /\ s[j].fast_call_targets = r[j].fast_call_targets

\* Such frames have the same bindings.
LEMMA InnermostAlike ==
  ASSUME NEW s, NEW r, NEW k \in Nat, Alike(s, r, k)
  PROVE  /\ \A f : InnermostCells(s, k, f) => InnermostCells(r, k, f)
         /\ \A table : InnermostTable(s, k, table) => InnermostTable(r, k, table)
<1>1. \A j \in 1..k : \A i \in j+1..k : i \in 1..k
  OBVIOUS
<1>. QED  BY <1>1 DEF Alike, InnermostCells, InnermostTable

\* The next frame's bindings win over those below it, if it has any.
LEMMA InnermostPush ==
  ASSUME NEW s, NEW k \in Nat, NEW f, InnermostCells(s, k, f),
         NEW table, InnermostTable(s, k, table)
  PROVE  /\ InnermostCells(s, k + 1, IF s[k + 1].function \in patch_cells THEN s[k + 1].function ELSE f)
         /\ InnermostTable(s, k + 1, IF fast_calls[s[k + 1].function] = <<>> THEN table
                                     ELSE s[k + 1].fast_call_targets)
<1>1. 1..k+1 = 1..k \cup {k + 1} /\ k + 1 \in 1..k+1 /\ (k + 1) + 1 .. k + 1 = {}
  OBVIOUS
<1>2. \A j \in 1..k : j+1..k+1 = (j+1..k) \cup {k + 1}
  OBVIOUS
<1>3. InnermostCells(s, k + 1, IF s[k + 1].function \in patch_cells THEN s[k + 1].function ELSE f)
  <2>1. CASE s[k + 1].function \in patch_cells
    BY <1>1, <2>1 DEF InnermostCells
  <2>2. CASE s[k + 1].function \notin patch_cells
    BY <1>1, <1>2, <2>2 DEF InnermostCells
  <2>. QED  BY <2>1, <2>2
<1>4. InnermostTable(s, k + 1, IF fast_calls[s[k + 1].function] = <<>> THEN table
                               ELSE s[k + 1].fast_call_targets)
  <2>1. CASE fast_calls[s[k + 1].function] = <<>>
    BY <1>1, <1>2, <2>1 DEF InnermostTable
  <2>2. CASE fast_calls[s[k + 1].function] # <<>>
    BY <1>1, <2>2 DEF InnermostTable
  <2>. QED  BY <2>1, <2>2
<1>. QED  BY <1>3, <1>4

\* Without the last frame, if that had none.
LEMMA InnermostPop ==
  ASSUME NEW s, NEW k \in Nat, k # 0
  PROVE  /\ \A f : InnermostCells(s, k, f) /\ s[k].function \notin patch_cells =>
                     InnermostCells(s, k - 1, f)
         /\ \A table : InnermostTable(s, k, table) /\ fast_calls[s[k].function] = <<>> =>
                         InnermostTable(s, k - 1, table)
<1>1. 1..k = 1..(k-1) \cup {k} /\ k \in 1..k
  OBVIOUS
<1>2. \A j \in 1..(k-1) : j+1..k = (j+1..(k-1)) \cup {k}
  OBVIOUS
<1>3. ASSUME NEW f, InnermostCells(s, k, f), s[k].function \notin patch_cells
      PROVE  InnermostCells(s, k - 1, f)
  BY <1>1, <1>2, <1>3 DEF InnermostCells
<1>4. ASSUME NEW table, InnermostTable(s, k, table), fast_calls[s[k].function] = <<>>
      PROVE  InnermostTable(s, k - 1, table)
  BY <1>1, <1>2, <1>4 DEF InnermostTable
<1>. QED  BY <1>3, <1>4

-----------------------------------------------------------------------------
(* Steps on functions and tables.                                           *)

\* Frames do not notice what happens to functions and tables.
LEMMA FramesStay ==
  ASSUME FrameInv, Grows, UNCHANGED <<stack, context>>
  PROVE  FrameInv'
<1>1. FramesAreComplete'
  BY CompleteStays DEF FrameInv, FramesAreComplete
<1>. QED  BY <1>1 DEF FrameInv, ContextsAreTyped, FramesRemember, BindingsFollowInvocations,
                      CallsReachTheirTargets

\* Tables do not notice what invocations do.
LEMMA TablesStay ==
  ASSUME TableInv, UNCHANGED <<mapping, handles, current, mutex, binder, requested>>
  PROVE  TableInv'
BY DEF TableInv, CodeIsPublished, TablesAreLeased, UpdatesAreExclusive, RequestsAreTyped, UpdatesAreKept

\* publish and the loss of handles: published code stays, and what has a
\* handle is published.
LEMMA CodeSteps ==
  ASSUME IInv, NEW f \in Target, Map(f) \/ Protect(f) \/ DropHandle(f)
  PROVE  IInv'
<1>1. f \in Function
  BY DEF Function
<1>2. /\ Grows /\ CodeIsPublished'
      /\ UNCHANGED <<current, mutex, binder, stack, context, requested>>
  <2>1. CASE Map(f)
    BY <1>1, <2>1 DEF Map, IInv, TableInv, CodeIsPublished, Grows
  <2>2. CASE Protect(f)
    <3>1. CASE mapping' = [mapping EXCEPT ![f] = "executable"] /\ handles' = handles \cup {f}
      BY <1>1, <2>2, <3>1 DEF Protect, IInv, TableInv, CodeIsPublished, Grows
    <3>2. CASE mapping' = [mapping EXCEPT ![f] = "unmapped"] /\ handles' = handles
      BY <1>1, <2>2, <3>2 DEF Protect, IInv, TableInv, CodeIsPublished, Grows
    <3>. QED  BY <2>2, <3>1, <3>2 DEF Protect
  <2>3. CASE DropHandle(f)
    BY <2>3 DEF DropHandle, IInv, TableInv, CodeIsPublished, Grows
  <2>. QED  BY <2>1, <2>2, <2>3
<1>3. TablesAreLeased'
  BY <1>2, TableStays DEF IInv, TableInv, TablesAreLeased
<1>4. UpdatesAreExclusive'
  BY <1>2 DEF IInv, TableInv, UpdatesAreExclusive, Grows
<1>5. RequestsAreTyped' /\ UpdatesAreKept'
  BY <1>2 DEF IInv, TableInv, RequestsAreTyped, UpdatesAreKept
<1>6. FrameInv'
  BY <1>2, FramesStay DEF IInv
<1>. QED  BY <1>2, <1>3, <1>4, <1>5, <1>6 DEF IInv, TableInv

\* The lock keeps every other update of the same function out.
LEMMA LockStep ==
  ASSUME IInv, NEW b \in Binder, NEW f \in Caller, NEW index \in DOMAIN fast_calls[f],
         NEW g \in Function \cup {NoFunction}, Lock(b, f, index, g)
  PROVE  IInv'
<1>1. /\ UNCHANGED <<mapping, handles, current, stack, context, requested>>
      /\ binder[b] = NoUpdate /\ mutex[f] = NoFunction /\ f \in Function
      /\ mutex' = [mutex EXCEPT ![f] = b]
      /\ binder' = [binder EXCEPT ![b] = [function |-> f, index |-> index, target |-> g, table |-> current[f]]]
      /\ g # NoFunction => g \in Function /\ mapping[g] = "executable"
  BY FunctionFacts DEF Lock, Fits, IInv, TableInv, CodeIsPublished
<1>2. UpdatesAreExclusive
  BY DEF IInv, TableInv
<1>3. DOMAIN mutex' = Function /\ DOMAIN binder' = Binder
  BY <1>1, <1>2 DEF UpdatesAreExclusive
<1>4. ASSUME NEW c \in Binder, binder'[c] # NoUpdate
      PROVE  LET h == binder'[c].function
             IN  /\ binder'[c] = [function |-> h, index |-> binder'[c].index,
                                  target |-> binder'[c].target, table |-> current'[h]]
                 /\ h \in Caller /\ mutex'[h] = c
                 /\ binder'[c].index \in DOMAIN fast_calls[h]
                 /\ binder'[c].target # NoFunction =>
                      binder'[c].target \in Function /\ mapping'[binder'[c].target] = "executable"
  <2>1. CASE c = b
    <3>1. binder'[c] = [function |-> f, index |-> index, target |-> g, table |-> current[f]]
      BY <1>1, <1>2, <2>1 DEF UpdatesAreExclusive
    <3>2. mutex'[f] = c
      BY <1>1, <1>2, <2>1 DEF UpdatesAreExclusive
    <3>. QED  BY <1>1, <3>1, <3>2
  <2>2. CASE c # b
    <3>1. binder'[c] = binder[c]
      BY <1>1, <1>2, <2>2 DEF UpdatesAreExclusive
    <3>2. mutex[binder[c].function] = c /\ binder[c].function \in Function
      BY <1>2, <1>4, <3>1, FunctionFacts DEF UpdatesAreExclusive
    <3>3. binder[c].function # f
      BY <1>1, <3>2, FunctionFacts
    <3>4. mutex'[binder[c].function] = c
      BY <1>1, <1>2, <3>2, <3>3 DEF UpdatesAreExclusive
    <3>. QED  BY <1>1, <1>2, <1>4, <3>1, <3>4 DEF UpdatesAreExclusive
  <2>. QED  BY <2>1, <2>2
<1>5. UpdatesAreExclusive'
  BY <1>3, <1>4 DEF UpdatesAreExclusive
<1>6. CodeIsPublished' /\ TablesAreLeased' /\ RequestsAreTyped' /\ UpdatesAreKept'
  BY <1>1 DEF IInv, TableInv, CodeIsPublished, TablesAreLeased, RequestsAreTyped, UpdatesAreKept
<1>7. FrameInv'
  BY <1>1, FramesStay DEF IInv, Grows
<1>. QED  BY <1>5, <1>6, <1>7 DEF IInv, TableInv

\* The mutex is given back: the other updates are of other functions.
LEMMA UnlockStep ==
  ASSUME UpdatesAreExclusive, NEW b \in Binder, binder[b] # NoUpdate, mapping' = mapping,
         mutex' = [mutex EXCEPT ![binder[b].function] = NoFunction],
         binder' = [binder EXCEPT ![b] = NoUpdate],
         \A h \in Caller : h # binder[b].function => current'[h] = current[h]
  PROVE  UpdatesAreExclusive'
<1> DEFINE f == binder[b].function
<1>1. f \in Caller /\ f \in Function /\ mutex[f] = b
  BY FunctionFacts DEF UpdatesAreExclusive
<1>2. DOMAIN mutex' = Function /\ DOMAIN binder' = Binder
  BY DEF UpdatesAreExclusive
<1>3. ASSUME NEW c \in Binder, binder'[c] # NoUpdate
      PROVE  LET h == binder'[c].function
             IN  /\ binder'[c] = [function |-> h, index |-> binder'[c].index,
                                  target |-> binder'[c].target, table |-> current'[h]]
                 /\ h \in Caller /\ mutex'[h] = c
                 /\ binder'[c].index \in DOMAIN fast_calls[h]
                 /\ binder'[c].target # NoFunction =>
                      binder'[c].target \in Function /\ mapping'[binder'[c].target] = "executable"
  <2>1. c # b /\ binder'[c] = binder[c]
    BY <1>3 DEF UpdatesAreExclusive
  <2>2. mutex[binder[c].function] = c /\ binder[c].function \in Caller /\ binder[c].function \in Function
    BY <1>3, <2>1, FunctionFacts DEF UpdatesAreExclusive
  <2>3. binder[c].function # f
    BY <1>1, <2>1, <2>2
  <2>4. mutex'[binder[c].function] = c /\ current'[binder[c].function] = current[binder[c].function]
    BY <2>2, <2>3 DEF UpdatesAreExclusive
  <2>. QED  BY <1>3, <2>1, <2>4 DEF UpdatesAreExclusive
<1>. QED  BY <1>2, <1>3 DEF UpdatesAreExclusive

\* The copy of a table with one call bound or cleared is a table.
LEMMA ReplacementIsTable ==
  ASSUME NEW f \in Function, NEW table, TableOf(mapping, f, table),
         NEW index \in DOMAIN fast_calls[f], NEW g \in Slot,
         g # NoFunction => mapping[g] = "executable"
  PROVE  /\ TableOf(mapping, f, Replacement(table, index, g))
         /\ Replacement(table, index, g).entries = [table.entries EXCEPT ![index] = g]
<1> DEFINE e == table.entries
           n == [e EXCEPT ![index] = g]
<1>1. /\ table = [entries |-> e, leases |-> e] /\ e \in Seq(Slot)
      /\ Len(e) = Len(fast_calls[f])
      /\ \A i \in 1..Len(e) : e[i] # NoFunction => mapping[e[i]] = "executable"
  BY DEF TableOf, Table
<1>2. index \in 1..Len(e) /\ Len(e) \in Nat
  BY <1>1, FunctionFacts
<1>3. Replacement(table, index, g) = [entries |-> n, leases |-> n]
  <2>1. table.leases = table.entries
    BY DEF TableOf
  <2>. QED  BY ONLY <2>1 DEF Replacement
<1>4. n \in Seq(Slot) /\ Len(n) = Len(e)
  BY <1>1, <1>2, ExceptSeq
<1>5. \A i \in 1..Len(n) : n[i] # NoFunction => mapping[n[i]] = "executable"
  BY <1>1, <1>2, <1>4
<1> HIDE DEF n
<1>6. TableOf(mapping, f, [entries |-> n, leases |-> n])
  BY <1>1, <1>4, <1>5 DEF TableOf, Table
<1>. QED  BY <1>3, <1>6 DEF n

\* Nobody else changed the table since the lock: the new one differs from the
\* current one in one call, the one that was asked for.
LEMMA PublishStep ==
  ASSUME IInv, NEW b \in Binder, Publish(b)
  PROVE  IInv'
<1> DEFINE f == binder[b].function
           index == binder[b].index
           g == binder[b].target
<1>i. CodeIsPublished /\ TablesAreLeased /\ UpdatesAreExclusive /\ RequestsAreTyped /\ UpdatesAreKept
  BY DEF IInv, TableInv
<1>1. /\ binder[b] # NoUpdate /\ f \in Function /\ index \in DOMAIN fast_calls[f]
      /\ binder[b].table = current[f] /\ g \in Slot
      /\ g # NoFunction => mapping[g] = "executable"
  BY <1>i, FunctionFacts DEF Publish, UpdatesAreExclusive, Slot
<1>2. /\ current' = [current EXCEPT ![f] = Replacement(current[f], index, g)]
      /\ requested' = [requested EXCEPT ![f] = [requested[f] EXCEPT ![index] = g]]
      /\ mutex' = [mutex EXCEPT ![f] = NoFunction]
      /\ binder' = [binder EXCEPT ![b] = NoUpdate]
      /\ UNCHANGED <<mapping, handles, stack, context>>
  BY <1>1 DEF Publish
<1>3. UpdatesAreExclusive'
  <2>1. \A h \in Caller : h # f => current'[h] = current[h]
    BY <1>2, <1>i, FunctionFacts DEF TablesAreLeased
  <2>. QED  BY <1>i, <1>1, <1>2, <2>1, UnlockStep
<1> HIDE DEF f, index, g
<1>4. /\ TableOf(mapping, f, Replacement(current[f], index, g))
      /\ Replacement(current[f], index, g).entries = [current[f].entries EXCEPT ![index] = g]
  BY <1>i, <1>1, ReplacementIsTable DEF TablesAreLeased
<1>5. /\ DOMAIN current' = Function /\ current'[f] = Replacement(current[f], index, g)
      /\ \A h \in Function : h # f => current'[h] = current[h]
  BY <1>i, <1>1, <1>2 DEF TablesAreLeased
<1>6. TablesAreLeased'
  BY <1>i, <1>2, <1>4, <1>5 DEF TablesAreLeased
<1>7. /\ DOMAIN requested' = Function /\ requested'[f] = [requested[f] EXCEPT ![index] = g]
      /\ \A h \in Function : h # f => requested'[h] = requested[h]
  BY <1>i, <1>1, <1>2 DEF RequestsAreTyped
<1>8. UpdatesAreKept'
  BY <1>i, <1>4, <1>5, <1>7 DEF UpdatesAreKept
<1>9. RequestsAreTyped'
  <2>1. \A h \in Function : current'[h].entries \in Seq(Slot)
    BY <1>6 DEF TablesAreLeased, TableOf, Table
  <2>. QED  BY <1>7, <1>8, <2>1 DEF RequestsAreTyped, UpdatesAreKept
<1>10. CodeIsPublished' /\ Grows
  BY <1>i, <1>2 DEF CodeIsPublished, Grows
<1>11. FrameInv'
  BY <1>2, <1>10, FramesStay DEF IInv
<1>. QED  BY <1>3, <1>6, <1>8, <1>9, <1>10, <1>11 DEF IInv, TableInv

\* Without memory the lock is released and the table stays.
LEMMA PublishOutOfMemoryStep ==
  ASSUME IInv, NEW b \in Binder, PublishOutOfMemory(b)
  PROVE  IInv'
<1>1. /\ binder[b] # NoUpdate /\ mutex' = [mutex EXCEPT ![binder[b].function] = NoFunction]
      /\ binder' = [binder EXCEPT ![b] = NoUpdate]
      /\ UNCHANGED <<mapping, handles, current, stack, context, requested>>
  BY DEF PublishOutOfMemory
<1>2. UpdatesAreExclusive'
  BY <1>1, UnlockStep DEF IInv, TableInv
<1>3. CodeIsPublished' /\ TablesAreLeased' /\ RequestsAreTyped' /\ UpdatesAreKept'
  BY <1>1 DEF IInv, TableInv, CodeIsPublished, TablesAreLeased, RequestsAreTyped, UpdatesAreKept
<1>4. FrameInv'
  BY <1>1, FramesStay DEF IInv, Grows
<1>. QED  BY <1>2, <1>3, <1>4 DEF IInv, TableInv

-----------------------------------------------------------------------------
(* Steps of an invocation.                                                  *)

\* The invariant of one thread's frames, below a depth.
FramesInv(frames) ==
  /\ frames \in Seq(Frame)
  /\ \A k \in 1..Len(frames) :
       /\ Complete(mapping, frames[k]) /\ ReachedPromised(frames[k])
       /\ InnermostCells(frames, k - 1, frames[k].previous_patch_cells)
       /\ InnermostTable(frames, k - 1, frames[k].previous_fast_call_entries)

\* What a context has bound, for those frames.
BoundBy(frames, bound) ==
  /\ bound \in [patch_cells : Slot, fast_call_entries : Table]
  /\ InnermostCells(frames, Len(frames), bound.patch_cells)
  /\ InnermostTable(frames, Len(frames), bound.fast_call_entries)

\* FrameInv thread by thread.
EachThread ==
  /\ DOMAIN stack = Thread /\ DOMAIN context = Thread
  /\ stack = [t \in Thread |-> stack[t]] /\ context = [t \in Thread |-> context[t]]
  /\ \A t \in Thread : FramesInv(stack[t]) /\ BoundBy(stack[t], context[t])

\* The two ways to say it.
LEMMA ThreadByThread == FrameInv <=> EachThread
<1>1. FrameInv => EachThread
  BY DEF EachThread, FrameInv, FramesInv, BoundBy, ContextsAreTyped, FramesAreComplete, FramesRemember,
         BindingsFollowInvocations, CallsReachTheirTargets, ReachedPromised
<1>2. ASSUME stack = [t \in Thread |-> stack[t]], context = [t \in Thread |-> context[t]],
             \A t \in Thread : FramesInv(stack[t]) /\ BoundBy(stack[t], context[t])
      PROVE  FrameInv
  <2>1. \A t \in Thread : stack[t] \in Seq(Frame) /\ DOMAIN stack[t] = 1..Len(stack[t])
    BY <1>2 DEF FramesInv
  <2>2. FramesAreComplete
    BY <1>2, <2>1 DEF FramesInv, FramesAreComplete
  <2>3. ContextsAreTyped
    BY <1>2 DEF BoundBy, ContextsAreTyped
  <2>4. FramesRemember /\ BindingsFollowInvocations
    BY <1>2 DEF FramesInv, BoundBy, FramesRemember, BindingsFollowInvocations
  <2>5. CallsReachTheirTargets
    BY <1>2, <2>1 DEF FramesInv, CallsReachTheirTargets, ReachedPromised
  <2>. QED  BY <2>2, <2>3, <2>4, <2>5 DEF FrameInv
<1>. QED  BY <1>1, <1>2 DEF EachThread

\* One thread's frames and bindings change, the rest stays.
LEMMA OneThread ==
  ASSUME IInv, NEW t \in Thread, NEW frames, NEW bound,
         UNCHANGED <<mapping, handles, current, mutex, binder, requested>>,
         stack' = [stack EXCEPT ![t] = frames],
         context' = [context EXCEPT ![t] = bound],
         FramesInv(frames), BoundBy(frames, bound)
  PROVE  IInv'
<1>1. /\ DOMAIN stack = Thread /\ DOMAIN context = Thread
      /\ stack = [u \in Thread |-> stack[u]] /\ context = [u \in Thread |-> context[u]]
      /\ \A u \in Thread : FramesInv(stack[u]) /\ BoundBy(stack[u], context[u])
  BY ThreadByThread DEF IInv, EachThread
<1>2. /\ DOMAIN stack' = Thread /\ DOMAIN context' = Thread
      /\ stack' = [u \in Thread |-> stack'[u]] /\ context' = [u \in Thread |-> context'[u]]
  BY <1>1
<1>3. ASSUME NEW u \in Thread
      PROVE  FramesInv(stack'[u]) /\ BoundBy(stack'[u], context'[u])
  <2>1. CASE u = t
    BY <1>1, <2>1
  <2>2. CASE u # t
    BY <1>1, <2>2
  <2>. QED  BY <2>1, <2>2
<1>4. \A u \in Thread : FramesInv(stack[u])' /\ BoundBy(stack[u], context[u])'
  BY <1>3 DEF FramesInv, BoundBy
<1>5. EachThread'
  BY <1>2, <1>4 DEF EachThread
<1>6. FrameInv'
  BY <1>5, ThreadByThread, PTL
<1>. QED  BY <1>6, TablesStay DEF IInv

\* What IInv says of one thread.
LEMMA ThreadFacts ==
  ASSUME IInv, NEW t \in Thread
  PROVE  /\ FramesInv(stack[t]) /\ BoundBy(stack[t], context[t])
         /\ stack[t] \in Seq(Frame) /\ Len(stack[t]) \in Nat
         /\ stack[t] # <<>> => Len(stack[t]) \in 1..Len(stack[t])
         /\ DOMAIN stack = Thread /\ DOMAIN context = Thread
<1>1. FramesInv(stack[t]) /\ BoundBy(stack[t], context[t]) /\ DOMAIN stack = Thread /\ DOMAIN context = Thread
  BY ThreadByThread DEF IInv, EachThread
<1>2. stack[t] \in Seq(Frame)
  BY <1>1 DEF FramesInv
<1>3. Len(stack[t]) \in Nat /\ (stack[t] # <<>> => Len(stack[t]) # 0)
  BY <1>2, EmptySeq, LenProperties
<1>. QED  BY <1>1, <1>2, <1>3

\* A new frame remembers what the context had bound, and binds its own.
LEMMA InvokeStep ==
  ASSUME IInv, NEW t \in Thread, NEW f \in Caller, Invoke(t, f)
  PROVE  IInv'
<1> DEFINE s == stack[t]
           n == Len(stack[t])
           cells == context[t].patch_cells
           entries == context[t].fast_call_entries
           frame == [function |-> f, fast_call_targets |-> current[f],
                     previous_patch_cells |-> cells, previous_fast_call_entries |-> entries,
                     step |-> IF f \in assumptions THEN "activating" ELSE "native",
                     promised |-> current[f].entries, reached |-> {}]
           r == Append(s, frame)
           bound == [patch_cells |-> IF f \in patch_cells THEN f ELSE cells,
                     fast_call_entries |-> IF current[f] = NoTable THEN entries ELSE current[f]]
<1>1. /\ FramesInv(s) /\ BoundBy(s, context[t]) /\ s \in Seq(Frame) /\ n \in Nat
      /\ DOMAIN stack = Thread /\ DOMAIN context = Thread
  BY ThreadFacts
<1>2. f \in Function /\ TableOf(mapping, f, current[f])
  BY FunctionFacts DEF IInv, TableInv, TablesAreLeased
<1>3. /\ context[t] \in [patch_cells : Slot, fast_call_entries : Table]
      /\ cells \in Slot /\ entries \in Table
      /\ InnermostCells(s, n, cells) /\ InnermostTable(s, n, entries)
  BY <1>1 DEF BoundBy
<1>4. frame \in Frame
  BY <1>2, <1>3 DEF Frame, TableOf, Table
<1>5. Complete(mapping, frame) /\ ReachedPromised(frame)
  <2>1. NoFunction \notin ToSet(current[f].entries) /\ current[f].entries \in Seq(Slot)
    BY <1>2 DEF Invoke, TableOf, Table
  <2>2. \A i \in 1..Len(current[f].entries) : current[f].entries[i] # NoFunction
    BY <2>1 DEF ToSet
  <2>. QED  BY <1>2, <2>2 DEF Complete, ReachedPromised
<1>6. stack' = [stack EXCEPT ![t] = r]
  BY DEF Invoke
<1>7. context' = [context EXCEPT ![t] = bound]
  BY DEF Invoke
<1>f. /\ frame.function = f /\ frame.fast_call_targets = current[f]
      /\ frame.previous_patch_cells = cells /\ frame.previous_fast_call_entries = entries
  OBVIOUS
<1> HIDE DEF frame
<1>8. /\ r \in Seq(Frame) /\ Len(r) = n + 1 /\ r[n + 1] = frame
      /\ \A k \in 1..n : r[k] = s[k]
  BY <1>1, <1>4, AppendProperties
<1> HIDE DEF r
<1>9. \A k \in 0..n : Alike(s, r, k)
  BY <1>1, <1>8 DEF Alike
<1>10. FramesInv(r)
  <2>1. ASSUME NEW k \in 1..n
        PROVE  /\ Complete(mapping, r[k]) /\ ReachedPromised(r[k])
               /\ InnermostCells(r, k - 1, r[k].previous_patch_cells)
               /\ InnermostTable(r, k - 1, r[k].previous_fast_call_entries)
    <3>1. /\ Complete(mapping, s[k]) /\ ReachedPromised(s[k])
          /\ InnermostCells(s, k - 1, s[k].previous_patch_cells)
          /\ InnermostTable(s, k - 1, s[k].previous_fast_call_entries)
      BY <1>1 DEF FramesInv
    <3>2. r[k] = s[k] /\ k - 1 \in Nat /\ Alike(s, r, k - 1)
      BY <1>1, <1>8, <1>9
    <3>. QED  BY <3>1, <3>2, InnermostAlike
  <2>2. InnermostCells(r, n, cells) /\ InnermostTable(r, n, entries)
    BY <1>1, <1>3, <1>9, InnermostAlike
  <2>3. \A k \in 1..(n + 1) : k \in 1..n \/ k = n + 1
    BY <1>1
  <2>4. (n + 1) - 1 = n
    BY <1>1
  <2>. QED  BY <1>5, <1>8, <1>f, <2>1, <2>2, <2>3, <2>4 DEF FramesInv
<1>11. BoundBy(r, bound)
  <2>1. InnermostCells(r, n, cells) /\ InnermostTable(r, n, entries)
    BY <1>1, <1>3, <1>9, InnermostAlike
  <2>2. /\ InnermostCells(r, n + 1, IF f \in patch_cells THEN f ELSE cells)
        /\ InnermostTable(r, n + 1, IF fast_calls[f] = <<>> THEN entries ELSE current[f])
    BY <1>1, <1>8, <1>f, <2>1, InnermostPush
  <2>3. current[f] = NoTable <=> fast_calls[f] = <<>>
    BY <1>2, NullTable
  <2>4. bound \in [patch_cells : Slot, fast_call_entries : Table]
    BY <1>2, <1>3 DEF Slot, TableOf
  <2>. QED  BY <1>8, <2>2, <2>3, <2>4 DEF BoundBy
<1> HIDE DEF bound
<1>. QED  BY <1>6, <1>7, <1>10, <1>11, OneThread DEF Invoke

\* The last frame's bindings give way to those it remembers.
LEMMA RestoreStep ==
  ASSUME IInv, NEW t \in Thread, stack[t] # <<>>, Restore(t)
  PROVE  IInv'
<1> DEFINE s == stack[t]
           n == Len(stack[t])
           frame == s[n]
           cells == context[t].patch_cells
           entries == context[t].fast_call_entries
           r == SubSeq(s, 1, n - 1)
           bound == [patch_cells |-> IF frame.function \in patch_cells THEN frame.previous_patch_cells
                                     ELSE cells,
                     fast_call_entries |-> IF frame.fast_call_targets = NoTable THEN entries
                                           ELSE frame.previous_fast_call_entries]
<1>1. /\ FramesInv(s) /\ BoundBy(s, context[t]) /\ s \in Seq(Frame) /\ n \in Nat /\ n \in 1..n
      /\ DOMAIN stack = Thread /\ DOMAIN context = Thread
  BY ThreadFacts
<1>2. stack' = [stack EXCEPT ![t] = r] /\ context' = [context EXCEPT ![t] = bound]
  BY DEF Restore, Front, Top, Last
<1>3. /\ context[t] \in [patch_cells : Slot, fast_call_entries : Table]
      /\ cells \in Slot /\ entries \in Table
      /\ InnermostCells(s, n, cells) /\ InnermostTable(s, n, entries)
  BY <1>1 DEF BoundBy
<1>4. /\ frame \in Frame /\ Complete(mapping, frame)
      /\ InnermostCells(s, n - 1, frame.previous_patch_cells)
      /\ InnermostTable(s, n - 1, frame.previous_fast_call_entries)
  BY <1>1, ElementOfSeq DEF FramesInv
<1>5. frame.fast_call_targets = NoTable <=> fast_calls[frame.function] = <<>>
  <2>1. frame.function \in Function
    BY <1>4, FunctionFacts DEF Frame
  <2>. QED  BY <1>4, <2>1, NullTable DEF Complete
<1>6. \A i \in 1..(n - 1) : i \in 1..n /\ s[i] \in Frame
  BY <1>1, ElementOfSeq
<1> DEFINE m == n - 1
<1>m. m \in Nat /\ m \in Int
  BY <1>1
<1>7. r \in Seq(Frame) /\ Len(r) = m /\ \A k \in 1..m : r[k] = s[k]
  <2>1. /\ r \in Seq(Frame) /\ Len(r) = (IF 1 <= m THEN m - 1 + 1 ELSE 0)
        /\ \A i \in 1..(m - 1 + 1) : r[i] = s[1 + i - 1]
    BY <1>6, <1>m, SubSeqProperties
  <2> HIDE DEF m, r
  <2>2. m - 1 + 1 = m /\ (m = 0 \/ 1 <= m) /\ \A i \in 1..m : 1 + i - 1 = i
    BY <1>m
  <2>. QED  BY <2>1, <2>2
<1>8. \A k \in 0..m : Alike(s, r, k)
  BY <1>m, <1>7 DEF Alike
<1>9. FramesInv(r)
  <2>1. ASSUME NEW k \in 1..m
        PROVE  /\ Complete(mapping, r[k]) /\ ReachedPromised(r[k])
               /\ InnermostCells(r, k - 1, r[k].previous_patch_cells)
               /\ InnermostTable(r, k - 1, r[k].previous_fast_call_entries)
    <3>1. k \in 1..n /\ k - 1 \in Nat /\ k - 1 \in 0..m
      BY <1>1
    <3>2. /\ Complete(mapping, s[k]) /\ ReachedPromised(s[k])
          /\ InnermostCells(s, k - 1, s[k].previous_patch_cells)
          /\ InnermostTable(s, k - 1, s[k].previous_fast_call_entries)
      BY <1>1, <3>1 DEF FramesInv
    <3>3. r[k] = s[k] /\ Alike(s, r, k - 1)
      BY <1>7, <1>8, <3>1
    <3>. QED  BY <3>1, <3>2, <3>3, InnermostAlike
  <2> HIDE DEF m, r
  <2>. QED  BY <1>7, <2>1 DEF FramesInv
<1>10. BoundBy(r, bound)
  <2>1. InnermostCells(s, m, bound.patch_cells)
    BY <1>1, <1>3, <1>4, InnermostPop
  <2>2. InnermostTable(s, m, bound.fast_call_entries)
    BY <1>1, <1>3, <1>4, <1>5, InnermostPop
  <2>3. Alike(s, r, m)
    BY <1>m, <1>8
  <2>4. bound \in [patch_cells : Slot, fast_call_entries : Table]
    BY <1>3, <1>4 DEF Frame
  <2> HIDE DEF m, r, bound
  <2>. QED  BY <1>7, <1>m, <2>1, <2>2, <2>3, <2>4, InnermostAlike DEF BoundBy
<1> HIDE DEF bound, r
<1>. QED  BY <1>2, <1>9, <1>10, OneThread DEF Restore

\* The last frame goes on, or makes a call: what it bound and remembers stays.
LEMMA TopStep ==
  ASSUME IInv, NEW t \in Thread, stack[t] # <<>>, NEW frame \in Frame, ReachedPromised(frame),
         frame.function = Top(t).function, frame.fast_call_targets = Top(t).fast_call_targets,
         frame.previous_patch_cells = Top(t).previous_patch_cells,
         frame.previous_fast_call_entries = Top(t).previous_fast_call_entries,
         frame.promised = Top(t).promised,
         stack' = [stack EXCEPT ![t] = [stack[t] EXCEPT ![Len(stack[t])] = frame]],
         UNCHANGED <<mapping, handles, current, mutex, binder, context, requested>>
  PROVE  IInv'
<1> DEFINE s == stack[t]
           n == Len(stack[t])
           r == [s EXCEPT ![n] = frame]
<1>1. /\ FramesInv(s) /\ BoundBy(s, context[t]) /\ s \in Seq(Frame) /\ n \in Nat /\ n \in 1..n
      /\ DOMAIN stack = Thread /\ DOMAIN context = Thread
  BY ThreadFacts
<1>2. Top(t) = s[n]
  BY DEF Top, Last
<1>3. r \in Seq(Frame) /\ Len(r) = n /\ \A k \in 1..n : r[k] = IF k = n THEN frame ELSE s[k]
  BY <1>1, ExceptSeq
<1> HIDE DEF r
<1>4. \A k \in 0..n : Alike(s, r, k)
  BY <1>1, <1>2, <1>3 DEF Alike
<1>5. ASSUME NEW k \in 1..n
      PROVE  /\ Complete(mapping, r[k]) /\ ReachedPromised(r[k])
             /\ InnermostCells(r, k - 1, r[k].previous_patch_cells)
             /\ InnermostTable(r, k - 1, r[k].previous_fast_call_entries)
  <2>1. /\ Complete(mapping, s[k]) /\ ReachedPromised(s[k])
        /\ InnermostCells(s, k - 1, s[k].previous_patch_cells)
        /\ InnermostTable(s, k - 1, s[k].previous_fast_call_entries)
    BY <1>1 DEF FramesInv
  <2>2. k - 1 \in Nat /\ Alike(s, r, k - 1)
    BY <1>1, <1>4
  <2>3. /\ r[k].function = s[k].function /\ r[k].fast_call_targets = s[k].fast_call_targets
        /\ r[k].previous_patch_cells = s[k].previous_patch_cells
        /\ r[k].previous_fast_call_entries = s[k].previous_fast_call_entries
        /\ r[k].promised = s[k].promised /\ ReachedPromised(r[k])
    BY <1>2, <1>3, <2>1
  <2>4. Complete(mapping, r[k])
    BY <2>1, <2>3 DEF Complete
  <2>. QED  BY <2>1, <2>2, <2>3, <2>4, InnermostAlike
<1>6. FramesInv(r)
  BY <1>3, <1>5 DEF FramesInv
<1>7. BoundBy(r, context[t])
  <2>1. Alike(s, r, n)
    BY <1>1, <1>4
  <2>. QED  BY <1>1, <1>3, <2>1, InnermostAlike DEF BoundBy
<1>8. stack' = [stack EXCEPT ![t] = r]
  BY DEF r
<1>9. context' = [context EXCEPT ![t] = context[t]]
  <2>1. context = [u \in Thread |-> context[u]]
    BY ThreadByThread DEF IInv, EachThread
  <2>. QED  BY <2>1
<1>. QED  BY <1>6, <1>7, <1>8, <1>9, OneThread

\* The assumptions hold and native code begins, or the invocation ends.
LEMMA ActivateStep ==
  ASSUME IInv, NEW t \in Thread, Activate(t)
  PROVE  IInv'
<1> DEFINE n == Len(stack[t])
           frame == [stack[t][n] EXCEPT !.step = "native"]
<1>1. stack[t] # <<>> /\ Top(t) = stack[t][n]
  BY DEF Activate, Top, Last
<1>2. CASE /\ stack' = [stack EXCEPT ![t] = [@ EXCEPT ![Len(stack[t])].step = "native"]]
           /\ UNCHANGED <<mapping, handles, current, mutex, binder, context, requested>>
  <2>1. stack[t][n] \in Frame /\ ReachedPromised(stack[t][n])
    BY <1>1, ThreadFacts, ElementOfSeq DEF FramesInv
  <2>2. /\ frame \in Frame /\ frame.function = Top(t).function
        /\ frame.fast_call_targets = Top(t).fast_call_targets
        /\ frame.previous_patch_cells = Top(t).previous_patch_cells
        /\ frame.previous_fast_call_entries = Top(t).previous_fast_call_entries
        /\ frame.promised = Top(t).promised /\ frame.reached = Top(t).reached
    BY <1>1, <2>1 DEF Frame
  <2>3. ReachedPromised(frame)
    BY <1>1, <2>1, <2>2 DEF ReachedPromised
  <2>4. stack' = [stack EXCEPT ![t] = [stack[t] EXCEPT ![n] = frame]]
    BY <1>2
  <2> HIDE DEF frame
  <2>. QED  BY <1>1, <1>2, <2>2, <2>3, <2>4, TopStep
<1>3. CASE Restore(t)
  BY <1>1, <1>3, RestoreStep
<1>. QED  BY <1>2, <1>3 DEF Activate

\* The entries bound to a context while native code with fast calls runs are
\* those its frame loaded, which the frame keeps alive and whose targets the
\* table keeps alive: the call arrives.
LEMMA FastCallStep ==
  ASSUME IInv, NEW t \in Thread, NEW index, FastCall(t, index)
  PROVE  IInv'
<1> DEFINE n == Len(stack[t])
           top == stack[t][n]
           table == context[t].fast_call_entries
           target == IF TableHeld(table) /\ index \in DOMAIN table.entries THEN table.entries[index]
                     ELSE NoFunction
           called == IF target # NoFunction /\ Held(target) /\ mapping[target] = "executable"
                     THEN target ELSE "nowhere"
           frame == [top EXCEPT !.reached = @ \cup {<<index, called>>}]
<1>1. stack[t] # <<>> /\ Top(t) = top /\ index \in DOMAIN fast_calls[top.function]
  BY DEF FastCall, InNative, Top, Last
<1>2. /\ n \in 1..n /\ n \in Nat /\ stack[t] \in Seq(Frame) /\ FramesInv(stack[t]) /\ BoundBy(stack[t], context[t])
      /\ DOMAIN stack[t] = 1..n
  BY <1>1, ThreadFacts, LenProperties
<1>3. top \in Frame /\ Complete(mapping, top) /\ ReachedPromised(top)
  BY <1>2, ElementOfSeq DEF FramesInv
<1>4. /\ top.function \in Function /\ index \in 1..Len(fast_calls[top.function])
      /\ Len(fast_calls[top.function]) \in Nat /\ fast_calls[top.function] # <<>>
  <2>1. top.function \in Function
    BY <1>3, FunctionFacts DEF Frame
  <2>2. DOMAIN fast_calls[top.function] = 1..Len(fast_calls[top.function]) /\ Len(fast_calls[top.function]) \in Nat
    BY <2>1, FunctionFacts
  <2>3. index \in 1..Len(fast_calls[top.function])
    BY <1>1, <2>2
  <2>4. Len(fast_calls[top.function]) # 0
    BY <2>2, <2>3
  <2>. QED  BY <2>1, <2>2, <2>3, <2>4, FunctionFacts
<1>5. table = top.fast_call_targets
  <2>1. InnermostTable(stack[t], n, table)
    BY <1>2 DEF BoundBy
  <2>2. \A j \in 1..n : j = n \/ n \in j+1..n
    BY <1>2
  <2>. QED  BY <1>2, <1>4, <2>1, <2>2 DEF InnermostTable
<1>6. /\ table \in Table /\ table.leases = table.entries /\ table.entries = top.promised
      /\ index \in 1..Len(table.entries) /\ DOMAIN table.entries = 1..Len(table.entries)
      /\ table.entries[index] # NoFunction /\ mapping[table.entries[index]] = "executable"
  BY <1>3, <1>4, <1>5 DEF Complete, TableOf, Table
<1>7. TableHeld(table)
  BY <1>2, <1>5 DEF TableHeld
<1>8. Held(table.entries[index])
  <2>1. table.entries[index] \in Leased(table)
    BY <1>6 DEF Leased, ToSet
  <2>. QED  BY <1>2, <1>5, <2>1 DEF Held
<1>9. called = top.promised[index] /\ called \in Slot
  BY <1>6, <1>7, <1>8, ElementOfSeq DEF Table
<1>10. stack' = [stack EXCEPT ![t] = [stack[t] EXCEPT ![n] = frame]]
  BY <1>1 DEF FastCall
<1> HIDE DEF called
<1>11. /\ frame \in Frame /\ frame.function = Top(t).function
       /\ frame.fast_call_targets = Top(t).fast_call_targets
       /\ frame.previous_patch_cells = Top(t).previous_patch_cells
       /\ frame.previous_fast_call_entries = Top(t).previous_fast_call_entries
       /\ frame.promised = Top(t).promised /\ frame.reached = top.reached \cup {<<index, called>>}
  <2>1. index \in Nat
    BY <1>4
  <2>2. <<index, called>> \in Nat \X (Slot \cup {"nowhere"})
    BY <1>9, <2>1
  <2>. QED  BY <1>1, <1>3, <2>2 DEF Frame
<1>12. ReachedPromised(frame)
  BY <1>1, <1>3, <1>9, <1>11 DEF ReachedPromised
<1> HIDE DEF frame
<1>. QED  BY <1>1, <1>10, <1>11, <1>12, TopStep DEF FastCall

\* Nothing is bound and nothing runs.
LEMMA IInvInit == Init => IInv
<1> SUFFICES ASSUME Init PROVE IInv
  OBVIOUS
<1>1. \A f \in Function : /\ Unbound(f) \in Seq(Slot) /\ Len(Unbound(f)) = Len(fast_calls[f])
                          /\ \A i \in 1..Len(Unbound(f)) : Unbound(f)[i] = NoFunction
  <2>1. ASSUME NEW f \in Function
        PROVE  Unbound(f) = [i \in 1..Len(fast_calls[f]) |-> NoFunction]
    BY FunctionFacts DEF Unbound
  <2>2. NoFunction \in Slot
    BY DEF Slot
  <2>. QED  BY <2>1, <2>2, FunctionFacts
<1>2. CodeIsPublished
  BY FunctionFacts DEF Init, CodeIsPublished
<1>3. TablesAreLeased
  BY <1>1 DEF Init, TablesAreLeased, TableOf, Table
<1>4. UpdatesAreExclusive
  BY DEF Init, UpdatesAreExclusive
<1>5. RequestsAreTyped /\ UpdatesAreKept
  BY <1>1 DEF Init, RequestsAreTyped, UpdatesAreKept
<1>6. EachThread
  <2>1. NoTable \in Table
    BY EmptySeq DEF NoTable, Table
  <2>2. FramesInv(<<>>)
    BY EmptySeq DEF FramesInv
  <2>3. BoundBy(<<>>, [patch_cells |-> NoFunction, fast_call_entries |-> NoTable])
    BY <2>1 DEF BoundBy, Slot, InnermostCells, InnermostTable
  <2>. QED  BY <2>2, <2>3 DEF Init, EachThread
<1>. QED  BY <1>2, <1>3, <1>4, <1>5, <1>6, ThreadByThread DEF IInv, TableInv

\* Every step keeps the invariant.
LEMMA IInvStep == IInv /\ [Next]_vars => IInv'
<1> SUFFICES ASSUME IInv, [Next]_vars PROVE IInv'
  OBVIOUS
<1>1. CASE \E f \in Target : Map(f) \/ Protect(f) \/ DropHandle(f)
  BY <1>1, CodeSteps
<1>2. CASE \E b \in Binder : Update(b)
  BY <1>2, LockStep, PublishStep, PublishOutOfMemoryStep DEF Update
<1>3. ASSUME NEW t \in Thread, Invocation(t)
      PROVE  IInv'
  <2>1. CASE \E f \in Caller : Invoke(t, f)
    BY <2>1, InvokeStep
  <2>2. CASE Activate(t)
    BY <2>2, ActivateStep
  <2>3. CASE Return(t)
    BY <2>3, RestoreStep DEF Return, InNative
  <2>4. CASE \E index \in UNION {DOMAIN fast_calls[f] : f \in Caller} : FastCall(t, index)
    BY <2>4, FastCallStep
  <2>. QED  BY <1>3, <2>1, <2>2, <2>3, <2>4 DEF Invocation
<1>4. CASE UNCHANGED vars
  <2>1. UNCHANGED <<mapping, handles, current, mutex, binder, stack, context, requested>>
    BY <1>4 DEF vars
  <2>2. TableInv'
    BY <2>1, TablesStay DEF IInv
  <2>3. FrameInv'
    BY <2>1, FramesStay DEF IInv, Grows
  <2>. QED  BY <2>2, <2>3 DEF IInv
<1>. QED  BY <1>1, <1>2, <1>3, <1>4 DEF Next

\* The invariant holds throughout.
LEMMA IInvAlways == Spec => []IInv
BY IInvInit, IInvStep, PTL DEF Spec

-----------------------------------------------------------------------------
(* The theorems.                                                            *)

\* Every fast call of an invocation reaches the function its table named when
\* the invocation began, in code that is still mapped, whoever rebinds the call
\* or drops handles meanwhile (CompiledFunction::invoke, bind_fast_call).
THEOREM CallsReachBoundTargets == Spec => []CallsReachTheirTargets
<1>1. IInv => CallsReachTheirTargets
  BY DEF IInv, FrameInv
<1>. QED  BY <1>1, IInvAlways, PTL

\* However deep invocations nest on one context, and whichever way they leave,
\* the context has the bindings of the innermost one that brought some
\* (restore_runtime_bindings).
THEOREM BindingsAreRestored == Spec => []BindingsFollowInvocations
<1>1. IInv => BindingsFollowInvocations
  BY DEF IInv, FrameInv
<1>. QED  BY <1>1, IInvAlways, PTL

\* No bind or clear is lost to another one of the same function: the mutex is
\* held from the load of the table to the store of its copy.
THEOREM NoUpdateIsLost == Spec => []UpdatesAreKept
<1>1. IInv => UpdatesAreKept
  BY DEF IInv, TableInv
<1>. QED  BY <1>1, IInvAlways, PTL
=============================================================================
