-------------------------- MODULE DecisionsProofs ---------------------------
(***************************************************************************)
(* Proofs about what a statement is judged by, for any overrides, custom   *)
(* policies and scripts: the policies shown are those enforced, and a      *)
(* script or a batch hides none of its statements.  And about OriginCache, *)
(* for any statements, connections and limit: forgetting leaves the ring   *)
(* alone and a statement may sit in two slots, so that every kept          *)
(* statement has a slot is what bounds their number.                       *)
(***************************************************************************)
EXTENDS OriginCache, PolicyAdmin, Verdicts, FiniteSetTheorems, FunctionTheorems, WellFoundedInduction, TLAPS

Slotted == OriginTypeOK /\ EveryEntryHasASlot

\* A statement that makes room is the one in the next slot only: the others
\* keep theirs, and the new one gets that slot.
LEMMA PutInsteadKeepsSlots ==
    ASSUME Slotted, NEW k \in Key, PutInstead(k)
    PROVE  Slotted'
<1> USE OriginAssumption DEF Slotted, OriginTypeOK, HasFreeSlot, Relieved, PutInstead
<1>1. Len(order) = Limit /\ next + 1 \in 1..Len(order)
  OBVIOUS
<1>2. /\ order' \in Seq(Key) /\ Len(order') = Len(order)
      /\ order'[next + 1] = k
      /\ \A i \in 1..Len(order) : i # next + 1 => order'[i] = order[i]
  BY <1>1
<1>3. next' \in 0..(Limit - 1)
  <2>1. CASE next = Limit - 1
    BY <2>1, next' = 0
  <2>2. CASE next # Limit - 1
    BY <2>2, next' = next + 1
  <2> QED BY <2>1, <2>2
<1>4. EveryEntryHasASlot'
  <2> SUFFICES ASSUME NEW j \in entries'
               PROVE  \E i \in 1..Len(order') : order'[i] = j
    BY DEF EveryEntryHasASlot
  <2>1. CASE j = k
    BY <2>1, <1>1, <1>2
  <2>2. CASE j # k
    <3>1. j \in entries /\ j # order[next + 1]
      BY <2>2
    <3>2. PICK i \in 1..Len(order) : order[i] = j
      BY <3>1 DEF EveryEntryHasASlot
    <3> QED BY <3>1, <3>2, <1>2
  <2> QED BY <2>1, <2>2
<1> QED BY <1>2, <1>3, <1>4

LEMMA NextKeepsSlots == Slotted /\ [OriginNext]_originVars => Slotted'
<1> SUFFICES ASSUME Slotted, [OriginNext]_originVars PROVE Slotted'
  OBVIOUS
<1> USE OriginAssumption
<1>1. ASSUME NEW k \in Key, PutAgain(k) PROVE Slotted'
  BY <1>1 DEF PutAgain, originVars, Slotted, OriginTypeOK, EveryEntryHasASlot
<1>2. ASSUME NEW k \in Key, PutAppend(k) PROVE Slotted'
  <2> USE <1>2 DEF PutAppend, HasFreeSlot, Slotted, OriginTypeOK
  <2>1. /\ order' \in Seq(Key) /\ Len(order') = Len(order) + 1
        /\ order'[Len(order) + 1] = k
        /\ \A i \in 1..Len(order) : order'[i] = order[i]
    OBVIOUS
  <2>2. EveryEntryHasASlot'
    BY <2>1 DEF EveryEntryHasASlot
  <2> QED BY <2>1, <2>2
<1>3. ASSUME NEW k \in Key, PutInstead(k) PROVE Slotted'
  BY <1>3, PutInsteadKeepsSlots
<1>4. ASSUME NEW c \in Conn, Forget(c) PROVE Slotted'
  BY <1>4 DEF Forget, Slotted, OriginTypeOK, EveryEntryHasASlot
<1>5. CASE UNCHANGED originVars
  BY <1>5 DEF originVars, Slotted, OriginTypeOK, EveryEntryHasASlot
<1> QED BY <1>1, <1>2, <1>3, <1>4, <1>5 DEF OriginNext, Put

LEMMA SlottedHolds == OriginSpec => []Slotted
<1>1. OriginInit => Slotted
  BY OriginAssumption DEF OriginInit, Slotted, OriginTypeOK, EveryEntryHasASlot
<1> QED BY <1>1, NextKeepsSlots, PTL DEF OriginSpec

\* The ring and the map keep their shapes, for any limit of at least one
\* (origincache.go, put).
THEOREM TypeCorrect == OriginSpec => []OriginTypeOK
BY SlottedHolds, PTL DEF Slotted

\* No statement is kept that has lost its slot (origincache.go, put and
\* forget).
THEOREM AllHaveSlots == OriginSpec => []EveryEntryHasASlot
BY SlottedHolds, PTL DEF Slotted

\* A statement's slot tells it from every other statement.
LEMMA SlotsBound ==
    ASSUME Slotted
    PROVE  Bounded
<1> DEFINE slots == 1..Len(order)
           slot  == [k \in entries |-> CHOOSE i \in slots : order[i] = k]
<1>1. Len(order) \in Nat /\ Len(order) <= Limit
  BY OriginAssumption DEF Slotted, OriginTypeOK
<1>2. IsFiniteSet(slots) /\ Cardinality(slots) = Len(order)
  BY SMTT(30), <1>1, FS_Interval
<1>3. \A k \in entries : slot[k] \in slots /\ order[slot[k]] = k
  BY DEF Slotted, EveryEntryHasASlot
<1>4. slot \in Injection(entries, slots)
  <2> HIDE DEF slots
  <2>1. slot \in [entries -> slots]
    BY <1>3
  <2> HIDE DEF slot
  <2> QED BY <2>1, <1>3 DEF Injection, IsInjective
<1> HIDE DEF slots, slot
<1>5. IsFiniteSet(entries) /\ Cardinality(entries) <= Cardinality(slots)
  BY <1>2, <1>4, FS_Injection
<1>6. Cardinality(entries) \in Nat
  BY <1>5, FS_CardinalityType
<1> QED BY <1>1, <1>2, <1>5, <1>6, OriginAssumption DEF Bounded

\* No more than Limit statements are kept, however they are put, forgotten
\* and put again (origincache.go, originCacheLimit).
THEOREM CacheIsBounded == OriginSpec => []Bounded
<1>1. Slotted => Bounded
  BY SlotsBound
<1> QED BY <1>1, SlottedHolds, PTL

-----------------------------------------------------------------------------
(* The policies that are shown and those that are enforced.                *)

OneOverride ==
    \A o, p \in overrides : o.key = p.key /\ o.scope = p.scope /\ o.target = p.target => o = p

OverrideOK(o) ==
    /\ o.key \in Catalog /\ o.enabled \in BOOLEAN
    /\ o.key = "limit_rows" /\ o.enabled => o.value \in Nat \ {0}

CustomOK(p) ==
    /\ p.enabled \in BOOLEAN
    /\ p = [id |-> p.id, kind |-> p.kind, config |-> p.config, conn |-> p.conn, role |-> p.role, enabled |-> p.enabled]
    /\ p.kind = "limit_rows" => p.config \in Nat \ {0}

\* A key has one override in a place, and a row cap that is on has a value.
PoliciesOK ==
    /\ OneOverride
    /\ \A o \in overrides : OverrideOK(o)
    /\ \A p \in customs : CustomOK(p)

LEMMA OverrideFields ==
    ASSUME NEW key \in Catalog, NEW scope, NEW target, NEW enabled \in BOOLEAN, NEW value,
           key = "limit_rows" /\ enabled => value \in Nat \ {0}
    PROVE  LET o == Override(key, scope, target, enabled, value)
           IN  o.key = key /\ o.scope = scope /\ o.target = target /\ OverrideOK(o)
BY DEF Override, OverrideOK

LEMMA PoliciesInit == PolicyInit => PoliciesOK
<1> SUFFICES ASSUME PolicyInit PROVE PoliciesOK
  OBVIOUS
<1>1. ASSUME NEW o \in overrides
      PROVE  \E key \in Catalog, d \in BOOLEAN : \E v :
                /\ d = Default[key] /\ v = SeedValue(key) /\ (key = "limit_rows" => v \in Nat \ {0})
                /\ o = Override(key, "global", "", d, v)
  <2>1. PICK key \in Catalog \ {"query_timeout_seconds"} : o = Override(key, "global", "", Default[key], SeedValue(key))
    BY Zenon DEF PolicyInit, Seeded
  <2>2. Default[key] \in BOOLEAN
    BY DEF Default
  <2>3. key = "limit_rows" => SeedValue(key) \in Nat \ {0}
    BY DEF SeedValue
  <2> QED BY <2>1, <2>2, <2>3, Zenon
<1>2. OneOverride
  <2> SUFFICES ASSUME NEW o \in overrides, NEW p \in overrides, o.key = p.key PROVE o = p
    BY DEF OneOverride
  <2>1. PICK k \in Catalog, d \in BOOLEAN : \E v :
               /\ d = Default[k] /\ v = SeedValue(k) /\ (k = "limit_rows" => v \in Nat \ {0})
               /\ o = Override(k, "global", "", d, v)
    BY <1>1
  <2>2. PICK l \in Catalog, e \in BOOLEAN : \E w :
               /\ e = Default[l] /\ w = SeedValue(l) /\ (l = "limit_rows" => w \in Nat \ {0})
               /\ p = Override(l, "global", "", e, w)
    BY <1>1
  <2>3. PICK v : v = SeedValue(k) /\ o = Override(k, "global", "", d, v)
    BY <2>1, Zenon
  <2>4. PICK w : w = SeedValue(l) /\ p = Override(l, "global", "", e, w)
    BY <2>2, Zenon
  <2>5. o.key = k /\ p.key = l
    BY <2>3, <2>4 DEF Override
  <2> QED BY <2>1, <2>2, <2>3, <2>4, <2>5, Zenon
<1>3. ASSUME NEW o \in overrides PROVE OverrideOK(o)
  <2>1. PICK k \in Catalog, d \in BOOLEAN : \E v : (k = "limit_rows" => v \in Nat \ {0}) /\ o = Override(k, "global", "", d, v)
    BY <1>1
  <2>2. PICK v : (k = "limit_rows" => v \in Nat \ {0}) /\ o = Override(k, "global", "", d, v)
    BY <2>1, Zenon
  <2> QED BY <2>2, OverrideFields
<1> QED BY <1>2, <1>3 DEF PoliciesOK, PolicyInit

\* Setting an override replaces the one of its place.
LEMMA SetKeeps ==
    ASSUME PoliciesOK, NEW key \in Catalog, NEW scope, NEW target, NEW enabled \in BOOLEAN, NEW value,
           enabled /\ HasValue(key) => value \in Nat \ {0},
           overrides' = SetPolicyOverride(key, <<scope, target>>, enabled, value), customs' = customs
    PROVE  PoliciesOK'
<1>1. PICK kept : /\ overrides' = (overrides \ At(key, <<scope, target>>)) \cup {Override(key, scope, target, enabled, kept)}
                  /\ value # 0 => kept = value
  BY DEF SetPolicyOverride
<1>2. PICK new : new = Override(key, scope, target, enabled, kept)
  OBVIOUS
<1>3. key = "limit_rows" /\ enabled => kept \in Nat \ {0}
  BY <1>1 DEF HasValue
<1>4. new.key = key /\ new.scope = scope /\ new.target = target /\ OverrideOK(new)
  BY <1>2, <1>3, OverrideFields
<1>5. \A o \in overrides \ At(key, <<scope, target>>) : o.key # key \/ o.scope # scope \/ o.target # target
  BY DEF At
<1>6. OneOverride'
  BY <1>1, <1>2, <1>4, <1>5 DEF PoliciesOK, OneOverride
<1> QED BY <1>1, <1>2, <1>4, <1>6 DEF PoliciesOK

LEMMA ToggleKeeps ==
    ASSUME PoliciesOK, NEW key \in Catalog, NEW conn, NEW role, NEW enabled \in BOOLEAN, NEW value,
           TogglePolicy(key, conn, role, enabled, value)
    PROVE  PoliciesOK'
<1>1. PICK scope, target : ScopedPolicyKey(conn, role) = <<scope, target>>
  BY DEF ScopedPolicyKey
<1> QED BY <1>1, SetKeeps DEF TogglePolicy

LEMMA PoliciesKept == PoliciesOK /\ [PolicyNext]_<<overrides, customs>> => PoliciesOK'
<1> SUFFICES ASSUME PoliciesOK, [PolicyNext]_<<overrides, customs>> PROVE PoliciesOK'
  OBVIOUS
<1>1. ASSUME NEW key \in Catalog, NEW conn, NEW role, NEW enabled \in BOOLEAN, NEW value,
             TogglePolicy(key, conn, role, enabled, value)
      PROVE  PoliciesOK'
  BY <1>1, ToggleKeeps
<1>2. ASSUME NEW key, NEW conn, NEW role, DeletePolicyScope(key, conn, role) PROVE PoliciesOK'
  BY <1>2 DEF DeletePolicyScope, PoliciesOK, OneOverride
<1>3. ASSUME NEW id, NEW kind, NEW config, NEW conn, NEW role, NEW create,
             PutCustomPolicy(id, kind, config, conn, role, create)
      PROVE  PoliciesOK'
  <2> DEFINE new == [id |-> id, kind |-> kind, config |-> config, conn |-> conn, role |-> role, enabled |-> TRUE]
  <2>1. CustomOK(new)
    BY <1>3 DEF CustomOK, PutCustomPolicy, ValidateCustom
  <2>2. customs' = {p \in customs : p.id # id} \cup {new} /\ UNCHANGED overrides
    BY <1>3 DEF PutCustomPolicy
  <2> HIDE DEF new
  <2> QED BY <2>1, <2>2 DEF PoliciesOK, OneOverride
<1>4. ASSUME NEW id, NEW enabled \in BOOLEAN, PatchCustomPolicy(id, enabled) PROVE PoliciesOK'
  <2>1. ASSUME NEW p, CustomOK(p) PROVE CustomOK([p EXCEPT !.enabled = enabled])
    BY <2>1 DEF CustomOK
  <2>2. customs' = {IF p.id = id THEN [p EXCEPT !.enabled = enabled] ELSE p : p \in customs} /\ UNCHANGED overrides
    BY <1>4 DEF PatchCustomPolicy
  <2>3. ASSUME NEW q \in customs' PROVE CustomOK(q)
    BY <2>1, <2>2 DEF PoliciesOK
  <2> QED BY <2>2, <2>3 DEF PoliciesOK, OneOverride
<1>5. ASSUME NEW id, DeleteCustomPolicy(id) PROVE PoliciesOK'
  BY <1>5 DEF DeleteCustomPolicy, PoliciesOK, OneOverride
<1>6. CASE UNCHANGED <<overrides, customs>>
  BY <1>6 DEF PoliciesOK, OneOverride
<1> QED BY <1>1, <1>2, <1>3, <1>4, <1>5, <1>6 DEF PolicyNext

-----------------------------------------------------------------------------
(* The guardrails.                                                         *)

\* Every nonempty set of numbers has a least one: the intervals from 0 to its
\* members are well ordered by inclusion.
LEMMA LeastNumber ==
    ASSUME NEW T \in SUBSET Nat, T # {}
    PROVE  \E x \in T : \A y \in T : x <= y
<1> DEFINE upto == {0..n : n \in T}
<1>1. upto \subseteq FiniteSubsetsOf(Nat) /\ upto # {}
  <2>1. ASSUME NEW n \in T PROVE 0..n \in FiniteSubsetsOf(Nat)
    <3>1. IsFiniteSet(0..n) BY FS_Interval
    <3>2. 0..n \in SUBSET Nat OBVIOUS
    <3> QED BY <3>1, <3>2 DEF FiniteSubsetsOf
  <2>2. PICK n \in T : TRUE OBVIOUS
  <2>3. 0..n \in upto BY <2>2
  <2> QED BY <2>1, <2>3
<1>2. PICK u \in upto : \A v \in upto : ~ (<<v, u>> \in StrictSubsetOrdering(Nat))
  <2> HIDE DEF upto
  <2> QED BY <1>1, WFMin, FS_StrictSubsetOrderingWellFounded, Zenon
<1>3. PICK x \in T : u = 0..x BY <1>2
<1>4. ASSUME NEW y \in T, y < x PROVE FALSE
  <2>1. 0..y \in upto /\ 0..y \subseteq 0..x /\ 0..y # 0..x
    <3>1. x \in 0..x /\ x \notin 0..y BY <1>4
    <3> QED BY <1>4, <3>1
  <2>2. 0..y \in SUBSET Nat /\ 0..x \in SUBSET Nat OBVIOUS
  <2>3. <<0..y, u>> \in StrictSubsetOrdering(Nat)
    BY <2>1, <2>2, <1>3 DEF StrictSubsetOrdering
  <2> QED BY <2>1, <2>3, <1>2
<1> QED BY <1>4

\* A statement is refused when one of the guardrails hits.
LEMMA RefusedByOne ==
    ASSUME NEW in
    PROVE  Evaluate(in) # "allow" <=> \E i \in 1..10 : Guardrails(in)[i][2]
<1> DEFINE rules == Guardrails(in)
           hits  == {i \in DOMAIN rules : rules[i][2]}
           first == CHOOSE i \in hits : \A j \in hits : i <= j
<1>1. DOMAIN rules = 1..10 /\ \A i \in 1..10 : rules[i][1] # "allow"
  BY DEF Guardrails
<1>2. Evaluate(in) = IF hits = {} THEN "allow" ELSE rules[first][1]
  BY DEF Evaluate
<1> HIDE DEF rules
<1>3. hits = {} <=> ~\E i \in 1..10 : rules[i][2]
  BY <1>1
<1>4. hits # {} => first \in hits
  <2>1. hits \in SUBSET Nat
    BY <1>1
  <2> HIDE DEF hits
  <2> QED BY <2>1, LeastNumber
<1>5. first \in hits => first \in 1..10
  BY <1>1
<1> HIDE DEF hits, first
<1>6. hits # {} => rules[first][1] # "allow"
  BY <1>1, <1>4, <1>5
<1> QED BY <1>2, <1>3, <1>6 DEF rules

\* When a guardrail hits, for a caller and overrides given one by one.
Hit(s, readOnly, cleared, disabled, enabled) ==
    \/ s.kind = "unknown"
    \/ ~cleared /\ \/ s.script /\ "deny_multi_statement" \in enabled \ disabled
                   \/ s.kind = "other" /\ (readOnly \/ "deny_unclassified" \in enabled \ disabled)
                   \/ LacksWhere(s, "select") /\ s.tables # {} /\ "deny_select_without_where" \notin disabled
                   \/ LacksWhere(s, "delete") /\ "deny_delete_without_where" \notin disabled
                   \/ LacksWhere(s, "update") /\ "deny_update_without_where" \notin disabled
                   \/ s.drop /\ "deny_drop" \notin disabled
                   \/ s.truncate /\ "deny_truncate" \notin disabled
                   \/ readOnly /\ IsWrite(s.kind)

IsJudgeable(s) == {s.where, s.script, s.drop, s.truncate} \subseteq BOOLEAN

LEMMA RefusedWhenHit ==
    ASSUME NEW s, IsJudgeable(s), NEW readOnly \in BOOLEAN, NEW cleared \in BOOLEAN, NEW disabled, NEW enabled
    PROVE  Evaluate([stmt |-> s, readOnly |-> readOnly, cleared |-> cleared, disabled |-> disabled, enabled |-> enabled])
               # "allow" <=> Hit(s, readOnly, cleared, disabled, enabled)
<1> DEFINE in == [stmt |-> s, readOnly |-> readOnly, cleared |-> cleared, disabled |-> disabled, enabled |-> enabled]
<1>1. in.stmt = s /\ in.readOnly = readOnly /\ in.cleared = cleared /\ in.disabled = disabled /\ in.enabled = enabled
  OBVIOUS
<1>2. Evaluate(in) # "allow" <=> \E i \in 1..10 : Guardrails(in)[i][2]
  BY RefusedByOne
<1> HIDE DEF in
<1>3. \A i \in 1..10 : i = 1 \/ i = 2 \/ i = 3 \/ i = 4 \/ i = 5 \/ i = 6 \/ i = 7 \/ i = 8 \/ i = 9 \/ i = 10
  OBVIOUS
<1> DEFINE g == Guardrails(in)
<1>4. /\ g[1][2] = (s.script /\ (~cleared /\ "deny_multi_statement" \notin disabled) /\ "deny_multi_statement" \in enabled)
      /\ g[2][2] = (s.kind = "unknown")
      /\ g[3][2] = (s.kind = "other" /\ readOnly /\ ~cleared)
      /\ g[4][2] = (s.kind = "other" /\ (~cleared /\ "deny_unclassified" \notin disabled) /\ "deny_unclassified" \in enabled)
      /\ g[5][2] = (LacksWhere(s, "select") /\ s.tables # {} /\ ~cleared /\ "deny_select_without_where" \notin disabled)
      /\ g[6][2] = (LacksWhere(s, "delete") /\ ~cleared /\ "deny_delete_without_where" \notin disabled)
      /\ g[7][2] = (LacksWhere(s, "update") /\ ~cleared /\ "deny_update_without_where" \notin disabled)
      /\ g[8][2] = (s.drop /\ ~cleared /\ "deny_drop" \notin disabled)
      /\ g[9][2] = (s.truncate /\ ~cleared /\ "deny_truncate" \notin disabled)
      /\ g[10][2] = (readOnly /\ IsWrite(s.kind) /\ ~cleared)
  BY <1>1 DEF Guardrails
<1> HIDE DEF g
<1>5. Evaluate(in) # "allow" <=> \E i \in 1..10 : g[i][2]
  BY <1>2 DEF g
<1>6. (\E i \in 1..10 : g[i][2]) <=>
         g[1][2] \/ g[2][2] \/ g[3][2] \/ g[4][2] \/ g[5][2] \/ g[6][2] \/ g[7][2] \/ g[8][2] \/ g[9][2] \/ g[10][2]
  BY <1>3
<1> QED BY <1>4, <1>5, <1>6 DEF Hit, in, IsJudgeable

-----------------------------------------------------------------------------
\* The override of a key in a place, if there is one.
There(key, place) == CHOOSE o \in At(key, place) : TRUE

LEMMA OneThere ==
    ASSUME PoliciesOK, NEW key, NEW place
    PROVE  /\ At(key, place) # {} =>
                /\ There(key, place).enabled \in BOOLEAN
                /\ key = "limit_rows" /\ There(key, place).enabled => There(key, place).value \in Nat \ {0}
           /\ \A e \in BOOLEAN : key \in Turned(overrides, place, e) <=> At(key, place) # {} /\ There(key, place).enabled = e
<1> DEFINE o == There(key, place)
<1>1. At(key, place) # {} => o \in At(key, place)
  BY Zenon DEF There
<1> HIDE DEF o
<1>2. \A p \in At(key, place) : p \in overrides /\ p.key = key /\ <<p.scope, p.target>> = place
  BY DEF At
<1>3. At(key, place) # {} => o \in overrides /\ OverrideOK(o) /\ o.key = key
  BY <1>1, <1>2 DEF PoliciesOK
<1>4. \A p \in At(key, place) : p = o
  <2> SUFFICES ASSUME NEW p \in At(key, place) PROVE p = o
    OBVIOUS
  <2>1. p.scope = o.scope /\ p.target = o.target /\ p.key = o.key
    BY <1>1, <1>2
  <2> QED BY <1>1, <1>2, <2>1 DEF PoliciesOK, OneOverride
<1>5. ASSUME NEW e \in BOOLEAN
      PROVE  key \in Turned(overrides, place, e) <=> At(key, place) # {} /\ o.enabled = e
  <2>1. key \in Turned(overrides, place, e) <=> \E p \in At(key, place) : p.enabled = e
    BY DEF Turned, At
  <2> QED BY <1>1, <1>4, <2>1
<1> QED BY <1>3, <1>5 DEF OverrideOK, o

Overridden(key, conn, role) ==
    \/ At(key, <<"global", "">>) # {}
    \/ At(key, <<"connection", conn>>) # {}
    \/ At(key, <<"role", role>>) # {}

\* What the list shows of a key that has an override is what Disabled and
\* Enabled say of it.
LEMMA ListedIsResolved ==
    ASSUME PoliciesOK, NEW key \in Catalog, NEW conn, NEW role
    PROVE  LET shown == ListPolicies(key, conn, role)
           IN  /\ shown.enabled \in BOOLEAN
               /\ Overridden(key, conn, role) =>
                    /\ key \in Disabled(overrides, conn, role) <=> ~shown.enabled
                    /\ key \in Enabled(overrides, conn, role) <=> shown.enabled
               /\ ~Overridden(key, conn, role) =>
                    /\ shown.enabled = Default[key]
                    /\ key \notin Disabled(overrides, conn, role) /\ key \notin Enabled(overrides, conn, role)
<1> DEFINE G == <<"global", "">>
           C == <<"connection", conn>>
           R == <<"role", role>>
           K(place, e) == key \in Turned(overrides, place, e)
           shown == ListPolicies(key, conn, role)
<1>1. \A place \in {G, C, R} : At(key, place) # {} => There(key, place).enabled \in BOOLEAN
  BY OneThere
<1>2. \A place \in {G, C, R}, e \in BOOLEAN : K(place, e) <=> At(key, place) # {} /\ There(key, place).enabled = e
  BY OneThere
<1>3. ASSUME NEW e \in BOOLEAN
      PROVE  key \in Resolved(overrides, conn, role, e) <=>
                K(R, e) \/ (~K(R, ~e) /\ (K(C, e) \/ (~K(C, ~e) /\ K(G, e))))
  BY DEF Resolved, Layers
<1>4. shown.enabled = IF At(key, R) # {} THEN There(key, R).enabled
                      ELSE IF At(key, C) # {} THEN There(key, C).enabled
                      ELSE IF At(key, G) # {} THEN There(key, G).enabled ELSE Default[key]
  BY DEF ListPolicies, There
<1>5. Default[key] \in BOOLEAN
  BY DEF Default
<1> HIDE DEF shown, K
<1>6. shown.enabled \in BOOLEAN
  BY <1>1, <1>4, <1>5
<1>7. Overridden(key, conn, role) <=> At(key, G) # {} \/ At(key, C) # {} \/ At(key, R) # {}
  BY DEF Overridden
<1> HIDE DEF G, C, R
<1>8. ASSUME NEW e \in BOOLEAN
      PROVE  key \in Resolved(overrides, conn, role, e) <=> Overridden(key, conn, role) /\ shown.enabled = e
  BY <1>1, <1>2, <1>3, <1>4, <1>7
<1> QED BY <1>4, <1>6, <1>7, <1>8 DEF Disabled, Enabled, shown

\* The row cap that is applied is the one that is shown as on.
LEMMA ListedValue ==
    ASSUME PoliciesOK, NEW conn, NEW role, Overridden("limit_rows", conn, role)
    PROVE  LET shown == ListPolicies("limit_rows", conn, role)
           IN  /\ Value(overrides, "limit_rows", conn, role) = IF shown.enabled THEN shown.value ELSE 0
               /\ shown.enabled \in BOOLEAN /\ (shown.enabled => shown.value \in Nat \ {0})
<1> DEFINE key == "limit_rows"
           place == Layers(conn, role)
           On(i) == At(key, place[i]) # {}
           o(i)  == There(key, place[i])
           Applied(value, i) == IF ~On(i) THEN value ELSE IF ~o(i).enabled THEN 0 ELSE IF o(i).value = 0 THEN value ELSE o(i).value
           shown == ListPolicies(key, conn, role)
<1>1. \A i \in {1, 2, 3} : On(i) => o(i).enabled \in BOOLEAN /\ (o(i).enabled => o(i).value \in Nat \ {0})
  BY OneThere
<1>2. Value(overrides, key, conn, role) = Applied(Applied(Applied(0, 1), 2), 3)
  BY DEF Value, At, There
<1>3. place[1] = <<"global", "">> /\ place[2] = <<"connection", conn>> /\ place[3] = <<"role", role>>
  BY DEF Layers
<1>4. /\ On(3) => shown.enabled = o(3).enabled /\ shown.value = o(3).value
      /\ ~On(3) /\ On(2) => shown.enabled = o(2).enabled /\ shown.value = o(2).value
      /\ ~On(3) /\ ~On(2) /\ On(1) => shown.enabled = o(1).enabled /\ shown.value = o(1).value
  BY <1>3 DEF ListPolicies, There
<1>5. On(1) \/ On(2) \/ On(3)
  BY <1>3 DEF Overridden
<1> HIDE DEF On, o, shown
<1> QED BY <1>1, <1>2, <1>4, <1>5 DEF shown

\* The caps a custom policy or the built-in one asks for.
Capping(conn, role, limit) ==
    {p.config : p \in {q \in customs : q.enabled /\ q.kind = "limit_rows" /\ q.conn \in {"", conn} /\ q.role \in {"", role}}}
        \cup limit

\* The lowest of them is the one that is applied.
LEMMA LowestCap ==
    ASSUME PoliciesOK, NEW conn, NEW role, NEW limit \in Nat, NEW own, own = IF limit = 0 THEN {} ELSE {limit}
    PROVE  LET cap == CustomLimit(customs, Plain, conn, role, limit)
           IN  IF Capping(conn, role, own) = {} THEN cap = 0
               ELSE cap \in Capping(conn, role, own) /\ \A other \in Capping(conn, role, own) : cap <= other
<1> DEFINE caps  == Capping(conn, role, own)
           these == {p.config : p \in {q \in customs : q.kind = "limit_rows" /\ Plain.kind = "select" /\ Applies(q, conn, role)}}
                       \cup (IF limit = 0 THEN {} ELSE {limit})
           cap   == CustomLimit(customs, Plain, conn, role, limit)
<1>1. these = caps
  <2>1. Plain.kind = "select"
    BY DEF Plain
  <2>2. {q \in customs : q.enabled /\ q.kind = "limit_rows" /\ q.conn \in {"", conn} /\ q.role \in {"", role}}
           = {q \in customs : q.kind = "limit_rows" /\ Plain.kind = "select" /\ Applies(q, conn, role)}
    BY <2>1 DEF Applies
  <2> QED BY <2>2 DEF Capping
<1>2. cap = IF these = {} THEN 0 ELSE CHOOSE c \in these : \A other \in these : c <= other
  BY Zenon DEF CustomLimit
<1>3. caps \in SUBSET Nat
  <2>1. \A p \in customs : p.kind = "limit_rows" => p.config \in Nat
    BY DEF PoliciesOK, CustomOK
  <2> SUFFICES ASSUME NEW c \in caps PROVE c \in Nat
    OBVIOUS
  <2>2. CASE c \in own
    BY <2>2
  <2>3. CASE c \notin own
    <3>1. PICK p \in customs : p.kind = "limit_rows" /\ c = p.config
      BY <2>3 DEF Capping
    <3> QED BY <2>1, <3>1
  <2> QED BY <2>2, <2>3
<1> HIDE DEF these, caps, cap
<1>4. cap = IF caps = {} THEN 0 ELSE CHOOSE c \in caps : \A other \in caps : c <= other
  BY <1>1, <1>2
<1>5. caps # {} => cap \in caps /\ \A other \in caps : cap <= other
  BY <1>3, <1>4, LeastNumber
<1> QED BY <1>4, <1>5 DEF caps, cap

LEMMA ViolatingIsRefused ==
    ASSUME NEW key \in Catalog, ~HasValue(key), NEW conn, NEW role
    PROVE  Refused(Violating(key), Disabled(overrides, conn, role), Enabled(overrides, conn, role)) <=>
              /\ key \notin Disabled(overrides, conn, role)
              /\ key \in {"deny_multi_statement", "deny_unclassified"} => key \in Enabled(overrides, conn, role)
<1> DEFINE s == Violating(key)
           off == Disabled(overrides, conn, role)
           on  == Enabled(overrides, conn, role)
<1>1. /\ key \in {"deny_select_without_where", "deny_delete_without_where", "deny_update_without_where", "deny_drop",
                  "deny_truncate", "deny_multi_statement", "deny_unclassified"}
  BY DEF Catalog, HasValue
<1>2. /\ s.kind = CASE key = "deny_delete_without_where" -> "delete" [] key = "deny_update_without_where" -> "update"
                    [] key \in {"deny_drop", "deny_truncate"} -> "ddl" [] key = "deny_unclassified" -> "other" [] OTHER -> "select"
      /\ s.where = (key \notin {"deny_select_without_where", "deny_delete_without_where", "deny_update_without_where"})
      /\ s.unscoped = {} /\ s.tables # {}
      /\ s.drop = (key = "deny_drop") /\ s.truncate = (key = "deny_truncate") /\ s.script = (key = "deny_multi_statement")
  BY <1>1 DEF Violating, Plain
<1> HIDE DEF s
<1>3. IsJudgeable(s)
  BY <1>2 DEF IsJudgeable
<1>4. Refused(s, off, on) <=> Hit(s, FALSE, FALSE, off, on)
  BY <1>3, RefusedWhenHit DEF Refused
<1> HIDE DEF off, on
<1>5. Hit(s, FALSE, FALSE, off, on) <=>
         key \notin off /\ (key \in {"deny_multi_statement", "deny_unclassified"} => key \in on)
  BY <1>1, <1>2 DEF Hit, LacksWhere
<1> QED BY <1>4, <1>5 DEF s, off, on

LEMMA PoliciesShow == PoliciesOK => ListedIsEnforced
<1> SUFFICES ASSUME PoliciesOK, NEW conn \in Connections, NEW role \in Roles
             PROVE  /\ \A key \in {k \in Catalog : ~HasValue(k)} :
                          (key = "deny_select_without_where" => At(key, <<"global", "">>) # {}) =>
                              (Refused(Violating(key), Disabled(overrides, conn, role), Enabled(overrides, conn, role)) <=> ListPolicies(key, conn, role).enabled)
                    /\ At("limit_rows", <<"global", "">>) # {} =>
                          LET shown   == ListPolicies("limit_rows", conn, role)
                              caps    == {p.config : p \in {q \in customs : q.enabled /\ q.kind = "limit_rows"
                                                                              /\ q.conn \in {"", conn} /\ q.role \in {"", role}}}
                                            \cup (IF shown.enabled THEN {shown.value} ELSE {})
                              limit   == CustomLimit(customs, Plain, conn, role, Value(overrides, "limit_rows", conn, role))
                          IN  IF caps = {} THEN limit = 0 ELSE limit \in caps /\ \A cap \in caps : limit <= cap
  BY DEF ListedIsEnforced
<1>1. ASSUME NEW key \in Catalog, ~HasValue(key), key = "deny_select_without_where" => At(key, <<"global", "">>) # {}
      PROVE  Refused(Violating(key), Disabled(overrides, conn, role), Enabled(overrides, conn, role)) <=> ListPolicies(key, conn, role).enabled
  <2> DEFINE shown == ListPolicies(key, conn, role).enabled
             off == key \in Disabled(overrides, conn, role)
             on  == key \in Enabled(overrides, conn, role)
  <2>1. Refused(Violating(key), Disabled(overrides, conn, role), Enabled(overrides, conn, role)) <=>
           ~off /\ (key \in {"deny_multi_statement", "deny_unclassified"} => on)
    BY <1>1, ViolatingIsRefused, Zenon
  <2>2. /\ shown \in BOOLEAN
        /\ Overridden(key, conn, role) => (off <=> ~shown) /\ (on <=> shown)
        /\ ~Overridden(key, conn, role) => shown = Default[key] /\ ~off /\ ~on
    BY ListedIsResolved
  <2>3. key = "deny_select_without_where" => Overridden(key, conn, role)
    BY <1>1 DEF Overridden
  <2>4. Default[key] <=> key \in {"deny_delete_without_where", "deny_update_without_where", "deny_drop", "deny_truncate"}
    <3>1. key \notin {"limit_rows", "query_timeout_seconds"}
      BY <1>1 DEF HasValue
    <3> QED BY <3>1, Zenon DEF Default
  <2>5. key \in {"deny_select_without_where", "deny_multi_statement", "deny_unclassified", "deny_delete_without_where",
                 "deny_update_without_where", "deny_drop", "deny_truncate"}
    BY <1>1 DEF Catalog, HasValue
  <2> HIDE DEF shown, off, on
  <2> QED BY <2>1, <2>2, <2>3, <2>4, <2>5 DEF shown
<1>2. ASSUME At("limit_rows", <<"global", "">>) # {}
      PROVE  LET shown   == ListPolicies("limit_rows", conn, role)
                 caps    == {p.config : p \in {q \in customs : q.enabled /\ q.kind = "limit_rows"
                                                                 /\ q.conn \in {"", conn} /\ q.role \in {"", role}}}
                               \cup (IF shown.enabled THEN {shown.value} ELSE {})
                 limit   == CustomLimit(customs, Plain, conn, role, Value(overrides, "limit_rows", conn, role))
             IN  IF caps = {} THEN limit = 0 ELSE limit \in caps /\ \A cap \in caps : limit <= cap
  <2> DEFINE shown == ListPolicies("limit_rows", conn, role)
             limit == Value(overrides, "limit_rows", conn, role)
  <2>1. /\ limit = IF shown.enabled THEN shown.value ELSE 0
        /\ shown.enabled \in BOOLEAN /\ (shown.enabled => shown.value \in Nat \ {0})
    <3>1. Overridden("limit_rows", conn, role)
      BY <1>2 DEF Overridden
    <3> QED BY <3>1, ListedValue, Zenon
  <2> DEFINE own == IF shown.enabled THEN {shown.value} ELSE {}
  <2> HIDE DEF shown, limit
  <2>2. limit \in Nat /\ own = (IF limit = 0 THEN {} ELSE {limit})
    BY <2>1
  <2> HIDE DEF own
  <2>3. LET cap == CustomLimit(customs, Plain, conn, role, limit)
        IN  IF Capping(conn, role, own) = {} THEN cap = 0
            ELSE cap \in Capping(conn, role, own) /\ \A other \in Capping(conn, role, own) : cap <= other
    BY <2>2, LowestCap, Zenon
  <2> QED BY <2>3, Zenon DEF shown, limit, own, Capping
<1> QED BY <1>1, <1>2

LEMMA PoliciesHold == PolicySpec => []PoliciesOK
BY PoliciesInit, PoliciesKept, PTL DEF PolicySpec

\* The policies that are listed for a connection and a role are what a
\* statement run there by that role meets, for any connections, roles and
\* caps, and however overrides and custom policies are set, toggled and
\* removed (api/policies.go, listPolicies; api/query.go, resolvePolicies).
THEOREM ListedArePolicies == PolicySpec => []ListedIsEnforced
BY PoliciesHold, PoliciesShow, PTL

-----------------------------------------------------------------------------
(* Scripts and batches.                                                    *)

LEMMA RiskiestIsWorst ==
    ASSUME NEW kinds \in Seq(Kinds), kinds # <<>>
    PROVE  /\ \E i \in 1..Len(kinds) : Riskiest(kinds) = kinds[i]
           /\ \A j \in 1..Len(kinds) : Rank(kinds[j]) <= Rank(Riskiest(kinds))
<1> DEFINE n     == Len(kinds)
           rank  == [i \in 1..n |-> Rank(kinds[i])]
           worst == {i \in DOMAIN kinds : \A j \in DOMAIN kinds : Rank(kinds[j]) <= Rank(kinds[i])}
           below == {5 - rank[i] : i \in 1..n}
           first == CHOOSE i \in worst : \A j \in worst : i <= j
<1>1. n \in Nat /\ 1 \in 1..n /\ DOMAIN kinds = 1..n
  OBVIOUS
<1>2. \A i \in 1..n : rank[i] \in 0..5
  BY DEF Rank, Kinds
<1>3. PICK least \in below : \A other \in below : least <= other
  <2>1. below \in SUBSET Nat /\ below # {}
    BY <1>1, <1>2
  <2> HIDE DEF below
  <2> QED BY <2>1, LeastNumber
<1>4. PICK i \in 1..n : least = 5 - rank[i]
  BY <1>3
<1>5. ASSUME NEW j \in 1..n PROVE rank[j] <= rank[i]
  <2>1. 5 - rank[j] \in below
    OBVIOUS
  <2> HIDE DEF below, rank
  <2>2. least <= 5 - rank[j]
    BY <1>3, <2>1
  <2> QED BY <1>2, <1>4, <2>2
<1>6. i \in worst /\ worst \in SUBSET Nat
  <2>1. \A j \in 1..n : Rank(kinds[j]) <= Rank(kinds[i])
    BY <1>5
  <2> QED BY <1>1, <2>1
<1> HIDE DEF worst
<1>7. first \in worst
  BY <1>6, LeastNumber
<1>8. Riskiest(kinds) = kinds[first]
  BY Zenon DEF Riskiest, worst
<1> HIDE DEF first
<1>9. first \in 1..n /\ \A j \in 1..n : Rank(kinds[j]) <= Rank(kinds[first])
  BY <1>1, <1>7 DEF worst
<1> QED BY <1>8, <1>9

LEMMA MergedFields ==
    ASSUME NEW parts
    PROVE  LET whole == MergeScript(parts)
           IN  /\ whole.kind = Riskiest([i \in 1..Len(parts) |-> parts[i].kind])
               /\ whole.where = (/\ \E i \in 1..Len(parts) : parts[i].kind = whole.kind
                                 /\ \A i \in 1..Len(parts) : parts[i].kind = whole.kind => parts[i].where)
               /\ whole.unscoped = Unscoped(parts, whole.kind, whole.where)
               /\ whole.tables = UNION {parts[i].tables : i \in 1..Len(parts)}
               /\ whole.drop = (\E i \in 1..Len(parts) : parts[i].drop)
               /\ whole.truncate = (\E i \in 1..Len(parts) : parts[i].truncate)
               /\ whole.script = TRUE
               /\ whole.session = (\E i \in 1..Len(parts) : parts[i].session)
               /\ whole.control = (\E i \in 1..Len(parts) : parts[i].control)
               /\ whole.switches = (\E i \in 1..Len(parts) : parts[i].switches)
               /\ whole.readsOnly = (\A i \in 1..Len(parts) : parts[i].readsOnly)
BY DEF MergeScript

\* A part is not riskier than the whole, and what it lacks the whole lacks.
LEMMA MergedIsRiskier ==
    ASSUME NEW Infos, \A p \in Infos : IsSingle(p), NEW parts \in Seq(Infos), NEW i \in 1..Len(parts)
    PROVE  LET one == parts[i]  whole == MergeScript(parts)
           IN  /\ whole.kind \in Kinds /\ Rank(one.kind) <= Rank(whole.kind) /\ IsJudgeable(whole)
               /\ \A k \in {"update", "delete", "select"} :
                     LacksWhere(one, k) /\ (k = "select" => one.tables # {}) => LacksWhere(whole, k)
               /\ one.tables \subseteq whole.tables
<1> DEFINE n     == Len(parts)
           kinds == [j \in 1..n |-> parts[j].kind]
           one   == parts[i]
           whole == MergeScript(parts)
<1>1. n \in Nat /\ \A j \in 1..n : IsSingle(parts[j])
  OBVIOUS
<1>2. kinds \in Seq(Kinds) /\ Len(kinds) = n /\ \A j \in 1..n : kinds[j] = parts[j].kind
  BY <1>1 DEF IsSingle
<1>3. whole.kind = Riskiest(kinds)
  BY MergedFields, Zenon
<1>9. kinds # <<>>
  BY <1>2
<1> HIDE DEF kinds
<1>4. whole.kind \in Kinds /\ Rank(one.kind) <= Rank(whole.kind)
  BY <1>2, <1>3, <1>9, RiskiestIsWorst
<1>5. /\ whole.where = (/\ \E j \in 1..n : parts[j].kind = whole.kind
                        /\ \A j \in 1..n : parts[j].kind = whole.kind => parts[j].where)
      /\ whole.unscoped = Unscoped(parts, whole.kind, whole.where)
      /\ whole.tables = UNION {parts[j].tables : j \in 1..n}
      /\ whole.drop = (\E j \in 1..n : parts[j].drop) /\ whole.truncate = (\E j \in 1..n : parts[j].truncate)
      /\ whole.script = TRUE
  BY MergedFields
<1> HIDE DEF whole
<1>6. IsJudgeable(whole)
  BY <1>5 DEF IsJudgeable
<1>7. ASSUME NEW k \in {"update", "delete", "select"}, LacksWhere(one, k), k = "select" => one.tables # {}
      PROVE  LacksWhere(whole, k)
  <2>1. one.kind = k /\ ~one.where
    BY <1>1, <1>7 DEF LacksWhere, IsSingle
  <2>2. CASE k = whole.kind
    BY <1>5, <2>1, <2>2 DEF LacksWhere
  <2>3. CASE k # whole.kind
    <3>1. k \in Unscoped(parts, whole.kind, whole.where)
      BY <1>7, <2>1, <2>3 DEF Unscoped
    <3> QED BY <1>5, <3>1 DEF LacksWhere
  <2> QED BY <2>2, <2>3
<1>8. one.tables \subseteq whole.tables
  BY <1>5
<1> QED BY <1>4, <1>6, <1>7, <1>8 DEF whole

LEMMA RiskierIsRefused ==
    ASSUME NEW k \in Kinds, NEW l \in Kinds, Rank(k) <= Rank(l)
    PROVE  /\ k = "unknown" => l = "unknown"
           /\ k = "other" => l \in {"other", "unknown"}
           /\ IsWrite(k) => IsWrite(l) \/ l \in {"other", "unknown"}
           /\ l \in {"select", "session"} => k \in {"select", "session"}
BY DEF Kinds, Rank, IsWrite

LEMMA VerdictIs ==
    ASSUME NEW Infos, NEW parts \in Seq(Infos), NEW i \in 1..Len(parts)
    PROVE  \/ Verdict(parts) = parts[i]
           \/ Verdict(parts) = MergeScript(parts)
BY DEF Verdict

\* A script of any length hides nothing: what the guardrails refuse of one of
\* its statements they refuse of the script, for any caller and any overrides
\* that leave deny_multi_statement alone or not (parser.go, mergeScript).
THEOREM ScriptIsRefused ==
    ASSUME NEW Infos, \A p \in Infos : IsSingle(p), NEW parts \in Seq(Infos), NEW i \in 1..Len(parts),
           NEW disabled, NEW enabled
    PROVE  NotHidden(parts[i], Verdict(parts), disabled, enabled)
<1> DEFINE one   == parts[i]
           whole == MergeScript(parts)
<1>1. IsSingle(one)
  OBVIOUS
<1>2. /\ whole.kind \in Kinds /\ Rank(one.kind) <= Rank(whole.kind) /\ IsJudgeable(whole)
      /\ \A k \in {"update", "delete", "select"} :
            LacksWhere(one, k) /\ (k = "select" => one.tables # {}) => LacksWhere(whole, k)
      /\ one.tables \subseteq whole.tables
  BY MergedIsRiskier
<1>3. (one.drop => whole.drop) /\ (one.truncate => whole.truncate)
  <2>1. whole.drop = (\E j \in 1..Len(parts) : parts[j].drop) /\ whole.truncate = (\E j \in 1..Len(parts) : parts[j].truncate)
    BY MergedFields, Zenon
  <2> QED BY <2>1, Zenon
<1> HIDE DEF one, whole
<1>4. IsJudgeable(one) /\ ~one.script /\ one.kind \in Kinds
  <2>1. one.script \in BOOLEAN /\ one.where \in BOOLEAN /\ one.drop \in BOOLEAN /\ one.truncate \in BOOLEAN
    BY <1>1 DEF IsSingle
  <2>2. ~one.script /\ one.kind \in Kinds
    BY <1>1, Zenon DEF IsSingle
  <2> QED BY <2>1, <2>2 DEF IsJudgeable
<1>5. ASSUME NEW readOnly \in BOOLEAN, NEW cleared \in BOOLEAN, Hit(one, readOnly, cleared, disabled, enabled)
      PROVE  Hit(whole, readOnly, cleared, disabled, enabled)
  <2>1. /\ one.kind = "unknown" => whole.kind = "unknown"
        /\ one.kind = "other" => whole.kind \in {"other", "unknown"}
        /\ IsWrite(one.kind) => IsWrite(whole.kind) \/ whole.kind \in {"other", "unknown"}
    BY <1>2, <1>4, RiskierIsRefused
  <2>2. one.tables # {} => whole.tables # {}
    BY <1>2
  <2> QED BY <1>2, <1>3, <1>4, <1>5, <2>1, <2>2 DEF Hit
<1>6. NotHidden(one, whole, disabled, enabled)
  <2> SUFFICES ASSUME NEW readOnly \in BOOLEAN, NEW cleared \in BOOLEAN
               PROVE  LET Judged(s) == Evaluate([stmt |-> s, readOnly |-> readOnly, cleared |-> cleared,
                                                 disabled |-> disabled, enabled |-> enabled])
                      IN  Judged(one) # "allow" => Judged(whole) # "allow"
    BY DEF NotHidden
  <2> QED BY <1>2, <1>4, <1>5, RefusedWhenHit
<1>7. NotHidden(one, one, disabled, enabled)
  BY DEF NotHidden
<1> QED BY <1>6, <1>7, VerdictIs DEF one, whole

\* A script marks what one of its statements marks, and goes to a secondary
\* only if all of its statements may (parser.go, mergeScript, SecondarySafe).
THEOREM ScriptIsMarked ==
    ASSUME NEW Infos, \A p \in Infos : IsSingle(p), NEW parts \in Seq(Infos), NEW i \in 1..Len(parts)
    PROVE  KeepsMarks(parts[i], Verdict(parts))
<1> DEFINE one   == parts[i]
           whole == MergeScript(parts)
<1>1. KeepsMarks(one, one)
  BY DEF KeepsMarks
<1>2. /\ (one.session => whole.session) /\ (one.control => whole.control) /\ (one.switches => whole.switches)
      /\ (whole.readsOnly => one.readsOnly)
  BY MergedFields
<1>3. one.tables \subseteq whole.tables /\ whole.kind \in Kinds /\ Rank(one.kind) <= Rank(whole.kind) /\ one.kind \in Kinds
  BY MergedIsRiskier DEF IsSingle
<1> HIDE DEF one, whole
<1>4. one.kind # "session" /\ whole.kind = "select" => one.kind = "select"
  BY <1>3, RiskierIsRefused
<1>5. KeepsMarks(one, whole)
  BY <1>2, <1>3, <1>4 DEF KeepsMarks, SecondarySafe
<1> QED BY <1>1, <1>5, VerdictIs DEF one, whole

LEMMA BatchFields ==
    ASSUME NEW parts, parts # {}, {p.kind : p \in parts} \subseteq {"insert", "update", "delete"}
    PROVE  LET whole == MergeBatch(parts)
           IN  /\ whole.kind = (IF \E p \in parts : p.kind = "delete" THEN "delete"
                                ELSE IF \E p \in parts : p.kind = "update" THEN "update" ELSE "insert")
               /\ whole.where = \A p \in parts : p.kind \in {"update", "delete"} => p.where
               /\ IsJudgeable(whole)
<1> DEFINE kinds == {p.kind : p \in parts}
           kind  == IF "delete" \in kinds THEN "delete" ELSE IF "update" \in kinds THEN "update" ELSE "insert"
           where == \A p \in parts : p.kind \in {"update", "delete"} => p.where
           whole == [Unreadable EXCEPT !.kind = kind, !.command = kind, !.tables = UNION {p.tables : p \in parts},
                                       !.where = where]
<1>1. MergeBatch(parts) = whole
  BY Zenon DEF MergeBatch
<1>2. kind = (IF \E p \in parts : p.kind = "delete" THEN "delete"
              ELSE IF \E p \in parts : p.kind = "update" THEN "update" ELSE "insert")
  OBVIOUS
<1> HIDE DEF kind, where
<1>3. whole.kind = kind /\ whole.where = where /\ whole.script = FALSE /\ whole.drop = FALSE /\ whole.truncate = FALSE
  BY DEF Unreadable
<1>4. where \in BOOLEAN
  BY DEF where
<1> HIDE DEF whole
<1> QED BY <1>1, <1>2, <1>3, <1>4 DEF where, IsJudgeable

\* A Cassandra batch of any size hides nothing either, unless the guardrail
\* against a DELETE without WHERE, which it is then judged by, is turned off
\* (cql.go, ParseCQL).
THEOREM BatchIsRefused ==
    ASSUME NEW parts, \A p \in parts : IsSingle(p), NEW one \in parts, NEW disabled, NEW enabled,
           "deny_delete_without_where" \notin disabled \/ \A p \in parts : p.kind # "delete"
    PROVE  NotHidden(one, MergeBatch(parts), disabled, enabled)
<1> DEFINE whole == MergeBatch(parts)
<1>1. /\ one.script \in BOOLEAN /\ one.where \in BOOLEAN /\ one.drop \in BOOLEAN /\ one.truncate \in BOOLEAN
      /\ ~one.script /\ one.unscoped = {}
      /\ (one.drop \/ one.truncate => one.kind \notin {"insert", "update", "delete"})
  BY DEF IsSingle
<1>2. IsJudgeable(one)
  BY <1>1 DEF IsJudgeable
<1>3. IsJudgeable(whole) /\ \A readOnly, cleared \in BOOLEAN :
         Hit(one, readOnly, cleared, disabled, enabled) => Hit(whole, readOnly, cleared, disabled, enabled)
  <2>1. CASE ~({p.kind : p \in parts} \subseteq {"insert", "update", "delete"})
    <3>1. whole = Unreadable
      BY <2>1, Zenon DEF MergeBatch
    <3>2. IsJudgeable(whole) /\ whole.kind = "unknown"
      BY <3>1 DEF Unreadable, IsJudgeable
    <3> QED BY <3>2 DEF Hit
  <2>2. CASE {p.kind : p \in parts} \subseteq {"insert", "update", "delete"}
    <3>1. /\ whole.kind = (IF \E p \in parts : p.kind = "delete" THEN "delete"
                           ELSE IF \E p \in parts : p.kind = "update" THEN "update" ELSE "insert")
          /\ whole.where = \A p \in parts : p.kind \in {"update", "delete"} => p.where
          /\ IsJudgeable(whole)
      BY <2>2, BatchFields
    <3>2. one.kind \in {"insert", "update", "delete"}
      BY <2>2
    <3> HIDE DEF whole
    <3>3. one.kind \in {"update", "delete"} /\ ~one.where =>
             /\ ~whole.where /\ whole.kind \in {"update", "delete"}
             /\ whole.kind # one.kind => whole.kind = "delete" /\ \E p \in parts : p.kind = "delete"
      BY <3>1
    <3>4. whole.kind \in {"insert", "update", "delete"}
      BY <3>1
    <3> QED BY <1>1, <3>1, <3>2, <3>3, <3>4 DEF Hit, LacksWhere, IsWrite
  <2> QED BY <2>1, <2>2
<1> HIDE DEF whole
<1>4. NotHidden(one, whole, disabled, enabled)
  <2> SUFFICES ASSUME NEW readOnly \in BOOLEAN, NEW cleared \in BOOLEAN
               PROVE  LET Judged(s) == Evaluate([stmt |-> s, readOnly |-> readOnly, cleared |-> cleared,
                                                 disabled |-> disabled, enabled |-> enabled])
                      IN  Judged(one) # "allow" => Judged(whole) # "allow"
    BY DEF NotHidden
  <2> QED BY <1>2, <1>3, RefusedWhenHit
<1> QED BY <1>4 DEF whole
=============================================================================
