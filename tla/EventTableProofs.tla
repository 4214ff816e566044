--------------------------- MODULE EventTableProofs ---------------------------
(***************************************************************************)
(* Proofs about EventCode and EventTable: the scripts and the C library    *)
(* compute the same event codes, a code determines what it selects, and so *)
(* an event the generated header does not list was lost in one of two ways *)
(* that show in the event files.                                           *)
(***************************************************************************)
EXTENDS EventTable, TLAPS

-----------------------------------------------------------------------------
(* Event codes *)

\* Adding values that have no bit in common is or-ing them.
LEMMA PlusOfDisjoint ==
  ASSUME NEW v \in SUBSET Int, NEW w \in SUBSET Int, v \cap w = {}
  PROVE  Plus(v, w) = v \cup w
<1> DEFINE both == v \cup w
           Carry(k) == \E j \in v \cap w :
                         j < k /\ \A i \in (j + 1)..(k - 1) : i \in v \cup w
<1>1. \A k : ~Carry(k)
  OBVIOUS
<1>2. \A k : (k \in v <=> k \notin w) <=> k \in both
  OBVIOUS
<1>3. Plus(v, w) = {k \in both \cup {b + 1 : b \in both} :
                      (k \in v <=> k \notin w) <=> ~Carry(k)}
  BY DEF Plus
<1> HIDE DEF Carry, both
<1>4. Plus(v, w) = {k \in both \cup {b + 1 : b \in both} : k \in both}
  BY <1>1, <1>2, <1>3
<1>5. Plus(v, w) = both
  BY <1>4
<1> QED  BY <1>5 DEF both

\* What the shift and the mask contain.
LEMMA ShlMembers ==
  ASSUME NEW v \in SUBSET Int, NEW n \in Nat
  PROVE  Shl(v, n) \in SUBSET Int /\ \A x \in Int : x \in Shl(v, n) <=> x - n \in v
BY SMT DEF Shl

\* The members of a masked value are the members below the mask's width.
LEMMA LowBitsMembers ==
  ASSUME NEW v \in SUBSET Int, NEW n \in Nat
  PROVE  LowBits(v, n) \in SUBSET Int /\ \A x \in Int : x \in LowBits(v, n) <=> x \in v /\ x < n
BY DEF LowBits

\* The script for Intel machines adds the fields, the library ors them: for
\* fields that are in range the result is the same.
THEOREM IntelCodesAgree ==
  ASSUME NEW e, InRange("Intel", e), NEW c \in SUBSET (0..7)
  PROVE  IntelHex(e, c) = IntelHexcode(IntelEvent(e, c))
<1> DEFINE C == Shl(e.cmask, 24)   I == Shl(e.invert, 23)   E == Shl(One, 22)
           D == Shl(e.edge, 18)    U == Shl(One, 16)        M == Shl(e.umask, 8)
<1>1. /\ C \subseteq 24..31 /\ I \subseteq 23..23 /\ E = {22}
      /\ D \subseteq 18..18 /\ U = {16} /\ M \subseteq 8..15
  <2>1. e.cmask \in SUBSET (0..7) /\ e.umask \in SUBSET (0..7)
        /\ e.invert \in SUBSET (0..0) /\ e.edge \in SUBSET (0..0)
    BY DEF InRange
  <2> QED  BY <2>1, SMT DEF Shl, One
<1> HIDE DEF C, I, E, D, U, M
<1>2. Plus(C, I) = C \cup I  BY <1>1, PlusOfDisjoint
<1>3. Plus(C \cup I, E) = C \cup I \cup E  BY <1>1, PlusOfDisjoint
<1>4. Plus(C \cup I \cup E, D) = C \cup I \cup E \cup D  BY <1>1, PlusOfDisjoint
<1>5. Plus(C \cup I \cup E \cup D, U) = C \cup I \cup E \cup D \cup U
  BY <1>1, PlusOfDisjoint
<1>6. Plus(C \cup I \cup E \cup D \cup U, M) = C \cup I \cup E \cup D \cup U \cup M
  BY <1>1, PlusOfDisjoint
<1>7. Plus(C \cup I \cup E \cup D \cup U \cup M, c)
        = C \cup I \cup E \cup D \cup U \cup M \cup c
  BY <1>1, PlusOfDisjoint
<1>8. IntelHex(e, c) = C \cup I \cup E \cup D \cup U \cup M \cup c
  BY <1>2, <1>3, <1>4, <1>5, <1>6, <1>7 DEF IntelHex, C, I, E, D, U, M
<1>9. /\ LowBits(C, 32) = C /\ LowBits(I, 32) = I /\ LowBits(E, 32) = E
      /\ LowBits(D, 32) = D /\ LowBits(U, 32) = U /\ LowBits(M, 32) = M
  <2>1. ASSUME NEW S \in SUBSET (0..31)  PROVE LowBits(S, 32) = S
    <3>1. \A b \in S : b < 32
      BY SMT
    <3> QED  BY <3>1 DEF LowBits
  <2>2. /\ C \in SUBSET (0..31) /\ I \in SUBSET (0..31) /\ E \in SUBSET (0..31)
        /\ D \in SUBSET (0..31) /\ U \in SUBSET (0..31) /\ M \in SUBSET (0..31)
    <3>1. \A S : S \subseteq 24..31 \/ S \subseteq 23..23 \/ S = {22} \/ S \subseteq 18..18
                  \/ S = {16} \/ S \subseteq 8..15 => S \in SUBSET (0..31)
      BY SMT
    <3> QED  BY <1>1, <3>1
  <2> QED  BY <2>1, <2>2
<1>10. LowBits(Shl({}, 17), 32) = {} /\ LowBits(Shl({}, 19), 32) = {}
       /\ LowBits(Shl({}, 20), 32) = {}
  BY DEF Shl, LowBits
<1>11. IntelHexcode(IntelEvent(e, c)) = C \cup I \cup E \cup D \cup U \cup M \cup c
  BY <1>9, <1>10 DEF IntelHexcode, IntelEvent, Field32, C, I, E, D, U, M
<1> QED  BY <1>8, <1>11

\* The script for AMD machines and the library: likewise.
THEOREM AmdCodesAgree ==
  ASSUME NEW e, InRange("AMD", e), NEW c \in SUBSET (0..11)
  PROVE  AmdHex(e, c) = AmdHexcode(AmdEvent(e, c))
<1>1. e.umask \in SUBSET (0..7)
  BY DEF InRange
<1>2. LowBits(e.umask, 8) = e.umask /\ LowBits(One, 1) = One
  BY <1>1, SMT DEF LowBits, One
<1>3. Plus(Shl(e.umask, 8), LowBits(c, 8)) = Shl(e.umask, 8) \cup LowBits(c, 8)
  <2>1. Shl(e.umask, 8) \in SUBSET Int /\ LowBits(c, 8) \in SUBSET Int
    BY <1>1, SMT DEF Shl, LowBits
  <2>2. Shl(e.umask, 8) \cap LowBits(c, 8) = {}
    BY <1>1, SMT DEF Shl, LowBits
  <2> QED  BY <2>1, <2>2, PlusOfDisjoint
<1>4. \A k \in Nat, n \in Nat : Shl(LowBits({}, k), n) = {}
  BY DEF Shl, LowBits
<1>5. /\ AmdEvent(e, c).event_select = c /\ AmdEvent(e, c).unit_mask = e.umask
      /\ AmdEvent(e, c).user_mode = One /\ AmdEvent(e, c).os_mode = One
      /\ AmdEvent(e, c).edge_detect = {} /\ AmdEvent(e, c).interrupt_enable = One
      /\ AmdEvent(e, c).counter_enable = One /\ AmdEvent(e, c).invert = {}
      /\ AmdEvent(e, c).counter_mask = {} /\ AmdEvent(e, c).hg_only = {}
  BY DEF AmdEvent
<1>6. AmdHexcode(AmdEvent(e, c)) =
        LowBits(c, 8) \cup Shl(e.umask, 8) \cup Shl(One, 16) \cup Shl(One, 17)
          \cup Shl(One, 20) \cup Shl(One, 22) \cup HighPart(c)
  BY <1>2, <1>4, <1>5 DEF AmdHexcode
<1> QED  BY <1>3, <1>6 DEF AmdHex

\* On Intel a code determines what it selects: no field reaches into another.
THEOREM IntelCodeDetermines ==
  ASSUME NEW d, InRange("Intel", d), NEW b \in SUBSET (0..7),
         NEW e, InRange("Intel", e), NEW c \in SUBSET (0..7),
         IntelHex(d, b) = IntelHex(e, c)
  PROVE  IntelEvent(d, b) = IntelEvent(e, c)
<1> DEFINE Part(H, w, n) == {i \in 0..w : i + n \in H}
<1>1. ASSUME NEW f, InRange("Intel", f), NEW a \in SUBSET (0..7)
      PROVE  /\ a = Part(IntelHex(f, a), 7, 0)
             /\ f.umask = Part(IntelHex(f, a), 7, 8)
             /\ f.edge = Part(IntelHex(f, a), 0, 18)
             /\ f.invert = Part(IntelHex(f, a), 0, 23)
             /\ f.cmask = Part(IntelHex(f, a), 7, 24)
  <2> DEFINE H == IntelHexcode(IntelEvent(f, a))
  <2>1. IntelHex(f, a) = H
    BY <1>1, IntelCodesAgree
  <2>2. /\ f.umask \in SUBSET (0..7) /\ f.cmask \in SUBSET (0..7)
        /\ f.invert \in SUBSET (0..0) /\ f.edge \in SUBSET (0..0)
    BY <1>1 DEF InRange
  <2>3. H = a \cup Field32(f.umask, 8) \cup Field32(One, 16) \cup Field32({}, 17)
              \cup Field32(f.edge, 18) \cup Field32({}, 19) \cup Field32({}, 20)
              \cup Field32(One, 22) \cup Field32(f.invert, 23) \cup Field32(f.cmask, 24)
    BY DEF IntelHexcode, IntelEvent
  <2>4. \A v \in SUBSET (0..7), n \in Nat, x \in Int :
           n + 7 < 32 => (x \in Field32(v, n) <=> x - n \in v)
    BY SMT DEF Field32, Shl, LowBits
  <2>5. \A x \in Int : x \in H <=> \/ x \in a
                                 \/ x - 8 \in f.umask
                                 \/ x = 16
                                 \/ x - 18 \in f.edge
                                 \/ x = 22
                                 \/ x - 23 \in f.invert
                                 \/ x - 24 \in f.cmask
    <3> SUFFICES ASSUME NEW x \in Int
                 PROVE  x \in H <=> \/ x \in a
                                    \/ x - 8 \in f.umask
                                    \/ x = 16
                                    \/ x - 18 \in f.edge
                                    \/ x = 22
                                    \/ x - 23 \in f.invert
                                    \/ x - 24 \in f.cmask
      OBVIOUS
    <3>1. /\ One \in SUBSET (0..7) /\ {} \in SUBSET (0..7)
          /\ f.edge \in SUBSET (0..7) /\ f.invert \in SUBSET (0..7)
      BY <2>2, SMT DEF One
    <3>2. x \in Field32(f.umask, 8) <=> x - 8 \in f.umask
      BY <2>2, <2>4
    <3>3. x \in Field32(f.edge, 18) <=> x - 18 \in f.edge
      BY <2>4, <3>1
    <3>4. x \in Field32(f.invert, 23) <=> x - 23 \in f.invert
      BY <2>4, <3>1
    <3>5. x \in Field32(f.cmask, 24) <=> x - 24 \in f.cmask
      BY <2>2, <2>4
    <3>6. x \in Field32(One, 16) <=> x = 16
      BY <2>4, <3>1, SMT DEF One
    <3>7. x \in Field32(One, 22) <=> x = 22
      BY <2>4, <3>1, SMT DEF One
    <3>8. x \notin Field32({}, 17) /\ x \notin Field32({}, 19) /\ x \notin Field32({}, 20)
      BY DEF Field32, Shl, LowBits
    <3> HIDE DEF H
    <3> QED  BY <2>3, <3>2, <3>3, <3>4, <3>5, <3>6, <3>7, <3>8
  <2> HIDE DEF H
  <2>6. a = Part(H, 7, 0)
    <3>1. \A i \in 0..7 : i + 0 \in H <=> i \in a
      BY <2>2, <2>5, SMT
    <3> QED  BY <2>2, <3>1
  <2>7. f.umask = Part(H, 7, 8)
    <3>1. \A i \in 0..7 : i + 8 \in H <=> i \in f.umask
      BY <2>2, <2>5, SMT
    <3> QED  BY <2>2, <3>1
  <2>8. f.edge = Part(H, 0, 18)
    <3>1. \A i \in 0..0 : i + 18 \in H <=> i \in f.edge
      BY <2>2, <2>5, SMT
    <3> QED  BY <2>2, <3>1
  <2>9. f.invert = Part(H, 0, 23)
    <3>1. \A i \in 0..0 : i + 23 \in H <=> i \in f.invert
      BY <2>2, <2>5, SMT
    <3> QED  BY <2>2, <3>1
  <2>10. f.cmask = Part(H, 7, 24)
    <3>1. \A i \in 0..7 : i + 24 \in H <=> i \in f.cmask
      BY <2>2, <2>5, SMT
    <3> QED  BY <2>2, <3>1
  <2> QED  BY <2>1, <2>6, <2>7, <2>8, <2>9, <2>10
<1> HIDE DEF Part
<1>2. b = c /\ d.umask = e.umask /\ d.edge = e.edge /\ d.invert = e.invert
      /\ d.cmask = e.cmask
  BY <1>1
<1> QED  BY <1>2 DEF IntelEvent

\* On AMD likewise, for the codes that the script makes.
THEOREM AmdCodeDetermines ==
  ASSUME NEW d, InRange("AMD", d), NEW b \in SUBSET (0..11),
         NEW e, InRange("AMD", e), NEW c \in SUBSET (0..11),
         AmdHex(d, b) = AmdHex(e, c)
  PROVE  AmdEvent(d, b) = AmdEvent(e, c)
<1> DEFINE Part(H, w, n) == {i \in 0..w : i + n \in H}
           High(H) == {i \in 8..11 : i + 32 \in H}
<1>1. ASSUME NEW f, InRange("AMD", f), NEW a \in SUBSET (0..11)
      PROVE  /\ a = Part(AmdHex(f, a), 7, 0) \cup High(AmdHex(f, a))
             /\ f.umask = Part(AmdHex(f, a), 7, 8)
  <2> DEFINE H == AmdHex(f, a)
  <2>1. f.umask \in SUBSET (0..7) /\ f.umask \in SUBSET Int /\ a \in SUBSET Int
    <3>1. f.umask \in SUBSET (0..7)
      BY <1>1 DEF InRange
    <3> QED  BY <3>1, SMT
  <2>2. /\ Shl(f.umask, 8) \in SUBSET Int
        /\ \A x \in Int : x \in Shl(f.umask, 8) <=> x - 8 \in f.umask
    BY <2>1, ShlMembers
  <2>3. /\ LowBits(a, 8) \in SUBSET Int
        /\ \A x \in Int : x \in LowBits(a, 8) <=> x \in a /\ x < 8
    BY <2>1, LowBitsMembers
  <2>4. \A x \in Int : x \in HighPart(a) <=> x - 32 \in a /\ x - 32 >= 8
    <3>1. /\ LowBits(a, 12) \in SUBSET Int
          /\ \A x \in Int : x \in LowBits(a, 12) <=> x \in a /\ x < 12
      BY <2>1, LowBitsMembers
    <3> DEFINE h == LowBits(a, 12) \ LowBits(a, 8)
    <3>2. h \in SUBSET Int /\ \A x \in Int : x \in h <=> x \in a /\ x >= 8
      BY <2>3, <3>1, SMT
    <3> HIDE DEF h
    <3>3. \A x \in Int : x \in Shl(h, 32) <=> x - 32 \in h
      BY <3>2, ShlMembers
    <3>4. HighPart(a) = Shl(h, 32)
      BY DEF HighPart, h
    <3> QED  BY <3>2, <3>3, <3>4, SMT
  <2>5. Plus(Shl(f.umask, 8), LowBits(a, 8)) = Shl(f.umask, 8) \cup LowBits(a, 8)
    <3>1. Shl(f.umask, 8) \cap LowBits(a, 8) = {}
      BY <2>1, <2>2, <2>3, SMT
    <3> QED  BY <2>2, <2>3, <3>1, PlusOfDisjoint
  <2>6. Shl(One, 16) = {16} /\ Shl(One, 17) = {17} /\ Shl(One, 20) = {20}
        /\ Shl(One, 22) = {22}
    BY SMT DEF Shl, One
  <2>7. H = Shl(f.umask, 8) \cup LowBits(a, 8) \cup {16} \cup {17} \cup {20} \cup {22}
              \cup HighPart(a)
    BY <2>5, <2>6 DEF AmdHex
  <2> HIDE DEF H
  <2>8. ASSUME NEW x \in Int
        PROVE  x \in H <=> \/ x \in a /\ x < 8
                           \/ x - 8 \in f.umask
                           \/ x = 16 \/ x = 17 \/ x = 20 \/ x = 22
                           \/ x - 32 \in a /\ x - 32 >= 8
    <3>1. x \in H <=> \/ x \in Shl(f.umask, 8)
                      \/ x \in LowBits(a, 8)
                      \/ x = 16 \/ x = 17 \/ x = 20 \/ x = 22
                      \/ x \in HighPart(a)
      BY <2>7
    <3> QED  BY <2>2, <2>3, <2>4, <3>1
  <2>81. \A y \in a : y \in Int /\ 0 <= y /\ y <= 11
    BY SMT
  <2>82. \A y \in f.umask : y \in Int /\ 0 <= y /\ y <= 7
    BY <2>1, SMT
  <2>9. a = Part(H, 7, 0) \cup High(H)
    <3>1. ASSUME NEW i \in 0..7  PROVE i + 0 \in H <=> i \in a
      <4>1. i \in Int /\ i < 8
        BY SMT
      <4>2. i \in H <=> \/ i \in a /\ i < 8
                        \/ i - 8 \in f.umask
                        \/ i = 16 \/ i = 17 \/ i = 20 \/ i = 22
                        \/ i - 32 \in a /\ i - 32 >= 8
        BY <2>8, <4>1
      <4> QED  BY <2>81, <2>82, <4>1, <4>2, SMT
    <3>2. ASSUME NEW i \in 8..11  PROVE i + 32 \in H <=> i \in a
      <4>1. i \in Int /\ i + 32 \in Int /\ i >= 8 /\ (i + 32) - 32 = i
        BY SMT
      <4>2. i + 32 \in H <=> \/ i + 32 \in a /\ i + 32 < 8
                             \/ (i + 32) - 8 \in f.umask
                             \/ i + 32 = 16 \/ i + 32 = 17 \/ i + 32 = 20 \/ i + 32 = 22
                             \/ (i + 32) - 32 \in a /\ (i + 32) - 32 >= 8
        BY <2>8, <4>1
      <4> QED  BY <2>81, <2>82, <4>1, <4>2, SMT
    <3>3. \A i \in a : i \in 0..7 \/ i \in 8..11
      BY SMT
    <3> QED  BY <3>1, <3>2, <3>3
  <2>10. f.umask = Part(H, 7, 8)
    <3>1. ASSUME NEW i \in 0..7  PROVE i + 8 \in H <=> i \in f.umask
      <4>1. i \in Int /\ i + 8 \in Int /\ i >= 0 /\ i <= 7 /\ (i + 8) - 8 = i
        BY SMT
      <4>2. i + 8 \in H <=> \/ i + 8 \in a /\ i + 8 < 8
                            \/ (i + 8) - 8 \in f.umask
                            \/ i + 8 = 16 \/ i + 8 = 17 \/ i + 8 = 20 \/ i + 8 = 22
                            \/ (i + 8) - 32 \in a /\ (i + 8) - 32 >= 8
        BY <2>8, <4>1
      <4> QED  BY <2>81, <2>82, <4>1, <4>2, SMT
    <3> QED  BY <2>1, <3>1
  <2> QED  BY <2>9, <2>10 DEF H
<1> HIDE DEF Part, High
<1>2. b = c /\ d.umask = e.umask
  BY <1>1
<1> QED  BY <1>2 DEF AmdEvent

-----------------------------------------------------------------------------
(* The dictionary *)

\* The codes of an entry that the scripts look at fit the register, as all of
\* its codes do.
LEMMA CodesFit ==
  ASSUME vendor \in Vendors, NEW e \in Entries[vendor], NEW c \in Considered(e)
  PROVE  /\ vendor = "Intel" => c \in SUBSET (0..7)
         /\ vendor = "AMD" => c \in SUBSET (0..11)
<1>1. InRange(vendor, e)
  BY TableAssumption
<1>2. CASE vendor = "Intel"
  <2>1. e.codes \in Seq(SUBSET (0..7))
    BY <1>1, <1>2 DEF InRange
  <2>2. PICK i \in DOMAIN e.codes : c = e.codes[i]
    BY <1>2 DEF Considered, CodesOf
  <2> QED  BY <1>2, <2>1, <2>2
<1>3. CASE vendor = "AMD"
  <2>1. e.codes \in Seq(SUBSET (0..11))
    BY <1>1, <1>3 DEF InRange
  <2>2. c = CodeOf(e)
    BY <1>3 DEF Considered
  <2>3. CASE e.codes = <<>>
    BY <1>3, <2>2, <2>3 DEF CodeOf
  <2>4. CASE e.codes # <<>>
    <3>1. c = e.codes[1]
      BY <2>2, <2>4 DEF CodeOf
    <3>2. 1 \in DOMAIN e.codes
      BY <2>1, <2>4
    <3>3. e.codes[1] \in SUBSET (0..11)
      BY <2>1, <3>2
    <3> QED  BY <1>3, <3>1, <3>3
  <2> QED  BY <2>3, <2>4
<1> QED  BY <1>2, <1>3

\* For each vendor: the key of a row is the value that the library packs.
LEMMA KeysAgree ==
  ASSUME vendor \in Vendors, NEW e \in Entries[vendor], NEW c \in Considered(e)
  PROVE  Hexcode(Selection(e, c)) = Key(e, c)
<1>1. vendor \in {"Intel", "AMD", "ARM"} /\ InRange(vendor, e)
  BY TableAssumption
<1>2. CASE vendor = "Intel"
  <2>1. c \in SUBSET (0..7)
    BY <1>2, CodesFit
  <2> QED  BY <1>1, <1>2, <2>1, IntelCodesAgree DEF Hexcode, Selection, Key
<1>3. CASE vendor = "AMD"
  <2>1. c \in SUBSET (0..11)
    BY <1>3, CodesFit
  <2> QED  BY <1>1, <1>3, <2>1, AmdCodesAgree DEF Hexcode, Selection, Key
<1>4. CASE vendor = "ARM"
  BY <1>4 DEF Hexcode, Selection, Key
<1> QED  BY <1>1, <1>2, <1>3, <1>4

\* Likewise on every machine: two selections of one key are one selection.
LEMMA KeysDetermine ==
  ASSUME vendor \in Vendors,
         NEW d \in Entries[vendor], NEW b \in Considered(d),
         NEW e \in Entries[vendor], NEW c \in Considered(e),
         Key(d, b) = Key(e, c)
  PROVE  Selection(d, b) = Selection(e, c)
<1>1. /\ vendor \in {"Intel", "AMD", "ARM"}
      /\ InRange(vendor, d) /\ InRange(vendor, e)
  BY TableAssumption
<1>2. CASE vendor = "Intel"
  <2>1. b \in SUBSET (0..7) /\ c \in SUBSET (0..7)
    BY <1>2, CodesFit
  <2> QED  BY <1>1, <1>2, <2>1, IntelCodeDetermines DEF Selection, Key
<1>3. CASE vendor = "AMD"
  <2>1. b \in SUBSET (0..11) /\ c \in SUBSET (0..11)
    BY <1>3, CodesFit
  <2> QED  BY <1>1, <1>3, <2>1, AmdCodeDetermines DEF Selection, Key
<1>4. CASE vendor = "ARM"
  BY <1>4 DEF Selection, Key
<1> QED  BY <1>1, <1>2, <1>3, <1>4

\* Every row holds an event under a key of its own.
Rows ==
  /\ table \in [DOMAIN table -> Entries[vendor]]
  /\ \A k \in DOMAIN table : k \in Keys(table[k])

\* The events and the rows are entries of the files.
Sources ==
  /\ \A j \in DOMAIN events : \E l \in DOMAIN input : events[j] = input[l]
  /\ \A k \in DOMAIN table : \E l \in DOMAIN input : table[k] = input[l]

\* Every entry read so far has a counterpart, spelled alike and not later than
\* it, among the collected events; elsewhere than on AMD it is that event
\* itself.
Collected ==
  /\ stage = "collect" => vendor = "AMD"
  /\ vendor # "AMD" => events = input
  /\ vendor = "AMD" =>
       \A i \in DOMAIN input : (stage = "collect" => i < next) =>
         \E j \in DOMAIN events, l \in 1..i :
           events[j] = input[l] /\ Spelled(input[l]) = Spelled(input[i])
  /\ stage = "collect" =>
       /\ Len(events) < next
       /\ \A j \in DOMAIN events : \E l \in 1..(next - 1) :
            l \in DOMAIN input /\ events[j] = input[l]

\* Every event read so far has its keys in the dictionary.
Tabulated ==
  \A j \in DOMAIN events :
    stage = "done" \/ (stage = "tabulate" /\ j < next) => Keys(events[j]) \subseteq DOMAIN table

TableInv == TypeOK /\ Len(input) <= MaxLen /\ Len(events) <= MaxLen
              /\ Rows /\ Sources /\ Collected /\ Tabulated

\* The inductive invariant holds when the script starts.
LEMMA TableInit == Init => TableInv
<1> SUFFICES ASSUME Init PROVE TableInv
  OBVIOUS
<1>1. PICK n \in 0..MaxLen : input \in [1..n -> Entries[vendor]]
  BY DEF Init, Files
<1>2. input \in Seq(Entries[vendor]) /\ Len(input) = n /\ n \in Nat /\ n <= MaxLen
  BY <1>1, TableAssumption
<1>3. /\ events \in Seq(Entries[vendor]) /\ Len(events) <= MaxLen
      /\ vendor = "AMD" => Len(events) = 0
  <2>1. CASE vendor = "AMD"
    BY <2>1, TableAssumption DEF Init
  <2>2. CASE vendor # "AMD"
    BY <1>2, <2>2 DEF Init
  <2> QED  BY <2>1, <2>2
<1>4. TypeOK
  BY <1>2, <1>3, TableAssumption DEF TypeOK, Init
<1>5. Rows
  BY DEF Rows, Init
<1>6. Collected
  BY <1>2, <1>3 DEF Collected, Init
<1>8. Sources
  <2>1. CASE vendor = "AMD"
    BY <1>3, <2>1 DEF Sources, Init
  <2>2. CASE vendor # "AMD"
    BY <2>2 DEF Sources, Init
  <2> QED  BY <2>1, <2>2
<1>7. Tabulated
  BY <1>3 DEF Tabulated, Init
<1> QED  BY <1>2, <1>3, <1>4, <1>5, <1>6, <1>7, <1>8 DEF TableInv

\* Every step of the script preserves it.
LEMMA TableStep == TableInv /\ [Next]_vars => TableInv'
<1> SUFFICES ASSUME TableInv, [Next]_vars PROVE TableInv'
  OBVIOUS
<1> USE DEF TableInv
<1>1. /\ vendor \in Vendors /\ MaxLen \in Nat /\ next \in 1..(MaxLen + 1)
      /\ input \in Seq(Entries[vendor]) /\ events \in Seq(Entries[vendor])
      /\ Len(input) \in Nat /\ Len(events) \in Nat
      /\ DOMAIN input = 1..Len(input) /\ DOMAIN events = 1..Len(events)
  BY TableAssumption DEF TypeOK
<1>2. CASE Collect
  <2> DEFINE e == input[next]
             known == \E i \in DOMAIN events : Spelled(events[i]) = Spelled(e)
  <2>1. /\ stage = "collect" /\ next <= Len(input) /\ next' = next + 1
        /\ events' = IF known THEN events ELSE Append(events, e)
        /\ UNCHANGED <<vendor, input, stage, table>>
    BY <1>2 DEF Collect
  <2>2. next \in DOMAIN input /\ e \in Entries[vendor]
    BY <1>1, <2>1
  <2>3. /\ events' \in Seq(Entries[vendor])
        /\ Len(events') <= Len(events) + 1
        /\ \A j \in DOMAIN events : j \in DOMAIN events' /\ events'[j] = events[j]
        /\ \A j \in DOMAIN events' :
             events'[j] = e \/ (j \in DOMAIN events /\ events'[j] = events[j])
    <3>1. CASE known
      <4>1. events' = events
        BY <2>1, <3>1
      <4> QED  BY <1>1, <4>1
    <3>2. CASE ~known
      <4>1. events' = Append(events, e)
        BY <2>1, <3>2
      <4> HIDE DEF e, known
      <4> QED  BY <1>1, <2>2, <4>1
    <3> QED  BY <3>1, <3>2
  <2>30. \A j \in DOMAIN events : \E l \in 1..(next - 1) :
           l \in DOMAIN input /\ events[j] = input[l]
    BY <2>1 DEF Collected
  <2>4. \E j \in DOMAIN events', l \in 1..next :
          events'[j] = input[l] /\ Spelled(input[l]) = Spelled(input[next])
    <3>1. CASE known
      <4>1. PICK j \in DOMAIN events : Spelled(events[j]) = Spelled(e)
        BY <3>1
      <4>2. PICK l \in 1..(next - 1) : events[j] = input[l]
        BY <2>30
      <4>3. l \in 1..next
        BY <1>1
      <4>4. j \in DOMAIN events' /\ events'[j] = input[l]
        BY <2>3, <4>2
      <4>5. Spelled(input[l]) = Spelled(input[next])
        BY <4>1, <4>2
      <4> QED  BY <4>3, <4>4, <4>5
    <3>2. CASE ~known
      <4>1. Len(events) + 1 \in DOMAIN events' /\ events'[Len(events) + 1] = e
        BY <1>1, <2>1, <2>2, <3>2
      <4>2. next \in 1..next
        BY <1>1
      <4> QED  BY <4>1, <4>2
    <3> QED  BY <3>1, <3>2
  <2>40. \A j \in DOMAIN events' : \E l \in 1..next :
           l \in DOMAIN input /\ events'[j] = input[l]
    <3>1. next \in 1..next /\ 1..(next - 1) \subseteq 1..next
      BY <1>1
    <3> QED  BY <2>2, <2>3, <2>30, <3>1
  <2> HIDE DEF known
  <2>5. Len(events') <= MaxLen /\ Len(events') < next'
    BY <1>1, <2>1, <2>3 DEF Collected
  <2>6. TypeOK'
    BY <1>1, <2>1, <2>3 DEF TypeOK
  <2>7. Rows'
    BY <2>1 DEF Rows, Keys, Key, Skipped, Considered
  <2>8. Collected'
    <3>1. \A i \in DOMAIN input : i < next + 1 => i < next \/ i = next
      BY <1>1
    <3>2. \A i \in DOMAIN input : i < next =>
            \E j \in DOMAIN events', l \in 1..i :
              events'[j] = input[l] /\ Spelled(input[l]) = Spelled(input[i])
      <4>1. \A i \in DOMAIN input : i < next =>
              \E j \in DOMAIN events, l \in 1..i :
                events[j] = input[l] /\ Spelled(input[l]) = Spelled(input[i])
        BY <2>1 DEF Collected
      <4> QED  BY <2>3, <4>1
    <3>3. (next + 1) - 1 = next
      BY <1>1
    <3>4. \A i \in DOMAIN input : i < next' =>
            \E j \in DOMAIN events', l \in 1..i :
              events'[j] = input[l] /\ Spelled(input[l]) = Spelled(input[i])
      BY <2>1, <2>4, <3>1, <3>2
    <3>5. \A j \in DOMAIN events' : \E l \in 1..(next' - 1) :
            l \in DOMAIN input' /\ events'[j] = input'[l]
      BY <2>1, <2>40, <3>3
    <3>6. vendor' = "AMD" /\ Len(events') < next' /\ stage' = "collect" /\ input' = input
      BY <2>1, <2>5 DEF Collected
    <3>7. \A i \in DOMAIN input' : i < next' =>
            \E j \in DOMAIN events', l \in 1..i :
              events'[j] = input'[l] /\ Spelled(input'[l]) = Spelled(input'[i])
      BY <3>4, <3>6
    <3> QED  BY <3>5, <3>6, <3>7 DEF Collected
  <2>80. Sources'
    BY <2>1, <2>40 DEF Sources
  <2>9. Tabulated'
    BY <2>1 DEF Tabulated
  <2> QED  BY <2>1, <2>5, <2>6, <2>7, <2>8, <2>80, <2>9
<1>3. CASE DumpEvents
  <2>1. /\ stage = "collect" /\ next > Len(input) /\ stage' = "tabulate" /\ next' = 1
        /\ UNCHANGED <<vendor, input, events, table>>
    BY <1>3 DEF DumpEvents
  <2>2. TypeOK'
    BY <1>1, <2>1 DEF TypeOK
  <2>3. Rows'
    BY <2>1 DEF Rows, Keys, Key, Skipped, Considered
  <2>4. Collected'
    BY <1>1, <2>1 DEF Collected
  <2>5. Tabulated'
    BY <1>1, <2>1 DEF Tabulated
  <2>6. Sources'
    BY <2>1 DEF Sources
  <2> QED  BY <2>1, <2>2, <2>3, <2>4, <2>5, <2>6
<1>4. CASE Tabulate
  <2> DEFINE e == events[next]
  <2>1. /\ stage = "tabulate" /\ next <= Len(events) /\ next' = next + 1
        /\ table' = [k \in DOMAIN table \cup Keys(e) |->
                       IF k \in Keys(e) THEN e ELSE table[k]]
        /\ UNCHANGED <<vendor, input, stage, events>>
    BY <1>4 DEF Tabulate
  <2>2. next \in DOMAIN events /\ e \in Entries[vendor]
    BY <1>1, <2>1
  <2>3. \A f : Keys(f)' = Keys(f)
    BY <2>1 DEF Keys, Key, Skipped, Considered
  <2>4. Rows'
    BY <2>1, <2>2, <2>3 DEF Rows
  <2>5. TypeOK'
    BY <1>1, <2>1, <2>4 DEF TypeOK, Rows
  <2>6. Collected'
    BY <2>1 DEF Collected
  <2>7. Tabulated'
    <3>1. \A j \in DOMAIN events : j < next + 1 => j < next \/ j = next
      BY <1>1
    <3> QED  BY <2>1, <2>3, <3>1 DEF Tabulated
  <2>8. Sources'
    <3>1. \A k \in DOMAIN table' : table'[k] = e \/ (k \in DOMAIN table /\ table'[k] = table[k])
      BY <2>1
    <3>2. \E l \in DOMAIN input : e = input[l]
      BY <2>2 DEF Sources
    <3> QED  BY <2>1, <3>1, <3>2 DEF Sources
  <2> QED  BY <2>1, <2>4, <2>5, <2>6, <2>7, <2>8
<1>5. CASE ExportHeader
  <2>1. /\ stage = "tabulate" /\ next > Len(events) /\ stage' = "done"
        /\ UNCHANGED <<vendor, input, next, events, table>>
    BY <1>5 DEF ExportHeader
  <2>2. TypeOK'
    BY <1>1, <2>1 DEF TypeOK
  <2>3. \A f : Keys(f)' = Keys(f)
    BY <2>1 DEF Keys, Key, Skipped, Considered
  <2>4. Rows'
    BY <2>1, <2>3 DEF Rows
  <2>5. Collected'
    BY <2>1 DEF Collected
  <2>6. Tabulated'
    BY <1>1, <2>1, <2>3 DEF Tabulated
  <2>7. Sources'
    BY <2>1 DEF Sources
  <2> QED  BY <2>1, <2>2, <2>4, <2>5, <2>6, <2>7
<1>6. CASE UNCHANGED vars
  <2>1. \A f : Keys(f)' = Keys(f)
    BY <1>6 DEF Keys, Key, Skipped, Considered, vars
  <2> QED  BY <1>6, <2>1 DEF TypeOK, Rows, Sources, Collected, Tabulated, vars
<1> QED  BY <1>2, <1>3, <1>4, <1>5, <1>6 DEF Next

\* So it holds throughout a run of the script.
THEOREM TableInvariant == Spec => []TableInv
BY TableInit, TableStep, PTL DEF Spec

\* Type correctness of EventTable.
THEOREM TableTypes == Spec => []TypeOK
<1>1. TableInv => TypeOK
  BY DEF TableInv
<1> QED  BY <1>1, TableInvariant, PTL

\* Whatever the event file holds, each value in the generated header is the
\* one that the C library packs for the event it is the value of.
THEOREM RowsAgree == Spec => []RowsMatchLibrary
<1>1. TableInv => RowsMatchLibrary
  <2> SUFFICES ASSUME TableInv, NEW k \in DOMAIN table
               PROVE  \E s \in Selections(table[k]) : Hexcode(s) = k
    BY DEF RowsMatchLibrary
  <2>1. vendor \in Vendors /\ table[k] \in Entries[vendor] /\ k \in Keys(table[k])
    BY DEF TableInv, TypeOK, Rows
  <2>2. PICK c \in Considered(table[k]) : k = Key(table[k], c)
    BY <2>1 DEF Keys
  <2> QED  BY <2>1, <2>2, KeysAgree DEF Selections
<1> QED  BY <1>1, TableInvariant, PTL

\* Two AMD entries that are spelled alike, both with a unit mask or both
\* without one, have the same unit mask and the same code.
LEMMA SpelledAlike ==
  ASSUME NEW d, InRange("AMD", d), NEW e, InRange("AMD", e),
         Spelled(d) = Spelled(e), d.masked = e.masked
  PROVE  d.umask = e.umask /\ d.codes = e.codes
<1> DEFINE Mask(f) == <<f.spelling, f.umask>>
           Code(f) == <<f.spelling, f.codes[1]>>
<1>1. ASSUME NEW x, NEW y
      PROVE  Len(<<x>> \o <<y>>) = 2 /\ (<<x>> \o <<y>>)[1] = x /\ (<<x>> \o <<y>>)[2] = y
  <2>1. <<x>> \in Seq({x, y}) /\ <<y>> \in Seq({x, y}) /\ Len(<<x>>) = 1 /\ Len(<<y>>) = 1
    OBVIOUS
  <2> QED  BY <2>1
<1>2. \A x : <<x>> \o <<>> = <<x>> /\ <<>> \o <<x>> = <<x>> /\ Len(<<x>>) = 1 /\ <<x>>[1] = x
  OBVIOUS
<1>3. <<>> \o <<>> = <<>> /\ Len(<<>>) = 0
  OBVIOUS
<1>4. ASSUME NEW f, f.masked, f.codes = <<>>
      PROVE  Len(Spelled(f)) = 1 /\ Spelled(f)[1] = Mask(f)
  <2>1. Spelled(f) = <<Mask(f)>> \o <<>>
    BY <1>4 DEF Spelled
  <2> HIDE DEF Mask
  <2> QED  BY <1>2, <2>1
<1>5. ASSUME NEW f, f.masked, f.codes # <<>>
      PROVE  Len(Spelled(f)) = 2 /\ Spelled(f)[1] = Mask(f) /\ Spelled(f)[2] = Code(f)
  <2>1. Spelled(f) = <<Mask(f)>> \o <<Code(f)>>
    BY <1>5 DEF Spelled
  <2> HIDE DEF Mask, Code
  <2> QED  BY <1>1, <2>1
<1>6. ASSUME NEW f, ~f.masked, f.codes = <<>>
      PROVE  Len(Spelled(f)) = 0
  <2>1. Spelled(f) = <<>> \o <<>>
    BY <1>6 DEF Spelled
  <2> QED  BY <1>3, <2>1
<1>7. ASSUME NEW f, ~f.masked, f.codes # <<>>
      PROVE  Len(Spelled(f)) = 1 /\ Spelled(f)[1] = Code(f)
  <2>1. Spelled(f) = <<>> \o <<Code(f)>>
    BY <1>7 DEF Spelled
  <2> HIDE DEF Code
  <2> QED  BY <1>2, <2>1
<1>8. ASSUME d.codes # <<>>, e.codes # <<>>, d.codes[1] = e.codes[1]
      PROVE  d.codes = e.codes
  <2>1. ASSUME NEW f, InRange("AMD", f), f.codes # <<>>
        PROVE  f.codes \in Seq(SUBSET (0..11)) /\ Len(f.codes) = 1
    <3>1. f.codes \in Seq(SUBSET (0..11)) /\ Len(f.codes) <= 1
      BY <2>1 DEF InRange
    <3>2. Len(f.codes) # 0 /\ Len(f.codes) \in Nat
      BY <2>1, <3>1
    <3>3. \A n \in Nat : n <= 1 /\ n # 0 => n = 1
      BY SMT
    <3>4. Len(f.codes) = 1
      BY <3>1, <3>2, <3>3, Zenon
    <3> QED  BY <3>1, <3>4, Zenon
  <2> QED  BY <1>8, <2>1
<1>9. CASE d.masked
  <2>1. e.masked
    BY <1>9
  <2>2. CASE d.codes = <<>>
    <3>1. Len(Spelled(d)) = 1 /\ Spelled(d)[1] = Mask(d)
      BY <1>4, <1>9, <2>2
    <3>2. e.codes = <<>>
      <4>1. e.codes # <<>> => Len(Spelled(e)) = 2
        BY <1>5, <2>1
      <4> QED  BY <3>1, <4>1
    <3>3. Spelled(e)[1] = Mask(e)
      BY <1>4, <2>1, <3>2
    <3> QED  BY <2>2, <3>1, <3>2, <3>3
  <2>3. CASE d.codes # <<>>
    <3>1. Len(Spelled(d)) = 2 /\ Spelled(d)[1] = Mask(d) /\ Spelled(d)[2] = Code(d)
      BY <1>5, <1>9, <2>3
    <3>2. e.codes # <<>>
      <4>1. e.codes = <<>> => Len(Spelled(e)) = 1
        BY <1>4, <2>1
      <4> QED  BY <3>1, <4>1
    <3>3. Spelled(e)[1] = Mask(e) /\ Spelled(e)[2] = Code(e)
      BY <1>5, <2>1, <3>2
    <3>4. Mask(d) = Mask(e) /\ Code(d) = Code(e)
      BY <3>1, <3>3
    <3> QED  BY <1>8, <2>3, <3>2, <3>4
  <2> QED  BY <2>2, <2>3
<1>10. CASE ~d.masked
  <2>1. ~e.masked
    BY <1>10
  <2>2. d.umask = {} /\ e.umask = {}
    BY <1>10, <2>1, Zenon DEF InRange
  <2>3. CASE d.codes = <<>>
    <3>1. Len(Spelled(d)) = 0
      BY <1>6, <1>10, <2>3
    <3>2. e.codes # <<>> => Len(Spelled(e)) = 1
      BY <1>7, <2>1
    <3>3. e.codes = <<>>
      BY <3>1, <3>2
    <3> QED  BY <2>2, <2>3, <3>3
  <2>4. CASE d.codes # <<>>
    <3>1. Len(Spelled(d)) = 1 /\ Spelled(d)[1] = Code(d)
      BY <1>7, <1>10, <2>4
    <3>2. e.codes = <<>> => Len(Spelled(e)) = 0
      BY <1>6, <2>1
    <3>3. e.codes # <<>>
      BY <3>1, <3>2
    <3>4. Code(d) = Code(e)
      BY <1>7, <2>1, <3>1, <3>3
    <3> QED  BY <1>8, <2>2, <2>4, <3>3, <3>4
  <2> QED  BY <2>3, <2>4
<1> QED  BY <1>9, <1>10

\* Whatever the event files hold, an event that the header does not list has
\* a second event of its code in the files, or was taken for an earlier one.
THEOREM LossesExplained == Spec => []LossesAreExplained
<1>1. TableInv => LossesAreExplained
  <2> SUFFICES ASSUME TableInv, stage = "done", NEW i \in DOMAIN input,
                      ~Skipped(input[i]), NEW s \in Selections(input[i]), ~Mistaken(i)
               PROVE  Listed(input[i], s) \/ Ambiguous(input[i], s)
    BY DEF LossesAreExplained
  <2>1. /\ vendor \in Vendors /\ events \in Seq(Entries[vendor])
        /\ input \in Seq(Entries[vendor]) /\ vendor \in {"Intel", "AMD", "ARM"}
    BY TableAssumption DEF TableInv, TypeOK
  <2>2. PICK j \in DOMAIN events :
          ~Skipped(events[j]) /\ s \in Selections(events[j])
    <3>1. CASE vendor = "AMD"
      <4>1. PICK j \in DOMAIN events, l \in 1..i :
              events[j] = input[l] /\ Spelled(input[l]) = Spelled(input[i])
        BY <3>1 DEF TableInv, Collected
      <4>2. l \in DOMAIN input /\ (l = i \/ l \in 1..(i - 1))
        BY <2>1
      <4>3. input[l].masked = input[i].masked
        BY <3>1, <4>1, <4>2 DEF Mistaken
      <4>4. InRange("AMD", input[l]) /\ InRange("AMD", input[i])
        BY <2>1, <3>1, <4>2, TableAssumption
      <4>5. events[j].umask = input[i].umask /\ events[j].codes = input[i].codes
        BY <4>1, <4>3, <4>4, SpelledAlike
      <4>6. Considered(events[j]) = Considered(input[i])
        BY <4>5 DEF Considered, CodesOf, CodeOf
      <4>7. \A c : Selection(events[j], c) = Selection(input[i], c)
        BY <3>1, <4>5 DEF Selection, AmdEvent
      <4> QED  BY <3>1, <4>6, <4>7 DEF Selections, Skipped
    <3>2. CASE vendor # "AMD"
      BY <3>2 DEF TableInv, Collected
    <3> QED  BY <3>1, <3>2
  <2>3. events[j] \in Entries[vendor]
    BY <2>1
  <2>4. PICK c \in Considered(events[j]) : s = Selection(events[j], c)
    BY <2>2 DEF Selections
  <2> DEFINE k == Key(events[j], c)
  <2>5. k \in DOMAIN table
    BY <2>2, <2>4 DEF TableInv, Tabulated, Keys
  <2>6. PICK b \in Considered(table[k]) : k = Key(table[k], b)
    BY <2>5 DEF TableInv, Rows, Keys
  <2>7. Selection(table[k], b) = s
    BY <2>1, <2>3, <2>4, <2>5, <2>6, KeysDetermine DEF TableInv, Rows
  <2>8. s \in Selections(table[k])
    BY <2>6, <2>7 DEF Selections
  <2>9. PICK l \in DOMAIN input : table[k] = input[l]
    BY <2>5 DEF TableInv, Sources
  <2> QED  BY <2>5, <2>8, <2>9 DEF Listed, Ambiguous
<1> QED  BY <1>1, TableInvariant, PTL

=============================================================================
