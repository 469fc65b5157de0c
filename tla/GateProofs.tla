---------------------------- MODULE GateProofs ----------------------------
(***************************************************************************)
(* The checkers of two gates: FormalHarness (Gate 2) for any clauses,      *)
(* reset ports and sequences of samples, and CdcChecker (Gate 6) for any   *)
(* statements, ports and names and designs of any size.                    *)
(***************************************************************************)
EXTENDS FormalHarness, CdcChecker, FiniteSetTheorems, WellFoundedInduction,
        SequenceTheorems, TLAPS

-----------------------------------------------------------------------------
(***************************************************************************)
(* The generated checker.                                                  *)
(***************************************************************************)
Contract == [clauses : SUBSET Clauses, port : ResetPorts \cup {NoReset},
             clocked : BOOLEAN, sync : BOOLEAN, origin : {"record", "legacy"}]

\* The checker, once there is one, is that of the present contract.
HarnessInv ==
    /\ contract \in Contract
    /\ harness = NotBuilt \/ harness = Build(contract)
    /\ sample \in Sample /\ before \in Sample
    /\ first \in BOOLEAN

LEMMA HarnessInvariant == HarnessSpec => []HarnessInv
<1>1. HarnessInit => HarnessInv
  BY DEF HarnessInit, HarnessInv, Contract, Sample, Rest
<1>2. HarnessInv /\ [HarnessNext]_harnessVars => HarnessInv'
  <2> SUFFICES ASSUME HarnessInv, [HarnessNext]_harnessVars PROVE HarnessInv'
    OBVIOUS
  <2> USE DEF HarnessInv
  <2>1. ASSUME NEW c \in Clauses, Declare(c) PROVE HarnessInv'
    <3>1. contract' \in Contract
      BY <2>1 DEF Declare, Contract
    <3> QED
      BY <2>1, <3>1 DEF Declare
  <2>2. ASSUME NEW port \in ResetPorts \cup {NoReset}, NEW clocked \in BOOLEAN,
               NEW sync \in BOOLEAN, NEW origin \in {"record", "legacy"},
               BuildHarness(port, clocked, sync, origin)
        PROVE HarnessInv'
    <3>1. contract' \in Contract
      BY <2>2 DEF BuildHarness, Contract
    <3>2. sample' \in Sample /\ before' \in Sample
      BY <2>2 DEF BuildHarness, Rest, Sample
    <3> QED
      BY <2>2, <3>1, <3>2 DEF BuildHarness
  <2>3. ASSUME NEW s \in Sample, ClockEdge(s) PROVE HarnessInv'
    BY <2>3 DEF ClockEdge
  <2>4. CASE UNCHANGED harnessVars
    BY <2>4 DEF harnessVars
  <2> QED
    BY <2>1, <2>2, <2>3, <2>4 DEF HarnessNext
<1> QED
  BY <1>1, <1>2, PTL DEF HarnessSpec

-----------------------------------------------------------------------------
\* A sample is one of a few, and a value is a number.
LEMMA SampleFields ==
    ASSUME NEW s \in Sample
    PROVE s.rst \in 0..1 /\ s.a \in 0..1 /\ s.b \in 0..2
  BY DEF Sample

\* Which clauses the checker has: a property of it was declared, is none that
\* the text decides, and has a template.
LEMMA CheckedClause ==
    ASSUME HarnessInv, NEW c \in harness.checked
    PROVE  /\ c \in Clauses /\ c \in contract.clauses
           /\ ~TextTautology(c) /\ c.form # "delayed"
           /\ ~contract.clocked => ~LooksBack(c)
           /\ contract.port = NoReset => ~DisableIff(c)
<1>1. harness = Build(contract) /\ harness.status = "built"
  BY DEF HarnessInv, Build, NotBuilt
<1>2. /\ ~Inconsistent(contract)
      /\ \A e \in contract.clauses : ~Unclocked(e, contract)
      /\ c \in contract.clauses /\ ~TextTautology(c) /\ ~Unsupported(c)
  BY <1>1 DEF Build
<1>3. c \in Clauses
  BY <1>2 DEF HarnessInv, Contract
<1>4. ~contract.clocked => ~LooksBack(c)
  BY <1>2 DEF Inconsistent, Unclocked
<1>5. contract.port = NoReset => ~DisableIff(c)
  BY <1>2 DEF Inconsistent
<1> QED
  BY <1>2, <1>3, <1>4, <1>5 DEF Unsupported

\* A lone literal of the reset, with the sign of the descriptor, says that the
\* reset is active.
LEMMA ResetLiteral ==
    ASSUME NEW low \in BOOLEAN, NEW s \in Sample
    PROVE  Holds(<<[sig |-> "rst", neg |-> low]>>, s) <=> ResetActive(Low(low), s)
<1> DEFINE l == [sig |-> "rst", neg |-> low]
<1>1. Number(l, s) = IF low THEN Bit(s.rst = 0) ELSE s.rst
  BY DEF Number
<1>2. Number(l, s) # 0 <=> s.rst = Bit(~low)
  BY <1>1, SampleFields DEF Bit
<1>3. Holds(<<l>>, s) <=> Number(l, s) # 0
  <2> HIDE DEF l
  <2> QED BY DEF Holds
<1> QED
  BY <1>2, <1>3 DEF ResetActive, Low

-----------------------------------------------------------------------------
(***************************************************************************)
(* What is dropped.                                                        *)
(***************************************************************************)

LEMMA BitValue ==
    ASSUME NEW holds \in BOOLEAN
    PROVE  Bit(holds) # 0 <=> holds
  BY DEF Bit

LEMMA LiteralList ==
    ASSUME NEW ls \in Seq(Literal)
    PROVE  /\ Len(ls) \in Nat /\ DOMAIN ls = 1..Len(ls)
           /\ \A i \in DOMAIN ls : ls[i] \in Literal
           /\ ls # <<>> => Len(ls) > 0
  OBVIOUS

LEMMA SingleHolds ==
    ASSUME NEW l, NEW s
    PROVE  Holds(<<l>>, s) <=> Number(l, s) # 0
  BY DEF Holds

LEMMA EmptyHolds == ASSUME NEW s PROVE Holds(<<>>, s)
  BY DEF Holds

\* The row of the table that a sample stands for.
Row(s) == [sig \in Signals |-> Number([sig |-> sig, neg |-> FALSE], s) # 0]

\* In it the literals of the parsed expression have the values they have in
\* SystemVerilog, but for a comparison.
LEMMA RowAgrees ==
    ASSUME NEW s \in Sample, NEW ls \in Seq(Literal),
           \A i \in DOMAIN ls : ls[i].sig # "b == a"
    PROVE  AtomsHold(ls, Row(s)) <=> Holds(ls, s)
<1>1. ASSUME NEW i \in DOMAIN ls
      PROVE  Row(s)[ls[i].sig] # ls[i].neg <=> Number(ls[i], s) # 0
  <2> DEFINE l == ls[i]
  <2>1. l \in Literal
    BY <1>1, LiteralList
  <2>2. l.sig \in Signals /\ l.neg \in BOOLEAN /\ l.sig # "b == a"
    BY <2>1, <1>1 DEF Literal
  <2>3. Row(s)[l.sig] = (s[l.sig] # 0)
    BY <2>2 DEF Row, Number
  <2>4. l.neg => (Number(l, s) # 0 <=> s[l.sig] = 0)
    <3>1. l.neg => Number(l, s) = Bit(s[l.sig] = 0)
      BY <2>2 DEF Number
    <3> QED
      BY <3>1, BitValue
  <2>5. ~l.neg => Number(l, s) = s[l.sig]
    BY <2>2 DEF Number
  <2> QED
    BY <2>2, <2>3, <2>4, <2>5
<1> QED
  BY <1>1 DEF AtomsHold, Holds

LEMMA TableIsRight ==
    ASSUME NEW c \in Clauses, TableTautology(c), "b == a" \notin Mentioned(c)
    PROVE  Irrefutable(c)
<1> SUFFICES ASSUME NEW s \in Sample, NEW prior \in Sample
             PROVE  SourceHolds(c, s, prior)
  BY DEF Irrefutable
<1>1. c.left \in Seq(Literal) /\ c.right \in Seq(Literal)
  BY HarnessAssumption
<1>2. Row(s) \in [Signals -> BOOLEAN]
  BY DEF Row
<1>3. TableHolds(c, Row(s))
  BY <1>2 DEF TableTautology
<1>4. AtomsHold(c.left, Row(s)) <=> Holds(c.left, s)
  BY <1>1, RowAgrees DEF Mentioned
<1>5. AtomsHold(c.right, Row(s)) <=> Holds(c.right, s)
  BY <1>1, RowAgrees DEF Mentioned
<1>6. CASE c.form = "or"
  <2>1. AtomsHold(c.left, Row(s)) \/ AtomsHold(c.right, Row(s))
    BY <1>3, <1>6 DEF TableHolds
  <2> QED
    BY <2>1, <1>4, <1>5, <1>6 DEF SourceHolds, Expression
<1>7. CASE c.form = "same"
  <2>1. AtomsHold(c.left, Row(s)) => AtomsHold(c.right, Row(s))
    BY <1>3, <1>7 DEF TableHolds
  <2> QED
    BY <2>1, <1>4, <1>5, <1>7 DEF SourceHolds
<1> QED
  BY <1>3, <1>6, <1>7 DEF TableHolds

\* Of two literals on the same signal with opposite signs one holds.
LEMMA OppositeLiterals ==
    ASSUME NEW s \in Sample, NEW l \in Literal, NEW r \in Literal,
           l.neg, ~r.neg, r.sig = l.sig, l.sig # "b == a"
    PROVE  Holds(<<l>>, s) \/ Holds(<<r>>, s)
<1>1. Number(l, s) = Bit(s[l.sig] = 0) /\ Number(r, s) = s[l.sig]
  BY DEF Number
<1>2. Number(l, s) # 0 \/ Number(r, s) # 0
  BY <1>1, BitValue
<1>3. /\ Holds(<<l>>, s) <=> Number(l, s) # 0
      /\ Holds(<<r>>, s) <=> Number(r, s) # 0
  BY SingleHolds
<1> QED
  BY <1>2, <1>3

LEMMA ShortSequence ==
    ASSUME NEW ls \in Seq(Literal), ls # <<>>, ~(Len(ls) > 1)
    PROVE  /\ 1 \in DOMAIN ls
           /\ Head(ls) \in Literal /\ Head(ls) = ls[1]
           /\ ls = <<Head(ls)>>
           /\ Tail(ls) = <<>> /\ Front(ls) = <<>>
<1>1. Len(ls) = 1
  BY EmptySeq
<1>2. Head(ls) \in Literal /\ Head(ls) = ls[1] /\ Tail(ls) \in Seq(Literal) /\ Len(Tail(ls)) = 0
  BY <1>1, HeadTailProperties
<1>3. Tail(ls) = <<>>
  BY <1>2, EmptySeq
<1>4. ls = <<Head(ls)>>
  BY <1>1, <1>2
<1>5. Front(ls) = <<>>
  BY <1>1, SubSeqEmpty DEF Front
<1>6. 1 \in DOMAIN ls
  BY <1>1, LiteralList
<1> QED
  BY <1>2, <1>3, <1>4, <1>5, <1>6

LEMMA EmptyTail ==
    ASSUME NEW ls \in Seq(Literal), ls # <<>>, Tail(ls) = <<>>
    PROVE  ~(Len(ls) > 1)
<1>1. Len(Tail(ls)) = Len(ls) - 1 /\ Len(ls) \in Nat
  BY HeadTailProperties, LenProperties
<1>2. Len(Tail(ls)) = 0
  BY EmptySeq
<1>3. \A n \in Nat : n - 1 = 0 => ~(n > 1)
  OBVIOUS
<1> QED
  BY <1>1, <1>2, <1>3

\* A disjunction of a short list and its negation.
LEMMA NegationHolds ==
    ASSUME NEW s \in Sample, NEW ls \in Seq(Literal), NEW rs \in Seq(Literal),
           Negation(ls, rs), ~(Len(ls) > 1) \/ ~(Len(rs) > 1),
           \A i \in DOMAIN ls : ls[i].sig # "b == a"
    PROVE  Holds(ls, s) \/ Holds(rs, s)
<1>1. ~(Len(ls) > 1) /\ ~(Len(rs) > 1)
  BY ShortSequence, EmptyTail DEF Negation
<1>2. /\ ls = <<Head(ls)>> /\ Head(ls) \in Literal
      /\ rs = <<Head(rs)>> /\ Head(rs) \in Literal
  BY <1>1, ShortSequence DEF Negation
<1>3. Head(ls).sig # "b == a"
  BY <1>1, ShortSequence DEF Negation
<1>4. Head(ls).neg /\ Head(rs).sig = Head(ls).sig /\ ~Head(rs).neg
  <2>1. Head(ls).neg /\ [Head(ls) EXCEPT !.neg = FALSE] = Head(rs)
    BY DEF Negation
  <2> QED
    BY <1>2, <2>1 DEF Literal
<1> QED
  BY <1>2, <1>3, <1>4, OppositeLiterals

LEMMA StructureIsRight ==
    ASSUME NEW c \in Clauses, Structural(c), ~(Len(c.left) > 1),
           "b == a" \notin Mentioned(c)
    PROVE  Irrefutable(c)
<1> SUFFICES ASSUME NEW s \in Sample, NEW prior \in Sample
             PROVE  SourceHolds(c, s, prior)
  BY DEF Irrefutable
<1>1. c.left \in Seq(Literal) /\ c.right \in Seq(Literal)
      /\ (c.form = "eq" => c.left # <<>>)
  BY HarnessAssumption
<1>2. CASE c.form = "eq" /\ c.left = c.right
  <2>1. /\ Front(c.left) = <<>> /\ Tail(c.right) = <<>>
        /\ Final(c.left) = Head(c.right)
    BY <1>1, <1>2, ShortSequence DEF Final
  <2>2. Expression(c, s)
    BY <1>2, <2>1, EmptyHolds DEF Expression
  <2> QED
    BY <1>2, <2>2 DEF SourceHolds
<1>3. CASE c.form = "same" /\ c.left = c.right
  BY <1>3 DEF SourceHolds
<1>4. CASE c.form = "or" /\ (Negation(c.left, c.right) \/ Negation(c.right, c.left))
  <2>1. /\ \A i \in DOMAIN c.left : c.left[i].sig # "b == a"
        /\ \A i \in DOMAIN c.right : c.right[i].sig # "b == a"
    BY DEF Mentioned
  <2>2. Holds(c.left, s) \/ Holds(c.right, s)
    BY <1>1, <1>4, <2>1, NegationHolds
  <2> QED
    BY <1>4, <2>2 DEF SourceHolds, Expression
<1> QED
  BY <1>2, <1>3, <1>4 DEF Structural

\* Nothing that a contract declares is lost on the way to the checker
\* (compile_contract_properties).
THEOREM NothingGenuineIsDropped == HarnessSpec => []NothingGenuineDropped
<1>1. HarnessInv => NothingGenuineDropped
  <2> SUFFICES ASSUME HarnessInv, harness.status = "built",
                      NEW c \in contract.clauses \ harness.checked,
                      ~(Len(c.left) > 1), "b == a" \notin Mentioned(c)
               PROVE  Irrefutable(c)
    BY DEF NothingGenuineDropped
  <2>1. harness = Build(contract) /\ c \in Clauses
    <3>1. NotBuilt.status = "none"
      BY DEF NotBuilt
    <3>2. harness = Build(contract) /\ contract \in Contract
      BY <3>1 DEF HarnessInv
    <3> QED
      BY <3>2 DEF Contract
  <2>2. TextTautology(c)
    BY <2>1 DEF Build
  <2> QED
    BY <2>1, <2>2, TableIsRight, StructureIsRight DEF TextTautology
<1> QED
  BY <1>1, HarnessInvariant, PTL

-----------------------------------------------------------------------------
(***************************************************************************)
(* What is checked.                                                        *)
(***************************************************************************)

\* The assertion is the body of the property under the guard, which for a
\* property moved back looks at the antecedent one edge earlier.
Body(c, k, s, prior) ==
    IF MovedBack(c, k) THEN Holds(c.left, prior) => Holds(c.right, s)
    ELSE SourceHolds(c, s, prior)

LEMMA AssertionIsGuardedBody ==
    ASSUME NEW c \in Clauses, c.form # "delayed", NEW k, NEW s, NEW prior, NEW init
    PROVE  CheckHolds(c, k, s, prior, init)
               <=> (RenderGuard(c, k, s, prior, init) => Body(c, k, s, prior))
<1> DEFINE g == RenderGuard(c, k, s, prior, init)
<1> HIDE DEF g
<1>1. c.form \in {"or", "eq", "same", "next", "past", "stable"}
  BY HarnessAssumption
<1>2. CASE MovedBack(c, k)
  <2>1. CheckHolds(c, k, s, prior, init) <=> (g /\ Holds(c.left, prior) => Holds(c.right, s))
    BY <1>2 DEF CheckHolds, MovedBack, g
  <2> QED
    BY <2>1, <1>2 DEF Body, g
<1>3. CASE c.form = "same" /\ ~MovedBack(c, k)
  <2>1. CheckHolds(c, k, s, prior, init) <=> (g /\ Holds(c.left, s) => Holds(c.right, s))
    BY <1>3 DEF CheckHolds, g
  <2>2. SourceHolds(c, s, prior) <=> (Holds(c.left, s) => Holds(c.right, s))
    BY <1>3 DEF SourceHolds
  <2> QED
    BY <2>1, <2>2, <1>3 DEF Body, g
<1>4. CASE c.form = "next"
  <2>1. CheckHolds(c, k, s, prior, init) <=> (g /\ Holds(c.left, prior) => Holds(c.right, s))
    BY <1>4 DEF CheckHolds, MovedBack, g
  <2>2. SourceHolds(c, s, prior) <=> (Holds(c.left, prior) => Holds(c.right, s))
    BY <1>4 DEF SourceHolds
  <2> QED
    BY <2>1, <2>2, <1>4 DEF Body, MovedBack, g
<1>5. CASE c.form = "past"
  <2>1. CheckHolds(c, k, s, prior, init) <=> (g => (Holds(c.left, s) => Holds(c.right, prior)))
    BY <1>5 DEF CheckHolds, MovedBack, g
  <2>2. SourceHolds(c, s, prior) <=> (Holds(c.left, s) => Holds(c.right, prior))
    BY <1>5 DEF SourceHolds
  <2> QED
    BY <2>1, <2>2, <1>5 DEF Body, MovedBack, g
<1>6. CASE c.form = "stable"
  <2>1. CheckHolds(c, k, s, prior, init) <=> (g => s.b = prior.b)
    BY <1>6 DEF CheckHolds, MovedBack, g
  <2>2. SourceHolds(c, s, prior) <=> s.b = prior.b
    BY <1>6 DEF SourceHolds
  <2> QED
    BY <2>1, <2>2, <1>6 DEF Body, MovedBack, g
<1>7. CASE c.form \in {"or", "eq"}
  <2>1. CheckHolds(c, k, s, prior, init) <=> (g => Expression(c, s))
    BY <1>7 DEF CheckHolds, MovedBack, g
  <2>2. SourceHolds(c, s, prior) <=> Expression(c, s)
    BY <1>7 DEF SourceHolds
  <2> QED
    BY <2>1, <2>2, <1>7 DEF Body, MovedBack, g
<1> QED
  BY <1>1, <1>2, <1>3, <1>4, <1>5, <1>6, <1>7
\* What is known of a property's reset.
LEMMA DescriptorFacts ==
    ASSUME NEW k \in Contract, NEW c
    PROVE  /\ Descriptor(c, k) # NoReset =>
                 Descriptor(c, k) = Low(Descriptor(c, k).low) /\ Descriptor(c, k).low \in BOOLEAN
           /\ k.port = NoReset => Descriptor(c, k) = NoReset
           /\ DisableIff(c) /\ k.port # NoReset =>
                 Descriptor(c, k) = Low(k.port.low) /\ Descriptor(c, k) # NoReset
<1>1. k.port # NoReset => k.port.low \in BOOLEAN /\ k.port.says \in BOOLEAN
  BY HarnessAssumption DEF Contract
<1>2. \A b \in BOOLEAN : Low(b) # NoReset /\ Low(b).low = b
  <2>1. NoReset \notin [low : BOOLEAN]
    BY HarnessAssumption
  <2>2. \A b \in BOOLEAN : Low(b) \in [low : BOOLEAN] /\ Low(b).low = b
    BY DEF Low
  <2> QED
    BY <2>1, <2>2
<1>3. k.port # NoReset =>
         DefaultReset(k) = NoReset \/ \E b \in BOOLEAN : DefaultReset(k) = Low(b)
  <2> SUFFICES ASSUME k.port # NoReset, k.clocked
               PROVE  DefaultReset(k) = NoReset \/ \E b \in BOOLEAN : DefaultReset(k) = Low(b)
    BY DEF DefaultReset
  <2> DEFINE named == k.port.name = "ends in _n" \/ k.port.says
             other == k.port.name # "other"
  <2>1. named \in BOOLEAN /\ other \in BOOLEAN
    OBVIOUS
  <2>2. DefaultReset(k) \in {Low(named), NoReset, Low(other)}
    BY DEF DefaultReset, RecordReset, HarnessReset
  <2> HIDE DEF named, other
  <2> QED
    BY <2>1, <2>2
<1>4. k.port = NoReset => DefaultReset(k) = NoReset
  BY DEF DefaultReset
<1>5. Descriptor(c, k) = IF c.disable = "reset" /\ k.port # NoReset
                         THEN Low(k.port.low) ELSE DefaultReset(k)
  BY DEF Descriptor
<1> HIDE DEF Low
<1> QED
  BY <1>1, <1>2, <1>3, <1>4, <1>5 DEF DisableIff

\* A property whose antecedent is the reset speaks of the active reset.
LEMMA ResetAntecedent ==
    ASSUME NEW k \in Contract, NEW c, ResetAsserted(c, k), NEW s \in Sample
    PROVE  Holds(c.left, s) <=> ResetActive(Descriptor(c, k), s)
<1>1. /\ Descriptor(c, k) # NoReset
      /\ c.left = <<[sig |-> "rst", neg |-> Descriptor(c, k).low]>>
  BY DEF ResetAsserted
<1>2. Descriptor(c, k) = Low(Descriptor(c, k).low) /\ Descriptor(c, k).low \in BOOLEAN
  BY <1>1, DescriptorFacts
<1> QED
  BY <1>1, <1>2, ResetLiteral

\* The checker reports nothing that the property would not (_render_guard,
\* compile_formal_property).
THEOREM FailuresAreGenuine == HarnessSpec => []FailureIsGenuine
<1>1. HarnessInv => FailureIsGenuine
  <2> DEFINE k == contract
  <2> SUFFICES ASSUME HarnessInv, NEW c \in harness.checked,
                      ~CheckHolds(c, k, sample, before, first), ~MovedBack(c, k),
                      c.disable # "compound", DisableIff(c) => k.clocked /\ ~ResetAsserted(c, k)
               PROVE  SourceFails(c, k)
    BY DEF FailureIsGenuine
  <2>1. /\ c \in Clauses /\ c.form # "delayed" /\ k \in Contract
        /\ LooksBack(c) => k.clocked
        /\ DisableIff(c) => k.port # NoReset
    BY CheckedClause DEF HarnessInv
  <2>2. RenderGuard(c, k, sample, before, first) /\ ~SourceHolds(c, sample, before)
    BY <2>1, AssertionIsGuardedBody DEF Body
  <2>3. LooksBack(c) => ~first
    BY <2>1, <2>2 DEF RenderGuard, Guard
  <2>4. ASSUME DisableIff(c)
        PROVE  /\ ~ResetActive(Low(k.port.low), sample)
               /\ LooksBack(c) => ~ResetActive(Low(k.port.low), before)
    <3>1. Descriptor(c, k) = Low(k.port.low) /\ Descriptor(c, k) # NoReset
      BY <2>1, <2>4, DescriptorFacts
    <3> QED
      BY <2>1, <2>2, <2>4, <3>1 DEF RenderGuard, Guard
  <2>5. c.disable = "none" \/ DisableIff(c)
    BY <2>1, HarnessAssumption DEF DisableIff
  <2>6. ~Disabled(c, k, sample) /\ (c.form = "next" => ~Disabled(c, k, before))
    BY <2>4, <2>5 DEF Disabled, LooksBack, DisableIff
  <2> QED
    BY <2>2, <2>3, <2>6 DEF SourceFails
<1> QED
  BY <1>1, HarnessInvariant, PTL

\* In operation a failure of the property is found.
THEOREM OperationsAreChecked == HarnessSpec => []OperationIsChecked
<1>1. HarnessInv => OperationIsChecked
  <2> DEFINE k == contract
  <2> SUFFICES ASSUME HarnessInv, NEW c \in harness.checked,
                      SourceFails(c, k), ~first, RightPolarity(c, k),
                      k.port # NoReset => \A s \in {sample, before} :
                                             ~ResetActive(Low(k.port.low), s)
               PROVE  ~CheckHolds(c, k, sample, before, first)
    BY DEF OperationIsChecked
  <2>1. /\ c \in Clauses /\ c.form # "delayed" /\ k \in Contract
        /\ sample \in Sample /\ before \in Sample
    BY CheckedClause DEF HarnessInv
  <2>2. Descriptor(c, k) # NoReset =>
           /\ ~ResetActive(Descriptor(c, k), sample)
           /\ ~ResetActive(Descriptor(c, k), before)
    <3> SUFFICES ASSUME Descriptor(c, k) # NoReset
                 PROVE  \A s \in {sample, before} : ~ResetActive(Descriptor(c, k), s)
      OBVIOUS
    <3>1. k.port # NoReset /\ Descriptor(c, k) = Low(k.port.low)
      BY <2>1, DescriptorFacts DEF RightPolarity
    <3> QED
      BY <3>1
  <2>3. RenderGuard(c, k, sample, before, first)
    BY <2>2 DEF RenderGuard, Guard
  <2>4. ~MovedBack(c, k)
    <3> SUFFICES ASSUME MovedBack(c, k) PROVE FALSE
      OBVIOUS
    <3>1. ResetAsserted(c, k) /\ c.form = "same" /\ Descriptor(c, k) # NoReset
      BY DEF MovedBack, ResetAsserted
    <3>2. ~Holds(c.left, sample)
      BY <2>1, <2>2, <3>1, ResetAntecedent
    <3>3. SourceHolds(c, sample, before)
      BY <3>1, <3>2 DEF SourceHolds
    <3> QED
      BY <3>3 DEF SourceFails
  <2> QED
    BY <2>1, <2>3, <2>4, AssertionIsGuardedBody DEF Body, SourceFails
<1> QED
  BY <1>1, HarnessInvariant, PTL

\* The cover point is reached exactly when the assertion is tried
\* (compile_cover_point).
THEOREM CoversAreTrials == HarnessSpec => []CoverIsTrial
<1>1. HarnessInv => CoverIsTrial
  <2> SUFFICES ASSUME HarnessInv, NEW c \in harness.checked, HasCover(c)
               PROVE  CheckHolds(c, contract, sample, before, first)
                        <=> (CoverFires(c, contract, sample, before, first)
                                => Holds(c.right, sample))
    BY DEF CoverIsTrial, CheckHolds, Holds
  <2>1. c \in Clauses /\ c.form # "delayed"
    BY CheckedClause
  <2>2. Body(c, contract, sample, before)
          <=> (Holds(c.left, IF c.form = "next" \/ MovedBack(c, contract) THEN before ELSE sample)
                 => Holds(c.right, sample))
    <3>1. CASE MovedBack(c, contract)
      BY <3>1 DEF Body
    <3>2. CASE c.form = "next" /\ ~MovedBack(c, contract)
      BY <3>2 DEF Body, SourceHolds
    <3>3. CASE c.form = "same" /\ ~MovedBack(c, contract)
      BY <3>3 DEF Body, SourceHolds
    <3> QED
      BY <3>1, <3>2, <3>3 DEF HasCover
  <2> QED
    BY <2>1, <2>2, AssertionIsGuardedBody DEF CoverFires
<1> QED
  BY <1>1, HarnessInvariant, PTL

-----------------------------------------------------------------------------
(***************************************************************************)
(* The clock-domain-crossing checker.                                      *)
(***************************************************************************)

(***************************************************************************)
(* Closures: the bounded iteration finds all there is to find.             *)
(***************************************************************************)

\* A set of numbers has a least one.
LEMMA Least ==
    ASSUME NEW T \in SUBSET Nat, T # {}
    PROVE  \E x \in T : \A y \in T : x <= y
<1>1. PICK x \in T : \A y \in T : ~(<<y, x>> \in OpToRel(<, Nat))
  BY WFMin, NatLessThanWellFounded
<1>2. \A y \in T : ~(y < x)
  BY <1>1 DEF OpToRel
<1> QED
  BY <1>2

\* What one more round adds.
Next1(wires, reads, seen) ==
    seen \cup UNION {reads[w] : w \in {v \in wires : v.lhs \in seen}}

Rounds(f, n, wires, reads, seeds) ==
    f = [i \in 0..n |-> IF i = 0 THEN seeds ELSE Next1(wires, reads, f[i - 1])]

LEMMA RoundsExist ==
    ASSUME NEW n \in Nat, NEW wires, NEW reads, NEW seeds
    PROVE  \E f : Rounds(f, n, wires, reads, seeds)
<1> DEFINE R(f, k) == Rounds(f, k, wires, reads, seeds)
           T == {k \in Nat : ~\E f : R(f, k)}
<1>1. SUFFICES ASSUME T # {} PROVE FALSE
  OBVIOUS
<1>2. PICK x \in T : \A y \in T : x <= y
  BY <1>1, Least
<1>3. CASE x = 0
  <2> DEFINE g == [i \in 0..0 |-> seeds]
  <2>1. R(g, 0)
    BY DEF Rounds
  <2> QED
    BY <1>2, <1>3, <2>1
<1>4. CASE x # 0
  <2>1. x \in Nat /\ x - 1 \in Nat /\ x - 1 \notin T
    BY <1>2, <1>4
  <2>2. PICK f : R(f, x - 1)
    BY <2>1
  <2> DEFINE g == [i \in 0..x |-> IF i = x THEN Next1(wires, reads, f[x - 1]) ELSE f[i]]
  <2>3. \A i \in 0..(x - 1) :
           f[i] = IF i = 0 THEN seeds ELSE Next1(wires, reads, f[i - 1])
    BY <2>2 DEF Rounds
  <2>4. \A i \in 0..x : g[i] = IF i = 0 THEN seeds ELSE Next1(wires, reads, g[i - 1])
    <3> SUFFICES ASSUME NEW i \in 0..x
                 PROVE  g[i] = IF i = 0 THEN seeds ELSE Next1(wires, reads, g[i - 1])
      OBVIOUS
    <3>1. CASE i = 0
      BY <1>4, <2>1, <2>3, <3>1
    <3>2. CASE i # 0 /\ i # x
      <4>1. i \in 0..(x - 1) /\ i - 1 \in 0..x /\ i - 1 # x
        BY <2>1, <3>2
      <4>2. g[i] = f[i] /\ g[i - 1] = f[i - 1]
        BY <3>2, <4>1
      <4> QED
        BY <2>3, <3>2, <4>1, <4>2
    <3>3. CASE i # 0 /\ i = x
      <4>1. x \in 0..x /\ x - 1 \in 0..x /\ x - 1 # x
        BY <2>1
      <4>2. g[x] = Next1(wires, reads, f[x - 1]) /\ g[x - 1] = f[x - 1]
        BY <4>1
      <4> QED
        BY <3>3, <4>2
    <3> QED
      BY <3>1, <3>2, <3>3
  <2>5. g = [i \in 0..x |-> g[i]]
    OBVIOUS
  <2> HIDE DEF g
  <2>6. R(g, x)
    BY <2>4, <2>5 DEF Rounds
  <2> QED
    BY <1>2, <2>6
<1> QED
  BY <1>3, <1>4

LEMMA ClosureRounds ==
    ASSUME NEW wires, IsFiniteSet(wires), NEW reads, NEW seeds
    PROVE  \E f : Closure(wires, reads, seeds) = f[Cardinality(wires)]
                  /\ Rounds(f, Cardinality(wires), wires, reads, seeds)
<1> DEFINE n == Cardinality(wires)
           f == CHOOSE g : Rounds(g, n, wires, reads, seeds)
<1>1. n \in Nat
  BY FS_CardinalityType
<1>2. Rounds(f, n, wires, reads, seeds)
  BY <1>1, RoundsExist
<1>3. Closure(wires, reads, seeds) = f[n]
  BY DEF Closure, Rounds, Next1
<1> QED
  BY <1>2, <1>3

\* The closure is the least set with the seeds that is closed: after as many
\* rounds as there are wires nothing is left to be added, since each round
\* before that reaches a wire that was not reached.
LEMMA ClosureFacts ==
    ASSUME NEW wires, IsFiniteSet(wires), NEW reads, NEW seeds
    PROVE  LET C == Closure(wires, reads, seeds)
           IN  /\ seeds \subseteq C
               /\ \A w \in wires : w.lhs \in C => reads[w] \subseteq C
               /\ \A T : seeds \subseteq T /\ (\A w \in wires : w.lhs \in T => reads[w] \subseteq T)
                            => C \subseteq T
<1> DEFINE n == Cardinality(wires)
           C == Closure(wires, reads, seeds)
<1>1. n \in Nat
  BY FS_CardinalityType
<1>2. PICK f : C = f[n] /\ Rounds(f, n, wires, reads, seeds)
  BY ClosureRounds
<1> DEFINE Reached(i) == {v \in wires : v.lhs \in f[i]}
           Closed(i) == \A w \in wires : w.lhs \in f[i] => reads[w] \subseteq f[i]
<1>3. f[0] = seeds /\ \A i \in 1..n : f[i] = f[i - 1] \cup UNION {reads[w] : w \in Reached(i - 1)}
  <2>1. \A i \in 0..n : f[i] = IF i = 0 THEN seeds ELSE Next1(wires, reads, f[i - 1])
    BY <1>2 DEF Rounds
  <2>2. f[0] = seeds
    BY <1>1, <2>1
  <2>3. ASSUME NEW i \in 1..n
        PROVE  f[i] = f[i - 1] \cup UNION {reads[w] : w \in Reached(i - 1)}
    <3>1. i \in 0..n /\ i # 0
      BY <1>1
    <3> QED
      BY <2>1, <3>1 DEF Next1
  <2> QED
    BY <2>2, <2>3
<1> HIDE DEF n, C
<1>4. seeds \subseteq C
  <2> DEFINE T == {i \in 0..n : ~(seeds \subseteq f[i])}
  <2>1. SUFFICES ASSUME T # {} PROVE FALSE
    BY <1>1, <1>2
  <2>2. PICK x \in T : \A y \in T : x <= y
    <3>1. T \in SUBSET Nat
      BY <1>1
    <3> QED
      BY <2>1, <3>1, Least
  <2>3. x # 0 /\ x \in 1..n
    BY <1>1, <1>3, <2>2
  <2>4. x - 1 \in 0..n /\ x - 1 \notin T
    BY <1>1, <2>2, <2>3
  <2>5. seeds \subseteq f[x - 1] /\ f[x - 1] \subseteq f[x]
    BY <1>3, <2>3, <2>4
  <2> QED
    BY <2>2, <2>5
<1>5. \A i \in 0..n : ~Closed(i) => Cardinality(Reached(i)) > i
  <2> DEFINE T == {i \in 0..n : ~Closed(i) /\ ~(Cardinality(Reached(i)) > i)}
  <2>1. SUFFICES ASSUME T # {} PROVE FALSE
    OBVIOUS
  <2>2. PICK x \in T : \A y \in T : x <= y
    <3>1. T \in SUBSET Nat
      BY <1>1
    <3> QED
      BY <2>1, <3>1, Least
  <2>3. \A i : IsFiniteSet(Reached(i)) /\ Cardinality(Reached(i)) \in Nat
    <3> TAKE i
    <3>1. Reached(i) \in SUBSET wires
      OBVIOUS
    <3> QED
      BY <3>1, FS_Subset, FS_CardinalityType
  <2>4. PICK w \in wires : w.lhs \in f[x] /\ ~(reads[w] \subseteq f[x])
    BY <2>2
  <2>5. w \in Reached(x) /\ x \in Nat /\ ~(Cardinality(Reached(x)) > x)
    BY <1>1, <2>2, <2>4
  <2>6. CASE x = 0
    <3>1. Cardinality(Reached(0)) # 0
      BY <2>3, <2>5, <2>6, FS_EmptySet
    <3> HIDE DEF Reached, T
    <3> QED
      BY <2>3, <2>5, <2>6, <3>1
  <2>7. CASE x # 0
    <3>1. x \in 1..n /\ x - 1 \in 0..n /\ x - 1 \notin T
      BY <1>1, <2>2, <2>7
    <3>2. f[x] = f[x - 1] \cup UNION {reads[v] : v \in Reached(x - 1)}
      BY <1>3, <3>1
    <3>3. ~Closed(x - 1)
      <4> SUFFICES ASSUME Closed(x - 1) PROVE FALSE
        OBVIOUS
      <4>1. \A v \in Reached(x - 1) : reads[v] \subseteq f[x - 1]
        OBVIOUS
      <4>2. f[x] = f[x - 1]
        BY <3>2, <4>1
      <4> QED
        BY <2>4, <4>2
    <3>4. Cardinality(Reached(x - 1)) > x - 1
      BY <3>1, <3>3
    <3>5. w \notin Reached(x - 1)
      BY <2>4, <3>2
    <3>6. Reached(x - 1) \cup {w} \in SUBSET Reached(x)
      BY <2>5, <3>2
    <3> HIDE DEF Reached, Closed
    <3>7. Cardinality(Reached(x - 1) \cup {w}) = Cardinality(Reached(x - 1)) + 1
      BY <2>3, <3>5, FS_AddElement
    <3>8. Cardinality(Reached(x - 1)) + 1 <= Cardinality(Reached(x))
      BY <2>3, <3>6, <3>7, FS_Subset
    <3>9. x \in Nat
      BY <1>1, <3>1
    <3>10. Cardinality(Reached(x)) > x
      BY <2>3, <3>4, <3>8, <3>9
    <3> QED
      BY <2>5, <3>10
  <2> QED
    BY <2>6, <2>7
<1>6. Closed(n)
  <2>1. n \in 0..n /\ Reached(n) \in SUBSET wires
    BY <1>1
  <2>2. Cardinality(Reached(n)) <= n /\ Cardinality(Reached(n)) \in Nat
    BY <2>1, FS_Subset, FS_CardinalityType DEF n
  <2> HIDE DEF Reached, Closed
  <2>3. ~(Cardinality(Reached(n)) > n)
    BY <1>1, <2>2
  <2> QED
    BY <1>5, <2>1, <2>3
<1>7. ASSUME NEW T, seeds \subseteq T, \A w \in wires : w.lhs \in T => reads[w] \subseteq T
      PROVE  C \subseteq T
  <2> DEFINE B == {i \in 0..n : ~(f[i] \subseteq T)}
  <2>1. SUFFICES ASSUME B # {} PROVE FALSE
    BY <1>1, <1>2
  <2>2. PICK x \in B : \A y \in B : x <= y
    <3>1. B \in SUBSET Nat
      BY <1>1
    <3> QED
      BY <2>1, <3>1, Least
  <2>3. x # 0 /\ x \in 1..n
    BY <1>1, <1>3, <1>7, <2>2
  <2>4. x - 1 \in 0..n /\ x - 1 \notin B
    BY <1>1, <2>2, <2>3
  <2>5. f[x - 1] \subseteq T
    BY <2>4
  <2>6. \A v \in Reached(x - 1) : reads[v] \subseteq T
    BY <1>7, <2>5
  <2>7. f[x] \subseteq T
    BY <1>3, <2>3, <2>5, <2>6
  <2> QED
    BY <2>2, <2>7
<1>8. \A w \in wires : w.lhs \in C => reads[w] \subseteq C
  BY <1>2, <1>6
<1> QED
  BY <1>4, <1>7, <1>8 DEF C

\* The closure of several sets of seeds is that of each together.
LEMMA ClosureOfUnion ==
    ASSUME NEW wires, IsFiniteSet(wires), NEW reads, NEW SS
    PROVE  Closure(wires, reads, UNION SS) = UNION {Closure(wires, reads, S) : S \in SS}
<1> DEFINE each == UNION {Closure(wires, reads, S) : S \in SS}
<1>1. ASSUME NEW S \in SS PROVE Closure(wires, reads, S) \subseteq Closure(wires, reads, UNION SS)
  <2>1. S \subseteq Closure(wires, reads, UNION SS)
    <3>1. UNION SS \subseteq Closure(wires, reads, UNION SS)
      BY ClosureFacts
    <3> QED
      BY <3>1
  <2> QED
    BY <2>1, ClosureFacts
<1>2. UNION SS \subseteq each
  BY ClosureFacts
<1>3. \A w \in wires : w.lhs \in each => reads[w] \subseteq each
  <2> SUFFICES ASSUME NEW w \in wires, NEW S \in SS, w.lhs \in Closure(wires, reads, S)
               PROVE  reads[w] \subseteq each
    OBVIOUS
  <2>1. reads[w] \subseteq Closure(wires, reads, S)
    BY ClosureFacts
  <2> QED
    BY <2>1
<1>4. Closure(wires, reads, UNION SS) \subseteq each
  <2> HIDE DEF each
  <2> QED
    BY <1>2, <1>3, ClosureFacts
<1> QED
  BY <1>1, <1>4

-----------------------------------------------------------------------------
(***************************************************************************)
(* What the parser makes of a design it understands.                       *)
(***************************************************************************)

Parsed(d) == d \subseteq Statements /\ IsFiniteSet(d) /\ Understood(d)

\* The wires, as the checker and as the language have them.
Wires(d) == {s \in d : s.clk = NoClock}

LEMMA WhatIsClocked ==
    ASSUME NEW d, Parsed(d)
    PROVE  /\ \A s \in d : IsSeq(s) <=> s.clk # NoClock
           /\ {s \in d : ~IsSeq(s)} = Wires(d)
           /\ IsFiniteSet(Wires(d))
           /\ \A s \in d : Reads(s) = s.rhs
           /\ \A w \in Wires(d) : w.lhs \notin Registers(d)
           /\ \A n : Seqs(d) \cap Driving(d, n) = {q \in Driving(d, n) : q.clk # NoClock}
           /\ \A n : n \in Registers(d) =>
                        /\ n \in Net
                        /\ Driving(d, n) # {}
                        /\ \A s \in Driving(d, n) : s \in Seqs(d) /\ s.clk # NoClock
           /\ \A n : n \in Registers(d) <=> RealClocks(d, n) # {}
           /\ \A n : IsEndpoint(d, n) <=> Driving(d, n) = {} \/ RealClocks(d, n) # {}
<1>1. \A s \in d : /\ s.lhs \in Net
                   /\ s.sep \in {",", ""}
                   /\ s.cond \subseteq Inputs
  BY NetlistAssumption DEF Parsed, Understood
<1>2. \A s \in d : IsSeq(s) <=> s.clk # NoClock
  BY <1>1 DEF IsSeq, SensitivityEdges
<1>3. \A s, t \in d : s.lhs = t.lhs /\ s.clk = NoClock => t.clk = NoClock
  BY DEF Parsed, Understood
<1>4. {s \in d : ~IsSeq(s)} = Wires(d)
  BY <1>2 DEF Wires
<1>5. IsFiniteSet(Wires(d))
  <2>1. Wires(d) \in SUBSET d
    BY DEF Wires
  <2> QED
    BY <2>1, FS_Subset DEF Parsed
<1>6. \A s \in d : Reads(s) = s.rhs
  BY <1>1 DEF Reads
<1>7. \A w \in Wires(d) : w.lhs \notin Registers(d)
  BY <1>2, <1>3 DEF Wires, Registers, Seqs
<1>8. \A n : Seqs(d) \cap Driving(d, n) = {q \in Driving(d, n) : q.clk # NoClock}
  BY <1>2 DEF Seqs, Driving
<1>9. \A n : n \in Registers(d) => \E s \in Driving(d, n) : s \in Seqs(d)
  BY DEF Registers, Driving, Seqs
<1>10. ASSUME NEW n \in Registers(d)
       PROVE  /\ n \in Net
              /\ Driving(d, n) # {}
              /\ \A s \in Driving(d, n) : s \in Seqs(d) /\ s.clk # NoClock
  <2>1. PICK t \in Driving(d, n) : t \in Seqs(d)
    BY <1>9
  <2>2. t \in d /\ t.lhs = n /\ t.clk # NoClock
    BY <1>2, <2>1 DEF Driving, Seqs
  <2>3. ASSUME NEW s \in Driving(d, n) PROVE s \in Seqs(d) /\ s.clk # NoClock
    <3>1. s \in d /\ s.lhs = n
      BY DEF Driving
    <3>2. s.clk # NoClock
      BY <1>3, <2>2, <3>1
    <3> QED
      BY <1>2, <3>1, <3>2 DEF Seqs
  <2> QED
    BY <1>1, <2>1, <2>2, <2>3
<1>11. \A n : n \in Registers(d) <=> RealClocks(d, n) # {}
  <2>1. \A n : RealClocks(d, n) # {} <=> \E s \in Driving(d, n) : s.clk # NoClock
    BY DEF RealClocks
  <2>2. \A n : n \in Registers(d) <=> \E s \in d : s.lhs = n /\ s.clk # NoClock
    BY <1>2 DEF Registers, Seqs
  <2> QED
    BY <2>1, <2>2 DEF Driving
<1>12. \A n : IsEndpoint(d, n) <=> Driving(d, n) = {} \/ RealClocks(d, n) # {}
  BY <1>11 DEF IsEndpoint
<1> QED
  BY <1>2, <1>4, <1>5, <1>6, <1>7, <1>8, <1>10, <1>11, <1>12

\* A domain that is known is the one clock of the register.
LEMMA KnownDomains ==
    ASSUME NEW d, Parsed(d), NEW n, Domain(d, n) # Unknown
    PROVE  n \in Registers(d) /\ RealClocks(d, n) = {Domain(d, n)}
<1> DEFINE drivers == Seqs(d) \cap Driving(d, n)
           domains == {Only(SensitivityEdges(s)) : s \in drivers}
           c == Domain(d, n)
<1>1. \E a \in domains : domains = {a}
  BY DEF Domain, Only
<1>2. domains = {c}
  <2>1. c = CHOOSE a \in domains : TRUE
    BY <1>1 DEF Domain, Only
  <2> HIDE DEF domains, c
  <2> QED
    BY <1>1, <2>1
<1>3. PICK t : t \in drivers
  BY <1>2
<1>4. n \in Registers(d)
  BY <1>3 DEF Registers, Driving
<1>5. ASSUME NEW s \in drivers PROVE s.clk = c
  <2>1. Only(SensitivityEdges(s)) = c
    BY <1>2
  <2>2. \E a \in SensitivityEdges(s) : SensitivityEdges(s) = {a}
    BY <2>1 DEF Only
  <2>3. SensitivityEdges(s) = {c}
    <3>1. c = CHOOSE a \in SensitivityEdges(s) : TRUE
      BY <2>1, <2>2 DEF Only
    <3> HIDE DEF c
    <3> QED
      BY <2>2, <3>1
  <2>4. s.clk \in SensitivityEdges(s)
    BY <2>2 DEF SensitivityEdges
  <2> QED
    BY <2>3, <2>4
<1>6. drivers = Driving(d, n) /\ \A s \in Driving(d, n) : s.clk # NoClock
  BY <1>4, WhatIsClocked
<1> HIDE DEF drivers, domains, c
<1>7. RealClocks(d, n) = {c}
  BY <1>3, <1>5, <1>6 DEF RealClocks
<1> QED
  BY <1>4, <1>7 DEF c

\* Without a comma in a sensitivity list a register of one clock has a domain.
LEMMA OneEdgeDomains ==
    ASSUME NEW d, Parsed(d), \A s \in d : s.sep = "",
           NEW n \in Registers(d), NEW k, RealClocks(d, n) = {k}
    PROVE  Domain(d, n) = k
<1> DEFINE drivers == Seqs(d) \cap Driving(d, n)
<1>0. \A a : Only({a}) = a
  BY DEF Only
<1>1. drivers = Driving(d, n) /\ Driving(d, n) # {} /\ \A s \in Driving(d, n) : s.clk # NoClock
  BY WhatIsClocked
<1>2. \A s \in Driving(d, n) : s \in d /\ s.clk = k
  BY <1>1 DEF RealClocks, Driving
<1>3. \A s \in drivers : SensitivityEdges(s) = {k}
  BY <1>1, <1>2 DEF SensitivityEdges
<1>4. \A s \in drivers : Only(SensitivityEdges(s)) = k
  BY <1>0, <1>3
<1>5. {Only(SensitivityEdges(s)) : s \in drivers} = {k}
  BY <1>1, <1>4
<1> QED
  BY <1>0, <1>5 DEF Domain

-----------------------------------------------------------------------------
(***************************************************************************)
(* What the traces of the checker find.                                    *)
(***************************************************************************)

\* The seeds of a register: what its right-hand sides read.
Seeds(d, n) == UNION {s.rhs : s \in Driving(d, n)}

Cone(d, n) == Closure(Wires(d), [w \in Wires(d) |-> w.rhs], Seeds(d, n))

LEMMA RealCone ==
    ASSUME NEW d, Parsed(d), NEW n \in Registers(d)
    PROVE  RealSamples(d, n) = {x \in Cone(d, n) : IsEndpoint(d, x)}
<1>1. [w \in Wires(d) |-> Reads(w)] = [w \in Wires(d) |-> w.rhs]
  BY WhatIsClocked DEF Wires
<1>2. {q \in Driving(d, n) : q.clk # NoClock} = Driving(d, n)
  BY WhatIsClocked
<1>3. UNION {Reads(s) : s \in Driving(d, n)} = Seeds(d, n)
  BY WhatIsClocked DEF Seeds, Driving
<1>4. RealSamples(d, n) = {x \in Cone(d, n) : Driving(d, x) = {} \/ RealClocks(d, x) # {}}
  BY <1>1, <1>2, <1>3 DEF RealSamples, Cone, Wires
<1> QED
  BY <1>4, WhatIsClocked

\* What a register of known domain samples is what it really samples.
LEMMA SampledIsReal ==
    ASSUME NEW d, Parsed(d), NEW n, Domain(d, n) # Unknown
    PROVE  Sampled(d, n, Domain(d, n)) = RealSamples(d, n)
<1> DEFINE reads == [w \in Wires(d) |-> w.rhs]
           D == Driving(d, n)
           SS == {s.rhs : s \in D}
<1>1. n \in Registers(d)
  BY KnownDomains
<1>2. Seqs(d) \cap D = D
  BY <1>1, WhatIsClocked
<1>3. \A seeds : Fanin(d, seeds, {}) = Closure(Wires(d), reads, seeds)
  <2> TAKE seeds
  <2>1. {s \in d : ~IsSeq(s)} = Wires(d)
    BY WhatIsClocked
  <2>2. seeds \ {} = seeds /\ [w \in Wires(d) |-> w.rhs \ {}] = reads
    OBVIOUS
  <2> QED
    BY <2>1, <2>2 DEF Fanin
<1>4. Sampled(d, n, Domain(d, n)) = UNION {CombCone(d, s.rhs) : s \in D}
  BY <1>2 DEF Sampled
<1>5. \A s : CombCone(d, s.rhs) = {x \in Closure(Wires(d), reads, s.rhs) : IsEndpoint(d, x)}
  BY <1>3 DEF CombCone
<1>6. Cone(d, n) = UNION {Closure(Wires(d), reads, s.rhs) : s \in D}
  <2>1. IsFiniteSet(Wires(d))
    BY WhatIsClocked
  <2>2. UNION {Closure(Wires(d), reads, S) : S \in SS}
          = UNION {Closure(Wires(d), reads, s.rhs) : s \in D}
    OBVIOUS
  <2>3. Cone(d, n) = Closure(Wires(d), reads, UNION SS)
    BY DEF Cone, Seeds
  <2> HIDE DEF reads, D, SS
  <2>4. Closure(Wires(d), reads, UNION SS) = UNION {Closure(Wires(d), reads, S) : S \in SS}
    BY <2>1, ClosureOfUnion
  <2> QED
    BY <2>2, <2>3, <2>4
<1>7. RealSamples(d, n) = {x \in Cone(d, n) : IsEndpoint(d, x)}
  BY <1>1, RealCone
<1> HIDE DEF reads, D
<1> QED
  BY <1>4, <1>5, <1>6, <1>7

\* A trace that does not go through the register again misses only that
\* register, since no wire drives it.
LEMMA TracedIsReal ==
    ASSUME NEW d, Parsed(d), NEW n \in Registers(d), NEW x, x # n
    PROVE  x \in Traced(d, n) <=> x \in Cone(d, n)
<1> DEFINE W == Wires(d)
           reads == [w \in W |-> w.rhs]
           less == [w \in W |-> w.rhs \ {n}]
           D == Driving(d, n)
           SS == {s.rhs \ {n} : s \in D}
           all == UNION SS
<1>1. IsFiniteSet(W)
  BY WhatIsClocked
<1>2. Traced(d, n) = Closure(W, less, all)
  <2>1. {s \in d : ~IsSeq(s)} = W /\ Seqs(d) \cap D = D
    BY WhatIsClocked
  <2>2. \A s \in D : Fanin(d, s.rhs, {n}) = Closure(W, less, s.rhs \ {n})
    BY <2>1 DEF Fanin
  <2>3. Traced(d, n) = UNION {Closure(W, less, s.rhs \ {n}) : s \in D}
    BY <2>1, <2>2 DEF Traced
  <2>4. Traced(d, n) = UNION {Closure(W, less, S) : S \in SS}
    BY <2>3
  <2> HIDE DEF W, less, SS
  <2> QED
    BY <1>1, <2>4, ClosureOfUnion
<1> DEFINE T == Closure(W, less, all)
           C == Cone(d, n)
<1>3. C = Closure(W, reads, Seeds(d, n))
  BY DEF Cone
<1>4. all = Seeds(d, n) \ {n}
  BY DEF Seeds
<1>5. T \subseteq C
  <2>1. Seeds(d, n) \subseteq C /\ \A w \in W : w.lhs \in C => reads[w] \subseteq C
    <3> HIDE DEF W, reads, C
    <3> QED
      BY <1>1, <1>3, ClosureFacts
  <2>2. all \subseteq C /\ \A w \in W : w.lhs \in C => less[w] \subseteq C
    BY <1>4, <2>1
  <2> HIDE DEF W, less, all, C
  <2> QED
    BY <1>1, <2>2, ClosureFacts
<1>6. C \subseteq T \cup {n}
  <2>1. all \subseteq T /\ \A w \in W : w.lhs \in T => less[w] \subseteq T
    <3> HIDE DEF W, less, all
    <3> QED
      BY <1>1, ClosureFacts
  <2>2. Seeds(d, n) \subseteq T \cup {n}
    BY <1>4, <2>1
  <2>3. \A w \in W : w.lhs # n
    BY WhatIsClocked
  <2>4. \A w \in W : w.lhs \in T \cup {n} => reads[w] \subseteq T \cup {n}
    BY <2>1, <2>3
  <2> DEFINE U == T \cup {n}
  <2>5. Seeds(d, n) \subseteq U /\ \A w \in W : w.lhs \in U => reads[w] \subseteq U
    BY <2>2, <2>4
  <2> HIDE DEF W, reads, T, C, U
  <2>6. Closure(W, reads, Seeds(d, n)) \subseteq U
    BY <1>1, <2>5, ClosureFacts
  <2> QED
    BY <1>3, <2>6 DEF U
<1> HIDE DEF T, C
<1> QED
  BY <1>2, <1>5, <1>6 DEF T, C

\* Between registers of known domains the checker sees the real crossings.
LEMMA CrossingsAreReal ==
    ASSUME NEW d, Parsed(d), NEW x \in Registers(d), NEW n \in Registers(d),
           Domain(d, x) # Unknown, Domain(d, n) # Unknown
    PROVE  Crosses(d, x, n) <=> ReallyCrosses(d, x, n)
<1>1. RealClocks(d, x) = {Domain(d, x)} /\ RealClocks(d, n) = {Domain(d, n)}
  BY KnownDomains
<1>2. x \in Net /\ IsEndpoint(d, x)
  BY WhatIsClocked DEF IsEndpoint
<1>3. x \in Synchronous(d, n) <=> Domain(d, x) = Domain(d, n)
  BY <1>1, <1>2 DEF Synchronous
<1>4. x # n => (x \in Traced(d, n) <=> x \in RealSamples(d, n))
  BY <1>2, TracedIsReal, RealCone
<1> QED
  BY <1>1, <1>3, <1>4 DEF Crosses, ReallyCrosses

-----------------------------------------------------------------------------
(***************************************************************************)
(* What the checker accepts of a crossing.                                 *)
(***************************************************************************)

\* A register of one clock has it for its domain.
OneClocked(d) == \A q \in Registers(d) : \A k : RealClocks(d, q) = {k} => Domain(d, q) = k

Accepted(d, x, n) ==
    x \notin Wide /\ HasChain(d, x, n, Domain(d, n)) /\ NoBypass(d, x, n, Domain(d, n))

LEMMA SameDomain ==
    ASSUME NEW d, Parsed(d), OneClocked(d), NEW n, Domain(d, n) # Unknown
    PROVE  /\ InDomain(d, Domain(d, n)) = Synchronous(d, n)
           /\ n \in Synchronous(d, n)
           /\ \A m \in Synchronous(d, n) : Sampled(d, m, Domain(d, n)) = RealSamples(d, m)
           /\ Stages(d, n, Domain(d, n)) = SecondStages(d, n)
<1> DEFINE c == Domain(d, n)
<1>1. RealClocks(d, n) = {c} /\ n \in Registers(d)
  BY KnownDomains
<1>2. ASSUME NEW m \in InDomain(d, c) PROVE m \in Synchronous(d, n)
  <2>1. m \in Registers(d) /\ Domain(d, m) = c
    BY DEF InDomain
  <2>2. m \in Net /\ RealClocks(d, m) = {c}
    BY <2>1, KnownDomains, WhatIsClocked
  <2> QED
    BY <1>1, <2>2 DEF Synchronous
<1>3. ASSUME NEW m \in Synchronous(d, n) PROVE m \in InDomain(d, c)
  <2>1. m \in Net /\ RealClocks(d, m) = {c}
    BY <1>1 DEF Synchronous
  <2>2. m \in Registers(d)
    BY <2>1, WhatIsClocked
  <2>3. Domain(d, m) = c
    BY <2>1, <2>2 DEF OneClocked
  <2> QED
    BY <2>2, <2>3 DEF InDomain
<1>4. InDomain(d, c) = Synchronous(d, n)
  BY <1>2, <1>3
<1>5. n \in Synchronous(d, n)
  BY <1>1, WhatIsClocked DEF Synchronous
<1>6. ASSUME NEW m \in Synchronous(d, n) PROVE Sampled(d, m, c) = RealSamples(d, m)
  <2>1. Domain(d, m) = c
    BY <1>4 DEF InDomain
  <2> QED
    BY <2>1, SampledIsReal
<1>7. Stages(d, n, c) = SecondStages(d, n)
  BY <1>4, <1>6 DEF Stages, SecondStages
<1> QED
  BY <1>4, <1>5, <1>6, <1>7

LEMMA AcceptedIsSynchronised ==
    ASSUME NEW d, Parsed(d), OneClocked(d), NEW x, NEW n, Domain(d, n) # Unknown,
           x \in RealSamples(d, n)
    PROVE  Accepted(d, x, n) <=> Synchronised(d, x, n)
<1> DEFINE c == Domain(d, n)
           S == Synchronous(d, n)
           Second == SecondStages(d, n)
<1>1. InDomain(d, c) = S /\ n \in S
  BY SameDomain
<1>2. \A m \in S : Sampled(d, m, c) = RealSamples(d, m)
  BY SameDomain
<1>3. Stages(d, n, c) = Second
  BY SameDomain
<1>4. HasChain(d, x, n, c) <=> RealSamples(d, n) \subseteq S \cup {x} /\ Second # {}
  BY <1>1, <1>2, <1>3 DEF HasChain
<1>5. Consumers(d, x, c) \subseteq {n} <=> \A m \in S : m # n => x \notin RealSamples(d, m)
  BY <1>1, <1>2 DEF Consumers
<1>6. Consumers(d, n, c) \subseteq Second <=> \A m \in S : n \in RealSamples(d, m) => m \in Second
  BY <1>1, <1>2 DEF Consumers
<1>7. \A s \in d : (IsSeq(s) => s.lhs \notin Second) <=> s.lhs \notin Second
  <2>1. \A s \in d : ~IsSeq(s) => s.lhs \notin Registers(d)
    BY WhatIsClocked DEF Wires
  <2>2. Second \subseteq Registers(d)
    BY <1>1 DEF SecondStages, InDomain
  <2> QED
    BY <2>1, <2>2
<1>8. \A s \in d : Reads(s) = s.rhs
  BY WhatIsClocked
<1>9. StagesUsed(d, Second) <=> \/ Second \cap Outputs # {}
                                \/ \E s \in d : s.lhs \notin Second /\ Reads(s) \cap Second # {}
  BY <1>7, <1>8 DEF StagesUsed
<1>10. StagesUsed(d, Second) => Second # {}
  BY DEF StagesUsed
<1>11. NoBypass(d, x, n, c) <=>
          /\ \A m \in S : m # n => x \notin RealSamples(d, m)
          /\ \A m \in S : n \in RealSamples(d, m) => m \in Second
          /\ StagesUsed(d, Second)
  <2> HIDE DEF S, Second, c
  <2> QED
    BY <1>3, <1>5, <1>6 DEF NoBypass
<1>12. Synchronised(d, x, n) <=>
          /\ x \notin Wide
          /\ RealSamples(d, n) \subseteq S \cup {x}
          /\ \A m \in S : m # n => x \notin RealSamples(d, m)
          /\ \A m \in S : n \in RealSamples(d, m) => m \in Second
          /\ StagesUsed(d, Second)
  BY <1>9 DEF Synchronised
<1> HIDE DEF S, Second, c
<1> QED
  BY <1>4, <1>10, <1>11, <1>12 DEF Accepted, c

-----------------------------------------------------------------------------
(***************************************************************************)
(* What a status says of the design.                                       *)
(***************************************************************************)

\* PASS: every real crossing is synchronised.
LEMMA PassIsSound ==
    ASSUME NEW d, Parsed(d), "PASS" \in Statuses(d)
    PROVE  \A p \in RealCrossings(d) : Synchronised(d, p[1], p[2])
<1>1. Findings(d) = {} /\ UnknownHits(d) = {}
  BY DEF Statuses, StatusOf
<1>2. \A q \in Registers(d) : Domain(d, q) # Unknown
  BY <1>1 DEF UnknownHits
<1>3. OneClocked(d)
  BY <1>2, KnownDomains DEF OneClocked
<1> SUFFICES ASSUME NEW x \in Net, NEW n \in Net, ReallyCrosses(d, x, n)
             PROVE  Synchronised(d, x, n)
  BY DEF RealCrossings
<1>4. x \in Registers(d) /\ n \in Registers(d)
  BY WhatIsClocked DEF ReallyCrosses
<1>5. Crosses(d, x, n)
  BY <1>2, <1>4, CrossingsAreReal
<1>6. <<x, n>> \in Crossings(d)
  BY <1>4, <1>5 DEF Crossings
<1>7. Severity(d, x, n) = "ok"
  BY <1>1, <1>6 DEF Findings
<1>8. Accepted(d, x, n)
  BY <1>7 DEF Severity, Accepted
<1>9. x \in RealSamples(d, n)
  BY DEF ReallyCrosses
<1> QED
  BY <1>2, <1>3, <1>4, <1>8, <1>9, AcceptedIsSynchronised

\* FAIL: a real crossing is not synchronised.
LEMMA FailIsReal ==
    ASSUME NEW d, Parsed(d), \A s \in d : s.sep = "", "FAIL" \in Statuses(d)
    PROVE  \E p \in RealCrossings(d) : ~Synchronised(d, p[1], p[2])
<1>1. PICK p \in FirstFindings(d) : StatusOf(Severity(d, p[1], p[2])) = "FAIL"
  BY DEF Statuses
<1>2. Severity(d, p[1], p[2]) = "error"
  BY <1>1 DEF StatusOf
<1> DEFINE x == p[1]
           n == p[2]
<1>3. p \in Registers(d) \X Registers(d) /\ Crosses(d, x, n)
  BY <1>1 DEF FirstFindings, Findings, Crossings
<1>4. x \in Registers(d) /\ n \in Registers(d)
  BY <1>3
<1>5. Domain(d, x) # Unknown /\ Domain(d, n) # Unknown
  BY <1>3 DEF Crosses
<1>6. ReallyCrosses(d, x, n)
  BY <1>3, <1>4, <1>5, CrossingsAreReal
<1>7. OneClocked(d)
  BY OneEdgeDomains DEF OneClocked
<1>8. ~Accepted(d, x, n)
  BY <1>2 DEF Severity, Accepted
<1>9. ~Synchronised(d, x, n)
  BY <1>5, <1>6, <1>7, <1>8, AcceptedIsSynchronised DEF ReallyCrosses
<1>10. p \in Net \X Net
  <2>1. Registers(d) \subseteq Net
    BY WhatIsClocked
  <2> HIDE DEF x, n
  <2> QED
    BY <1>3, <2>1
<1> QED
  BY <1>6, <1>9, <1>10 DEF RealCrossings

-----------------------------------------------------------------------------
(***************************************************************************)
(* The gate.  A report that is fresh is one the checker gives of this      *)
(* candidate, and only such a report passes.                               *)
(***************************************************************************)
Reports == [status : {"none", "PASS", "FAIL", "INCONCLUSIVE", "ERROR"}, fresh : BOOLEAN]

CdcInv ==
    /\ design \subseteq Statements /\ IsFiniteSet(design)
    /\ cdcReport \in Reports
    /\ cdcReport.fresh => cdcReport.status \in Statuses(design)
    /\ cdcGate = "passed" => cdcReport = [status |-> "PASS", fresh |-> TRUE]

LEMMA StatusesTyped ==
    ASSUME NEW d
    PROVE  Statuses(d) \subseteq {"PASS", "FAIL", "INCONCLUSIVE", "ERROR"}
BY DEF Statuses, StatusOf

LEMMA CdcInvariance == CdcSpec => []CdcInv
<1>1. CdcInit => CdcInv
  <2> SUFFICES ASSUME CdcInit PROVE CdcInv
    OBVIOUS
  <2>1. IsFiniteSet(design)
    BY FS_EmptySet DEF CdcInit
  <2> QED
    BY <2>1 DEF CdcInit, CdcInv, Reports
<1>2. CdcInv /\ [CdcNext]_cdcVars => CdcInv'
  <2> SUFFICES ASSUME CdcInv, [CdcNext]_cdcVars PROVE CdcInv'
    OBVIOUS
  <2>1. ASSUME NEW s \in Statements, Extend(s) PROVE CdcInv'
    <3>1. design' = design \cup {s} /\ IsFiniteSet(design')
      BY <2>1, FS_AddElement DEF CdcInv, Extend
    <3>2. cdcReport' \in Reports /\ ~cdcReport'.fresh /\ cdcGate' = "none"
      BY <2>1 DEF CdcInv, Extend, Reports
    <3> QED
      BY <3>1, <3>2 DEF CdcInv
  <2>2. CASE CheckerRuns
    <3>1. PICK status \in Statuses(design) :
            /\ cdcReport' = [status |-> status, fresh |-> TRUE]
            /\ cdcGate' = GateVerdict(ExitCode(status), status)
            /\ design' = design
      BY <2>2 DEF CheckerRuns
    <3>2. status \in {"PASS", "FAIL", "INCONCLUSIVE", "ERROR"}
      BY StatusesTyped
    <3>3. cdcReport' \in Reports /\ cdcReport'.status \in Statuses(design)
      BY <3>1, <3>2 DEF Reports
    <3>4. cdcGate' = "passed" => status = "PASS"
      BY <3>1 DEF GateVerdict
    <3>5. Statuses(design') = Statuses(design)
      BY <3>1
    <3> QED
      BY <3>1, <3>3, <3>4, <3>5 DEF CdcInv
  <2>3. CASE CheckerDies
    <3>1. cdcGate' # "passed"
      BY <2>3 DEF CheckerDies, GateVerdict
    <3>2. design' = design /\ cdcReport' = cdcReport
      BY <2>3 DEF CheckerDies
    <3>3. Statuses(design') = Statuses(design)
      BY <3>2
    <3> QED
      BY <3>1, <3>2, <3>3 DEF CdcInv
  <2>4. CASE CheckerUnavailable
    <3>1. design' = design /\ cdcReport' = cdcReport /\ cdcGate' # "passed"
      BY <2>4 DEF CheckerUnavailable
    <3>2. Statuses(design') = Statuses(design)
      BY <3>1
    <3> QED
      BY <3>1, <3>2 DEF CdcInv
  <2>5. CASE UNCHANGED cdcVars
    <3>1. design' = design /\ cdcReport' = cdcReport /\ cdcGate' = cdcGate
      BY <2>5 DEF cdcVars
    <3>2. Statuses(design') = Statuses(design)
      BY <3>1
    <3> QED
      BY <3>1, <3>2 DEF CdcInv
  <2> QED
    BY <2>1, <2>2, <2>3, <2>4, <2>5 DEF CdcNext
<1> QED
  BY <1>1, <1>2, PTL DEF CdcSpec

\* Gate 6 passes a candidate only on a fresh report, and of a design the
\* parser understands only when every register that really samples another
\* clock's register is the first stage of a synchroniser without a bypass, for
\* designs of any size.
THEOREM CdcPassesSound == CdcSpec => []CdcPassSound
<1>1. CdcInv => CdcPassSound
  <2> SUFFICES ASSUME CdcInv, cdcGate = "passed"
               PROVE  /\ cdcReport = [status |-> "PASS", fresh |-> TRUE]
                      /\ Understood(design) =>
                           \A x \in RealCrossings(design) : Synchronised(design, x[1], x[2])
    BY DEF CdcPassSound
  <2>1. cdcReport = [status |-> "PASS", fresh |-> TRUE]
    BY DEF CdcInv
  <2>2. "PASS" \in Statuses(design)
    BY <2>1 DEF CdcInv
  <2>3. Understood(design) => Parsed(design)
    BY DEF CdcInv, Parsed
  <2> QED
    BY <2>1, <2>2, <2>3, PassIsSound
<1> QED
  BY <1>1, CdcInvariance, PTL

\* A violation the checker has reported of a design the parser understands,
\* without an asynchronous reset, is a crossing that is not synchronised.
THEOREM CdcViolationsReal == CdcSpec => []CdcViolationReal
<1>1. CdcInv => CdcViolationReal
  <2> SUFFICES ASSUME CdcInv, cdcReport = [status |-> "FAIL", fresh |-> TRUE],
                      Understood(design), \A s \in design : s.sep = ""
               PROVE  \E x \in RealCrossings(design) : ~Synchronised(design, x[1], x[2])
    BY DEF CdcViolationReal
  <2>1. "FAIL" \in Statuses(design) /\ Parsed(design)
    BY DEF CdcInv, Parsed
  <2> QED
    BY <2>1, FailIsReal
<1> QED
  BY <1>1, CdcInvariance, PTL
=============================================================================
